---------------------------- MODULE BatchStore -----------------------------
(***************************************************************************)
(* What the hub promises the agents that send it telemetry: the rows of a  *)
(* batch are stored together, once, and by the same step that remembers    *)
(* the batch's id, and what follows from a batch (patterns, alerts, events *)
(* on the bus) follows at most once and never from a batch that is not     *)
(* stored.                                                                 *)
(***************************************************************************)
CONSTANT Batch

VARIABLES
  stored,    \* the batches the hub has accepted
  rowsOf,    \* the batches whose rows are visible to a reader
  followed   \* the batches whose consequences have been drawn

Init == stored = {} /\ rowsOf = {} /\ followed = {}

Accept(b) ==
  /\ b \notin stored
  /\ stored' = stored \cup {b}
  /\ rowsOf' = rowsOf \cup {b}
  /\ UNCHANGED followed

Follow(b) ==
  /\ b \in stored \ followed
  /\ followed' = followed \cup {b}
  /\ UNCHANGED <<stored, rowsOf>>

Next == \E b \in Batch : Accept(b) \/ Follow(b)

Spec == Init /\ [][Next]_<<stored, rowsOf, followed>>
=============================================================================
