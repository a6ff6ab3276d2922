---------------------------- MODULE BatchQueue -----------------------------
(***************************************************************************)
(* What the agent's spool promises the client that fills and drains it: a  *)
(* queue of batches within a byte limit that survives the process.  A      *)
(* batch enters at the tail and leaves at the head; nothing overtakes.     *)
(* Which event takes the head (an answer of the hub, the lack of room, a   *)
(* corrupt file) is no concern of the queue.                               *)
(***************************************************************************)
EXTENDS Naturals, Sequences, FiniteSetsExt

CONSTANTS Batch, Weight, MaxBytes

VARIABLE queue

Bytes(q) == MapThenSumSet(LAMBDA i : Weight[q[i]], DOMAIN q)

Init == queue = <<>>

Enqueue(b) ==
  /\ Bytes(queue) + Weight[b] <= MaxBytes
  /\ queue' = Append(queue, b)

Dequeue ==
  /\ queue # <<>>
  /\ queue' = Tail(queue)

Next == Dequeue \/ \E b \in Batch : Enqueue(b)

Spec == Init /\ [][Next]_queue
=============================================================================
