----------------------------- MODULE AgentQueue ----------------------------
(***************************************************************************)
(* The agent's spool directory implements BatchQueue: read in the order of *)
(* the file names, the files are the queue.  The order is not stored       *)
(* anywhere; Put recomputes it from the names that are left, so that it    *)
(* has to survive removals at the front, numbers that start again at 1     *)
(* and restarts of the process.                                            *)
(***************************************************************************)
EXTENDS AgentClient

\* The place of a file in the order of the names.
Place(d, n) == Cardinality({m \in DOMAIN d : m <= n})

\* A directory as the queue that names() lists.
InNameOrder(d) ==
  [i \in 1..Cardinality(DOMAIN d) |-> d[CHOOSE n \in DOMAIN d : Place(d, n) = i]]

Queue == INSTANCE BatchQueue WITH queue <- InNameOrder(dir)

\* Every step of the agent adds a batch behind all stored ones, removes the
\* one in front of them, or leaves the queue alone.
SpoolIsQueue == Queue!Spec
=============================================================================
