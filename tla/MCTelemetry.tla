---------------------------- MODULE MCTelemetry ----------------------------
(***************************************************************************)
(* Small instances of Telemetry for TLC.                                   *)
(***************************************************************************)
EXTENDS Telemetry, TLC

\* Every batch fills the spool, so that a second one makes room by a drop.
MCWeight == [b \in Batch |-> 1]

Symmetry == Permutations(Request)
=============================================================================
