--------------------------- MODULE MCAgentClient ---------------------------
(***************************************************************************)
(* Small instances of AgentClient for TLC.                                 *)
(***************************************************************************)
EXTENDS AgentClient, TLC

CONSTANTS b1, b2, b3

\* The last batch is as large as two others.
MCWeight == (b1 :> 1) @@ (b2 :> 1) @@ (b3 :> 2)
=============================================================================
