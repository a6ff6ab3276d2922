-------------------------- MODULE MCAgentPresence --------------------------
(***************************************************************************)
(* Small instances of AgentPresence for TLC.                               *)
(***************************************************************************)
EXTENDS AgentPresence, TLC
=============================================================================
