---------------------------- MODULE MCRuleEngine ----------------------------
(***************************************************************************)
(* Small instances of RuleEngine for TLC.  The code's Window is twice its  *)
(* Duration.                                                               *)
(***************************************************************************)
EXTENDS RuleEngine
=============================================================================
