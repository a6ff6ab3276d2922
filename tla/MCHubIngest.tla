---------------------------- MODULE MCHubIngest ----------------------------
(***************************************************************************)
(* Small instances of HubIngest for TLC.                                   *)
(***************************************************************************)
EXTENDS HubIngest, TLC

\* Handlers differ in nothing but the request they serve.
Symmetry == Permutations(Request)
=============================================================================
