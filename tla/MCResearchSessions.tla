--------------------------- MODULE MCResearchSessions ---------------------------
(***************************************************************************)
(* Instances of ResearchSessions for TLC.                                  *)
(***************************************************************************)
EXTENDS ResearchSessions, TLC

CONSTANTS a1, a2, c1

ApiSymmetry == Permutations(ApiCalls)
=================================================================================
