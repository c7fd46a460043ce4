---------------------------- MODULE MCInterview ----------------------------
(* Instances of Interview for TLC.                                         *)
EXTENDS Interview

Runs == Permutations(Run)
=============================================================================
