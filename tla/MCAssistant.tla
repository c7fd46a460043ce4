---------------------------- MODULE MCAssistant ----------------------------
(* Instances of Assistant for TLC.                                         *)
EXTENDS Assistant

Interchange == Permutations(Id) \union Permutations(Session)
=============================================================================
