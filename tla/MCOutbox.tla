------------------------------ MODULE MCOutbox ------------------------------
(***************************************************************************)
(* Instances of Outbox for TLC.                                            *)
(***************************************************************************)
EXTENDS Outbox, TLC

\* Events, pollers and workers are interchangeable: only safety runs use it.
Symmetry ==
  Permutations(Event) \union Permutations(Poller) \union Permutations(Worker)
=============================================================================
