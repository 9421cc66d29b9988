------------------------ MODULE MCSchedulerRegistry ------------------------
(* Finite instances of SchedulerRegistry.                                  *)
EXTENDS SchedulerRegistry, TLC

Symmetry ==
  Permutations(Apps) \cup Permutations(Schedulers) \cup Permutations(Workers)

=============================================================================
