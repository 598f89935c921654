---------------------------- MODULE MCScheduler ----------------------------
(* Instances of Scheduler for TLC. *)
EXTENDS SaveScheduler, TLC

\* Contexts other than main are interchangeable.
Spawned == Permutations(Ctx \ {Main})

=============================================================================
