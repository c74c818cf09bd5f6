-------------------------- MODULE MCStreamLifecycle --------------------------
(* Instances of StreamLifecycle for TLC; the .cfg files choose the requests, *)
(* the launch modes and the faults.                                          *)
EXTENDS StreamLifecycle, TLC

\* Requests of one kind are interchangeable.
Symmetry == Permutations(Finishers) \cup Permutations(Patchers)
=============================================================================
