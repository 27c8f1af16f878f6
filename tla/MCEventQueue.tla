---------------------------- MODULE MCEventQueue ----------------------------
(***************************************************************************)
(* Instances of EventQueue for TLC.  Threads and events are model values;  *)
(* interchangeable ones are a symmetry in the runs without liveness.       *)
(***************************************************************************)
EXTENDS EventQueue, TLC

Symmetry == Permutations(Producers) \cup Permutations(Closers) \cup Permutations(Events)

=============================================================================
