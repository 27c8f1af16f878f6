------------------------- MODULE MCObservePipeline -------------------------
(***************************************************************************)
(* Instances of ObservePipeline for TLC: reset_runtime is serialised by    *)
(* runtime._lock and forgets the runtime, so one thread closes it.         *)
(***************************************************************************)
EXTENDS ObservePipeline, TLC

Symmetry == Permutations(Producers) \cup Permutations(Events)

=============================================================================
