------------------------- MODULE MCInferenceWorker -------------------------
(* Instances of the inference process manager for TLC. *)
EXTENDS InferenceWorker, TLC

CallSymmetry == Permutations(Calls) \cup Permutations(Procs)
=============================================================================
