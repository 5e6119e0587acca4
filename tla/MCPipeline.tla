---------------------------- MODULE MCPipeline ----------------------------
(* Small instances of Pipeline for TLC. *)
EXTENDS Pipeline, TLC

(* API processes are interchangeable. *)
ProcSymmetry == Permutations(Procs)
=============================================================================
