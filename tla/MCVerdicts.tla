---------------------------- MODULE MCVerdicts ----------------------------
(* Small instances of Verdicts for TLC. *)
EXTENDS Verdicts, TLC

WorkerSymmetry == Permutations(Workers)
=============================================================================
