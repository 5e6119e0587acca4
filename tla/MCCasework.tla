---------------------------- MODULE MCCasework ----------------------------
(* Small instances of Casework for TLC. *)
EXTENDS Casework, TLC

DeskSymmetry == Permutations(Workers) \union Permutations(Cases)
                  \union Permutations(Assessments)
=============================================================================
