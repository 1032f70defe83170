------------------------------ MODULE MCDList ------------------------------
(* A small instance of the pointer lists for TLC. *)
EXTENDS DList

CONSTANTS j1, j2, j3

JobsThree == {j1, j2, j3}
Symmetry == Permutations(JobsThree)
=============================================================================
