---------------------------- MODULE MCWorldIndex ----------------------------
(***************************************************************************)
(* Finite instances of WorldIndex.                                         *)
(***************************************************************************)
EXTENDS WorldIndex, TLC

Symmetry == Permutations(Workers) \cup Permutations(Ids)

=============================================================================
