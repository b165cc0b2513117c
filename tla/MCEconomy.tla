----------------------------- MODULE MCEconomy -----------------------------
(***************************************************************************)
(* Finite instances of Economy.                                            *)
(***************************************************************************)
EXTENDS Economy, TLC

Symmetry == Permutations(Callers) \cup Permutations(Chars)

=============================================================================
