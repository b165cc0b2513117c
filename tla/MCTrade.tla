------------------------------ MODULE MCTrade ------------------------------
(***************************************************************************)
(* Finite instances of Trade.                                              *)
(***************************************************************************)
EXTENDS Trade, TLC

CONSTANTS c1, c2, herb

\* c1 holds a stack of two herbs, c2 a single one.
TwoStacks ==
    <<[owner |-> c1, name |-> herb, amount |-> 2, equip |-> FALSE],
      [owner |-> c2, name |-> herb, amount |-> 1, equip |-> FALSE]>>

\* Everyone has two zeny.
TwoZeny == [c \in Chars |-> 2]

Symmetry == Permutations(Chars)

=============================================================================
