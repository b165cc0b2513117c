------------------------------ MODULE MCGoods ------------------------------
(***************************************************************************)
(* Finite instances of Goods.                                              *)
(***************************************************************************)
EXTENDS Goods, TLC

CONSTANTS c1, c2, herb, sword

\* c1 has a stack of herbs, and two swords of which one is worn; c2 has nothing.
Bag ==
    <<[owner |-> c1, name |-> herb, amount |-> 2, equip |-> FALSE],
      [owner |-> c1, name |-> sword, amount |-> 1, equip |-> TRUE],
      [owner |-> c1, name |-> sword, amount |-> 1, equip |-> FALSE]>>

\* Enough for one purchase.
Purse == [c \in Chars |-> 3]

Symmetry == Permutations(Workers)

=============================================================================
