------------------------------- MODULE MCMail -------------------------------
(***************************************************************************)
(* Finite instances of Mail.                                               *)
(***************************************************************************)
EXTENDS Mail, TLC

CONSTANTS c1, c2, herb

\* c1 has a stack of herbs and a single one, and can pay for a letter; c2 has no items,
\* and what is sent to it, or earned by it, brings it to the cap.
Bag ==
    <<[owner |-> c1, name |-> herb, amount |-> 2, equip |-> FALSE],
      [owner |-> c1, name |-> herb, amount |-> 1, equip |-> FALSE]>>
Purse == c1 :> 53 @@ c2 :> 13
Weights == [n \in Names |-> 1]

Symmetry == Permutations(Workers)

=============================================================================
