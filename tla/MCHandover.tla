----------------------------- MODULE MCHandover -----------------------------
(***************************************************************************)
(* Finite instances of Handover.                                           *)
(***************************************************************************)
EXTENDS Handover, TLC

CONSTANTS p1, p2, a1, n1, n2

SameAccount == [p \in Clients |-> a1]
\* The account has a character.
OneChar == <<[account |-> a1, slot |-> 0, name |-> n1, reserved |-> FALSE]>>
=============================================================================
