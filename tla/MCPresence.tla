----------------------------- MODULE MCPresence -----------------------------
(***************************************************************************)
(* Finite instances of Presence.                                           *)
(***************************************************************************)
EXTENDS Presence, TLC

Symmetry == Permutations(Conns)

=============================================================================
