------------------------------ MODULE MCBattle ------------------------------
(***************************************************************************)
(* Finite instances of Battle.                                             *)
(***************************************************************************)
EXTENDS Battle, TLC

CONSTANTS c1, c2

Bounds(spent) == [e \in Events |-> IF e \in DOMAIN spent THEN spent[e] ELSE 0]

\* Deaths and respawns; fights, with heals and a shutdown; and learning, with
\* fights, logouts and failures.
Instances ==
    {Bounds([deaths |-> 3, presses |-> 1, leaves |-> 1, stops |-> 1]),
     Bounds([fights |-> 2, ticks |-> 1]),
     Bounds([fights |-> 2, stops |-> 1]),
     Bounds([fights |-> 1, deaths |-> 1, heals |-> 1]),
     Bounds([learns |-> 2, leaves |-> 1, faults |-> 1]),
     Bounds([learns |-> 2, fights |-> 1]),
     Bounds([learns |-> 1, fights |-> 1, leaves |-> 1])}

\* One has to make a map of skills first, the other can cast.
Known == (c1 :> 0) @@ (c2 :> 1)
=============================================================================
