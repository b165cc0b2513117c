---------------------------- MODULE AtomicTrade ----------------------------
(***************************************************************************)
(* What a player-to-player trade promises: the parties negotiate offers    *)
(* without moving anything, and an agreed trade exchanges both offers in   *)
(* one step or not at all.                                                 *)
(***************************************************************************)
EXTENDS Integers

CONSTANTS Chars, Names, Nobody

VARIABLES
    bag,    \* units of each item each character owns
    purse,  \* zeny each character owns
    deal    \* what each character offers, to whom, and whether it is final

vars == <<bag, purse, deal>>

NoDeal == [partner |-> Nobody, zeny |-> 0, give |-> [n \in Names |-> 0], locked |-> FALSE]

Init ==
    /\ bag \in [Chars -> [Names -> Nat]]
    /\ purse \in [Chars -> Nat]
    /\ deal = [c \in Chars |-> NoDeal]

\* Offers change, trades open and close; an offer that is final can only be
\* withdrawn together with its whole trade.
Negotiate ==
    /\ deal' # deal
    /\ \A c \in Chars : deal[c].locked => deal'[c] \in {deal[c], NoDeal}
    /\ UNCHANGED <<bag, purse>>

\* Both offers are final and are exchanged.
Exchange(a, b) ==
    /\ deal[a].partner = b /\ deal[b].partner = a
    /\ deal[a].locked /\ deal[b].locked
    /\ bag' = [bag EXCEPT
         ![a] = [n \in Names |-> bag[a][n] - deal[a].give[n] + deal[b].give[n]],
         ![b] = [n \in Names |-> bag[b][n] - deal[b].give[n] + deal[a].give[n]]]
    /\ purse' = [purse EXCEPT
         ![a] = purse[a] - deal[a].zeny + deal[b].zeny,
         ![b] = purse[b] - deal[b].zeny + deal[a].zeny]
    /\ deal' = [deal EXCEPT ![a] = NoDeal, ![b] = NoDeal]

Next == Negotiate \/ \E a, b \in Chars : a # b /\ Exchange(a, b)

Spec == Init /\ [][Next]_vars

=============================================================================
