---------------------------- MODULE Connections ----------------------------
(***************************************************************************)
(* What the social handlers of the map server share: which characters have  *)
(* a registered connection, and the goroutines that serve their frames      *)
(* (gateway/app/map.go).  A frame starts a goroutine at once, so frames of  *)
(* one client run side by side and overtake each other.                     *)
(***************************************************************************)
EXTENDS Naturals, FiniteSets, FiniteSetsExt

CONSTANTS
    Chars, Workers,
    Budgets       \* bounds: how many frames of each part a behaviour has, and
                  \* how much trouble (time-outs, failures) and closes

Parts == {"party", "guild", "friend", "chat", "script", "talk", "answer", "trouble", "close"}

ASSUME ConnectionsAssumption == Budgets \subseteq [Parts -> Nat] /\ IsFiniteSet(Chars)

VARIABLES
    live,         \* the characters of MapServer.conns
    op,           \* what each goroutine is doing
    budget        \* frames left

Idle == [pc |-> "idle"]

ConnInit ==
    /\ live = Chars
    /\ op = [w \in Workers |-> Idle]
    /\ budget \in Budgets

\* A part of the system takes one of the steps its bound leaves.
Spend(part) ==
    /\ budget[part] > 0
    /\ budget' = [budget EXCEPT ![part] = @ - 1]

\* A frame of c for a part arrives and goroutine w takes it.
Frame(w, c, part) == op[w] = Idle /\ c \in live /\ Spend(part)

At(w, pc) == op[w].pc = pc
Start(w, o) == op' = [op EXCEPT ![w] = o]
Goto(w, pc) == op' = [op EXCEPT ![w].pc = pc]
Return(w) == op' = [op EXCEPT ![w] = Idle]

\* connFor: a frame for c reaches a client.
connFor(c) == c \in live
=============================================================================
