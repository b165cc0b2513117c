------------------------------ MODULE Economy ------------------------------
(***************************************************************************)
(* EconomyService (economy/app/service.go): DeductZenyFor and CreditZenyFor*)
(* move a character's zeny.  Every handler goroutine calls them directly;  *)
(* there is no lock and no transaction, so a movement is three database    *)
(* statements that other movements interleave with:                        *)
(*                                                                         *)
(*    load the char row  ->  append a ledger row  ->  write the balance    *)
(*                                                                         *)
(* and each of the three may fail.  The balance is written as an absolute  *)
(* value computed from the row loaded in the first statement.              *)
(***************************************************************************)
EXTENDS Zeny

CONSTANTS
    Chars,      \* characters
    Callers,    \* goroutines that call the service
    Amounts,    \* amounts callers pass, zero and negative ones included
    MaxRows     \* bound: ledger rows per character

ASSUME AmountsAssumption == Amounts \subseteq Int
ASSUME MaxRowsAssumption == MaxRows \in Nat

VARIABLES
    endow,      \* the balance each character was created with
    balance,    \* char.zeny
    rows,       \* number of zeny_ledger rows of each character
    sum,        \* SumByChar: the sum of the amounts of those rows
    drift,      \* history: amounts logged whose balance write then failed
    shared,     \* history: characters whose zeny two calls have moved at once
    pc,         \* the statement each goroutine is about to execute
    call,       \* the call each goroutine is executing
    next        \* the balance it computed from the row it loaded

vars == <<endow, balance, rows, sum, drift, shared, pc, call, next>>

Kinds == {"deduct", "credit"}
Calls == [char : Chars, kind : Kinds, amount : Amounts]
NoCall == [char |-> "none", kind |-> "none", amount |-> 0]

DeltaOf(w) == Delta(call[w].kind, call[w].amount)

\* w is executing a call on c and has validated it.
Committed(w, c) == pc[w] \in {"append", "write"} /\ call[w].char = c
\* w has logged its movement of c and not yet written the balance.
Writing(w, c) == pc[w] = "write" /\ call[w].char = c
Busy(c) == \E w \in Callers : pc[w] # "idle" /\ call[w].char = c

Init ==
    /\ endow \in [Chars -> 0 .. Half - 1]
    /\ balance = endow
    /\ rows = [c \in Chars |-> 0]
    /\ sum = [c \in Chars |-> 0]
    /\ drift = [c \in Chars |-> 0]
    /\ shared = {}
    /\ pc = [w \in Callers |-> "idle"]
    /\ call = [w \in Callers |-> NoCall]
    /\ next = [w \in Callers |-> 0]

\* The call returns, with or without an error: its locals are gone.
Return(w) ==
    /\ pc' = [pc EXCEPT ![w] = "idle"]
    /\ call' = [call EXCEPT ![w] = NoCall]
    /\ next' = [next EXCEPT ![w] = 0]

----------------------------------------------------------------------------
\* DeductZenyFor / CreditZenyFor entered.  A non-positive amount is refused
\* before anything is read, which leaves no trace.
Enter(w) ==
    /\ pc[w] = "idle"
    /\ \E m \in Calls :
         /\ m.amount > 0
         /\ rows[m.char] < MaxRows
         /\ shared' = IF Busy(m.char) THEN shared \cup {m.char} ELSE shared
         /\ call' = [call EXCEPT ![w] = m]
    /\ pc' = [pc EXCEPT ![w] = "load"]
    /\ UNCHANGED <<endow, balance, rows, sum, drift, next>>

\* findChar, NewZeny and Deduct / Credit.
Load(w) ==
    /\ pc[w] = "load"
    /\ MoveOk(call[w].kind, balance[call[w].char], call[w].amount)
    /\ next' = [next EXCEPT ![w] = balance[call[w].char] + DeltaOf(w)]
    /\ pc' = [pc EXCEPT ![w] = "append"]
    /\ UNCHANGED <<shared, endow, balance, rows, sum, drift, call>>

\* The call returns an error at load: the row could not be loaded, whatever it
\* holds, or the movement is not allowed.
Refuse(w) ==
    /\ pc[w] = "load"
    /\ Return(w)
    /\ UNCHANGED <<shared, endow, balance, rows, sum, drift>>

\* Mutant of AppendLedger: the row of a deduction is logged without its sign.
AppendUnsigned(w) ==
    /\ pc[w] = "append"
    /\ rows' = [rows EXCEPT ![call[w].char] = @ + 1]
    /\ sum' = [sum EXCEPT ![call[w].char] = @ + call[w].amount]
    /\ pc' = [pc EXCEPT ![w] = "write"]
    /\ UNCHANGED <<shared, endow, balance, drift, call, next>>

\* appendLedger succeeds.
AppendLedger(w) ==
    /\ pc[w] = "append"
    /\ rows' = [rows EXCEPT ![call[w].char] = @ + 1]
    /\ sum' = [sum EXCEPT ![call[w].char] = @ + DeltaOf(w)]
    /\ pc' = [pc EXCEPT ![w] = "write"]
    /\ UNCHANGED <<shared, endow, balance, drift, call, next>>

\* appendLedger fails and the call returns before the balance moves.
AppendFails(w) ==
    /\ pc[w] = "append"
    /\ Return(w)
    /\ UNCHANGED <<shared, endow, balance, rows, sum, drift>>

\* UpdateZeny: an absolute write of the balance computed at load time.
WriteBalance(w) ==
    /\ pc[w] = "write"
    /\ balance' = [balance EXCEPT ![call[w].char] = next[w]]
    /\ Return(w)
    /\ UNCHANGED <<shared, endow, rows, sum, drift>>

\* UpdateZeny fails: the ledger keeps the row of a movement that did not happen.
WriteFails(w) ==
    /\ pc[w] = "write"
    /\ drift' = [drift EXCEPT ![call[w].char] = @ + DeltaOf(w)]
    /\ Return(w)
    /\ UNCHANGED <<shared, endow, balance, rows, sum>>

Step(w) ==
    \/ Enter(w) \/ Load(w) \/ Refuse(w)
    \/ AppendLedger(w) \/ AppendFails(w)
    \/ WriteBalance(w) \/ WriteFails(w)

Next == \E w \in Callers : Step(w)

Spec == Init /\ [][Next]_vars

----------------------------------------------------------------------------
\* The variables hold values of their types; balances are only known to be
\* integers here, their range is BalanceInRange.
TypeOK ==
    /\ endow \in [Chars -> 0 .. Half - 1]
    /\ balance \in [Chars -> Int]
    /\ rows \in [Chars -> Nat]
    /\ sum \in [Chars -> Int]
    /\ drift \in [Chars -> Int]
    /\ shared \subseteq Chars
    /\ pc \in [Callers -> {"idle", "load", "append", "write"}]
    /\ call \in [Callers -> Calls \cup {NoCall}]
    /\ next \in [Callers -> Int]
    /\ \A w \in Callers : pc[w] # "idle" => call[w] \in Calls /\ call[w].amount > 0

\* Whatever the interleaving of movements, the char row never holds a negative
\* or wrapped balance ("so the caller never writes a negative or wrapped
\* balance to the DB", zeny.go:9), although the balance written was computed
\* from a row that may have changed since.
BalanceInRange == \A c \in Chars : balance[c] \in Balances

\* The strengthening that makes BalanceInRange inductive: what a goroutine
\* carries towards its write is in range as well.
NextInRange == \A w \in Callers : pc[w] \in {"append", "write"} => next[w] \in Balances

\* The audit trail explains the balance: endowment plus the ledger's sum, less
\* what was logged and then failed to be written, is the balance once the
\* write in progress (if any) has been made.  It holds for every character
\* until the first time that two calls overlap on it.
Reconciled ==
    \A c \in Chars \ shared :
        /\ \A w \in Callers :
              Writing(w, c) => balance[c] + DeltaOf(w) = endow[c] + sum[c] - drift[c]
        /\ (\A w \in Callers : ~Writing(w, c)) =>
              balance[c] = endow[c] + sum[c] - drift[c]

\* The strengthening of Reconciled, for the same characters: one call at a time,
\* and what it is going to write is the present balance plus its movement.
OneCallPerChar ==
    \A v, w \in Callers :
        /\ pc[v] # "idle" /\ pc[w] # "idle"
        /\ call[v].char = call[w].char /\ call[v].char \notin shared
        => v = w
NextIsFresh ==
    \A w \in Callers : pc[w] \in {"append", "write"} /\ call[w].char \notin shared =>
        next[w] = balance[call[w].char] + DeltaOf(w)

\* A character whose balance is exactly 2^31 and who has no movement under way.
Frozen(c) == balance[c] = Half /\ \A w \in Callers : ~Committed(w, c)

\* A balance of exactly 2^31, which Credit accepts, can never be moved again:
\* NewZeny reads the row as negative, so every later call is refused.
CapIsAbsorbing == [][\A c \in Chars : Frozen(c) => Frozen(c)']_vars

============================================================================
