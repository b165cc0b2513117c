--------------------------- MODULE ServiceProofs ---------------------------
(***************************************************************************)
(* Proofs about four parts of the servers that each keep state of their     *)
(* own: EconomyService (Economy), the indexes of WorldService (WorldIndex),  *)
(* the way of a client through the login and char servers (Handover), and   *)
(* a connection of a gateway listener (Wire).  They share no state; each    *)
(* section is about the specification of one.                               *)
(***************************************************************************)
EXTENDS Economy, WorldIndex, Handover, Wire, FiniteSetTheorems, SequenceTheorems, TLAPS

-----------------------------------------------------------------------------
\* EconomyService, for any set of characters and goroutines, any amounts and any
\* integer width.

\* A movement that passes the validation of DeductZenyFor / CreditZenyFor ends
\* in range, whatever balance it was computed from.
LEMMA MoveStaysInRange ==
    ASSUME NEW kind \in {"deduct", "credit"}, NEW u \in Balances, NEW amount \in Int,
           amount > 0, MoveOk(kind, u, amount)
    PROVE  u + Delta(kind, amount) \in Balances
<1> USE HalfAssumption DEF Balances
<1>1. CASE kind = "deduct"
  <2>1. Int32(u) >= amount
    BY <1>1 DEF MoveOk, DeductOk
  <2>2. u >= amount
    BY <2>1 DEF Int32
  <2> QED BY <1>1, <2>2 DEF Delta
<1>2. CASE kind = "credit"
  BY <1>2 DEF MoveOk, CreditOk, Delta
<1> QED BY <1>1, <1>2

\* The signed amount of a call is an integer.
LEMMA DeltaType ==
    ASSUME NEW kind \in {"deduct", "credit"}, NEW amount \in Int
    PROVE  Delta(kind, amount) \in Int
  BY DEF Delta

\* A balance of exactly 2^31 is read back as negative.
LEMMA CapIsNegative == ~NewZenyOk(Half)
  BY HalfAssumption DEF NewZenyOk, Int32

\* Type correctness of the movement state machine.
THEOREM TypeCorrect == Spec => []TypeOK
<1>1. Init => TypeOK
  <2> SUFFICES ASSUME Init PROVE TypeOK
    OBVIOUS
  <2>1. balance \in [Chars -> Int]
    BY HalfAssumption DEF Init
  <2> QED BY <2>1 DEF Init, TypeOK
<1>2. TypeOK /\ [Next]_vars => TypeOK'
  <2> SUFFICES ASSUME TypeOK, [Next]_vars PROVE TypeOK'
    OBVIOUS
  <2> USE AmountsAssumption
  <2>1. ASSUME NEW w \in Callers, Enter(w) PROVE TypeOK'
    <3>1. PICK m \in Calls :
            /\ m.amount > 0
            /\ call' = [call EXCEPT ![w] = m]
            /\ shared' = IF Busy(m.char) THEN shared \cup {m.char} ELSE shared
      BY <2>1 DEF Enter
    <3>2. shared' \subseteq Chars
      <4>1. m.char \in Chars
        BY DEF Calls
      <4> QED BY <3>1, <4>1 DEF TypeOK
    <3> QED BY <2>1, <3>1, <3>2 DEF Enter, TypeOK
  <2>2. ASSUME NEW w \in Callers, Load(w) PROVE TypeOK'
    <3>1. call[w] \in Calls
      BY <2>2 DEF Load, TypeOK
    <3>2. DeltaOf(w) \in Int
      BY <3>1, DeltaType DEF Calls, Kinds, DeltaOf
    <3>3. next' \in [Callers -> Int]
      BY <2>2, <3>1, <3>2 DEF Load, TypeOK, Calls
    <3> QED BY <2>2, <3>3 DEF Load, TypeOK
  <2>3. ASSUME NEW w \in Callers, Refuse(w) PROVE TypeOK'
    BY <2>3 DEF Refuse, Return, TypeOK
  <2>4. ASSUME NEW w \in Callers, AppendLedger(w) PROVE TypeOK'
    <3>1. call[w] \in Calls
      BY <2>4 DEF AppendLedger, TypeOK
    <3>2. DeltaOf(w) \in Int
      BY <3>1, DeltaType DEF Calls, Kinds, DeltaOf
    <3>3. rows' \in [Chars -> Nat] /\ sum' \in [Chars -> Int]
      BY <2>4, <3>1, <3>2 DEF AppendLedger, TypeOK, Calls
    <3> QED BY <2>4, <3>3 DEF AppendLedger, TypeOK
  <2>5. ASSUME NEW w \in Callers, AppendFails(w) PROVE TypeOK'
    BY <2>5 DEF AppendFails, Return, TypeOK
  <2>6. ASSUME NEW w \in Callers, WriteBalance(w) PROVE TypeOK'
    <3>1. balance' \in [Chars -> Int]
      BY <2>6 DEF WriteBalance, TypeOK
    <3> QED BY <2>6, <3>1 DEF WriteBalance, Return, TypeOK
  <2>7. ASSUME NEW w \in Callers, WriteFails(w) PROVE TypeOK'
    <3>1. call[w] \in Calls
      BY <2>7 DEF WriteFails, TypeOK
    <3>2. DeltaOf(w) \in Int
      BY <3>1, DeltaType DEF Calls, Kinds, DeltaOf
    <3>3. drift' \in [Chars -> Int]
      BY <2>7, <3>1, <3>2 DEF WriteFails, TypeOK, Calls
    <3> QED BY <2>7, <3>3 DEF WriteFails, Return, TypeOK
  <2>8. CASE UNCHANGED vars
    BY <2>8 DEF vars, TypeOK
  <2> QED BY <2>1, <2>2, <2>3, <2>4, <2>5, <2>6, <2>7, <2>8 DEF Next, Step
<1> QED BY <1>1, <1>2, PTL DEF Spec

\* The invariant behind BalanceInRange: the row and every value on its way to
\* the row are in range.
RangeInv == TypeOK /\ BalanceInRange /\ NextInRange

\* However movements of one character interleave, its row never holds a
\* negative balance nor one above 2^31.
THEOREM RangeCorrect == Spec => []BalanceInRange
<1>1. Init => BalanceInRange /\ NextInRange
  BY HalfAssumption DEF Init, BalanceInRange, NextInRange, Balances
<1>2. RangeInv /\ TypeOK' /\ [Next]_vars => (BalanceInRange /\ NextInRange)'
  <2> SUFFICES ASSUME RangeInv, [Next]_vars PROVE (BalanceInRange /\ NextInRange)'
    OBVIOUS
  <2> USE AmountsAssumption DEF RangeInv
  <2>1. ASSUME NEW w \in Callers, Enter(w) PROVE (BalanceInRange /\ NextInRange)'
    BY <2>1 DEF Enter, TypeOK, BalanceInRange, NextInRange
  <2>2. ASSUME NEW w \in Callers, Load(w) PROVE (BalanceInRange /\ NextInRange)'
    <3> DEFINE c == call[w].char
    <3>1. call[w] \in Calls /\ call[w].amount > 0
      BY <2>2 DEF Load, TypeOK
    <3>2. c \in Chars /\ call[w].kind \in Kinds /\ call[w].amount \in Int
      BY <3>1 DEF Calls
    <3>3. balance[c] \in Balances
      BY <3>2 DEF BalanceInRange
    <3>4. MoveOk(call[w].kind, balance[c], call[w].amount)
      BY <2>2 DEF Load
    <3>5. balance[c] + DeltaOf(w) \in Balances
      BY <3>1, <3>2, <3>3, <3>4, MoveStaysInRange DEF DeltaOf, Kinds
    <3>6. next' = [next EXCEPT ![w] = balance[c] + DeltaOf(w)]
      BY <2>2 DEF Load
    <3>7. UNCHANGED balance /\ pc' = [pc EXCEPT ![w] = "append"]
      BY <2>2 DEF Load
    <3> HIDE DEF c
    <3>8. BalanceInRange'
      BY <3>7 DEF BalanceInRange
    <3>9. NextInRange'
      BY <3>5, <3>6, <3>7 DEF NextInRange, TypeOK
    <3> QED BY <3>8, <3>9
  <2>3. ASSUME NEW w \in Callers, Refuse(w) PROVE (BalanceInRange /\ NextInRange)'
    BY <2>3 DEF Refuse, Return, TypeOK, BalanceInRange, NextInRange
  <2>4. ASSUME NEW w \in Callers, AppendLedger(w) PROVE (BalanceInRange /\ NextInRange)'
    BY <2>4 DEF AppendLedger, TypeOK, BalanceInRange, NextInRange
  <2>5. ASSUME NEW w \in Callers, AppendFails(w) PROVE (BalanceInRange /\ NextInRange)'
    BY <2>5 DEF AppendFails, Return, TypeOK, BalanceInRange, NextInRange
  <2>6. ASSUME NEW w \in Callers, WriteBalance(w) PROVE (BalanceInRange /\ NextInRange)'
    <3>1. next[w] \in Balances
      BY <2>6 DEF WriteBalance, NextInRange
    <3> QED BY <2>6, <3>1 DEF WriteBalance, Return, TypeOK, BalanceInRange, NextInRange
  <2>7. ASSUME NEW w \in Callers, WriteFails(w) PROVE (BalanceInRange /\ NextInRange)'
    BY <2>7 DEF WriteFails, Return, TypeOK, BalanceInRange, NextInRange
  <2>8. CASE UNCHANGED vars
    BY <2>8 DEF vars, BalanceInRange, NextInRange
  <2> QED BY <2>1, <2>2, <2>3, <2>4, <2>5, <2>6, <2>7, <2>8 DEF Next, Step
<1> QED BY <1>1, <1>2, TypeCorrect, PTL DEF Spec, RangeInv

\* Until two calls overlap on a character, the ledger explains its balance at
\* every instant, failed appends and failed balance writes included.
\* The invariant (Inv below) adds that such a character has at most one call and
\* that what it is about to write is the present balance plus its own movement.
THEOREM ReconciledCorrect == Spec => []Reconciled
<1> DEFINE Inv == OneCallPerChar /\ NextIsFresh /\ Reconciled
<1>1. Init => Inv
  BY HalfAssumption DEF Init, OneCallPerChar, NextIsFresh, Reconciled, Writing
<1>2. TypeOK /\ TypeOK' /\ Inv /\ [Next]_vars => Inv'
  <2> SUFFICES ASSUME TypeOK, TypeOK', Inv, [Next]_vars PROVE Inv'
    OBVIOUS
  <2> USE AmountsAssumption
  <2>0. ASSUME NEW w \in Callers, pc[w] # "idle"
        PROVE  call[w] \in Calls /\ call[w].char \in Chars /\ DeltaOf(w) \in Int
    BY <2>0, DeltaType DEF TypeOK, Calls, Kinds, DeltaOf
  <2>1. ASSUME NEW w \in Callers, Enter(w) PROVE Inv'
    <3>1. PICK m \in Calls :
            /\ call' = [call EXCEPT ![w] = m]
            /\ shared' = IF Busy(m.char) THEN shared \cup {m.char} ELSE shared
      BY <2>1 DEF Enter
    <3>2. pc' = [pc EXCEPT ![w] = "load"] /\ pc[w] = "idle"
      BY <2>1 DEF Enter
    <3>3. OneCallPerChar'
      <4> SUFFICES ASSUME NEW u \in Callers, NEW v \in Callers,
                          pc'[u] # "idle", pc'[v] # "idle",
                          call'[u].char = call'[v].char, call'[u].char \notin shared'
                   PROVE  u = v
        BY DEF OneCallPerChar
      <4>1. CASE u # w /\ v # w
        BY <3>1, <3>2, <4>1 DEF OneCallPerChar, TypeOK
      <4>2. CASE u = w /\ v # w
        BY <3>1, <3>2, <4>2 DEF TypeOK, Busy
      <4>3. CASE u # w /\ v = w
        BY <3>1, <3>2, <4>3 DEF TypeOK, Busy
      <4> QED BY <4>1, <4>2, <4>3
    <3>4. \A v \in Callers : v # w => pc'[v] = pc[v] /\ call'[v] = call[v]
      BY <3>1, <3>2 DEF TypeOK
    <3>5. pc'[w] = "load"
      BY <3>2 DEF TypeOK
    <3>6. UNCHANGED <<endow, balance, sum, drift, next>>
      BY <2>1 DEF Enter
    <3>7. NextIsFresh'
      BY <3>1, <3>4, <3>5, <3>6 DEF NextIsFresh, DeltaOf
    <3>8. Reconciled'
      BY <3>1, <3>2, <3>4, <3>5, <3>6 DEF Reconciled, Writing, DeltaOf
    <3> QED BY <3>3, <3>7, <3>8
  <2>2. ASSUME NEW w \in Callers, Load(w) PROVE Inv'
    <3>1. pc[w] = "load" /\ pc' = [pc EXCEPT ![w] = "append"]
      BY <2>2 DEF Load
    <3>2. next' = [next EXCEPT ![w] = balance[call[w].char] + DeltaOf(w)]
      BY <2>2 DEF Load
    <3>3. UNCHANGED <<shared, endow, balance, sum, drift, call>>
      BY <2>2 DEF Load
    <3>4. OneCallPerChar'
      BY <3>1, <3>3 DEF OneCallPerChar, TypeOK
    <3>5. NextIsFresh'
      BY <3>1, <3>2, <3>3 DEF NextIsFresh, DeltaOf, TypeOK
    <3>6. Reconciled'
      BY <3>1, <3>3 DEF Reconciled, Writing, DeltaOf, TypeOK
    <3> QED BY <3>4, <3>5, <3>6
  <2>3. ASSUME NEW w \in Callers, pc[w] \in {"load", "append"}, Return(w),
               UNCHANGED <<shared, endow, balance, sum, drift>>
        PROVE  Inv'
    <3>1. \A v \in Callers : v # w => pc'[v] = pc[v] /\ call'[v] = call[v] /\ next'[v] = next[v]
      BY <2>3 DEF Return, TypeOK
    <3>2. pc'[w] = "idle"
      BY <2>3 DEF Return, TypeOK
    <3>3. OneCallPerChar'
      BY <2>3, <3>1, <3>2 DEF OneCallPerChar
    <3>4. NextIsFresh'
      BY <2>3, <3>1, <3>2 DEF NextIsFresh, DeltaOf
    <3>5. Reconciled'
      BY <2>3, <3>1, <3>2 DEF Reconciled, Writing, DeltaOf
    <3> QED BY <3>3, <3>4, <3>5
  <2>4. ASSUME NEW w \in Callers, AppendLedger(w) PROVE Inv'
    <3> DEFINE c == call[w].char
    <3>1. pc[w] = "append" /\ pc' = [pc EXCEPT ![w] = "write"]
      BY <2>4 DEF AppendLedger
    <3>2. UNCHANGED <<shared, endow, balance, drift, call, next>>
      BY <2>4 DEF AppendLedger
    <3>3. sum' = [sum EXCEPT ![c] = sum[c] + DeltaOf(w)]
      BY <2>4 DEF AppendLedger
    <3>4. c \in Chars /\ DeltaOf(w) \in Int
      BY <2>0, <3>1
    <3>5. c \notin shared => \A v \in Callers : pc[v] # "idle" /\ call[v].char = c => v = w
      BY <3>1 DEF OneCallPerChar
    <3>6. OneCallPerChar'
      BY <3>1, <3>2 DEF OneCallPerChar, TypeOK
    <3>7. NextIsFresh'
      BY <3>1, <3>2 DEF NextIsFresh, DeltaOf, TypeOK
    <3>8. c \notin shared => balance[c] = endow[c] + sum[c] - drift[c]
      <4> SUFFICES ASSUME c \notin shared PROVE balance[c] = endow[c] + sum[c] - drift[c]
        OBVIOUS
      <4>1. \A v \in Callers : ~Writing(v, c)
        BY <3>1, <3>5 DEF Writing
      <4> QED BY <4>1, <3>4 DEF Reconciled
    <3>9. ASSUME NEW d \in Chars \ shared PROVE
            /\ \A v \in Callers : Writing(v, d)' =>
                 balance'[d] + DeltaOf(v)' = endow'[d] + sum'[d] - drift'[d]
            /\ (\A v \in Callers : ~Writing(v, d)') =>
                 balance'[d] = endow'[d] + sum'[d] - drift'[d]
      <4> HIDE DEF c
      <4>0. /\ pc' \in [Callers -> {"idle", "load", "append", "write"}]
            /\ pc'[w] = "write"
            /\ \A v \in Callers : v # w => pc'[v] = pc[v]
            /\ call' = call
            /\ \A v \in Callers : DeltaOf(v)' = DeltaOf(v)
        BY <3>1, <3>2 DEF TypeOK, DeltaOf
      <4>1. CASE d = c
        <5>1. sum'[d] = sum[c] + DeltaOf(w)
          BY <3>3, <3>4, <4>1 DEF TypeOK
        <5>2. endow[c] \in Int /\ balance[c] \in Int /\ sum[c] \in Int /\ drift[c] \in Int
          BY <3>4, HalfAssumption DEF TypeOK
        <5>3. balance'[d] + DeltaOf(w) = endow'[d] + sum'[d] - drift'[d]
          BY <5>1, <5>2, <3>2, <3>4, <3>8, <4>1
        <5>4. \A v \in Callers : Writing(v, d)' => v = w
          BY <3>5, <4>0, <4>1 DEF Writing
        <5>5. Writing(w, d)'
          BY <4>0, <4>1 DEF Writing, c
        <5> QED BY <5>3, <5>4, <5>5, <4>0
      <4>2. CASE d # c
        <5>1. sum'[d] = sum[d]
          BY <3>3, <4>2 DEF TypeOK
        <5>2. \A v \in Callers : Writing(v, d)' <=> Writing(v, d)
          BY <3>1, <4>0, <4>2 DEF Writing, c
        <5> QED BY <5>1, <5>2, <4>0, <3>2 DEF Reconciled
      <4> QED BY <4>1, <4>2
    <3>10. Reconciled'
      BY <3>2, <3>9 DEF Reconciled
    <3> QED BY <3>6, <3>7, <3>10
  <2>6. ASSUME NEW w \in Callers, WriteBalance(w) PROVE Inv'
    <3> DEFINE c == call[w].char
    <3>1. pc[w] = "write" /\ Return(w) /\ UNCHANGED <<shared, endow, sum, drift>>
      BY <2>6 DEF WriteBalance
    <3>2. c \in Chars /\ DeltaOf(w) \in Int
      BY <2>0, <3>1
    <3>3. balance' = [balance EXCEPT ![c] = next[w]]
      BY <2>6 DEF WriteBalance
    <3>4. c \notin shared => next[w] = endow[c] + sum[c] - drift[c]
      <4> SUFFICES ASSUME c \notin shared PROVE next[w] = endow[c] + sum[c] - drift[c]
        OBVIOUS
      <4>1. next[w] = balance[c] + DeltaOf(w)
        BY <3>1 DEF NextIsFresh
      <4>2. balance[c] + DeltaOf(w) = endow[c] + sum[c] - drift[c]
        BY <3>1, <3>2 DEF Reconciled, Writing
      <4> QED BY <4>1, <4>2
    <3>5. c \notin shared => \A v \in Callers : pc[v] # "idle" /\ call[v].char = c => v = w
      BY <3>1 DEF OneCallPerChar
    <3>6. \A v \in Callers : v # w => pc'[v] = pc[v] /\ call'[v] = call[v] /\ next'[v] = next[v]
      BY <3>1 DEF Return, TypeOK
    <3>7. pc'[w] = "idle"
      BY <3>1 DEF Return, TypeOK
    <3> HIDE DEF c
    <3>8. OneCallPerChar'
      BY <3>1, <3>6, <3>7 DEF OneCallPerChar
    <3>9. NextIsFresh'
      <4> SUFFICES ASSUME NEW v \in Callers, pc'[v] \in {"append", "write"},
                          call'[v].char \notin shared
                   PROVE  next'[v] = balance'[call'[v].char] + DeltaOf(v)'
        BY <3>1 DEF NextIsFresh
      <4>1. v # w /\ pc[v] \in {"append", "write"} /\ call[v].char # c
        BY <3>5, <3>6, <3>7
      <4>2. balance'[call[v].char] = balance[call[v].char]
        BY <2>0, <3>3, <4>1 DEF TypeOK
      <4> QED BY <3>6, <4>1, <4>2 DEF NextIsFresh, DeltaOf
    <3>10. ASSUME NEW d \in Chars \ shared PROVE
            /\ \A v \in Callers : Writing(v, d)' =>
                 balance'[d] + DeltaOf(v)' = endow'[d] + sum'[d] - drift'[d]
            /\ (\A v \in Callers : ~Writing(v, d)') =>
                 balance'[d] = endow'[d] + sum'[d] - drift'[d]
      <4>1. CASE d = c
        <5>1. balance'[d] = endow'[d] + sum'[d] - drift'[d]
          BY <3>1, <3>2, <3>3, <3>4, <4>1 DEF TypeOK
        <5>2. \A v \in Callers : ~Writing(v, d)'
          BY <3>5, <3>6, <3>7, <4>1 DEF Writing
        <5> QED BY <5>1, <5>2
      <4>2. CASE d # c
        <5>1. balance'[d] = balance[d]
          BY <3>3, <4>2 DEF TypeOK
        <5>2. \A v \in Callers : Writing(v, d)' <=> Writing(v, d)
          BY <3>6, <3>7, <4>2 DEF Writing, c
        <5>3. \A v \in Callers : Writing(v, d)' => DeltaOf(v)' = DeltaOf(v)
          BY <3>6, <3>7 DEF Writing, DeltaOf
        <5> QED BY <5>1, <5>2, <5>3, <3>1 DEF Reconciled
      <4> QED BY <4>1, <4>2
    <3>11. Reconciled'
      BY <3>1, <3>10 DEF Reconciled
    <3> QED BY <3>8, <3>9, <3>11
  <2>7. ASSUME NEW w \in Callers, WriteFails(w) PROVE Inv'
    <3> DEFINE c == call[w].char
    <3>1. pc[w] = "write" /\ Return(w) /\ UNCHANGED <<shared, endow, balance, sum>>
      BY <2>7 DEF WriteFails
    <3>2. c \in Chars /\ DeltaOf(w) \in Int
      BY <2>0, <3>1
    <3>3. drift' = [drift EXCEPT ![c] = drift[c] + DeltaOf(w)]
      BY <2>7 DEF WriteFails
    <3>4. c \notin shared => balance[c] + DeltaOf(w) = endow[c] + sum[c] - drift[c]
      BY <3>1, <3>2 DEF Reconciled, Writing
    <3>5. c \notin shared => \A v \in Callers : pc[v] # "idle" /\ call[v].char = c => v = w
      BY <3>1 DEF OneCallPerChar
    <3>6. \A v \in Callers : v # w => pc'[v] = pc[v] /\ call'[v] = call[v] /\ next'[v] = next[v]
      BY <3>1 DEF Return, TypeOK
    <3>7. pc'[w] = "idle"
      BY <3>1 DEF Return, TypeOK
    <3> HIDE DEF c
    <3>8. OneCallPerChar'
      BY <3>1, <3>6, <3>7 DEF OneCallPerChar
    <3>9. NextIsFresh'
      BY <3>1, <3>6, <3>7 DEF NextIsFresh, DeltaOf
    <3>10. ASSUME NEW d \in Chars \ shared PROVE
            /\ \A v \in Callers : Writing(v, d)' =>
                 balance'[d] + DeltaOf(v)' = endow'[d] + sum'[d] - drift'[d]
            /\ (\A v \in Callers : ~Writing(v, d)') =>
                 balance'[d] = endow'[d] + sum'[d] - drift'[d]
      <4>1. CASE d = c
        <5>0. endow[c] \in Int /\ balance[c] \in Int /\ sum[c] \in Int /\ drift[c] \in Int
          BY <3>2, HalfAssumption DEF TypeOK
        <5>1. drift'[d] = drift[c] + DeltaOf(w)
          BY <3>2, <3>3, <4>1 DEF TypeOK
        <5>2. balance'[d] = endow'[d] + sum'[d] - drift'[d]
          BY <5>0, <5>1, <3>1, <3>2, <3>4, <4>1
        <5>3. \A v \in Callers : ~Writing(v, d)'
          BY <3>5, <3>6, <3>7, <4>1 DEF Writing
        <5> QED BY <5>2, <5>3
      <4>2. CASE d # c
        <5>1. drift'[d] = drift[d]
          BY <3>3, <4>2 DEF TypeOK
        <5>2. \A v \in Callers : Writing(v, d)' <=> Writing(v, d)
          BY <3>6, <3>7, <4>2 DEF Writing, c
        <5>3. \A v \in Callers : Writing(v, d)' => DeltaOf(v)' = DeltaOf(v)
          BY <3>6, <3>7 DEF Writing, DeltaOf
        <5> QED BY <5>1, <5>2, <5>3, <3>1 DEF Reconciled
      <4> QED BY <4>1, <4>2
    <3>11. Reconciled'
      BY <3>1, <3>10 DEF Reconciled
    <3> QED BY <3>8, <3>9, <3>11
  <2>8. CASE UNCHANGED vars
    BY <2>8 DEF vars, OneCallPerChar, NextIsFresh, Reconciled, Writing, DeltaOf
  <2>9. ASSUME NEW w \in Callers, Refuse(w) \/ AppendFails(w) PROVE Inv'
    BY <2>3, <2>9 DEF Refuse, AppendFails
  <2> QED BY <2>1, <2>2, <2>4, <2>6, <2>7, <2>8, <2>9 DEF Next, Step
<1>3. Inv => Reconciled
  OBVIOUS
<1> HIDE DEF Inv
<1> QED BY <1>1, <1>2, <1>3, TypeCorrect, PTL DEF Spec

\* A character whose balance reached 2^31 keeps it for ever: no later call of
\* DeductZenyFor or CreditZenyFor gets past the load.
THEOREM CapCorrect == Spec => CapIsAbsorbing
<1> DEFINE Absorbs == \A c \in Chars : Frozen(c) => Frozen(c)'
<1>1. TypeOK /\ [Next]_vars => [Absorbs]_vars
  <2> SUFFICES ASSUME TypeOK, [Next]_vars, NEW c \in Chars, Frozen(c)
               PROVE  Frozen(c)'
    OBVIOUS
  <2>1. ASSUME NEW w \in Callers, Enter(w) PROVE Frozen(c)'
    <3>1. \A v \in Callers : pc'[v] \in {"append", "write"} => pc'[v] = pc[v] /\ call'[v] = call[v]
      BY <2>1 DEF Enter, TypeOK
    <3> QED BY <2>1, <3>1 DEF Enter, Frozen, Committed
  <2>2. ASSUME NEW w \in Callers, Load(w) PROVE Frozen(c)'
    <3>1. call[w].char # c
      BY <2>2, CapIsNegative DEF Load, Frozen, MoveOk
    <3> QED BY <2>2, <3>1 DEF Load, Frozen, Committed, TypeOK
  <2>3. ASSUME NEW w \in Callers, Return(w), UNCHANGED balance PROVE Frozen(c)'
    <3>1. \A v \in Callers : pc'[v] # "idle" => pc'[v] = pc[v] /\ call'[v] = call[v]
      BY <2>3 DEF Return, TypeOK
    <3> QED BY <2>3, <3>1 DEF Frozen, Committed
  <2>4. ASSUME NEW w \in Callers, AppendLedger(w) PROVE Frozen(c)'
    BY <2>4 DEF AppendLedger, Frozen, Committed, TypeOK
  <2>5. ASSUME NEW w \in Callers, WriteBalance(w) PROVE Frozen(c)'
    <3>1. call[w].char # c
      BY <2>5 DEF WriteBalance, Frozen, Committed
    <3>2. balance'[c] = balance[c]
      BY <2>5, <3>1 DEF WriteBalance, TypeOK
    <3>3. \A v \in Callers : pc'[v] # "idle" => pc'[v] = pc[v] /\ call'[v] = call[v]
      BY <2>5 DEF WriteBalance, Return, TypeOK
    <3> QED BY <3>2, <3>3 DEF Frozen, Committed
  <2>6. ASSUME NEW w \in Callers, Refuse(w) \/ AppendFails(w) \/ WriteFails(w)
        PROVE  Frozen(c)'
    BY <2>3, <2>6 DEF Refuse, AppendFails, WriteFails
  <2>7. CASE UNCHANGED vars
    BY <2>7 DEF vars, Frozen, Committed
  <2> QED BY <2>1, <2>2, <2>4, <2>5, <2>6, <2>7 DEF Next, Step
<1> HIDE DEF Absorbs
<1>2. Spec => [][Absorbs]_vars
  BY <1>1, TypeCorrect, PTL DEF Spec
<1> QED BY <1>2 DEF CapIsAbsorbing, Absorbs

-----------------------------------------------------------------------------
\* The indexes of WorldService, for any number of entities, maps, cells, goroutines and
\* calls.

\* The grid work a goroutine has left, as the calls make it up: all of it is for one
\* entity; the grid of AddEntity is made first, what follows a seat is the listing; and
\* every operation is on a map that has a grid (g), or that gets it first.
Orderly(j, g) ==
    /\ \A i \in DOMAIN j : j[i].id = j[1].id
    /\ \A i, k \in DOMAIN j : i < k => j[k].op # "ensure"
    /\ \A i, k \in DOMAIN j : i < k /\ j[i].op \in {"seat", "list"} => j[k].op = "list"
    /\ \A i \in DOMAIN j :
          \/ j[i].op = "ensure"
          \/ j[i].map \in g
          \/ j[1].op = "ensure" /\ j[1].map = j[i].map

HasOp(j, op, m) == \E i \in DOMAIN j : j[i].op = op /\ j[i].map = m

\* Where the grids should track an entity whose registry entry is a.
Expected(m, a) == IF a # Absent /\ a.map = m /\ a.cell \notin OffMap THEN a.cell ELSE Absent

\* What the work left for e will make of the grids s: a seat goes to where e is, on a
\* grid that does not track e or will be cleared of it first; a grid without one is
\* right as it is, or rightly cleared.
Completes(j, e, a, s) ==
    /\ \A i \in DOMAIN j : j[i].op = "seat" =>
          a # Absent /\ j[i].map = a.map /\ j[i].cell = a.cell
    /\ \A m \in Maps :
          /\ HasOp(j, "seat", m) /\ ~HasOp(j, "unseat", m) => s[m][e] = Absent
          /\ ~HasOp(j, "seat", m) /\ HasOp(j, "unseat", m) => Expected(m, a) = Absent
          /\ ~HasOp(j, "seat", m) /\ ~HasOp(j, "unseat", m) => s[m][e] = Expected(m, a)

\* The goroutine w has work left for e.
Engaged(w, e) == job[w] # <<>> /\ job[w][1].id = e

Tracked(e) ==
    /\ \A v, w \in Workers : Engaged(v, e) /\ Engaged(w, e) => v = w
    /\ \A w \in Workers : Engaged(w, e) => Completes(job[w], e, at[e], seat)
    /\ (\A w \in Workers : ~Engaged(w, e)) => \A m \in Maps : seat[m][e] = Expected(m, at[e])
    /\ Live(e) => \/ at[e].map \in grids
                  \/ \E w \in Workers :
                        Engaged(w, e) /\ job[w][1].op = "ensure" /\ job[w][1].map = at[e].map

\* The inductive invariant.
IndexInv ==
    /\ IndexTypeOK
    /\ \A w \in Workers : Orderly(job[w], grids)
    /\ \A e \in Ids \ (raced \cup astray) : Tracked(e)

-----------------------------------------------------------------------------
\* The head and the rest of the work left.
LEMMA TailFacts ==
    ASSUME NEW j \in Seq(Ops), j # <<>>
    PROVE  /\ Head(j) = j[1] /\ 1 \in DOMAIN j /\ j[1] \in Ops
           /\ Tail(j) \in Seq(Ops)
           /\ \A i \in DOMAIN Tail(j) : Tail(j)[i] = j[i + 1] /\ i + 1 \in DOMAIN j /\ 1 < i + 1
           /\ \A i, k \in DOMAIN Tail(j) : i < k => i + 1 < k + 1
           /\ \A i \in DOMAIN j : i # 1 => i - 1 \in DOMAIN Tail(j) /\ j[i] = Tail(j)[i - 1]
           /\ \A i \in DOMAIN j : i = 1 \/ 1 < i
           /\ Tail(j) # <<>> => 1 \in DOMAIN Tail(j)
<1>1. Len(j) \in Nat \ {0} /\ DOMAIN j = 1 .. Len(j)
  OBVIOUS
<1>2. Head(j) = j[1] /\ j[1] \in Ops
  BY <1>1
<1>3. Tail(j) \in Seq(Ops) /\ Len(Tail(j)) = Len(j) - 1 /\ DOMAIN Tail(j) = 1 .. (Len(j) - 1)
  OBVIOUS
<1>4. \A i \in 1 .. (Len(j) - 1) : Tail(j)[i] = j[i + 1]
  OBVIOUS
<1>5. Tail(j) # <<>> => Len(Tail(j)) # 0
  BY <1>3
<1>6. \A i \in DOMAIN Tail(j) : Tail(j)[i] = j[i + 1] /\ i + 1 \in DOMAIN j /\ 1 < i + 1
  BY <1>1, <1>3, <1>4
<1>7. \A i \in DOMAIN j : i # 1 => i - 1 \in DOMAIN Tail(j) /\ i = (i - 1) + 1
  BY <1>1, <1>3
<1>8. \A i \in DOMAIN j : i # 1 => j[i] = Tail(j)[i - 1]
  BY <1>6, <1>7
<1>9. \A i, k \in DOMAIN Tail(j) : i < k => i + 1 < k + 1
  BY <1>3
<1>10. 1 \in DOMAIN j /\ \A i \in DOMAIN j : i = 1 \/ 1 < i
  BY <1>1
<1>11. Tail(j) # <<>> => 1 \in DOMAIN Tail(j)
  BY <1>1, <1>3, <1>5
<1> QED BY <1>2, <1>3, <1>6, <1>7, <1>8, <1>9, <1>10, <1>11

LEMMA OrderlyTail ==
    ASSUME NEW j \in Seq(Ops), j # <<>>, NEW g, NEW h, g \subseteq h, Orderly(j, g),
           j[1].op = "ensure" => j[1].map \in h
    PROVE  /\ Orderly(Tail(j), h)
           /\ Tail(j) # <<>> => Tail(j)[1].id = j[1].id /\ Tail(j)[1].op # "ensure"
<1> DEFINE t == Tail(j)
<1>1. /\ 1 \in DOMAIN j
      /\ \A i \in DOMAIN t : t[i] = j[i + 1] /\ i + 1 \in DOMAIN j /\ 1 < i + 1
      /\ \A i, k \in DOMAIN t : i < k => i + 1 < k + 1
      /\ t # <<>> => 1 \in DOMAIN t
  BY TailFacts
<1> HIDE DEF t
<1>2. \A i \in DOMAIN t : t[i].id = j[1].id /\ t[i].op # "ensure" /\ t[i].map \in h
  BY <1>1 DEF Orderly
<1>3. \A i \in DOMAIN t : 1 \in DOMAIN t
  BY <1>1 DEF t
<1>4. \A i, k \in DOMAIN t : i < k /\ t[i].op \in {"seat", "list"} => t[k].op = "list"
  BY <1>1 DEF Orderly
<1>5. \A i \in DOMAIN t : t[i].id = t[1].id
  BY <1>2, <1>3
<1> QED BY <1>1, <1>2, <1>4, <1>5 DEF Orderly, t

LEMMA OrderlyGrows ==
    ASSUME NEW j, NEW g, NEW h, g \subseteq h, Orderly(j, g)
    PROVE  Orderly(j, h)
  BY DEF Orderly

\* With no work left the grids are right.
LEMMA NothingLeft ==
    ASSUME NEW e, NEW a, NEW s
    PROVE  Completes(<<>>, e, a, s) <=> \A m \in Maps : s[m][e] = Expected(m, a)
  BY DEF Completes, HasOp

\* Executing the first operation leaves work that completes as well.
LEMMA CompletesTail ==
    ASSUME NEW j \in Seq(Ops), j # <<>>, NEW g, Orderly(j, g), NEW e \in Ids,
           NEW a, NEW s, NEW t, Completes(j, e, a, s),
           \/ j[1].op = "unseat" /\ \A m \in Maps :
                 t[m][e] = IF m = j[1].map THEN Absent ELSE s[m][e]
           \/ /\ j[1].op = "seat" /\ j[1].cell \notin OffMap
              /\ \A m \in Maps : t[m][e] = IF m = j[1].map THEN j[1].cell ELSE s[m][e]
           \/ j[1].op \in {"ensure", "list"} /\ \A m \in Maps : t[m][e] = s[m][e]
    PROVE  Completes(Tail(j), e, a, t)
<1> DEFINE r == Tail(j)
<1>1. /\ 1 \in DOMAIN j
      /\ \A i \in DOMAIN r : r[i] = j[i + 1] /\ i + 1 \in DOMAIN j /\ 1 < i + 1
      /\ \A i \in DOMAIN j : i # 1 => i - 1 \in DOMAIN r /\ j[i] = r[i - 1]
  BY TailFacts
<1> HIDE DEF r
<1>2. \A op, m : HasOp(j, op, m) <=> HasOp(r, op, m) \/ (j[1].op = op /\ j[1].map = m)
  BY <1>1 DEF HasOp
<1>3. \A i \in DOMAIN r : r[i].op = "seat" => a # Absent /\ r[i].map = a.map /\ r[i].cell = a.cell
  BY <1>1 DEF Completes
<1>4. ASSUME NEW m \in Maps
      PROVE  /\ HasOp(r, "seat", m) /\ ~HasOp(r, "unseat", m) => t[m][e] = Absent
             /\ ~HasOp(r, "seat", m) /\ HasOp(r, "unseat", m) => Expected(m, a) = Absent
             /\ ~HasOp(r, "seat", m) /\ ~HasOp(r, "unseat", m) => t[m][e] = Expected(m, a)
  <2>1. /\ HasOp(j, "seat", m) /\ ~HasOp(j, "unseat", m) => s[m][e] = Absent
        /\ ~HasOp(j, "seat", m) /\ HasOp(j, "unseat", m) => Expected(m, a) = Absent
        /\ ~HasOp(j, "seat", m) /\ ~HasOp(j, "unseat", m) => s[m][e] = Expected(m, a)
    BY DEF Completes
  <2>2. CASE j[1].op = "unseat"
    BY <1>2, <2>1, <2>2
  <2>3. CASE j[1].op = "seat" /\ j[1].cell \notin OffMap
    <3>1. ~HasOp(r, "unseat", m) /\ ~HasOp(r, "seat", m)
      BY <1>1, <2>3 DEF HasOp, Orderly
    <3>2. a # Absent /\ j[1].map = a.map /\ j[1].cell = a.cell
      BY <1>1, <2>3 DEF Completes
    <3> QED BY <1>2, <2>1, <2>3, <3>1, <3>2 DEF Expected
  <2>4. CASE j[1].op \in {"ensure", "list"}
    BY <1>2, <2>1, <2>4
  <2> QED BY <2>2, <2>3, <2>4
<1> QED BY <1>3, <1>4 DEF Completes, r

\* A seat that is refused leaves nothing to do: the entity is off the canvas.
LEMMA CompletesRefused ==
    ASSUME NEW j \in Seq(Ops), j # <<>>, NEW g, Orderly(j, g), NEW e \in Ids,
           NEW a, NEW s, Completes(j, e, a, s),
           j[1].op = "seat", s[j[1].map][e] # Absent \/ j[1].cell \in OffMap
    PROVE  Completes(<<>>, e, a, s)
<1>1. 1 \in DOMAIN j /\ j[1].map \in Maps /\ \A i \in DOMAIN j : i = 1 \/ 1 < i
  <2>1. 1 \in DOMAIN j /\ j[1] \in Ops /\ \A i \in DOMAIN j : i = 1 \/ 1 < i
    BY TailFacts
  <2> QED BY <2>1 DEF Ops
<1>2. \A m : ~HasOp(j, "unseat", m)
  BY <1>1 DEF HasOp, Orderly
<1>3. a # Absent /\ j[1].map = a.map /\ j[1].cell = a.cell
  BY <1>1 DEF Completes
<1>4. HasOp(j, "seat", a.map) /\ \A m : HasOp(j, "seat", m) => m = a.map
  BY <1>1, <1>3 DEF HasOp, Completes
<1>5. s[a.map][e] = Absent /\ a.cell \in OffMap
  BY <1>1, <1>2, <1>3, <1>4 DEF Completes
<1>6. \A m \in Maps : s[m][e] = Expected(m, a)
  BY <1>2, <1>4, <1>5 DEF Completes, Expected
<1> QED BY <1>6, NothingLeft

-----------------------------------------------------------------------------
\* A goroutine that executes an operation of its call keeps the invariant, if what it
\* has left is orderly and completes what the call began.
LEMMA ExecKeeps ==
    ASSUME IndexInv, NEW w \in Workers, job[w] # <<>>, NEW r \in Seq(Ops),
           NEW e \in Ids, e = job[w][1].id,
           job' = [job EXCEPT ![w] = r],
           UNCHANGED <<at, raced, astray>>, grids \subseteq grids',
           \A m \in Maps, x \in Ids : x # e => seat'[m][x] = seat[m][x],
           r # <<>> => r[1].id = e,
           job[w][1].op = "ensure" => job[w][1].map \in grids',
           Orderly(r, grids'),
           e \notin raced \cup astray => Completes(r, e, at[e], seat')
    PROVE  /\ \A v \in Workers : Orderly(job[v], grids)'
           /\ \A x \in Ids \ (raced \cup astray)' : Tracked(x)'
<1>1. \A v \in Workers : job'[v] = IF v = w THEN r ELSE job[v]
  BY DEF IndexInv, IndexTypeOK
<1>2. \A v \in Workers : Orderly(job'[v], grids')
  BY <1>1, OrderlyGrows DEF IndexInv
<1>3. ASSUME NEW x \in Ids \ (raced \cup astray)' PROVE Tracked(x)'
  <2>1. Tracked(x)
    BY <1>3 DEF IndexInv
  <2>2. \A v \in Workers : Engaged(v, x)' => Engaged(v, x)
    BY <1>1 DEF Engaged
  <2>3. \A v \in Workers : v # w => (Engaged(v, x)' <=> Engaged(v, x)) /\ job'[v] = job[v]
    BY <1>1 DEF Engaged
  <2>4. \A v, u \in Workers : Engaged(v, x)' /\ Engaged(u, x)' => v = u
    BY <2>1, <2>2 DEF Tracked
  <2>5. Live(x)' => \/ at'[x].map \in grids'
                    \/ \E v \in Workers : /\ Engaged(v, x)' /\ job'[v][1].op = "ensure"
                                          /\ job'[v][1].map = at'[x].map
    <3>1. CASE ~Live(x)
      BY <3>1 DEF Live
    <3>2. CASE at[x].map \in grids
      BY <3>2
    <3>3. ASSUME NEW v \in Workers, Engaged(v, x), job[v][1].op = "ensure",
                 job[v][1].map = at[x].map
          PROVE  at'[x].map \in grids' \/ (/\ Engaged(v, x)' /\ job'[v][1].op = "ensure"
                                           /\ job'[v][1].map = at'[x].map)
      BY <2>3, <3>3
    <3> QED BY <2>1, <3>1, <3>2, <3>3 DEF Tracked
  <2>6. CASE x # e
    <3>1. ~Engaged(w, x) /\ ~Engaged(w, x)'
      BY <1>1, <2>6 DEF Engaged
    <3>2. \A v \in Workers : (Engaged(v, x)' <=> Engaged(v, x)) /\ (Engaged(v, x) => job'[v] = job[v])
      BY <2>3, <3>1
    <3>3. \A m \in Maps : seat'[m][x] = seat[m][x]
      BY <2>6
    <3>4. \A j, a : Completes(j, x, a, seat) => Completes(j, x, a, seat')
      BY <3>3 DEF Completes
    <3>5. \A v \in Workers : Engaged(v, x)' => Completes(job'[v], x, at'[x], seat')
      BY <2>1, <3>2, <3>4 DEF Tracked
    <3>6. (\A v \in Workers : ~Engaged(v, x)') => \A m \in Maps : seat'[m][x] = Expected(m, at'[x])
      BY <2>1, <3>2, <3>3 DEF Tracked
    <3> QED BY <2>4, <2>5, <3>5, <3>6 DEF Tracked
  <2>7. CASE x = e
    <3>1. Engaged(w, x) /\ Completes(r, x, at'[x], seat')
      BY <1>3, <2>7 DEF Engaged
    <3>2. \A v \in Workers : Engaged(v, x)' => v = w
      BY <2>1, <2>2, <3>1 DEF Tracked
    <3>3. \A v \in Workers : Engaged(v, x)' => Completes(job'[v], x, at'[x], seat')
      BY <1>1, <3>1, <3>2
    <3>4. ASSUME \A v \in Workers : ~Engaged(v, x)' PROVE \A m \in Maps : seat'[m][x] = Expected(m, at'[x])
      <4>1. r = <<>>
        BY <1>1, <2>7, <3>4 DEF Engaged
      <4> QED BY <3>1, <4>1, NothingLeft
    <3> QED BY <2>4, <2>5, <3>3, <3>4 DEF Tracked
  <2> QED BY <2>6, <2>7
<1> QED BY <1>2, <1>3

\* A call on e keeps the invariant, if its program is orderly and completes what the
\* call did to the registry, seen from grids that are right about e.
LEMMA CallKeeps ==
    ASSUME IndexInv, NEW w \in Workers, NEW e \in Ids, NEW r \in Seq(Ops), Call(w, e, r),
           UNCHANGED seat, grids \subseteq grids', astray \subseteq astray',
           \A x \in Ids : x # e => at'[x] = at[x],
           \A i \in DOMAIN r : r[i].id = e,
           Orderly(r, grids'),
           /\ e \notin (raced \cup astray)'
           /\ \A m \in Maps : seat[m][e] = Expected(m, at[e])
           /\ Live(e) => at[e].map \in grids
           => /\ Completes(r, e, at'[e], seat)
              /\ Live(e)' => \/ at'[e].map \in grids'
                             \/ r # <<>> /\ r[1].op = "ensure" /\ r[1].map = at'[e].map
    PROVE  /\ \A v \in Workers : Orderly(job[v], grids)'
           /\ \A x \in Ids \ (raced \cup astray)' : Tracked(x)'
<1>1. /\ \A v \in Workers : job'[v] = IF v = w THEN r ELSE job[v]
      /\ job[w] = <<>>
  BY DEF IndexInv, IndexTypeOK, Call
<1>2. \A v \in Workers : Orderly(job'[v], grids')
  BY <1>1, OrderlyGrows DEF IndexInv
<1>3. \A v \in Workers : job[v] # <<>> => Head(job[v]) = job[v][1]
  BY TailFacts DEF IndexInv, IndexTypeOK
<1>4. r # <<>> => 1 \in DOMAIN r
  BY TailFacts
<1>5. ASSUME NEW x \in Ids \ (raced \cup astray)' PROVE Tracked(x)'
  <2>0. x \notin raced \cup astray
    BY <1>5 DEF Call
  <2>1. Tracked(x)
    BY <2>0 DEF IndexInv
  <2>2. CASE x # e
    <3>1. ~Engaged(w, x) /\ ~Engaged(w, x)'
      BY <1>1, <1>4, <2>2 DEF Engaged
    <3>2. \A v \in Workers : (Engaged(v, x)' <=> Engaged(v, x)) /\ (Engaged(v, x) => job'[v] = job[v])
      BY <1>1, <3>1 DEF Engaged
    <3>3. at'[x] = at[x]
      BY <2>2
    <3>4. \A v, u \in Workers : Engaged(v, x)' /\ Engaged(u, x)' => v = u
      BY <2>1, <3>2 DEF Tracked
    <3>5. \A v \in Workers : Engaged(v, x)' => Completes(job'[v], x, at'[x], seat')
      BY <2>1, <3>2, <3>3 DEF Tracked
    <3>6. (\A v \in Workers : ~Engaged(v, x)') => \A m \in Maps : seat'[m][x] = Expected(m, at'[x])
      BY <2>1, <3>2, <3>3 DEF Tracked
    <3>7. Live(x)' => \/ at'[x].map \in grids'
                      \/ \E v \in Workers : /\ Engaged(v, x)' /\ job'[v][1].op = "ensure"
                                            /\ job'[v][1].map = at'[x].map
      BY <2>1, <3>2, <3>3 DEF Tracked, Live
    <3> QED BY <3>4, <3>5, <3>6, <3>7 DEF Tracked
  <2>3. CASE x = e
    <3>1. \A v \in Workers : ~Engaged(v, e)
      BY <1>3, <1>5, <2>3 DEF Engaged, Call
    <3>2. \A v \in Workers : Engaged(v, e)' => v = w
      BY <1>1, <3>1 DEF Engaged
    <3>3. \A m \in Maps : seat[m][e] = Expected(m, at[e])
      BY <2>1, <2>3, <3>1 DEF Tracked
    <3>4. Live(e) => at[e].map \in grids
      BY <2>1, <2>3, <3>1 DEF Tracked
    <3>5. /\ Completes(r, e, at'[e], seat')
          /\ Live(e)' => \/ at'[e].map \in grids'
                         \/ r # <<>> /\ r[1].op = "ensure" /\ r[1].map = at'[e].map
      BY <1>5, <2>3, <3>3, <3>4
    <3>6. Engaged(w, e)' <=> r # <<>>
      BY <1>1, <1>4 DEF Engaged
    <3>7. (\A v \in Workers : ~Engaged(v, e)') => \A m \in Maps : seat'[m][e] = Expected(m, at'[e])
      BY <3>5, <3>6, NothingLeft
    <3>8. \A v \in Workers : Engaged(v, e)' => Completes(job'[v], e, at'[e], seat')
      BY <1>1, <3>2, <3>5
    <3>9. Live(e)' => \/ at'[e].map \in grids'
                      \/ \E v \in Workers : /\ Engaged(v, e)' /\ job'[v][1].op = "ensure"
                                            /\ job'[v][1].map = at'[e].map
      BY <1>1, <3>5, <3>6
    <3> QED BY <2>3, <3>2, <3>7, <3>8, <3>9 DEF Tracked
  <2> QED BY <2>2, <2>3
<1> QED BY <1>2, <1>5

-----------------------------------------------------------------------------
\* Programs are joined from at most three operations.
LEMMA JoinThree ==
    ASSUME NEW x \in Ops, NEW y \in Ops, NEW z \in Ops
    PROVE  /\ <<x>> \o <<y>> = <<x, y>>
           /\ <<x, y>> \o <<z>> = <<x, y, z>>
           /\ <<x>> \o <<>> = <<x>> /\ <<>> \o <<x>> = <<x>> /\ <<>> \o <<>> = <<>>
<1>1. <<x>> \o <<y>> = <<x, y>>
  <2> DEFINE j == <<x>> \o <<y>>
             k == <<x, y>>
  <2>1. <<x>> \in Seq(Ops) /\ <<y>> \in Seq(Ops) /\ k \in Seq(Ops)
    OBVIOUS
  <2>2. Len(<<x>>) = 1 /\ Len(<<y>>) = 1 /\ Len(k) = 2 /\ k[1] = x /\ k[2] = y
    OBVIOUS
  <2>3. j \in Seq(Ops) /\ Len(j) = 2 /\ j[1] = x /\ j[2] = y
    BY <2>1, <2>2, ConcatProperties
  <2> HIDE DEF j, k
  <2>4. \A i \in 1 .. 2 : j[i] = k[i]
    BY <2>2, <2>3
  <2> QED BY <2>1, <2>2, <2>3, <2>4, SeqEqual DEF j, k
<1>2. <<x, y>> \o <<z>> = <<x, y, z>>
  <2> DEFINE j == <<x, y>> \o <<z>>
             k == <<x, y, z>>
  <2>1. <<x, y>> \in Seq(Ops) /\ <<z>> \in Seq(Ops) /\ k \in Seq(Ops)
    OBVIOUS
  <2>2. /\ Len(<<x, y>>) = 2 /\ Len(<<z>>) = 1
        /\ Len(k) = 3 /\ k[1] = x /\ k[2] = y /\ k[3] = z
    OBVIOUS
  <2>3. j \in Seq(Ops) /\ Len(j) = 3 /\ j[1] = x /\ j[2] = y /\ j[3] = z
    BY <2>1, <2>2, ConcatProperties
  <2> HIDE DEF j, k
  <2>4. \A i \in 1 .. 3 : j[i] = k[i]
    BY <2>2, <2>3
  <2> QED BY <2>1, <2>2, <2>3, <2>4, SeqEqual DEF j, k
<1>3. <<x>> \o <<>> = <<x>>
  OBVIOUS
<1>4. <<>> \o <<x>> = <<x>>
  OBVIOUS
<1>5. <<>> \o <<>> = <<>>
  OBVIOUS
<1> QED BY <1>1, <1>2, <1>3, <1>4, <1>5

\* The programs of the calls, written out.
LEMMA ProgramForms ==
    ASSUME NEW m \in Maps, NEW n \in Maps, NEW e \in Ids, NEW p \in Cells
    PROVE  LET U == Op("unseat", m, e, Absent)
               V == Op("unseat", n, e, Absent)
               S == Op("seat", n, e, p)
           IN /\ Unseat(m, e) = IF m \in grids THEN <<U>> ELSE <<>>
              /\ Unseat(m, e) \o Seat(n, e, p) = IF m \in grids THEN <<U, S>> ELSE <<S>>
              /\ Unseat(m, e) \o <<>> = IF m \in grids THEN <<U>> ELSE <<>>
              /\ Unseat(m, e) \o <<V>> \o Seat(n, e, p)
                    = IF m \in grids THEN <<U, V, S>> ELSE <<V, S>>
<1> DEFINE U == Op("unseat", m, e, Absent)
           V == Op("unseat", n, e, Absent)
           S == Op("seat", n, e, p)
<1>1. Unseat(m, e) = IF m \in grids THEN <<U>> ELSE <<>>
  BY DEF Unseat
<1>2. Seat(n, e, p) = <<S>>
  BY DEF Seat
<1>0. U \in Ops /\ V \in Ops /\ S \in Ops
  BY DEF Op, Ops
<1> HIDE DEF U, V, S
<1>3. <<U>> \o <<S>> = <<U, S>> /\ <<U>> \o <<V>> \o <<S>> = <<U, V, S>>
  BY <1>0, JoinThree
<1>4. <<>> \o <<S>> = <<S>> /\ <<>> \o <<V>> \o <<S>> = <<V, S>>
  BY <1>0, JoinThree
<1>5. <<U>> \o <<>> = <<U>> /\ <<>> \o <<>> = <<>>
  BY <1>0, JoinThree
<1>6. CASE m \in grids
  BY <1>1, <1>2, <1>3, <1>5, <1>6 DEF U, V, S
<1>7. CASE m \notin grids
  BY <1>1, <1>2, <1>4, <1>5, <1>7 DEF U, V, S
<1> QED BY <1>6, <1>7

\* What a program is, seen from the calls: orderly work for e.
Program(r, e, g) == r \in Seq(Ops) /\ Orderly(r, g) /\ \A i \in DOMAIN r : r[i].id = e

LEMMA EmptyProgram ==
    ASSUME NEW g, NEW e
    PROVE  Program(<<>>, e, g)
  BY DEF Orderly, Program

\* A program that only unseats: RemoveEntity.
LEMMA UnseatProgram ==
    ASSUME NEW m \in Maps, NEW e \in Ids, NEW g, m \in g
    PROVE  LET r == <<Op("unseat", m, e, Absent)>>
           IN /\ Program(r, e, g)
              /\ \A a, s : (\A k \in Maps : s[k][e] = Expected(k, a)) /\ a.map = m
                    => Completes(r, e, Absent, s)
<1> DEFINE r == <<Op("unseat", m, e, Absent)>>
<1>1. r \in Seq(Ops)
  BY DEF Op, Ops
<1>2. /\ DOMAIN r = {1} /\ r[1].op = "unseat" /\ r[1].map = m /\ r[1].id = e
  BY DEF Op
<1> HIDE DEF r
<1>3. Orderly(r, g)
  BY <1>2 DEF Orderly
<1>4. ASSUME NEW a, NEW s, \A k \in Maps : s[k][e] = Expected(k, a), a.map = m
      PROVE  Completes(r, e, Absent, s)
  BY <1>2, <1>4 DEF Completes, HasOp, Expected
<1> QED BY <1>1, <1>2, <1>3, <1>4 DEF r, Program

\* A program that only seats: a move of an entity whose map has no grid.
LEMMA SeatProgram ==
    ASSUME NEW n \in Maps, NEW e \in Ids, NEW p \in Cells, NEW g, n \in g
    PROVE  Program(<<Op("seat", n, e, p)>>, e, g)
<1> DEFINE r == <<Op("seat", n, e, p)>>
<1>1. r \in Seq(Ops)
  BY DEF Op, Ops
<1>2. /\ DOMAIN r = {1} /\ r[1].op = "seat" /\ r[1].map = n /\ r[1].id = e
  BY DEF Op
<1> HIDE DEF r
<1>3. Orderly(r, g)
  BY <1>2 DEF Orderly
<1> QED BY <1>1, <1>2, <1>3 DEF r, Program

\* A program that unseats on m and seats on n: MoveEntity, RelocatePlayer.
LEMMA ReseatProgram ==
    ASSUME NEW m \in Maps, NEW n \in Maps, NEW e \in Ids, NEW p \in Cells, NEW g,
           m \in g, n \in g
    PROVE  LET r == <<Op("unseat", m, e, Absent), Op("seat", n, e, p)>>
           IN /\ Program(r, e, g)
              /\ \A a, s, b : /\ \A k \in Maps : s[k][e] = Expected(k, a)
                              /\ a.map = m
                              /\ b # Absent /\ b.map = n /\ b.cell = p
                    => Completes(r, e, b, s)
<1> DEFINE r == <<Op("unseat", m, e, Absent), Op("seat", n, e, p)>>
<1>1. r \in Seq(Ops)
  BY DEF Op, Ops
<1>2. /\ DOMAIN r = {1, 2} /\ r[1].op = "unseat" /\ r[1].map = m /\ r[1].id = e
      /\ r[2].op = "seat" /\ r[2].map = n /\ r[2].id = e /\ r[2].cell = p
  BY DEF Op
<1> HIDE DEF r
<1>3. Orderly(r, g)
  BY <1>2 DEF Orderly
<1>4. ASSUME NEW a, NEW s, NEW b, \A k \in Maps : s[k][e] = Expected(k, a), a.map = m,
             b # Absent, b.map = n, b.cell = p
      PROVE  Completes(r, e, b, s)
  <2>1. \A k : (HasOp(r, "seat", k) <=> k = n) /\ (HasOp(r, "unseat", k) <=> k = m)
    BY <1>2 DEF HasOp
  <2>2. \A k \in Maps : k # m => s[k][e] = Absent
    BY <1>4 DEF Expected
  <2>3. \A k \in Maps : k # n => Expected(k, b) = Absent
    BY <1>4 DEF Expected
  <2> QED BY <1>2, <1>4, <2>1, <2>2, <2>3 DEF Completes
<1>5. \A i \in DOMAIN r : r[i].id = e
  BY <1>2
<1> QED BY <1>1, <1>3, <1>4, <1>5 DEF r, Program

\* The programs of RespawnPlayer: n is unseated too before it is seated.
LEMMA RespawnProgram ==
    ASSUME NEW m \in Maps, NEW n \in Maps, NEW e \in Ids, NEW p \in Cells, NEW g, n \in g
    PROVE  LET q == <<Op("unseat", n, e, Absent), Op("seat", n, e, p)>>
               r == <<Op("unseat", m, e, Absent), Op("unseat", n, e, Absent), Op("seat", n, e, p)>>
           IN /\ Program(q, e, g)
              /\ m \in g => Program(r, e, g)
              /\ \A a, s, b : /\ \A k \in Maps : s[k][e] = Expected(k, a)
                              /\ a.map = m
                              /\ b # Absent /\ b.map = n /\ b.cell = p
                    => Completes(r, e, b, s)
<1> DEFINE q == <<Op("unseat", n, e, Absent), Op("seat", n, e, p)>>
           r == <<Op("unseat", m, e, Absent), Op("unseat", n, e, Absent), Op("seat", n, e, p)>>
<1>0. Program(q, e, g)
  BY ReseatProgram
<1>1. r \in Seq(Ops)
  BY DEF Op, Ops
<1>2. /\ DOMAIN r = {1, 2, 3} /\ r[1].op = "unseat" /\ r[1].map = m /\ r[1].id = e
      /\ r[2].op = "unseat" /\ r[2].map = n /\ r[2].id = e
      /\ r[3].op = "seat" /\ r[3].map = n /\ r[3].id = e /\ r[3].cell = p
  BY DEF Op
<1> HIDE DEF r
<1>3. m \in g => Orderly(r, g)
  BY <1>2 DEF Orderly
<1>4. ASSUME NEW a, NEW s, NEW b, \A k \in Maps : s[k][e] = Expected(k, a), a.map = m,
             b # Absent, b.map = n, b.cell = p
      PROVE  Completes(r, e, b, s)
  <2>1. \A k : /\ HasOp(r, "seat", k) <=> k = n
               /\ HasOp(r, "unseat", k) <=> k = m \/ k = n
    BY <1>2 DEF HasOp
  <2>2. \A k \in Maps : k # m => s[k][e] = Absent
    BY <1>4 DEF Expected
  <2>3. \A k \in Maps : k # n => Expected(k, b) = Absent
    BY <1>4 DEF Expected
  <2> QED BY <1>2, <1>4, <2>1, <2>2, <2>3 DEF Completes
<1>5. \A i \in DOMAIN r : r[i].id = e
  BY <1>2
<1> QED BY <1>0, <1>1, <1>3, <1>4, <1>5 DEF r, Program

\* The program of AddEntity.
LEMMA AddProgram ==
    ASSUME NEW n \in Maps, NEW e \in Ids, NEW p \in Cells, NEW g
    PROVE  LET r == <<Op("ensure", n, e, Absent)>> \o Seat(n, e, p)
                    \o <<Op("list", n, e, Absent)>>
           IN /\ Program(r, e, g)
              /\ r # <<>> /\ r[1].op = "ensure" /\ r[1].map = n
              /\ \A s, b : /\ \A k \in Maps : s[k][e] = Absent
                           /\ b # Absent /\ b.map = n /\ b.cell = p
                    => Completes(r, e, b, s)
<1> DEFINE E == Op("ensure", n, e, Absent)
           S == Op("seat", n, e, p)
           L == Op("list", n, e, Absent)
           r == <<E>> \o Seat(n, e, p) \o <<L>>
<1>0. E \in Ops /\ S \in Ops /\ L \in Ops
  BY DEF Op, Ops
<1>1. /\ E.op = "ensure" /\ E.map = n /\ E.id = e
      /\ S.op = "seat" /\ S.map = n /\ S.id = e /\ S.cell = p
      /\ L.op = "list" /\ L.map = n /\ L.id = e
  BY DEF Op
<1>2. Seat(n, e, p) = <<S>>
  BY DEF Seat
<1> HIDE DEF E, S, L
<1>3. r = <<E, S, L>>
  <2>1. <<E>> \o <<S>> = <<E, S>> /\ <<E, S>> \o <<L>> = <<E, S, L>>
    BY <1>0, JoinThree
  <2> QED BY <1>2, <2>1
<1> HIDE DEF r
<1>4. r \in Seq(Ops) /\ DOMAIN r = {1, 2, 3} /\ r[1] = E /\ r[2] = S /\ r[3] = L /\ r # <<>>
  BY <1>0, <1>3
<1>5. Orderly(r, g)
  BY <1>1, <1>4 DEF Orderly
<1>6. ASSUME NEW s, NEW b, \A k \in Maps : s[k][e] = Absent,
             b # Absent, b.map = n, b.cell = p
      PROVE  Completes(r, e, b, s)
  <2>1. \A k : (HasOp(r, "seat", k) <=> k = n) /\ ~HasOp(r, "unseat", k)
    BY <1>1, <1>4 DEF HasOp
  <2>2. \A k \in Maps : k # n => Expected(k, b) = Absent
    BY <1>6 DEF Expected
  <2> QED BY <1>1, <1>4, <1>6, <2>1, <2>2 DEF Completes
<1>7. \A i \in DOMAIN r : r[i].id = e
  BY <1>1, <1>4
<1> QED BY <1>1, <1>4, <1>5, <1>6, <1>7 DEF r, E, L, Program

-----------------------------------------------------------------------------
\* What a call leaves of the types, its program apart.
LEMMA CallType ==
    ASSUME IndexTypeOK, NEW w \in Workers, NEW e \in Ids, NEW r, Program(r, e, grids'), Call(w, e, r)
    PROVE  /\ job' \in [Workers -> Seq(Ops)] /\ raced' \subseteq Ids /\ calls' \in Nat
           /\ r \in Seq(Ops) /\ Orderly(r, grids') /\ \A i \in DOMAIN r : r[i].id = e
  BY IndexBounds DEF IndexTypeOK, Call, Program

\* Every step keeps the inductive invariant.
LEMMA IndexStep ==
    ASSUME IndexInv, [IndexNext]_indexVars
    PROVE  IndexInv'
<1> DEFINE Rest == /\ \A v \in Workers : Orderly(job[v], grids)'
                   /\ \A x \in Ids \ (raced \cup astray)' : Tracked(x)'
<1>0. IndexTypeOK /\ \A w \in Workers : Orderly(job[w], grids) /\ job[w] \in Seq(Ops)
  BY DEF IndexInv, IndexTypeOK
<1>a. \A e \in Ids : Live(e) => at[e] \in Places /\ at[e].map \in Maps /\ at[e].cell \in Cells
  BY DEF IndexInv, IndexTypeOK, Live, Places
<1>b. \A pl \in Places : pl # Absent /\ pl.map \in Maps /\ pl.cell \in Cells
  BY AbsentAssumption DEF Places
<1>1. ASSUME NEW w \in Workers, NEW e \in Ids, RemoveEntity(w, e) PROVE IndexInv'
  <2> DEFINE m == at[e].map
             r == Unseat(m, e)
  <2>1. /\ Live(e) /\ Call(w, e, r) /\ at' = [at EXCEPT ![e] = Absent]
        /\ byMap' = [byMap EXCEPT ![m] = @ \ {e}]
        /\ UNCHANGED <<save, grids, seat, astray>>
    BY <1>1 DEF RemoveEntity
  <2>2. m \in Maps
    BY <1>a, <2>1
  <2>3. /\ Program(r, e, grids')
        /\ m \in grids /\ (\A k \in Maps : seat[k][e] = Expected(k, at[e]))
              => Completes(r, e, Absent, seat)
    BY <2>1, <2>2, UnseatProgram, EmptyProgram DEF Unseat
  <2> HIDE DEF r
  <2>4. at'[e] = Absent /\ \A x \in Ids : x # e => at'[x] = at[x]
    BY <1>0, <2>1 DEF IndexTypeOK
  <2>5. Rest
    <3>1. r \in Seq(Ops) /\ Orderly(r, grids') /\ \A i \in DOMAIN r : r[i].id = e
      BY <2>3 DEF Program
    <3>2. ~Live(e)'
      BY <2>4 DEF Live
    <3> QED BY <2>1, <2>3, <2>4, <3>1, <3>2, CallKeeps
  <2>6. IndexTypeOK'
    <3>1. at' \in [Ids -> Places \cup {Absent}] /\ byMap' \in [Maps -> SUBSET Ids]
      BY <1>0, <2>1 DEF IndexTypeOK
    <3> QED BY <1>0, <2>1, <2>3, <3>1, CallType DEF IndexTypeOK
  <2> QED BY <2>5, <2>6 DEF IndexInv
<1>2. ASSUME NEW w \in Workers, NEW e \in Ids, NEW pl \in Places, AddEntity(w, e, pl)
      PROVE  IndexInv'
  <2> DEFINE r == <<Op("ensure", pl.map, e, Absent)>> \o Seat(pl.map, e, pl.cell)
                  \o <<Op("list", pl.map, e, Absent)>>
  <2>1. /\ ~Live(e) /\ Call(w, e, r) /\ at' = [at EXCEPT ![e] = pl]
        /\ UNCHANGED <<save, byMap, grids, seat, astray>>
    BY <1>2 DEF AddEntity
  <2>2. /\ Program(r, e, grids') /\ r # <<>> /\ r[1].op = "ensure" /\ r[1].map = pl.map
        /\ (\A k \in Maps : seat[k][e] = Absent) => Completes(r, e, pl, seat)
    BY <1>b, AddProgram
  <2> HIDE DEF r
  <2>3. at'[e] = pl /\ \A x \in Ids : x # e => at'[x] = at[x]
    BY <1>0, <2>1 DEF IndexTypeOK
  <2>4. (\A k \in Maps : seat[k][e] = Expected(k, at[e])) => \A k \in Maps : seat[k][e] = Absent
    BY <2>1 DEF Expected, Live
  <2>5. Rest
    <3>1. r \in Seq(Ops) /\ Orderly(r, grids') /\ \A i \in DOMAIN r : r[i].id = e
      BY <2>2 DEF Program
    <3> QED BY <2>1, <2>2, <2>3, <2>4, <3>1, CallKeeps
  <2>6. IndexTypeOK'
    <3>1. at' \in [Ids -> Places \cup {Absent}]
      BY <1>0, <2>1 DEF IndexTypeOK
    <3> QED BY <1>0, <2>1, <2>2, <3>1, CallType DEF IndexTypeOK
  <2> QED BY <2>5, <2>6 DEF IndexInv
<1>3. ASSUME NEW w \in Workers, NEW e \in Ids, NEW p \in Cells, MoveEntity(w, e, p)
      PROVE  IndexInv'
  <2> DEFINE m == at[e].map
             r == Reseat(m, e, p)
  <2>1. /\ Live(e) /\ Call(w, e, r) /\ at' = [at EXCEPT ![e].cell = p]
        /\ UNCHANGED <<save, byMap, grids, seat, astray>>
    BY <1>3 DEF MoveEntity
  <2>2. m \in Maps /\ at[e] \in Places
    BY <1>a, <2>1
  <2>3. at'[e] = [at[e] EXCEPT !.cell = p] /\ \A x \in Ids : x # e => at'[x] = at[x]
    BY <1>0, <2>1 DEF IndexTypeOK
  <2>4. at'[e] \in Places /\ at'[e].map = m /\ at'[e].cell = p /\ at'[e] # Absent
    BY <2>2, <2>3, AbsentAssumption DEF Places
  <2>5. Program(r, e, grids')
    <3>1. CASE m \in grids
      <4>1. r = <<Op("unseat", m, e, Absent), Op("seat", m, e, p)>>
        BY <2>2, <3>1, ProgramForms DEF Reseat
      <4> QED BY <2>1, <2>2, <3>1, <4>1, ReseatProgram
    <3>2. CASE m \notin grids
      BY <3>2, EmptyProgram DEF Reseat
    <3> QED BY <3>1, <3>2
  <2>6. ASSUME m \in grids, \A k \in Maps : seat[k][e] = Expected(k, at[e])
        PROVE  Completes(r, e, at'[e], seat)
    <3>1. r = <<Op("unseat", m, e, Absent), Op("seat", m, e, p)>>
      BY <2>2, <2>6, ProgramForms DEF Reseat
    <3> QED BY <2>2, <2>4, <2>6, <3>1, ReseatProgram
  <2> HIDE DEF r
  <2>7. Rest
    <3>1. r \in Seq(Ops) /\ Orderly(r, grids') /\ \A i \in DOMAIN r : r[i].id = e
      BY <2>5 DEF Program
    <3> QED BY <2>1, <2>3, <2>4, <2>6, <3>1, CallKeeps
  <2>8. IndexTypeOK'
    <3>1. at' \in [Ids -> Places \cup {Absent}]
      BY <1>0, <2>1, <2>3, <2>4 DEF IndexTypeOK
    <3> QED BY <1>0, <2>1, <2>5, <3>1, CallType DEF IndexTypeOK
  <2> QED BY <2>7, <2>8 DEF IndexInv
<1>4. ASSUME NEW w \in Workers, NEW e \in Ids, NEW pl \in Places, RelocatePlayer(w, e, pl)
      PROVE  IndexInv'
  <2> DEFINE m == at[e].map
             r == Unseat(m, e) \o (IF pl.map \in grids THEN Seat(pl.map, e, pl.cell) ELSE <<>>)
  <2>1. /\ Live(e) /\ Call(w, e, r) /\ at' = [at EXCEPT ![e] = pl]
        /\ astray' = IF pl.map \in grids THEN astray ELSE astray \cup {e}
        /\ UNCHANGED <<save, byMap, grids, seat>>
    BY <1>4 DEF RelocatePlayer
  <2>2. m \in Maps /\ pl.map \in Maps /\ pl.cell \in Cells /\ pl # Absent
    BY <1>a, <1>b, <2>1
  <2>3. at'[e] = pl /\ \A x \in Ids : x # e => at'[x] = at[x]
    BY <1>0, <2>1 DEF IndexTypeOK
  <2>4. Program(r, e, grids')
    <3>1. CASE pl.map \in grids /\ m \in grids
      <4>1. r = <<Op("unseat", m, e, Absent), Op("seat", pl.map, e, pl.cell)>>
        BY <2>2, <3>1, ProgramForms
      <4> QED BY <2>1, <2>2, <3>1, <4>1, ReseatProgram
    <3>2. CASE pl.map \in grids /\ m \notin grids
      <4>1. r = <<Op("seat", pl.map, e, pl.cell)>>
        BY <2>2, <3>2, ProgramForms
      <4> QED BY <2>1, <2>2, <3>2, <4>1, SeatProgram
    <3>3. CASE pl.map \notin grids /\ m \in grids
      <4>1. r = <<Op("unseat", m, e, Absent)>>
        BY <2>2, <3>3, ProgramForms
      <4> QED BY <2>1, <2>2, <3>3, <4>1, UnseatProgram
    <3>4. CASE pl.map \notin grids /\ m \notin grids
      <4>1. r = <<>>
        BY <2>2, <3>4, ProgramForms
      <4> QED BY <4>1, EmptyProgram
    <3> QED BY <3>1, <3>2, <3>3, <3>4
  <2>5. ASSUME pl.map \in grids, m \in grids, \A k \in Maps : seat[k][e] = Expected(k, at[e])
        PROVE  Completes(r, e, pl, seat)
    <3>1. r = <<Op("unseat", m, e, Absent), Op("seat", pl.map, e, pl.cell)>>
      BY <2>2, <2>5, ProgramForms
    <3> QED BY <2>2, <2>5, <3>1, ReseatProgram
  <2> HIDE DEF r
  <2>6. Rest
    <3>1. r \in Seq(Ops) /\ Orderly(r, grids') /\ \A i \in DOMAIN r : r[i].id = e
      BY <2>4 DEF Program
    <3>2. e \notin astray' => pl.map \in grids
      BY <2>1
    <3> QED BY <2>1, <2>3, <2>5, <3>1, <3>2, CallKeeps
  <2>7. IndexTypeOK'
    <3>1. at' \in [Ids -> Places \cup {Absent}] /\ astray' \subseteq Ids
      BY <1>0, <2>1 DEF IndexTypeOK
    <3> QED BY <1>0, <2>1, <2>4, <3>1, CallType DEF IndexTypeOK
  <2> QED BY <2>6, <2>7 DEF IndexInv
<1>5. ASSUME NEW w \in Workers, NEW e \in Ids, RespawnPlayer(w, e) PROVE IndexInv'
  <2> DEFINE m == at[e].map
             to == save[e]
             r == Unseat(m, e) \o <<Op("unseat", to.map, e, Absent)>> \o Seat(to.map, e, to.cell)
  <2>1. /\ Live(e) /\ Call(w, e, r) /\ at' = [at EXCEPT ![e] = to]
        /\ grids' = grids \cup {to.map}
        /\ byMap' = [k \in Maps |-> IF k = to.map THEN byMap[k] \cup {e}
                                    ELSE IF k = m THEN byMap[k] \ {e} ELSE byMap[k]]
        /\ UNCHANGED <<save, seat, astray>>
    BY <1>5 DEF RespawnPlayer
  <2>2. to \in Places /\ m \in Maps /\ to.map \in Maps /\ to.cell \in Cells /\ to # Absent
    <3>1. to \in Places
      BY <1>0 DEF IndexTypeOK
    <3> QED BY <1>a, <1>b, <2>1, <3>1
  <2> HIDE DEF to
  <2>3. at'[e] = to /\ \A x \in Ids : x # e => at'[x] = at[x]
    BY <1>0, <2>1 DEF IndexTypeOK
  <2>4. Program(r, e, grids')
    <3>1. CASE m \in grids
      <4>1. r = <<Op("unseat", m, e, Absent), Op("unseat", to.map, e, Absent),
                  Op("seat", to.map, e, to.cell)>>
        BY <2>2, <3>1, ProgramForms
      <4> QED BY <2>1, <2>2, <3>1, <4>1, RespawnProgram
    <3>2. CASE m \notin grids
      <4>1. r = <<Op("unseat", to.map, e, Absent), Op("seat", to.map, e, to.cell)>>
        BY <2>2, <3>2, ProgramForms
      <4> QED BY <2>1, <2>2, <3>2, <4>1, RespawnProgram
    <3> QED BY <3>1, <3>2
  <2>5. ASSUME m \in grids, \A k \in Maps : seat[k][e] = Expected(k, at[e])
        PROVE  Completes(r, e, to, seat)
    <3>1. r = <<Op("unseat", m, e, Absent), Op("unseat", to.map, e, Absent),
                Op("seat", to.map, e, to.cell)>>
      BY <2>2, <2>5, ProgramForms
    <3>2. to.map \in {to.map}
      OBVIOUS
    <3> QED BY <2>2, <2>5, <3>1, <3>2, RespawnProgram
  <2> HIDE DEF r
  <2>6. Rest
    <3>1. r \in Seq(Ops) /\ Orderly(r, grids') /\ \A i \in DOMAIN r : r[i].id = e
      BY <2>4 DEF Program
    <3>2. to.map \in grids' /\ grids \subseteq grids'
      BY <2>1
    <3> QED BY <2>1, <2>3, <2>5, <3>1, <3>2, CallKeeps
  <2>7. IndexTypeOK'
    <3>1. at' \in [Ids -> Places \cup {Absent}] /\ grids' \subseteq Maps
      BY <1>0, <2>1, <2>2 DEF IndexTypeOK
    <3>2. byMap' \in [Maps -> SUBSET Ids]
      BY <1>0, <2>1 DEF IndexTypeOK
    <3> QED BY <1>0, <2>1, <2>4, <3>1, <3>2, CallType DEF IndexTypeOK
  <2> QED BY <2>6, <2>7 DEF IndexInv
<1>6. ASSUME NEW w \in Workers, Exec(w) PROVE IndexInv'
  <2> DEFINE j == job[w]
             e == j[1].id
             n == j[1].map
  <2>0. j # <<>> /\ j \in Seq(Ops) /\ Orderly(j, grids)
    BY <1>0, <1>6 DEF Exec, ExecUnseat, ExecSeat, ExecSeatRefused, ExecEnsure, ExecList
  <2>1. /\ Now(w) = j[1] /\ j[1] \in Ops /\ Tail(j) \in Seq(Ops)
    BY <2>0, TailFacts DEF Now
  <2>2. e \in Ids /\ n \in Maps /\ j[1].cell \in Cells \cup {Absent}
    BY <2>1 DEF Ops
  <2>3. e \notin raced \cup astray => Completes(j, e, at[e], seat)
    BY <2>0, <2>2 DEF IndexInv, Tracked, Engaged
  <2>4. ASSUME job' = [job EXCEPT ![w] = Tail(j)], UNCHANGED <<at, save, raced, astray, calls>>,
               grids \subseteq grids', grids' \subseteq Maps, byMap' \in [Maps -> SUBSET Ids],
               seat' \in [Maps -> [Ids -> Cells \cup {Absent}]],
               \A k \in Maps, x \in Ids : x # e => seat'[k][x] = seat[k][x],
               j[1].op = "ensure" => n \in grids',
               e \notin raced \cup astray => Completes(Tail(j), e, at[e], seat')
        PROVE  IndexInv'
    <3>1. /\ Orderly(Tail(j), grids')
          /\ Tail(j) # <<>> => Tail(j)[1].id = e
      BY <2>0, <2>4, OrderlyTail
    <3>2. Rest
      BY <2>0, <2>1, <2>2, <2>4, <3>1, ExecKeeps
    <3>3. IndexTypeOK'
      BY <1>0, <2>1, <2>4 DEF IndexTypeOK
    <3> QED BY <3>2, <3>3 DEF IndexInv
  <2>5. CASE ExecUnseat(w)
    <3>1. /\ j[1].op = "unseat" /\ seat' = [seat EXCEPT ![n][e] = Absent]
          /\ job' = [job EXCEPT ![w] = Tail(j)]
          /\ UNCHANGED <<at, save, byMap, grids, raced, astray, calls>>
      BY <1>0, <2>1, <2>5 DEF ExecUnseat, Advance, IndexTypeOK
    <3>2. /\ seat' \in [Maps -> [Ids -> Cells \cup {Absent}]]
          /\ \A k \in Maps, x \in Ids :
                seat'[k][x] = IF k = n /\ x = e THEN Absent ELSE seat[k][x]
      BY <1>0, <2>2, <3>1 DEF IndexTypeOK
    <3>3. e \notin raced \cup astray => Completes(Tail(j), e, at[e], seat')
      <4>1. \A k \in Maps : seat'[k][e] = IF k = n THEN Absent ELSE seat[k][e]
        BY <2>2, <3>2
      <4> QED BY <2>0, <2>2, <2>3, <3>1, <4>1, CompletesTail
    <3> QED BY <1>0, <2>2, <2>4, <3>1, <3>2, <3>3 DEF IndexTypeOK
  <2>6. CASE ExecSeat(w)
    <3>1. /\ j[1].op = "seat" /\ j[1].cell \notin OffMap
          /\ seat' = [seat EXCEPT ![n][e] = j[1].cell]
          /\ job' = [job EXCEPT ![w] = Tail(j)]
          /\ UNCHANGED <<at, save, byMap, grids, raced, astray, calls>>
      BY <1>0, <2>1, <2>6 DEF ExecSeat, Advance, IndexTypeOK
    <3>2. /\ seat' \in [Maps -> [Ids -> Cells \cup {Absent}]]
          /\ \A k \in Maps, x \in Ids :
                seat'[k][x] = IF k = n /\ x = e THEN j[1].cell ELSE seat[k][x]
      BY <1>0, <2>2, <3>1 DEF IndexTypeOK
    <3>3. e \notin raced \cup astray => Completes(Tail(j), e, at[e], seat')
      <4>1. \A k \in Maps : seat'[k][e] = IF k = n THEN j[1].cell ELSE seat[k][e]
        BY <2>2, <3>2
      <4> QED BY <2>0, <2>2, <2>3, <3>1, <4>1, CompletesTail
    <3> QED BY <1>0, <2>2, <2>4, <3>1, <3>2, <3>3 DEF IndexTypeOK
  <2>7. CASE ExecSeatRefused(w)
    <3>1. /\ j[1].op = "seat" /\ (seat[n][e] # Absent \/ j[1].cell \in OffMap)
          /\ job' = [job EXCEPT ![w] = <<>>]
          /\ UNCHANGED <<at, save, byMap, grids, seat, raced, astray, calls>>
      BY <2>1, <2>7 DEF ExecSeatRefused
    <3>2. e \notin raced \cup astray => Completes(<<>>, e, at[e], seat')
      BY <2>0, <2>2, <2>3, <3>1, CompletesRefused
    <3>3. <<>> \in Seq(Ops) /\ Orderly(<<>>, grids')
      BY EmptyProgram DEF Program
    <3>4. Rest
      BY <2>0, <2>2, <3>1, <3>2, <3>3, ExecKeeps
    <3>5. IndexTypeOK'
      BY <1>0, <3>1, <3>3 DEF IndexTypeOK
    <3> QED BY <3>4, <3>5 DEF IndexInv
  <2>8. CASE ExecEnsure(w) \/ ExecList(w)
    <3>1. /\ j[1].op \in {"ensure", "list"}
          /\ job' = [job EXCEPT ![w] = Tail(j)]
          /\ grids \subseteq grids' /\ grids' \subseteq Maps
          /\ j[1].op = "ensure" => n \in grids'
          /\ UNCHANGED <<at, save, seat, raced, astray, calls>>
      BY <1>0, <2>1, <2>2, <2>8 DEF ExecEnsure, ExecList, Advance, IndexTypeOK
    <3>2. byMap' \in [Maps -> SUBSET Ids]
      BY <1>0, <2>1, <2>2, <2>8 DEF ExecEnsure, ExecList, IndexTypeOK
    <3>3. e \notin raced \cup astray => Completes(Tail(j), e, at[e], seat')
      BY <2>0, <2>2, <2>3, <3>1, CompletesTail
    <3> QED BY <1>0, <2>4, <3>1, <3>2, <3>3 DEF IndexTypeOK
  <2> QED BY <1>6, <2>5, <2>6, <2>7, <2>8 DEF Exec
<1>7. CASE UNCHANGED indexVars
  <2>1. IndexTypeOK' /\ \A w \in Workers : Orderly(job[w], grids)'
    BY <1>0, <1>7 DEF indexVars, IndexTypeOK
  <2>2. \A e \in Ids \ (raced \cup astray)' : Tracked(e)'
    BY <1>7 DEF indexVars, IndexInv, Tracked, Engaged, Live
  <2> QED BY <2>1, <2>2 DEF IndexInv
<1> QED BY <1>1, <1>2, <1>3, <1>4, <1>5, <1>6, <1>7 DEF IndexNext

LEMMA IndexStarts == IndexInit => IndexInv
<1> SUFFICES ASSUME IndexInit PROVE IndexInv
  OBVIOUS
<1>1. /\ \A e \in Ids : Live(e) => at[e].map \in Seeded /\ at[e] \in Places
                                   /\ at[e].cell \notin OffMap
      /\ at \in [Ids -> Places \cup {Absent}] /\ save \in [Ids -> Places]
  BY IndexAssumption DEF IndexInit, Live, Places
<1>2. /\ \A e \in Ids, m \in Maps :
            seat[m][e] = IF Live(e) /\ at[e].map = m THEN at[e].cell ELSE Absent
      /\ seat \in [Maps -> [Ids -> Cells \cup {Absent}]]
  BY <1>1 DEF IndexInit, Places
<1>3. \A w \in Workers : job[w] = <<>>
  BY DEF IndexInit
<1>4. IndexTypeOK
  <2>1. <<>> \in Seq(Ops)
    OBVIOUS
  <2>2. job \in [Workers -> Seq(Ops)]
    BY <2>1 DEF IndexInit
  <2> QED BY <1>1, <1>2, <2>2, IndexAssumption DEF IndexInit, IndexTypeOK
<1>5. \A w \in Workers : Orderly(job[w], grids)
  BY <1>3, EmptyProgram DEF Program
<1>6. ASSUME NEW e \in Ids PROVE Tracked(e)
  <2>1. \A w \in Workers : ~Engaged(w, e)
    BY <1>3 DEF Engaged
  <2>2. \A m \in Maps : seat[m][e] = Expected(m, at[e])
    BY <1>1, <1>2 DEF Expected, Live
  <2>3. Live(e) => at[e].map \in grids
    BY <1>1 DEF IndexInit
  <2> QED BY <2>1, <2>2, <2>3 DEF Tracked
<1> QED BY <1>4, <1>5, <1>6 DEF IndexInv

\* However many goroutines add, move, relocate, respawn and remove entities, nobody uses
\* a grid that is not there, and between the calls every grid tracks exactly the
\* entities that are on its map, at their cells, as long as no two goroutines worked on
\* the entity at once and it was not relocated to a map without a grid.
THEOREM GridsCorrect == IndexSpec => []GridsAgree
<1>1. IndexInv => GridsAgree
  <2> SUFFICES ASSUME IndexInv PROVE GridsAgree
    OBVIOUS
  <2>1. IndexTypeOK
    BY DEF IndexInv
  <2>2. ASSUME NEW w \in Workers, job[w] # <<>>, Now(w).op # "ensure" PROVE Now(w).map \in grids
    <3>1. Now(w) = job[w][1] /\ 1 \in DOMAIN job[w]
      BY <2>1, <2>2, TailFacts DEF IndexTypeOK, Now
    <3> QED BY <2>2, <3>1 DEF IndexInv, Orderly
  <2>3. ASSUME Idle, NEW e \in Ids \ (raced \cup astray), NEW m \in Maps
        PROVE  seat[m][e] = IF Live(e) /\ at[e].map = m /\ at[e].cell \notin OffMap
                            THEN at[e].cell ELSE Absent
    BY <2>3 DEF IndexInv, Tracked, Engaged, Idle, Expected, Live
  <2> QED BY <2>1, <2>2, <2>3 DEF GridsAgree
<1> QED BY <1>1, IndexStarts, IndexStep, PTL DEF IndexSpec

-----------------------------------------------------------------------------
\* From login to map server, for any number of clients, accounts, slots and names, any
\* bucket, and any number of requests, ticks and failures.

\* What the limiter has let through and what it could let through at once is covered
\* by a full bucket and the refills up to its last use, which is not in the future.
BurstInv ==
    /\ bucket.last <= count.now
    /\ ~bucket.seen => admitted = 0
    /\ bucket.seen => admitted + bucket.tokens <= Capacity + bucket.last * RefillPerTick

\* While no two creations have overlapped, the slot a creation was checked for stays
\* free until it inserts.
Creates(p) == client[p].stage \in {"make", "name"}
SlotsInv ==
    ~crowded => \A p \in Clients : Creates(p) => SlotFree(Of(p), client[p].want[1])

\* A deletion under way finds its row reserved, unless a cancel overtook it.
DeleteInv ==
    \A p \in Clients :
        At(p, "delete") /\ Own(p, client[p].char) =>
            chars[client[p].char].reserved \/ client[p].over

-----------------------------------------------------------------------------
\* Counting a request, a login, a tick or a failure keeps the counters.
LEMMA CountedType ==
    ASSUME HandoverTypeOK
    PROVE  /\ Counted("logins", MaxLogins) => count'.now = count.now
           /\ Counted("requests", MaxRequests) => count'.now = count.now
           /\ Counted("faults", MaxFaults) => count'.now = count.now
           /\ Counted("now", MaxTicks) => count'.now = count.now + 1
           /\ \A c \in {<<"logins", MaxLogins>>, <<"requests", MaxRequests>>,
                        <<"faults", MaxFaults>>, <<"now", MaxTicks>>} :
                Counted(c[1], c[2]) =>
                    count' \in [logins : 0 .. MaxLogins, requests : Nat, now : Nat, faults : Nat]
  BY HandoverAssumption DEF HandoverTypeOK, Counted

\* So does a request that fails at once.
LEMMA UnansweredType ==
    ASSUME HandoverTypeOK, NEW p \in Clients, Unanswered(p)
    PROVE  /\ count' \in [logins : 0 .. MaxLogins, requests : Nat, now : Nat, faults : Nat]
           /\ count'.now = count.now
<1>1. count \in [logins : 0 .. MaxLogins, requests : Nat, now : Nat, faults : Nat]
  BY DEF HandoverTypeOK
<1>2. count' = [count EXCEPT !.requests = @ + 1, !.faults = @ + 1]
  BY DEF Unanswered
<1>3. count' = [logins |-> count.logins, requests |-> count.requests + 1, now |-> count.now,
                faults |-> count.faults + 1]
  BY <1>1, <1>2
<1>4. count.logins \in 0 .. MaxLogins /\ {count.requests, count.now, count.faults} \subseteq Nat
  BY <1>1
<1> QED BY <1>3, <1>4

\* The part of HandoverTypeOK about the clients.
ClientsOK ==
    /\ client \in [Clients -> ClientState]
    /\ \A p \in Clients :
          client[p].char < nextChar /\ (Creates(p) => client[p].want \in Slots \X Names)

\* A step that gives one client a well-formed record keeps all of them well formed.
LEMMA ClientStep ==
    ASSUME HandoverTypeOK, NEW p \in Clients, NEW c \in ClientState,
           c.char < nextChar, c.stage \in {"make", "name"} => c.want \in Slots \X Names,
           nextChar' \in {nextChar, nextChar + 1},
           client' = [client EXCEPT ![p] = c]
    PROVE  ClientsOK'
<1>1. \A q \in Clients : client'[q] = IF q = p THEN c ELSE client[q]
  BY DEF HandoverTypeOK
<1>2. client' \in [Clients -> ClientState]
  BY DEF HandoverTypeOK
<1>3. \A q \in Clients : client[q] \in ClientState /\ client[q].char < nextChar
  BY DEF HandoverTypeOK
<1>4. \A q \in Clients : client'[q].char < nextChar'
  BY <1>1, <1>3 DEF HandoverTypeOK, ClientState
<1>5. \A q \in Clients : client'[q].stage \in {"make", "name"} => client'[q].want \in Slots \X Names
  BY <1>1 DEF HandoverTypeOK
<1> QED BY <1>2, <1>4, <1>5 DEF ClientsOK, Creates

\* A client that moves to another stage, or back to the list, stays well formed.
LEMMA GotoType ==
    ASSUME HandoverTypeOK, NEW p \in Clients, nextChar' \in {nextChar, nextChar + 1}
    PROVE  /\ \A s \in Stages \ {"make", "name"} : Goto(p, s) => ClientsOK'
           /\ ToList(p) => ClientsOK'
           /\ At(p, "make") /\ Goto(p, "name") => ClientsOK'
<1>1. client \in [Clients -> ClientState] /\ client[p] \in ClientState
  BY DEF HandoverTypeOK
<1>2. client[p].char < nextChar
  BY DEF HandoverTypeOK
<1>3. ASSUME NEW s \in Stages, Goto(p, s),
             s \in {"make", "name"} => client[p].want \in Slots \X Names
      PROVE  ClientsOK'
  <2> DEFINE c == [client[p] EXCEPT !.stage = s]
  <2>1. c \in ClientState /\ c.stage = s /\ c.char = client[p].char /\ c.want = client[p].want
    BY <1>1 DEF ClientState
  <2>2. client' = [client EXCEPT ![p] = c]
    BY <1>1, <1>3 DEF Goto
  <2> HIDE DEF c
  <2> QED BY <1>2, <1>3, <2>1, <2>2, ClientStep
<1>4. Chooses(p) \in ClientState /\ Chooses(p).char = 0 /\ Chooses(p).stage = "choosing"
  BY <1>1 DEF Chooses, Stages, Answered, NoChar, Wants, ClientState
<1>5. ToList(p) => ClientsOK'
  <2>1. 0 < nextChar
    BY DEF HandoverTypeOK
  <2> QED BY <1>4, <2>1, ClientStep DEF ToList
<1>6. At(p, "make") /\ Goto(p, "name") => ClientsOK'
  BY <1>3 DEF Stages, Waiting, HandoverTypeOK, At
<1>7. ASSUME NEW s \in Stages \ {"make", "name"}, Goto(p, s) PROVE ClientsOK'
  BY <1>3, <1>7
<1> QED BY <1>5, <1>6, <1>7

\* A handler that takes a client to a stage and notes what it works on.
LEMMA PickType ==
    ASSUME HandoverTypeOK, NEW p \in Clients, UNCHANGED nextChar
    PROVE  /\ \A s \in Stages \ {"make", "name"}, i \in DOMAIN chars :
                client' = [client EXCEPT ![p].stage = s, ![p].char = i] => ClientsOK'
           /\ \A s \in Stages \ {"make", "name"}, i \in DOMAIN chars :
                client' = [client EXCEPT ![p].stage = s, ![p].char = i, ![p].over = FALSE]
                    => ClientsOK'
<1>1. client \in [Clients -> ClientState] /\ client[p] \in ClientState
  BY DEF HandoverTypeOK
<1>2. ASSUME NEW s \in Stages \ {"make", "name"}, NEW i \in DOMAIN chars, NEW c \in ClientState,
             c.stage = s, c.char = i, client' = [client EXCEPT ![p] = c]
      PROVE  ClientsOK'
  <2>1. i < nextChar
    BY <1>2 DEF HandoverTypeOK
  <2> QED BY <1>2, <2>1, ClientStep
<1>3. ASSUME NEW s \in Stages \ {"make", "name"}, NEW i \in DOMAIN chars,
             client' = [client EXCEPT ![p].stage = s, ![p].char = i]
      PROVE  ClientsOK'
  <2> DEFINE c == [client[p] EXCEPT !.stage = s, !.char = i]
  <2>1. c \in ClientState /\ c.stage = s /\ c.char = i
    <3>1. i \in Nat
      BY DEF HandoverTypeOK
    <3> QED BY <1>1, <3>1 DEF ClientState
  <2>2. client' = [client EXCEPT ![p] = c]
    BY <1>1, <1>3
  <2> HIDE DEF c
  <2> QED BY <1>2, <2>1, <2>2
<1>4. ASSUME NEW s \in Stages \ {"make", "name"}, NEW i \in DOMAIN chars,
             client' = [client EXCEPT ![p].stage = s, ![p].char = i, ![p].over = FALSE]
      PROVE  ClientsOK'
  <2> DEFINE c == [client[p] EXCEPT !.stage = s, !.char = i, !.over = FALSE]
  <2>1. c \in ClientState /\ c.stage = s /\ c.char = i
    <3>1. i \in Nat
      BY DEF HandoverTypeOK
    <3> QED BY <1>1, <3>1 DEF ClientState
  <2>2. client' = [client EXCEPT ![p] = c]
    BY <1>1, <1>4
  <2> HIDE DEF c
  <2> QED BY <1>2, <2>1, <2>2
<1> QED BY <1>3, <1>4

\* The part of HandoverTypeOK that no handler but the limiter's, the clock's and Create's and
\* Delete's own statements touch.
RestOK ==
    /\ bucket \in [tokens : 0 .. Capacity, last : Nat, seen : BOOLEAN]
    /\ session \in [Accounts -> 0 .. MaxLogins]
    /\ nextChar \in Nat \ {0}
    /\ DOMAIN chars \subseteq 1 .. (nextChar - 1)
    /\ chars \in [DOMAIN chars -> Character]
    /\ admitted \in Nat
    /\ crowded \in BOOLEAN
    /\ deleted \subseteq [reserved : BOOLEAN, over : BOOLEAN]
    /\ count \in [logins : 0 .. MaxLogins, requests : Nat, now : Nat, faults : Nat]

LEMMA TypeSplit == (HandoverTypeOK <=> RestOK /\ ClientsOK) /\ (HandoverTypeOK' <=> RestOK' /\ ClientsOK')
  BY DEF HandoverTypeOK, RestOK, ClientsOK, Creates

\* Allow never leaves more than a full bucket, and lets no one through without a token.
LEMMA AllowType ==
    ASSUME HandoverTypeOK, BurstInv
    PROVE  Allow.ok \in BOOLEAN /\ Allow.left \in 0 .. Capacity
<1> DEFINE refilled == bucket.tokens + (count.now - bucket.last) * RefillPerTick
<1>1. /\ count.now \in Nat /\ bucket.last \in Nat /\ bucket.last <= count.now
      /\ bucket.tokens \in 0 .. Capacity /\ RefillPerTick \in Nat /\ Capacity \in Nat \ {0}
      /\ bucket.seen \in BOOLEAN
  BY HandoverAssumption DEF HandoverTypeOK, BurstInv
<1>2. count.now - bucket.last \in Nat
  BY <1>1
<1>3. \A n \in Nat : n * RefillPerTick \in Nat
  BY <1>1
<1>4. refilled \in Nat
  BY <1>1, <1>2, <1>3
<1> HIDE DEF refilled
<1>5. CASE ~bucket.seen
  BY <1>1, <1>5 DEF Allow
<1>6. CASE bucket.seen
  <2> DEFINE tokens == IF refilled > Capacity THEN Capacity ELSE refilled
  <2>1. tokens \in 0 .. Capacity
    BY <1>1, <1>4
  <2>2. Allow = IF tokens < 1 THEN [ok |-> FALSE, left |-> tokens]
                ELSE [ok |-> TRUE, left |-> tokens - 1]
    BY <1>6 DEF Allow, refilled
  <2> HIDE DEF tokens
  <2> QED BY <1>1, <2>1, <2>2
<1> QED BY <1>1, <1>5, <1>6

\* What a use of the limiter takes and leaves is covered by the refills up to now.
LEMMA AllowCovered ==
    ASSUME HandoverTypeOK, BurstInv
    PROVE  (IF Allow.ok THEN admitted + 1 ELSE admitted) + Allow.left
               <= Capacity + count.now * RefillPerTick
<1> DEFINE gap == count.now - bucket.last
           refilled == bucket.tokens + gap * RefillPerTick
<1>1. /\ count.now \in Nat /\ bucket.last \in Nat /\ bucket.last <= count.now
      /\ bucket.tokens \in 0 .. Capacity /\ RefillPerTick \in Nat /\ Capacity \in Nat \ {0}
      /\ bucket.seen \in BOOLEAN /\ admitted \in Nat
  BY HandoverAssumption DEF HandoverTypeOK, BurstInv
<1>2. gap \in Nat /\ count.now = gap + bucket.last
  BY <1>1
<1>3. \A m, n, r \in Nat : (m + n) * r = m * r + n * r /\ m * r \in Nat /\ n * r \in Nat
  OBVIOUS
<1> HIDE DEF gap
<1>4. /\ count.now * RefillPerTick = gap * RefillPerTick + bucket.last * RefillPerTick
      /\ gap * RefillPerTick \in Nat /\ bucket.last * RefillPerTick \in Nat
      /\ count.now * RefillPerTick \in Nat
  BY <1>1, <1>2, <1>3
<1>5. refilled \in Nat
  BY <1>1, <1>4
<1>6. CASE ~bucket.seen
  <2>1. admitted = 0 /\ Allow = [ok |-> TRUE, left |-> Capacity - 1]
    BY <1>6 DEF Allow, BurstInv
  <2>2. 1 + (Capacity - 1) <= Capacity + count.now * RefillPerTick
    BY <1>1, <1>4
  <2> QED BY <2>1, <2>2
<1>7. CASE bucket.seen
  <2> DEFINE tokens == IF refilled > Capacity THEN Capacity ELSE refilled
  <2>1. admitted + bucket.tokens <= Capacity + bucket.last * RefillPerTick
    BY <1>7 DEF BurstInv
  <2>2. tokens \in Nat /\ tokens <= bucket.tokens + gap * RefillPerTick
    BY <1>1, <1>5
  <2>3. Allow = IF tokens < 1 THEN [ok |-> FALSE, left |-> tokens]
                ELSE [ok |-> TRUE, left |-> tokens - 1]
    BY <1>7 DEF Allow, gap
  <2> HIDE DEF tokens
  <2>4. (IF Allow.ok THEN admitted + 1 ELSE admitted) + Allow.left = admitted + tokens
    BY <1>1, <2>2, <2>3
  <2> QED BY <1>1, <1>4, <2>1, <2>2, <2>4
<1> QED BY <1>1, <1>6, <1>7

\* BurstInv after a step that leaves the limiter alone.
LEMMA BurstKept ==
    ASSUME HandoverTypeOK, BurstInv, UNCHANGED limits, count'.now \in {count.now, count.now + 1}
    PROVE  BurstInv'
  BY DEF HandoverTypeOK, BurstInv, limits

\* Every step keeps the state well formed and what the limiter let through covered.
LEMMA BaseStep ==
    ASSUME HandoverTypeOK, BurstInv, [HandoverNext]_handoverVars
    PROVE  HandoverTypeOK' /\ BurstInv'
<1> USE HandoverAssumption
<1> USE DEF limits, table
<1>0. RestOK /\ ClientsOK
  BY TypeSplit
<1>a. ASSUME NEW p \in Clients, UNCHANGED <<limits, session, table>>, ClientsOK',
             \/ UNCHANGED count
             \/ Fails
             \/ Counted("requests", MaxRequests)
             \/ Unanswered(p)
      PROVE  HandoverTypeOK' /\ BurstInv'
  <2>1. RestOK'
    BY <1>0, <1>a, CountedType, UnansweredType DEF RestOK, Fails
  <2>2. count'.now = count.now
    BY <1>a, CountedType, UnansweredType DEF Fails
  <2> QED BY <1>a, <2>1, <2>2, TypeSplit, BurstKept
<1>b. nextChar' = nextChar => nextChar' \in {nextChar, nextChar + 1}
  OBVIOUS
<1>1. ASSUME NEW p \in Clients, Login(p) PROVE HandoverTypeOK' /\ BurstInv'
  <2>1. ClientsOK'
    BY <1>1, <1>b, GotoType DEF Login, Stages, Waiting
  <2>2. Allow.ok \in BOOLEAN /\ Allow.left \in 0 .. Capacity
    BY AllowType
  <2>3. /\ count' \in [logins : 0 .. MaxLogins, requests : Nat, now : Nat, faults : Nat]
        /\ count'.now = count.now
    BY <1>1, CountedType DEF Login
  <2>4. /\ bucket' = [tokens |-> Allow.left, last |-> count.now, seen |-> TRUE]
        /\ admitted' = IF Allow.ok THEN admitted + 1 ELSE admitted
        /\ UNCHANGED <<session, chars, nextChar, crowded, deleted>>
    BY <1>1 DEF Login
  <2>5. count.now \in Nat /\ admitted \in Nat
    BY <1>0 DEF RestOK
  <2>6. RestOK'
    BY <1>0, <2>2, <2>3, <2>4, <2>5 DEF RestOK
  <2>7. BurstInv'
    BY <2>2, <2>3, <2>4, <2>5, AllowCovered DEF BurstInv
  <2> QED BY <2>1, <2>6, <2>7, TypeSplit
<1>2. ASSUME NEW p \in Clients, CharEnter(p) \/ MapEnter(p) \/ handleEnter(p)
      PROVE  HandoverTypeOK' /\ BurstInv'
  BY <1>2, <1>a, <1>b, GotoType DEF CharEnter, MapEnter, handleEnter, Stages, Waiting, Answered
<1>3. ASSUME NEW p \in Clients, Restart(p) \/ ListChars(p) \/ EnterMap(p)
      PROVE  HandoverTypeOK' /\ BurstInv'
  <2>1. {"accepted", "choosing", "in", "refused"} \subseteq Stages \ {"make", "name"}
    BY DEF Stages, Answered
  <2>2. UNCHANGED <<limits, session, table>>
    BY <1>3 DEF Restart, ListChars, EnterMap
  <2>3. UNCHANGED count \/ Fails \/ Counted("requests", MaxRequests)
    BY <1>3 DEF Restart, ListChars, EnterMap
  <2>4. Goto(p, "accepted") \/ Goto(p, "choosing") \/ Goto(p, "in") \/ Goto(p, "refused")
    BY <1>3 DEF Restart, ListChars, EnterMap
  <2>5. ClientsOK'
    BY <1>b, <2>1, <2>2, <2>4, GotoType
  <2> QED BY <1>a, <2>2, <2>3, <2>5
<1>4. ASSUME NEW p \in Clients, Retry(p) PROVE HandoverTypeOK' /\ BurstInv'
  <2> DEFINE c == [Chooses(p) EXCEPT !.stage = "out", !.token = NoToken]
  <2>1. client[p] \in ClientState /\ 0 < nextChar
    BY DEF HandoverTypeOK
  <2>2. c \in ClientState /\ c.char = 0 /\ c.stage = "out"
    <3>1. Chooses(p) \in ClientState /\ Chooses(p).char = 0
      BY <2>1 DEF Chooses, Stages, Answered, NoChar, Wants, ClientState
    <3>2. "out" \in Stages /\ NoToken \in 0 .. MaxLogins
      BY DEF Stages, NoToken
    <3> QED BY <3>1, <3>2 DEF ClientState
  <2>3. client' = [client EXCEPT ![p] = c]
    BY <1>4 DEF Retry
  <2> HIDE DEF c
  <2>4. UNCHANGED <<limits, session, table, count>>
    BY <1>4 DEF Retry
  <2>5. ClientsOK'
    BY <2>1, <2>2, <2>3, <2>4, ClientStep
  <2> QED BY <1>a, <2>4, <2>5
<1>5. ASSUME NEW p \in Clients, NEW slot \in Slots, handleSelectChar(p, slot)
      PROVE  HandoverTypeOK' /\ BurstInv'
  <2>1. /\ UNCHANGED <<limits, session, table>>
        /\ Counted("requests", MaxRequests) \/ Unanswered(p)
        /\ \/ Goto(p, "ignored")
           \/ \E i \in DOMAIN chars : client' = [client EXCEPT ![p].stage = "zone", ![p].char = i]
    BY <1>5 DEF handleSelectChar, ListByAccount, Request, Unanswered
  <2>2. "ignored" \in Stages \ {"make", "name"} /\ "zone" \in Stages \ {"make", "name"}
    BY DEF Stages, Answered
  <2>3. ClientsOK'
    BY <2>1, <2>2, <1>b, GotoType, PickType
  <2> QED BY <1>a, <2>1, <2>3
<1>6. ASSUME NEW p \in Clients, NEW slot \in Slots, NEW name \in Names,
             handleMakeChar(p, slot, name)
      PROVE  HandoverTypeOK' /\ BurstInv'
  <2> DEFINE c == [client[p] EXCEPT !.stage = "make", !.want = <<slot, name>>]
  <2>1. client[p] \in ClientState /\ client[p].char < nextChar
    BY DEF HandoverTypeOK
  <2>2. <<slot, name>> \in Slots \X Names /\ <<slot, name>> \in Wants
    BY DEF Wants
  <2>3. "make" \in Stages
    BY DEF Stages, Waiting
  <2>4. /\ c \in ClientState /\ c.char = client[p].char /\ c.stage = "make"
        /\ c.want = <<slot, name>>
    BY <2>1, <2>2, <2>3 DEF ClientState
  <2>5. client' = [client EXCEPT ![p] = c]
    BY <1>6, <2>1 DEF handleMakeChar, HandoverTypeOK
  <2>6. UNCHANGED <<limits, session, table>> /\ Counted("requests", MaxRequests)
    BY <1>6 DEF handleMakeChar, Request
  <2> HIDE DEF c
  <2>7. ClientsOK'
    BY <2>1, <2>2, <2>4, <2>5, <2>6, ClientStep
  <2> QED BY <1>a, <2>6, <2>7
<1>7. ASSUME NEW p \in Clients, NEW i \in DOMAIN chars,
             handleDeleteReserved(p, i) \/ handleDeleteCancel(p, i) \/ handleDelete(p, i)
      PROVE  HandoverTypeOK' /\ BurstInv'
  <2>1. /\ UNCHANGED <<limits, session, table>>
        /\ Counted("requests", MaxRequests) \/ Unanswered(p)
    BY <1>7 DEF handleDeleteReserved, handleDeleteCancel, handleDelete, Request
  <2>2. {"reserve", "cancel", "delete", "ignored"} \subseteq Stages \ {"make", "name"}
    BY DEF Stages, Waiting
  <2>3. CASE Unanswered(p)
    <3>1. Goto(p, "ignored")
      BY <2>3 DEF Unanswered
    <3>2. ClientsOK'
      BY <1>b, <2>1, <2>2, <3>1, GotoType
    <3> QED BY <1>a, <2>1, <3>2
  <2>4. CASE ~Unanswered(p)
    <3>1. ClientsOK'
      BY <1>7, <2>1, <2>2, <2>4, PickType DEF handleDeleteReserved, handleDeleteCancel, handleDelete
    <3> QED BY <1>a, <2>1, <3>1
  <2> QED BY <2>3, <2>4
<1>8. ASSUME NEW p \in Clients, Authenticate(p) PROVE HandoverTypeOK' /\ BurstInv'
  <2>1. UNCHANGED <<limits, session, table, count>>
    BY <1>8 DEF Authenticate
  <2>2. CASE Goto(p, "refused")
    BY <1>a, <1>b, <2>1, <2>2, GotoType DEF Stages, Answered
  <2>3. CASE client' = [client EXCEPT ![p].stage = "put", ![p].token = count.logins]
    <3> DEFINE c == [client[p] EXCEPT !.stage = "put", !.token = count.logins]
    <3>1. client[p] \in ClientState /\ client[p].char < nextChar /\ count.logins \in 0 .. MaxLogins
      BY DEF HandoverTypeOK
    <3>2. c \in ClientState /\ c.char = client[p].char /\ c.stage = "put"
      BY <3>1 DEF ClientState, Stages, Waiting
    <3>3. client' = [client EXCEPT ![p] = c]
      BY <2>3 DEF HandoverTypeOK
    <3> HIDE DEF c
    <3>4. ClientsOK'
      BY <2>1, <3>1, <3>2, <3>3, ClientStep
    <3> QED BY <1>a, <2>1, <3>4
  <2> QED BY <1>8, <2>2, <2>3 DEF Authenticate
<1>9. ASSUME NEW p \in Clients, PutSession(p) PROVE HandoverTypeOK' /\ BurstInv'
  <2>1. ClientsOK'
    BY <1>9, <1>b, GotoType DEF PutSession, Stages, Answered
  <2>2. client[p].token \in 0 .. MaxLogins /\ Of(p) \in Accounts
    BY DEF HandoverTypeOK, ClientState, Of
  <2>3. session' \in [Accounts -> 0 .. MaxLogins]
    BY <1>9, <2>2 DEF PutSession, HandoverTypeOK
  <2>4. /\ count' \in [logins : 0 .. MaxLogins, requests : Nat, now : Nat, faults : Nat]
        /\ count'.now = count.now
    BY <1>0, <1>9, CountedType DEF PutSession, Fails, RestOK
  <2>5. UNCHANGED <<limits, table>>
    BY <1>9 DEF PutSession
  <2>6. RestOK'
    BY <1>0, <2>3, <2>4, <2>5 DEF RestOK
  <2> QED BY <2>1, <2>4, <2>5, <2>6, TypeSplit, BurstKept
<1>10. ASSUME NEW p \in Clients, NameExists(p) PROVE HandoverTypeOK' /\ BurstInv'
  BY <1>10, <1>a, <1>b, GotoType DEF NameExists
<1>11. ASSUME NEW p \in Clients, Insert(p) PROVE HandoverTypeOK' /\ BurstInv'
  <2> DEFINE row == [account |-> Of(p), slot |-> client[p].want[1], name |-> client[p].want[2],
                     reserved |-> FALSE]
  <2>1. row \in Character
    BY <1>11 DEF Insert, At, HandoverTypeOK, Character, Of
  <2>2. UNCHANGED <<limits, session, deleted, count>> /\ ToList(p)
    BY <1>11 DEF Insert
  <2>3. \/ UNCHANGED <<chars, nextChar, crowded>>
        \/ /\ chars' = [i \in DOMAIN chars \cup {nextChar} |->
                           IF i = nextChar THEN row ELSE chars[i]]
           /\ nextChar' = nextChar + 1
           /\ crowded' \in BOOLEAN
    BY <1>11 DEF Insert, HandoverTypeOK
  <2> HIDE DEF row
  <2>4. ClientsOK'
    BY <2>2, <2>3, GotoType
  <2>5. RestOK'
    BY <1>0, <2>1, <2>2, <2>3 DEF RestOK
  <2> QED BY <2>2, <2>4, <2>5, TypeSplit, BurstKept
<1>12. ASSUME NEW p \in Clients, SetDeleteDate(p) PROVE HandoverTypeOK' /\ BurstInv'
  <2> DEFINE i == client[p].char
  <2>1. UNCHANGED <<limits, session, nextChar, crowded, deleted>>
    BY <1>12 DEF SetDeleteDate
  <2>8. /\ count' \in [logins : 0 .. MaxLogins, requests : Nat, now : Nat, faults : Nat]
        /\ count'.now = count.now
    BY <1>0, <1>12, CountedType DEF SetDeleteDate, Fails, RestOK
  <2>2. chars' = [chars EXCEPT ![i].reserved = At(p, "reserve")] \/ UNCHANGED chars
    BY <1>12 DEF SetDeleteDate
  <2>3. At(p, "reserve") \in BOOLEAN
    BY DEF At
  <2>4. ASSUME chars' = [chars EXCEPT ![i].reserved = At(p, "reserve")]
        PROVE  DOMAIN chars' = DOMAIN chars /\ chars' \in [DOMAIN chars -> Character]
    <3>1. \A c \in Character, b \in BOOLEAN : [c EXCEPT !.reserved = b] \in Character
      BY DEF Character
    <3> QED BY <2>3, <2>4, <3>1 DEF HandoverTypeOK
  <2>5. RestOK'
    BY <1>0, <2>1, <2>2, <2>4, <2>8 DEF RestOK
  <2>6. Goto(p, "ignored") \/ ToList(p) => ClientsOK'
    BY <1>b, <2>1, GotoType DEF Stages
  <2>7. Overtake(p, i) => ClientsOK'
    <3>0. SUFFICES ASSUME Overtake(p, i) PROVE ClientsOK'
      OBVIOUS
    <3>1. client[p] \in ClientState /\ 0 < nextChar
      BY DEF HandoverTypeOK
    <3>2. Chooses(p) \in ClientState /\ Chooses(p).char = 0 /\ Chooses(p).stage = "choosing"
      BY <3>1 DEF Chooses, Stages, Answered, NoChar, Wants, ClientState
    <3>3. \A c \in ClientState :
            LET d == [c EXCEPT !.over = TRUE]
            IN d \in ClientState /\ d.char = c.char /\ d.stage = c.stage /\ d.want = c.want
      BY DEF ClientState
    <3>4. DOMAIN client' = Clients /\ client' = [q \in Clients |-> client'[q]]
      BY <3>0 DEF Overtake
    <3>5. ASSUME NEW q \in Clients
          PROVE  /\ client'[q] \in ClientState
                 /\ client'[q].char < nextChar'
                 /\ client'[q].stage \in {"make", "name"} => client'[q].want \in Slots \X Names
      <4>1. client'[q] \in {Chooses(p), client[q], [client[q] EXCEPT !.over = TRUE]}
        BY <3>0 DEF Overtake
      <4>2. /\ client[q] \in ClientState /\ client[q].char < nextChar
            /\ client[q].stage \in {"make", "name"} => client[q].want \in Slots \X Names
        BY DEF HandoverTypeOK
      <4> QED BY <2>1, <3>1, <3>2, <3>3, <4>1, <4>2
    <3> QED BY <3>4, <3>5 DEF ClientsOK, Creates
  <2> QED BY <1>12, <2>1, <2>5, <2>6, <2>7, <2>8, TypeSplit, BurstKept DEF SetDeleteDate
<1>13. ASSUME NEW p \in Clients, Delete(p) PROVE HandoverTypeOK' /\ BurstInv'
  <2> DEFINE i == client[p].char
  <2>1. UNCHANGED <<limits, session, nextChar, crowded, count>> /\ ToList(p)
    BY <1>13 DEF Delete
  <2>2. ClientsOK'
    BY <1>b, <2>1, GotoType
  <2>3. /\ chars' = [j \in DOMAIN chars \ {i} |-> chars[j]] \/ UNCHANGED chars
        /\ deleted' \subseteq [reserved : BOOLEAN, over : BOOLEAN]
    <3>1. i \in DOMAIN chars => chars[i].reserved \in BOOLEAN
      BY DEF HandoverTypeOK, Character
    <3>2. client[p].over \in BOOLEAN
      BY DEF HandoverTypeOK, ClientState
    <3> QED BY <1>13, <3>1, <3>2 DEF Delete, HandoverTypeOK, Own, ListByAccount
  <2>4. RestOK'
    BY <1>0, <2>1, <2>3 DEF RestOK
  <2> QED BY <2>1, <2>2, <2>4, TypeSplit, BurstKept
<1>14. ASSUME (\E a \in Accounts : Expire(a)) \/ Tick PROVE HandoverTypeOK' /\ BurstInv'
  <2>1. UNCHANGED <<limits, table, client>> /\ Counted("now", MaxTicks)
    BY <1>14 DEF Expire, Tick
  <2>2. session' \in [Accounts -> 0 .. MaxLogins]
    BY <1>14 DEF Expire, Tick, HandoverTypeOK, NoToken
  <2>3. /\ count' \in [logins : 0 .. MaxLogins, requests : Nat, now : Nat, faults : Nat]
        /\ count'.now = count.now + 1
    BY <2>1, CountedType
  <2>4. RestOK' /\ ClientsOK'
    BY <1>0, <2>1, <2>2, <2>3 DEF RestOK, ClientsOK, Creates
  <2> QED BY <2>1, <2>3, <2>4, TypeSplit, BurstKept
<1>15. CASE UNCHANGED handoverVars
  BY <1>15 DEF handoverVars, HandoverTypeOK, BurstInv
<1>16. ASSUME NEW p \in Clients, StatementFails(p) PROVE HandoverTypeOK' /\ BurstInv'
  <2>1. UNCHANGED <<limits, session, table>> /\ Fails /\ (Goto(p, "refused") \/ ToList(p))
    BY <1>16 DEF StatementFails
  <2>2. ClientsOK'
    BY <1>b, <2>1, GotoType DEF Stages, Answered
  <2> QED BY <1>a, <2>1, <2>2
<1> QED BY <1>1, <1>2, <1>3, <1>4, <1>5, <1>6, <1>7, <1>8, <1>9, <1>10, <1>11, <1>12,
           <1>13, <1>14, <1>15, <1>16 DEF HandoverNext, Ask, Serve

\* At first the table is what StartAssumption says, nobody is in and nothing is counted.
LEMMA BaseInit == HandoverInit => HandoverTypeOK /\ BurstInv
<1> SUFFICES ASSUME HandoverInit PROVE HandoverTypeOK /\ BurstInv
  OBVIOUS
<1> USE HandoverAssumption
<1>1. bucket = [tokens |-> 0, last |-> 0, seen |-> FALSE] /\ admitted = 0
  BY DEF HandoverInit, NoBucket
<1>2. count = [logins |-> 0, requests |-> 0, now |-> 0, faults |-> 0]
  BY DEF HandoverInit
<1>3. /\ chars = StartChars /\ nextChar = Cardinality(DOMAIN StartChars) + 1
      /\ DOMAIN chars = 1 .. nextChar - 1 /\ nextChar \in Nat \ {0}
      /\ chars \in [DOMAIN chars -> Character]
  <2>1. Cardinality(DOMAIN StartChars) \in Nat
    BY StartAssumption, FS_CardinalityType
  <2> QED BY <2>1, StartAssumption DEF HandoverInit
<1>4. RestOK
  <2>1. session \in [Accounts -> 0 .. MaxLogins] /\ crowded = FALSE /\ deleted = {}
    BY DEF HandoverInit, NoToken
  <2>2. bucket \in [tokens : 0 .. Capacity, last : Nat, seen : BOOLEAN]
    BY <1>1
  <2>3. count \in [logins : 0 .. MaxLogins, requests : Nat, now : Nat, faults : Nat]
    BY <1>2
  <2> QED BY <1>1, <1>3, <2>1, <2>2, <2>3 DEF RestOK
<1>5. ClientsOK
  <2> DEFINE c == [stage |-> "out", token |-> NoToken, char |-> NoChar,
                   want |-> << >>, over |-> FALSE]
  <2>1. c \in ClientState /\ c.char = 0 /\ c.stage = "out"
    BY DEF ClientState, NoToken, NoChar, Stages, Wants
  <2>2. client = [p \in Clients |-> c]
    BY DEF HandoverInit
  <2> HIDE DEF c
  <2> QED BY <1>3, <2>1, <2>2 DEF ClientsOK, Creates
<1> QED BY <1>1, <1>2, <1>4, <1>5, TypeSplit DEF BurstInv

\* Type correctness of the way from the login to the map, and the invariant of the
\* limiter.
THEOREM HandoverTyped == HandoverSpec => [](HandoverTypeOK /\ BurstInv)
<1>1. HandoverInit => HandoverTypeOK /\ BurstInv
  BY BaseInit
<1>2. HandoverTypeOK /\ BurstInv /\ [HandoverNext]_handoverVars => (HandoverTypeOK /\ BurstInv)'
  BY BaseStep
<1> QED BY <1>1, <1>2, PTL DEF HandoverSpec

\* Whatever the capacity, the refill and the attempts, the login limiter lets through no
\* more than a full bucket and what has been refilled since (LoginRateLimiter.Allow).
THEOREM BurstCorrect == HandoverSpec => []BurstBounded
<1>1. HandoverTypeOK /\ BurstInv => BurstBounded
  <2> SUFFICES ASSUME HandoverTypeOK, BurstInv PROVE admitted <= Capacity + count.now * RefillPerTick
    BY DEF BurstBounded
  <2>1. /\ count.now \in Nat /\ bucket.last \in Nat /\ bucket.last <= count.now
        /\ bucket.tokens \in Nat /\ RefillPerTick \in Nat /\ Capacity \in Nat
        /\ admitted \in Nat /\ bucket.seen \in BOOLEAN
    BY HandoverAssumption DEF HandoverTypeOK, BurstInv
  <2>2. \A m, n, r \in Nat : m <= n => m * r <= n * r /\ n * r \in Nat /\ m * r \in Nat
    OBVIOUS
  <2>3. /\ bucket.last * RefillPerTick <= count.now * RefillPerTick
        /\ bucket.last * RefillPerTick \in Nat /\ count.now * RefillPerTick \in Nat
    BY <2>1, <2>2
  <2> QED BY <2>1, <2>3 DEF BurstInv
<1> QED BY <1>1, HandoverTyped, PTL

-----------------------------------------------------------------------------
\* A step finds a client creating, or deleting, where it was; or the step is the check
\* that starts it, and the table is what was checked.
Continues(q) ==
    /\ Creates(q)' =>
          \/ Creates(q) /\ client'[q].want = client[q].want
          \/ UNCHANGED table /\ SlotFree(Of(q), client'[q].want[1])
    /\ At(q, "delete")' =>
          \/ At(q, "delete") /\ client'[q].char = client[q].char /\ client[q].over = client'[q].over
          \/ UNCHANGED table /\ MayDelete(q, client'[q].char)
          \/ \E p \in Clients \ {q} :
                At(p, "cancel") /\ client'[q].char = client[q].char /\ client'[q].over = TRUE

LEMMA ContinuesStep ==
    ASSUME HandoverTypeOK, [HandoverNext]_handoverVars, NEW q \in Clients
    PROVE  Continues(q)
<1> USE DEF Continues, Creates, At
<1>0. client \in [Clients -> ClientState]
  BY DEF HandoverTypeOK
<1>1. ASSUME client'[q] = client[q] PROVE Continues(q)
  BY <1>1
<1>2. ASSUME client'[q].stage \notin {"make", "name", "delete"} PROVE Continues(q)
  BY <1>2
<1>3. ASSUME NEW p \in Clients, NEW s, Goto(p, s), s \notin {"make", "name", "delete"}
      PROVE  Continues(q)
  <2>1. client'[q] = client[q] \/ client'[q].stage = s
    BY <1>0, <1>3 DEF Goto, ClientState
  <2> QED BY <1>1, <1>2, <1>3, <2>1
<1>4. ASSUME NEW p \in Clients, ToList(p) PROVE Continues(q)
  <2>1. client'[q] = client[q] \/ client'[q].stage = "choosing"
    BY <1>0, <1>4 DEF ToList, Chooses
  <2> QED BY <1>1, <1>2, <2>1
<1>5. ASSUME NEW p \in Clients, NEW slot \in Slots, NEW name \in Names,
             handleMakeChar(p, slot, name)
      PROVE  Continues(q)
  <2>1. CASE q # p
    BY <1>0, <1>1, <1>5, <2>1 DEF handleMakeChar
  <2>2. CASE q = p
    <3>1. client'[q].stage = "make" /\ client'[q].want = <<slot, name>>
      BY <1>0, <1>5, <2>2 DEF handleMakeChar, ClientState
    <3>2. UNCHANGED table /\ SlotFree(Of(q), slot)
      BY <1>5, <2>2 DEF handleMakeChar
    <3> QED BY <3>1, <3>2
  <2> QED BY <2>1, <2>2
<1>6. ASSUME NEW p \in Clients, NameExists(p) PROVE Continues(q)
  <2>1. CASE ToList(p)
    BY <1>4, <2>1
  <2>2. CASE Goto(p, "name")
    <3>1. CASE q # p
      BY <1>0, <1>1, <2>2, <3>1 DEF Goto
    <3>2. CASE q = p
      BY <1>0, <1>6, <2>2, <3>2 DEF Goto, NameExists, ClientState
    <3> QED BY <3>1, <3>2
  <2> QED BY <1>6, <2>1, <2>2 DEF NameExists
<1>7. ASSUME NEW p \in Clients, NEW i, handleDelete(p, i) PROVE Continues(q)
  <2>1. CASE q # p
    BY <1>0, <1>1, <1>7, <2>1 DEF handleDelete
  <2>2. CASE q = p
    <3>1. client'[q].stage = "delete" /\ client'[q].char = i
      BY <1>0, <1>7, <2>2 DEF handleDelete, ClientState
    <3>2. UNCHANGED table /\ MayDelete(q, i)
      BY <1>7, <2>2 DEF handleDelete
    <3> QED BY <3>1, <3>2
  <2> QED BY <2>1, <2>2
<1>8. ASSUME NEW p \in Clients, NEW i,
             handleDeleteReserved(p, i) \/ handleDeleteCancel(p, i)
      PROVE  Continues(q)
  <2>1. client'[q] = client[q] \/ client'[q].stage \in {"reserve", "cancel", "ignored"}
    BY <1>0, <1>8 DEF handleDeleteReserved, handleDeleteCancel, Unanswered, Goto, ClientState
  <2> QED BY <1>1, <1>2, <2>1
<1>9. ASSUME NEW p \in Clients, SetDeleteDate(p) PROVE Continues(q)
  <2>1. CASE At(p, "cancel") /\ Overtake(p, client[p].char)
    <3>1. CASE q = p
      <4>1. client'[q].stage = "choosing"
        BY <2>1, <3>1 DEF Overtake, Chooses
      <4> QED BY <1>2, <4>1
    <3>2. CASE q # p /\ client'[q] # client[q]
      <4>1. client'[q] = [client[q] EXCEPT !.over = TRUE]
        BY <2>1, <3>2 DEF Overtake
      <4>2. /\ client'[q].stage = client[q].stage /\ client'[q].char = client[q].char
            /\ client'[q].want = client[q].want /\ client'[q].over = TRUE
        BY <1>0, <4>1 DEF ClientState
      <4> QED BY <2>1, <3>2, <4>2
    <3> QED BY <1>1, <3>1, <3>2
  <2> QED BY <1>3, <1>4, <1>9, <2>1 DEF SetDeleteDate
<1>10. ASSUME NEW p \in Clients, NEW slot \in Slots, handleSelectChar(p, slot) PROVE Continues(q)
  <2>1. client'[q] = client[q] \/ client'[q].stage \in {"zone", "ignored"}
    BY <1>0, <1>10 DEF handleSelectChar, Unanswered, ClientState, Goto
  <2> QED BY <1>1, <1>2, <2>1
<1>11. ASSUME NEW p \in Clients, Authenticate(p) \/ Retry(p) PROVE Continues(q)
  <2>1. client'[q] = client[q] \/ client'[q].stage \in {"put", "refused", "out"}
    BY <1>0, <1>11 DEF Authenticate, Retry, ClientState, Goto, Chooses
  <2> QED BY <1>1, <1>2, <2>1
<1>12. ASSUME NEW p \in Clients,
              \/ Login(p) \/ CharEnter(p) \/ MapEnter(p) \/ Restart(p)
              \/ PutSession(p) \/ handleEnter(p) \/ ListChars(p) \/ EnterMap(p)
       PROVE  Continues(q)
  <2>1. \E s \in {"auth", "dropped", "enter", "map", "refused", "accepted", "list",
                  "choosing", "in"} : Goto(p, s)
    BY <1>12 DEF Login, CharEnter, MapEnter, Restart, PutSession, handleEnter, ListChars, EnterMap
  <2> QED BY <1>3, <2>1
<1>13. ASSUME NEW p \in Clients, Insert(p) \/ Delete(p) \/ StatementFails(p) PROVE Continues(q)
  BY <1>3, <1>4, <1>13 DEF Insert, Delete, StatementFails
<1>14. CASE (\E a \in Accounts : Expire(a)) \/ Tick \/ UNCHANGED handoverVars
  <2>1. client' = client
    BY <1>14 DEF Expire, Tick, handoverVars
  <2> QED BY <1>1, <2>1
<1> QED BY <1>5, <1>6, <1>7, <1>8, <1>9, <1>10, <1>11, <1>12, <1>13, <1>14
        DEF HandoverNext, Ask, Serve

\* Only Create's insert, SetDeleteDate and Delete change the table.
LEMMA TableStep ==
    ASSUME [HandoverNext]_handoverVars
    PROVE  \/ UNCHANGED table
           \/ \E p \in Clients : Insert(p) \/ SetDeleteDate(p) \/ Delete(p)
<1>1. ASSUME NEW p \in Clients, Ask(p) PROVE UNCHANGED table
  <2>1. ASSUME Login(p) \/ CharEnter(p) \/ MapEnter(p) \/ Restart(p) \/ Retry(p)
        PROVE  UNCHANGED table
    BY <2>1 DEF Login, CharEnter, MapEnter, Restart, Retry
  <2>2. ASSUME NEW slot \in Slots, handleSelectChar(p, slot) PROVE UNCHANGED table
    BY <2>2 DEF handleSelectChar
  <2>3. ASSUME NEW slot \in Slots, NEW name \in Names, handleMakeChar(p, slot, name)
        PROVE  UNCHANGED table
    BY <2>3 DEF handleMakeChar
  <2>4. ASSUME NEW i \in DOMAIN chars,
               handleDeleteReserved(p, i) \/ handleDeleteCancel(p, i) \/ handleDelete(p, i)
        PROVE  UNCHANGED table
    BY <2>4 DEF handleDeleteReserved, handleDeleteCancel, handleDelete
  <2> QED BY <1>1, <2>1, <2>2, <2>3, <2>4 DEF Ask
<1>2. ASSUME NEW p \in Clients, Serve(p)
      PROVE  UNCHANGED table \/ Insert(p) \/ SetDeleteDate(p) \/ Delete(p)
  BY <1>2 DEF Serve, Authenticate, PutSession, handleEnter, ListChars, NameExists, EnterMap,
                StatementFails
<1>3. CASE (\E a \in Accounts : Expire(a)) \/ Tick \/ UNCHANGED handoverVars
  BY <1>3 DEF Expire, Tick, handoverVars, table
<1> QED BY <1>1, <1>2, <1>3 DEF HandoverNext

-----------------------------------------------------------------------------
\* The number of an account's characters is a number, and fewer rows are fewer.
LEMMA RowsFinite ==
    ASSUME HandoverTypeOK, NEW a
    PROVE  IsFiniteSet(ListByAccount(a)) /\ Cardinality(ListByAccount(a)) \in Nat
<1>1. IsFiniteSet(1 .. (nextChar - 1))
  <2>1. 1 \in Int /\ nextChar - 1 \in Int
    BY DEF HandoverTypeOK
  <2> QED BY <2>1, FS_Interval
<1>2. ListByAccount(a) \subseteq 1 .. (nextChar - 1)
  BY DEF ListByAccount, HandoverTypeOK
<1> QED BY <1>1, <1>2, FS_Subset, FS_CardinalityType

\* Creating never gives away a name or a slot: the step.
LEMMA DistinctStep ==
    ASSUME HandoverTypeOK, HandoverTypeOK', CharactersDistinct, SlotsInv, [HandoverNext]_handoverVars
    PROVE  CharactersDistinct' /\ SlotsInv'
<1> USE HandoverAssumption
<1>0. \A q \in Clients : Continues(q) /\ Of(q) \in Accounts
  BY ContinuesStep DEF Of
<1>1. CASE UNCHANGED table
  <2>1. CharactersDistinct'
    BY <1>1 DEF table, CharactersDistinct, NamesUnique, SlotsDistinct, ListByAccount
  <2>2. ASSUME NEW q \in Clients, ~crowded', Creates(q)'
        PROVE  SlotFree(Of(q), client[q].want[1])'
    <3>1. SlotFree(Of(q), client'[q].want[1])
      BY <1>0, <1>1, <2>2 DEF Continues, SlotsInv, table
    <3>2. \A slot : SlotFree(Of(q), slot) => SlotFree(Of(q), slot)'
      BY <1>1 DEF SlotFree, ListByAccount, table
    <3> QED BY <3>1, <3>2
  <2> QED BY <2>1, <2>2 DEF SlotsInv
<1>2. ASSUME NEW p \in Clients, SetDeleteDate(p) PROVE CharactersDistinct' /\ SlotsInv'
  <2>1. DOMAIN chars' = DOMAIN chars /\ UNCHANGED crowded
    BY <1>2 DEF SetDeleteDate
  <2>2. \A i \in DOMAIN chars : /\ chars'[i].name = chars[i].name
                                /\ chars'[i].slot = chars[i].slot
                                /\ chars'[i].account = chars[i].account
    <3>1. UNCHANGED chars \/ chars' = [chars EXCEPT ![client[p].char].reserved = At(p, "reserve")]
      BY <1>2 DEF SetDeleteDate
    <3>2. chars \in [DOMAIN chars -> Character]
      BY DEF HandoverTypeOK
    <3> QED BY <3>1, <3>2 DEF Character
  <2>3. \A a : ListByAccount(a)' = ListByAccount(a)
    BY <2>1, <2>2 DEF ListByAccount
  <2>4. CharactersDistinct'
    <3>1. NamesUnique'
      BY <2>1, <2>2 DEF CharactersDistinct, NamesUnique
    <3>2. \A a : ListByAccount(a) \subseteq DOMAIN chars
      BY DEF ListByAccount
    <3>3. SlotsDistinct'
      BY <2>1, <2>2, <2>3, <3>2 DEF CharactersDistinct, SlotsDistinct
    <3> QED BY <3>1, <3>3 DEF CharactersDistinct
  <2>5. ASSUME NEW q \in Clients, ~crowded', Creates(q)'
        PROVE  SlotFree(Of(q), client[q].want[1])'
    <3>1. SlotFree(Of(q), client'[q].want[1])
      BY <1>0, <2>1, <2>5 DEF Continues, SlotsInv
    <3>2. \A slot : SlotFree(Of(q), slot) => SlotFree(Of(q), slot)'
      BY <2>2, <2>3 DEF SlotFree, ListByAccount
    <3> QED BY <3>1, <3>2
  <2> QED BY <2>4, <2>5 DEF SlotsInv
<1>3. ASSUME NEW p \in Clients, Delete(p) PROVE CharactersDistinct' /\ SlotsInv'
  <2>1. DOMAIN chars' \subseteq DOMAIN chars /\ UNCHANGED crowded
    BY <1>3 DEF Delete
  <2>2. \A i \in DOMAIN chars' : chars'[i] = chars[i]
    BY <1>3 DEF Delete
  <2>3. \A a : ListByAccount(a)' \subseteq ListByAccount(a)
    BY <2>1, <2>2 DEF ListByAccount
  <2>4. \A a : /\ Cardinality(ListByAccount(a)') <= Cardinality(ListByAccount(a))
               /\ Cardinality(ListByAccount(a)') \in Nat /\ Cardinality(ListByAccount(a)) \in Nat
    <3>1. \A a : IsFiniteSet(ListByAccount(a))
      BY RowsFinite
    <3>2. \A a : IsFiniteSet(ListByAccount(a)')
      BY <2>3, <3>1, FS_Subset
    <3> QED BY <2>3, <3>1, <3>2, FS_Subset, FS_CardinalityType
  <2>5. NamesUnique'
    BY <2>1, <2>2 DEF CharactersDistinct, NamesUnique
  <2>6. ASSUME ~crowded', NEW a \in Accounts
        PROVE  /\ Cardinality(ListByAccount(a)') <= MaxSlots
               /\ \A i, j \in ListByAccount(a)' : chars'[i].slot = chars'[j].slot => i = j
    <3>1. /\ Cardinality(ListByAccount(a)) <= MaxSlots
          /\ \A i, j \in ListByAccount(a) : chars[i].slot = chars[j].slot => i = j
      BY <2>1, <2>6 DEF CharactersDistinct, SlotsDistinct
    <3>2. Cardinality(ListByAccount(a)') <= MaxSlots
      BY <2>4, <3>1
    <3>3. \A i \in ListByAccount(a)' : i \in DOMAIN chars'
      BY DEF ListByAccount
    <3> QED BY <2>2, <2>3, <3>1, <3>2, <3>3
  <2>7. ASSUME NEW q \in Clients, ~crowded', Creates(q)'
        PROVE  SlotFree(Of(q), client[q].want[1])'
    <3>1. SlotFree(Of(q), client'[q].want[1])
      BY <1>0, <2>1, <2>7 DEF Continues, SlotsInv
    <3>2. \A i \in ListByAccount(Of(q))' : i \in DOMAIN chars'
      BY DEF ListByAccount
    <3>3. Cardinality(ListByAccount(Of(q))') < MaxSlots
      BY <2>4, <3>1 DEF SlotFree
    <3> QED BY <2>2, <2>3, <3>1, <3>2, <3>3 DEF SlotFree
  <2> QED BY <2>5, <2>6, <2>7 DEF CharactersDistinct, SlotsDistinct, SlotsInv
<1>4. ASSUME NEW p \in Clients, Insert(p) PROVE CharactersDistinct' /\ SlotsInv'
  <2> DEFINE row == [account |-> Of(p), slot |-> client[p].want[1], name |-> client[p].want[2],
                     reserved |-> FALSE]
  <2>1. CASE ~UniqueName(row.name)
    <3>1. UNCHANGED table
      BY <1>4, <2>1 DEF Insert, table
    <3> QED BY <1>1, <3>1
  <2>2. CASE UniqueName(row.name)
    <3>1. /\ chars' = [i \in DOMAIN chars \cup {nextChar} |->
                          IF i = nextChar THEN row ELSE chars[i]]
          /\ crowded' = (crowded \/ \E q \in Clients \ {p} :
                            Of(q) = Of(p) /\ client[q].stage \in {"make", "name"})
      BY <1>4, <2>2 DEF Insert
    <3>2. nextChar \notin DOMAIN chars
      BY DEF HandoverTypeOK
    <3>3. /\ DOMAIN chars' = DOMAIN chars \cup {nextChar}
          /\ chars'[nextChar] = row
          /\ \A i \in DOMAIN chars : chars'[i] = chars[i]
      BY <3>1, <3>2
    <3>4. /\ row.account = Of(p) /\ row.slot = client[p].want[1]
      OBVIOUS
    <3>5. NamesUnique'
      BY <2>2, <3>3 DEF CharactersDistinct, NamesUnique, UniqueName
    <3> HIDE DEF row
    <3>6. ListByAccount(Of(p))' = ListByAccount(Of(p)) \cup {nextChar}
      BY <3>2, <3>3, <3>4 DEF ListByAccount
    <3>7. \A a : a # Of(p) => ListByAccount(a)' = ListByAccount(a)
      BY <3>2, <3>3, <3>4 DEF ListByAccount
    <3>8. \A a : ListByAccount(a) \subseteq DOMAIN chars
      BY DEF ListByAccount
    <3>9. ~crowded' => ~crowded /\ SlotFree(Of(p), row.slot)
      <4>1. client[p].stage = "name"
        BY <1>4 DEF Insert, At
      <4>2. ~crowded' => ~crowded
        BY <3>1
      <4> QED BY <3>4, <4>1, <4>2 DEF SlotsInv, Creates
    <3>10. ASSUME ~crowded', NEW a \in Accounts
          PROVE  /\ Cardinality(ListByAccount(a)') <= MaxSlots
                 /\ \A i, j \in ListByAccount(a)' : chars'[i].slot = chars'[j].slot => i = j
      <4>1. /\ Cardinality(ListByAccount(a)) <= MaxSlots
            /\ \A i, j \in ListByAccount(a) : chars[i].slot = chars[j].slot => i = j
        BY <3>9, <3>10 DEF CharactersDistinct, SlotsDistinct
      <4>2. CASE a # Of(p)
        BY <3>3, <3>7, <3>8, <4>1, <4>2
      <4>3. CASE a = Of(p)
        <5>1. /\ Cardinality(ListByAccount(a)) < MaxSlots
              /\ \A i \in ListByAccount(a) : chars[i].slot # row.slot
          BY <3>9, <3>10, <4>3 DEF SlotFree
        <5>2. Cardinality(ListByAccount(a)') = Cardinality(ListByAccount(a)) + 1
          <6>1. IsFiniteSet(ListByAccount(a)) /\ nextChar \notin ListByAccount(a)
            BY <3>2, <3>8, RowsFinite
          <6> QED BY <3>6, <4>3, <6>1, FS_AddElement
        <5>3. Cardinality(ListByAccount(a)) \in Nat
          BY RowsFinite
        <5>4. Cardinality(ListByAccount(a)') <= MaxSlots
          BY <5>1, <5>2, <5>3
        <5>5. \A i \in ListByAccount(a) : chars'[i].slot = chars[i].slot
          BY <3>3, <3>8
        <5>6. chars'[nextChar].slot = row.slot
          BY <3>3
        <5> QED BY <3>6, <4>1, <4>3, <5>1, <5>4, <5>5, <5>6
      <4> QED BY <4>2, <4>3
    <3>11. ASSUME NEW q \in Clients, ~crowded', Creates(q)'
          PROVE  SlotFree(Of(q), client[q].want[1])'
      <4>1. Creates(q) /\ client'[q].want = client[q].want /\ q # p
        <5>1. ~UNCHANGED table
          BY <3>2, <3>3 DEF table
        <5>2. client'[p].stage = "choosing"
          BY <1>4 DEF Insert, ToList, Chooses, HandoverTypeOK
        <5> QED BY <1>0, <3>11, <5>1, <5>2 DEF Continues, Creates
      <4>2. Of(q) # Of(p)
        BY <3>1, <3>11, <4>1 DEF Creates
      <4>3. SlotFree(Of(q), client[q].want[1])
        BY <3>9, <3>11, <4>1 DEF SlotsInv
      <4>4. ListByAccount(Of(q))' = ListByAccount(Of(q))
        BY <3>7, <4>2
      <4> QED BY <3>3, <3>8, <4>1, <4>3, <4>4 DEF SlotFree
    <3> QED BY <3>5, <3>10, <3>11 DEF CharactersDistinct, SlotsDistinct, SlotsInv
  <2> QED BY <2>1, <2>2
<1> QED BY <1>1, <1>2, <1>3, <1>4, TableStep

\* A character is deleted only while its deletion is reserved: the step.
LEMMA DeleteStep ==
    ASSUME HandoverTypeOK, DeleteInv, DeletedWasReserved, [HandoverNext]_handoverVars
    PROVE  DeleteInv' /\ DeletedWasReserved'
<1> DEFINE Good(q) ==
        At(q, "delete") /\ Own(q, client[q].char) =>
            chars[client[q].char].reserved \/ client[q].over
<1>0. \A q \in Clients : Continues(q) /\ Good(q)
  BY ContinuesStep DEF DeleteInv
<1>1. CASE UNCHANGED table
  <2>1. ASSUME NEW q \in Clients PROVE Good(q)'
    BY <1>0, <1>1 DEF Continues, table, Own, MayDelete, ListByAccount
  <2>2. DeletedWasReserved'
    BY <1>1 DEF table, DeletedWasReserved
  <2> QED BY <2>1, <2>2 DEF DeleteInv
<1>2. ASSUME NEW p \in Clients, SetDeleteDate(p) PROVE DeleteInv' /\ DeletedWasReserved'
  <2> DEFINE i == client[p].char
  <2>1. DOMAIN chars' = DOMAIN chars /\ UNCHANGED deleted
    BY <1>2 DEF SetDeleteDate
  <2>2. \A j \in DOMAIN chars : chars'[j].account = chars[j].account
    BY <1>2 DEF SetDeleteDate, HandoverTypeOK, Character
  <2>3. \A j \in DOMAIN chars : j # i => chars'[j] = chars[j]
    BY <1>2 DEF SetDeleteDate
  <2>4. \A q, j : Own(q, j)' <=> Own(q, j)
    BY <2>1, <2>2 DEF Own, ListByAccount, Of
  <2>5. ASSUME NEW q \in Clients, At(q, "delete")', Own(q, client[q].char)'
        PROVE  chars'[client'[q].char].reserved \/ client'[q].over
    <3>1. \/ At(q, "delete") /\ client'[q].char = client[q].char /\ client[q].over = client'[q].over
          \/ client'[q].over
          \/ UNCHANGED table
      BY <1>0, <2>5 DEF Continues
    <3>2. CASE UNCHANGED table
      BY <1>1, <2>5, <3>2 DEF DeleteInv
    <3>3. CASE /\ At(q, "delete") /\ client'[q].char = client[q].char
               /\ client[q].over = client'[q].over
      <4>1. Own(q, client[q].char)
        BY <2>4, <2>5, <3>3
      <4>2. client[q].char \in DOMAIN chars
        BY <4>1 DEF Own, ListByAccount
      <4>3. CASE client[q].char # i
        BY <1>0, <2>3, <3>3, <4>1, <4>2, <4>3
      <4>4. CASE UNCHANGED chars
        BY <1>0, <3>3, <4>1, <4>4
      <4>5. CASE client[q].char = i /\ chars' # chars /\ At(p, "reserve")
        <5>1. chars'[i].reserved = TRUE
          BY <1>2, <4>2, <4>5 DEF SetDeleteDate, HandoverTypeOK, Character
        <5> QED BY <3>3, <4>5, <5>1
      <4>6. CASE client[q].char = i /\ chars' # chars /\ ~At(p, "reserve")
        <5>1. At(p, "cancel") /\ Overtake(p, i)
          BY <1>2, <4>6 DEF SetDeleteDate, At
        <5>2. q # p
          BY <3>3, <5>1 DEF At
        <5>3. client'[q] = [client[q] EXCEPT !.over = TRUE]
          BY <3>3, <4>6, <5>1, <5>2 DEF Overtake
        <5>4. client[q] \in ClientState
          BY DEF HandoverTypeOK
        <5>5. client'[q].over = TRUE
          BY <5>3, <5>4 DEF ClientState
        <5> QED BY <5>5
      <4> QED BY <4>3, <4>4, <4>5, <4>6
    <3> QED BY <3>1, <3>2, <3>3
  <2> QED BY <2>1, <2>5 DEF DeleteInv, DeletedWasReserved
<1>3. ASSUME NEW p \in Clients, Delete(p) PROVE DeleteInv' /\ DeletedWasReserved'
  <2> DEFINE i == client[p].char
  <2>1. DOMAIN chars' \subseteq DOMAIN chars /\ \A j \in DOMAIN chars' : chars'[j] = chars[j]
    BY <1>3 DEF Delete
  <2>2. \A q, j : Own(q, j)' => Own(q, j) /\ j \in DOMAIN chars'
    BY <2>1 DEF Own, ListByAccount, Of
  <2>3. DeletedWasReserved'
    <3>1. CASE UNCHANGED deleted
      BY <3>1 DEF DeletedWasReserved
    <3>2. CASE /\ Own(p, i)
               /\ deleted' = deleted \cup {[reserved |-> chars[i].reserved, over |-> client[p].over]}
      BY <1>0, <1>3, <3>2 DEF DeletedWasReserved, Delete
    <3> QED BY <1>3, <3>1, <3>2 DEF Delete
  <2>4. ASSUME NEW q \in Clients, At(q, "delete")', Own(q, client[q].char)'
        PROVE  chars'[client'[q].char].reserved \/ client'[q].over
    <3>1. \/ At(q, "delete") /\ client'[q].char = client[q].char /\ client[q].over = client'[q].over
          \/ client'[q].over
          \/ UNCHANGED table
      BY <1>0, <2>4 DEF Continues
    <3>2. CASE UNCHANGED table
      BY <1>1, <2>4, <3>2 DEF DeleteInv
    <3> QED BY <1>0, <2>1, <2>2, <2>4, <3>1, <3>2
  <2> QED BY <2>3, <2>4 DEF DeleteInv
<1>4. ASSUME NEW p \in Clients, Insert(p) PROVE DeleteInv' /\ DeletedWasReserved'
  <2>1. /\ \A j \in DOMAIN chars : j \in DOMAIN chars' /\ chars'[j] = chars[j]
        /\ DOMAIN chars' \subseteq DOMAIN chars \cup {nextChar}
        /\ UNCHANGED deleted
    <3>1. nextChar \notin DOMAIN chars
      BY DEF HandoverTypeOK
    <3> QED BY <1>4, <3>1 DEF Insert
  <2>2. \A q, j : Own(q, j)' /\ j # nextChar => Own(q, j) /\ j \in DOMAIN chars
    BY <2>1 DEF Own, ListByAccount, Of
  <2>3. ASSUME NEW q \in Clients, At(q, "delete")', Own(q, client[q].char)'
        PROVE  chars'[client'[q].char].reserved \/ client'[q].over
    <3>1. \/ At(q, "delete") /\ client'[q].char = client[q].char /\ client[q].over = client'[q].over
          \/ client'[q].over
          \/ UNCHANGED table
      BY <1>0, <2>3 DEF Continues
    <3>2. CASE UNCHANGED table
      BY <1>1, <2>3, <3>2 DEF DeleteInv
    <3>3. client[q].char # nextChar
      BY DEF HandoverTypeOK, ClientState
    <3> QED BY <1>0, <2>1, <2>2, <2>3, <3>1, <3>2, <3>3
  <2> QED BY <2>1, <2>3 DEF DeleteInv, DeletedWasReserved
<1> QED BY <1>1, <1>2, <1>3, <1>4, TableStep

-----------------------------------------------------------------------------
\* However many clients create and delete characters at once, no two characters share
\* a name, and an account has no two in a slot and no more than it may have unless two
\* of its creations overlapped (Create, the unique index on the name).
THEOREM DistinctCorrect == HandoverSpec => []CharactersDistinct
<1> DEFINE IInv == HandoverTypeOK /\ BurstInv /\ CharactersDistinct /\ SlotsInv
<1>1. HandoverInit => IInv
  <2> SUFFICES ASSUME HandoverInit PROVE CharactersDistinct /\ SlotsInv
    BY BaseInit
  <2>1. chars = StartChars
    BY DEF HandoverInit
  <2>2. CharactersDistinct
    BY <2>1, StartAssumption DEF CharactersDistinct, NamesUnique, SlotsDistinct, ListByAccount
  <2>3. \A p \in Clients : client[p].stage = "out"
    BY DEF HandoverInit
  <2>4. SlotsInv
    BY <2>3 DEF SlotsInv, Creates
  <2> QED BY <2>2, <2>4
<1>2. IInv /\ [HandoverNext]_handoverVars => IInv'
  BY BaseStep, DistinctStep
<1>3. IInv => CharactersDistinct
  OBVIOUS
<1> QED BY <1>1, <1>2, <1>3, PTL DEF HandoverSpec

\* Whoever acts on the account meanwhile, the final delete removes only a row that is
\* reserved, or whose reservation was cancelled between the check and the delete
\* (deleteResultFor).
THEOREM DeletedCorrect == HandoverSpec => []DeletedWasReserved
<1> DEFINE IInv == HandoverTypeOK /\ BurstInv /\ DeleteInv /\ DeletedWasReserved
<1>1. HandoverInit => IInv
  <2> SUFFICES ASSUME HandoverInit PROVE DeleteInv /\ DeletedWasReserved
    BY BaseInit
  <2>1. deleted = {} /\ \A p \in Clients : client[p].stage = "out"
    BY DEF HandoverInit
  <2> QED BY <2>1 DEF DeleteInv, DeletedWasReserved, At
<1>2. IInv /\ [HandoverNext]_handoverVars => IInv'
  BY BaseStep, DeleteStep
<1>3. IInv => DeletedWasReserved
  OBVIOUS
<1> QED BY <1>1, <1>2, <1>3, PTL DEF HandoverSpec

-----------------------------------------------------------------------------
\* One connection of a gateway listener, for any number of packets, any lengths of texts
\* that the length field can announce, and any sizes of the frames cut short.  First the
\* constant part: the encoders of Layout and the tables of PacketDB agree.

\* What is framed by its registered length, by its length field, or where the handler's
\* table is silent by the database.
FixedIn(l, T) == /\ l.prefixed = FALSE /\ l.base \in Nat /\ l.base >= 2
                 /\ <<l.id, l.base>> \in T
PrefixedIn(l, T) == /\ l.prefixed = TRUE /\ <<l.id, -1>> \in T
                    /\ l.base \in Nat /\ l.base >= 4 /\ l.unit \in {1, 4, 6}
                    /\ l.most = Fits(l.base, l.unit)

\* The shapes the encoders build are of these two kinds.
LEMMA FixedShape ==
    ASSUME NEW id, NEW size \in Nat, size >= 2, NEW fields, NEW T, <<id, size>> \in T
    PROVE  FixedIn(Fixed(id, size, fields), T)
  BY DEF Fixed, FixedIn

LEMMA ListShape ==
    ASSUME NEW id, NEW size \in Nat, size >= 4, NEW fields, NEW unit \in {1, 4, 6}, NEW entry,
           NEW T, <<id, -1>> \in T
    PROVE  PrefixedIn(List(id, size, fields, unit, Fits(size, unit), entry), T)
  BY DEF List, PrefixedIn

LEMMA TextShape ==
    ASSUME NEW id, NEW size \in Nat, size >= 4, NEW fields, NEW T, <<id, -1>> \in T
    PROVE  PrefixedIn(Text(id, size, fields), T)
<1>1. 65535 - size = (65535 - size) \div 1
  OBVIOUS
<1>2. Text(id, size, fields) = List(id, size, fields, 1, Fits(size, 1), None)
  BY <1>1 DEF Text, Fits
<1> QED BY <1>2, ListShape

LEMMA MailShapes == \A l \in MailIn : FixedIn(l, mapHandlers)
<1>1. /\ \A op \in {\h0ac0, \h0ac1} : <<op, 26>> \in mapHandlers
      /\ \A op \in {\h09e8, \h09ea, \h09ee, \h09ef, \h09f1, \h09f3, \h09f5} : <<op, 11>> \in mapHandlers
      /\ \A op \in {\h0a08, \h0a13} : <<op, 26>> \in mapHandlers
      /\ <<\h0b97, 27>> \in mapHandlers
      /\ \A op \in {\h0a04, \h0a06} : <<op, 6>> \in mapHandlers
  BY DEF mapHandlers
<1>2. \A op \in {\h0ac0, \h0ac1, \h09e8, \h09ea, \h09ee, \h09ef, \h09f1, \h09f3, \h09f5} :
         FixedIn(CZMailReq(op), mapHandlers)
  BY <1>1, FixedShape DEF CZMailReq
<1>3. \A op \in {\h0a08, \h0a13, \h0b97} : FixedIn(CZOpenWriteMail(op), mapHandlers)
  BY <1>1, FixedShape DEF CZOpenWriteMail
<1>4. \A op \in {\h0a04, \h0a06} : FixedIn(CZMailAttachItem(op), mapHandlers)
  BY <1>1, FixedShape DEF CZMailAttachItem
<1> QED BY <1>2, <1>3, <1>4 DEF MailIn

\* The encoders of the map client agree with the dispatch table on every length; only the
\* pick-up is not dispatched.
LEMMA MapShapes ==
    \A l \in MapIn : \/ FixedIn(l, mapHandlers) \/ PrefixedIn(l, mapHandlers)
                    \/ l = CZItemPickupRequest
<1>1. {<<\h0202, 26>>, <<\h0203, 10>>, <<\h0208, 14>>, <<\h0165, 30>>, <<\h015d, 44>>,
      <<\h0168, 14>>, <<\h016b, 10>>, <<\h0072, 19>>, <<\h0085, 5>>, <<\h007e, 6>>,
      <<\h0089, 7>>, <<\h009b, 5>>, <<\h00bf, 3>>, <<\h0094, 6>>, <<\h00b2, 3>>,
      <<\h0112, 4>>, <<\h0090, 7>>, <<\h00b9, 6>>, <<\h0146, 6>>, <<\h00c5, 7>>,
      <<\h00bb, 5>>, <<\h00b8, 7>>, <<\h0143, 10>>, <<\h0363, 6>>, <<\h0439, 8>>,
      <<\h0998, 8>>, <<\h00ab, 4>>, <<\h0af4, 11>>, <<\h0438, 10>>, <<\h00f9, 26>>,
      <<\h00fc, 6>>, <<\h00ff, 10>>, <<\h0100, 2>>, <<\h07e4, 26>>, <<\h07e6, 8>>,
      <<\h07e7, 8>>, <<\h07e5, 2>>, <<\h00e4, 6>>, <<\h00e6, 3>>, <<\h00ed, 2>>,
      <<\h00e8, 8>>, <<\h00eb, 2>>, <<\h0159, 52>>, <<\h015b, 52>>}
      \subseteq mapHandlers
  BY DEF mapHandlers
<1>2. /\ <<\h017e, -1>> \in mapHandlers
      /\ <<\h008c, -1>> \in mapHandlers
      /\ <<\h0096, -1>> \in mapHandlers
      /\ <<\h00c8, -1>> \in mapHandlers
      /\ <<\h00c9, -1>> \in mapHandlers
      /\ <<\h01d5, -1>> \in mapHandlers
  BY DEF mapHandlers, VariableLength
<1>3. \A l \in {CZFriendsAdd, CZFriendsDelete, CZFriendsReply, CZCreateGuild,
      EncodeCZGuildBreak, EncodeCZReqJoinGuild, EncodeCZJoinGuild, CZEnterRequest,
      CZRequestMoveRequest, CZRequestTimeRequest, CZActionRequestRequest,
      CZChangeDirRequest, CZReqEmotionRequest, CZGetCharNameRequestRequest,
      CZRestartRequest, CZSkillUpRequest, CZContactNPCRequest, CZReqNextScriptRequest,
      CZCloseDialogRequest, CZAckSelectDealTypeRequest, CZStatusChangeRequest,
      CZChooseMenuRequest, CZInputEditDlgRequest, CZDropItemRequest, CZUseItemRequest,
      CZReqWearEquipRequest, CZReqTakeoffEquipRequest, CZUseSkillToPos, CZUseSkill,
      CZMakeGroup, CZReqJoinGroup, CZJoinGroup, EncodeCZReqLeaveGroup,
      CZReqOpenStore2, CZMoveItemToStore2, CZMoveItemToBody2, EncodeCZCloseStore,
      CZTradeRequest, CZTradeAck, EncodeCZTradeCancel, CZAddExchangeItem,
      EncodeCZTradeOk, EncodeCZGuildLeave} :
         FixedIn(l, mapHandlers)
  BY SMTT(60), <1>1, FixedShape DEF CZFriendsAdd, CZFriendsDelete, CZFriendsReply, CZCreateGuild, EncodeCZGuildBreak,
    EncodeCZReqJoinGuild, EncodeCZJoinGuild, CZEnterRequest, CZRequestMoveRequest,
    CZRequestTimeRequest, CZActionRequestRequest, CZChangeDirRequest,
    CZReqEmotionRequest, CZGetCharNameRequestRequest, CZRestartRequest,
    CZSkillUpRequest, CZContactNPCRequest, CZReqNextScriptRequest,
    CZCloseDialogRequest, CZAckSelectDealTypeRequest, CZStatusChangeRequest,
    CZChooseMenuRequest, CZInputEditDlgRequest, CZDropItemRequest, CZUseItemRequest,
    CZReqWearEquipRequest, CZReqTakeoffEquipRequest, CZUseSkillToPos, CZUseSkill,
    CZMakeGroup, CZReqJoinGroup, CZJoinGroup, EncodeCZReqLeaveGroup, CZReqOpenStore2,
    CZMoveItemToStore2, CZMoveItemToBody2, EncodeCZCloseStore, CZTradeRequest,
    CZTradeAck, EncodeCZTradeCancel, CZAddExchangeItem, EncodeCZTradeOk,
    EncodeCZGuildLeave
<1>4. FixedIn(EncodeCZGuildBan, mapHandlers)
  BY <1>1 DEF FixedIn, EncodeCZGuildBan, EncodeCZGuildLeave, Fixed
<1>5. PrefixedIn(EncodeCZGuildChat, mapHandlers)
  BY <1>2, TextShape DEF EncodeCZGuildChat
<1>6. PrefixedIn(CZGlobalMessageRequest, mapHandlers)
  BY <1>2, TextShape DEF CZGlobalMessageRequest
<1>7. PrefixedIn(CZWhisperRequest, mapHandlers)
  BY <1>2, TextShape DEF CZWhisperRequest
<1>8. PrefixedIn(CZInputEditDlgStrRequest, mapHandlers)
  BY <1>2, TextShape DEF CZInputEditDlgStrRequest
<1>9. PrefixedIn(CZPCPurchaseItemListRequest, mapHandlers)
  BY <1>2, ListShape DEF CZPCPurchaseItemListRequest
<1>10. PrefixedIn(CZPCSellItemListRequest, mapHandlers)
  BY <1>2, ListShape DEF CZPCSellItemListRequest
<1> QED BY <1>3, <1>4, <1>5, <1>6, <1>7, <1>8, <1>9, <1>10, MailShapes DEF MapIn

\* The length that the tables of a server give to a frame.
Cut(s, cmd) ==
    IF s = "login" THEN loginFrameSize
    ELSE IF Has(handlers[s], cmd) THEN Length(handlers[s], cmd)
    ELSE IF Has(db[s], cmd) THEN Length(db[s], cmd)
    ELSE 2

\* Has and Length on a table that gives a command one length.
LEMMA Lookup ==
    ASSUME NEW T, NEW c, NEW n, <<c, n>> \in T, \A d \in T : d[1] = c => d[2] = n
    PROVE  Has(T, c) /\ Length(T, c) = n
<1>1. <<c, n>>[1] = c
  OBVIOUS
<1>2. PICK d \in T : d = CHOOSE e \in T : e[1] = c
  BY <1>1, Zenon
<1>3. d[1] = c
  BY <1>1, <1>2, Zenon
<1> QED BY <1>1, <1>2, <1>3, Zenon DEF Has, Length

\* Has, on a table that does not list a command.
LEMMA NotListed ==
    ASSUME NEW T, NEW c, \A d \in T : d[1] # c
    PROVE  ~Has(T, c)
  BY DEF Has

\* mapHandlers gives no command two lengths.
LEMMA HandlersOnce == \A d, e \in mapHandlers : d[1] = e[1] => d[2] = e[2]
  BY SMTT(60) DEF mapHandlers

LEMMA MapCut == \A id, n : <<id, n>> \in mapHandlers => Cut("map", id) = n
<1> SUFFICES ASSUME NEW id, NEW n, <<id, n>> \in mapHandlers PROVE Cut("map", id) = n
  OBVIOUS
<1>1. \A d \in mapHandlers : d[1] = id => d[2] = n
  <2>1. <<id, n>>[1] = id /\ <<id, n>>[2] = n
    OBVIOUS
  <2> QED BY <2>1, HandlersOnce, Zenon
<1>2. Has(mapHandlers, id) /\ Length(mapHandlers, id) = n
  BY <1>1, Lookup
<1> QED BY <1>2 DEF Cut, handlers

LEMMA CharCut ==
    /\ Cut("char", \h0065) = 17 /\ Cut("char", \h0066) = 3 /\ Cut("char", \h0a39) = 36
    /\ Cut("char", \hffff) = 2
<1>1. /\ <<\h0065, 17>> \in charHandlers /\ \A d \in charHandlers : d[1] = \h0065 => d[2] = 17
      /\ <<\h0066, 3>> \in charHandlers /\ \A d \in charHandlers : d[1] = \h0066 => d[2] = 3
      /\ <<\h0a39, 36>> \in charHandlers /\ \A d \in charHandlers : d[1] = \h0a39 => d[2] = 36
      /\ \A d \in charHandlers : d[1] # \hffff
      /\ \A d \in NewCharServerDB : d[1] # \hffff
  BY DEF charHandlers, NewCharServerDB
<1>2. /\ Has(charHandlers, \h0065) /\ Length(charHandlers, \h0065) = 17
      /\ Has(charHandlers, \h0066) /\ Length(charHandlers, \h0066) = 3
      /\ Has(charHandlers, \h0a39) /\ Length(charHandlers, \h0a39) = 36
  BY <1>1, Lookup
<1>3. ~Has(charHandlers, \hffff) /\ ~Has(NewCharServerDB, \hffff)
  BY <1>1, NotListed
<1>4. handlers["char"] = charHandlers /\ db["char"] = NewCharServerDB
  BY DEF handlers, db
<1> QED BY <1>2, <1>3, <1>4 DEF Cut

\* What the map server has no handler for: a pick-up, an unknown command, and the length
\* field of the malformed frame read as a command.
LEMMA OddCut ==
    /\ Cut("map", \h009f) = 6 /\ Cut("map", \hffff) = 2 /\ Cut("map", 3) = 2
    /\ ~Has(mapHandlers, 3)
<1>1. /\ \A d \in mapHandlers : d[1] # \h009f
      /\ \A d \in mapHandlers : d[1] # \hffff
      /\ \A d \in mapHandlers : d[1] # 3
  BY DEF mapHandlers
<1>2. /\ \A d \in NewMapServerDB : d[1] # \hffff
      /\ \A d \in NewMapServerDB : d[1] # 3
      /\ \A d \in NewMapServerDB : d[1] = \h009f => d[2] = 6
  BY DEF NewMapServerDB, MapRequests, MapEnterReplies, MapChatAndUnits, MapDialogAndShop,
         MapFightAndEquip, MapTradeAndGround, MapPartyAndMail
<1>3. <<\h009f, 6>> \in NewMapServerDB
  BY DEF NewMapServerDB, MapFightAndEquip
<1>4. Has(NewMapServerDB, \h009f) /\ Length(NewMapServerDB, \h009f) = 6
  BY <1>2, <1>3, Lookup
<1>5. /\ ~Has(mapHandlers, \h009f) /\ ~Has(mapHandlers, \hffff) /\ ~Has(mapHandlers, 3)
      /\ ~Has(NewMapServerDB, \hffff) /\ ~Has(NewMapServerDB, 3)
  BY <1>1, <1>2, NotListed
<1>6. handlers["map"] = mapHandlers /\ db["map"] = NewMapServerDB
  BY DEF handlers, db
<1> QED BY <1>4, <1>5, <1>6 DEF Cut

\* What the tables make of a packet: it is cut at its end, except the malformed one,
\* whose command is taken alone.
Shape(s, p) ==
    /\ p.size \in Nat /\ p.size >= 2
    /\ p.field \in Nat
    /\ \/ Cut(s, p.id) = p.size /\ p.field >= 4
       \/ Cut(s, p.id) = -1 /\ p.field = p.size /\ p.field >= 4
       \/ Cut(s, p.id) = -1 /\ p.field = 3 /\ p.size = 4 /\ s = "map"
    /\ s = "login" => p.id \in Enters

\* Every packet of every client has the shape its server's tables announce.
LEMMA LoginFramed == \A p \in Packets["login"] : Shape("login", p)
<1>1. In["login"] = {CALoginRequest} /\ Odd["login"] = {}
  BY DEF In, LoginIn, Odd
<1>2. Packets["login"] = Encoded["login"] \cup Odd["login"]
  BY DEF Packets, Servers
<1>3. CALoginRequest.prefixed = FALSE /\ CALoginRequest.id = \h0064 /\ CALoginRequest.base = 55
  BY DEF CALoginRequest, Fixed
<1>4. \A p \in Encoded["login"] : p = Packet(\h0064, 55, Payload, 0)
  BY <1>1, <1>3 DEF Encoded, Servers
<1>5. Shape("login", Packet(\h0064, 55, Payload, 0))
  BY DEF Shape, Packet, Cut, Payload, loginFrameSize, Enters
<1> QED BY <1>1, <1>2, <1>4, <1>5

LEMMA CharFramed == \A p \in Packets["char"] : Shape("char", p)
<1>1. In["char"] = {CHEnterRequest, CHSelectCharRequest, CHMakeCharRequest}
  BY DEF In, CharIn
<1>2. Packets["char"] = Encoded["char"] \cup {Unknown}
  BY DEF Packets, Servers, Odd
<1>3. /\ \A l \in In["char"] : l.prefixed = FALSE
      /\ CHEnterRequest.id = \h0065 /\ CHEnterRequest.base = 17
      /\ CHSelectCharRequest.id = \h0066 /\ CHSelectCharRequest.base = 3
      /\ CHMakeCharRequest.id = \h0a39 /\ CHMakeCharRequest.base = 36
  BY <1>1 DEF CHEnterRequest, CHSelectCharRequest, CHMakeCharRequest, Fixed
<1>4. \A p \in Encoded["char"] : \E l \in In["char"] : p = Packet(l.id, l.base, Payload, 0)
  BY <1>3 DEF Encoded, Servers
<1>5. \A p \in Encoded["char"] : \/ p = Packet(\h0065, 17, Payload, 0)
                                \/ p = Packet(\h0066, 3, Payload, 0)
                                \/ p = Packet(\h0a39, 36, Payload, 0)
  BY <1>1, <1>3, <1>4
<1>6. /\ Shape("char", Packet(\h0065, 17, Payload, 0))
      /\ Shape("char", Packet(\h0066, 3, Payload, 0))
      /\ Shape("char", Packet(\h0a39, 36, Payload, 0))
      /\ Shape("char", Unknown)
  BY CharCut DEF Shape, Packet, Payload, Unknown
<1> QED BY <1>2, <1>5, <1>6

LEMMA MapFramed == \A p \in Packets["map"] : Shape("map", p)
<1>1. In["map"] = MapIn
  BY DEF In
<1>2. Packets["map"] = Encoded["map"] \cup ({Unknown, Malformed} \cup Short)
  BY DEF Packets, Servers, Odd
<1>3. \A p \in Encoded["map"] :
         \/ \E l \in MapIn : l.prefixed = FALSE /\ p = Packet(l.id, l.base, Payload, 0)
         \/ \E l \in MapIn, n \in TextLengths :
                l.prefixed /\ p = Packet(l.id, Size(l, n), LengthField(l, n), n)
  BY <1>1 DEF Encoded, Servers
<1>4. ASSUME NEW l \in MapIn, l.prefixed = FALSE
      PROVE  Shape("map", Packet(l.id, l.base, Payload, 0))
  <2>1. CASE FixedIn(l, mapHandlers)
    BY <2>1, MapCut DEF FixedIn, Shape, Packet, Payload
  <2>2. CASE l = CZItemPickupRequest
    BY <2>2, OddCut DEF CZItemPickupRequest, Fixed, Shape, Packet, Payload
  <2> QED BY <1>4, <2>1, <2>2, MapShapes DEF PrefixedIn
<1>5. ASSUME NEW l \in MapIn, NEW n \in TextLengths, l.prefixed
      PROVE  Shape("map", Packet(l.id, Size(l, n), LengthField(l, n), n))
  <2>0. CZItemPickupRequest.prefixed = FALSE
    BY DEF CZItemPickupRequest, Fixed
  <2>1. PrefixedIn(l, mapHandlers)
    BY <1>5, <2>0, MapShapes, Zenon DEF FixedIn
  <2>2. n \in Nat /\ n <= l.most
    <3>1. "map" \in Servers
      BY DEF Servers
    <3>2. n <= l.most
      BY <1>1, <1>5, <3>1, TextAssumption, Zenon
    <3>3. n \in Nat
      BY WireAssumption
    <3> QED BY <3>2, <3>3
  <2>3. Cut("map", l.id) = -1
    BY <2>1, MapCut DEF PrefixedIn
  <2>4. Size(l, n) \in Nat /\ Size(l, n) >= 4 /\ Size(l, n) <= 65535
    BY <2>1, <2>2 DEF PrefixedIn, Size, Fits
  <2>5. LengthField(l, n) = Size(l, n)
    BY <2>4 DEF LengthField
  <2> QED BY <2>3, <2>4, <2>5 DEF Shape, Packet
<1>6. \A p \in Short : Shape("map", p)
  <2>1. \A n \in ShortSizes : n \in Nat /\ n >= 4
    BY WireAssumption
  <2>2. \A h \in mapHandlers : h = <<h[1], h[2]>>
    BY DEF mapHandlers
  <2>3. ASSUME NEW h \in mapHandlers, h[2] = -1, NEW n \in ShortSizes, NEW text
        PROVE  Shape("map", Packet(h[1], n, n, text))
    <3>1. Cut("map", h[1]) = -1
      BY <2>2, <2>3, MapCut
    <3> QED BY <2>1, <3>1 DEF Shape, Packet
  <2> QED BY <2>3 DEF Short, VariableLength
<1>7. Shape("map", Unknown)
  BY OddCut DEF Unknown, Shape, Packet, Payload
<1>8. Shape("map", Malformed)
  <2>1. <<\h008c, -1>> \in mapHandlers
    BY DEF mapHandlers, VariableLength
  <2> QED BY <2>1, MapCut DEF Malformed, Shape, Packet
<1> QED BY <1>2, <1>3, <1>4, <1>5, <1>6, <1>7, <1>8

LEMMA Framed == \A s \in Servers : \A p \in Packets[s] : Shape(s, p)
  BY LoginFramed, CharFramed, MapFramed DEF Servers

\* Everything a client writes is a Packet.
IsPacket(p) == \E id, size, field : \E text \in Nat : p = Packet(id, size, field, text)
LEMMA APacket ==
    \A s \in Servers : \A p \in Packets[s] : IsPacket(p)
<1>1. \A s \in Servers : \A p \in Encoded[s] : IsPacket(p)
  BY WireAssumption DEF Encoded, IsPacket
<1>2. \A p \in Short : IsPacket(p)
  BY DEF Short, IsPacket
<1>3. \A s \in Servers : \A p \in Odd[s] : p \in {Unknown, Malformed} \cup Short
  BY DEF Odd, Servers
<1>4. \A s \in Servers : Packets[s] = Encoded[s] \cup Odd[s]
  BY DEF Packets
<1>5. \A p \in {Unknown, Malformed} : IsPacket(p)
  BY DEF Unknown, Malformed, IsPacket
<1> QED BY <1>1, <1>2, <1>3, <1>4, <1>5

\* The stream: what the client wrote lies end to end, each packet as the tables cut it.
Written == [id : {p.id : p \in Packets[server]}, size : Nat, field : Nat, chars : Nat,
            late : BOOLEAN, at : Nat]
Stream ==
    /\ server \in Servers
    /\ sent \in Seq(Written)
    /\ Total \in Nat
    /\ \A k \in DOMAIN sent : Shape(server, sent[k]) /\ End(k) <= Total
    /\ \A j, k \in DOMAIN sent : j # k => End(j) <= Start(k) \/ End(k) <= Start(j)
    /\ \A k \in DOMAIN sent : End(k) = Total \/ \E j \in DOMAIN sent : Start(j) = End(k)

\* OnTraffic stands where a packet begins, or behind the command of the malformed one.
Position ==
    /\ arrived \in Nat /\ arrived <= Total
    /\ pos \in Nat /\ pos <= arrived
    /\ \/ pos = Total
       \/ \E k \in DOMAIN sent : \/ pos = Start(k)
                                 \/ pos = Start(k) + 2 /\ sent[k].field < 4

\* What is known of a packet of the stream.
LEMMA PacketType ==
    ASSUME Stream, NEW k \in DOMAIN sent
    PROVE  /\ sent[k] \in Written
           /\ Start(k) \in Nat /\ sent[k].size \in Nat /\ sent[k].size >= 2
           /\ sent[k].field \in Nat
           /\ End(k) = Start(k) + sent[k].size /\ End(k) \in Nat /\ End(k) <= Total
<1>1. sent[k] \in Written
  BY DEF Stream
<1>2. sent[k].at \in Nat /\ sent[k].size \in Nat /\ sent[k].field \in Nat
  BY <1>1 DEF Written
<1> QED BY <1>1, <1>2 DEF Stream, Start, End, Shape

\* The packets are apart, so the front of the buffer lies in one of them only.
LEMMA FrontIs ==
    ASSUME Stream, NEW k \in DOMAIN sent, pos \in Nat, Start(k) <= pos, pos < End(k)
    PROVE  Front = k
<1>1. \A j \in DOMAIN sent : Start(j) <= pos /\ pos < End(j) => j = k
  <2>1. \A j \in DOMAIN sent : Start(j) \in Nat /\ End(j) \in Nat
    BY PacketType
  <2> QED BY <2>1 DEF Stream
<1>2. \A j : j \in DOMAIN sent /\ Start(j) <= pos /\ pos < End(j) <=> j = k
  BY <1>1
<1> QED BY <1>2 DEF Front

\* A round takes what the tables say of the command at the front.
LEMMA TakeIs ==
    ASSUME Stream, InboundBuffered \in Int
    PROVE  Take = IF InboundBuffered < 2 THEN 0 ELSE frameLen(Cut(server, Opcode))
<1>1. server = "login" => Take = frameLen(55) /\ Cut(server, Opcode) = 55
  BY DEF Take, Cut, loginFrameSize
<1>2. InboundBuffered < 2 => frameLen(55) = 0
  BY DEF frameLen, VariableLength
<1>3. ~(InboundBuffered < 2) => frameLen(2) = 2
  BY DEF frameLen, VariableLength
<1> QED BY <1>1, <1>2, <1>3 DEF Take, Cut, Handled, unhandledSkip

\* What one round takes: a whole packet, or the command of the malformed one, or the two
\* bytes behind it, which no handler gets.
LEMMA TakeAt ==
    ASSUME Stream, Position, Take > 0
    PROVE  /\ Take \in Nat /\ pos + Take <= arrived
           /\ \E k \in DOMAIN sent :
                \/ /\ pos = Start(k)
                   /\ Opcode = sent[k].id
                   /\ Take = sent[k].size \/ (Take = 2 /\ sent[k].field < 4)
                \/ /\ pos = Start(k) + 2 /\ sent[k].field < 4 /\ sent[k].size = 4
                   /\ Take = 2 /\ server # "login" /\ ~Handled
<1>1. InboundBuffered \in Nat /\ ~(InboundBuffered < 2)
  <2>1. InboundBuffered \in Nat
    BY DEF InboundBuffered, Position
  <2> QED BY <2>1, TakeIs
<1>2. pos # Total
  BY <1>1 DEF Position, InboundBuffered, Stream
<1>3. Take = frameLen(Cut(server, Opcode))
  BY <1>1, TakeIs
<1>4. PICK k \in DOMAIN sent : pos = Start(k) \/ (pos = Start(k) + 2 /\ sent[k].field < 4)
  BY <1>2 DEF Position
<1>5. /\ Shape(server, sent[k])
      /\ Start(k) \in Nat /\ sent[k].size \in Nat /\ sent[k].field \in Nat
      /\ End(k) = Start(k) + sent[k].size
  BY PacketType DEF Stream
<1>6. CASE pos = Start(k)
  <2>1. Front = k
    BY <1>5, <1>6, FrontIs DEF Shape, Position
  <2>2. Offset = 0
    BY <1>5, <1>6, <2>1 DEF Offset
  <2>3. Opcode = sent[k].id /\ Field = sent[k].field
    BY <2>1, <2>2 DEF Opcode, Field
  <2>4. CASE Cut(server, sent[k].id) = sent[k].size
    <3>1. Take = sent[k].size /\ ~(InboundBuffered < sent[k].size)
      BY <1>1, <1>3, <1>5, <2>3, <2>4 DEF frameLen, VariableLength
    <3> QED BY <1>5, <1>6, <2>3, <3>1 DEF InboundBuffered, Position
  <2>5. CASE Cut(server, sent[k].id) = -1
    <3>1. Take = variableFrameSize
      BY <1>3, <2>3, <2>5 DEF frameLen, VariableLength
    <3>2. \/ Take = 2 /\ sent[k].field < 4
          \/ Take = sent[k].field /\ sent[k].field >= 4 /\ ~(InboundBuffered < sent[k].field)
      BY <1>1, <1>5, <2>3, <3>1 DEF variableFrameSize
    <3>3. sent[k].field >= 4 => sent[k].size = sent[k].field
      BY <1>5, <2>5 DEF Shape
    <3> QED BY <1>1, <1>5, <1>6, <2>3, <3>2, <3>3 DEF InboundBuffered, Position
  <2> QED BY <1>5, <2>4, <2>5 DEF Shape
<1>7. CASE pos = Start(k) + 2 /\ sent[k].field < 4
  <2>1. sent[k].field = 3 /\ sent[k].size = 4 /\ server = "map"
    BY <1>5, <1>7 DEF Shape
  <2>2. Front = k
    BY <1>5, <1>7, <2>1, FrontIs DEF Position
  <2>3. Offset = 2
    BY <1>5, <1>7, <2>2 DEF Offset
  <2>4. Opcode = 3
    BY <2>1, <2>2, <2>3 DEF Opcode
  <2>5. Cut(server, Opcode) = 2 /\ ~Handled
    BY <2>1, <2>4, OddCut DEF Handled, handlers
  <2>6. Take = 2
    BY <1>1, <1>3, <2>5 DEF frameLen, VariableLength
  <2> QED BY <1>1, <1>7, <2>1, <2>5, <2>6 DEF InboundBuffered, Position
<1> QED BY <1>4, <1>6, <1>7

Frames ==
    \A f \in running :
        /\ f = [at |-> f.at, id |-> f.id, size |-> f.size, auth |-> f.auth, step |-> f.step]
        /\ \E k \in DOMAIN sent :
              /\ f.at = Start(k)
              /\ f.id = sent[k].id
              /\ f.size = sent[k].size \/ (f.size = 2 /\ sent[k].field < 4)

\* An accept on the wire, or about to be, says the identity is kept; so does a frame of a
\* packet written after it.
Identified ==
    /\ auth \in BOOLEAN /\ accepted \in BOOLEAN
    /\ accepted => auth \/ server = "login"
    /\ \A f \in running : f.step = "accept" => auth \/ server = "login"
    /\ \A k \in DOMAIN sent : sent[k].late => accepted
    /\ \A f \in running, k \in DOMAIN sent :
          f.at = Start(k) /\ sent[k].late => f.auth \/ server = "login"
    /\ \A n \in dropped : \E k \in DOMAIN sent : n = Start(k) /\ ~sent[k].late

WireInv == Stream /\ Position /\ Frames /\ Identified

LEMMA OnePlace ==
    ASSUME Stream, NEW j \in DOMAIN sent, NEW k \in DOMAIN sent, Start(j) = Start(k)
    PROVE  j = k
<1>1. /\ Start(j) \in Nat /\ End(j) \in Nat /\ Start(j) < End(j)
      /\ Start(k) \in Nat /\ End(k) \in Nat /\ Start(k) < End(k)
  BY PacketType
<1>2. j # k => End(j) <= Start(k) \/ End(k) <= Start(j)
  BY DEF Stream
<1> QED BY <1>1, <1>2

LEMMA WireInvImplies == WireInv => Aligned /\ AcceptedIsServed
<1> SUFFICES ASSUME WireInv PROVE Aligned /\ AcceptedIsServed
  OBVIOUS
<1>1. Aligned
  BY DEF WireInv, Position, Frames, Aligned
<1>2. ASSUME NEW k \in DOMAIN sent, sent[k].late, Start(k) \in dropped PROVE FALSE
  BY <1>2, OnePlace DEF WireInv, Identified
<1> QED BY <1>1, <1>2 DEF AcceptedIsServed

LEMMA WireInvInit == WireInit => WireInv
<1> SUFFICES ASSUME WireInit PROVE WireInv
  OBVIOUS
<1>1. sent = << >> /\ DOMAIN sent = {} /\ Total = 0
  BY DEF WireInit, Total
<1>2. Stream
  BY <1>1 DEF WireInit, Stream
<1>3. Position
  BY <1>1 DEF WireInit, Position
<1>4. Frames
  BY DEF WireInit, Frames
<1>5. Identified
  <2>1. running = {} /\ dropped = {} /\ auth = FALSE /\ accepted = FALSE
    BY DEF WireInit
  <2> QED BY <1>1, <2>1 DEF Identified
<1> QED BY <1>2, <1>3, <1>4, <1>5 DEF WireInv

\* The stamp of Send leaves a packet the shape it had.
LEMMA Stamped ==
    ASSUME NEW s \in Servers, NEW p \in Packets[s], NEW late \in BOOLEAN, NEW place \in Nat
    PROVE  /\ [p EXCEPT !.late = late, !.at = place]
                \in [id : {q.id : q \in Packets[s]}, size : Nat, field : Nat, chars : Nat, late : BOOLEAN,
                     at : Nat]
           /\ Shape(s, [p EXCEPT !.late = late, !.at = place])
           /\ [p EXCEPT !.late = late, !.at = place].late = late
           /\ [p EXCEPT !.late = late, !.at = place].at = place
           /\ [p EXCEPT !.late = late, !.at = place].size = p.size
<1> DEFINE q == [p EXCEPT !.late = late, !.at = place]
<1>1. Shape(s, p)
  BY Framed
<1>2. PICK id, size, field, text : text \in Nat /\ p = Packet(id, size, field, text)
  BY APacket DEF IsPacket
<1>3. p.size \in Nat /\ p.field \in Nat
  BY <1>1 DEF Shape
<1>4. p \in [id : {r.id : r \in Packets[s]}, size : Nat, field : Nat, chars : Nat, late : BOOLEAN, at : Nat]
  <2>1. p = [id |-> id, size |-> size, field |-> field, chars |-> text, late |-> FALSE, at |-> 0]
    BY <1>2 DEF Packet
  <2> DEFINE Commands == {r.id : r \in Packets[s]}
  <2>2. p.id \in Commands
    OBVIOUS
  <2> HIDE DEF Commands
  <2>3. id \in Commands /\ size \in Nat /\ field \in Nat /\ text \in Nat
    BY <1>2, <1>3, <2>1, <2>2
  <2>4. p \in [id : Commands, size : Nat, field : Nat, chars : Nat, late : BOOLEAN, at : Nat]
    BY <2>1, <2>3
  <2> QED BY <2>4 DEF Commands
<1>5. q \in [id : {r.id : r \in Packets[s]}, size : Nat, field : Nat, chars : Nat, late : BOOLEAN, at : Nat]
  BY <1>4
<1>6. q.id = p.id /\ q.size = p.size /\ q.field = p.field /\ q.late = late /\ q.at = place
  BY <1>4
<1> HIDE DEF q
<1>7. Shape(s, q)
  BY <1>1, <1>6 DEF Shape
<1> QED BY <1>5, <1>6, <1>7 DEF q

\* What Send does to the stream, and to the places in it.
LEMMA Grown ==
    ASSUME Stream, accepted \in BOOLEAN, NEW p \in Packets[server], Send(p),
           NEW n, n = Len(sent) + 1
    PROVE  /\ p.size \in Nat /\ p.size >= 2
           /\ sent' \in Seq(Written) /\ sent' # << >> /\ Len(sent') = n
           /\ DOMAIN sent' = DOMAIN sent \cup {n}
           /\ n \notin DOMAIN sent
           /\ \A k \in DOMAIN sent : sent'[k] = sent[k]
           /\ sent'[n].late = accepted
           /\ sent'[n].at = Total
           /\ sent'[n].size = p.size
           /\ Shape(server, sent'[n])
<1> DEFINE q == [p EXCEPT !.late = accepted, !.at = Total]
<1>1. /\ q \in Written /\ Shape(server, q)
      /\ q.late = accepted /\ q.at = Total /\ q.size = p.size
  BY Stamped DEF Stream, Written
<1>2. p.size \in Nat /\ p.size >= 2
  BY Framed DEF Stream, Shape
<1>3. sent' = Append(sent, q) /\ sent \in Seq(Written)
  BY DEF Send, Stream
<1> HIDE DEF q
<1>4. Len(sent) \in Nat /\ DOMAIN sent = 1..Len(sent)
  BY <1>3
<1>5. /\ sent' \in Seq(Written) /\ sent' # << >> /\ Len(sent') = n
      /\ DOMAIN sent' = 1..n
      /\ \A k \in DOMAIN sent : sent'[k] = sent[k]
      /\ sent'[n] = q
  BY <1>1, <1>3, <1>4
<1> QED BY <1>1, <1>2, <1>4, <1>5

LEMMA GrownPlaces ==
    ASSUME Stream, accepted \in BOOLEAN, NEW p \in Packets[server], Send(p),
           NEW n, n = Len(sent) + 1
    PROVE  /\ \A k \in DOMAIN sent : Start(k)' = Start(k) /\ End(k)' = End(k)
           /\ Start(n)' = Total
           /\ End(n)' = Total + p.size
           /\ Total' = Total + p.size
<1>1. \A k \in DOMAIN sent : Start(k)' = Start(k) /\ End(k)' = End(k)
  BY Grown DEF Start, End
<1>2. Start(n)' = Total /\ End(n)' = Total + p.size
  BY Grown DEF Start, End
<1>3. sent' # << >> /\ Len(sent') = n
  BY Grown
<1>4. Total' = sent'[n].at + sent'[n].size
  BY <1>3 DEF Total, End, Start
<1> QED BY <1>1, <1>2, <1>4, Grown

\* Send puts a packet behind the last one; no frame and no dropped packet is there yet.
LEMMA SendStep ==
    ASSUME WireInv, NEW p \in Packets[server], Send(p)
    PROVE  WireInv'
<1>1. PICK n : n = Len(sent) + 1
  OBVIOUS
<1>2. Stream /\ Position /\ Frames /\ Identified /\ accepted \in BOOLEAN
  BY DEF WireInv, Identified
<1>3. UNCHANGED <<server, arrived, pos, looping, auth, running, accepted, dropped>>
  BY DEF Send
<1>4. /\ p.size \in Nat /\ p.size >= 2
      /\ DOMAIN sent' = DOMAIN sent \cup {n} /\ n \notin DOMAIN sent
      /\ \A k \in DOMAIN sent : sent'[k] = sent[k]
      /\ sent'[n].late = accepted
      /\ Shape(server, sent'[n])
      /\ sent' \in Seq(Written)
  BY <1>1, <1>2, Grown
<1>5. /\ \A k \in DOMAIN sent : Start(k)' = Start(k) /\ End(k)' = End(k)
      /\ Start(n)' = Total
      /\ End(n)' = Total + p.size
      /\ Total' = Total + p.size
  BY <1>1, <1>2, GrownPlaces
<1>6. Total \in Nat /\ \A k \in DOMAIN sent : Start(k) \in Nat /\ End(k) \in Nat /\ Start(k) < End(k)
                                              /\ End(k) <= Total
  BY <1>2, PacketType DEF Stream
<1>7. Stream'
  <2>1. (sent \in Seq(Written))'
    BY <1>3, <1>4 DEF Written
  <2>2. (Total \in Nat)'
    BY <1>4, <1>5, <1>6
  <2>3. ASSUME NEW k \in DOMAIN sent'
        PROVE  Shape(server', sent'[k]) /\ End(k)' <= Total'
    BY <1>2, <1>3, <1>4, <1>5, <1>6 DEF Stream
  <2>4. ASSUME NEW j \in DOMAIN sent', NEW k \in DOMAIN sent', j # k
        PROVE  End(j)' <= Start(k)' \/ End(k)' <= Start(j)'
    BY <1>2, <1>4, <1>5, <1>6, <2>4 DEF Stream
  <2>5. ASSUME NEW k \in DOMAIN sent'
        PROVE  End(k)' = Total' \/ \E j \in DOMAIN sent' : Start(j)' = End(k)'
    BY <1>2, <1>4, <1>5, <1>6 DEF Stream
  <2>6. (server \in Servers)'
    BY <1>2, <1>3 DEF Stream
  <2> QED BY <2>1, <2>2, <2>3, <2>4, <2>5, <2>6 DEF Stream
<1>8. Position'
  <2>1. pos' = Total' \/ \E k \in DOMAIN sent' : \/ pos' = Start(k)'
                                                 \/ pos' = Start(k)' + 2 /\ sent'[k].field < 4
    BY <1>2, <1>3, <1>4, <1>5 DEF Position
  <2>2. arrived \in Nat /\ pos \in Nat /\ pos <= arrived /\ arrived' <= Total'
    BY <1>2, <1>3, <1>4, <1>5, <1>6 DEF Position
  <2> QED BY <1>3, <2>1, <2>2 DEF Position
<1>9. Frames'
  BY <1>2, <1>3, <1>4, <1>5 DEF Frames
<1>10. Identified'
  <2>1. \A f \in running : f.at # Total
    BY <1>2, <1>6 DEF Frames
  <2>2. \A f \in running', k \in DOMAIN sent' :
           f.at = Start(k)' /\ sent'[k].late => f.auth \/ server' = "login"
    BY <1>2, <1>3, <1>4, <1>5, <2>1 DEF Identified
  <2>3. \A k \in DOMAIN sent' : sent'[k].late => accepted'
    BY <1>2, <1>3, <1>4 DEF Identified
  <2>4. \A m \in dropped' : \E k \in DOMAIN sent' : m = Start(k)' /\ ~sent'[k].late
    BY <1>2, <1>3, <1>4, <1>5 DEF Identified
  <2> QED BY <1>2, <1>3, <2>2, <2>3, <2>4 DEF Identified
<1> QED BY <1>7, <1>8, <1>9, <1>10 DEF WireInv

\* Nothing but Send changes the stream.
LEMMA SameStream ==
    ASSUME Stream, sent' = sent, server' = server
    PROVE  /\ Stream'
           /\ Total' = Total
           /\ \A k : Start(k)' = Start(k) /\ End(k)' = End(k)
<1>1. \A k : Start(k)' = Start(k) /\ End(k)' = End(k)
  BY DEF Start, End
<1>2. Total' = Total
  BY DEF Total, End, Start
<1>3. Written' = Written
  BY DEF Written
<1> QED BY <1>1, <1>2, <1>3 DEF Stream

LEMMA DeliverStep ==
    ASSUME WireInv, NEW to \in Edges, Deliver(to)
    PROVE  WireInv'
<1>1. UNCHANGED <<server, sent, pos, auth, running, accepted, dropped>>
  BY DEF Deliver
<1>2. /\ Stream' /\ Total' = Total
      /\ \A k : Start(k)' = Start(k)
  BY <1>1, SameStream DEF WireInv
<1>3. arrived' \in Nat /\ arrived <= arrived' /\ arrived' <= Total
  BY DEF Deliver, WireInv, Position, Stream
<1>4. Position'
  BY <1>1, <1>2, <1>3 DEF WireInv, Position
<1>5. Frames'
  BY <1>1, <1>2 DEF WireInv, Frames
<1>6. Identified'
  BY <1>1, <1>2 DEF WireInv, Identified
<1> QED BY <1>2, <1>4, <1>5, <1>6 DEF WireInv

\* Where OnTraffic stands after it took what lies in front of it.
LEMMA Moved ==
    ASSUME WireInv, Take > 0, pos' = pos + Take, UNCHANGED <<server, sent, arrived>>
    PROVE  Position'
<1>1. Stream /\ Position
  BY DEF WireInv
<1>2. Take \in Nat /\ pos + Take <= arrived
  BY <1>1, TakeAt
<1>3. PICK k \in DOMAIN sent :
        \/ /\ pos = Start(k)
           /\ Take = sent[k].size \/ (Take = 2 /\ sent[k].field < 4)
        \/ /\ pos = Start(k) + 2 /\ sent[k].field < 4 /\ sent[k].size = 4
           /\ Take = 2
  BY <1>1, TakeAt
<1>4. End(k) = Start(k) + sent[k].size /\ Start(k) \in Nat /\ sent[k].size \in Nat
  BY <1>1, PacketType
<1>5. \/ pos' = End(k)
      \/ pos' = Start(k) + 2 /\ sent[k].field < 4
  BY <1>3, <1>4
<1>6. End(k) = Total \/ \E j \in DOMAIN sent : Start(j) = End(k)
  BY <1>1 DEF Stream
<1>7. Total' = Total /\ \A j : Start(j)' = Start(j)
  BY <1>1, SameStream
<1>8. pos' \in Nat /\ pos' <= arrived
  BY <1>1, <1>2 DEF Position
<1> QED BY <1>1, <1>5, <1>6, <1>7, <1>8 DEF Position

LEMMA WaitStep == WireInv /\ Wait => WireInv'
<1> SUFFICES ASSUME WireInv, Wait PROVE WireInv'
  OBVIOUS
<1>1. UNCHANGED <<server, sent, arrived, pos, auth, running, accepted, dropped>>
  BY DEF Wait
<1>2. /\ Stream' /\ Total' = Total
      /\ \A k : Start(k)' = Start(k)
  BY <1>1, SameStream DEF WireInv
<1>3. Position' /\ Frames' /\ Identified'
  BY <1>1, <1>2 DEF WireInv, Position, Frames, Identified
<1> QED BY <1>2, <1>3 DEF WireInv

LEMMA SkipStep == WireInv /\ Skip => WireInv'
<1> SUFFICES ASSUME WireInv, Skip PROVE WireInv'
  OBVIOUS
<1>1. UNCHANGED <<server, sent, arrived, auth, running, accepted, dropped>>
  BY DEF Skip
<1>2. Stream' /\ \A k : Start(k)' = Start(k)
  BY <1>1, SameStream DEF WireInv
<1>3. Position'
  BY <1>1, Moved DEF Skip
<1>4. Frames' /\ Identified'
  BY <1>1, <1>2 DEF WireInv, Frames, Identified
<1> QED BY <1>2, <1>3, <1>4 DEF WireInv

\* The frame a goroutine gets is the packet at the front, and the identity with it is there
\* if the client was accepted before it wrote that packet.
LEMMA DispatchStep == WireInv /\ Dispatch => WireInv'
<1> SUFFICES ASSUME WireInv, Dispatch PROVE WireInv'
  OBVIOUS
<1> DEFINE g == [at |-> pos, id |-> Opcode, size |-> Take, auth |-> auth, step |-> "parse"]
<1>1. UNCHANGED <<server, sent, arrived, auth, accepted, dropped>>
  BY DEF Dispatch
<1>2. Stream' /\ \A k : Start(k)' = Start(k)
  BY <1>1, SameStream DEF WireInv
<1>3. Position'
  BY <1>1, Moved DEF Dispatch
<1>4. Stream /\ Frames /\ Identified
  BY DEF WireInv
<1>5. PICK k \in DOMAIN sent :
         /\ pos = Start(k)
         /\ Opcode = sent[k].id
         /\ Take = sent[k].size \/ (Take = 2 /\ sent[k].field < 4)
  BY TakeAt DEF WireInv, Dispatch
<1>6. running' = running \cup {g}
  BY DEF Dispatch
<1>7. g.at = pos /\ g.id = Opcode /\ g.size = Take /\ g.auth = auth /\ g.step = "parse"
  OBVIOUS
<1>8. g = [at |-> g.at, id |-> g.id, size |-> g.size, auth |-> g.auth, step |-> g.step]
  OBVIOUS
<1> HIDE DEF g
<1>9. Frames'
  BY <1>1, <1>2, <1>4, <1>5, <1>6, <1>7, <1>8 DEF Frames
<1>10. Identified'
  <2>1. ASSUME NEW j \in DOMAIN sent, g.at = Start(j), sent[j].late
        PROVE  g.auth \/ server = "login"
    BY <1>4, <1>7, <2>1 DEF Identified
  <2>2. \A f \in running', j \in DOMAIN sent' :
           f.at = Start(j)' /\ sent'[j].late => f.auth \/ server' = "login"
    BY <1>1, <1>2, <1>4, <1>6, <2>1 DEF Identified
  <2>3. \A f \in running' : f.step = "accept" => auth' \/ server' = "login"
    BY <1>1, <1>4, <1>6, <1>7 DEF Identified
  <2> QED BY <1>1, <1>2, <1>4, <2>2, <2>3 DEF Identified
<1> QED BY <1>2, <1>3, <1>9, <1>10 DEF WireInv

\* A handler moves on or returns: what is left of running is frames that were there, at
\* another step.
LEMMA HandlerFrames ==
    ASSUME WireInv, UNCHANGED <<server, sent, arrived, pos>>,
           \A f \in running' : \E h \in running :
              f = [at |-> h.at, id |-> h.id, size |-> h.size, auth |-> h.auth, step |-> f.step]
    PROVE  /\ Stream' /\ Position' /\ Frames'
           /\ \A k : Start(k)' = Start(k)
           /\ \A f \in running', k \in DOMAIN sent' :
                 f.at = Start(k)' /\ sent'[k].late => f.auth \/ server' = "login"
<1>1. /\ Stream' /\ Total' = Total
      /\ \A k : Start(k)' = Start(k)
  BY SameStream DEF WireInv
<1>2. Position'
  BY <1>1 DEF WireInv, Position
<1>3. \A f \in running' : \E h \in running :
         /\ f.at = h.at /\ f.id = h.id /\ f.size = h.size /\ f.auth = h.auth
         /\ f = [at |-> f.at, id |-> f.id, size |-> f.size, auth |-> f.auth, step |-> f.step]
  OBVIOUS
<1>4. Frames'
  BY <1>1, <1>3 DEF WireInv, Frames
<1>5. \A f \in running', k \in DOMAIN sent' :
         f.at = Start(k)' /\ sent'[k].late => f.auth \/ server' = "login"
  BY <1>1, <1>3 DEF WireInv, Identified
<1> QED BY <1>1, <1>2, <1>4, <1>5

LEMMA Restep ==
    ASSUME Frames, NEW f \in running, NEW step
    PROVE  /\ [f EXCEPT !.step = step]
                = [at |-> f.at, id |-> f.id, size |-> f.size, auth |-> f.auth, step |-> step]
           /\ [f EXCEPT !.step = step].step = step
<1>1. PICK place, id, size, a, st :
         f = [at |-> place, id |-> id, size |-> size, auth |-> a, step |-> st]
  BY DEF Frames
<1>2. /\ f.at = place /\ f.id = id /\ f.size = size /\ f.auth = a
      /\ [[at |-> place, id |-> id, size |-> size, auth |-> a, step |-> st] EXCEPT !.step = step]
            = [at |-> place, id |-> id, size |-> size, auth |-> a, step |-> step]
  BY <1>1
<1> QED BY <1>1, <1>2

\* The two ways a handler leaves running: it returns, or it goes on to another step.
LEMMA ReturnFrames ==
    ASSUME Frames, NEW f \in running, running' = running \ {f}
    PROVE  /\ \A g \in running' : \E h \in running :
                g = [at |-> h.at, id |-> h.id, size |-> h.size, auth |-> h.auth, step |-> g.step]
           /\ \A g \in running' : g \in running
  BY DEF Frames

LEMMA RestepFrames ==
    ASSUME Frames, NEW f \in running, NEW step,
           running' = (running \ {f}) \cup {[f EXCEPT !.step = step]}
    PROVE  /\ \A g \in running' : \E h \in running :
                g = [at |-> h.at, id |-> h.id, size |-> h.size, auth |-> h.auth, step |-> g.step]
           /\ \A g \in running' : g.step = step \/ g \in running
<1> DEFINE r == [f EXCEPT !.step = step]
<1>1. /\ r = [at |-> f.at, id |-> f.id, size |-> f.size, auth |-> f.auth, step |-> step]
      /\ r.step = step
  BY Restep
<1> HIDE DEF r
<1>2. running' = (running \ {f}) \cup {r}
  BY DEF r
<1> QED BY <1>1, <1>2 DEF Frames

\* What is dropped was written before the accept.
LEMMA DropStep ==
    ASSUME WireInv, NEW f \in running, Drop(f)
    PROVE  WireInv'
<1>1. /\ UNCHANGED <<server, sent, arrived, pos, auth, accepted>>
      /\ running' = running \ {f}
      /\ dropped' = dropped \cup {f.at}
  BY DEF Drop, Done
<1>2. Stream /\ Frames /\ Identified
  BY DEF WireInv
<1>3. /\ Stream' /\ Position' /\ Frames'
      /\ \A k : Start(k)' = Start(k)
      /\ \A g \in running', k \in DOMAIN sent' :
            g.at = Start(k)' /\ sent'[k].late => g.auth \/ server' = "login"
  BY <1>1, <1>2, ReturnFrames, HandlerFrames
<1>4. PICK k \in DOMAIN sent : f.at = Start(k) /\ f.id = sent[k].id
  BY <1>2 DEF Frames
<1>5. ~sent[k].late
  <2> SUFFICES ASSUME sent[k].late PROVE FALSE
    OBVIOUS
  <2>1. ~(f.id \in Enters) /\ ~Identity(f)
    BY DEF Drop, MayRun
  <2>2. server # "login"
    BY <1>2, <1>4, <2>1 DEF Stream, Shape
  <2>3. f.auth /\ auth
    BY <1>2, <1>4, <2>2 DEF Identified
  <2> QED BY <2>1, <2>3 DEF Identity
<1>6. \A m \in dropped' : \E j \in DOMAIN sent' : m = Start(j)' /\ ~sent'[j].late
  BY <1>1, <1>2, <1>3, <1>4, <1>5 DEF Identified
<1>7. Identified'
  BY <1>1, <1>2, <1>3, <1>6 DEF Identified
<1> QED BY <1>3, <1>7 DEF WireInv

\* A handler that goes on or returns and leaves dropped alone.
LEMMA OtherHandlers ==
    ASSUME WireInv, UNCHANGED <<server, sent, arrived, pos, dropped>>,
           \A g \in running' : \E h \in running :
              g = [at |-> h.at, id |-> h.id, size |-> h.size, auth |-> h.auth, step |-> g.step],
           auth' \in BOOLEAN, accepted' \in BOOLEAN,
           accepted => accepted', auth => auth',
           accepted' => auth' \/ server = "login",
           \A g \in running' : g.step = "accept" => auth' \/ server = "login"
    PROVE  WireInv'
<1>1. /\ Stream' /\ Position' /\ Frames'
      /\ \A k : Start(k)' = Start(k)
      /\ \A g \in running', k \in DOMAIN sent' :
            g.at = Start(k)' /\ sent'[k].late => g.auth \/ server' = "login"
  BY HandlerFrames
<1>2. \A k \in DOMAIN sent' : sent'[k].late => accepted'
  BY DEF WireInv, Identified
<1>3. \A m \in dropped' : \E k \in DOMAIN sent' : m = Start(k)' /\ ~sent'[k].late
  BY <1>1 DEF WireInv, Identified
<1>4. Identified'
  BY <1>1, <1>2, <1>3 DEF Identified
<1> QED BY <1>1, <1>4 DEF WireInv

LEMMA HandlerStep ==
    ASSUME WireInv, NEW f \in running, Handler(f)
    PROVE  WireInv'
<1> DEFINE Back(g) == \E h \in running :
              g = [at |-> h.at, id |-> h.id, size |-> h.size, auth |-> h.auth, step |-> g.step]
<1>1. Frames /\ Identified
  BY DEF WireInv
<1>2. ASSUME running' = running \ {f}, UNCHANGED <<server, sent, arrived, pos, dropped, auth>>,
             accepted' \in BOOLEAN, accepted => accepted', accepted' => auth \/ server = "login"
      PROVE  WireInv'
  <2>1. \A g \in running' : Back(g) /\ g \in running
    BY <1>1, <1>2, ReturnFrames
  <2> QED BY <1>1, <1>2, <2>1, OtherHandlers DEF Identified
<1>3. CASE Drop(f)
  BY <1>3, DropStep
<1>4. CASE RefuseFrame(f)
  BY <1>1, <1>2, <1>4 DEF RefuseFrame, Done, Identified
<1>5. CASE Parse(f)
  <2>1. UNCHANGED <<server, sent, arrived, pos, dropped, auth, accepted>>
    BY <1>5 DEF Parse
  <2>2. CASE running' = running \ {f}
    BY <1>1, <1>2, <2>1, <2>2 DEF Identified
  <2>3. CASE running' = (running \ {f}) \cup {[f EXCEPT !.step = "verify"]}
    <3>1. \A g \in running' : Back(g) /\ (g.step = "verify" \/ g \in running)
      BY <1>1, <2>3, RestepFrames
    <3> QED BY <1>1, <2>1, <3>1, OtherHandlers DEF Identified
  <2>4. \/ running' = running \ {f}
        \/ running' = (running \ {f}) \cup {[f EXCEPT !.step = "verify"]}
    BY <1>5 DEF Parse
  <2> QED BY <2>2, <2>3, <2>4
<1>6. CASE Turned(f)
  BY <1>1, <1>2, <1>6 DEF Turned, Done, Identified
<1>7. CASE Verified(f)
  <2>1. /\ UNCHANGED <<server, sent, arrived, pos, dropped, accepted>>
        /\ running' = (running \ {f}) \cup {[f EXCEPT !.step = "accept"]}
        /\ auth' = (auth \/ server # "login")
    BY <1>7 DEF Verified
  <2>2. \A g \in running' : Back(g)
    BY <1>1, <2>1, RestepFrames
  <2>3. auth' \in BOOLEAN /\ (auth => auth') /\ (auth' \/ server = "login")
    BY <2>1
  <2> QED BY <1>1, <2>1, <2>2, <2>3, OtherHandlers DEF Identified
<1>8. CASE Accept(f)
  <2>1. /\ UNCHANGED <<server, sent, arrived, pos, dropped, auth>>
        /\ running' = running \ {f} /\ accepted' = TRUE
    BY <1>8 DEF Accept, Done
  <2>2. auth \/ server = "login"
    BY <1>1, <1>8 DEF Accept, Identified
  <2> QED BY <1>2, <2>1, <2>2
<1> QED BY <1>3, <1>4, <1>5, <1>6, <1>7, <1>8 DEF Handler

LEMMA WireInvStep == WireInv /\ [WireNext]_wireVars => WireInv'
<1> SUFFICES ASSUME WireInv, [WireNext]_wireVars PROVE WireInv'
  OBVIOUS
<1>1. ASSUME UNCHANGED <<server, sent, arrived, pos, auth, running, accepted, dropped>>
      PROVE  WireInv'
  <2>1. /\ Stream' /\ Total' = Total
        /\ \A k : Start(k)' = Start(k)
    BY <1>1, SameStream DEF WireInv
  <2>2. Position' /\ Frames' /\ Identified'
    BY <1>1, <2>1 DEF WireInv, Position, Frames, Identified
  <2> QED BY <2>1, <2>2 DEF WireInv
<1>2. CASE UNCHANGED wireVars
  BY <1>1, <1>2 DEF wireVars
<1>3. ASSUME NEW l, NEW n, Write(l, n) PROVE WireInv'
  BY <1>1, <1>3 DEF Write
<1>4. CASE WireNext
  BY <1>3, <1>4, SendStep, DeliverStep, WaitStep, DispatchStep, SkipStep, HandlerStep
     DEF WireNext, OnTraffic
<1> QED BY <1>2, <1>4

\* At every step the stream is whole, OnTraffic stands at one of its packets, each handler
\* holds one of them, and an accept on the wire means the identity is kept (OnTraffic,
\* frameLen, handleEnter).
THEOREM WireInvariant == WireSpec => []WireInv
  BY WireInvInit, WireInvStep, PTL DEF WireSpec

\* However TCP cuts the bytes, OnTraffic of each listener takes them packet by packet, and
\* a handler gets the frame its client wrote (OnTraffic, frameLen, unhandledSkip).
THEOREM AlignedCorrect == WireSpec => []Aligned
  BY WireInvariant, WireInvImplies, PTL

\* A packet written after the accept is never dropped for lack of an identity, though its
\* handler runs beside the enter's (handleEnter keeps the identity before it answers).
THEOREM ServedCorrect == WireSpec => []AcceptedIsServed
  BY WireInvariant, WireInvImplies, PTL

=============================================================================
