---------------------------- MODULE TradeProofs ----------------------------
(***************************************************************************)
(* Proofs about Trade, for any set of characters, items, maps, concurrent  *)
(* handlers and starting bags, and any number of trades and failures.      *)
(***************************************************************************)
EXTENDS Trade, SumProofs, SequenceTheorems

\* A movement that passes the validation of DeductZenyFor / CreditZenyFor ends
\* in range, whatever balance it was computed from.
LEMMA MoveStaysInRange ==
    ASSUME NEW kind \in {"deduct", "credit"}, NEW u \in Balances, NEW amount \in Int,
           amount > 0, MoveOk(kind, u, amount)
    PROVE  u + Delta(kind, amount) \in Balances
<1> USE HalfAssumption DEF Balances
<1>1. CASE kind = "deduct"
  <2>1. Int32(u) >= amount
    BY <1>1 DEF MoveOk, DeductOk
  <2>2. u >= amount
    BY <2>1 DEF Int32
  <2> QED BY <1>1, <2>2 DEF Delta
<1>2. CASE kind = "credit"
  BY <1>2 DEF MoveOk, CreditOk, Delta
<1> QED BY <1>1, <1>2

\* A character is trading exactly when its entry of the sessions map is a
\* session.
LEMMA SideType ==
    ASSUME TypeOK, NEW c \in Chars, Trading(c)
    PROVE  /\ sessions[c] \in Session
           /\ Partner(c) \in Chars
  BY DEF TypeOK, Trading, Session, NoSession, Partner

\* The parts of conclude's program are sequences of well-formed operations.
LEMMA PartsType ==
    ASSUME TypeOK, NEW c \in Chars, Trading(c), NEW to \in Chars
    PROVE  /\ Verify(c) \in Seq(Ops) /\ MoveZeny(c, to) \in Seq(Ops)
           /\ RemoveOffered(c) \in Seq(Ops) /\ GrantOffered(to, c) \in Seq(Ops)
<1> USE StakesAssumption
<1>0. sessions[c] \in Session
  BY SideType
<1>1. sessions[c].zeny \in Stakes \cup {0} /\ sessions[c].zeny \in Nat
  BY <1>0 DEF Session
<1>2. Verify(c) \in Seq(Ops)
  <2>1. <<Op("verifyZeny", c, 0, Nobody, sessions[c].zeny)>> \in Seq(Ops)
    BY <1>1 DEF Op, Ops
  <2>2. <<Op("verifyBag", c, 0, Nobody, 0)>> \in Seq(Ops)
    BY DEF Op, Ops
  <2> QED BY <2>1, <2>2 DEF Verify
<1>3. RemoveOffered(c) \in Seq(Ops) /\ GrantOffered(to, c) \in Seq(Ops)
  <2> DEFINE o == sessions[c].offered
  <2>1. o \in Seq(Offer)
    BY <1>0 DEF Session
  <2>2. Len(o) \in Nat /\ DOMAIN o = 1 .. Len(o) /\ \A i \in DOMAIN o : o[i] \in Offer
    BY <2>1
  <2>3. \A i \in DOMAIN o :
          /\ Op("remove", c, o[i].id, o[i].name, o[i].amount) \in Ops
          /\ Op("add", to, 0, o[i].name, o[i].amount) \in Ops
    BY <2>2 DEF Offer, Op, Ops
  <2> HIDE DEF o
  <2>4. [i \in DOMAIN o |-> Op("remove", c, o[i].id, o[i].name, o[i].amount)] \in Seq(Ops)
    BY <2>2, <2>3
  <2>5. [i \in DOMAIN o |-> Op("add", to, 0, o[i].name, o[i].amount)] \in Seq(Ops)
    BY <2>2, <2>3
  <2> QED BY <2>4, <2>5 DEF RemoveOffered, GrantOffered, o
<1>4. MoveZeny(c, to) \in Seq(Ops)
  <2>1. CASE sessions[c].zeny = 0
    BY <2>1 DEF MoveZeny
  <2>2. CASE sessions[c].zeny # 0
    <3>1. Op("deduct", c, 0, Nobody, sessions[c].zeny) \in Ops
      BY <1>1, <2>2 DEF Op, Ops
    <3>2. Op("credit", to, 0, Nobody, sessions[c].zeny) \in Ops
      BY <1>1, <2>2 DEF Op, Ops
    <3> QED BY <2>2, <3>1, <3>2 DEF MoveZeny
  <2> QED BY <2>1, <2>2
<1> QED BY <1>2, <1>3, <1>4

\* The program of conclude is a sequence of well-formed operations.
LEMMA ProgramType ==
    ASSUME TypeOK, NEW a \in Chars, NEW b \in Chars, Trading(a), Trading(b)
    PROVE  Verify(a) \o Verify(b) \o Swap(a, b) \in Seq(Ops)
<1>1. /\ RemoveOffered(a) \in Seq(Ops) /\ RemoveOffered(b) \in Seq(Ops)
      /\ GrantOffered(b, a) \in Seq(Ops) /\ GrantOffered(a, b) \in Seq(Ops)
      /\ MoveZeny(a, b) \in Seq(Ops) /\ MoveZeny(b, a) \in Seq(Ops)
      /\ Verify(a) \in Seq(Ops) /\ Verify(b) \in Seq(Ops)
  BY PartsType
<1>2. Swap(a, b) \in Seq(Ops)
  BY <1>1 DEF Swap
<1> QED BY <1>1, <1>2

\* A Remove that read at least what it removes leaves a well-formed table.
LEMMA RemoveType ==
    ASSUME NEW hi \in Nat, NEW tab, NEW id, NEW n \in Nat, NEW k \in Nat, n >= k,
           \A i \in DOMAIN tab : i \in 1 .. hi /\ tab[i] \in Row
    PROVE  LET new == RemoveWrite(tab, id, n, k)
           IN \A i \in DOMAIN new : i \in 1 .. hi /\ new[i] \in Row
<1> DEFINE new == RemoveWrite(tab, id, n, k)
<1> SUFFICES ASSUME NEW i \in DOMAIN new PROVE i \in 1 .. hi /\ new[i] \in Row
  OBVIOUS
<1>1. CASE n = k
  BY <1>1 DEF RemoveWrite
<1>2. CASE n # k
  <2>1. DOMAIN new = DOMAIN tab
    BY <1>2 DEF RemoveWrite
  <2>2. n - k \in Nat
    OBVIOUS
  <2>3. tab[i] \in Row => [tab[i] EXCEPT !.amount = n - k] \in Row
    BY <2>2 DEF Row
  <2>4. new[i] = IF i = id THEN [tab[i] EXCEPT !.amount = n - k] ELSE tab[i]
    BY <1>2, <2>1 DEF RemoveWrite
  <2> QED BY <2>1, <2>3, <2>4
<1> QED BY <1>1, <1>2

\* Done and Failed keep the program, the undo stack and the read in progress
\* well formed.
LEMMA DoneType ==
    ASSUME TypeOK, Running, NEW u \in Seq(Ops), Done(u)
    PROVE  prog' \in Seq(Ops) /\ undo' \in Seq(Ops) /\ loaded' = NotLoaded
           /\ pair' = pair /\ rolling' = rolling
  BY DEF TypeOK, Running, Done

LEMMA FailedType ==
    ASSUME TypeOK, Running, Failed
    PROVE  prog' \in Seq(Ops) /\ undo' \in Seq(Ops) /\ loaded' = NotLoaded
           /\ pair' = pair /\ rolling' \in BOOLEAN
  BY DEF TypeOK, Running, Failed

\* Type correctness of the trade service and the tables it works on.
THEOREM TypeCorrect == Spec => []TypeOK
<1> USE StakesAssumption, BoundsAssumption
<1>1. Init => TypeOK
  <2> SUFFICES ASSUME Init PROVE TypeOK
    OBVIOUS
  <2>1. /\ nextId \in Nat \ {0}
        /\ \A id \in DOMAIN rows : id \in 1 .. nextId - 1 /\ rows[id] \in Row
    BY StartAssumption DEF Init
  <2>2. zeny \in [Chars -> Balances]
    BY StartAssumption DEF Init
  <2>3. foreign \in [Others -> Removals \cup {Idle}] /\ \A g \in Others : foreign[g] = Idle
    BY DEF Init
  <2>4. spent \in [Names -> Nat]
    BY DEF Init
  <2>5. /\ sessions \in [Chars -> Session \cup {NoSession}]
        /\ where \in [Chars -> Maps \cup {Nobody}]
    BY DEF Init
  <2>6. prog = <<>> /\ undo = <<>> /\ pair = <<>> /\ rolling = FALSE /\ loaded = NotLoaded
    BY DEF Init
  <2>7. <<>> \in Seq(Ops)
    OBVIOUS
  <2> QED BY <2>1, <2>2, <2>3, <2>4, <2>5, <2>6, <2>7 DEF Init, TypeOK
<1>2. TypeOK /\ [Next]_vars => TypeOK'
  <2> SUFFICES ASSUME TypeOK, [Next]_vars PROVE TypeOK'
    OBVIOUS
  <2> USE DEF dbVars, jobVars, envVars
  <2>1. ASSUME NEW c \in Chars, NEW t \in Chars, Request(c, t) PROVE TypeOK'
    <3>1. NewSession(c) \in Session /\ NewSession(t) \in Session
      BY DEF NewSession, NoSession, Session
    <3>2. sessions' \in [Chars -> Session \cup {NoSession}]
      BY <2>1, <3>1 DEF Request, TypeOK
    <3> QED BY <2>1, <3>2 DEF Request, TypeOK, Now
  <2>2. ASSUME NEW c \in Chars, AckAccept(c) PROVE TypeOK'
    <3>1. sessions[c] \in Session /\ Partner(c) \in Chars /\ sessions[Partner(c)] \in Session
      BY <2>2, SideType DEF AckAccept, Trading
    <3>2. \A s \in Session : [s EXCEPT !.state = "active"] \in Session
      BY DEF Session
    <3>3. sessions' \in [Chars -> Session \cup {NoSession}]
      BY <2>2, <3>1, <3>2 DEF AckAccept, TypeOK
    <3> QED BY <2>2, <3>3 DEF AckAccept, TypeOK, Now
  <2>3. ASSUME NEW c \in Chars, AckReject(c) \/ Cancel(c) PROVE TypeOK'
    <3>1. sessions' \in [Chars -> Session \cup {NoSession}]
      BY <2>3 DEF AckReject, Cancel, TearDown, TypeOK
    <3> QED BY <2>3, <3>1 DEF AckReject, Cancel, TypeOK, Now
  <2>4. ASSUME NEW c \in Chars, NEW id \in DOMAIN rows, NEW k \in Stakes, AddItem(c, id, k)
        PROVE  TypeOK'
    <3> DEFINE offer == [id |-> id, name |-> rows[id].name, amount |-> k]
    <3>1. sessions[c] \in Session
      BY <2>4, SideType DEF AddItem, Active, Trading
    <3>2. rows[id] \in Row /\ id \in Nat
      BY DEF TypeOK
    <3>3. offer \in Offer
      BY <3>2 DEF Row, Offer
    <3>4. sessions' = [sessions EXCEPT ![c] =
                         [sessions[c] EXCEPT !.offered = Append(sessions[c].offered, offer)]]
      BY <2>4 DEF AddItem
    <3> HIDE DEF offer
    <3>5. sessions[c].offered \in Seq(Offer)
      BY <3>1 DEF Session
    <3>6. Append(sessions[c].offered, offer) \in Seq(Offer)
      BY <3>3, <3>5
    <3>7. [sessions[c] EXCEPT !.offered = Append(sessions[c].offered, offer)] \in Session
      BY <3>1, <3>6 DEF Session
    <3>8. sessions' \in [Chars -> Session \cup {NoSession}]
      BY <3>4, <3>7 DEF TypeOK
    <3> QED BY <2>4, <3>8 DEF AddItem, TypeOK, Now
  <2>5. ASSUME NEW c \in Chars, NEW z \in Stakes, AddZeny(c, z) PROVE TypeOK'
    <3>1. sessions[c] \in Session
      BY <2>5, SideType DEF AddZeny, Active, Trading
    <3>2. [sessions[c] EXCEPT !.zeny = z] \in Session
      BY <3>1 DEF Session
    <3>3. sessions' \in [Chars -> Session \cup {NoSession}]
      BY <2>5, <3>2 DEF AddZeny, TypeOK
    <3> QED BY <2>5, <3>3 DEF AddZeny, TypeOK, Now
  <2>6. ASSUME NEW c \in Chars, Lock(c) \/ Conclude(c) PROVE sessions' \in [Chars -> Session \cup {NoSession}]
    <3>1. sessions[c] \in Session
      BY <2>6, SideType DEF Lock, Conclude, Active, Trading
    <3>2. [sessions[c] EXCEPT !.locked = TRUE] \in Session
      BY <3>1 DEF Session
    <3> QED BY <2>6, <3>2 DEF Lock, Conclude, TypeOK
  <2>7. ASSUME NEW c \in Chars, Lock(c) PROVE TypeOK'
    BY <2>6, <2>7 DEF Lock, TypeOK, Now
  <2>8. ASSUME NEW c \in Chars, Conclude(c) PROVE TypeOK'
    <3>1. Trading(c) /\ Partner(c) \in Chars /\ Trading(Partner(c))
      BY <2>8, SideType DEF Conclude, Active, Trading
    <3>2. prog' \in Seq(Ops)
      BY <2>8, <3>1, ProgramType DEF Conclude
    <3>3. pair' \in Chars \X Chars
      BY <2>8, <3>1 DEF Conclude
    <3>5. loaded' = NotLoaded
      BY <2>8 DEF Conclude, TypeOK, MuFree
    <3>6. ~MuFree'
      <4>1. Len(<<c, Partner(c)>>) = 2 /\ Len(<<>>) = 0
        OBVIOUS
      <4> QED BY <2>8, <4>1 DEF Conclude, MuFree
    <3> QED BY <2>6, <2>8, <3>2, <3>3, <3>5, <3>6 DEF Conclude, TypeOK
  <2>9. CASE ExecVerify
    <3>1. <<>> \in Seq(Ops)
      OBVIOUS
    <3>2. prog' \in Seq(Ops) /\ undo' \in Seq(Ops) /\ loaded' = NotLoaded
          /\ pair' = pair /\ rolling' = rolling
      BY <2>9, <3>1, DoneType DEF ExecVerify
    <3>3. ~MuFree'
      BY <2>9, <3>2 DEF ExecVerify, Running, MuFree
    <3> QED BY <2>9, <3>2, <3>3 DEF ExecVerify, TypeOK
  <2>10. CASE ExecRemoveLoad
    <3>1. Now \in Ops /\ Now.op = "remove"
      BY <2>10 DEF ExecRemoveLoad, Running, Now, TypeOK
    <3>2. RemoveOk(rows, Now.id, Now.amount)
      BY <2>10 DEF ExecRemoveLoad, NowOk
    <3>3. rows[Now.id] \in Row /\ rows[Now.id].amount >= Now.amount
      BY <3>2 DEF RemoveOk, TypeOK
    <3>4. loaded' \in Nat /\ loaded' >= Now.amount
      BY <2>10, <3>3 DEF ExecRemoveLoad, Row
    <3>5. prog' = prog /\ prog # <<>> /\ pair' = pair /\ pair # <<>>
      BY <2>10 DEF ExecRemoveLoad, Running
    <3> QED BY <2>10, <3>1, <3>4, <3>5 DEF ExecRemoveLoad, TypeOK, Now, MuFree
  <2>11. CASE ExecRemoveWrite
    <3>1. Now \in Ops /\ Now.op = "remove" /\ loaded \in Nat /\ loaded >= Now.amount
      BY <2>11 DEF ExecRemoveWrite, Running, Now, TypeOK
    <3>2. Now.char \in Chars /\ Now.name \in Names /\ Now.amount \in Stakes
      BY <3>1 DEF Ops
    <3>3. <<Op("add", Now.char, 0, Now.name, Now.amount)>> \in Seq(Ops)
      BY <3>2 DEF Op, Ops
    <3>4. prog' \in Seq(Ops) /\ undo' \in Seq(Ops) /\ loaded' = NotLoaded
          /\ pair' = pair /\ rolling' = rolling
      BY <2>11, <3>3, DoneType DEF ExecRemoveWrite
    <3>5. Now.amount \in Nat /\ nextId - 1 \in Nat
      BY <3>2 DEF TypeOK
    <3>6. \A i \in DOMAIN rows' : i \in 1 .. nextId - 1 /\ rows'[i] \in Row
      BY <2>11, <3>1, <3>5, RemoveType DEF ExecRemoveWrite, TypeOK
    <3>7. ~MuFree'
      BY <2>11, <3>4 DEF ExecRemoveWrite, Running, MuFree
    <3> QED BY <2>11, <3>4, <3>6, <3>7 DEF ExecRemoveWrite, TypeOK
  <2>12. CASE ExecAdd
    <3>1. Now \in Ops /\ Now.op = "add"
      BY <2>12 DEF ExecAdd, Running, Now, TypeOK
    <3>2. Now.char \in Chars /\ Now.name \in Names /\ Now.amount \in Stakes
      BY <3>1 DEF Ops
    <3>3. <<Op("remove", Now.char, nextId, Now.name, Now.amount)>> \in Seq(Ops)
      BY <3>2 DEF Op, Ops, TypeOK
    <3>4. prog' \in Seq(Ops) /\ undo' \in Seq(Ops) /\ loaded' = NotLoaded
          /\ pair' = pair /\ rolling' = rolling
      BY <2>12, <3>3, DoneType DEF ExecAdd
    <3>5. [owner |-> Now.char, name |-> Now.name, amount |-> Now.amount, equip |-> FALSE] \in Row
      BY <3>2 DEF Row
    <3>6. /\ nextId' = nextId + 1 /\ nextId \in Nat \ {0}
          /\ rows' = AddRow(rows, nextId, Now.char, Now.name, Now.amount)
      BY <2>12 DEF ExecAdd, TypeOK
    <3>7. ASSUME NEW i \in DOMAIN rows' PROVE i \in 1 .. nextId' - 1 /\ rows'[i] \in Row
      <4>1. i \in DOMAIN rows \cup {nextId}
        BY <3>6 DEF AddRow
      <4>2. rows'[i] = IF i = nextId
                       THEN [owner |-> Now.char, name |-> Now.name, amount |-> Now.amount, equip |-> FALSE]
                       ELSE rows[i]
        BY <3>6, <4>1 DEF AddRow
      <4>3. CASE i = nextId
        BY <3>5, <3>6, <4>2, <4>3
      <4>4. CASE i # nextId
        BY <3>6, <4>1, <4>2, <4>4 DEF TypeOK
      <4> QED BY <4>3, <4>4
    <3>8. ~MuFree'
      BY <2>12, <3>4 DEF ExecAdd, Running, MuFree
    <3>9. nextId' \in Nat \ {0}
      BY <3>6
    <3> QED BY <2>12, <3>4, <3>7, <3>8, <3>9 DEF ExecAdd, TypeOK
  <2>13. CASE ExecZeny
    <3>1. Now \in Ops /\ Now.op \in {"deduct", "credit"}
      BY <2>13 DEF ExecZeny, Running, Now, TypeOK
    <3>2. Now.char \in Chars /\ Now.amount \in Stakes
      BY <3>1 DEF Ops
    <3>3. Op("deduct", Now.char, 0, Nobody, Now.amount) \in Ops
          /\ Op("credit", Now.char, 0, Nobody, Now.amount) \in Ops
      BY <3>2 DEF Op, Ops
    <3>4. <<Op(IF Now.op = "deduct" THEN "credit" ELSE "deduct",
               Now.char, 0, Nobody, Now.amount)>> \in Seq(Ops)
      BY <3>3
    <3>5. prog' \in Seq(Ops) /\ undo' \in Seq(Ops) /\ loaded' = NotLoaded
          /\ pair' = pair /\ rolling' = rolling
      BY <2>13, <3>4, DoneType DEF ExecZeny
    <3>6. MoveOk(Now.op, zeny[Now.char], Now.amount)
      BY <2>13, <3>1 DEF ExecZeny, NowOk, ZenyMoveOk
    <3>7. Now.amount \in Int /\ Now.amount > 0 /\ zeny[Now.char] \in Balances
      BY <3>2 DEF TypeOK
    <3>8. zeny[Now.char] + Delta(Now.op, Now.amount) \in Balances
      BY <3>1, <3>6, <3>7, MoveStaysInRange
    <3>9. zeny' \in [Chars -> Balances]
      BY <2>13, <3>8 DEF ExecZeny, TypeOK
    <3>10. ~MuFree'
      BY <2>13, <3>5 DEF ExecZeny, Running, MuFree
    <3> QED BY <2>13, <3>5, <3>9, <3>10 DEF ExecZeny, TypeOK
  <2>14. CASE ExecRefused \/ ExecFault
    <3>1. prog' \in Seq(Ops) /\ undo' \in Seq(Ops) /\ loaded' = NotLoaded
          /\ pair' = pair /\ rolling' \in BOOLEAN
      BY <2>14, FailedType DEF ExecRefused, ExecFault
    <3>2. ~MuFree'
      BY <2>14, <3>1 DEF ExecRefused, ExecFault, Running, MuFree
    <3>3. faults' \in [prog : Nat, undo : Nat]
      BY <2>14 DEF ExecRefused, ExecFault, TypeOK
    <3> QED BY <2>14, <3>1, <3>2, <3>3 DEF ExecRefused, ExecFault, TypeOK
  <2>15. CASE Finish
    <3>1. sessions' \in [Chars -> Session \cup {NoSession}]
      BY <2>15 DEF Finish, TearDown, TypeOK
    <3>2. prog' = <<>> /\ undo' = <<>> /\ rolling' = FALSE /\ loaded' = NotLoaded /\ pair' = <<>>
      BY <2>15 DEF Finish, TypeOK
    <3>3. <<>> \in Seq(Ops)
      OBVIOUS
    <3> QED BY <2>15, <3>1, <3>2, <3>3 DEF Finish, TypeOK
  <2>16. ASSUME NEW c \in Chars, NEW m \in Maps \cup {Nobody}, Travel(c, m) PROVE TypeOK'
    BY <2>16 DEF Travel, TypeOK, Now, MuFree
  <2>17. ASSUME NEW g \in Others, NEW id \in DOMAIN rows, NEW k \in Stakes, ForeignLoad(g, id, k)
         PROVE  TypeOK'
    <3> DEFINE r == [id |-> id, name |-> rows[id].name, amount |-> k, loaded |-> rows[id].amount]
    <3>1. rows[id] \in Row /\ id \in Nat /\ rows[id].amount >= k
      BY <2>17 DEF TypeOK, ForeignLoad, RemoveOk
    <3>2. r \in Removals /\ r.loaded >= r.amount
      BY <3>1 DEF Removals, Row
    <3>3. foreign' = [foreign EXCEPT ![g] = r]
      BY <2>17 DEF ForeignLoad
    <3> HIDE DEF r
    <3>4. foreign' \in [Others -> Removals \cup {Idle}]
      BY <3>2, <3>3 DEF TypeOK
    <3>5. \A h \in Others : foreign'[h] # Idle => foreign'[h].loaded >= foreign'[h].amount
      BY <3>2, <3>3 DEF TypeOK
    <3> QED BY <2>17, <3>4, <3>5 DEF ForeignLoad, TypeOK, Now, MuFree
  <2>18. ASSUME NEW g \in Others, ForeignWrite(g) PROVE TypeOK'
    <3> DEFINE f == foreign[g]
    <3>1. f \in Removals /\ f.loaded >= f.amount
      BY <2>18 DEF ForeignWrite, TypeOK
    <3>2. f.name \in Names /\ f.amount \in Nat /\ f.loaded \in Nat /\ nextId - 1 \in Nat
      BY <3>1 DEF Removals, TypeOK
    <3>3. /\ rows' = RemoveWrite(rows, f.id, f.loaded, f.amount)
          /\ spent' = [spent EXCEPT ![f.name] = spent[f.name] + f.amount]
          /\ foreign' = [foreign EXCEPT ![g] = Idle]
      BY <2>18 DEF ForeignWrite
    <3> HIDE DEF f
    <3>4. \A i \in DOMAIN rows' : i \in 1 .. nextId - 1 /\ rows'[i] \in Row
      BY <3>1, <3>2, <3>3, RemoveType DEF TypeOK
    <3>5. spent' \in [Names -> Nat]
      BY <3>2, <3>3 DEF TypeOK
    <3>6. /\ foreign' \in [Others -> Removals \cup {Idle}]
          /\ \A h \in Others : foreign'[h] # Idle => foreign'[h].loaded >= foreign'[h].amount
      BY <3>3 DEF TypeOK
    <3> QED BY <2>18, <3>4, <3>5, <3>6 DEF ForeignWrite, TypeOK, Now, MuFree
  <2>19. ASSUME NEW id \in DOMAIN rows, Equip(id) PROVE TypeOK'
    <3>1. rows[id] \in Row
      BY DEF TypeOK
    <3>2. [rows[id] EXCEPT !.equip = ~rows[id].equip] \in Row
      BY <3>1 DEF Row
    <3>3. rows' = [rows EXCEPT ![id] = [rows[id] EXCEPT !.equip = ~rows[id].equip]]
      BY <2>19 DEF Equip, SetEquip
    <3>4. \A i \in DOMAIN rows' : i \in 1 .. nextId - 1 /\ rows'[i] \in Row
      BY <3>2, <3>3 DEF TypeOK
    <3> QED BY <2>19, <3>4 DEF Equip, TypeOK, Now, MuFree
  <2>20. CASE UNCHANGED vars
    BY <2>20 DEF vars, TypeOK, Now, MuFree
  <2> QED
    BY <2>1, <2>2, <2>3, <2>4, <2>5, <2>7, <2>8, <2>9, <2>10, <2>11, <2>12, <2>13,
       <2>14, <2>15, <2>16, <2>17, <2>18, <2>19, <2>20 DEF Next, ConcludeStep
<1> QED BY <1>1, <1>2, PTL DEF Spec

\* The pair conclude works for is a pair of trading partners.
PairTrades ==
    \A a, b \in Chars : pair = <<a, b>> => Trading(a) /\ Trading(b) /\ Partner(a) = b

SessionInv == SessionSymmetry /\ LockDiscipline /\ PairTrades

\* Tearing down a trade, both sides at once, leaves the other trades as they
\* were.
LEMMA TearDownKeeps ==
    ASSUME TypeOK, SessionInv, NEW a \in Chars, Trading(a),
           TearDown(a, Partner(a)), pair' = <<>>,
           pair = <<>> \/ pair = <<a, Partner(a)>>
    PROVE  SessionInv'
<1> DEFINE b == Partner(a)
<1>1. b \in Chars \ {a} /\ Trading(b) /\ Partner(b) = a
  BY DEF SessionInv, SessionSymmetry
<1>2. sessions' = [sessions EXCEPT ![a] = NoSession, ![b] = NoSession]
  BY DEF TearDown
<1>3. ASSUME NEW c \in Chars, Trading(c)'
      PROVE  /\ c # a /\ c # b /\ Trading(c) /\ sessions'[c] = sessions[c]
             /\ Partner(c) # a /\ Partner(c) # b
             /\ Partner(c) \in Chars /\ sessions'[Partner(c)] = sessions[Partner(c)]
  <2> HIDE DEF b
  <2>1. c # a /\ c # b
    BY <1>1, <1>2, <1>3 DEF Trading, NoSession, TypeOK
  <2>2. sessions'[c] = sessions[c]
    BY <1>1, <1>2, <2>1 DEF TypeOK
  <2>3. Trading(c)
    BY <1>3, <2>2 DEF Trading
  <2>4. Partner(c) \in Chars /\ Partner(Partner(c)) = c
    BY <2>3 DEF SessionInv, SessionSymmetry
  <2>5. Partner(c) # a /\ Partner(c) # b
    BY <1>1, <2>1, <2>4 DEF b
  <2>6. sessions'[Partner(c)] = sessions[Partner(c)]
    BY <1>1, <1>2, <2>4, <2>5 DEF TypeOK
  <2> QED BY <2>1, <2>2, <2>3, <2>4, <2>5, <2>6
<1>4. SessionSymmetry'
  BY <1>3 DEF SessionInv, SessionSymmetry, Trading, Partner
<1>5. LockDiscipline'
  <2> SUFFICES ASSUME NEW c \in Chars, Trading(c)'
               PROVE  ~(sessions'[c].locked /\ sessions'[Partner(c)'].locked)
                      /\ pair' # <<c, Partner(c)'>> /\ pair' # <<Partner(c)', c>>
    BY DEF LockDiscipline
  <2>1. Partner(c)' = Partner(c)
    BY <1>3 DEF Partner
  <2>2. pair # <<c, Partner(c)>> /\ pair # <<Partner(c), c>>
    <3>1. \A x, y \in Chars : <<x, y>> # <<>>
      <4>1. \A x, y \in Chars : Len(<<x, y>>) = 2
        OBVIOUS
      <4> QED BY <4>1
    <3>2. \A x, y, u, v \in Chars : <<x, y>> = <<u, v>> => x = u /\ y = v
      OBVIOUS
    <3>3. c # a /\ c # b /\ Partner(c) \in Chars
      BY <1>3
    <3>4. CASE pair = <<>>
      BY <3>1, <3>3, <3>4
    <3>5. CASE pair = <<a, b>>
      BY <1>1, <3>2, <3>3, <3>5
    <3> QED BY <3>4, <3>5
  <2>3. ~(sessions[c].locked /\ sessions[Partner(c)].locked)
    BY <1>3, <2>2 DEF SessionInv, LockDiscipline
  <2>4. pair' # <<c, Partner(c)'>> /\ pair' # <<Partner(c)', c>>
    <3>1. \A x, y \in Chars : Len(<<x, y>>) = 2
      OBVIOUS
    <3> QED BY <1>3, <2>1, <3>1
  <2> QED BY <1>3, <2>1, <2>3, <2>4
<1>6. PairTrades'
  <2>1. \A x, y \in Chars : Len(<<x, y>>) = 2
    OBVIOUS
  <2> QED BY <2>1 DEF PairTrades
<1> QED BY <1>4, <1>5, <1>6 DEF SessionInv

\* Whatever the interleaving of calls, failures and other handlers, the two
\* sides of a trade agree on who trades with whom and in which state, and both
\* are locked exactly while conclude runs for them.
THEOREM SessionsCorrect == Spec => []SessionsPaired
<1>0. \A x, y \in Chars : <<x, y>> # <<>>
  <2>1. \A x, y \in Chars : Len(<<x, y>>) = 2
    OBVIOUS
  <2> QED BY <2>1
<1>1. Init => SessionInv
  BY <1>0 DEF Init, SessionInv, SessionSymmetry, LockDiscipline, PairTrades, Trading, NoSession
<1>2. TypeOK /\ SessionInv /\ [Next]_vars => SessionInv'
  <2> SUFFICES ASSUME TypeOK, SessionInv, [Next]_vars PROVE SessionInv'
    OBVIOUS
  <2>1. ASSUME UNCHANGED <<sessions, pair>> PROVE SessionInv'
    BY <2>1 DEF SessionInv, SessionSymmetry, LockDiscipline, PairTrades, Trading, Partner
  <2>2. ASSUME NEW c \in Chars, NEW t \in Chars, Request(c, t) PROVE SessionInv'
    <3>1. /\ pair = <<>> /\ pair' = pair /\ c # t /\ ~Trading(c) /\ ~Trading(t)
          /\ sessions' = [sessions EXCEPT ![c] = NewSession(t), ![t] = NewSession(c)]
      BY <2>2 DEF Request, MuFree, jobVars
    <3>2. sessions'[c] = NewSession(t) /\ sessions'[t] = NewSession(c)
      BY <3>1 DEF TypeOK
    <3>3. ASSUME NEW d \in Chars, Trading(d)', d # c, d # t
          PROVE  /\ Trading(d) /\ sessions'[d] = sessions[d]
                 /\ Partner(d) \in Chars \ {d} /\ Partner(d) # c /\ Partner(d) # t
                 /\ sessions'[Partner(d)] = sessions[Partner(d)]
      <4>1. sessions'[d] = sessions[d]
        BY <3>1, <3>3 DEF TypeOK
      <4>2. Trading(d)
        BY <3>3, <4>1 DEF Trading
      <4>3. Partner(d) \in Chars \ {d} /\ Trading(Partner(d))
        BY <4>2 DEF SessionInv, SessionSymmetry
      <4> QED BY <3>1, <4>1, <4>2, <4>3 DEF TypeOK
    <3>4. SessionSymmetry'
      <4> SUFFICES ASSUME NEW d \in Chars, Trading(d)'
                   PROVE  /\ Partner(d)' \in Chars \ {d}
                          /\ sessions'[Partner(d)'].state # "none"
                          /\ sessions'[Partner(d)'].partner = d
                          /\ sessions'[Partner(d)'].state = sessions'[d].state
        BY DEF SessionSymmetry, Trading, Partner
      <4>1. CASE d = c \/ d = t
        BY <3>1, <3>2, <4>1 DEF NewSession, Partner
      <4>2. CASE d # c /\ d # t
        BY <3>3, <4>2 DEF SessionInv, SessionSymmetry, Trading, Partner
      <4> QED BY <4>1, <4>2
    <3>5. LockDiscipline'
      <4> SUFFICES ASSUME NEW d \in Chars, Trading(d)'
                   PROVE  ~(sessions'[d].locked /\ sessions'[Partner(d)'].locked)
                          /\ Partner(d)' \in Chars
        BY <1>0, <3>1 DEF LockDiscipline
      <4>1. CASE d = c \/ d = t
        BY <3>2, <4>1 DEF NewSession, Partner
      <4>2. CASE d # c /\ d # t
        <5>1. ~(sessions[d].locked /\ sessions[Partner(d)].locked)
          BY <1>0, <3>1, <3>3, <4>2 DEF SessionInv, LockDiscipline
        <5> QED BY <3>3, <4>2, <5>1 DEF Partner
      <4> QED BY <4>1, <4>2
    <3>6. PairTrades'
      BY <1>0, <3>1 DEF PairTrades
    <3> QED BY <3>4, <3>5, <3>6 DEF SessionInv
  <2>3. ASSUME NEW c \in Chars, AckAccept(c) PROVE SessionInv'
    <3>1. /\ pair = <<>> /\ pair' = pair /\ Trading(c)
          /\ sessions' = [sessions EXCEPT ![c].state = "active", ![Partner(c)].state = "active"]
      BY <2>3 DEF AckAccept, MuFree, jobVars, Trading
    <3>2. Partner(c) \in Chars \ {c} /\ Trading(Partner(c)) /\ Partner(Partner(c)) = c
      BY <3>1 DEF SessionInv, SessionSymmetry
    <3>3. sessions[c] \in Session /\ sessions[Partner(c)] \in Session
      BY <3>1, <3>2, SideType
    <3>4. \A d \in Chars : /\ sessions'[d].partner = sessions[d].partner
                            /\ sessions'[d].locked = sessions[d].locked
                            /\ sessions'[d].state = IF d = c \/ d = Partner(c) THEN "active"
                                                    ELSE sessions[d].state
      BY <3>1, <3>2, <3>3 DEF TypeOK, Session, NoSession
    <3>5. SessionSymmetry'
      <4> SUFFICES ASSUME NEW d \in Chars, Trading(d)'
                   PROVE  /\ Partner(d)' \in Chars \ {d}
                          /\ sessions'[Partner(d)'].state # "none"
                          /\ sessions'[Partner(d)'].partner = d
                          /\ sessions'[Partner(d)'].state = sessions'[d].state
        BY DEF SessionSymmetry, Trading, Partner
      <4>1. Trading(d) /\ Partner(d)' = Partner(d)
        BY <3>1, <3>2, <3>4 DEF Trading, Partner
      <4>2. /\ Partner(d) \in Chars \ {d} /\ Trading(Partner(d)) /\ Partner(Partner(d)) = d
            /\ sessions[Partner(d)].state = sessions[d].state
        BY <4>1 DEF SessionInv, SessionSymmetry
      <4>3. sessions'[Partner(d)].partner = d
        BY <3>4, <4>2 DEF Partner
      <4>4. CASE d = c \/ d = Partner(c)
        BY <3>2, <3>4, <4>1, <4>2, <4>3, <4>4
      <4>5. CASE d # c /\ d # Partner(c)
        <5>1. Partner(d) # c /\ Partner(d) # Partner(c)
          BY <3>2, <4>2, <4>5
        <5> QED BY <3>4, <4>1, <4>2, <4>3, <4>5, <5>1 DEF Trading
      <4> QED BY <4>4, <4>5
    <3>6. LockDiscipline'
      <4> SUFFICES ASSUME NEW d \in Chars, Trading(d)'
                   PROVE  ~(sessions'[d].locked /\ sessions'[Partner(d)'].locked)
                          /\ Partner(d)' \in Chars
        BY <1>0, <3>1 DEF LockDiscipline
      <4>1. Trading(d)
        BY <3>1, <3>2, <3>4 DEF Trading
      <4>2. Partner(d) \in Chars /\ ~(sessions[d].locked /\ sessions[Partner(d)].locked)
        BY <1>0, <3>1, <4>1 DEF SessionInv, SessionSymmetry, LockDiscipline
      <4> QED BY <3>4, <4>2 DEF Partner
    <3>7. PairTrades'
      BY <1>0, <3>1 DEF PairTrades
    <3> QED BY <3>5, <3>6, <3>7 DEF SessionInv
  <2>4. ASSUME NEW c \in Chars, AckReject(c) \/ Cancel(c) PROVE SessionInv'
    <3>1. Trading(c) /\ TearDown(c, Partner(c)) /\ pair = <<>> /\ pair' = <<>>
      BY <2>4 DEF AckReject, Cancel, MuFree, jobVars, Trading
    <3> QED BY <3>1, TearDownKeeps
  <2>5. ASSUME NEW c \in Chars, pair = <<>>, pair' = <<>>, sessions[c] \in Session,
               ~sessions[c].locked \/ sessions'[c].locked = sessions[c].locked,
               sessions'[c].partner = sessions[c].partner,
               sessions'[c].state = sessions[c].state,
               \A d \in Chars \ {c} : sessions'[d] = sessions[d],
               sessions'[c].locked => ~sessions[Partner(c)].locked
        PROVE  SessionInv'
    <3>1. \A d \in Chars : /\ sessions'[d].partner = sessions[d].partner
                            /\ sessions'[d].state = sessions[d].state
      BY <2>5
    <3>2. SessionSymmetry'
      BY <3>1 DEF SessionInv, SessionSymmetry, Trading, Partner
    <3>3. LockDiscipline'
      <4> SUFFICES ASSUME NEW d \in Chars, Trading(d)'
                   PROVE  ~(sessions'[d].locked /\ sessions'[Partner(d)'].locked)
                          /\ Partner(d)' \in Chars
        BY <1>0, <2>5 DEF LockDiscipline
      <4>1. Trading(d) /\ Partner(d)' = Partner(d)
        BY <3>1 DEF Trading, Partner
      <4>2. Partner(d) \in Chars \ {d} /\ Partner(Partner(d)) = d
        BY <4>1 DEF SessionInv, SessionSymmetry
      <4>3. ~(sessions[d].locked /\ sessions[Partner(d)].locked)
        BY <1>0, <2>5, <4>1, <4>2 DEF SessionInv, LockDiscipline
      <4> QED BY <2>5, <4>1, <4>2, <4>3
    <3>4. PairTrades'
      BY <1>0, <2>5 DEF PairTrades
    <3> QED BY <3>2, <3>3, <3>4 DEF SessionInv
  <2>6. ASSUME NEW c \in Chars, NEW id \in DOMAIN rows, NEW k \in Stakes, AddItem(c, id, k)
        PROVE  SessionInv'
    <3>0. Trading(c) /\ ~sessions[c].locked /\ pair = <<>> /\ pair' = <<>>
      BY <2>6 DEF AddItem, Active, Trading, MuFree, jobVars
    <3>1. sessions[c] \in Session
      BY <3>0, SideType
    <3>2. /\ sessions'[c].partner = sessions[c].partner
          /\ sessions'[c].state = sessions[c].state
          /\ sessions'[c].locked = sessions[c].locked
          /\ \A d \in Chars \ {c} : sessions'[d] = sessions[d]
      BY <2>6, <3>1 DEF AddItem, TypeOK, Session
    <3> QED BY <2>5, <3>0, <3>1, <3>2
  <2>7. ASSUME NEW c \in Chars, NEW z \in Stakes, AddZeny(c, z) PROVE SessionInv'
    <3>0. Trading(c) /\ ~sessions[c].locked /\ pair = <<>> /\ pair' = <<>>
      BY <2>7 DEF AddZeny, Active, Trading, MuFree, jobVars
    <3>1. sessions[c] \in Session
      BY <3>0, SideType
    <3>2. /\ sessions'[c].partner = sessions[c].partner
          /\ sessions'[c].state = sessions[c].state
          /\ sessions'[c].locked = sessions[c].locked
          /\ \A d \in Chars \ {c} : sessions'[d] = sessions[d]
      BY <2>7, <3>1 DEF AddZeny, TypeOK, Session
    <3> QED BY <2>5, <3>0, <3>1, <3>2
  <2>8. ASSUME NEW c \in Chars, Lock(c) PROVE SessionInv'
    <3>0. Trading(c) /\ ~sessions[c].locked /\ pair = <<>> /\ pair' = <<>>
          /\ ~sessions[Partner(c)].locked
      BY <2>8 DEF Lock, Active, Trading, MuFree, jobVars
    <3>1. sessions[c] \in Session
      BY <3>0, SideType
    <3>2. /\ sessions'[c].partner = sessions[c].partner
          /\ sessions'[c].state = sessions[c].state
          /\ \A d \in Chars \ {c} : sessions'[d] = sessions[d]
      BY <2>8, <3>1 DEF Lock, TypeOK, Session
    <3> QED BY <2>5, <3>0, <3>1, <3>2
  <2>9. ASSUME NEW c \in Chars, Conclude(c) PROVE SessionInv'
    <3> DEFINE p == Partner(c)
    <3>1. /\ Trading(c) /\ ~sessions[c].locked /\ sessions[p].locked
          /\ pair = <<>> /\ pair' = <<c, p>>
          /\ sessions' = [sessions EXCEPT ![c].locked = TRUE]
      BY <2>9 DEF Conclude, Active, Trading, MuFree
    <3>2. p \in Chars \ {c} /\ Trading(p) /\ Partner(p) = c
      BY <3>1 DEF SessionInv, SessionSymmetry
    <3>3. sessions[c] \in Session
      BY <3>1, SideType
    <3>4. /\ sessions'[c].locked = TRUE
          /\ \A d \in Chars : sessions'[d].partner = sessions[d].partner
                              /\ sessions'[d].state = sessions[d].state
          /\ \A d \in Chars \ {c} : sessions'[d] = sessions[d]
      BY <3>1, <3>3 DEF TypeOK, Session
    <3>5. SessionSymmetry'
      BY <3>4 DEF SessionInv, SessionSymmetry, Trading, Partner
    <3>6. LockDiscipline'
      <4> SUFFICES ASSUME NEW d \in Chars, Trading(d)'
                   PROVE  sessions'[d].locked /\ sessions'[Partner(d)'].locked
                          <=> pair' \in {<<d, Partner(d)'>>, <<Partner(d)', d>>}
        BY DEF LockDiscipline
      <4>1. Trading(d) /\ Partner(d)' = Partner(d)
        BY <3>4 DEF Trading, Partner
      <4>2. Partner(d) \in Chars \ {d} /\ Partner(Partner(d)) = d
        BY <4>1 DEF SessionInv, SessionSymmetry
      <4>3. \A x, y, u, v \in Chars : <<x, y>> = <<u, v>> => x = u /\ y = v
        OBVIOUS
      <4>4. CASE d = c \/ d = p
        BY <3>1, <3>2, <3>4, <4>1, <4>4
      <4>5. CASE d # c /\ d # p
        <5>1. Partner(d) # c
          BY <4>2, <4>5
        <5>2. ~(sessions[d].locked /\ sessions[Partner(d)].locked)
          BY <1>0, <3>1, <4>1, <4>2 DEF SessionInv, LockDiscipline
        <5>3. ~(sessions'[d].locked /\ sessions'[Partner(d)'].locked)
          BY <3>4, <4>1, <4>2, <4>5, <5>1, <5>2
        <5>4. pair' # <<d, Partner(d)>> /\ pair' # <<Partner(d), d>>
          BY <3>1, <3>2, <4>2, <4>3, <4>5
        <5> QED BY <4>1, <5>3, <5>4
      <4> QED BY <4>4, <4>5
    <3>7. PairTrades'
      <4>1. \A x, y, u, v \in Chars : <<x, y>> = <<u, v>> => x = u /\ y = v
        OBVIOUS
      <4> SUFFICES ASSUME NEW x \in Chars, NEW y \in Chars, pair' = <<x, y>>
                   PROVE  Trading(x)' /\ Trading(y)' /\ Partner(x)' = y
        BY DEF PairTrades
      <4>2. x = c /\ y = p
        BY <3>1, <3>2, <4>1
      <4> QED BY <3>1, <3>2, <3>4, <4>2 DEF Trading, Partner
    <3> QED BY <3>5, <3>6, <3>7 DEF SessionInv
  <2>10. CASE Finish
    <3>1. PICK a \in Chars, b \in Chars : pair = <<a, b>>
      BY <2>10 DEF Finish, TypeOK
    <3>2. Trading(a) /\ Partner(a) = b
      BY <3>1 DEF SessionInv, PairTrades
    <3>3. TearDown(a, Partner(a)) /\ pair' = <<>>
      BY <2>10, <3>1, <3>2 DEF Finish
    <3> QED BY <3>1, <3>2, <3>3, TearDownKeeps
  <2>11. CASE ExecVerify \/ ExecRemoveLoad \/ ExecRemoveWrite \/ ExecAdd
              \/ ExecZeny \/ ExecRefused \/ ExecFault
    BY <2>1, <2>11 DEF ExecVerify, ExecRemoveLoad, ExecRemoveWrite, ExecAdd, ExecZeny,
       ExecRefused, ExecFault, Done, Failed
  <2>12. ASSUME NEW c \in Chars, NEW m \in Maps \cup {Nobody}, Travel(c, m) PROVE SessionInv'
    BY <2>1, <2>12 DEF Travel, jobVars
  <2>13. ASSUME NEW g \in Others, NEW id \in DOMAIN rows, NEW k \in Stakes,
                ForeignLoad(g, id, k)
         PROVE  SessionInv'
    BY <2>1, <2>13 DEF ForeignLoad, jobVars
  <2>14. ASSUME NEW g \in Others, ForeignWrite(g) PROVE SessionInv'
    BY <2>1, <2>14 DEF ForeignWrite, jobVars
  <2>15. ASSUME NEW id \in DOMAIN rows, Equip(id) PROVE SessionInv'
    BY <2>1, <2>15 DEF Equip, jobVars
  <2>16. CASE UNCHANGED vars
    BY <2>1, <2>16 DEF vars, jobVars
  <2> QED
    BY <2>2, <2>3, <2>4, <2>6, <2>7, <2>8, <2>9, <2>10, <2>11, <2>12, <2>13, <2>14,
       <2>15, <2>16 DEF Next, ConcludeStep
<1>3. TypeOK /\ SessionInv => SessionsPaired
  BY DEF SessionInv, SessionsPaired
<1> QED BY <1>1, <1>2, <1>3, TypeCorrect, PTL DEF Spec

----------------------------------------------------------------------------
\* What the operations of a list are going to add to the bags.

\* Units of item n that an operation puts into the bags.
Gain(o, n) ==
    IF o.name # n THEN 0
    ELSE IF o.op = "add" THEN o.amount ELSE IF o.op = "remove" THEN -o.amount ELSE 0

Total(s, n) == SumOver([i \in DOMAIN s |-> Gain(s[i], n)], DOMAIN s)

LEMMA OpFields ==
    ASSUME NEW o \in Ops
    PROVE  /\ o.amount \in Nat /\ o.char \in Chars /\ o.id \in Nat
           /\ o.op \in {"verifyZeny", "verifyBag", "remove", "add", "deduct", "credit"}
           /\ o.op \in {"remove", "add"} => o.name \in Names /\ o.amount \in Stakes
  BY StakesAssumption DEF Ops

LEMMA GainType ==
    ASSUME NEW o \in Ops, NEW n
    PROVE  /\ Gain(o, n) \in Int
           /\ o.op \notin {"add", "remove"} => Gain(o, n) = 0
           /\ o.op = "add" => Gain(o, n) = IF o.name = n THEN o.amount ELSE 0
           /\ o.op = "remove" => Gain(o, n) = IF o.name = n THEN -o.amount ELSE 0
<1>1. o.amount \in Nat
  BY OpFields
<1> QED BY <1>1 DEF Gain

LEMMA TotalJoin ==
    ASSUME NEW s \in Seq(Ops), NEW t \in Seq(Ops), NEW n
    PROVE  /\ s \o t \in Seq(Ops) /\ Total(s, n) \in Int /\ Total(t, n) \in Int
           /\ Total(s \o t, n) = Total(s, n) + Total(t, n)
<1>1. PICK l, k : l = Len(s) /\ k = Len(t)
  OBVIOUS
<1>2. PICK u : u = s \o t
  OBVIOUS
<1>3. /\ l \in Nat /\ k \in Nat /\ DOMAIN s = 1 .. l /\ DOMAIN t = 1 .. k
      /\ \A i \in 1 .. l : s[i] \in Ops
      /\ \A i \in 1 .. k : t[i] \in Ops
  BY <1>1, LenProperties
<1>4. /\ u \in Seq(Ops) /\ Len(u) = l + k
      /\ \A i \in 1 .. l + k : u[i] = IF i <= l THEN s[i] ELSE t[i - l]
  BY <1>1, <1>2, ConcatProperties
<1>5. DOMAIN u = 1 .. (l + k)
  BY <1>4, LenProperties
<1>6. \A i \in 1 .. l : u[i] = s[i]
  BY <1>3, <1>4
<1>7. \A i \in 1 .. k : l + i \in 1 .. (l + k) /\ u[l + i] = t[i]
  <2> SUFFICES ASSUME NEW i \in 1 .. k PROVE l + i \in 1 .. (l + k) /\ u[l + i] = t[i]
    OBVIOUS
  <2>1. l + i \in 1 .. l + k /\ ~(l + i <= l) /\ l + i - l = i
    BY <1>3
  <2>2. PICK j : j = l + i
    OBVIOUS
  <2>3. j \in 1 .. l + k /\ ~(j <= l) /\ j - l = i
    BY <1>3, <2>1, <2>2
  <2>4. u[j] = t[j - l]
    BY <1>4, <2>3, Zenon
  <2>5. u[j] = t[i]
    BY <2>3, <2>4, Zenon
  <2> QED BY <2>2, <2>3, <2>5, Zenon
<1>8. PICK f, g, h : /\ f = [i \in DOMAIN s |-> Gain(s[i], n)]
                     /\ g = [i \in DOMAIN t |-> Gain(t[i], n)]
                     /\ h = [i \in DOMAIN u |-> Gain(u[i], n)]
  OBVIOUS
<1>9. \A i \in 1 .. l : f[i] \in Int /\ h[i] = f[i]
  <2>1. \A i \in 1 .. l : i \in 1 .. (l + k)
    BY <1>3
  <2> QED BY <1>3, <1>5, <1>6, <1>8, <2>1, GainType
<1>10. \A i \in 1 .. k : g[i] \in Int /\ h[l + i] = g[i]
  BY <1>3, <1>5, <1>7, <1>8, GainType
<1>11. l \in Nat /\ k \in Nat
  BY <1>3
<1>12. SumOver(f, 1 .. l) \in Int /\ SumOver(g, 1 .. k) \in Int
  <2>1. IsFiniteSet(1 .. l) /\ IsFiniteSet(1 .. k)
    BY <1>11, FS_Interval
  <2> QED BY <1>9, <1>10, <2>1, SumType
<1>13. Joins(f, g, h, l, k)
  BY <1>9, <1>10, <1>11 DEF Joins
<1>14. SumOver(h, 1 .. (l + k)) = SumOver(f, 1 .. l) + SumOver(g, 1 .. k)
  BY <1>11, <1>13, SumJoin
<1> QED BY <1>2, <1>3, <1>4, <1>5, <1>8, <1>12, <1>14 DEF Total

\* Lists that move no item.
LEMMA TotalNone ==
    ASSUME NEW s \in Seq(Ops), NEW n, \A i \in DOMAIN s : Gain(s[i], n) = 0
    PROVE  Total(s, n) = 0
<1>1. IsFiniteSet(DOMAIN s)
  <2>1. \A a, b \in Int : IsFiniteSet(a .. b)
    BY FS_Interval
  <2> QED BY <2>1, LenProperties
<1>2. PICK f : f = [i \in DOMAIN s |-> Gain(s[i], n)]
  OBVIOUS
<1>3. SumOver(f, DOMAIN s) = Cardinality(DOMAIN s) * 0
  BY <1>1, <1>2, SumConst
<1>4. Cardinality(DOMAIN s) \in Nat
  BY <1>1, FS_CardinalityType
<1> QED BY <1>2, <1>3, <1>4 DEF Total

LEMMA TotalEmpty == \A n : Total(<<>>, n) = 0
<1>1. <<>> \in Seq(Ops) /\ DOMAIN <<>> = {}
  OBVIOUS
<1> QED BY <1>1, TotalNone

LEMMA TotalOne ==
    ASSUME NEW o \in Ops, NEW n
    PROVE  <<o>> \in Seq(Ops) /\ Total(<<o>>, n) = Gain(o, n)
<1>1. PICK f : f = [i \in DOMAIN <<o>> |-> Gain(<<o>>[i], n)]
  OBVIOUS
<1>2. DOMAIN <<o>> = {1} /\ f[1] = Gain(o, n) /\ Gain(o, n) \in Int
  BY <1>1, GainType
<1>3. IsFiniteSet({}) /\ 1 \notin {} /\ {1} = {} \cup {1} /\ \A y \in {1} : f[y] \in Int
  BY <1>2, FS_EmptySet
<1>4. SumOver(f, {1}) = SumOver(f, {}) + f[1]
  BY <1>3, SumAdd
<1>5. SumOver(f, {}) = 0
  BY SumEmpty
<1>6. SumOver(f, DOMAIN <<o>>) = Gain(o, n)
  BY <1>2, <1>4, <1>5
<1> QED BY <1>1, <1>6 DEF Total

LEMMA TotalTail ==
    ASSUME NEW s \in Seq(Ops), NEW n, s # <<>>
    PROVE  /\ Head(s) \in Ops /\ Tail(s) \in Seq(Ops)
           /\ Total(Tail(s), n) = Total(s, n) - Gain(Head(s), n)
<1>1. Head(s) \in Ops /\ Tail(s) \in Seq(Ops) /\ s = <<Head(s)>> \o Tail(s)
  OBVIOUS
<1>2. <<Head(s)>> \in Seq(Ops) /\ Total(<<Head(s)>>, n) = Gain(Head(s), n) /\ Gain(Head(s), n) \in Int
  BY <1>1, TotalOne, GainType
<1>3. PICK h, t : h = <<Head(s)>> /\ t = Tail(s)
  OBVIOUS
<1>4. Total(h \o t, n) = Total(h, n) + Total(t, n) /\ Total(t, n) \in Int
  BY <1>1, <1>2, <1>3, TotalJoin
<1>5. s = h \o t
  BY <1>1, <1>3
<1>6. Total(s, n) = Total(h, n) + Total(t, n) /\ Total(h, n) = Gain(Head(s), n)
  BY <1>2, <1>3, <1>4, <1>5, Zenon
<1>7. Total(t, n) = Total(s, n) - Gain(Head(s), n)
  BY <1>2, <1>4, <1>6
<1> QED BY <1>1, <1>3, <1>7, Zenon

\* What is taken from a bag goes into the other.
LEMMA OffersCancel ==
    ASSUME TypeOK, NEW c \in Chars, Trading(c), NEW to \in Chars, NEW n
    PROVE  /\ Total(RemoveOffered(c), n) \in Int /\ Total(GrantOffered(to, c), n) \in Int
           /\ Total(RemoveOffered(c), n) + Total(GrantOffered(to, c), n) = 0
<1>1. RemoveOffered(c) \in Seq(Ops) /\ GrantOffered(to, c) \in Seq(Ops)
  BY PartsType
<1>2. PICK o, r, a : o = sessions[c].offered /\ r = RemoveOffered(c) /\ a = GrantOffered(to, c)
  OBVIOUS
<1>3. /\ DOMAIN r = DOMAIN o /\ DOMAIN a = DOMAIN o
      /\ \A i \in DOMAIN o : /\ r[i] = Op("remove", c, o[i].id, o[i].name, o[i].amount)
                             /\ a[i] = Op("add", to, 0, o[i].name, o[i].amount)
  BY <1>2 DEF RemoveOffered, GrantOffered
<1>4. /\ r \in Seq(Ops) /\ a \in Seq(Ops) /\ DOMAIN r = 1 .. Len(r) /\ Len(r) \in Nat
      /\ \A i \in DOMAIN r : r[i] \in Ops
      /\ \A i \in DOMAIN a : a[i] \in Ops
  BY <1>1, <1>2, LenProperties
<1>5. IsFiniteSet(DOMAIN o)
  <2>1. \A x, y \in Int : IsFiniteSet(x .. y)
    BY FS_Interval
  <2> QED BY <1>3, <1>4, <2>1
<1>6. PICK f, g, h : /\ f = [i \in DOMAIN r |-> Gain(r[i], n)]
                     /\ g = [i \in DOMAIN a |-> Gain(a[i], n)]
                     /\ h = [i \in DOMAIN o |-> 0]
  OBVIOUS
<1>7. \A i \in DOMAIN o : f[i] \in Int /\ g[i] \in Int /\ h[i] = f[i] + g[i]
  <2> SUFFICES ASSUME NEW i \in DOMAIN o PROVE f[i] \in Int /\ g[i] \in Int /\ f[i] + g[i] = 0
    BY <1>6
  <2>1. f[i] = Gain(r[i], n) /\ g[i] = Gain(a[i], n) /\ r[i] \in Ops /\ a[i] \in Ops
    BY <1>3, <1>4, <1>6
  <2>2. /\ r[i].op = "remove" /\ a[i].op = "add"
        /\ r[i].name = o[i].name /\ a[i].name = o[i].name
        /\ r[i].amount = o[i].amount /\ a[i].amount = o[i].amount
    BY <1>3 DEF Op
  <2>3. r[i].amount \in Nat
    BY <2>1, OpFields
  <2> QED BY <2>1, <2>2, <2>3, GainType
<1>8. SumOver(h, DOMAIN o) = SumOver(f, DOMAIN o) + SumOver(g, DOMAIN o)
  BY <1>5, <1>7, SumPlus
<1>9. SumOver(h, DOMAIN o) = Cardinality(DOMAIN o) * 0
  BY <1>5, <1>6, SumConst
<1>10. Cardinality(DOMAIN o) \in Nat
  BY <1>5, FS_CardinalityType
<1>11. Total(r, n) = SumOver(f, DOMAIN o) /\ Total(a, n) = SumOver(g, DOMAIN o)
  BY <1>3, <1>6 DEF Total
<1>12. Total(r, n) \in Int /\ Total(a, n) \in Int
  BY <1>4, TotalJoin
<1> QED BY <1>2, <1>8, <1>9, <1>10, <1>11, <1>12

\* The checks of conclude and its zeny legs move no item.
LEMMA NoItems ==
    ASSUME TypeOK, NEW c \in Chars, Trading(c), NEW to \in Chars, NEW n
    PROVE  Total(Verify(c), n) = 0 /\ Total(MoveZeny(c, to), n) = 0
<1>1. Verify(c) \in Seq(Ops) /\ MoveZeny(c, to) \in Seq(Ops)
  BY PartsType
<1>2. PICK z : z = sessions[c].zeny
  OBVIOUS
<1>3. \A i \in DOMAIN Verify(c) : Verify(c)[i].op \in {"verifyZeny", "verifyBag"}
  BY DEF Verify, Op
<1>4. \A i \in DOMAIN MoveZeny(c, to) : MoveZeny(c, to)[i].op \in {"deduct", "credit"}
  BY DEF MoveZeny, Op
<1>5. ASSUME NEW s \in Seq(Ops), \A i \in DOMAIN s : s[i].op \notin {"add", "remove"}
      PROVE  Total(s, n) = 0
  <2>1. \A i \in DOMAIN s : s[i] \in Ops
    OBVIOUS
  <2> QED BY <1>5, <2>1, GainType, TotalNone
<1>6. /\ \A i \in DOMAIN Verify(c) : Verify(c)[i].op \notin {"add", "remove"}
      /\ \A i \in DOMAIN MoveZeny(c, to) : MoveZeny(c, to)[i].op \notin {"add", "remove"}
  BY <1>3, <1>4
<1> QED BY <1>1, <1>5, <1>6

\* A trade that is executed to its end neither makes nor loses a unit.
LEMMA SwapBalanced ==
    ASSUME TypeOK, NEW a \in Chars, NEW b \in Chars, Trading(a), Trading(b), NEW n
    PROVE  Total(Verify(a) \o Verify(b) \o Swap(a, b), n) = 0
<1>1. PICK va, vb, ra, rb, ga, gb, ma, mb :
          /\ va = Verify(a) /\ vb = Verify(b) /\ ra = RemoveOffered(a) /\ rb = RemoveOffered(b)
          /\ ga = GrantOffered(b, a) /\ gb = GrantOffered(a, b)
          /\ ma = MoveZeny(a, b) /\ mb = MoveZeny(b, a)
  OBVIOUS
<1>2. /\ va \in Seq(Ops) /\ vb \in Seq(Ops) /\ ra \in Seq(Ops) /\ rb \in Seq(Ops)
      /\ ga \in Seq(Ops) /\ gb \in Seq(Ops) /\ ma \in Seq(Ops) /\ mb \in Seq(Ops)
  BY <1>1, PartsType
<1>3. /\ Total(va, n) = 0 /\ Total(vb, n) = 0 /\ Total(ma, n) = 0 /\ Total(mb, n) = 0
      /\ Total(ra, n) \in Int /\ Total(ga, n) \in Int /\ Total(ra, n) + Total(ga, n) = 0
      /\ Total(rb, n) \in Int /\ Total(gb, n) \in Int /\ Total(rb, n) + Total(gb, n) = 0
  BY <1>1, NoItems, OffersCancel
<1>4. PICK s1, s2, s3, s4, s5 :
          /\ s1 = ra \o rb /\ s2 = s1 \o ga /\ s3 = s2 \o gb /\ s4 = s3 \o ma /\ s5 = s4 \o mb
  OBVIOUS
<1>5. s1 \in Seq(Ops) /\ Total(s1, n) = Total(ra, n) + Total(rb, n)
  BY <1>2, <1>4, TotalJoin
<1>6. s2 \in Seq(Ops) /\ Total(s2, n) = Total(s1, n) + Total(ga, n)
  <2>1. s1 \in Seq(Ops) /\ ga \in Seq(Ops) /\ s2 = s1 \o ga
    BY <1>2, <1>4, <1>5, Zenon
  <2> QED BY <2>1, TotalJoin
<1>7. s3 \in Seq(Ops) /\ Total(s3, n) = Total(s2, n) + Total(gb, n)
  <2>1. s2 \in Seq(Ops) /\ gb \in Seq(Ops) /\ s3 = s2 \o gb
    BY <1>2, <1>4, <1>6, Zenon
  <2> QED BY <2>1, TotalJoin
<1>8. s4 \in Seq(Ops) /\ Total(s4, n) = Total(s3, n) + Total(ma, n)
  <2>1. s3 \in Seq(Ops) /\ ma \in Seq(Ops) /\ s4 = s3 \o ma
    BY <1>2, <1>4, <1>7, Zenon
  <2> QED BY <2>1, TotalJoin
<1>9. s5 \in Seq(Ops) /\ Total(s5, n) = Total(s4, n) + Total(mb, n)
  <2>1. s4 \in Seq(Ops) /\ mb \in Seq(Ops) /\ s5 = s4 \o mb
    BY <1>2, <1>4, <1>8, Zenon
  <2> QED BY <2>1, TotalJoin
<1>10. Total(s5, n) = 0
  BY <1>3, <1>5, <1>6, <1>7, <1>8, <1>9
<1>11. PICK v : v = va \o vb
  OBVIOUS
<1>12. v \in Seq(Ops) /\ Total(v, n) = Total(va, n) + Total(vb, n)
  BY <1>2, <1>11, TotalJoin
<1>13. Total(v \o s5, n) = Total(v, n) + Total(s5, n)
  BY <1>9, <1>12, TotalJoin
<1>14. Verify(a) \o Verify(b) \o Swap(a, b) = v \o s5
  BY <1>1, <1>4, <1>11, Zenon DEF Swap
<1> QED BY <1>3, <1>10, <1>12, <1>13, <1>14

----------------------------------------------------------------------------
\* What is certain of the bags, whatever the removals under way write back.

\* A row that a removal or an offer names is of the item it says, if it still
\* exists; an id that is gone is not given out again.
Agrees(id, n) == id < nextId /\ (id \in DOMAIN rows => rows[id].name = n)

RemovesAgree(s) == \A i \in DOMAIN s : s[i].op = "remove" => Agrees(s[i].id, s[i].name)

OffersAgree ==
    \A c \in Chars : \A i \in DOMAIN sessions[c].offered :
        Agrees(sessions[c].offered[i].id, sessions[c].offered[i].name)

ForeignAgree ==
    \A g \in Others : foreign[g] # Idle => Agrees(foreign[g].id, foreign[g].name)

NamesInv == OffersAgree /\ RemovesAgree(prog) /\ RemovesAgree(undo) /\ ForeignAgree

\* Until something fails, the undos take back what the rest of the program
\* brings; from then on there is nothing to undo.
Balanced ==
    /\ ~rolling => \A n \in Names : Total(undo, n) = Total(prog, n)
    /\ rolling => undo = <<>>

\* t has no more of any row than what is in it, and than what any removal that has
\* read it is going to write back.
Floor(t) ==
    /\ \A i \in DOMAIN rows : /\ t[i].name = rows[i].name
                              /\ t[i].amount \in Nat /\ t[i].amount <= rows[i].amount
    /\ \A g \in Others : foreign[g] # Idle /\ foreign[g].id \in DOMAIN rows
                           => t[foreign[g].id].amount <= foreign[g].loaded
    /\ loaded # NotLoaded /\ Now.id \in DOMAIN rows => t[Now.id].amount <= loaded

\* With what was taken out and what the undos will put back, t has the units of
\* the start.
Backed(t) ==
    \A n \in Names : UnitsIn(t, DOMAIN rows, n) + spent[n] + Total(Pending, n)
                        >= UnitsIn(StartRows, DOMAIN StartRows, n)

FloorInv == faults.undo = 0 => \E t : Floor(t) /\ Backed(t)

LostInv == NamesInv /\ Balanced /\ FloorInv

\* Ids of rows are positive, below the counter, and finitely many.
LEMMA RowsType ==
    ASSUME TypeOK
    PROVE  /\ IsFiniteSet(DOMAIN rows) /\ nextId \in Nat /\ nextId \notin DOMAIN rows
           /\ \A i \in DOMAIN rows : i \in Nat /\ i < nextId /\ rows[i] \in Row
<1>1. /\ nextId \in Nat \ {0} /\ DOMAIN rows \subseteq 1 .. nextId - 1
      /\ \A i \in DOMAIN rows : i \in 1 .. nextId - 1 /\ rows[i] \in Row
  BY DEF TypeOK
<1>2. \A x, y \in Int : IsFiniteSet(x .. y)
  BY FS_Interval
<1>3. IsFiniteSet(DOMAIN rows)
  BY <1>1, <1>2, FS_Subset
<1> QED BY <1>1, <1>3

LEMMA StartUnits ==
    /\ IsFiniteSet(DOMAIN StartRows)
    /\ \A i \in DOMAIN StartRows : StartRows[i] \in Row
    /\ \A n : UnitsIn(StartRows, DOMAIN StartRows, n) \in Nat
<1>1. Len(StartRows) \in Nat /\ DOMAIN StartRows = 1 .. Len(StartRows)
  BY StartAssumption
<1>2. \A i \in DOMAIN StartRows : StartRows[i] \in Row
  BY StartAssumption
<1>3. \A x, y \in Int : IsFiniteSet(x .. y)
  BY FS_Interval
<1>4. IsFiniteSet(DOMAIN StartRows)
  BY <1>1, <1>3
<1>5. \A i \in DOMAIN StartRows : StartRows[i].amount \in Nat
  BY <1>2 DEF Row
<1> QED BY <1>2, <1>4, <1>5, UnitsType

\* t is certain of table r, of whose row id, of item m, k of l units are removed.
Takes(r, u, t, id, l, k, m) ==
    /\ l >= k /\ u = RemoveWrite(r, id, l, k) /\ IsFiniteSet(DOMAIN r)
    /\ \A i \in DOMAIN r : /\ r[i] \in Row /\ t[i].name = r[i].name
                           /\ t[i].amount \in Nat /\ t[i].amount <= r[i].amount
    /\ id \in DOMAIN r => t[id].amount <= l /\ r[id].name = m

\* v is certain of what is left, u, and has at most k units of item m less than t.
Leaves(r, u, t, v, k, m) ==
    /\ \A i \in DOMAIN u : /\ i \in DOMAIN r /\ u[i].name = r[i].name
                           /\ v[i].name = u[i].name /\ v[i].amount \in Nat
                           /\ v[i].amount <= u[i].amount /\ v[i].amount <= t[i].amount
    /\ \A n : /\ UnitsIn(v, DOMAIN u, n) \in Int /\ UnitsIn(t, DOMAIN r, n) \in Int
              /\ UnitsIn(v, DOMAIN u, n) + (IF n = m THEN k ELSE 0) >= UnitsIn(t, DOMAIN r, n)

\* The second statement of a removal of k units, whose first read l: what was
\* certain of the row is certain less k, or nothing.
LEMMA TakeOut ==
    ASSUME NEW r, NEW u, NEW t, NEW id, NEW l \in Nat, NEW k \in Nat, NEW m,
           Takes(r, u, t, id, l, k, m)
    PROVE  \E v : Leaves(r, u, t, v, k, m)
<1>0. /\ l >= k /\ u = RemoveWrite(r, id, l, k) /\ IsFiniteSet(DOMAIN r)
      /\ \A i \in DOMAIN r : /\ r[i] \in Row /\ t[i].name = r[i].name
                             /\ t[i].amount \in Nat /\ t[i].amount <= r[i].amount
      /\ id \in DOMAIN r => t[id].amount <= l /\ r[id].name = m
  BY DEF Takes
<1>1. PICK a : a = IF t[id].amount >= k THEN t[id].amount - k ELSE 0
  OBVIOUS
<1>2. PICK v : v = [i \in DOMAIN r |-> IF i = id THEN [name |-> r[i].name, amount |-> a] ELSE t[i]]
  OBVIOUS
<1>3. /\ DOMAIN u = IF l = k THEN DOMAIN r \ {id} ELSE DOMAIN r
      /\ \A i \in DOMAIN u : u[i] = IF i = id THEN [r[i] EXCEPT !.amount = l - k] ELSE r[i]
  BY <1>0 DEF RemoveWrite
<1>4. \A i \in DOMAIN u \ {id} : i \in DOMAIN r /\ u[i] = r[i] /\ v[i] = t[i]
  BY <1>2, <1>3
<1>5. ASSUME id \in DOMAIN u
      PROVE  /\ id \in DOMAIN r /\ u[id].name = r[id].name /\ u[id].amount = l - k
             /\ v[id].name = r[id].name /\ v[id].amount = a
  BY <1>0, <1>2, <1>3, <1>5 DEF Row
<1>6. ASSUME id \in DOMAIN r
      PROVE  a \in Nat /\ a <= l - k /\ a <= t[id].amount /\ a + k >= t[id].amount
  <2>1. t[id].amount \in Nat /\ t[id].amount <= l /\ l >= k
    BY <1>0, <1>6
  <2> QED BY <1>1, <2>1
<1>7. ASSUME NEW i \in DOMAIN u
      PROVE  /\ i \in DOMAIN r /\ u[i].name = r[i].name
             /\ v[i].name = u[i].name /\ v[i].amount \in Nat
             /\ v[i].amount <= u[i].amount /\ v[i].amount <= t[i].amount
  <2>1. CASE i = id
    BY <1>0, <1>5, <1>6, <2>1
  <2>2. CASE i # id
    BY <1>0, <1>4, <2>2
  <2> QED BY <2>1, <2>2
<1>8. ASSUME NEW n
      PROVE  /\ UnitsIn(v, DOMAIN u, n) \in Int /\ UnitsIn(t, DOMAIN r, n) \in Int
             /\ UnitsIn(v, DOMAIN u, n) + (IF n = m THEN k ELSE 0) >= UnitsIn(t, DOMAIN r, n)
  <2>1. PICK A, B : A = DOMAIN r /\ B = DOMAIN u
    OBVIOUS
  <2>2. /\ IsFiniteSet(A) /\ B \ {id} = A \ {id}
        /\ \A i \in A : t[i].amount \in Int
        /\ \A i \in B : v[i].amount \in Int
        /\ \A i \in A \ {id} : v[i].name = t[i].name /\ v[i].amount = t[i].amount
    BY <1>0, <1>2, <1>3, <1>7, <2>1
  <2>3. /\ UnitsIn(t, A, n) \in Int /\ UnitsIn(v, B, n) \in Int
        /\ UnitsIn(v, B, n) = UnitsIn(t, A, n) - Part(t, A, n, id) + Part(v, B, n, id)
    <3>1. UnitsIn(t, A, n) \in Int
      BY <2>2, UnitsShift
    <3>2. UnitsIn(v, B, n) \in Int
      <4>1. IsFiniteSet(B)
        <5>1. IsFiniteSet(A \cup {id}) /\ B \subseteq A \cup {id}
          BY <2>2, FS_AddElement
        <5> QED BY <5>1, FS_Subset
      <4>2. \A i \in B : v[i].amount \in Nat
        BY <1>7, <2>1
      <4> QED BY <4>1, <4>2, UnitsType
    <3>3. UnitsIn(v, B, n) = UnitsIn(t, A, n) - Part(t, A, n, id) + Part(v, B, n, id)
      BY <2>2, UnitsShift
    <3> QED BY <3>1, <3>2, <3>3
  <2>4. PICK p, q : p = Part(t, A, n, id) /\ q = Part(v, B, n, id)
    OBVIOUS
  <2>5. p \in Int /\ q \in Int /\ q + (IF n = m THEN k ELSE 0) >= p
    <3>1. CASE id \notin A
      <4>1. id \notin B
        BY <1>7, <2>1, <3>1
      <4>2. p = 0 /\ q = 0
        BY <2>4, <3>1, <4>1 DEF Part
      <4> QED BY <4>2
    <3>2. CASE id \in A /\ r[id].name # n
      <4>1. t[id].name # n
        BY <1>0, <2>1, <3>2
      <4>2. id \in B => v[id].name # n
        BY <1>5, <2>1, <3>2
      <4>3. p = 0 /\ q = 0
        BY <2>4, <4>1, <4>2 DEF Part
      <4> QED BY <4>3
    <3>3. CASE id \in A /\ r[id].name = n
      <4>1. n = m /\ p = t[id].amount /\ p \in Nat /\ p <= l
        BY <1>0, <2>1, <2>4, <3>3 DEF Part
      <4>2. CASE id \in B
        <5>1. q = a
          BY <1>5, <2>1, <2>4, <3>3, <4>2 DEF Part
        <5> QED BY <1>6, <2>1, <3>3, <4>1, <5>1
      <4>3. CASE id \notin B
        <5>1. l = k /\ q = 0
          BY <1>3, <2>1, <2>4, <3>3, <4>3 DEF Part
        <5> QED BY <4>1, <5>1
      <4> QED BY <4>2, <4>3
    <3> QED BY <3>1, <3>2, <3>3
  <2>6. UnitsIn(v, B, n) + (IF n = m THEN k ELSE 0) >= UnitsIn(t, A, n)
    <3>1. (IF n = m THEN k ELSE 0) \in Nat
      OBVIOUS
    <3> QED BY <2>3, <2>4, <2>5, <3>1
  <2> QED BY <2>1, <2>3, <2>6
<1>9. Leaves(r, u, t, v, k, m)
  BY <1>7, <1>8 DEF Leaves
<1> QED BY <1>9

\* Agreement survives whatever keeps the item of the rows that stay, and gives
\* new rows new ids.
LEMMA AgreesKept ==
    ASSUME TypeOK, nextId' \in Nat, nextId' >= nextId,
           \A i \in DOMAIN rows' : i \in Nat /\ (i < nextId => i \in DOMAIN rows /\ rows'[i].name = rows[i].name),
           NEW id \in Nat, NEW n, Agrees(id, n)
    PROVE  Agrees(id, n)'
<1>1. id < nextId /\ nextId \in Nat
  BY RowsType DEF Agrees
<1>2. id < nextId'
  BY <1>1
<1>3. id \in DOMAIN rows' => rows'[id].name = n
  BY <1>1 DEF Agrees
<1> QED BY <1>2, <1>3 DEF Agrees

\* What one operation does to the list it comes from.
LEMMA DoneTotal ==
    ASSUME TypeOK, Running, Balanced, NEW u \in Seq(Ops), Done(u),
           \A n \in Names : Total(u, n) = -Gain(Now, n)
    PROVE  /\ Balanced'
           /\ \A n \in Names : /\ Total(Pending, n) \in Int /\ Gain(Now, n) \in Int
                               /\ Total(Pending', n) = Total(Pending, n) - Gain(Now, n)
<1>1. prog \in Seq(Ops) /\ undo \in Seq(Ops) /\ prog # <<>> /\ Now = Head(prog) /\ rolling \in BOOLEAN
  BY DEF TypeOK, Running, Now
<1>2. /\ prog' = Tail(prog) /\ rolling' = rolling
      /\ undo' = IF rolling THEN undo ELSE u \o undo
  BY DEF Done
<1>3. PICK o : o = Now
  OBVIOUS
<1>4. ASSUME NEW n \in Names
      PROVE  /\ Total(prog', n) = Total(prog, n) - Gain(o, n)
             /\ Total(u \o undo, n) = Total(undo, n) - Gain(o, n)
             /\ Total(prog, n) \in Int /\ Total(undo, n) \in Int /\ Gain(o, n) \in Int
  <2>1. o \in Ops /\ Total(Tail(prog), n) = Total(prog, n) - Gain(o, n)
    BY <1>1, <1>3, TotalTail
  <2>2. Gain(o, n) \in Int
    BY <2>1, GainType
  <2>3. /\ Total(u, n) \in Int /\ Total(undo, n) \in Int
        /\ Total(u \o undo, n) = Total(u, n) + Total(undo, n)
    BY <1>1, TotalJoin
  <2>4. Total(prog, n) \in Int
    BY <1>1, TotalJoin
  <2>5. Total(u, n) = -Gain(o, n)
    BY <1>3
  <2> QED BY <1>2, <2>1, <2>2, <2>3, <2>4, <2>5
<1>5. CASE rolling
  <2>1. /\ Pending = prog /\ Pending' = prog'
        /\ rolling' /\ undo' = undo /\ undo = <<>>
    BY <1>2, <1>5 DEF Pending, Balanced
  <2>2. Balanced'
    BY <2>1 DEF Balanced
  <2> QED BY <1>3, <1>4, <2>1, <2>2
<1>6. CASE ~rolling
  <2>1. Pending = undo /\ Pending' = undo' /\ undo' = u \o undo /\ ~rolling'
    BY <1>2, <1>6 DEF Pending
  <2>2. \A n \in Names : Total(undo, n) = Total(prog, n)
    BY <1>6 DEF Balanced
  <2>3. \A n \in Names : Total(undo', n) = Total(prog', n)
    BY <1>4, <2>1, <2>2
  <2>4. Balanced'
    BY <2>1, <2>3 DEF Balanced
  <2> QED BY <1>3, <1>4, <2>1, <2>4
<1> QED BY <1>1, <1>5, <1>6

LEMMA FailedTotal ==
    ASSUME TypeOK, Running, Balanced, Failed
    PROVE  /\ Balanced'
           /\ \A n \in Names :
                /\ Total(Pending, n) \in Int /\ Gain(Now, n) \in Int
                /\ Total(Pending', n) = IF rolling THEN Total(Pending, n) - Gain(Now, n)
                                        ELSE Total(Pending, n)
<1>1. prog \in Seq(Ops) /\ undo \in Seq(Ops) /\ prog # <<>> /\ Now = Head(prog) /\ rolling \in BOOLEAN
  BY DEF TypeOK, Running, Now
<1>2. /\ prog' = IF rolling THEN Tail(prog) ELSE undo
      /\ undo' = <<>> /\ rolling' = TRUE
  BY DEF Failed
<1>3. Balanced'
  BY <1>2 DEF Balanced
<1>4. Pending' = prog' /\ Pending = IF rolling THEN prog ELSE undo
  BY <1>2 DEF Pending
<1>5. PICK o : o = Now
  OBVIOUS
<1>6. ASSUME NEW n \in Names
      PROVE  /\ Total(Tail(prog), n) = Total(prog, n) - Gain(o, n)
             /\ Total(prog, n) \in Int /\ Total(undo, n) \in Int /\ Gain(o, n) \in Int
  <2>1. o \in Ops /\ Total(Tail(prog), n) = Total(prog, n) - Gain(o, n)
    BY <1>1, <1>5, TotalTail
  <2>2. Total(prog, n) \in Int /\ Total(undo, n) \in Int
    BY <1>1, TotalJoin
  <2> QED BY <2>1, <2>2, GainType
<1> QED BY <1>1, <1>2, <1>3, <1>4, <1>5, <1>6

\* Lists, offers and removals that stay name the same items as before.
LEMMA NamesKept ==
    ASSUME TypeOK, NamesInv, nextId' \in Nat, nextId' >= nextId,
           \A i \in DOMAIN rows' : i \in Nat /\ (i < nextId => i \in DOMAIN rows /\ rows'[i].name = rows[i].name),
           \A c \in Chars : sessions'[c].offered \in {sessions[c].offered, <<>>},
           \A i \in DOMAIN prog' : prog'[i].op = "remove" =>
               (\E j \in DOMAIN prog : prog'[i] = prog[j]) \/ (\E j \in DOMAIN undo : prog'[i] = undo[j]),
           \A i \in DOMAIN undo' : undo'[i].op = "remove" =>
               \/ \E j \in DOMAIN undo : undo'[i] = undo[j]
               \/ undo'[i].id = nextId /\ nextId < nextId' /\ rows'[nextId].name = undo'[i].name,
           \A g \in Others : foreign'[g] \in {foreign[g], Idle}
    PROVE  NamesInv'
<1>1. ASSUME NEW id \in Nat, NEW n, Agrees(id, n) PROVE Agrees(id, n)'
  BY <1>1, AgreesKept
<1>2. OffersAgree'
  <2> SUFFICES ASSUME NEW c \in Chars, NEW i \in DOMAIN sessions'[c].offered
               PROVE  /\ sessions'[c].offered[i].id < nextId'
                      /\ sessions'[c].offered[i].id \in DOMAIN rows'
                            => rows'[sessions'[c].offered[i].id].name = sessions'[c].offered[i].name
    BY DEF OffersAgree, Agrees
  <2>1. sessions'[c].offered = sessions[c].offered
    OBVIOUS
  <2>2. PICK o : o = sessions[c].offered[i]
    OBVIOUS
  <2>3. sessions[c].offered \in Seq(Offer)
    <3>1. sessions[c] \in Session \cup {NoSession}
      BY DEF TypeOK
    <3>2. CASE sessions[c] \in Session
      BY <3>2 DEF Session
    <3>3. CASE sessions[c] = NoSession
      <4>1. sessions[c].offered = <<>>
        BY <3>3 DEF NoSession
      <4> QED BY <4>1
    <3> QED BY <3>1, <3>2, <3>3
  <2>4. o \in Offer
    BY <2>1, <2>2, <2>3
  <2>5. o.id \in Nat /\ Agrees(o.id, o.name)
    BY <2>1, <2>2, <2>4 DEF NamesInv, OffersAgree, Offer
  <2>6. Agrees(o.id, o.name)'
    BY <1>1, <2>5
  <2> QED BY <2>1, <2>2, <2>6 DEF Agrees
<1>3. ASSUME NEW o \in Ops, o.op = "remove", (\E j \in DOMAIN prog : o = prog[j]) \/ (\E j \in DOMAIN undo : o = undo[j])
      PROVE  o.id < nextId' /\ (o.id \in DOMAIN rows' => rows'[o.id].name = o.name)
  <2>1. o.id \in Nat
    BY OpFields
  <2>2. Agrees(o.id, o.name)
    BY <1>3 DEF NamesInv, RemovesAgree
  <2>3. Agrees(o.id, o.name)'
    BY <1>1, <2>1, <2>2
  <2> QED BY <2>3 DEF Agrees
<1>4. (\A j \in DOMAIN prog : prog[j] \in Ops) /\ (\A j \in DOMAIN undo : undo[j] \in Ops)
  BY DEF TypeOK
<1>5. RemovesAgree(prog)'
  <2> SUFFICES ASSUME NEW i \in DOMAIN prog', prog'[i].op = "remove"
               PROVE  /\ prog'[i].id < nextId'
                      /\ prog'[i].id \in DOMAIN rows' => rows'[prog'[i].id].name = prog'[i].name
    BY DEF RemovesAgree, Agrees
  <2>1. PICK o : o = prog'[i]
    OBVIOUS
  <2>2. (\E j \in DOMAIN prog : o = prog[j]) \/ (\E j \in DOMAIN undo : o = undo[j])
    BY <2>1
  <2>3. o \in Ops
    BY <1>4, <2>2
  <2> QED BY <1>3, <2>1, <2>2, <2>3
<1>6. RemovesAgree(undo)'
  <2> SUFFICES ASSUME NEW i \in DOMAIN undo', undo'[i].op = "remove"
               PROVE  /\ undo'[i].id < nextId'
                      /\ undo'[i].id \in DOMAIN rows' => rows'[undo'[i].id].name = undo'[i].name
    BY DEF RemovesAgree, Agrees
  <2>1. PICK o : o = undo'[i]
    OBVIOUS
  <2>2. CASE \E j \in DOMAIN undo : o = undo[j]
    <3>1. o \in Ops
      BY <1>4, <2>2
    <3> QED BY <1>3, <2>1, <2>2, <3>1
  <2>3. CASE o.id = nextId /\ nextId < nextId' /\ rows'[nextId].name = o.name
    BY <2>1, <2>3
  <2> QED BY <2>1, <2>2, <2>3
<1>7. ForeignAgree'
  <2> SUFFICES ASSUME NEW g \in Others, foreign'[g] # Idle
               PROVE  /\ foreign'[g].id < nextId'
                      /\ foreign'[g].id \in DOMAIN rows' => rows'[foreign'[g].id].name = foreign'[g].name
    BY DEF ForeignAgree, Agrees
  <2>1. foreign'[g] = foreign[g]
    OBVIOUS
  <2>2. PICK o : o = foreign[g]
    OBVIOUS
  <2>3. o \in Removals /\ Agrees(o.id, o.name)
    BY <2>1, <2>2 DEF TypeOK, NamesInv, ForeignAgree
  <2>4. o.id \in Nat
    BY <2>3 DEF Removals
  <2>5. Agrees(o.id, o.name)'
    BY <1>1, <2>3, <2>4
  <2> QED BY <2>1, <2>2, <2>5 DEF Agrees
<1> QED BY <1>2, <1>5, <1>6, <1>7 DEF NamesInv

\* Steps that take nothing from a row, and may read one.
LEMMA FloorKept ==
    ASSUME TypeOK, FloorInv, faults'.undo = 0 => faults.undo = 0,
           DOMAIN rows' = DOMAIN rows,
           \A i \in DOMAIN rows : rows'[i].name = rows[i].name /\ rows'[i].amount = rows[i].amount,
           spent' = spent,
           \A g \in Others : \/ foreign'[g] = foreign[g]
                             \/ foreign'[g].id \in DOMAIN rows
                                /\ foreign'[g].loaded = rows[foreign'[g].id].amount,
           loaded' # NotLoaded =>
               Now' = Now /\ (loaded' = loaded
                              \/ (Now.id \in DOMAIN rows /\ loaded' = rows[Now.id].amount)),
           \A n \in Names : /\ Total(Pending, n) \in Int /\ Total(Pending', n) \in Int
                            /\ Total(Pending', n) >= Total(Pending, n)
    PROVE  FloorInv'
<1> SUFFICES ASSUME faults'.undo = 0 PROVE \E t : Floor(t)' /\ Backed(t)'
  BY DEF FloorInv
<1>1. PICK t : Floor(t) /\ Backed(t)
  BY DEF FloorInv
<1>2. \A i \in DOMAIN rows' : /\ t[i].name = rows'[i].name
                               /\ t[i].amount \in Nat /\ t[i].amount <= rows'[i].amount
  BY <1>1 DEF Floor
<1>3. ASSUME NEW g \in Others, foreign'[g] # Idle, foreign'[g].id \in DOMAIN rows'
      PROVE  t[foreign'[g].id].amount <= foreign'[g].loaded
  <2>1. CASE foreign'[g] = foreign[g]
    BY <1>1, <1>3, <2>1 DEF Floor
  <2>2. CASE foreign'[g].id \in DOMAIN rows /\ foreign'[g].loaded = rows[foreign'[g].id].amount
    BY <1>1, <2>2 DEF Floor
  <2> QED BY <2>1, <2>2
<1>4. ASSUME loaded' # NotLoaded, Now'.id \in DOMAIN rows' PROVE t[Now'.id].amount <= loaded'
  <2>1. CASE loaded' = loaded
    BY <1>1, <1>4, <2>1 DEF Floor
  <2>2. CASE Now.id \in DOMAIN rows /\ loaded' = rows[Now.id].amount
    BY <1>1, <1>4, <2>2 DEF Floor
  <2> QED BY <1>4, <2>1, <2>2
<1>5. Floor(t)'
  BY <1>2, <1>3, <1>4 DEF Floor
<1>6. \A i \in DOMAIN rows : t[i].amount \in Nat
  BY <1>1 DEF Floor
<1>7. ASSUME NEW n \in Names
      PROVE  UnitsIn(t, DOMAIN rows', n) + spent'[n] + Total(Pending', n)
                >= UnitsIn(StartRows, DOMAIN StartRows, n)
  <2>1. UnitsIn(t, DOMAIN rows, n) \in Int /\ spent[n] \in Int /\ UnitsIn(t, DOMAIN rows', n) = UnitsIn(t, DOMAIN rows, n)
    BY <1>6, RowsType, UnitsType DEF TypeOK
  <2>2. UnitsIn(t, DOMAIN rows, n) + spent[n] + Total(Pending, n) >= UnitsIn(StartRows, DOMAIN StartRows, n)
    BY <1>1 DEF Backed
  <2>3. UnitsIn(StartRows, DOMAIN StartRows, n) \in Int
    BY StartUnits
  <2> QED BY <2>1, <2>2, <2>3
<1>8. Backed(t)'
  BY <1>7 DEF Backed
<1> QED BY <1>5, <1>8

\* The steps that leave the tables as they are, but for the equip column.
LEMMA QuietStep ==
    ASSUME TypeOK, LostInv, UNCHANGED <<nextId, prog, undo, rolling, loaded, foreign, spent, faults>>,
           DOMAIN rows' = DOMAIN rows,
           \A i \in DOMAIN rows : rows'[i].name = rows[i].name /\ rows'[i].amount = rows[i].amount
    PROVE  /\ Balanced' /\ FloorInv'
           /\ (\A c \in Chars : sessions'[c].offered \in {sessions[c].offered, <<>>}) => NamesInv'
<1>1. /\ NamesInv /\ Balanced /\ FloorInv
      /\ nextId' = nextId /\ prog' = prog /\ undo' = undo /\ rolling' = rolling
      /\ loaded' = loaded /\ foreign' = foreign /\ spent' = spent /\ faults' = faults
  BY DEF LostInv
<1>2. Balanced'
  BY <1>1 DEF Balanced
<1>3. Pending' = Pending /\ Now' = Now
  BY <1>1 DEF Pending, Now
<1>4. \A n \in Names : Total(Pending, n) \in Int
  <2>1. Pending \in Seq(Ops)
    BY DEF Pending, TypeOK
  <2> QED BY <2>1, TotalJoin
<1>5. FloorInv'
  BY <1>1, <1>3, <1>4, FloorKept
<1>6. (\A c \in Chars : sessions'[c].offered \in {sessions[c].offered, <<>>}) => NamesInv'
  <2>1. nextId' \in Nat /\ nextId' >= nextId
    BY <1>1, RowsType
  <2>2. \A i \in DOMAIN rows' : i \in Nat /\ (i < nextId => i \in DOMAIN rows /\ rows'[i].name = rows[i].name)
    BY RowsType
  <2> QED BY <1>1, <2>1, <2>2, NamesKept
<1> QED BY <1>2, <1>5, <1>6

LEMMA SessionStep ==
    ASSUME TypeOK, LostInv, NEW c \in Chars,
           \/ \E t \in Chars : Request(c, t)
           \/ AckAccept(c) \/ AckReject(c) \/ Cancel(c) \/ Lock(c)
           \/ \E z \in Stakes : AddZeny(c, z)
           \/ \E m \in Maps \cup {Nobody} : Travel(c, m)
    PROVE  LostInv'
<1> USE DEF dbVars, jobVars, envVars
<1>1. UNCHANGED <<rows, nextId, prog, undo, rolling, loaded, foreign, spent, faults>>
  BY DEF Request, AckAccept, AckReject, Cancel, Lock, AddZeny, Travel
<1>2. sessions \in [Chars -> Session \cup {NoSession}]
  BY DEF TypeOK
<1>3. ASSUME NEW d \in Chars PROVE sessions'[d].offered \in {sessions[d].offered, <<>>}
  <2>1. ASSUME NEW t \in Chars, Request(c, t) PROVE sessions'[d].offered \in {sessions[d].offered, <<>>}
    BY <1>2, <2>1 DEF Request, NewSession
  <2>2. CASE AckAccept(c)
    <3>1. Trading(c)
      BY <2>2 DEF AckAccept, Trading
    <3>2. sessions[c] \in Session /\ Partner(c) \in Chars /\ sessions[Partner(c)] \in Session
      BY <2>2, <3>1, SideType DEF AckAccept
    <3>3. sessions'[d].offered = sessions[d].offered
      BY <1>2, <2>2, <3>2 DEF AckAccept, Session
    <3> QED BY <3>3
  <2>3. CASE AckReject(c) \/ Cancel(c)
    BY <1>2, <2>3 DEF AckReject, Cancel, TearDown, NoSession
  <2>4. CASE Lock(c)
    <3>1. sessions[c] \in Session
      BY <2>4, SideType DEF Lock, Active, Trading
    <3> QED BY <1>2, <2>4, <3>1 DEF Lock, Session
  <2>5. ASSUME NEW z \in Stakes, AddZeny(c, z) PROVE sessions'[d].offered \in {sessions[d].offered, <<>>}
    <3>1. sessions[c] \in Session
      BY <2>5, SideType DEF AddZeny, Active, Trading
    <3> QED BY <1>2, <2>5, <3>1 DEF AddZeny, Session
  <2>6. ASSUME NEW m \in Maps \cup {Nobody}, Travel(c, m) PROVE sessions'[d].offered \in {sessions[d].offered, <<>>}
    BY <2>6 DEF Travel
  <2> QED BY <2>1, <2>2, <2>3, <2>4, <2>5, <2>6
<1> QED BY <1>1, <1>3, QuietStep DEF LostInv

LEMMA EquipStep ==
    ASSUME TypeOK, LostInv, NEW id \in DOMAIN rows, Equip(id)
    PROVE  LostInv'
<1>1. UNCHANGED <<sessions, nextId, prog, undo, rolling, loaded, foreign, spent, faults>>
  BY DEF Equip, jobVars
<1>2. rows' = [rows EXCEPT ![id].equip = ~rows[id].equip]
  BY DEF Equip, SetEquip
<1>3. \A i \in DOMAIN rows : rows[i] \in Row
  BY RowsType
<1>4. /\ DOMAIN rows' = DOMAIN rows
      /\ \A i \in DOMAIN rows : rows'[i].name = rows[i].name /\ rows'[i].amount = rows[i].amount
  BY <1>2, <1>3 DEF Row
<1> QED BY <1>1, <1>4, QuietStep DEF LostInv

LEMMA AddItemStep ==
    ASSUME TypeOK, LostInv, NEW c \in Chars, NEW id \in DOMAIN rows, NEW k \in Stakes, AddItem(c, id, k)
    PROVE  LostInv'
<1>1. UNCHANGED <<rows, nextId, prog, undo, rolling, loaded, foreign, spent, faults>>
  BY DEF AddItem, dbVars, jobVars, envVars
<1>2. Balanced' /\ FloorInv'
  BY <1>1, QuietStep
<1>3. sessions[c] \in Session /\ sessions \in [Chars -> Session \cup {NoSession}]
  BY SideType DEF AddItem, Active, Trading, TypeOK
<1>4. PICK s, e : s = sessions[c].offered /\ e = [id |-> id, name |-> rows[id].name, amount |-> k]
  OBVIOUS
<1>5. /\ sessions'[c].offered = Append(s, e)
      /\ \A d \in Chars \ {c} : sessions'[d] = sessions[d]
  BY <1>3, <1>4 DEF AddItem, Session
<1>6. s \in Seq(Offer)
  BY <1>3, <1>4 DEF Session
<1>7. \A i \in DOMAIN Append(s, e) : Append(s, e)[i] = e \/ (i \in DOMAIN s /\ Append(s, e)[i] = s[i])
  BY <1>6
<1>8. Agrees(id, rows[id].name)
  BY RowsType DEF Agrees
<1>9. OffersAgree'
  <2> SUFFICES ASSUME NEW d \in Chars, NEW i \in DOMAIN sessions'[d].offered
               PROVE  Agrees(sessions'[d].offered[i].id, sessions'[d].offered[i].name)
    BY <1>1 DEF OffersAgree, Agrees
  <2>1. CASE d # c
    BY <1>5, <2>1 DEF LostInv, NamesInv, OffersAgree
  <2>2. CASE d = c
    <3>1. PICK o : o = sessions'[d].offered[i]
      OBVIOUS
    <3>2. o = e \/ (i \in DOMAIN s /\ o = s[i])
      BY <1>5, <1>7, <2>2, <3>1
    <3>3. CASE o = e
      BY <1>4, <1>8, <3>1, <3>3
    <3>4. CASE i \in DOMAIN s /\ o = s[i]
      BY <1>4, <3>1, <3>4 DEF LostInv, NamesInv, OffersAgree
    <3> QED BY <3>2, <3>3, <3>4
  <2> QED BY <2>1, <2>2
<1>10. RemovesAgree(prog)' /\ RemovesAgree(undo)' /\ ForeignAgree'
  BY <1>1 DEF LostInv, NamesInv, RemovesAgree, ForeignAgree, Agrees
<1> QED BY <1>2, <1>9, <1>10 DEF LostInv, NamesInv

LEMMA ForeignLoadStep ==
    ASSUME TypeOK, LostInv, NEW g \in Others, NEW id \in DOMAIN rows, NEW k \in Stakes, ForeignLoad(g, id, k)
    PROVE  LostInv'
<1>1. UNCHANGED <<sessions, rows, nextId, prog, undo, rolling, loaded, spent, faults>>
  BY DEF ForeignLoad, dbVars, jobVars
<1>2. foreign' = [foreign EXCEPT ![g] = [id |-> id, name |-> rows[id].name, amount |-> k,
                                         loaded |-> rows[id].amount]]
  BY DEF ForeignLoad
<1>3. foreign \in [Others -> Removals \cup {Idle}]
  BY DEF TypeOK
<1>4. /\ foreign'[g].id = id /\ foreign'[g].name = rows[id].name /\ foreign'[g].loaded = rows[id].amount
      /\ \A h \in Others \ {g} : foreign'[h] = foreign[h]
  BY <1>2, <1>3
<1>5. Balanced' /\ Pending' = Pending /\ Now' = Now
  BY <1>1 DEF LostInv, Balanced, Pending, Now
<1>6. \A n \in Names : Total(Pending, n) \in Int
  <2>1. Pending \in Seq(Ops)
    BY DEF Pending, TypeOK
  <2> QED BY <2>1, TotalJoin
<1>7. FloorInv'
  <2>1. \A h \in Others : \/ foreign'[h] = foreign[h]
                          \/ foreign'[h].id \in DOMAIN rows
                             /\ foreign'[h].loaded = rows[foreign'[h].id].amount
    BY <1>4
  <2> QED BY <1>1, <1>5, <1>6, <2>1, FloorKept DEF LostInv
<1>8. Agrees(id, rows[id].name)
  BY RowsType DEF Agrees
<1>9. ForeignAgree'
  <2> SUFFICES ASSUME NEW h \in Others, foreign'[h] # Idle PROVE Agrees(foreign'[h].id, foreign'[h].name)
    BY <1>1 DEF ForeignAgree, Agrees
  <2>1. CASE h = g
    BY <1>4, <1>8, <2>1
  <2>2. CASE h # g
    BY <1>4, <2>2 DEF LostInv, NamesInv, ForeignAgree
  <2> QED BY <2>1, <2>2
<1>10. RemovesAgree(prog)' /\ RemovesAgree(undo)' /\ OffersAgree'
  BY <1>1 DEF LostInv, NamesInv, RemovesAgree, OffersAgree, Agrees
<1> QED BY <1>5, <1>7, <1>9, <1>10 DEF LostInv, NamesInv

LEMMA JoinElements ==
    ASSUME NEW s \in Seq(Ops), NEW t \in Seq(Ops)
    PROVE  \A i \in DOMAIN (s \o t) : \/ \E j \in DOMAIN s : (s \o t)[i] = s[j]
                                      \/ \E j \in DOMAIN t : (s \o t)[i] = t[j]
<1>1. PICK l, k, u : l = Len(s) /\ k = Len(t) /\ u = s \o t
  OBVIOUS
<1>2. /\ l \in Nat /\ k \in Nat /\ DOMAIN s = 1 .. l /\ DOMAIN t = 1 .. k
      /\ u \in Seq(Ops) /\ Len(u) = l + k
      /\ \A i \in 1 .. l + k : u[i] = IF i <= l THEN s[i] ELSE t[i - l]
  BY <1>1, LenProperties, ConcatProperties
<1>3. DOMAIN u = 1 .. l + k
  BY <1>2, LenProperties
<1>4. ASSUME NEW i \in DOMAIN u
      PROVE  (\E j \in DOMAIN s : u[i] = s[j]) \/ (\E j \in DOMAIN t : u[i] = t[j])
  <2>1. i \in 1 .. l + k
    BY <1>3
  <2>2. CASE i <= l
    <3>1. i \in DOMAIN s /\ u[i] = s[i]
      BY <1>2, <2>1, <2>2
    <3> QED BY <3>1
  <2>3. CASE ~(i <= l)
    <3>1. i - l \in DOMAIN t /\ u[i] = t[i - l]
      BY <1>2, <2>1, <2>3
    <3> QED BY <3>1
  <2> QED BY <2>2, <2>3
<1> QED BY <1>1, <1>4

LEMMA RemovesJoin ==
    ASSUME NEW s \in Seq(Ops), NEW t \in Seq(Ops), RemovesAgree(s), RemovesAgree(t)
    PROVE  RemovesAgree(s \o t)
<1>1. PICK u : u = s \o t
  OBVIOUS
<1>2. \A i \in DOMAIN u : (\E j \in DOMAIN s : u[i] = s[j]) \/ (\E j \in DOMAIN t : u[i] = t[j])
  BY <1>1, JoinElements
<1>3. RemovesAgree(u)
  BY <1>2 DEF RemovesAgree
<1> QED BY <1>1, <1>3

\* What Done and Failed leave in the program and on the undo stack was there, or is
\* the compensation just pushed.
LEMMA DoneElements ==
    ASSUME TypeOK, Running, NEW u \in Seq(Ops), Done(u)
    PROVE  /\ \A i \in DOMAIN prog' : \E j \in DOMAIN prog : prog'[i] = prog[j]
           /\ \A i \in DOMAIN undo' : \/ \E j \in DOMAIN undo : undo'[i] = undo[j]
                                      \/ \E j \in DOMAIN u : undo'[i] = u[j]
<1>1. prog \in Seq(Ops) /\ undo \in Seq(Ops) /\ prog # <<>> /\ prog' = Tail(prog)
      /\ undo' = IF rolling THEN undo ELSE u \o undo
  BY DEF TypeOK, Running, Done
<1>2. PICK t : t = Tail(prog)
  OBVIOUS
<1>3. Len(prog) \in Nat /\ DOMAIN prog = 1 .. Len(prog) /\ t \in Seq(Ops) /\ Len(t) = Len(prog) - 1
      /\ DOMAIN t = 1 .. Len(t) /\ \A i \in 1 .. Len(t) : t[i] = prog[i + 1]
  BY <1>1, <1>2, HeadTailProperties, LenProperties
<1>4. \A i \in DOMAIN t : i + 1 \in DOMAIN prog /\ t[i] = prog[i + 1]
  BY <1>3
<1>5. PICK w : w = u \o undo
  OBVIOUS
<1>6. \A i \in DOMAIN w : (\E j \in DOMAIN u : w[i] = u[j]) \/ (\E j \in DOMAIN undo : w[i] = undo[j])
  BY <1>1, <1>5, JoinElements
<1>7. undo' = undo \/ undo' = w
  BY <1>1, <1>5
<1> QED BY <1>1, <1>2, <1>4, <1>6, <1>7

LEMMA FailedElements ==
    ASSUME TypeOK, Running, Failed
    PROVE  /\ \A i \in DOMAIN prog' : \/ \E j \in DOMAIN prog : prog'[i] = prog[j]
                                      \/ \E j \in DOMAIN undo : prog'[i] = undo[j]
           /\ undo' = <<>>
<1>1. prog \in Seq(Ops) /\ undo \in Seq(Ops) /\ prog # <<>> /\ undo' = <<>>
      /\ prog' = IF rolling THEN Tail(prog) ELSE undo
  BY DEF TypeOK, Running, Failed
<1>2. PICK t : t = Tail(prog)
  OBVIOUS
<1>3. Len(prog) \in Nat /\ DOMAIN prog = 1 .. Len(prog) /\ t \in Seq(Ops) /\ Len(t) = Len(prog) - 1
      /\ DOMAIN t = 1 .. Len(t) /\ \A i \in 1 .. Len(t) : t[i] = prog[i + 1]
  BY <1>1, <1>2, HeadTailProperties, LenProperties
<1>4. \A i \in DOMAIN t : i + 1 \in DOMAIN prog /\ t[i] = prog[i + 1]
  BY <1>3
<1> QED BY <1>1, <1>2, <1>4

LEMMA ConcludeStart ==
    ASSUME TypeOK, LostInv, NEW c \in Chars, Conclude(c)
    PROVE  LostInv'
<1>1. /\ UNCHANGED <<rows, nextId, undo, rolling, loaded, foreign, spent, faults>>
      /\ sessions' = [sessions EXCEPT ![c].locked = TRUE]
      /\ prog' = Verify(c) \o Verify(Partner(c)) \o Swap(c, Partner(c))
      /\ pair = <<>>
  BY DEF Conclude, dbVars, envVars, MuFree
<1>2. prog = <<>> /\ undo = <<>> /\ ~rolling /\ loaded = NotLoaded
  BY <1>1 DEF TypeOK, MuFree
<1>3. PICK p : p = Partner(c)
  OBVIOUS
<1>4. Trading(c) /\ p \in Chars /\ Trading(p)
  BY <1>3, SideType DEF Conclude, Active, Trading
<1>5. \A n : Total(prog', n) = 0
  BY <1>1, <1>3, <1>4, SwapBalanced
<1>6. Balanced'
  BY <1>1, <1>2, <1>5, TotalEmpty DEF Balanced
<1>7. Pending' = <<>> /\ Pending = <<>>
  BY <1>1, <1>2 DEF Pending
<1>8. FloorInv'
  <2>1. \A n \in Names : /\ Total(Pending, n) \in Int /\ Total(Pending', n) \in Int
                         /\ Total(Pending', n) >= Total(Pending, n)
    BY <1>7, TotalEmpty
  <2> QED BY <1>1, <1>2, <2>1, FloorKept DEF LostInv
<1>9. ASSUME NEW d \in Chars, Trading(d), NEW e \in Chars
      PROVE  /\ Verify(d) \in Seq(Ops) /\ MoveZeny(d, e) \in Seq(Ops)
             /\ RemoveOffered(d) \in Seq(Ops) /\ GrantOffered(e, d) \in Seq(Ops)
             /\ RemovesAgree(Verify(d)) /\ RemovesAgree(MoveZeny(d, e))
             /\ RemovesAgree(RemoveOffered(d)) /\ RemovesAgree(GrantOffered(e, d))
  <2>1. /\ Verify(d) \in Seq(Ops) /\ MoveZeny(d, e) \in Seq(Ops)
        /\ RemoveOffered(d) \in Seq(Ops) /\ GrantOffered(e, d) \in Seq(Ops)
    BY <1>9, PartsType
  <2>2. \A i \in DOMAIN Verify(d) : Verify(d)[i].op \in {"verifyZeny", "verifyBag"}
    BY DEF Verify, Op
  <2>3. \A i \in DOMAIN MoveZeny(d, e) : MoveZeny(d, e)[i].op \in {"deduct", "credit"}
    BY DEF MoveZeny, Op
  <2>4. \A i \in DOMAIN GrantOffered(e, d) : GrantOffered(e, d)[i].op = "add"
    BY DEF GrantOffered, Op
  <2>5. RemovesAgree(RemoveOffered(d))
    <3>1. PICK o, r : o = sessions[d].offered /\ r = RemoveOffered(d)
      OBVIOUS
    <3>2. \A i \in DOMAIN r : i \in DOMAIN o /\ r[i].id = o[i].id /\ r[i].name = o[i].name
      BY <3>1 DEF RemoveOffered, Op
    <3>3. \A i \in DOMAIN o : Agrees(o[i].id, o[i].name)
      BY <3>1 DEF LostInv, NamesInv, OffersAgree
    <3>4. RemovesAgree(r)
      BY <3>2, <3>3 DEF RemovesAgree
    <3> QED BY <3>1, <3>4
  <2>6. \A s : (\A i \in DOMAIN s : s[i].op # "remove") => RemovesAgree(s)
    BY DEF RemovesAgree
  <2>7. /\ \A i \in DOMAIN Verify(d) : Verify(d)[i].op # "remove"
        /\ \A i \in DOMAIN MoveZeny(d, e) : MoveZeny(d, e)[i].op # "remove"
        /\ \A i \in DOMAIN GrantOffered(e, d) : GrantOffered(e, d)[i].op # "remove"
    BY <2>2, <2>3, <2>4
  <2> QED BY <2>1, <2>5, <2>6, <2>7
<1>10. ASSUME NEW s, NEW t, s \in Seq(Ops) /\ RemovesAgree(s), t \in Seq(Ops) /\ RemovesAgree(t)
       PROVE  s \o t \in Seq(Ops) /\ RemovesAgree(s \o t)
  BY <1>10, RemovesJoin, ConcatProperties
<1>11. PICK u : u = prog'
  OBVIOUS
<1>12. RemovesAgree(u)
  <2>1. PICK va, vb, ra, rb, ga, gb, ma, mb :
            /\ va = Verify(c) /\ vb = Verify(p) /\ ra = RemoveOffered(c) /\ rb = RemoveOffered(p)
            /\ ga = GrantOffered(p, c) /\ gb = GrantOffered(c, p)
            /\ ma = MoveZeny(c, p) /\ mb = MoveZeny(p, c)
    OBVIOUS
  <2>2. u = va \o vb \o (ra \o rb \o ga \o gb \o ma \o mb)
    BY <1>1, <1>3, <1>11, <2>1, Zenon DEF Swap
  <2>3. /\ va \in Seq(Ops) /\ vb \in Seq(Ops) /\ ra \in Seq(Ops) /\ rb \in Seq(Ops)
        /\ ga \in Seq(Ops) /\ gb \in Seq(Ops) /\ ma \in Seq(Ops) /\ mb \in Seq(Ops)
        /\ RemovesAgree(va) /\ RemovesAgree(vb) /\ RemovesAgree(ra) /\ RemovesAgree(rb)
        /\ RemovesAgree(ga) /\ RemovesAgree(gb) /\ RemovesAgree(ma) /\ RemovesAgree(mb)
    BY <1>4, <1>9, <2>1
  <2>4. PICK s1, s2, s3, s4, s5, v :
            /\ s1 = ra \o rb /\ s2 = s1 \o ga /\ s3 = s2 \o gb /\ s4 = s3 \o ma /\ s5 = s4 \o mb
            /\ v = va \o vb
    OBVIOUS
  <2>5. s1 \in Seq(Ops) /\ RemovesAgree(s1) /\ v \in Seq(Ops) /\ RemovesAgree(v)
    BY <1>10, <2>3, <2>4
  <2>6. s2 \in Seq(Ops) /\ RemovesAgree(s2)
    BY <1>10, <2>3, <2>4, <2>5
  <2>7. s3 \in Seq(Ops) /\ RemovesAgree(s3)
    BY <1>10, <2>3, <2>4, <2>6
  <2>8. s4 \in Seq(Ops) /\ RemovesAgree(s4)
    BY <1>10, <2>3, <2>4, <2>7
  <2>9. s5 \in Seq(Ops) /\ RemovesAgree(s5)
    BY <1>10, <2>3, <2>4, <2>8
  <2>10. RemovesAgree(v \o s5)
    BY <1>10, <2>5, <2>9
  <2> QED BY <2>2, <2>4, <2>10
<1>13. RemovesAgree(prog)'
  <2>1. RemovesAgree(prog)' = \A i \in DOMAIN u : u[i].op = "remove" => Agrees(u[i].id, u[i].name)
    BY <1>1, <1>11 DEF RemovesAgree, Agrees
  <2> QED BY <1>12, <2>1 DEF RemovesAgree
<1>14. RemovesAgree(undo)' /\ ForeignAgree'
  BY <1>1 DEF LostInv, NamesInv, RemovesAgree, ForeignAgree, Agrees
<1>15. OffersAgree'
  <2>1. sessions[c] \in Session
    BY <1>4, SideType
  <2>2. \A d \in Chars : sessions'[d].offered = sessions[d].offered
    BY <1>1, <2>1 DEF TypeOK, Session
  <2> QED BY <1>1, <2>2 DEF LostInv, NamesInv, OffersAgree, Agrees
<1> QED BY <1>6, <1>8, <1>13, <1>14, <1>15 DEF LostInv, NamesInv

\* Operations that leave the bags alone.
LEMMA VerifyStep ==
    ASSUME TypeOK, LostInv, ExecVerify \/ ExecZeny
    PROVE  LostInv'
<1>1. /\ Running /\ Now.op \in {"verifyZeny", "verifyBag", "deduct", "credit"}
      /\ UNCHANGED <<sessions, rows, nextId, foreign, spent, faults>>
  BY DEF ExecVerify, ExecZeny, dbVars, envVars
<1>2. Now \in Ops
  BY <1>1 DEF Running, Now, TypeOK
<1>3. \A n : Gain(Now, n) = 0
  BY <1>1, <1>2, GainType
<1>4. PICK u : /\ u \in Seq(Ops) /\ Done(u)
               /\ \A n \in Names : Total(u, n) = 0
               /\ \A i \in DOMAIN u : u[i].op # "remove"
  <2>1. CASE ExecVerify
    <3>1. Done(<<>>) /\ <<>> \in Seq(Ops) /\ \A i \in DOMAIN <<>> : FALSE
      BY <2>1 DEF ExecVerify
    <3> QED BY <3>1, TotalEmpty
  <2>2. CASE ExecZeny
    <3>1. PICK o : o = Op(IF Now.op = "deduct" THEN "credit" ELSE "deduct", Now.char, 0, Nobody, Now.amount)
      OBVIOUS
    <3>2. Now.char \in Chars /\ Now.amount \in Stakes
      BY <1>2, <2>2 DEF ExecZeny, Ops
    <3>3. o \in Ops /\ o.op \in {"credit", "deduct"}
      BY <3>1, <3>2 DEF Op, Ops
    <3>4. Done(<<o>>)
      BY <2>2, <3>1 DEF ExecZeny
    <3>5. <<o>> \in Seq(Ops) /\ \A n : Total(<<o>>, n) = 0
      BY <3>3, TotalOne, GainType
    <3>6. \A i \in DOMAIN <<o>> : <<o>>[i].op # "remove"
      BY <3>3
    <3> QED BY <3>4, <3>5, <3>6
  <2> QED BY <2>1, <2>2
<1>5. /\ Balanced'
      /\ \A n \in Names : Total(Pending, n) \in Int /\ Total(Pending', n) = Total(Pending, n) - 0
  <2>1. \A n \in Names : Total(u, n) = -Gain(Now, n)
    BY <1>3, <1>4
  <2> QED BY <1>1, <1>3, <1>4, <2>1, DoneTotal DEF LostInv
<1>6. FloorInv'
  <2>1. \A n \in Names : /\ Total(Pending, n) \in Int /\ Total(Pending', n) \in Int
                         /\ Total(Pending', n) >= Total(Pending, n)
    BY <1>5
  <2>2. loaded' = NotLoaded
    BY <1>4 DEF Done
  <2> QED BY <1>1, <2>1, <2>2, FloorKept DEF LostInv
<1>7. NamesInv'
  <2>1. /\ \A i \in DOMAIN prog' : \E j \in DOMAIN prog : prog'[i] = prog[j]
        /\ \A i \in DOMAIN undo' : \/ \E j \in DOMAIN undo : undo'[i] = undo[j]
                                   \/ \E j \in DOMAIN u : undo'[i] = u[j]
    BY <1>1, <1>4, DoneElements
  <2>2. \A i \in DOMAIN undo' : undo'[i].op = "remove" => \E j \in DOMAIN undo : undo'[i] = undo[j]
    BY <1>4, <2>1
  <2>3. nextId' \in Nat /\ nextId' >= nextId /\ \A i \in DOMAIN rows' : i \in Nat /\ i \in DOMAIN rows /\ rows'[i] = rows[i]
    BY <1>1, RowsType
  <2> QED BY <1>1, <2>1, <2>2, <2>3, NamesKept DEF LostInv
<1> QED BY <1>5, <1>6, <1>7 DEF LostInv

LEMMA RemoveLoadStep ==
    ASSUME TypeOK, LostInv, ExecRemoveLoad
    PROVE  LostInv'
<1>1. /\ Running /\ Now.op = "remove" /\ loaded = NotLoaded /\ NowOk
      /\ loaded' = rows[Now.id].amount
      /\ UNCHANGED <<sessions, rows, nextId, prog, undo, rolling, foreign, spent, faults>>
  BY DEF ExecRemoveLoad, dbVars, envVars
<1>2. Now.id \in DOMAIN rows
  BY <1>1 DEF NowOk, RemoveOk
<1>3. Balanced' /\ Pending' = Pending /\ Now' = Now
  BY <1>1 DEF LostInv, Balanced, Pending, Now
<1>4. \A n \in Names : Total(Pending, n) \in Int
  <2>1. Pending \in Seq(Ops)
    BY DEF Pending, TypeOK
  <2> QED BY <2>1, TotalJoin
<1>5. FloorInv'
  BY <1>1, <1>2, <1>3, <1>4, FloorKept DEF LostInv
<1>6. NamesInv'
  BY <1>1 DEF LostInv, NamesInv, OffersAgree, RemovesAgree, ForeignAgree, Agrees
<1> QED BY <1>3, <1>5, <1>6 DEF LostInv

\* A refused compensation can only be a removal, or a zeny movement: what it does
\* not take is one more.
LEMMA FailedStep ==
    ASSUME TypeOK, LostInv, ExecRefused \/ ExecFault
    PROVE  LostInv'
<1>1. /\ Running /\ Failed
      /\ UNCHANGED <<sessions, rows, nextId, foreign, spent>>
  BY DEF ExecRefused, ExecFault, dbVars, envVars
<1>2. Now \in Ops /\ rolling \in BOOLEAN
  BY <1>1 DEF Running, Now, TypeOK
<1>3. /\ Balanced'
      /\ \A n \in Names :
           /\ Total(Pending, n) \in Int /\ Gain(Now, n) \in Int
           /\ Total(Pending', n) = IF rolling THEN Total(Pending, n) - Gain(Now, n)
                                   ELSE Total(Pending, n)
  BY <1>1, FailedTotal DEF LostInv
<1>4. loaded' = NotLoaded
  BY <1>1 DEF Failed
<1>5. faults.prog \in Nat /\ faults.undo \in Nat /\ faults \in [prog : Nat, undo : Nat]
  BY DEF TypeOK
<1>6. FloorInv'
  <2>1. CASE ExecFault /\ rolling
    <3>1. faults'.undo = faults.undo + 1
      BY <1>5, <2>1 DEF ExecFault
    <3>2. faults'.undo # 0
      BY <1>5, <3>1
    <3> QED BY <3>2 DEF FloorInv
  <2>2. CASE ~rolling
    <3>1. faults'.undo = faults.undo
      BY <1>5, <2>2 DEF ExecRefused, ExecFault
    <3>2. \A n \in Names : /\ Total(Pending, n) \in Int /\ Total(Pending', n) \in Int
                           /\ Total(Pending', n) >= Total(Pending, n)
      BY <1>3, <2>2
    <3> QED BY <1>1, <1>4, <3>1, <3>2, FloorKept DEF LostInv
  <2>3. CASE ExecRefused /\ rolling
    <3>1. faults' = faults /\ ~NowOk
      BY <2>3 DEF ExecRefused
    <3>2. Now.op # "add"
      BY <3>1, Zenon DEF NowOk
    <3>3. \A n \in Names : Gain(Now, n) <= 0
      <4>1. Now.amount \in Nat
        BY <1>2, OpFields
      <4> QED BY <1>2, <3>2, <4>1, GainType
    <3>4. \A n \in Names : /\ Total(Pending, n) \in Int /\ Total(Pending', n) \in Int
                           /\ Total(Pending', n) >= Total(Pending, n)
      BY <1>3, <2>3, <3>3
    <3> QED BY <1>1, <1>4, <3>1, <3>4, FloorKept DEF LostInv
  <2> QED BY <1>2, <2>1, <2>2, <2>3
<1>7. NamesInv'
  <2>1. /\ \A i \in DOMAIN prog' : \/ \E j \in DOMAIN prog : prog'[i] = prog[j]
                                   \/ \E j \in DOMAIN undo : prog'[i] = undo[j]
        /\ undo' = <<>>
    BY <1>1, FailedElements
  <2>2. \A i \in DOMAIN undo' : undo'[i].op = "remove" => \E j \in DOMAIN undo : undo'[i] = undo[j]
    BY <2>1
  <2>3. nextId' \in Nat /\ nextId' >= nextId /\ \A i \in DOMAIN rows' : i \in Nat /\ i \in DOMAIN rows /\ rows'[i] = rows[i]
    BY <1>1, RowsType
  <2> QED BY <1>1, <2>1, <2>2, <2>3, NamesKept DEF LostInv
<1> QED BY <1>3, <1>6, <1>7 DEF LostInv

LEMMA FinishStep ==
    ASSUME TypeOK, LostInv, Finish
    PROVE  LostInv'
<1>1. /\ pair # <<>> /\ prog = <<>> /\ prog' = <<>> /\ undo' = <<>> /\ ~rolling'
      /\ TearDown(pair[1], pair[2])
      /\ UNCHANGED <<rows, nextId, loaded, foreign, spent, faults>>
  BY DEF Finish, dbVars, envVars
<1>2. Balanced'
  BY <1>1 DEF Balanced
<1>3. Pending' = <<>>
  BY <1>1 DEF Pending
<1>4. \A n \in Names : Total(Pending, n) = 0
  <2>1. CASE rolling
    BY <1>1, <2>1, TotalEmpty DEF Pending
  <2>2. CASE ~rolling
    <3>1. \A n \in Names : Total(undo, n) = Total(prog, n)
      BY <2>2 DEF LostInv, Balanced
    <3> QED BY <1>1, <2>2, <3>1, TotalEmpty DEF Pending
  <2> QED BY <2>1, <2>2
<1>5. loaded' = NotLoaded
  BY <1>1 DEF TypeOK
<1>6. FloorInv'
  <2>1. \A n \in Names : /\ Total(Pending, n) \in Int /\ Total(Pending', n) \in Int
                         /\ Total(Pending', n) >= Total(Pending, n)
    BY <1>3, <1>4, TotalEmpty
  <2> QED BY <1>1, <1>5, <2>1, FloorKept DEF LostInv
<1>7. NamesInv'
  <2>1. \A c \in Chars : sessions'[c].offered \in {sessions[c].offered, <<>>}
    BY <1>1 DEF TearDown, NoSession, TypeOK
  <2>2. nextId' \in Nat /\ nextId' >= nextId /\ \A i \in DOMAIN rows' : i \in Nat /\ i \in DOMAIN rows /\ rows'[i] = rows[i]
    BY <1>1, RowsType
  <2>3. DOMAIN prog' = {} /\ DOMAIN undo' = {}
    BY <1>1
  <2> QED BY <1>1, <2>1, <2>2, <2>3, NamesKept DEF LostInv
<1> QED BY <1>2, <1>6, <1>7 DEF LostInv

\* The second statement of a removal, in conclude or elsewhere: what it takes from
\* the bags is owed by the undos, or is out of them.
Taken(id, l, k, m) ==
    /\ l \in Nat /\ k \in Nat /\ l >= k
    /\ rows' = RemoveWrite(rows, id, l, k)
    /\ \A t : Floor(t) /\ id \in DOMAIN rows => t[id].amount <= l
    /\ id \in DOMAIN rows => rows[id].name = m
    /\ faults'.undo = 0 => faults.undo = 0
    /\ \A g \in Others : foreign'[g] \in {foreign[g], Idle}
    /\ loaded' # NotLoaded => loaded' = loaded /\ Now' = Now
    /\ \A n \in Names : /\ Total(Pending, n) \in Int /\ Total(Pending', n) \in Int
                         /\ spent[n] \in Int /\ spent'[n] \in Int
                         /\ spent'[n] + Total(Pending', n)
                              = spent[n] + Total(Pending, n) + (IF n = m THEN k ELSE 0)

LEMMA TakenStep ==
    ASSUME TypeOK, FloorInv, NEW id, NEW l, NEW k, NEW m, Taken(id, l, k, m)
    PROVE  FloorInv'
<1> USE DEF Taken
<1> SUFFICES ASSUME faults'.undo = 0 PROVE \E t : Floor(t)' /\ Backed(t)'
  BY DEF FloorInv
<1>1. PICK t : Floor(t) /\ Backed(t)
  BY DEF FloorInv
<1>2. PICK r, u : r = rows /\ u = rows'
  OBVIOUS
<1>3. /\ IsFiniteSet(DOMAIN r) /\ u = RemoveWrite(r, id, l, k)
      /\ \A i \in DOMAIN r : /\ r[i] \in Row /\ t[i].name = r[i].name
                             /\ t[i].amount \in Nat /\ t[i].amount <= r[i].amount
      /\ id \in DOMAIN r => t[id].amount <= l /\ r[id].name = m
  BY <1>1, <1>2, RowsType DEF Floor
<1>4. PICK v :
         /\ \A i \in DOMAIN u : /\ i \in DOMAIN r /\ u[i].name = r[i].name
                                /\ v[i].name = u[i].name /\ v[i].amount \in Nat
                                /\ v[i].amount <= u[i].amount /\ v[i].amount <= t[i].amount
         /\ \A n : /\ UnitsIn(v, DOMAIN u, n) \in Int /\ UnitsIn(t, DOMAIN r, n) \in Int
                   /\ UnitsIn(v, DOMAIN u, n) + (IF n = m THEN k ELSE 0) >= UnitsIn(t, DOMAIN r, n)
  <2>1. Takes(r, u, t, id, l, k, m)
    BY <1>3 DEF Takes
  <2>2. PICK v : Leaves(r, u, t, v, k, m)
    BY <2>1, TakeOut, Zenon
  <2> QED BY <2>2, Zenon DEF Leaves
<1>5. ASSUME NEW g \in Others, foreign'[g] # Idle, foreign'[g].id \in DOMAIN rows'
      PROVE  v[foreign'[g].id].amount <= foreign'[g].loaded
  <2>1. foreign'[g] = foreign[g] /\ foreign[g] \in Removals
    BY <1>5 DEF TypeOK
  <2>2. PICK o : o = foreign[g]
    OBVIOUS
  <2>3. o.id \in DOMAIN u /\ o.loaded \in Nat
    BY <1>2, <1>5, <2>1, <2>2 DEF Removals
  <2>4. v[o.id].amount \in Nat /\ v[o.id].amount <= t[o.id].amount /\ o.id \in DOMAIN r /\ t[o.id].amount \in Nat
    BY <1>3, <1>4, <2>3
  <2>5. t[o.id].amount <= o.loaded
    BY <1>1, <1>2, <1>5, <2>1, <2>2, <2>4 DEF Floor
  <2> QED BY <2>1, <2>2, <2>3, <2>4, <2>5
<1>6. ASSUME loaded' # NotLoaded, Now'.id \in DOMAIN rows' PROVE v[Now'.id].amount <= loaded'
  <2>1. loaded' = loaded /\ Now' = Now /\ loaded \in Nat
    BY <1>6 DEF TypeOK
  <2>2. PICK o : o = Now
    OBVIOUS
  <2>3. o.id \in DOMAIN u
    BY <1>2, <1>6, <2>1, <2>2
  <2>4. v[o.id].amount \in Nat /\ v[o.id].amount <= t[o.id].amount /\ o.id \in DOMAIN r /\ t[o.id].amount \in Nat
    BY <1>3, <1>4, <2>3
  <2>5. t[o.id].amount <= loaded
    BY <1>1, <1>2, <1>6, <2>1, <2>2, <2>4 DEF Floor
  <2> QED BY <2>1, <2>2, <2>4, <2>5
<1>7. Floor(v)'
  BY <1>2, <1>4, <1>5, <1>6 DEF Floor
<1>8. ASSUME NEW n \in Names
      PROVE  UnitsIn(v, DOMAIN rows', n) + spent'[n] + Total(Pending', n)
                >= UnitsIn(StartRows, DOMAIN StartRows, n)
  <2>1. PICK a, b, x, p, q, y, z, e :
            /\ a = UnitsIn(t, DOMAIN r, n) /\ b = UnitsIn(v, DOMAIN u, n)
            /\ x = UnitsIn(StartRows, DOMAIN StartRows, n)
            /\ p = Total(Pending, n) /\ q = Total(Pending', n)
            /\ y = spent[n] /\ z = spent'[n] /\ e = IF n = m THEN k ELSE 0
    OBVIOUS
  <2>2. a + y + p >= x
    BY <1>1, <1>2, <2>1 DEF Backed
  <2>3. a \in Int /\ b \in Int /\ b + e >= a
    BY <1>4, <2>1
  <2>4. x \in Int /\ e \in Int
    BY <2>1, StartUnits
  <2>5. p \in Int /\ q \in Int /\ y \in Int /\ z \in Int /\ z + q = y + p + e
    BY <2>1
  <2>6. b + z + q >= x
    BY <2>2, <2>3, <2>4, <2>5
  <2> QED BY <1>2, <2>1, <2>6
<1>9. Backed(v)'
  BY <1>8 DEF Backed
<1> QED BY <1>7, <1>9

LEMMA RemovedNames ==
    ASSUME TypeOK, NEW id, NEW l \in Nat, NEW k \in Nat, rows' = RemoveWrite(rows, id, l, k)
    PROVE  \A i \in DOMAIN rows' : i \in Nat /\ i \in DOMAIN rows /\ rows'[i].name = rows[i].name
<1>1. \A i \in DOMAIN rows : i \in Nat /\ rows[i] \in Row
  BY RowsType
<1>2. CASE l = k
  BY <1>1, <1>2 DEF RemoveWrite
<1>3. CASE l # k
  BY <1>1, <1>3 DEF RemoveWrite, Row
<1> QED BY <1>2, <1>3

LEMMA RemoveWriteStep ==
    ASSUME TypeOK, LostInv, ExecRemoveWrite
    PROVE  LostInv'
<1>1. PICK o, u : o = Now /\ u = <<Op("add", o.char, 0, o.name, o.amount)>>
  OBVIOUS
<1>2. /\ Running /\ o.op = "remove" /\ loaded # NotLoaded
      /\ rows' = RemoveWrite(rows, o.id, loaded, o.amount) /\ Done(u)
      /\ UNCHANGED <<sessions, nextId, foreign, spent, faults>>
  BY <1>1 DEF ExecRemoveWrite, envVars
<1>3. /\ o \in Ops /\ o.name \in Names /\ o.amount \in Stakes /\ o.amount \in Nat /\ o.char \in Chars /\ o.id \in Nat
      /\ loaded \in Nat /\ loaded >= o.amount
  <2>1. o \in Ops /\ loaded \in Nat /\ loaded >= o.amount
    BY <1>1, <1>2 DEF Running, Now, TypeOK
  <2> QED BY <1>2, <2>1, OpFields
<1>4. PICK w : w = Op("add", o.char, 0, o.name, o.amount)
  OBVIOUS
<1>5. w \in Ops /\ w.op = "add" /\ w.name = o.name /\ w.amount = o.amount /\ u = <<w>>
  BY <1>1, <1>3, <1>4 DEF Op, Ops
<1>6. u \in Seq(Ops) /\ \A n \in Names : Total(u, n) = -Gain(o, n)
  <2>1. u \in Seq(Ops) /\ \A n : Total(u, n) = Gain(w, n)
    BY <1>5, TotalOne
  <2>2. \A n : Gain(w, n) = -Gain(o, n)
    BY <1>2, <1>3, <1>5, GainType
  <2> QED BY <2>1, <2>2
<1>7. /\ Balanced'
      /\ \A n \in Names : /\ Total(Pending, n) \in Int /\ Gain(o, n) \in Int
                          /\ Total(Pending', n) = Total(Pending, n) - Gain(o, n)
  BY <1>1, <1>2, <1>6, DoneTotal DEF LostInv
<1>8. PICK i \in DOMAIN prog : prog[i] = o
  <2>1. prog \in Seq(Ops) /\ prog # <<>> /\ o = Head(prog)
    BY <1>1, <1>2 DEF Running, Now, TypeOK
  <2>2. 1 \in DOMAIN prog /\ prog[1] = o
    BY <2>1
  <2> QED BY <2>2
<1>9. Agrees(o.id, o.name)
  BY <1>2, <1>8 DEF LostInv, NamesInv, RemovesAgree
<1>10. FloorInv'
  <2>1. \A t : Floor(t) /\ o.id \in DOMAIN rows => t[o.id].amount <= loaded
    BY <1>1, <1>2 DEF Floor
  <2>2. o.id \in DOMAIN rows => rows[o.id].name = o.name
    BY <1>9 DEF Agrees
  <2>3. \A n \in Names : /\ Total(Pending, n) \in Int /\ Total(Pending', n) \in Int
                         /\ spent[n] \in Int /\ spent'[n] \in Int
                         /\ spent'[n] + Total(Pending', n)
                              = spent[n] + Total(Pending, n) + (IF n = o.name THEN o.amount ELSE 0)
    <3> SUFFICES ASSUME NEW n \in Names
                 PROVE  /\ Total(Pending, n) \in Int /\ Total(Pending', n) \in Int
                        /\ spent[n] \in Int /\ spent'[n] \in Int
                        /\ spent'[n] + Total(Pending', n)
                             = spent[n] + Total(Pending, n) + (IF n = o.name THEN o.amount ELSE 0)
      OBVIOUS
    <3>1. Gain(o, n) = IF o.name = n THEN -o.amount ELSE 0
      BY <1>2, <1>3, GainType
    <3>2. spent[n] \in Int /\ spent'[n] = spent[n]
      BY <1>2 DEF TypeOK
    <3> QED BY <1>3, <1>7, <3>1, <3>2
  <2>4. loaded' = NotLoaded
    BY <1>2 DEF Done
  <2>5. /\ \A g \in Others : foreign'[g] \in {foreign[g], Idle}
        /\ faults'.undo = 0 => faults.undo = 0
        /\ FloorInv
    BY <1>2 DEF LostInv
  <2>6. PICK id, l, k, m : id = o.id /\ l = loaded /\ k = o.amount /\ m = o.name
    OBVIOUS
  <2>7. l \in Nat /\ k \in Nat /\ l >= k /\ rows' = RemoveWrite(rows, id, l, k)
    BY <1>2, <1>3, <2>6
  <2>8. /\ \A t : Floor(t) /\ id \in DOMAIN rows => t[id].amount <= l
        /\ id \in DOMAIN rows => rows[id].name = m
    BY <2>1, <2>2, <2>6
  <2>9. \A n \in Names : /\ Total(Pending, n) \in Int /\ Total(Pending', n) \in Int
                         /\ spent[n] \in Int /\ spent'[n] \in Int
                         /\ spent'[n] + Total(Pending', n)
                              = spent[n] + Total(Pending, n) + (IF n = m THEN k ELSE 0)
    BY <2>3, <2>6
  <2>10. Taken(id, l, k, m)
    BY <2>4, <2>5, <2>7, <2>8, <2>9 DEF Taken
  <2> QED BY <2>5, <2>10, TakenStep
<1>11. NamesInv'
  <2>1. /\ \A j \in DOMAIN prog' : \E h \in DOMAIN prog : prog'[j] = prog[h]
        /\ \A j \in DOMAIN undo' : \/ \E h \in DOMAIN undo : undo'[j] = undo[h]
                                   \/ \E h \in DOMAIN u : undo'[j] = u[h]
    BY <1>2, <1>6, DoneElements
  <2>2. \A h \in DOMAIN u : u[h].op = "add"
    BY <1>5
  <2>3. \A j \in DOMAIN undo' : undo'[j].op = "remove" => \E h \in DOMAIN undo : undo'[j] = undo[h]
    BY <2>1, <2>2
  <2>4. nextId' \in Nat /\ nextId' >= nextId /\ \A j \in DOMAIN rows' : j \in Nat /\ j \in DOMAIN rows /\ rows'[j].name = rows[j].name
    BY <1>2, <1>3, RowsType, RemovedNames
  <2> QED BY <1>2, <2>1, <2>3, <2>4, NamesKept DEF LostInv
<1> QED BY <1>7, <1>10, <1>11 DEF LostInv

LEMMA ForeignWriteStep ==
    ASSUME TypeOK, LostInv, NEW g \in Others, ForeignWrite(g)
    PROVE  LostInv'
<1>1. PICK o : o = foreign[g]
  OBVIOUS
<1>2. /\ o # Idle /\ rows' = RemoveWrite(rows, o.id, o.loaded, o.amount)
      /\ foreign' = [foreign EXCEPT ![g] = Idle]
      /\ spent' = [spent EXCEPT ![o.name] = spent[o.name] + o.amount]
      /\ UNCHANGED <<sessions, nextId, prog, undo, rolling, loaded, faults>>
  BY <1>1 DEF ForeignWrite, jobVars
<1>3. /\ o.name \in Names /\ o.amount \in Nat /\ o.loaded \in Nat /\ o.loaded >= o.amount /\ o.id \in Nat
      /\ Agrees(o.id, o.name)
  <2>1. o \in Removals /\ o.loaded >= o.amount
    BY <1>1, <1>2 DEF TypeOK
  <2>2. Agrees(o.id, o.name)
    BY <1>1, <1>2 DEF LostInv, NamesInv, ForeignAgree
  <2> QED BY <2>1, <2>2, StakesAssumption DEF Removals
<1>4. Balanced' /\ Pending' = Pending /\ Now' = Now
  BY <1>2 DEF LostInv, Balanced, Pending, Now
<1>5. \A h \in Others : foreign'[h] \in {foreign[h], Idle}
  BY <1>2 DEF TypeOK
<1>6. FloorInv'
  <2>1. \A t : Floor(t) /\ o.id \in DOMAIN rows => t[o.id].amount <= o.loaded
    BY <1>1, <1>2 DEF Floor
  <2>2. o.id \in DOMAIN rows => rows[o.id].name = o.name
    BY <1>3 DEF Agrees
  <2>3. ASSUME NEW n \in Names
        PROVE  /\ Total(Pending, n) \in Int /\ Total(Pending', n) \in Int
               /\ spent[n] \in Int /\ spent'[n] \in Int
               /\ spent'[n] + Total(Pending', n)
                    = spent[n] + Total(Pending, n) + (IF n = o.name THEN o.amount ELSE 0)
    <3>1. Pending \in Seq(Ops)
      BY DEF Pending, TypeOK
    <3>2. Total(Pending, n) \in Int /\ Total(Pending', n) = Total(Pending, n)
      BY <1>4, <3>1, TotalJoin
    <3>3. spent[n] \in Int /\ spent'[n] = spent[n] + (IF n = o.name THEN o.amount ELSE 0)
      BY <1>2, <1>3 DEF TypeOK
    <3>4. (IF n = o.name THEN o.amount ELSE 0) \in Int
      BY <1>3
    <3> QED BY <3>2, <3>3, <3>4
  <2>4. loaded' # NotLoaded => loaded' = loaded /\ Now' = Now
    BY <1>2, <1>4
  <2>5. FloorInv /\ (faults'.undo = 0 => faults.undo = 0)
    BY <1>2 DEF LostInv
  <2>6. PICK id, l, k, m : id = o.id /\ l = o.loaded /\ k = o.amount /\ m = o.name
    OBVIOUS
  <2>7. l \in Nat /\ k \in Nat /\ l >= k /\ rows' = RemoveWrite(rows, id, l, k)
    BY <1>2, <1>3, <2>6
  <2>8. /\ \A t : Floor(t) /\ id \in DOMAIN rows => t[id].amount <= l
        /\ id \in DOMAIN rows => rows[id].name = m
    BY <2>1, <2>2, <2>6
  <2>9. \A n \in Names : /\ Total(Pending, n) \in Int /\ Total(Pending', n) \in Int
                         /\ spent[n] \in Int /\ spent'[n] \in Int
                         /\ spent'[n] + Total(Pending', n)
                              = spent[n] + Total(Pending, n) + (IF n = m THEN k ELSE 0)
    BY <2>3, <2>6
  <2>10. Taken(id, l, k, m)
    BY <1>5, <2>4, <2>5, <2>7, <2>8, <2>9 DEF Taken
  <2> QED BY <2>5, <2>10, TakenStep
<1>7. NamesInv'
  <2>1. nextId' \in Nat /\ nextId' >= nextId /\ \A j \in DOMAIN rows' : j \in Nat /\ j \in DOMAIN rows /\ rows'[j].name = rows[j].name
    <3>1. nextId' \in Nat /\ nextId' >= nextId
      BY <1>2, RowsType
    <3>2. \A j \in DOMAIN rows' : j \in Nat /\ j \in DOMAIN rows /\ rows'[j].name = rows[j].name
      BY <1>2, <1>3, RemovedNames
    <3> QED BY <3>1, <3>2
  <2> QED BY <1>2, <1>5, <2>1, NamesKept DEF LostInv
<1> QED BY <1>4, <1>6, <1>7 DEF LostInv

\* A row that is added holds what the undos owe less, or the program brings.
LEMMA AddStep ==
    ASSUME TypeOK, LostInv, ExecAdd
    PROVE  LostInv'
<1>1. PICK o, u, x : o = Now /\ x = nextId /\ u = <<Op("remove", o.char, x, o.name, o.amount)>>
  OBVIOUS
<1>2. /\ Running /\ o.op = "add" /\ rows' = AddRow(rows, x, o.char, o.name, o.amount)
      /\ nextId' = x + 1 /\ Done(u)
      /\ UNCHANGED <<sessions, foreign, spent, faults>>
  BY <1>1 DEF ExecAdd, envVars
<1>3. o \in Ops /\ o.name \in Names /\ o.amount \in Stakes /\ o.amount \in Nat /\ o.char \in Chars /\ x \in Nat
  <2>1. o \in Ops
    BY <1>1, <1>2 DEF Running, Now, TypeOK
  <2> QED BY <1>1, <1>2, <2>1, OpFields, RowsType
<1>4. PICK w : w = Op("remove", o.char, x, o.name, o.amount)
  OBVIOUS
<1>5. w \in Ops /\ w.op = "remove" /\ w.id = x /\ w.name = o.name /\ w.amount = o.amount /\ u = <<w>>
  BY <1>1, <1>3, <1>4 DEF Op, Ops
<1>6. u \in Seq(Ops) /\ \A n \in Names : Total(u, n) = -Gain(o, n)
  <2>1. u \in Seq(Ops) /\ \A n : Total(u, n) = Gain(w, n)
    BY <1>5, TotalOne
  <2>2. \A n : Gain(w, n) = -Gain(o, n)
    BY <1>2, <1>3, <1>5, GainType
  <2> QED BY <2>1, <2>2
<1>7. /\ Balanced'
      /\ \A n \in Names : /\ Total(Pending, n) \in Int /\ Gain(o, n) \in Int
                          /\ Total(Pending', n) = Total(Pending, n) - Gain(o, n)
  BY <1>1, <1>2, <1>6, DoneTotal DEF LostInv
<1>8. PICK r, v : r = rows /\ v = rows'
  OBVIOUS
<1>9. /\ IsFiniteSet(DOMAIN r) /\ x \notin DOMAIN r /\ DOMAIN v = DOMAIN r \cup {x}
      /\ \A i \in DOMAIN r : i \in Nat /\ i < x /\ v[i] = r[i]
      /\ v[x].name = o.name /\ v[x].amount = o.amount
  BY <1>1, <1>2, <1>3, <1>8, RowsType DEF AddRow
<1>10. ASSUME faults'.undo = 0 PROVE \E t : Floor(t)' /\ Backed(t)'
  <2>1. PICK t : Floor(t) /\ Backed(t)
    BY <1>2, <1>10 DEF LostInv, FloorInv
  <2>2. PICK s : s = [i \in DOMAIN v |-> IF i = x THEN [name |-> o.name, amount |-> o.amount] ELSE t[i]]
    OBVIOUS
  <2>3. /\ s[x].name = o.name /\ s[x].amount = o.amount
        /\ \A i \in DOMAIN r : s[i] = t[i]
    BY <1>9, <2>2
  <2>4. \A i \in DOMAIN r : t[i].name = r[i].name /\ t[i].amount \in Nat /\ t[i].amount <= r[i].amount
    BY <1>8, <2>1 DEF Floor
  <2>5. ASSUME NEW i \in DOMAIN v
        PROVE  s[i].name = v[i].name /\ s[i].amount \in Nat /\ s[i].amount <= v[i].amount
    <3>1. CASE i = x
      BY <1>3, <1>9, <2>3, <3>1
    <3>2. CASE i # x
      BY <1>9, <2>3, <2>4, <3>2
    <3> QED BY <3>1, <3>2
  <2>6. ASSUME NEW g \in Others, foreign'[g] # Idle, foreign'[g].id \in DOMAIN rows'
        PROVE  s[foreign'[g].id].amount <= foreign'[g].loaded
    <3>1. PICK f : f = foreign[g]
      OBVIOUS
    <3>2. f # Idle /\ f.id \in DOMAIN v /\ foreign'[g] = f
      BY <1>2, <1>8, <2>6, <3>1
    <3>3. f.id < x
      BY <1>1, <3>1, <3>2 DEF LostInv, NamesInv, ForeignAgree, Agrees
    <3>4. f.id \in DOMAIN r
      BY <1>3, <1>9, <3>2, <3>3
    <3>5. t[f.id].amount <= f.loaded
      BY <1>8, <2>1, <3>1, <3>2, <3>4 DEF Floor
    <3> QED BY <2>3, <3>2, <3>4, <3>5
  <2>7. loaded' = NotLoaded
    BY <1>2 DEF Done
  <2>8. Floor(s)'
    BY <1>8, <2>5, <2>6, <2>7 DEF Floor
  <2>9. ASSUME NEW n \in Names
        PROVE  UnitsIn(s, DOMAIN rows', n) + spent'[n] + Total(Pending', n)
                  >= UnitsIn(StartRows, DOMAIN StartRows, n)
    <3>1. PICK A, B : A = DOMAIN r /\ B = DOMAIN v
      OBVIOUS
    <3>2. /\ IsFiniteSet(A) /\ B \ {x} = A \ {x}
          /\ \A i \in A : t[i].amount \in Int
          /\ \A i \in B : s[i].amount \in Int
          /\ \A i \in A \ {x} : s[i].name = t[i].name /\ s[i].amount = t[i].amount
      BY <1>9, <2>3, <2>4, <2>5, <3>1
    <3>3. /\ UnitsIn(t, A, n) \in Int /\ UnitsIn(s, B, n) \in Int
          /\ UnitsIn(s, B, n) = UnitsIn(t, A, n) - Part(t, A, n, x) + Part(s, B, n, x)
      <4>1. UnitsIn(t, A, n) \in Int
        BY <3>2, UnitsShift
      <4>2. UnitsIn(s, B, n) \in Int
        <5>1. IsFiniteSet(A \cup {x}) /\ B \subseteq A \cup {x}
          BY <3>2, FS_AddElement
        <5>2. IsFiniteSet(B)
          BY <5>1, FS_Subset
        <5>3. \A i \in B : s[i].amount \in Nat
          BY <2>5, <3>1
        <5> QED BY <5>2, <5>3, UnitsType
      <4>3. UnitsIn(s, B, n) = UnitsIn(t, A, n) - Part(t, A, n, x) + Part(s, B, n, x)
        BY <3>2, UnitsShift
      <4> QED BY <4>1, <4>2, <4>3
    <3>4. Part(t, A, n, x) = 0 /\ Part(s, B, n, x) = IF o.name = n THEN o.amount ELSE 0
      BY <1>9, <2>3, <3>1 DEF Part
    <3>5. Gain(o, n) = IF o.name = n THEN o.amount ELSE 0
      BY <1>2, <1>3, GainType
    <3>6. PICK a, b, z, p, q, y, e :
              /\ a = UnitsIn(t, A, n) /\ b = UnitsIn(s, B, n)
              /\ z = UnitsIn(StartRows, DOMAIN StartRows, n)
              /\ p = Total(Pending, n) /\ q = Total(Pending', n)
              /\ y = spent[n] /\ e = Gain(o, n)
      OBVIOUS
    <3>7. a + y + p >= z
      BY <1>8, <2>1, <3>1, <3>6 DEF Backed
    <3>8. a \in Int /\ e \in Int /\ b = a - 0 + e
      BY <1>7, <3>3, <3>4, <3>5, <3>6
    <3>9. y \in Int /\ z \in Int /\ p \in Int /\ q = p - e
      BY <1>7, <3>6, StartUnits DEF TypeOK
    <3>10. b + y + q >= z
      BY <3>7, <3>8, <3>9
    <3>11. DOMAIN rows' = B /\ spent' = spent
      BY <1>2, <1>8, <3>1
    <3> QED BY <3>6, <3>10, <3>11
  <2>10. Backed(s)'
    BY <2>9 DEF Backed
  <2> QED BY <2>8, <2>10
<1>11. FloorInv'
  BY <1>10 DEF FloorInv
<1>12. NamesInv'
  <2>1. /\ \A j \in DOMAIN prog' : \E h \in DOMAIN prog : prog'[j] = prog[h]
        /\ \A j \in DOMAIN undo' : \/ \E h \in DOMAIN undo : undo'[j] = undo[h]
                                   \/ \E h \in DOMAIN u : undo'[j] = u[h]
    BY <1>2, <1>6, DoneElements
  <2>2. \A h \in DOMAIN u : u[h].id = x /\ u[h].name = o.name
    BY <1>5
  <2>3. \A j \in DOMAIN undo' : undo'[j].op = "remove" =>
            \/ \E h \in DOMAIN undo : undo'[j] = undo[h]
            \/ undo'[j].id = nextId /\ nextId < nextId' /\ rows'[nextId].name = undo'[j].name
    <3>1. nextId < nextId' /\ nextId = x /\ rows'[nextId].name = o.name
      BY <1>1, <1>2, <1>3, <1>8, <1>9
    <3> QED BY <2>1, <2>2, <3>1
  <2>4. /\ nextId' \in Nat /\ nextId' >= nextId
        /\ \A j \in DOMAIN rows' : j \in Nat /\ (j < nextId => j \in DOMAIN rows /\ rows'[j].name = rows[j].name)
    BY <1>1, <1>2, <1>3, <1>8, <1>9
  <2> QED BY <1>2, <2>1, <2>3, <2>4, NamesKept DEF LostInv
<1> QED BY <1>7, <1>11, <1>12 DEF LostInv

\* The bags of all characters are the table.
LEMMA UnitsWhole ==
    ASSUME NEW table, NEW n, IsFiniteSet(DOMAIN table), \A i \in DOMAIN table : table[i] \in Row
    PROVE  Units(table, n) = UnitsIn(table, DOMAIN table, n)
<1>1. PICK A : A = DOMAIN table
  OBVIOUS
<1>2. \A i \in A : table[i].amount \in Nat /\ table[i].owner \in Chars
  BY <1>1 DEF Row
<1>3. SumOver(Shares(table, A, Chars, n), Chars) = UnitsIn(table, A, n)
  BY <1>1, <1>2, CharsAssumption, UnitsSplit
<1>4. Shares(table, A, Chars, n) = [c \in Chars |-> Held(table, c, n)]
  BY <1>1 DEF Shares, Held, Owned
<1> QED BY <1>1, <1>3, <1>4 DEF Units

LEMMA LostInit == Init => LostInv
<1> SUFFICES ASSUME Init PROVE LostInv
  OBVIOUS
<1>1. /\ rows = StartRows /\ prog = <<>> /\ undo = <<>> /\ ~rolling /\ loaded = NotLoaded
      /\ sessions = [c \in Chars |-> NoSession] /\ foreign = [g \in Others |-> Idle]
      /\ spent = [n \in Names |-> 0]
  BY DEF Init
<1>2. NamesInv
  BY <1>1 DEF NamesInv, OffersAgree, RemovesAgree, ForeignAgree, NoSession
<1>3. Balanced
  BY <1>1 DEF Balanced
<1>4. Floor(StartRows)
  BY <1>1, StartUnits DEF Floor, Row
<1>5. Backed(StartRows)
  <2>1. Pending = <<>>
    BY <1>1 DEF Pending
  <2>2. \A n : Total(Pending, n) = 0 /\ UnitsIn(StartRows, DOMAIN StartRows, n) \in Nat
    BY <2>1, TotalEmpty, StartUnits
  <2> QED BY <1>1, <2>2 DEF Backed
<1> QED BY <1>2, <1>3, <1>4, <1>5 DEF LostInv, FloorInv

LEMMA LostNext == TypeOK /\ LostInv /\ [Next]_vars => LostInv'
<1> SUFFICES ASSUME TypeOK, LostInv, [Next]_vars PROVE LostInv'
  OBVIOUS
<1>1. ASSUME NEW c \in Chars,
             \/ \E t \in Chars : Request(c, t)
             \/ AckAccept(c) \/ AckReject(c) \/ Cancel(c) \/ Lock(c)
             \/ \E z \in Stakes : AddZeny(c, z)
             \/ \E m \in Maps \cup {Nobody} : Travel(c, m)
      PROVE  LostInv'
  BY <1>1, SessionStep
<1>2. ASSUME NEW c \in Chars, Conclude(c) PROVE LostInv'
  BY <1>2, ConcludeStart
<1>3. ASSUME NEW c \in Chars, NEW id \in DOMAIN rows, NEW k \in Stakes, AddItem(c, id, k) PROVE LostInv'
  BY <1>3, AddItemStep
<1>4. CASE ConcludeStep
  BY <1>4, VerifyStep, RemoveLoadStep, RemoveWriteStep, AddStep, FailedStep, FinishStep DEF ConcludeStep
<1>5. ASSUME NEW g \in Others, NEW id \in DOMAIN rows, NEW k \in Stakes, ForeignLoad(g, id, k) PROVE LostInv'
  BY <1>5, ForeignLoadStep
<1>6. ASSUME NEW g \in Others, ForeignWrite(g) PROVE LostInv'
  BY <1>6, ForeignWriteStep
<1>7. ASSUME NEW id \in DOMAIN rows, Equip(id) PROVE LostInv'
  BY <1>7, EquipStep
<1>8. CASE UNCHANGED vars
  <2>1. UNCHANGED <<sessions, rows, nextId, prog, undo, rolling, loaded, foreign, spent, faults>>
    BY <1>8 DEF vars, dbVars, jobVars, envVars
  <2> QED BY <2>1, QuietStep DEF LostInv
<1> QED BY <1>1, <1>2, <1>3, <1>4, <1>5, <1>6, <1>7, <1>8 DEF Next

\* No interleaving of a trade with the handlers that take items out of the bags
\* without its mutex, and no failure of a statement of the trade itself, loses a
\* unit: it takes a failure of an undo.
THEOREM NeverLostCorrect == Spec => []ItemsNeverLost
<1>1. TypeOK /\ LostInv => ItemsNeverLost
  <2> SUFFICES ASSUME TypeOK, LostInv, MuFree, faults.undo = 0, NEW n \in Names
               PROVE  Units(rows, n) + spent[n] >= Units(StartRows, n)
    BY DEF ItemsNeverLost
  <2>1. PICK t : Floor(t) /\ Backed(t)
    BY DEF LostInv, FloorInv
  <2>2. prog = <<>> /\ undo = <<>>
    BY DEF TypeOK
  <2>3. Total(Pending, n) = 0
    BY <2>2, TotalEmpty DEF Pending
  <2>4. PICK A : A = DOMAIN rows
    OBVIOUS
  <2>5. /\ IsFiniteSet(A) /\ \A i \in A : rows[i] \in Row
        /\ \A i \in A : t[i].name = rows[i].name /\ t[i].amount \in Nat /\ t[i].amount <= rows[i].amount
    BY <2>1, <2>4, RowsType DEF Floor
  <2>6. UnitsIn(t, A, n) <= UnitsIn(rows, A, n)
    <3>1. PICK S, f, g : /\ S = {i \in A : rows[i].name = n}
                         /\ f = [i \in A |-> t[i].amount] /\ g = [i \in A |-> rows[i].amount]
      OBVIOUS
    <3>2. IsFiniteSet(S) /\ S = {i \in A : t[i].name = n}
      <4>1. S \subseteq A /\ S = {i \in A : t[i].name = n}
        BY <2>5, <3>1
      <4> QED BY <2>5, <4>1, FS_Subset
    <3>3. \A i \in S : f[i] \in Int /\ g[i] \in Int /\ f[i] <= g[i]
      BY <2>5, <3>1 DEF Row
    <3>4. SumOver(f, S) <= SumOver(g, S)
      BY <3>2, <3>3, SumMonotone
    <3>5. UnitsIn(t, A, n) = SumOver(f, S) /\ UnitsIn(rows, A, n) = SumOver(g, S)
      BY <3>1, <3>2 DEF UnitsIn
    <3> QED BY <3>4, <3>5
  <2>7. UnitsIn(t, A, n) \in Int /\ UnitsIn(rows, A, n) \in Int
    BY <2>5, UnitsType DEF Row
  <2>8. Units(rows, n) = UnitsIn(rows, A, n) /\ Units(StartRows, n) = UnitsIn(StartRows, DOMAIN StartRows, n)
    BY <2>4, <2>5, UnitsWhole, StartUnits
  <2>9. UnitsIn(t, A, n) + spent[n] + Total(Pending, n) >= UnitsIn(StartRows, DOMAIN StartRows, n)
    BY <2>1, <2>4 DEF Backed
  <2>10. spent[n] \in Int /\ UnitsIn(StartRows, DOMAIN StartRows, n) \in Int
    BY StartUnits DEF TypeOK
  <2> QED BY <2>3, <2>6, <2>7, <2>8, <2>9, <2>10
<1> QED BY <1>1, LostInit, LostNext, TypeCorrect, PTL DEF Spec

=============================================================================
