----------------------------- MODULE MailProofs -----------------------------
(***************************************************************************)
(* Proofs about Mail, for any number of goroutines, characters, items,     *)
(* letters, requests and failing statements, and any limits.               *)
(***************************************************************************)
EXTENDS Mail, SumProofs, SequenceTheorems

\* The statements of Send, of the staging verbs and of the two collections.
SendPcs == {"charge", "deduct", "pay", "lift", "take", "insert", "refund", "repay", "return"}
StagePcs == {"zeny", "item", "unstage"}
CollectPcs == {"clear", "credit", "collect", "restore", "add"}
Pcs == SendPcs \cup StagePcs \cup CollectPcs
Verb == [char : Chars, pc : Pcs, id : Nat, to : Chars, zeny : Nat, total : Nat,
         items : Seq(Attachment), i : Nat]

\* The position of a verb is in its list or just behind it, at the start of the list
\* until Send has been paid, and in it while a row is being taken.
Stands(p, s, k) == /\ p \in {"charge", "deduct", "pay"} => k = 1
                   /\ p = "take" => k \in 1 .. Len(s)
Placed(r) == r.i \in 1 .. Len(r.items) + 1 /\ Stands(r.pc, r.items, r.i)
OpsOK == /\ op \in [Workers -> {Idle} \cup Verb]
         /\ \A w \in Workers : op[w] # Idle => Placed(op[w])

\* Ids are given once.
Letter == [dest : Chars, zeny : Nat, items : Seq(Attachment), status : Statuses]
RowsOK == /\ rows \in [DOMAIN rows -> Row]
          /\ nextId \in Nat \ {0}
          /\ DOMAIN rows \subseteq 1 .. nextId - 1
MailOK == /\ mail \in [DOMAIN mail -> Letter]
          /\ DOMAIN mail \subseteq 1 .. nextId - 1
Slot == [writing : BOOLEAN, zeny : Nat, items : Seq(Attachment)]
TwiceOK == /\ DOMAIN doubled = Names
           /\ \A n \in Names : /\ doubled[n] \in [DOMAIN doubled[n] -> Nat]
                              /\ DOMAIN doubled[n] \subseteq 0 .. nextId - 1
HistoryOK == /\ spent \in Int /\ overwritten \in Int
             /\ gone \in [Names -> Nat] /\ failed \subseteq {"undo", "collect"}
\* The movements of the other handlers.
ZenyMoves == [kind : {"zeny"}, char : Chars, by : Int, loaded : Nat]
BagMoves == [kind : {"bag"}, row : Nat, name : Names, amount : Nat, loaded : Nat]
MovesOK == read \in [Workers -> Nat] /\ ext \in [Others -> {NoMove} \cup ZenyMoves \cup BagMoves]
TypeInv ==
    /\ RowsOK /\ MailOK /\ OpsOK /\ HistoryOK /\ TwiceOK /\ MovesOK
    /\ zeny \in [Chars -> Balances]
    /\ slot \in [Chars -> Slot]
    /\ live \subseteq Chars

LEMMA ItemFields ==
    ASSUME NEW s \in Seq(Attachment)
    PROVE  /\ Len(s) \in Nat /\ DOMAIN s = 1 .. Len(s)
           /\ \A j \in DOMAIN s : /\ s[j] \in Attachment /\ s[j].row \in Nat
                                  /\ s[j].name \in Names /\ s[j].amount \in Nat
<1>1. Len(s) \in Nat /\ DOMAIN s = 1 .. Len(s)
  BY LenProperties
<1>2. \A j \in DOMAIN s : s[j] \in Attachment
  BY <1>1, ElementOfSeq
<1> QED BY <1>1, <1>2 DEF Attachment

-----------------------------------------------------------------------------
\* How a goroutine's verb goes on.

\* w's verb is at statement p, with the list s at position k.
Moved(w, p, s, k) == op' = [op EXCEPT ![w] = [op[w] EXCEPT !.pc = p, !.items = s, !.i = k]]
Begun(w, r) == op[w] = Idle /\ op' = [op EXCEPT ![w] = r]

LEMMA VerbFields ==
    ASSUME OpsOK, NEW w \in Workers, op[w] # Idle
    PROVE  /\ op[w] \in Verb /\ op[w].char \in Chars /\ op[w].pc \in Pcs /\ op[w].id \in Nat
           /\ op[w].to \in Chars /\ op[w].zeny \in Nat /\ op[w].total \in Nat
           /\ op[w].items \in Seq(Attachment) /\ op[w].i \in 1 .. Len(op[w].items) + 1
           /\ op[w].i \in Nat /\ Len(op[w].items) \in Nat
           /\ op[w].pc \in {"charge", "deduct", "pay"} => op[w].i = 1
           /\ op[w].pc = "take" => op[w].i \in 1 .. Len(op[w].items)
<1>1. op[w] \in Verb /\ Placed(op[w])
  BY DEF OpsOK
<1>2. op[w].items \in Seq(Attachment) /\ op[w].i \in Nat
  BY <1>1 DEF Verb
<1>3. Len(op[w].items) \in Nat
  BY <1>2, LenProperties
<1> QED BY <1>1, <1>2, <1>3 DEF Verb, Placed, Stands

LEMMA BusyAt ==
    ASSUME OpsOK, NEW w \in Workers, op[w].pc \in Pcs
    PROVE  op[w] # Idle
BY DEF Idle, Pcs, SendPcs, StagePcs, CollectPcs

LEMMA Motions ==
    ASSUME OpsOK, NEW w \in Workers, op[w] # Idle, NEW p
    PROVE  /\ Goto(w, p) => Moved(w, p, op[w].items, op[w].i)
           /\ Step(w, p) => Moved(w, p, op[w].items, 1)
           /\ Again(w) => Moved(w, op[w].pc, op[w].items, op[w].i + 1)
           /\ Passed(w, p) => Moved(w, p, op[w].items, op[w].i + 1)
           /\ Undo(w) => Moved(w, "refund", SubSeq(op[w].items, 1, op[w].i - 1), 1)
<1>1. op[w] \in Verb /\ op \in [Workers -> {Idle} \cup Verb]
  BY VerbFields DEF OpsOK
<1> QED BY <1>1 DEF Goto, Step, Again, Passed, Undo, Moved, Verb

LEMMA MovedFacts ==
    ASSUME OpsOK, NEW w \in Workers, op[w] # Idle,
           NEW p \in Pcs, NEW s \in Seq(Attachment), NEW k \in 1 .. Len(s) + 1, Moved(w, p, s, k)
    PROVE  /\ op'[w] \in Verb /\ op'[w] # Idle /\ op'[w].pc = p /\ op'[w].items = s /\ op'[w].i = k
           /\ op'[w].char = op[w].char /\ op'[w].id = op[w].id /\ op'[w].to = op[w].to
           /\ op'[w].zeny = op[w].zeny /\ op'[w].total = op[w].total
           /\ \A v \in Workers \ {w} : op'[v] = op[v]
           /\ Stands(p, s, k) => OpsOK'
<1>1. op[w] \in Verb /\ op \in [Workers -> {Idle} \cup Verb]
  BY VerbFields DEF OpsOK
<1>2. op'[w] = [op[w] EXCEPT !.pc = p, !.items = s, !.i = k] /\ \A v \in Workers \ {w} : op'[v] = op[v]
  BY <1>1 DEF Moved
<1>3. Len(s) \in Nat
  BY LenProperties
<1>4. /\ op'[w] \in Verb /\ op'[w].pc = p /\ op'[w].items = s /\ op'[w].i = k
      /\ op'[w].char = op[w].char /\ op'[w].id = op[w].id /\ op'[w].to = op[w].to
      /\ op'[w].zeny = op[w].zeny /\ op'[w].total = op[w].total
  <2>1. k \in Nat
    BY <1>3
  <2>2. PICK r \in Verb : r = op[w]
    BY <1>1
  <2>3. PICK q : q = [r EXCEPT !.pc = p, !.items = s, !.i = k]
    OBVIOUS
  <2>4. /\ q \in Verb /\ q.pc = p /\ q.items = s /\ q.i = k
        /\ q.char = r.char /\ q.id = r.id /\ q.to = r.to /\ q.zeny = r.zeny /\ q.total = r.total
    BY <2>1, <2>3 DEF Verb
  <2> QED BY <1>2, <2>2, <2>3, <2>4
<1>5. op'[w] # Idle
  BY <1>4 DEF Idle, Pcs, SendPcs, StagePcs, CollectPcs
<1>6. op' \in [Workers -> {Idle} \cup Verb]
  BY <1>1, <1>4 DEF Moved
<1>7. Stands(p, s, k) => OpsOK'
  BY <1>2, <1>4, <1>6 DEF OpsOK, Placed
<1> QED BY <1>2, <1>4, <1>5, <1>7

LEMMA ReturnFacts ==
    ASSUME OpsOK, NEW w \in Workers, Return(w)
    PROVE  op'[w] = Idle /\ (\A v \in Workers \ {w} : op'[v] = op[v]) /\ OpsOK'
BY DEF OpsOK, Return

LEMMA BegunFacts ==
    ASSUME OpsOK, NEW w \in Workers, NEW r, r \in Verb, r.i = 1, r.pc # "take", Begun(w, r)
    PROVE  op'[w] = r /\ op'[w] # Idle /\ (\A v \in Workers \ {w} : op'[v] = op[v]) /\ OpsOK'
<1>1. op'[w] = r /\ (\A v \in Workers \ {w} : op'[v] = op[v]) /\ op' \in [Workers -> {Idle} \cup Verb]
  BY DEF OpsOK, Begun
<1>2. r # Idle
  BY DEF Idle, Verb, Pcs, SendPcs, StagePcs, CollectPcs
<1>3. Placed(r)
  <2>1. Len(r.items) \in Nat
    BY LenProperties DEF Verb
  <2> QED BY <2>1 DEF Placed, Stands
<1> QED BY <1>1, <1>2, <1>3 DEF OpsOK

-----------------------------------------------------------------------------
\* What each step leaves alone.

LEMMA ArriveKeeps ==
    ASSUME NEW w \in Workers, NEW c \in Chars, Arrive(w, c)
    PROVE  /\ Frame(w, c) /\ UNCHANGED <<rows, nextId, zeny, live, read, ext, history>>
           /\ \/ UNCHANGED mail
              \/ handleOpenMailbox(w, c)
              \/ \E m \in DOMAIN mail : handleReadMail(w, c, m) \/ handleDeleteMail(w, c, m)
BY DEF Arrive, handleOpenWriteMail, handleCancelWriteMail, handleAddItemToMail, handleWriteMail,
       handleOpenMailbox, handleReadMail, handleDeleteMail, handleCollectZeny, handleCollectItems,
       tables, history

LEMMA StageKeeps ==
    ASSUME NEW w \in Workers, addZenyToMail(w) \/ stageMailItem(w) \/ handleRemoveItemFromMail(w)
    PROVE  Return(w) /\ op[w].pc \in StagePcs /\ UNCHANGED <<tables, live, read, ext, history>>
BY DEF addZenyToMail, stageMailItem, handleRemoveItemFromMail, At, StagePcs

LEMMA CloseKeeps ==
    ASSUME NEW c \in Chars, OnClose(c) \/ Enter(c)
    PROVE  UNCHANGED <<tables, op, read, ext, history>>
BY DEF OnClose, Enter

LEMMA OutsideKeeps ==
    ASSUME NEW o \in Others, Outside(o)
    PROVE  /\ UNCHANGED <<nextId, mail, slot, live, op, read, failed>>
           /\ UNCHANGED <<tables, history>> \/ MoveZeny(o) \/ MoveUnits(o)
           /\ UNCHANGED <<zeny, spent, overwritten>> \/ MoveZeny(o)
           /\ UNCHANGED <<rows, gone, doubled>> \/ MoveUnits(o)
BY DEF Outside, Spend, Earn, Lose, Begin, MoveZeny, MoveUnits, MoveFails, tables, history

\* The frame that begins a verb, the verb as it begins, or the window it changes.
LEMMA ArriveMoves ==
    ASSUME TypeInv, NEW w \in Workers, NEW c \in Chars, Arrive(w, c)
    PROVE  \/ UNCHANGED op
           \/ \E r \in Verb :
                /\ Begun(w, r) /\ r.i = 1 /\ r.char = c /\ UNCHANGED <<mail, rows, nextId>>
                /\ \/ r.pc \in StagePcs /\ r.items = slot[c].items
                   \/ r.pc = "charge" /\ r.items = slot[c].items
                   \/ /\ r.pc = "clear" /\ r.id \in InboxOf(c) /\ mail[r.id].zeny = r.zeny
                      /\ r.items = << >>
                   \/ r.pc = "add" /\ r.id \in InboxOf(c) /\ mail[r.id].items = r.items
<1>0. /\ slot[c] \in Slot /\ slot[c].items \in Seq(Attachment) /\ slot[c].zeny \in Nat
      /\ Frame(w, c)
  BY ArriveKeeps DEF TypeInv, Slot
<1>1. << >> \in Seq(Attachment) /\ op[w] = Idle
  BY <1>0, EmptySeq DEF Frame
<1>2. \A pc \in Pcs : Op(c, pc) \in Verb
  BY <1>1 DEF Op, Verb
<1>3. ASSUME NEW pc \in StagePcs, NEW id \in Nat, NEW k \in Nat, handleAddItemToMail(w, c, pc, id, k)
      PROVE  \E r \in Verb :
                /\ Begun(w, r) /\ r.i = 1 /\ r.char = c /\ UNCHANGED <<mail, rows, nextId>>
                /\ r.pc \in StagePcs /\ r.items = slot[c].items
  <2>1. PICK r : r = [Op(c, pc) EXCEPT !.id = id, !.total = k,
                                       !.zeny = slot[c].zeny, !.items = slot[c].items]
    OBVIOUS
  <2>2. r \in Verb /\ r.i = 1 /\ r.char = c /\ r.pc = pc /\ r.items = slot[c].items
    BY <1>0, <2>1 DEF Op, Verb, Pcs
  <2>3. Begun(w, r) /\ UNCHANGED <<mail, rows, nextId>>
    BY <1>1, <1>3, <2>1 DEF handleAddItemToMail, Begun, tables
  <2> QED BY <2>2, <2>3
<1>4. ASSUME NEW to \in Chars \cup {Nobody}, NEW z \in Sums, handleWriteMail(w, c, to, z)
      PROVE  \/ UNCHANGED op
             \/ \E r \in Verb :
                /\ Begun(w, r) /\ r.i = 1 /\ r.char = c /\ UNCHANGED <<mail, rows, nextId>>
                /\ r.pc = "charge" /\ r.items = slot[c].items
  <2>1. CASE to = Nobody
    BY <1>4, <2>1 DEF handleWriteMail
  <2>2. CASE to # Nobody
    <3>1. PICK s : s = IF z = 0 THEN slot[c].zeny ELSE z
      OBVIOUS
    <3>2. PICK k : k = charged(s, Len(slot[c].items))
      OBVIOUS
    <3>3. s \in Nat /\ Len(slot[c].items) \in Nat
      BY <1>0, <3>1, MailAssumption, LenProperties
    <3>4. k \in Nat
      <4>1. AttachPrice \in Nat
        BY MailAssumption
      <4>2. Len(slot[c].items) * AttachPrice \in Nat
        BY <3>3, <4>1
      <4>3. Fee(s) \in Nat
        BY <3>3 DEF Fee
      <4> QED BY <3>2, <3>3, <4>2, <4>3 DEF charged
    <3>5. PICK r : r = [Op(c, "charge") EXCEPT !.to = to, !.zeny = s, !.items = slot[c].items,
                                               !.total = k]
      OBVIOUS
    <3>6. r \in Verb /\ r.i = 1 /\ r.char = c /\ r.pc = "charge" /\ r.items = slot[c].items
      BY <1>0, <2>2, <3>3, <3>4, <3>5 DEF Op, Verb, Pcs, SendPcs
    <3>7. Begun(w, r) /\ UNCHANGED <<mail, rows, nextId>>
      BY <1>1, <1>4, <2>2, <3>1, <3>2, <3>5 DEF handleWriteMail, Begun, tables
    <3> QED BY <3>6, <3>7
  <2> QED BY <2>1, <2>2
<1>5. ASSUME NEW m \in DOMAIN mail, handleCollectZeny(w, c, m)
      PROVE  \E r \in Verb :
                /\ Begun(w, r) /\ r.i = 1 /\ r.char = c /\ UNCHANGED <<mail, rows, nextId>>
                /\ r.pc = "clear" /\ r.id \in InboxOf(c) /\ mail[r.id].zeny = r.zeny
                /\ r.items = << >>
  <2>1. PICK r : r = [Op(c, "clear") EXCEPT !.id = m, !.zeny = mail[m].zeny]
    OBVIOUS
  <2>2. m \in Nat /\ mail[m].zeny \in Nat
    BY DEF TypeInv, RowsOK, MailOK, Letter
  <2>3. r \in Verb /\ r.i = 1 /\ r.char = c /\ r.pc = "clear" /\ r.id = m /\ r.zeny = mail[m].zeny
        /\ r.items = << >>
    BY <1>1, <2>1, <2>2 DEF Op, Verb, Pcs, CollectPcs
  <2>4. Begun(w, r) /\ UNCHANGED <<mail, rows, nextId>> /\ m \in InboxOf(c)
    BY <1>1, <1>5, <2>1 DEF handleCollectZeny, Begun, tables
  <2> QED BY <2>3, <2>4
<1>6. ASSUME NEW m \in DOMAIN mail, handleCollectItems(w, c, m)
      PROVE  \E r \in Verb :
                /\ Begun(w, r) /\ r.i = 1 /\ r.char = c /\ UNCHANGED <<mail, rows, nextId>>
                /\ r.pc = "add" /\ r.id \in InboxOf(c) /\ mail[r.id].items = r.items
  <2>1. PICK r : r = [Op(c, "add") EXCEPT !.id = m, !.items = mail[m].items]
    OBVIOUS
  <2>2. m \in Nat /\ mail[m].items \in Seq(Attachment)
    BY DEF TypeInv, RowsOK, MailOK, Letter
  <2>3. r \in Verb /\ r.i = 1 /\ r.char = c /\ r.pc = "add" /\ r.id = m /\ r.items = mail[m].items
    BY <1>1, <2>1, <2>2 DEF Op, Verb, Pcs, CollectPcs
  <2>4. Begun(w, r) /\ UNCHANGED <<mail, rows, nextId>> /\ m \in InboxOf(c)
    BY <1>1, <1>6, <2>1 DEF handleCollectItems, Begun, tables
  <2> QED BY <2>3, <2>4
<1>7. CASE handleOpenWriteMail(w, c) \/ handleCancelWriteMail(w, c) \/ handleOpenMailbox(w, c)
  BY <1>7 DEF handleOpenWriteMail, handleCancelWriteMail, handleOpenMailbox
<1>8. CASE \E m \in DOMAIN mail : handleReadMail(w, c, m) \/ handleDeleteMail(w, c, m)
  BY <1>8 DEF handleReadMail, handleDeleteMail
<1>9. CASE \E k \in Sums : handleAddItemToMail(w, c, "zeny", 0, k)
  BY <1>3, <1>9, MailAssumption DEF StagePcs
<1>10. CASE \E id \in DOMAIN rows, k \in Amounts : handleAddItemToMail(w, c, "item", id, k)
  <2>1. DOMAIN rows \subseteq Nat /\ Amounts \subseteq Nat
    BY MailAssumption DEF TypeInv, RowsOK
  <2> QED BY <1>3, <1>10, <2>1 DEF StagePcs
<1>11. CASE \E id \in {0} \cup {a.row : a \in {slot[c].items[j] : j \in DOMAIN slot[c].items}} :
               handleAddItemToMail(w, c, "unstage", id, 0)
  <2>1. \A j \in DOMAIN slot[c].items : slot[c].items[j].row \in Nat
    BY <1>0, ItemFields
  <2> QED BY <1>3, <1>11, <2>1 DEF StagePcs
<1> QED BY <1>4, <1>5, <1>6, <1>7, <1>8, <1>9, <1>10, <1>11 DEF Arrive

\* w's verb ends or goes on, for the same character; what is undone is a front of the list.
Goes(w) ==
    /\ \A v \in Workers \ {w} : op'[v] = op[v]
    /\ \/ op'[w] = Idle
       \/ /\ op'[w] # Idle /\ op'[w].char = op[w].char /\ op'[w].id = op[w].id
          /\ op'[w].zeny = op[w].zeny
          /\ \/ /\ op[w].pc \in SendPcs /\ op'[w].pc \in SendPcs
                /\ op'[w].items \in {op[w].items, SubSeq(op[w].items, 1, op[w].i - 1)}
             \/ op[w].pc \in CollectPcs /\ op'[w].pc \in CollectPcs /\ op'[w].items = op[w].items

LEMMA MovedGoes ==
    ASSUME OpsOK, NEW w \in Workers, op[w] # Idle, NEW p
    PROVE  /\ Return(w) => OpsOK' /\ Goes(w)
           /\ Goto(w, p) /\ op[w].pc \in SendPcs /\ p \in SendPcs \ {"charge"}
                /\ (p \in {"deduct", "pay"} => op[w].i = 1) /\ (p = "take" => More(w))
                => OpsOK' /\ Goes(w)
           /\ Goto(w, p) /\ op[w].pc \in CollectPcs /\ p \in CollectPcs => OpsOK' /\ Goes(w)
           /\ Step(w, p) /\ op[w].pc \in SendPcs /\ p \in SendPcs \ {"take"} => OpsOK' /\ Goes(w)
           /\ Again(w) /\ More(w) /\ op[w].pc \in {"return", "add"} => OpsOK' /\ Goes(w)
           /\ Passed(w, "lift") /\ op[w].pc = "take" => OpsOK' /\ Goes(w)
           /\ Undo(w) /\ op[w].pc \in SendPcs => OpsOK' /\ Goes(w)
<1>0. /\ op[w].items \in Seq(Attachment) /\ Len(op[w].items) \in Nat
      /\ op[w].i \in 1 .. Len(op[w].items) + 1 /\ op[w].pc \in Pcs
  BY VerbFields
<1>1. Return(w) => OpsOK' /\ Goes(w)
  BY ReturnFacts DEF Goes
<1>2. ASSUME Moved(w, p, op[w].items, op[w].i), Stands(p, op[w].items, op[w].i),
             (op[w].pc \in SendPcs /\ p \in SendPcs) \/ (op[w].pc \in CollectPcs /\ p \in CollectPcs)
      PROVE  OpsOK' /\ Goes(w)
  <2>1. p \in Pcs
    BY <1>2 DEF Pcs
  <2> QED BY <1>0, <1>2, <2>1, MovedFacts DEF Goes
<1>3. ASSUME Moved(w, p, op[w].items, 1), op[w].pc \in SendPcs, p \in SendPcs \ {"take"}
      PROVE  OpsOK' /\ Goes(w)
  <2>1. p \in Pcs /\ 1 \in 1 .. Len(op[w].items) + 1 /\ Stands(p, op[w].items, 1)
    BY <1>0, <1>3 DEF Pcs, Stands
  <2> QED BY <1>0, <1>3, <2>1, MovedFacts DEF Goes
<1>4. ASSUME Moved(w, op[w].pc, op[w].items, op[w].i + 1), More(w), op[w].pc \in {"return", "add"}
      PROVE  OpsOK' /\ Goes(w)
  <2>1. op[w].i + 1 \in 1 .. Len(op[w].items) + 1
    BY <1>0, <1>4 DEF More
  <2>2. /\ op[w].pc \in SendPcs \/ op[w].pc \in CollectPcs
        /\ Stands(op[w].pc, op[w].items, op[w].i + 1)
    BY <1>4 DEF SendPcs, CollectPcs, Stands
  <2> QED BY <1>0, <1>4, <2>1, <2>2, MovedFacts DEF Goes
<1>5. ASSUME Moved(w, "refund", SubSeq(op[w].items, 1, op[w].i - 1), 1), op[w].pc \in SendPcs
      PROVE  OpsOK' /\ Goes(w)
  <2>1. PICK s : s = SubSeq(op[w].items, 1, op[w].i - 1)
    OBVIOUS
  <2>2. s \in Seq(Attachment) /\ Len(s) \in Nat
    <3>1. op[w].i - 1 \in Int
      BY <1>0
    <3>2. s \in Seq(Attachment)
      BY <1>0, <2>1, <3>1, SubSeqProperties
    <3> QED BY <3>2, LenProperties
  <2>3. "refund" \in Pcs /\ "refund" \in SendPcs /\ 1 \in 1 .. Len(s) + 1
    BY <2>2 DEF Pcs, SendPcs
  <2>4. Moved(w, "refund", s, 1) /\ Stands("refund", s, 1)
    BY <1>5, <2>1 DEF Stands
  <2>5. /\ op'[w] # Idle /\ op'[w].pc = "refund" /\ op'[w].items = s
        /\ op'[w].char = op[w].char /\ op'[w].id = op[w].id /\ op'[w].zeny = op[w].zeny
        /\ \A v \in Workers \ {w} : op'[v] = op[v]
        /\ OpsOK'
    BY <2>2, <2>3, <2>4, MovedFacts
  <2> QED BY <1>5, <2>1, <2>3, <2>5 DEF Goes
<1>6. /\ Goto(w, p) => Moved(w, p, op[w].items, op[w].i)
      /\ Step(w, p) => Moved(w, p, op[w].items, 1)
      /\ Again(w) => Moved(w, op[w].pc, op[w].items, op[w].i + 1)
      /\ Undo(w) => Moved(w, "refund", SubSeq(op[w].items, 1, op[w].i - 1), 1)
  BY Motions
<1>7. ASSUME Goto(w, p), op[w].pc \in SendPcs, p \in SendPcs \ {"charge"},
             p \in {"deduct", "pay"} => op[w].i = 1, p = "take" => More(w)
      PROVE  OpsOK' /\ Goes(w)
  <2>1. Moved(w, p, op[w].items, op[w].i) /\ Stands(p, op[w].items, op[w].i)
    BY <1>0, <1>6, <1>7 DEF Stands, More
  <2> QED BY <1>2, <1>7, <2>1
<1>8. ASSUME Goto(w, p), op[w].pc \in CollectPcs, p \in CollectPcs PROVE OpsOK' /\ Goes(w)
  <2>1. Moved(w, p, op[w].items, op[w].i) /\ Stands(p, op[w].items, op[w].i)
    BY <1>6, <1>8 DEF CollectPcs, Stands
  <2> QED BY <1>2, <1>8, <2>1
<1>9. ASSUME Passed(w, "lift"), op[w].pc = "take" PROVE OpsOK' /\ Goes(w)
  <2>1. /\ Moved(w, "lift", op[w].items, op[w].i + 1) /\ Stands("lift", op[w].items, op[w].i + 1)
        /\ op[w].i + 1 \in 1 .. Len(op[w].items) + 1 /\ "lift" \in Pcs
    BY <1>0, <1>9, Motions, VerbFields DEF Stands, Pcs, SendPcs
  <2> QED BY <1>0, <1>9, <2>1, MovedFacts DEF Goes, SendPcs
<1> QED BY <1>1, <1>3, <1>4, <1>5, <1>6, <1>7, <1>8, <1>9

LEMMA WorkGoes ==
    ASSUME OpsOK, NEW w \in Workers, op[w] # Idle, Work(w) \/ Fault(w)
    PROVE  OpsOK' /\ Goes(w)
<1>0. op[w].pc \in {"charge", "deduct", "pay"} => op[w].i = 1
  BY VerbFields
<1>1. CASE addZenyToMail(w) \/ stageMailItem(w) \/ handleRemoveItemFromMail(w)
  BY <1>1, StageKeeps, MovedGoes
<1>2. CASE charge(w)
  <2>1. \/ Goto(w, "lift") \/ Return(w) \/ Goto(w, "deduct")
    BY <1>2 DEF charge, SendFails
  <2>2. op[w].pc = "charge"
    BY <1>2 DEF charge, At
  <2> QED BY <1>0, <2>1, <2>2, MovedGoes DEF SendPcs
<1>3. CASE Deduct(w) \/ Pay(w)
  <2>1. \/ (Goto(w, "pay") \/ Return(w)) /\ op[w].pc = "deduct"
        \/ Goto(w, "lift") /\ op[w].pc = "pay"
    BY <1>3 DEF Deduct, Pay, SendFails, At
  <2> QED BY <1>0, <2>1, MovedGoes DEF SendPcs
<1>4. CASE lift(w)
  <2>1. (Goto(w, "take") \/ Undo(w)) /\ More(w) /\ op[w].pc = "lift"
    BY <1>4 DEF lift, At
  <2> QED BY <2>1, MovedGoes DEF SendPcs
<1>5. CASE CreateCount(w)
  <2>1. (Step(w, "insert") \/ Undo(w)) /\ op[w].pc = "lift"
    BY <1>5 DEF CreateCount, At
  <2> QED BY <2>1, MovedGoes DEF SendPcs
<1>6. CASE CreateInsert(w) \/ Undone(w) \/ Collect(w) \/ SetZeny(w) \/ ClearItems(w)
  BY <1>6, MovedGoes DEF CreateInsert, Undone, Collect, SetZeny, ClearItems, SendFails
<1>7. CASE Refund(w) \/ Repay(w)
  <2>1. (Step(w, "return") \/ Step(w, "repay")) /\ op[w].pc \in {"refund", "repay"}
    BY <1>7 DEF Refund, Repay, At
  <2> QED BY <2>1, MovedGoes DEF SendPcs
<1>8. CASE ReturnItem(w) \/ CollectAdd(w)
  <2>1. Again(w) /\ More(w) /\ op[w].pc \in {"return", "add"}
    BY <1>8 DEF ReturnItem, CollectAdd, At
  <2> QED BY <2>1, MovedGoes
<1>9. CASE ClearZeny(w)
  <2>1. Goto(w, "credit") /\ op[w].pc = "clear"
    BY <1>9 DEF ClearZeny, At
  <2> QED BY <2>1, MovedGoes DEF CollectPcs
<1>10. CASE CollectCredit(w)
  <2>1. (Goto(w, "restore") \/ Goto(w, "collect")) /\ op[w].pc = "credit"
    BY <1>10 DEF CollectCredit, At
  <2> QED BY <2>1, MovedGoes DEF CollectPcs
<1>11. CASE Take(w)
  <2>1. Passed(w, "lift") /\ op[w].pc = "take"
    BY <1>11 DEF Take, At
  <2> QED BY <2>1, MovedGoes
<1>12. CASE Fault(w)
  <2>1. \/ Return(w)
        \/ op[w].pc \in {"lift", "take"} /\ Undo(w)
        \/ op[w].pc = "insert" /\ op' = [op EXCEPT ![w].pc = "refund"]
        \/ op[w].pc \in {"credit", "collect"} /\ Goto(w, "restore")
        \/ op[w].pc \in {"refund", "repay"} /\ Step(w, "return")
        \/ op[w].pc = "return" /\ More(w) /\ Again(w)
    BY <1>12 DEF Fault, At, SendFails
  <2>2. op' = [op EXCEPT ![w].pc = "refund"] => Goto(w, "refund")
    BY DEF Goto
  <2> QED BY <2>1, <2>2, MovedGoes DEF SendPcs, CollectPcs
<1> QED BY <1>1, <1>2, <1>3, <1>4, <1>5, <1>6, <1>7, <1>8, <1>9, <1>10, <1>11, <1>12 DEF Work

\* Which statements write the bags, the letters and the purses.
LEMMA Writers ==
    ASSUME [Next]_vars
    PROVE  /\ \/ UNCHANGED <<rows, nextId, doubled>>
              \/ UNCHANGED doubled /\ \E w \in Workers : CreateInsert(w) \/ ReturnItem(w) \/ CollectAdd(w)
              \/ \E w \in Workers : Take(w)
              \/ \E o \in Others : MoveUnits(o)
           /\ \/ UNCHANGED mail
              \/ \E w \in Workers : \/ CreateInsert(w) \/ ClearZeny(w) \/ Collect(w)
                                    \/ SetZeny(w) \/ ClearItems(w)
              \/ \E w \in Workers, c \in Chars :
                    /\ Frame(w, c)
                    /\ \/ handleOpenMailbox(w, c)
                       \/ \E m \in DOMAIN mail : handleReadMail(w, c, m) \/ handleDeleteMail(w, c, m)
           /\ \/ UNCHANGED <<zeny, overwritten>>
              \/ \E w \in Workers : Pay(w) \/ Repay(w) \/ Collect(w)
              \/ \E o \in Others : MoveZeny(o)
<1>1. ASSUME NEW w \in Workers, Work(w)
      PROVE  /\ \/ UNCHANGED <<rows, nextId, doubled>> \/ Take(w)
                \/ UNCHANGED doubled /\ (CreateInsert(w) \/ ReturnItem(w) \/ CollectAdd(w))
             /\ \/ UNCHANGED mail \/ CreateInsert(w) \/ ClearZeny(w) \/ Collect(w)
                \/ SetZeny(w) \/ ClearItems(w)
             /\ UNCHANGED <<zeny, overwritten>> \/ Pay(w) \/ Repay(w) \/ Collect(w)
  <2>1. CASE addZenyToMail(w) \/ stageMailItem(w) \/ handleRemoveItemFromMail(w)
    BY <2>1, StageKeeps DEF tables, history
  <2>2. CASE charge(w) \/ Deduct(w) \/ Pay(w) \/ lift(w) \/ Take(w) \/ CreateCount(w)
    BY <2>2 DEF charge, Deduct, Pay, lift, Take, CreateCount, tables, history
  <2>3. CASE CreateInsert(w) \/ Refund(w) \/ Repay(w) \/ ReturnItem(w) \/ Undone(w)
    BY <2>3 DEF CreateInsert, Refund, Repay, ReturnItem, Undone, tables, history
  <2>4. CASE ClearZeny(w) \/ CollectCredit(w) \/ Collect(w) \/ SetZeny(w)
    BY <2>4 DEF ClearZeny, CollectCredit, Collect, SetZeny, tables, history
  <2>5. CASE CollectAdd(w) \/ ClearItems(w)
    BY <2>5 DEF CollectAdd, ClearItems, history
  <2> QED BY <1>1, <2>1, <2>2, <2>3, <2>4, <2>5 DEF Work
<1>2. ASSUME NEW w \in Workers, Fault(w) PROVE UNCHANGED <<rows, nextId, mail, zeny, overwritten, doubled>>
  BY <1>2 DEF Fault, tables
<1>3. ASSUME NEW w \in Workers, NEW c \in Chars, Arrive(w, c)
      PROVE  /\ UNCHANGED <<rows, nextId, zeny, overwritten, doubled>> /\ Frame(w, c)
             /\ \/ UNCHANGED mail
                \/ handleOpenMailbox(w, c)
                \/ \E m \in DOMAIN mail : handleReadMail(w, c, m) \/ handleDeleteMail(w, c, m)
  BY <1>3, ArriveKeeps DEF history
<1>4. ASSUME NEW c \in Chars, OnClose(c) \/ Enter(c)
      PROVE  UNCHANGED <<rows, nextId, mail, zeny, overwritten, doubled>>
  BY <1>4, CloseKeeps DEF tables, history
<1>5. ASSUME NEW o \in Others, Outside(o)
      PROVE  /\ UNCHANGED <<nextId, mail>>
             /\ UNCHANGED <<rows, doubled>> \/ MoveUnits(o)
             /\ UNCHANGED <<zeny, overwritten>> \/ MoveZeny(o)
  BY <1>5, OutsideKeeps
<1>6. CASE UNCHANGED vars
  BY <1>6 DEF vars, tables, history
<1>7. CASE \E w \in Workers : (\E c \in Chars : Arrive(w, c)) \/ (op[w] # Idle /\ Work(w)) \/ Fault(w)
  BY <1>1, <1>2, <1>3, <1>7
<1>8. CASE \E c \in Chars : OnClose(c) \/ Enter(c)
  BY <1>4, <1>8
<1>9. CASE \E o \in Others : Outside(o)
  BY <1>5, <1>9
<1> QED BY <1>6, <1>7, <1>8, <1>9 DEF Next

\* What is done to the bags: a row is added at the next id, or row id loses k units.
LEMMA AddRowFacts ==
    ASSUME RowsOK, NEW c \in Chars, NEW n \in Names, NEW k \in Nat,
           rows' = AddRow(rows, nextId, c, n, k), nextId' = nextId + 1
    PROVE  /\ RowsOK' /\ DOMAIN rows' = DOMAIN rows \cup {nextId} /\ nextId \notin DOMAIN rows
           /\ rows'[nextId].owner = c /\ rows'[nextId].name = n /\ rows'[nextId].amount = k
           /\ \A i \in DOMAIN rows : rows'[i] = rows[i]
<1>1. nextId \notin DOMAIN rows /\ nextId \in Nat
  BY DEF RowsOK
<1>2. DOMAIN rows' = DOMAIN rows \cup {nextId}
  BY DEF AddRow
<1>3. rows'[nextId] = [owner |-> c, name |-> n, amount |-> k, equip |-> FALSE]
  BY DEF AddRow
<1>4. \A i \in DOMAIN rows : rows'[i] = rows[i]
  BY <1>1 DEF AddRow
<1>5. rows'[nextId] \in Row
  BY <1>3 DEF Row
<1>6. \A i \in DOMAIN rows' : rows'[i] \in Row
  BY <1>2, <1>4, <1>5 DEF RowsOK
<1>7. rows' = [i \in DOMAIN rows' |-> rows'[i]]
  BY DEF AddRow
<1>8. DOMAIN rows' \subseteq 1 .. nextId' - 1 /\ nextId' \in Nat \ {0}
  BY <1>2 DEF RowsOK
<1> QED BY <1>1, <1>2, <1>3, <1>4, <1>6, <1>7, <1>8 DEF RowsOK

\* A row is written with what is left of the amount that was loaded, if it is there.
LEMMA TakeFacts ==
    ASSUME RowsOK, NEW id \in Nat, NEW k \in Nat, NEW loaded \in Nat, k <= loaded, UNCHANGED nextId,
           rows' = RemoveWrite(rows, id, loaded, k)
    PROVE  /\ RowsOK' /\ DOMAIN rows' \ {id} = DOMAIN rows \ {id} /\ DOMAIN rows' \subseteq DOMAIN rows
           /\ \A i \in DOMAIN rows \ {id} : rows'[i] = rows[i]
           /\ id \in DOMAIN rows /\ id \notin DOMAIN rows' => loaded = k
           /\ id \in DOMAIN rows' => /\ rows'[id].owner = rows[id].owner
                                     /\ rows'[id].name = rows[id].name
                                     /\ rows'[id].amount = loaded - k
<1>0. \A i \in DOMAIN rows : rows[i] \in Row
  BY DEF RowsOK
<1>1. CASE loaded = k
  <2>1. rows' = [i \in DOMAIN rows \ {id} |-> rows[i]]
    BY <1>1 DEF RemoveWrite
  <2> QED BY <1>0, <1>1, <2>1 DEF RowsOK
<1>2. CASE loaded # k
  <2>1. rows' = [i \in DOMAIN rows |->
                   IF i = id THEN [rows[i] EXCEPT !.amount = loaded - k] ELSE rows[i]]
    BY <1>2 DEF RemoveWrite
  <2>2. DOMAIN rows' = DOMAIN rows /\ \A i \in DOMAIN rows \ {id} : rows'[i] = rows[i]
    BY <2>1
  <2>3. loaded - k \in Nat
    OBVIOUS
  <2>4. ASSUME id \in DOMAIN rows
        PROVE  /\ rows'[id] \in Row /\ rows'[id].owner = rows[id].owner
               /\ rows'[id].name = rows[id].name /\ rows'[id].amount = loaded - k
    <3>1. PICK r \in Row : r = rows[id]
      BY <1>0, <2>4
    <3>2. rows'[id] = [r EXCEPT !.amount = loaded - k]
      BY <2>1, <2>4, <3>1
    <3> QED BY <2>3, <3>1, <3>2 DEF Row
  <2>5. \A i \in DOMAIN rows' : rows'[i] \in Row
    BY <1>0, <2>2, <2>4
  <2>6. rows' \in [DOMAIN rows' -> Row]
    BY <2>1, <2>5
  <2> QED BY <1>2, <2>2, <2>4, <2>6 DEF RowsOK
<1> QED BY <1>1, <1>2

\* The unit of work of a verb that moves items: the entry at its position.
LEMMA ItemType ==
    ASSUME OpsOK, NEW w \in Workers, op[w] # Idle, More(w)
    PROVE  /\ op[w].i \in DOMAIN op[w].items /\ Item(w) \in Attachment
           /\ Item(w).row \in Nat /\ Item(w).name \in Names /\ Item(w).amount \in Nat
<1>1. op[w].items \in Seq(Attachment) /\ op[w].i \in 1 .. Len(op[w].items) + 1
  BY VerbFields
<1>2. op[w].i \in DOMAIN op[w].items
  BY <1>1, ItemFields DEF More
<1> QED BY <1>1, <1>2, ItemFields DEF Item

-----------------------------------------------------------------------------
\* The windows.

\* The entry x says of its row what an entry of s or the bags say.
Known(x, s) == \E j \in DOMAIN s : s[j].row = x.row /\ s[j].name = x.name
Bagged(x) == x.row \in DOMAIN rows /\ rows[x.row].name = x.name
\* Only c's window changes, to one whose entries are known to the old one, to w's list
\* or to the bags.
Stages(w, c) ==
    \E q \in Slot :
        /\ slot' = [slot EXCEPT ![c] = q]
        /\ \A j \in DOMAIN q.items : \/ Known(q.items[j], slot[c].items)
                                     \/ Known(q.items[j], op[w].items)
                                     \/ Bagged(q.items[j])

LEMMA StageSame ==
    ASSUME TypeInv, NEW w, NEW c \in Chars, UNCHANGED slot
    PROVE  Stages(w, c)
<1>1. slot \in [Chars -> Slot] /\ slot[c] \in Slot
  BY DEF TypeInv
<1>2. slot' = [slot EXCEPT ![c] = slot[c]]
  BY <1>1
<1>3. \A j \in DOMAIN slot[c].items : Known(slot[c].items[j], slot[c].items)
  BY DEF Known
<1> QED BY <1>1, <1>2, <1>3 DEF Stages

LEMMA StageList ==
    ASSUME TypeInv, NEW w \in Workers, op[w] # Idle, NEW z \in Nat, NEW s \in Seq(Attachment),
           \A j \in DOMAIN s : Known(s[j], op[w].items) \/ Bagged(s[j]),
           setMailSlot(op[w].char, Staged(w, z, s))
    PROVE  Stages(w, op[w].char)
<1>1. PICK q : q = Staged(w, z, s)
  OBVIOUS
<1>2. q \in Slot /\ q.items = s
  BY <1>1 DEF Staged, Slot
<1>3. slot' = [slot EXCEPT ![op[w].char] = q]
  BY <1>1 DEF setMailSlot
<1> QED BY <1>2, <1>3 DEF Stages

\* Units of a staged row join its entry.
LEMMA MergedFacts ==
    ASSUME NEW s \in Seq(Attachment), NEW id, NEW k \in Nat, NEW t,
           t = [i \in DOMAIN s |-> IF i \in {j \in DOMAIN s : s[j].row = id}
                                   THEN [s[i] EXCEPT !.amount = k] ELSE s[i]]
    PROVE  t \in Seq(Attachment) /\ \A j \in DOMAIN t : Known(t[j], s)
<1>1. Len(s) \in Nat /\ DOMAIN s = 1 .. Len(s) /\ \A i \in DOMAIN s : s[i] \in Attachment
  BY ItemFields
<1>2. DOMAIN t = DOMAIN s
  OBVIOUS
<1>3. \A i \in DOMAIN s : /\ t[i] \in Attachment /\ t[i].row = s[i].row /\ t[i].name = s[i].name
  BY <1>1 DEF Attachment
<1>4. t \in [1 .. Len(s) -> Attachment]
  BY <1>1, <1>2, <1>3
<1>5. t \in Seq(Attachment)
  BY <1>1, <1>4, SeqDef
<1> QED BY <1>2, <1>3, <1>5 DEF Known

LEMMA WithoutFacts ==
    ASSUME NEW s \in Seq(Attachment), NEW j \in DOMAIN s, NEW t,
           t = SubSeq(s, 1, j - 1) \o SubSeq(s, j + 1, Len(s))
    PROVE  t \in Seq(Attachment) /\ \A i \in DOMAIN t : Known(t[i], s)
<1>1. Len(s) \in Nat /\ DOMAIN s = 1 .. Len(s) /\ j \in Int /\ \A i \in DOMAIN s : s[i] \in Attachment
  BY ItemFields
<1>2. PICK a, b : a = SubSeq(s, 1, j - 1) /\ b = SubSeq(s, j + 1, Len(s))
  OBVIOUS
<1>3. a \in Seq(Attachment) /\ Len(a) = j - 1 /\ \A i \in 1 .. j - 1 : a[i] = s[i]
  <2>1. j - 1 \in Int /\ \A i \in 1 .. (j - 1) : s[i] \in Attachment
    BY <1>1
  <2>2. /\ a \in Seq(Attachment) /\ Len(a) = IF 1 <= j - 1 THEN (j - 1) - 1 + 1 ELSE 0
        /\ \A i \in 1 .. (j - 1) - 1 + 1 : a[i] = s[1 + i - 1]
    BY <1>2, <2>1, SubSeqProperties
  <2>3. Len(a) = j - 1
    BY <1>1, <2>2
  <2>4. \A i \in 1 .. j - 1 : i \in 1 .. (j - 1) - 1 + 1 /\ 1 + i - 1 = i
    BY <1>1
  <2> QED BY <2>2, <2>3, <2>4
<1>4. b \in Seq(Attachment) /\ Len(b) = Len(s) - j /\ \A i \in 1 .. Len(s) - j : b[i] = s[j + i]
  <2>1. j + 1 \in Int /\ Len(s) \in Int /\ \A i \in (j + 1) .. Len(s) : s[i] \in Attachment
    BY <1>1
  <2>2. /\ b \in Seq(Attachment) /\ Len(b) = IF j + 1 <= Len(s) THEN Len(s) - (j + 1) + 1 ELSE 0
        /\ \A i \in 1 .. Len(s) - (j + 1) + 1 : b[i] = s[(j + 1) + i - 1]
    BY <1>2, <2>1, SubSeqProperties
  <2>3. Len(b) = Len(s) - j
    BY <1>1, <2>2
  <2>4. \A i \in 1 .. Len(s) - j : i \in 1 .. Len(s) - (j + 1) + 1 /\ (j + 1) + i - 1 = j + i
    BY <1>1
  <2> QED BY <2>2, <2>3, <2>4
<1>5. /\ t \in Seq(Attachment) /\ Len(t) = Len(a) + Len(b)
      /\ \A i \in 1 .. Len(a) + Len(b) : t[i] = IF i <= Len(a) THEN a[i] ELSE b[i - Len(a)]
  <2>1. t = a \o b
    BY <1>2
  <2>2. ASSUME NEW x \in Seq(Attachment), NEW y \in Seq(Attachment)
        PROVE  /\ x \o y \in Seq(Attachment) /\ Len(x \o y) = Len(x) + Len(y)
               /\ \A i \in 1 .. Len(x) + Len(y) : (x \o y)[i] = IF i <= Len(x) THEN x[i] ELSE y[i - Len(x)]
    BY ConcatProperties
  <2>3. /\ a \o b \in Seq(Attachment) /\ Len(a \o b) = Len(a) + Len(b)
        /\ \A i \in 1 .. Len(a) + Len(b) : (a \o b)[i] = IF i <= Len(a) THEN a[i] ELSE b[i - Len(a)]
    BY <1>3, <1>4, <2>2, Zenon
  <2> QED BY <2>1, <2>3, Zenon
<1>6. DOMAIN t = 1 .. Len(t)
  BY <1>5, LenProperties
<1>7. ASSUME NEW i \in DOMAIN t PROVE Known(t[i], s)
  <2>1. /\ i \in Int /\ 1 <= i /\ i <= Len(s) - 1 /\ i \in 1 .. Len(a) + Len(b)
        /\ Len(a) = j - 1 /\ 1 <= j /\ j <= Len(s) /\ j \in Int /\ Len(s) \in Nat
    BY <1>1, <1>3, <1>4, <1>5, <1>6, <1>7
  <2>2. CASE i <= j - 1
    <3>1. i \in 1 .. Len(s) /\ i \in 1 .. j - 1 /\ i <= Len(a)
      BY <2>1, <2>2
    <3>2. t[i] = a[i]
      BY <1>5, <2>1, <3>1
    <3>3. a[i] = s[i] /\ i \in DOMAIN s
      BY <1>1, <1>3, <3>1, Zenon
    <3> QED BY <3>2, <3>3 DEF Known
  <2>3. CASE ~(i <= j - 1)
    <3>1. PICK h, p, q, e : h = i - (j - 1) /\ p = Len(s) /\ q = Len(a) /\ e = i
      OBVIOUS
    <3>2. /\ h \in Int /\ h \in 1 .. Len(s) - j /\ j + h = i + 1 /\ i - Len(a) = h
          /\ ~(i <= Len(a)) /\ i + 1 \in 1 .. Len(s)
      <4>1. e \in Int /\ j \in Int /\ p \in Int
        BY <2>1, <3>1
      <4>2. 1 <= j /\ e <= p - 1 /\ ~(e <= j - 1) /\ h = e - (j - 1) /\ q = j - 1
        BY <2>1, <2>3, <3>1, Zenon
      <4>3. h \in Int /\ q \in Int
        BY <4>1, <4>2
      <4>4. j + h = e + 1
        BY <4>1, <4>2
      <4>5. e - q = h
        BY <4>2, Zenon
      <4>6. ~(e <= q)
        BY <4>2, Zenon
      <4>7. 1 <= h /\ h <= p - j /\ 1 <= e + 1 /\ e + 1 <= p
        BY <4>1, <4>2
      <4>8. h \in 1 .. p - j /\ e + 1 \in 1 .. p
        BY <4>1, <4>3, <4>7
      <4> QED BY <3>1, <4>3, <4>4, <4>5, <4>6, <4>8, Zenon
    <3>3. t[i] = b[i - Len(a)]
      BY <1>5, <2>1, <3>2
    <3>4. t[i] = b[h]
      BY <3>2, <3>3, Zenon
    <3>5. b[h] = s[j + h]
      BY <1>4, <3>2, Zenon
    <3>6. t[i] = s[i + 1] /\ i + 1 \in DOMAIN s
      BY <1>1, <3>2, <3>4, <3>5, Zenon
    <3> QED BY <3>6 DEF Known
  <2> QED BY <2>2, <2>3
<1> QED BY <1>5, <1>7

LEMMA StageStep ==
    ASSUME TypeInv, NEW w \in Workers, addZenyToMail(w) \/ stageMailItem(w) \/ handleRemoveItemFromMail(w)
    PROVE  Stages(w, op[w].char)
<1>0. op[w] # Idle
  BY StageKeeps, BusyAt DEF TypeInv, Pcs
<1>1. PICK c, id, k, s : c = op[w].char /\ id = op[w].id /\ k = op[w].total /\ s = op[w].items
  OBVIOUS
<1>2. c \in Chars /\ id \in Nat /\ k \in Nat /\ s \in Seq(Attachment) /\ op[w].zeny \in Nat
  BY <1>0, <1>1, VerbFields DEF TypeInv
<1>3. slot \in [Chars -> Slot] /\ slot[c] \in Slot /\ slot[c].items \in Seq(Attachment)
  BY <1>2 DEF TypeInv, Slot
<1>4. \A j \in DOMAIN s : Known(s[j], s)
  BY DEF Known
<1>5. CASE addZenyToMail(w)
  <2>1. UNCHANGED slot \/ setMailSlot(c, Staged(w, k, s))
    BY <1>1, <1>5 DEF addZenyToMail
  <2> QED BY <1>0, <1>1, <1>2, <1>4, <2>1, StageSame, StageList
<1>6. CASE handleRemoveItemFromMail(w)
  <2>1. \/ UNCHANGED slot \/ setMailSlot(c, Staged(w, 0, s))
        \/ \E j \in DOMAIN s : setMailSlot(c, Staged(w, op[w].zeny,
                                  SubSeq(s, 1, j - 1) \o SubSeq(s, j + 1, Len(s))))
    BY <1>1, <1>6 DEF handleRemoveItemFromMail
  <2>2. ASSUME NEW j \in DOMAIN s,
               setMailSlot(c, Staged(w, op[w].zeny, SubSeq(s, 1, j - 1) \o SubSeq(s, j + 1, Len(s))))
        PROVE  Stages(w, c)
    <3>1. PICK t : t = SubSeq(s, 1, j - 1) \o SubSeq(s, j + 1, Len(s))
      OBVIOUS
    <3>2. t \in Seq(Attachment) /\ \A i \in DOMAIN t : Known(t[i], s)
      BY <1>2, <3>1, WithoutFacts
    <3>3. setMailSlot(c, Staged(w, op[w].zeny, t))
      BY <2>2, <3>1
    <3> QED BY <1>0, <1>1, <1>2, <3>2, <3>3, StageList
  <2> QED BY <1>0, <1>1, <1>2, <1>4, <2>1, <2>2, StageSame, StageList
<1>7. CASE stageMailItem(w)
  <2>1. PICK total : total = k + SumOver([i \in {j \in DOMAIN s : s[j].row = id} |-> s[i].amount],
                                         {j \in DOMAIN s : s[j].row = id})
    OBVIOUS
  <2>2. PICK merged : merged = [i \in DOMAIN s |-> IF i \in {j \in DOMAIN s : s[j].row = id}
                                   THEN [s[i] EXCEPT !.amount = total] ELSE s[i]]
    OBVIOUS
  <2>3. PICK added : added = Append(s, [row |-> id, name |-> rows[id].name, amount |-> k])
    OBVIOUS
  <2>4. \/ UNCHANGED slot
        \/ slot' = [slot EXCEPT ![c].items = IF slot[c].writing THEN merged ELSE @]
        \/ setMailSlot(c, Staged(w, op[w].zeny, merged))
        \/ id \in Owned(rows, c) /\ setMailSlot(c, Staged(w, op[w].zeny, added))
    BY <1>1, <1>7, <2>1, <2>2, <2>3 DEF stageMailItem, setMailSlot
  <2>5. total \in Nat
    <3>1. PICK A : A = {j \in DOMAIN s : s[j].row = id}
      OBVIOUS
    <3>2. PICK f : f = [i \in A |-> s[i].amount]
      OBVIOUS
    <3>3. IsFiniteSet(A)
      <4>1. Len(s) \in Nat /\ DOMAIN s = 1 .. Len(s)
        BY <1>2, ItemFields
      <4>2. IsFiniteSet(DOMAIN s)
        BY <4>1, FS_Interval
      <4> QED BY <3>1, <4>2, FS_Subset
    <3>4. \A i \in A : f[i] \in Nat
      BY <1>2, <3>1, <3>2, ItemFields
    <3>5. SumOver(f, A) \in Nat
      BY <3>3, <3>4, SumNat
    <3> QED BY <1>2, <2>1, <3>1, <3>2, <3>5
  <2>6. merged \in Seq(Attachment) /\ \A j \in DOMAIN merged : Known(merged[j], s)
    BY <1>2, <2>2, <2>5, MergedFacts
  <2>7. CASE slot' = [slot EXCEPT ![c].items = IF slot[c].writing THEN merged ELSE @]
    <3>1. PICK r \in Slot : r = slot[c]
      BY <1>3
    <3>2. PICK q : q = [r EXCEPT !.items = IF r.writing THEN merged ELSE r.items]
      OBVIOUS
    <3>3. q \in Slot /\ q.items \in {merged, slot[c].items}
      BY <1>3, <2>6, <3>1, <3>2 DEF Slot
    <3>4. slot' = [slot EXCEPT ![c] = q]
      BY <1>3, <2>7, <3>1, <3>2
    <3>5. \A j \in DOMAIN q.items : Known(q.items[j], slot[c].items) \/ Known(q.items[j], op[w].items)
      BY <1>1, <2>6, <3>3 DEF Known
    <3> QED BY <1>1, <3>3, <3>4, <3>5 DEF Stages
  <2>8. ASSUME id \in Owned(rows, c), setMailSlot(c, Staged(w, op[w].zeny, added))
        PROVE  Stages(w, c)
    <3>1. PICK a : a = [row |-> id, name |-> rows[id].name, amount |-> k]
      OBVIOUS
    <3>2. id \in DOMAIN rows /\ rows[id] \in Row
      BY <2>8 DEF Owned, TypeInv, RowsOK
    <3>3. a \in Attachment /\ Bagged(a)
      BY <1>2, <3>1, <3>2 DEF Attachment, Bagged, Row
    <3>4. /\ added \in Seq(Attachment) /\ DOMAIN added = 1 .. Len(s) + 1
          /\ \A j \in 1 .. Len(s) : added[j] = s[j]
          /\ added[Len(s) + 1] = a
      <4>1. added = Append(s, a) /\ Len(s) \in Nat
        BY <1>2, <2>3, <3>1, ItemFields
      <4>2. /\ added \in Seq(Attachment) /\ Len(added) = Len(s) + 1
            /\ \A j \in 1 .. Len(s) : added[j] = s[j]
            /\ added[Len(s) + 1] = a
        BY <1>2, <3>3, <4>1, AppendProperties
      <4> QED BY <4>1, <4>2, LenProperties
    <3>5. ASSUME NEW j \in DOMAIN added PROVE Known(added[j], s) \/ Bagged(added[j])
      <4>1. Len(s) \in Nat /\ DOMAIN s = 1 .. Len(s)
        BY <1>2, ItemFields
      <4>2. j \in DOMAIN s \/ j = Len(s) + 1
        BY <3>4, <3>5, <4>1
      <4> QED BY <1>4, <3>3, <3>4, <4>1, <4>2
    <3> QED BY <1>0, <1>1, <1>2, <2>8, <3>4, <3>5, StageList
  <2> QED BY <1>0, <1>1, <1>2, <2>4, <2>6, <2>7, <2>8, StageSame, StageList
<1> QED BY <1>5, <1>6, <1>7

-----------------------------------------------------------------------------
\* Types.

\* A row never changes its name, and no id is given twice.
RowsLast == /\ nextId <= nextId'
            /\ \A i \in DOMAIN rows' : i < nextId => i \in DOMAIN rows /\ rows'[i].name = rows[i].name


\* What a removal relies on, whatever else was written since its load: the row, if it is
\* there, has no more than what was loaded and what others were recorded to take twice.
Sound(id, n, loaded, k) ==
    /\ k <= loaded /\ id < nextId
    /\ id \in DOMAIN rows => rows[id].name = n /\ rows[id].amount <= loaded + Twice(n, id)
\* What a verb, or another handler, is about to write is a balance, or a sound removal.
VerbSound(r, loaded) ==
    /\ r.pc = "pay" => loaded - r.total \in Balances
    /\ r.pc = "repay" => loaded + r.total \in Balances
    /\ r.pc = "collect" => loaded + r.zeny \in Balances
    /\ r.pc = "take" => Sound(r.items[r.i].row, r.items[r.i].name, loaded, r.items[r.i].amount)
MoveSound(x) ==
    /\ x.kind = "zeny" => x.loaded + x.by \in Balances
    /\ x.kind = "bag" => Sound(x.row, x.name, x.loaded, x.amount)
LoadInv ==
    /\ \A w \in Workers : op[w] # Idle => VerbSound(op[w], read[w])
    /\ \A o \in Others : MoveSound(ext[o])

\* A sound removal is written.
Removes(id, n, loaded, k) ==
    Sound(id, n, loaded, k) /\ Remove(id, n, loaded, k) /\ UNCHANGED nextId

LEMMA TakeRemoves ==
    ASSUME TypeInv, LoadInv, NEW w \in Workers, Take(w)
    PROVE  /\ op[w] # Idle /\ op[w].pc = "take" /\ More(w) /\ op[w].i \in DOMAIN op[w].items
           /\ Item(w).row \in Nat /\ Item(w).name \in Names /\ Item(w).amount \in Nat /\ read[w] \in Nat
           /\ Removes(Item(w).row, Item(w).name, read[w], Item(w).amount)
<1>1. op[w] # Idle /\ op[w].pc = "take" /\ OpsOK
  BY BusyAt DEF TypeInv, Take, At, Pcs, SendPcs
<1>2. op[w].i \in 1 .. Len(op[w].items) /\ Len(op[w].items) \in Nat
  BY <1>1, VerbFields
<1>3. More(w)
  BY <1>2 DEF More
<1>4. Sound(Item(w).row, Item(w).name, read[w], Item(w).amount)
  BY <1>1 DEF LoadInv, VerbSound, Item
<1>5. read[w] \in Nat
  BY DEF TypeInv, MovesOK
<1> QED BY <1>1, <1>3, <1>4, <1>5, ItemType DEF Take, Removes

LEMMA MoveKinds ==
    ASSUME TypeInv, NEW o \in Others
    PROVE  /\ ext[o].kind = "zeny" => ext[o] \in ZenyMoves /\ ext[o].char \in Chars
                                      /\ ext[o].by \in Int /\ ext[o].loaded \in Nat
           /\ ext[o].kind = "bag" => ext[o] \in BagMoves /\ ext[o].row \in Nat /\ ext[o].name \in Names
                                     /\ ext[o].amount \in Nat /\ ext[o].loaded \in Nat
BY DEF TypeInv, MovesOK, ZenyMoves, BagMoves, NoMove

LEMMA MoveRemoves ==
    ASSUME TypeInv, LoadInv, NEW o \in Others, MoveUnits(o)
    PROVE  /\ ext[o].row \in Nat /\ ext[o].name \in Names /\ ext[o].amount \in Nat /\ ext[o].loaded \in Nat
           /\ Removes(ext[o].row, ext[o].name, ext[o].loaded, ext[o].amount)
BY MoveKinds DEF MoveUnits, LoadInv, MoveSound, Removes

\* What a step does to the bags.
LEMMA BagSteps ==
    ASSUME TypeInv, LoadInv, [Next]_vars
    PROVE  \/ UNCHANGED <<rows, nextId, doubled>>
           \/ UNCHANGED <<rows, doubled>> /\ nextId' = nextId + 1
           \/ /\ UNCHANGED doubled /\ nextId' = nextId + 1
              /\ \E c \in Chars, n \in Names, k \in Nat : rows' = AddRow(rows, nextId, c, n, k)
           \/ \E id \in Nat, n \in Names, loaded \in Nat, k \in Nat : Removes(id, n, loaded, k)
<1>1. ASSUME NEW w \in Workers, CreateInsert(w) PROVE UNCHANGED rows /\ nextId' = nextId + 1
  BY <1>1 DEF CreateInsert
<1>2. ASSUME NEW w \in Workers, ReturnItem(w) \/ CollectAdd(w)
      PROVE  /\ nextId' = nextId + 1
             /\ \E c \in Chars, n \in Names, k \in Nat : rows' = AddRow(rows, nextId, c, n, k)
  <2>1. op[w] # Idle /\ OpsOK
    BY <1>2, BusyAt DEF TypeInv, ReturnItem, CollectAdd, At, Pcs, SendPcs, CollectPcs
  <2>2. /\ More(w) /\ nextId' = nextId + 1
        /\ rows' = AddRow(rows, nextId, op[w].char, Item(w).name, Item(w).amount)
    BY <1>2 DEF ReturnItem, CollectAdd
  <2>3. Item(w).name \in Names /\ Item(w).amount \in Nat /\ op[w].char \in Chars
    BY <2>1, <2>2, ItemType, VerbFields
  <2> QED BY <2>2, <2>3
<1> QED BY <1>1, <1>2, TakeRemoves, MoveRemoves, Writers

LEMMA RemovesRows ==
    ASSUME RowsOK, NEW id \in Nat, NEW n \in Names, NEW loaded \in Nat, NEW k \in Nat,
           Removes(id, n, loaded, k)
    PROVE  /\ UNCHANGED nextId /\ k <= loaded /\ RowsOK' /\ DOMAIN rows' \subseteq DOMAIN rows
           /\ \A x \in DOMAIN rows \ {id} : rows'[x] = rows[x]
           /\ id \in DOMAIN rows' => rows'[id].name = rows[id].name /\ rows'[id].amount = loaded - k
<1>1. k <= loaded /\ UNCHANGED nextId /\ rows' = RemoveWrite(rows, id, loaded, k)
  BY DEF Removes, Sound, Remove
<1> QED BY <1>1, TakeFacts

LEMMA RowsStep ==
    ASSUME TypeInv, LoadInv, [Next]_vars
    PROVE  RowsOK' /\ RowsLast
<1>0. RowsOK /\ nextId \in Nat
  BY DEF TypeInv, RowsOK
<1>1. CASE UNCHANGED <<rows, nextId>>
  BY <1>0, <1>1 DEF RowsOK, RowsLast
<1>2. CASE UNCHANGED rows /\ nextId' = nextId + 1
  BY <1>0, <1>2 DEF RowsOK, RowsLast
<1>3. ASSUME NEW c \in Chars, NEW n \in Names, NEW k \in Nat,
             rows' = AddRow(rows, nextId, c, n, k), nextId' = nextId + 1
      PROVE  RowsOK' /\ RowsLast
  BY <1>0, <1>3, AddRowFacts DEF RowsLast
<1>4. ASSUME NEW id \in Nat, NEW n \in Names, NEW loaded \in Nat, NEW k \in Nat, Removes(id, n, loaded, k)
      PROVE  RowsOK' /\ RowsLast
  <2>1. /\ RowsOK' /\ UNCHANGED nextId /\ DOMAIN rows' \subseteq DOMAIN rows
        /\ \A i \in DOMAIN rows \ {id} : rows'[i] = rows[i]
        /\ id \in DOMAIN rows' => rows'[id].name = rows[id].name
    BY <1>0, <1>4, RemovesRows
  <2> QED BY <1>0, <2>1 DEF RowsLast
<1> QED BY <1>1, <1>2, <1>3, <1>4, BagSteps

LEMMA RecordFacts ==
    ASSUME TwiceOK, NEW n \in Names, NEW id, NEW k \in Nat, Record(n, id, k)
    PROVE  /\ DOMAIN doubled' = Names
           /\ \A m \in Names : doubled'[m] \in [DOMAIN doubled'[m] -> Nat]
           /\ DOMAIN doubled'[n] = DOMAIN doubled[n] \cup {id} /\ doubled'[n][id] = k
           /\ \A i \in DOMAIN doubled[n] \ {id} : doubled'[n][i] = doubled[n][i]
           /\ \A m \in Names \ {n} : doubled'[m] = doubled[m]
<1>1. PICK f : f = [i \in DOMAIN doubled[n] \cup {id} |-> IF i = id THEN k ELSE doubled[n][i]]
  OBVIOUS
<1>2. doubled' = [doubled EXCEPT ![n] = f]
  BY <1>1 DEF Record
<1>3. /\ DOMAIN f = DOMAIN doubled[n] \cup {id} /\ f[id] = k
      /\ \A i \in DOMAIN doubled[n] \ {id} : f[i] = doubled[n][i]
  BY <1>1
<1>4. f \in [DOMAIN f -> Nat]
  <2>1. \A i \in DOMAIN f : f[i] \in Nat
    BY <1>3 DEF TwiceOK
  <2> QED BY <1>1, <2>1
<1>5. DOMAIN doubled' = Names /\ doubled'[n] = f /\ \A m \in Names \ {n} : doubled'[m] = doubled[m]
  BY <1>2 DEF TwiceOK
<1> QED BY <1>3, <1>4, <1>5 DEF TwiceOK

\* The removal of k units: what is left of the row, and what is recorded as taken twice.
LEMMA RemovesFacts ==
    ASSUME TypeInv, NEW id \in Nat, NEW n \in Names, NEW loaded \in Nat, NEW k \in Nat,
           Removes(id, n, loaded, k)
    PROVE  /\ TwiceOK' /\ RowsOK' /\ Twice(n, id) \in Nat /\ Twice(n, id)' \in Nat
           /\ id \in DOMAIN rows => Twice(n, id)' = Twice(n, id) + loaded - rows[id].amount
           /\ id \notin DOMAIN rows => Twice(n, id)' = Twice(n, id) + k
           /\ \A m \in Names : \A i : i # id \/ m # n => Twice(m, i)' = Twice(m, i)
           /\ DOMAIN doubled'[n] = DOMAIN doubled[n] \cup {id}
           /\ \A i \in DOMAIN doubled[n] \ {id} : doubled'[n][i] = doubled[n][i]
           /\ \A m \in Names \ {n} : doubled'[m] = doubled[m]
<1>0. RowsOK /\ TwiceOK /\ nextId \in Nat /\ \A i \in DOMAIN rows : rows[i].amount \in Nat
  BY DEF TypeInv, RowsOK, Row
<1>1. Twice(n, id) \in Nat
  BY <1>0 DEF Twice, TwiceOK
<1>2. /\ k <= loaded /\ id < nextId /\ UNCHANGED nextId /\ rows' = RemoveWrite(rows, id, loaded, k)
      /\ Record(n, id, Twice(n, id) + (IF id \in DOMAIN rows THEN loaded - rows[id].amount ELSE k))
      /\ id \in DOMAIN rows => rows[id].amount <= loaded + Twice(n, id)
  BY DEF Removes, Sound, Remove
<1>3. RowsOK'
  BY <1>0, <1>2, TakeFacts
<1>4. PICK e : e = Twice(n, id) + (IF id \in DOMAIN rows THEN loaded - rows[id].amount ELSE k)
  OBVIOUS
<1>5. e \in Nat
  <2>1. CASE id \in DOMAIN rows
    BY <1>0, <1>1, <1>2, <1>4, <2>1
  <2>2. CASE id \notin DOMAIN rows
    BY <1>1, <1>4, <2>2
  <2> QED BY <2>1, <2>2
<1>6. /\ DOMAIN doubled' = Names
      /\ \A m \in Names : doubled'[m] \in [DOMAIN doubled'[m] -> Nat]
      /\ DOMAIN doubled'[n] = DOMAIN doubled[n] \cup {id} /\ doubled'[n][id] = e
      /\ \A i \in DOMAIN doubled[n] \ {id} : doubled'[n][i] = doubled[n][i]
      /\ \A m \in Names \ {n} : doubled'[m] = doubled[m]
  BY <1>0, <1>2, <1>4, <1>5, RecordFacts
<1>7. Twice(n, id)' = e
  BY <1>6 DEF Twice
<1>8. \A m \in Names : \A i : i # id \/ m # n => Twice(m, i)' = Twice(m, i)
  BY <1>6 DEF Twice
<1>9. \A m \in Names : DOMAIN doubled'[m] \subseteq 0 .. nextId' - 1
  <2>1. \A m \in Names : DOMAIN doubled[m] \subseteq 0 .. nextId - 1
    BY <1>0 DEF TwiceOK
  <2>2. id \in 0 .. nextId - 1
    BY <1>0, <1>2
  <2>3. DOMAIN doubled'[n] \subseteq 0 .. nextId - 1
    BY <1>6, <2>1, <2>2
  <2> QED BY <1>2, <1>6, <2>1, <2>3
<1> QED BY <1>0, <1>1, <1>3, <1>4, <1>5, <1>6, <1>7, <1>8, <1>9 DEF TwiceOK

LEMMA TwiceStep ==
    ASSUME TypeInv, LoadInv, [Next]_vars
    PROVE  TwiceOK'
<1>0. TwiceOK /\ nextId \in Nat
  BY DEF TypeInv, RowsOK
<1>1. CASE UNCHANGED doubled /\ nextId' \in {nextId, nextId + 1}
  <2>1. PICK a \in Nat, b \in Nat : a = nextId /\ b = nextId'
    BY <1>0, <1>1
  <2>2. b \in {a, a + 1}
    BY <1>1, <2>1
  <2>3. 0 .. a - 1 \subseteq 0 .. b - 1
    BY <2>2
  <2>4. 0 .. nextId - 1 \subseteq 0 .. nextId' - 1
    BY <2>1, <2>3
  <2> QED BY <1>0, <1>1, <2>4 DEF TwiceOK
<1> QED BY <1>1, BagSteps, RemovesFacts

\* A load stays sound, whatever is written after it.
LEMMA SoundStep ==
    ASSUME TypeInv, LoadInv, [Next]_vars, NEW id \in Nat, NEW n \in Names, NEW loaded \in Nat,
           NEW k \in Nat, Sound(id, n, loaded, k)
    PROVE  Sound(id, n, loaded, k)'
<1>0. RowsOK /\ nextId \in Nat /\ (\A i \in DOMAIN rows : rows[i].amount \in Nat)
      /\ Twice(n, id) \in Nat
  BY DEF TypeInv, RowsOK, Row, Twice, TwiceOK
<1>1. CASE UNCHANGED <<rows, doubled>> /\ nextId' \in {nextId, nextId + 1}
  BY <1>0, <1>1 DEF Sound, Twice
<1>2. ASSUME NEW c \in Chars, NEW m \in Names, NEW j \in Nat, UNCHANGED doubled,
             rows' = AddRow(rows, nextId, c, m, j), nextId' = nextId + 1
      PROVE  Sound(id, n, loaded, k)'
  <2>1. DOMAIN rows' = DOMAIN rows \cup {nextId} /\ \A i \in DOMAIN rows : rows'[i] = rows[i]
    BY <1>0, <1>2, AddRowFacts
  <2>2. id # nextId /\ id < nextId'
    BY <1>0, <1>2 DEF Sound
  <2>3. Twice(n, id)' = Twice(n, id)
    BY <1>2 DEF Twice
  <2> QED BY <2>1, <2>2, <2>3 DEF Sound
<1>3. ASSUME NEW i \in Nat, NEW m \in Names, NEW j \in Nat, NEW l \in Nat, Removes(i, m, l, j)
      PROVE  Sound(id, n, loaded, k)'
  <2>1. UNCHANGED nextId /\ j <= l
    BY <1>0, <1>3, RemovesRows
  <2>2. /\ DOMAIN rows' \subseteq DOMAIN rows
        /\ \A x \in DOMAIN rows \ {i} : rows'[x] = rows[x]
        /\ i \in DOMAIN rows' => rows'[i].name = rows[i].name /\ rows'[i].amount = l - j
    BY <1>0, <1>3, RemovesRows
  <2>3. k <= loaded /\ id < nextId'
    BY <2>1 DEF Sound
  <2>4. CASE id # i
    <3>1. Twice(n, id)' = Twice(n, id)
      BY <1>3, <2>4, RemovesFacts
    <3> QED BY <2>2, <2>3, <2>4, <3>1 DEF Sound
  <2>5. CASE id = i /\ id \in DOMAIN rows'
    <3>1. id \in DOMAIN rows /\ rows[id].name = n /\ rows[id].amount <= loaded + Twice(n, id)
      BY <2>2, <2>5 DEF Sound
    <3>2. m = n
      BY <1>3, <2>5, <3>1 DEF Removes, Sound
    <3>3. Twice(n, id)' = Twice(n, id) + l - rows[id].amount /\ Twice(n, id)' \in Nat
      BY <1>3, <2>5, <3>1, <3>2, RemovesFacts
    <3>4. rows'[id].name = n /\ rows'[id].amount = l - j
      BY <2>2, <2>5, <3>1
    <3>5. l - j <= loaded + Twice(n, id)'
      BY <1>0, <2>1, <3>1, <3>3
    <3> QED BY <2>3, <3>4, <3>5 DEF Sound
  <2>6. CASE id \notin DOMAIN rows'
    BY <2>3, <2>6 DEF Sound
  <2> QED BY <2>4, <2>5, <2>6
<1> QED BY <1>1, <1>2, <1>3, BagSteps

\* The letters: their receivers are never changed, and a statement of a verb or a frame
\* of c touches no letter of somebody else.
SameLetter(m) == /\ m \in DOMAIN mail /\ m \in DOMAIN mail'
                 /\ mail'[m].dest = mail[m].dest /\ mail'[m].zeny = mail[m].zeny
                 /\ mail'[m].items = mail[m].items
\* At most letter m comes, goes or is emptied.
OnlyLetter(m) == /\ DOMAIN mail' \ {m} = DOMAIN mail \ {m}
                 /\ \A x \in DOMAIN mail \ {m} : SameLetter(x)
SameLetters == DOMAIN mail' = DOMAIN mail /\ \A x \in DOMAIN mail : SameLetter(x)

LEMMA ListedFacts ==
    ASSUME NEW t, t \in [DOMAIN t -> Letter], NEW c, NEW u, u = Listed(c, t)
    PROVE  /\ u \in [DOMAIN t -> Letter] /\ DOMAIN u = DOMAIN t
           /\ \A m \in DOMAIN t : /\ u[m].dest = t[m].dest /\ u[m].zeny = t[m].zeny
                                  /\ u[m].items = t[m].items
<1>1. DOMAIN u = DOMAIN t
  BY DEF Listed
<1>2. ASSUME NEW m \in DOMAIN t
      PROVE  /\ u[m] \in Letter /\ u[m].dest = t[m].dest /\ u[m].zeny = t[m].zeny
             /\ u[m].items = t[m].items
  <2>1. PICK r \in Letter : r = t[m]
    OBVIOUS
  <2>2. PICK q : q = [r EXCEPT !.status = "unread"]
    OBVIOUS
  <2>3. q \in Letter /\ q.dest = r.dest /\ q.zeny = r.zeny /\ q.items = r.items
    BY <2>2 DEF Letter, Statuses
  <2>4. u[m] \in {q, r}
    BY <2>1, <2>2 DEF Listed
  <2> QED BY <2>1, <2>3, <2>4
<1>3. u = [m \in DOMAIN t |-> u[m]]
  BY <1>1 DEF Listed
<1> QED BY <1>1, <1>2, <1>3

LEMMA LetterAt ==
    ASSUME TypeInv, NEW m \in DOMAIN mail
    PROVE  /\ mail[m] \in Letter /\ mail[m].dest \in Chars /\ mail[m].zeny \in Nat
           /\ mail[m].items \in Seq(Attachment) /\ m \in Nat /\ m < nextId
BY DEF TypeInv, MailOK, RowsOK, Letter

\* A character's verbs run one at a time.
Serial == \A v, w \in Workers : v # w /\ op[v] # Idle /\ op[w] # Idle => op[v].char # op[w].char
\* A collection knows its letter: it is still there, with what the verb read in it, or
\* with its zeny column cleared by the verb itself.
Reads(r) ==
    /\ r.id \in DOMAIN mail /\ mail[r.id].dest = r.char
    /\ r.pc = "clear" => mail[r.id].zeny = r.zeny
    /\ r.pc \in {"credit", "collect", "restore"} => mail[r.id].zeny = 0
    /\ r.pc = "add" => mail[r.id].items = r.items
LetterInv == \A w \in Workers : op[w] # Idle /\ op[w].pc \in CollectPcs => Reads(op[w])

LEMMA FrameLetters ==
    ASSUME TypeInv, NEW w \in Workers, NEW c \in Chars
    PROVE  /\ handleOpenMailbox(w, c) => MailOK' /\ SameLetters
           /\ \A m \in DOMAIN mail :
                 /\ handleReadMail(w, c, m) => MailOK' /\ SameLetters
                 /\ handleDeleteMail(w, c, m) =>
                       /\ MailOK' /\ OnlyLetter(m) /\ m \notin DOMAIN mail' /\ mail[m].dest = c
                       /\ mail[m].zeny = 0 /\ mail[m].items = << >>
<1>0. mail \in [DOMAIN mail -> Letter] /\ DOMAIN mail \subseteq 1 .. nextId - 1
  BY DEF TypeInv, MailOK
<1>1. ASSUME handleOpenMailbox(w, c) PROVE MailOK' /\ SameLetters
  <2>1. mail' = Listed(c, mail) /\ nextId' = nextId
    BY <1>1 DEF handleOpenMailbox
  <2>2. /\ mail' \in [DOMAIN mail -> Letter] /\ DOMAIN mail' = DOMAIN mail
        /\ \A m \in DOMAIN mail : /\ mail'[m].dest = mail[m].dest /\ mail'[m].zeny = mail[m].zeny
                                  /\ mail'[m].items = mail[m].items
    BY <1>0, <2>1, ListedFacts
  <2> QED BY <1>0, <2>1, <2>2 DEF MailOK, SameLetters, SameLetter
<1>2. ASSUME NEW m \in DOMAIN mail, handleReadMail(w, c, m) PROVE MailOK' /\ SameLetters
  <2>1. mail' = [mail EXCEPT ![m].status = "read"] /\ nextId' = nextId
    BY <1>2 DEF handleReadMail
  <2>2. PICK r \in Letter : r = mail[m]
    BY <1>0
  <2>3. PICK q : q = [r EXCEPT !.status = "read"]
    OBVIOUS
  <2>4. q \in Letter /\ q.dest = r.dest /\ q.zeny = r.zeny /\ q.items = r.items
    BY <2>3 DEF Letter, Statuses
  <2>5. mail' = [mail EXCEPT ![m] = q]
    BY <2>1, <2>2, <2>3
  <2> QED BY <1>0, <2>1, <2>2, <2>4, <2>5 DEF MailOK, SameLetters, SameLetter
<1>3. ASSUME NEW m \in DOMAIN mail, handleDeleteMail(w, c, m)
      PROVE  /\ MailOK' /\ OnlyLetter(m) /\ m \notin DOMAIN mail' /\ mail[m].dest = c
             /\ mail[m].zeny = 0 /\ mail[m].items = << >>
  <2>1. /\ mail' = [i \in DOMAIN mail \ {m} |-> mail[i]] /\ nextId' = nextId
        /\ m \in InboxOf(c) /\ Deletable(m)
    BY <1>3 DEF handleDeleteMail
  <2> QED BY <1>0, <2>1 DEF MailOK, OnlyLetter, SameLetter, InboxOf, Deletable
<1> QED BY <1>1, <1>2, <1>3

LEMMA NewLetter ==
    ASSUME TypeInv, NEW w \in Workers, CreateInsert(w)
    PROVE  /\ MailOK' /\ OnlyLetter(nextId) /\ nextId \notin DOMAIN mail
           /\ nextId \in DOMAIN mail' /\ mail'[nextId].zeny = op[w].zeny
           /\ mail'[nextId].items = op[w].items
<1>0. /\ mail \in [DOMAIN mail -> Letter] /\ DOMAIN mail \subseteq 1 .. nextId - 1
      /\ nextId \in Nat \ {0} /\ nextId \notin DOMAIN mail
  BY DEF TypeInv, MailOK, RowsOK
<1>1. op[w] # Idle
  BY BusyAt DEF TypeInv, CreateInsert, At, Pcs, SendPcs
<1>2. PICK m : m = [dest |-> op[w].to, zeny |-> op[w].zeny, items |-> op[w].items, status |-> "new"]
  OBVIOUS
<1>3. m \in Letter
  BY <1>1, <1>2, VerbFields DEF TypeInv, Letter, Statuses
<1>4. /\ mail' = [i \in DOMAIN mail \cup {nextId} |-> IF i = nextId THEN m ELSE mail[i]]
      /\ nextId' = nextId + 1
  BY <1>2 DEF CreateInsert
<1>5. mail' \in [DOMAIN mail' -> Letter]
  BY <1>0, <1>3, <1>4
<1>6. DOMAIN mail' \subseteq 1 .. nextId' - 1
  BY <1>0, <1>4
<1>7. OnlyLetter(nextId) /\ nextId \in DOMAIN mail' /\ mail'[nextId] = m
  BY <1>0, <1>4 DEF OnlyLetter, SameLetter
<1> QED BY <1>0, <1>2, <1>5, <1>6, <1>7 DEF MailOK

LEMMA SetLetter ==
    ASSUME TypeInv, NEW m \in DOMAIN mail, NEW q \in Letter, q.dest = mail[m].dest, UNCHANGED nextId,
           mail' = [mail EXCEPT ![m] = q]
    PROVE  /\ MailOK' /\ OnlyLetter(m) /\ DOMAIN mail' = DOMAIN mail /\ mail'[m] = q
<1>0. mail \in [DOMAIN mail -> Letter] /\ DOMAIN mail \subseteq 1 .. nextId - 1
  BY DEF TypeInv, MailOK
<1> QED BY <1>0 DEF MailOK, OnlyLetter, SameLetter

LEMMA CollectLetters ==
    ASSUME TypeInv, LetterInv, NEW w \in Workers
    PROVE  /\ ClearZeny(w) =>
                /\ MailOK' /\ OnlyLetter(op[w].id) /\ DOMAIN mail' = DOMAIN mail
                /\ op[w].id \in DOMAIN mail /\ mail'[op[w].id].zeny = 0
                /\ mail'[op[w].id].dest = mail[op[w].id].dest
                /\ mail'[op[w].id].items = mail[op[w].id].items
           /\ SetZeny(w) =>
                /\ MailOK' /\ OnlyLetter(op[w].id) /\ DOMAIN mail' = DOMAIN mail
                /\ op[w].id \in DOMAIN mail /\ mail'[op[w].id].zeny = op[w].zeny
                /\ mail'[op[w].id].items = mail[op[w].id].items
           /\ ClearItems(w) =>
                /\ MailOK' /\ OnlyLetter(op[w].id) /\ DOMAIN mail' = DOMAIN mail
                /\ op[w].id \in DOMAIN mail /\ mail'[op[w].id].zeny = mail[op[w].id].zeny
                /\ mail'[op[w].id].items = << >>
           /\ Collect(w) => MailOK' /\ SameLetters
<1>0. mail \in [DOMAIN mail -> Letter] /\ DOMAIN mail \subseteq 1 .. nextId - 1 /\ OpsOK
  BY DEF TypeInv, MailOK
<1>1. ClearZeny(w) \/ SetZeny(w) \/ ClearItems(w) => op[w] # Idle /\ op[w].pc \in CollectPcs
  BY <1>0, BusyAt DEF ClearZeny, SetZeny, ClearItems, At, Pcs, CollectPcs
<1>2. ASSUME ClearZeny(w) \/ SetZeny(w) \/ ClearItems(w)
      PROVE  op[w].id \in DOMAIN mail /\ op[w].zeny \in Nat
  BY <1>0, <1>1, <1>2, VerbFields DEF LetterInv, Reads
<1>3. ASSUME NEW m \in DOMAIN mail, NEW z \in Nat, mail' = [mail EXCEPT ![m].zeny = z], UNCHANGED nextId
      PROVE  /\ MailOK' /\ OnlyLetter(m) /\ DOMAIN mail' = DOMAIN mail /\ mail'[m].zeny = z
             /\ mail'[m].dest = mail[m].dest /\ mail'[m].items = mail[m].items
  <2>1. PICK r \in Letter : r = mail[m]
    BY <1>0
  <2>2. PICK q : q = [r EXCEPT !.zeny = z]
    OBVIOUS
  <2>3. q \in Letter /\ q.dest = r.dest /\ q.zeny = z /\ q.items = r.items
    BY <2>2 DEF Letter
  <2>4. mail' = [mail EXCEPT ![m] = q]
    BY <1>3, <2>1, <2>2
  <2> QED BY <1>3, <2>1, <2>3, <2>4, SetLetter
<1>4. ASSUME ClearZeny(w)
      PROVE  /\ MailOK' /\ OnlyLetter(op[w].id) /\ DOMAIN mail' = DOMAIN mail
             /\ op[w].id \in DOMAIN mail /\ mail'[op[w].id].zeny = 0
             /\ mail'[op[w].id].dest = mail[op[w].id].dest
             /\ mail'[op[w].id].items = mail[op[w].id].items
  <2>1. mail' = [mail EXCEPT ![op[w].id].zeny = 0] /\ UNCHANGED nextId
    BY <1>4 DEF ClearZeny
  <2> QED BY <1>2, <1>3, <1>4, <2>1
<1>5. ASSUME SetZeny(w)
      PROVE  /\ MailOK' /\ OnlyLetter(op[w].id) /\ DOMAIN mail' = DOMAIN mail
             /\ op[w].id \in DOMAIN mail /\ mail'[op[w].id].zeny = op[w].zeny
             /\ mail'[op[w].id].items = mail[op[w].id].items
  <2>1. mail' = [mail EXCEPT ![op[w].id].zeny = op[w].zeny] /\ UNCHANGED nextId
    BY <1>5 DEF SetZeny
  <2> QED BY <1>2, <1>3, <1>5, <2>1
<1>6. ASSUME ClearItems(w)
      PROVE  /\ MailOK' /\ OnlyLetter(op[w].id) /\ DOMAIN mail' = DOMAIN mail
             /\ op[w].id \in DOMAIN mail /\ mail'[op[w].id].zeny = mail[op[w].id].zeny
             /\ mail'[op[w].id].items = << >>
  <2>1. PICK m \in DOMAIN mail : m = op[w].id
    BY <1>2, <1>6
  <2>2. PICK r \in Letter : r = mail[m]
    BY <1>0
  <2>3. PICK q : q = [r EXCEPT !.items = << >>]
    OBVIOUS
  <2>4. q \in Letter /\ q.dest = r.dest /\ q.zeny = r.zeny /\ q.items = << >>
    BY <2>3, EmptySeq DEF Letter
  <2>5. PICK t : t = [mail EXCEPT ![m] = q]
    OBVIOUS
  <2>6. /\ t \in [DOMAIN t -> Letter] /\ DOMAIN t = DOMAIN mail /\ t[m] = q
        /\ \A x \in DOMAIN mail \ {m} : t[x] = mail[x]
    BY <1>0, <2>4, <2>5
  <2>7. mail' = Listed(op[w].char, t) /\ UNCHANGED nextId
    <3>1. [mail EXCEPT ![op[w].id].items = << >>] = t
      BY <2>1, <2>2, <2>3, <2>5
    <3> QED BY <1>6, <3>1 DEF ClearItems
  <2>8. /\ mail' \in [DOMAIN t -> Letter] /\ DOMAIN mail' = DOMAIN t
        /\ \A x \in DOMAIN t : /\ mail'[x].dest = t[x].dest /\ mail'[x].zeny = t[x].zeny
                               /\ mail'[x].items = t[x].items
    BY <2>6, <2>7, ListedFacts
  <2>9. MailOK' /\ DOMAIN mail' = DOMAIN mail
    BY <1>0, <2>6, <2>7, <2>8 DEF MailOK
  <2>10. OnlyLetter(m)
    BY <2>6, <2>8 DEF OnlyLetter, SameLetter
  <2>11. mail'[m].zeny = mail[m].zeny /\ mail'[m].items = << >>
    BY <2>2, <2>4, <2>6, <2>8
  <2> QED BY <2>1, <2>9, <2>10, <2>11
<1>7. ASSUME Collect(w) PROVE MailOK' /\ SameLetters
  <2>1. UNCHANGED nextId /\ mail' = Listed(op[w].char, mail)
    BY <1>7 DEF Collect
  <2>2. /\ mail' \in [DOMAIN mail -> Letter] /\ DOMAIN mail' = DOMAIN mail
        /\ \A m \in DOMAIN mail : /\ mail'[m].dest = mail[m].dest /\ mail'[m].zeny = mail[m].zeny
                                  /\ mail'[m].items = mail[m].items
    BY <1>0, <2>1, ListedFacts
  <2> QED BY <1>0, <2>1, <2>2 DEF MailOK, SameLetters, SameLetter
<1> QED BY <1>4, <1>5, <1>6, <1>7

LEMMA MailStep ==
    ASSUME TypeInv, LetterInv, LoadInv, [Next]_vars
    PROVE  MailOK'
<1>0. /\ MailOK /\ RowsOK' /\ RowsOK /\ nextId <= nextId'
  BY RowsStep DEF TypeInv, RowsLast
<1>1. CASE UNCHANGED mail
  BY <1>0, <1>1 DEF MailOK, RowsOK
<1> QED BY <1>1, Writers, FrameLetters, NewLetter, CollectLetters

\* A purse is written with a balance.
LEMMA Purse ==
    ASSUME TypeInv, LoadInv, [Next]_vars
    PROVE  \/ UNCHANGED <<zeny, overwritten>>
           \/ \E c \in Chars, loaded \in Nat, by \in Int :
                 loaded + by \in Balances /\ UpdateZeny(c, loaded, by)
<1>0. OpsOK
  BY DEF TypeInv
<1>1. ASSUME NEW w \in Workers, Pay(w) \/ Repay(w) \/ Collect(w)
      PROVE  \E c \in Chars, loaded \in Nat, by \in Int :
                 loaded + by \in Balances /\ UpdateZeny(c, loaded, by)
  <2>1. op[w] # Idle
    BY <1>0, <1>1, BusyAt DEF Pay, Repay, Collect, At, Pcs, SendPcs, CollectPcs
  <2>2. PICK c \in Chars, k \in Nat, z \in Nat, l \in Nat :
           c = op[w].char /\ k = op[w].total /\ z = op[w].zeny /\ l = read[w]
    BY <1>0, <2>1, VerbFields DEF TypeInv, MovesOK
  <2>3. VerbSound(op[w], l)
    BY <2>1, <2>2 DEF LoadInv
  <2>4. CASE Pay(w)
    <3>1. UpdateZeny(c, l, -k) /\ l - k \in Balances
      BY <2>2, <2>3, <2>4 DEF Pay, At, VerbSound
    <3>2. -k \in Int /\ l + (-k) = l - k
      BY <2>2
    <3> QED BY <3>1, <3>2
  <2>5. CASE Repay(w)
    <3>1. UpdateZeny(c, l, k) /\ l + k \in Balances
      BY <2>2, <2>3, <2>5 DEF Repay, At, VerbSound
    <3> QED BY <3>1
  <2>6. CASE Collect(w)
    <3>1. UpdateZeny(c, l, z) /\ l + z \in Balances
      BY <2>2, <2>3, <2>6 DEF Collect, At, VerbSound
    <3> QED BY <3>1
  <2> QED BY <1>1, <2>4, <2>5, <2>6
<1>2. ASSUME NEW o \in Others, MoveZeny(o)
      PROVE  \E c \in Chars, loaded \in Nat, by \in Int :
                 loaded + by \in Balances /\ UpdateZeny(c, loaded, by)
  <2>1. ext[o].kind = "zeny" /\ UpdateZeny(ext[o].char, ext[o].loaded, ext[o].by)
    BY <1>2 DEF MoveZeny
  <2>2. ext[o].char \in Chars /\ ext[o].by \in Int /\ ext[o].loaded \in Nat
    BY <2>1, MoveKinds
  <2>3. ext[o].loaded + ext[o].by \in Balances
    BY <2>1 DEF LoadInv, MoveSound
  <2> QED BY <2>1, <2>2, <2>3
<1> QED BY <1>1, <1>2, Writers

LEMMA ZenyStep ==
    ASSUME TypeInv, LoadInv, [Next]_vars
    PROVE  zeny' \in [Chars -> Balances] /\ overwritten' \in Int
<1>0. zeny \in [Chars -> Balances] /\ overwritten \in Int /\ Balances \subseteq Nat
  BY HalfAssumption DEF TypeInv, HistoryOK, Balances
<1>1. ASSUME NEW c \in Chars, NEW loaded \in Nat, NEW by \in Int, loaded + by \in Balances,
             UpdateZeny(c, loaded, by)
      PROVE  zeny' \in [Chars -> Balances] /\ overwritten' \in Int
  BY <1>0, <1>1 DEF UpdateZeny
<1> QED BY <1>0, <1>1, Purse

\* A window is closed, opened, left, or staged in by a verb of its character.
SlotMoves ==
    \/ UNCHANGED slot
    \/ \E c \in Chars, b \in BOOLEAN : slot' = [slot EXCEPT ![c] = [NoSlot EXCEPT !.writing = b]]
    \/ \E w \in Workers : op[w] # Idle /\ op[w].pc \in StagePcs /\ Stages(w, op[w].char)

LEMMA SlotStep ==
    ASSUME TypeInv, [Next]_vars
    PROVE  SlotMoves /\ slot' \in [Chars -> Slot]
<1>0. slot \in [Chars -> Slot] /\ OpsOK
  BY DEF TypeInv
<1>1. \A c \in Chars : clearMailSlot(c) => SlotMoves
  BY DEF clearMailSlot, NoSlot, SlotMoves
<1>2. UNCHANGED slot => SlotMoves
  BY DEF SlotMoves
<1>3. ASSUME NEW w \in Workers, op[w] # Idle, Work(w) PROVE SlotMoves
  <2>0. op[w].char \in Chars
    BY <1>0, <1>3, VerbFields
  <2>1. CASE addZenyToMail(w) \/ stageMailItem(w) \/ handleRemoveItemFromMail(w)
    BY <1>3, <2>1, StageStep, StageKeeps DEF SlotMoves
  <2>2. CASE charge(w) \/ Deduct(w) \/ CreateInsert(w) \/ Undone(w)
    <3>1. UNCHANGED slot \/ clearMailSlot(op[w].char)
      BY <2>2 DEF charge, Deduct, CreateInsert, Undone, SendFails
    <3> QED BY <1>1, <1>2, <2>0, <3>1
  <2>3. CASE Pay(w) \/ lift(w) \/ Take(w) \/ CreateCount(w) \/ Refund(w) \/ Repay(w) \/ ReturnItem(w)
    BY <1>2, <2>3 DEF Pay, lift, Take, CreateCount, Refund, Repay, ReturnItem
  <2>4. CASE \/ ClearZeny(w) \/ CollectCredit(w) \/ Collect(w) \/ SetZeny(w)
             \/ CollectAdd(w) \/ ClearItems(w)
    BY <1>2, <2>4 DEF ClearZeny, CollectCredit, Collect, SetZeny, CollectAdd, ClearItems
  <2> QED BY <1>3, <2>1, <2>2, <2>3, <2>4 DEF Work
<1>4. ASSUME NEW w \in Workers, Fault(w) PROVE SlotMoves
  <2>1. op[w] # Idle /\ (UNCHANGED slot \/ clearMailSlot(op[w].char))
    BY <1>4 DEF Fault, SendFails
  <2>2. op[w].char \in Chars
    BY <1>0, <2>1, VerbFields
  <2> QED BY <1>1, <1>2, <2>1, <2>2
<1>5. ASSUME NEW w \in Workers, NEW c \in Chars, Arrive(w, c) PROVE SlotMoves
  <2>1. \/ UNCHANGED slot \/ clearMailSlot(c) \/ setMailSlot(c, [NoSlot EXCEPT !.writing = TRUE])
    BY <1>5 DEF Arrive, handleOpenWriteMail, handleCancelWriteMail, handleAddItemToMail,
       handleWriteMail, handleOpenMailbox, handleReadMail, handleDeleteMail, handleCollectZeny,
       handleCollectItems
  <2> QED BY <1>1, <1>2, <2>1 DEF setMailSlot, SlotMoves
<1>6. ASSUME NEW c \in Chars, OnClose(c) \/ Enter(c) PROVE SlotMoves
  BY <1>1, <1>2, <1>6 DEF OnClose, Enter
<1>7. ASSUME NEW o \in Others, Outside(o) PROVE SlotMoves
  BY <1>2, <1>7, OutsideKeeps
<1>8. SlotMoves
  <2>1. UNCHANGED vars => SlotMoves
    BY <1>2 DEF vars
  <2> QED BY <2>1, <1>3, <1>4, <1>5, <1>6, <1>7 DEF Next
<1>9. slot' \in [Chars -> Slot]
  <2>1. \A b \in BOOLEAN : [NoSlot EXCEPT !.writing = b] \in Slot
    BY EmptySeq DEF NoSlot, Slot
  <2> QED BY <1>0, <1>8, <2>1 DEF SlotMoves, Stages
<1> QED BY <1>8, <1>9

LEMMA HistoryStep ==
    ASSUME TypeInv, LoadInv, [Next]_vars
    PROVE  HistoryOK' /\ live' \subseteq Chars /\ failed \subseteq failed'
<1>0. HistoryOK /\ OpsOK /\ live \subseteq Chars /\ overwritten' \in Int
  BY ZenyStep DEF TypeInv
<1>1. CASE UNCHANGED <<spent, gone, failed, live>>
  BY <1>0, <1>1 DEF HistoryOK
<1>2. ASSUME NEW w \in Workers, op[w] # Idle, Work(w)
      PROVE  HistoryOK' /\ UNCHANGED live /\ failed \subseteq failed'
  <2>1. CASE CreateInsert(w)
    <3>1. spent' = spent + op[w].total - op[w].zeny /\ UNCHANGED <<gone, failed, live>>
      BY <2>1 DEF CreateInsert
    <3> QED BY <1>0, <1>2, <3>1, VerbFields DEF HistoryOK
  <2>2. CASE Refund(w)
    <3>1. UNCHANGED <<spent, gone, live>> /\ failed' \in {failed, failed \cup {"undo"}}
      BY <2>2 DEF Refund
    <3> QED BY <1>0, <3>1 DEF HistoryOK
  <2>3. CASE addZenyToMail(w) \/ stageMailItem(w) \/ handleRemoveItemFromMail(w)
    BY <1>1, <2>3, StageKeeps DEF history
  <2>4. CASE \/ charge(w) \/ Deduct(w) \/ Pay(w) \/ lift(w) \/ Take(w) \/ CreateCount(w) \/ Repay(w)
             \/ ReturnItem(w) \/ Undone(w)
    BY <1>1, <2>4 DEF charge, Deduct, Pay, lift, Take, CreateCount, Repay, ReturnItem, Undone, history
  <2>5. CASE \/ ClearZeny(w) \/ CollectCredit(w) \/ Collect(w) \/ SetZeny(w)
             \/ CollectAdd(w) \/ ClearItems(w)
    BY <1>1, <2>5 DEF ClearZeny, CollectCredit, Collect, SetZeny, CollectAdd, ClearItems, history
  <2> QED BY <1>2, <2>1, <2>2, <2>3, <2>4, <2>5 DEF Work
<1>3. ASSUME NEW w \in Workers, Fault(w)
      PROVE  HistoryOK' /\ UNCHANGED live /\ failed \subseteq failed'
  <2>1. UNCHANGED <<spent, gone, live>> /\ failed' \in {failed, failed \cup {"undo"}, failed \cup {"collect"}}
    BY <1>3 DEF Fault
  <2> QED BY <1>0, <2>1 DEF HistoryOK
<1>4. ASSUME NEW w \in Workers, NEW c \in Chars, Arrive(w, c) PROVE UNCHANGED <<spent, gone, failed, live>>
  BY <1>4, ArriveKeeps DEF history
<1>5. ASSUME NEW c \in Chars, OnClose(c) \/ Enter(c)
      PROVE  HistoryOK' /\ live' \subseteq Chars /\ failed \subseteq failed'
  BY <1>0, <1>5 DEF OnClose, Enter, history, HistoryOK
<1>6. ASSUME NEW o \in Others, Outside(o)
      PROVE  HistoryOK' /\ UNCHANGED live /\ failed \subseteq failed'
  <2>1. UNCHANGED <<live, failed>> /\ (UNCHANGED spent \/ MoveZeny(o)) /\ (UNCHANGED gone \/ MoveUnits(o))
    BY <1>6, OutsideKeeps
  <2>2. spent' \in Int
    <3>1. CASE MoveZeny(o)
      <4>1. ext[o].kind = "zeny" /\ spent' = spent - ext[o].by
        BY <3>1 DEF MoveZeny
      <4>2. ext[o].by \in Int
        BY <4>1, MoveKinds
      <4> QED BY <1>0, <4>1, <4>2 DEF HistoryOK
    <3> QED BY <1>0, <2>1, <3>1 DEF HistoryOK
  <2>3. gone' \in [Names -> Nat]
    <3>1. CASE MoveUnits(o)
      <4>1. ext[o].kind = "bag" /\ gone' = [gone EXCEPT ![ext[o].name] = @ + ext[o].amount]
        BY <3>1 DEF MoveUnits
      <4>2. PICK n \in Names, k \in Nat : n = ext[o].name /\ k = ext[o].amount
        BY <4>1, MoveKinds
      <4>3. gone' = [gone EXCEPT ![n] = @ + k]
        BY <4>1, <4>2
      <4> QED BY <1>0, <4>2, <4>3 DEF HistoryOK
    <3> QED BY <1>0, <2>1, <3>1 DEF HistoryOK
  <2> QED BY <1>0, <2>1, <2>2, <2>3 DEF HistoryOK
<1>7. UNCHANGED vars => UNCHANGED <<spent, gone, failed, live>>
  BY DEF vars, history
<1> QED BY <1>0, <1>1, <1>2, <1>3, <1>4, <1>5, <1>6, <1>7 DEF Next

\* Whose verb a step is of: nobody's, or it begins, goes on or ends.
LEMMA OpsMove ==
    ASSUME TypeInv, [Next]_vars
    PROVE  /\ OpsOK'
           /\ \/ UNCHANGED op
              \/ \E w \in Workers : op[w] # Idle /\ (Work(w) \/ Fault(w)) /\ Goes(w)
              \/ \E w \in Workers, c \in Chars, r \in Verb :
                    /\ Arrive(w, c) /\ Begun(w, r) /\ r.i = 1 /\ r.char = c
                    /\ UNCHANGED <<mail, rows, nextId>>
                    /\ \/ r.pc \in StagePcs /\ r.items = slot[c].items
                       \/ r.pc = "charge" /\ r.items = slot[c].items
                       \/ /\ r.pc = "clear" /\ r.id \in InboxOf(c) /\ mail[r.id].zeny = r.zeny
                          /\ r.items = << >>
                       \/ r.pc = "add" /\ r.id \in InboxOf(c) /\ mail[r.id].items = r.items
<1>0. OpsOK
  BY DEF TypeInv
<1>1. CASE UNCHANGED op
  BY <1>0, <1>1 DEF OpsOK
<1>2. ASSUME NEW w \in Workers, op[w] # Idle, Work(w) \/ Fault(w) PROVE OpsOK' /\ Goes(w)
  BY <1>0, <1>2, WorkGoes
<1>3. \A w \in Workers : Fault(w) => op[w] # Idle
  BY DEF Fault
<1>4. ASSUME NEW w \in Workers, NEW c \in Chars, Arrive(w, c)
      PROVE  \/ UNCHANGED op
             \/ OpsOK' /\ \E r \in Verb :
                    /\ Begun(w, r) /\ r.i = 1 /\ r.char = c
                    /\ UNCHANGED <<mail, rows, nextId>>
                    /\ \/ r.pc \in StagePcs /\ r.items = slot[c].items
                       \/ r.pc = "charge" /\ r.items = slot[c].items
                       \/ /\ r.pc = "clear" /\ r.id \in InboxOf(c) /\ mail[r.id].zeny = r.zeny
                          /\ r.items = << >>
                       \/ r.pc = "add" /\ r.id \in InboxOf(c) /\ mail[r.id].items = r.items
  <2>1. ASSUME NEW r \in Verb, Begun(w, r), r.i = 1, r.pc \in StagePcs \cup {"charge", "clear", "add"}
        PROVE  OpsOK'
    <3>1. r.pc # "take"
      BY <2>1 DEF StagePcs
    <3> QED BY <1>0, <2>1, <3>1, BegunFacts
  <2> QED BY <1>4, <2>1, ArriveMoves
<1>5. ASSUME NEW c \in Chars, OnClose(c) \/ Enter(c) PROVE UNCHANGED op
  BY <1>5, CloseKeeps
<1>6. ASSUME NEW o \in Others, Outside(o) PROVE UNCHANGED op
  BY <1>6, OutsideKeeps
<1>7. UNCHANGED vars => UNCHANGED op
  BY DEF vars
<1>8. CASE \E w \in Workers : (\E c \in Chars : Arrive(w, c)) \/ (op[w] # Idle /\ Work(w)) \/ Fault(w)
  <2>1. PICK w \in Workers : (\E c \in Chars : Arrive(w, c)) \/ (op[w] # Idle /\ Work(w)) \/ Fault(w)
    BY <1>8
  <2>2. CASE \E c \in Chars : Arrive(w, c)
    BY <1>1, <1>4, <2>2
  <2>3. CASE (op[w] # Idle /\ Work(w)) \/ Fault(w)
    BY <1>2, <1>3, <2>3
  <2> QED BY <2>1, <2>2, <2>3
<1> QED BY <1>1, <1>5, <1>6, <1>7, <1>8 DEF Next

\* A verb that has loaded what it is to write has read it in the step before.
LEMMA WorkReads ==
    ASSUME TypeInv, NEW w \in Workers, op[w] # Idle, Work(w) \/ Fault(w)
    PROVE  \/ UNCHANGED read
           \/ Forget(w)
           \/ (Deduct(w) \/ Refund(w) \/ CollectCredit(w)) /\ Load(w, zeny[op[w].char])
           \/ lift(w) /\ Item(w).row \in DOMAIN rows /\ Load(w, rows[Item(w).row].amount)
<1>1. CASE addZenyToMail(w) \/ stageMailItem(w) \/ handleRemoveItemFromMail(w)
  BY <1>1, StageKeeps
<1>2. CASE charge(w) \/ Deduct(w) \/ Pay(w)
  BY <1>2 DEF charge, Deduct, Pay
<1>3. CASE lift(w) \/ Take(w) \/ CreateCount(w)
  BY <1>3 DEF lift, Take, CreateCount, RemoveOk
<1>4. CASE CreateInsert(w) \/ Refund(w) \/ Repay(w) \/ ReturnItem(w) \/ Undone(w)
  BY <1>4 DEF CreateInsert, Refund, Repay, ReturnItem, Undone
<1>5. CASE ClearZeny(w) \/ CollectCredit(w) \/ Collect(w) \/ SetZeny(w)
  BY <1>5 DEF ClearZeny, CollectCredit, Collect, SetZeny
<1>6. CASE CollectAdd(w) \/ ClearItems(w)
  BY <1>6 DEF CollectAdd, ClearItems
<1>7. CASE Fault(w)
  BY <1>7 DEF Fault
<1> QED BY <1>1, <1>2, <1>3, <1>4, <1>5, <1>6, <1>7 DEF Work

LEMMA WorkKeeps ==
    ASSUME NEW w \in Workers, Work(w) \/ Fault(w)
    PROVE  UNCHANGED ext
<1>1. CASE addZenyToMail(w) \/ stageMailItem(w) \/ handleRemoveItemFromMail(w)
  BY <1>1, StageKeeps
<1>2. CASE \/ charge(w) \/ Deduct(w) \/ Pay(w) \/ lift(w) \/ Take(w) \/ CreateCount(w)
           \/ CreateInsert(w)
  BY <1>2 DEF charge, Deduct, Pay, lift, Take, CreateCount, CreateInsert
<1>3. CASE Refund(w) \/ Repay(w) \/ ReturnItem(w) \/ Undone(w)
  BY <1>3 DEF Refund, Repay, ReturnItem, Undone
<1>4. CASE \/ ClearZeny(w) \/ CollectCredit(w) \/ Collect(w) \/ SetZeny(w) \/ CollectAdd(w)
           \/ ClearItems(w)
  BY <1>4 DEF ClearZeny, CollectCredit, Collect, SetZeny, CollectAdd, ClearItems
<1>5. CASE Fault(w)
  BY <1>5 DEF Fault
<1> QED BY <1>1, <1>2, <1>3, <1>4, <1>5 DEF Work

\* What a step does to the movements of the other handlers.
LEMMA ExtMoves ==
    ASSUME TypeInv, [Next]_vars
    PROVE  \/ UNCHANGED ext
           \/ \E o \in Others, x \in {NoMove} \cup ZenyMoves \cup BagMoves :
                 /\ ext' = [ext EXCEPT ![o] = x]
                 /\ \/ x = NoMove
                    \/ x \in ZenyMoves /\ x.loaded + x.by \in Balances
                    \/ /\ x \in BagMoves /\ x.row \in DOMAIN rows /\ x.loaded = rows[x.row].amount
                       /\ x.name = rows[x.row].name /\ x.amount <= x.loaded
<1>0. zeny \in [Chars -> Balances] /\ Half \in Nat \ {0} /\ Balances \subseteq Nat
  BY HalfAssumption DEF TypeInv, Balances
<1>1. ASSUME NEW o \in Others, NEW c \in Chars, NEW k \in Moves, Spend(o, c, k) \/ Earn(o, c, k)
      PROVE  \E x \in ZenyMoves : ext' = [ext EXCEPT ![o] = x] /\ x.loaded + x.by \in Balances
  <2>1. k \in Nat
    BY MailAssumption
  <2>2. PICK z \in Balances : z = zeny[c]
    BY <1>0
  <2>3. PICK by \in {-k, k} :
           /\ ext' = [ext EXCEPT ![o] = ZenyMove(c, by)]
           /\ (by = -k) => MoveOk("deduct", z, k)
           /\ (by = k) => MoveOk("credit", z, k)
    <3>1. CASE Spend(o, c, k) /\ k # 0
      BY <2>1, <2>2, <3>1 DEF Spend, Begin
    <3>2. CASE Earn(o, c, k) /\ k # 0
      BY <2>1, <2>2, <3>2 DEF Earn, Begin
    <3> QED BY <1>1, <3>1, <3>2, MailAssumption
  <2>4. by \in Int /\ z + by \in Balances
    <3>1. CASE by = -k
      BY <1>0, <2>1, <2>2, <2>3, <3>1 DEF MoveOk, NewZenyOk, DeductOk, Int32, Balances
    <3>2. CASE by = k
      BY <1>0, <2>1, <2>2, <2>3, <3>2 DEF MoveOk, NewZenyOk, CreditOk, Int32, Balances
    <3> QED BY <2>3, <3>1, <3>2
  <2>5. PICK x : x = ZenyMove(c, by)
    OBVIOUS
  <2>6. x \in ZenyMoves /\ x.loaded = z /\ x.by = by
    BY <1>0, <2>2, <2>4, <2>5 DEF ZenyMove, ZenyMoves
  <2> QED BY <2>3, <2>4, <2>5, <2>6
<1>2. ASSUME NEW o \in Others, NEW id \in DOMAIN rows, NEW k \in Amounts, Lose(o, id, k)
      PROVE  \E x \in BagMoves :
                /\ ext' = [ext EXCEPT ![o] = x]
                /\ x.row \in DOMAIN rows /\ x.loaded = rows[x.row].amount
                /\ x.name = rows[x.row].name /\ x.amount <= x.loaded
  <2>1. k \in Nat /\ id \in Nat /\ rows[id] \in Row
    BY MailAssumption DEF TypeInv, RowsOK
  <2>2. rows[id].name \in Names /\ rows[id].amount \in Nat
    BY <2>1 DEF Row
  <2>3. PICK x : x = [kind |-> "bag", row |-> id, name |-> rows[id].name, amount |-> k,
                      loaded |-> rows[id].amount]
    OBVIOUS
  <2>4. x \in BagMoves /\ x.row = id /\ x.name = rows[id].name /\ x.amount = k
        /\ x.loaded = rows[id].amount
    BY <2>1, <2>2, <2>3 DEF BagMoves
  <2>5. ext' = [ext EXCEPT ![o] = x] /\ rows[id].amount >= k
    BY <1>2, <2>3 DEF Lose, Begin, RemoveOk
  <2> QED BY <2>1, <2>2, <2>4, <2>5
<1>3. ASSUME NEW o \in Others, MoveZeny(o) \/ MoveUnits(o) \/ MoveFails(o)
      PROVE  ext' = [ext EXCEPT ![o] = NoMove]
  BY <1>3 DEF MoveZeny, MoveUnits, MoveFails, Ended
<1>4. ASSUME NEW w \in Workers, Work(w) \/ Fault(w) PROVE UNCHANGED ext
  BY <1>4, WorkKeeps
<1>5. ASSUME NEW w \in Workers, NEW c \in Chars, Arrive(w, c) PROVE UNCHANGED ext
  BY <1>5, ArriveKeeps
<1>6. ASSUME NEW c \in Chars, OnClose(c) \/ Enter(c) PROVE UNCHANGED ext
  BY <1>6, CloseKeeps
<1>7. UNCHANGED vars => UNCHANGED ext
  BY DEF vars
<1>8. CASE \E w \in Workers : (\E c \in Chars : Arrive(w, c)) \/ (op[w] # Idle /\ Work(w)) \/ Fault(w)
  BY <1>4, <1>5, <1>8
<1>9. CASE \E o \in Others : Outside(o)
  <2>1. PICK o \in Others : Outside(o)
    BY <1>9
  <2>2. \/ \E c \in Chars, k \in Moves : Spend(o, c, k) \/ Earn(o, c, k)
        \/ \E id \in DOMAIN rows, k \in Amounts : Lose(o, id, k)
        \/ MoveZeny(o) \/ MoveUnits(o) \/ MoveFails(o)
    BY <2>1 DEF Outside
  <2> QED BY <1>1, <1>2, <1>3, <2>2
<1> QED BY <1>6, <1>7, <1>8, <1>9 DEF Next

LEMMA MovesStep ==
    ASSUME TypeInv, [Next]_vars
    PROVE  MovesOK'
<1>0. /\ read \in [Workers -> Nat] /\ ext \in [Others -> {NoMove} \cup ZenyMoves \cup BagMoves]
      /\ zeny \in [Chars -> Nat] /\ OpsOK /\ \A i \in DOMAIN rows : rows[i].amount \in Nat
  BY HalfAssumption DEF TypeInv, MovesOK, RowsOK, Row, Balances
<1>1. ext' \in [Others -> {NoMove} \cup ZenyMoves \cup BagMoves]
  BY <1>0, ExtMoves
<1>2. ASSUME NEW w \in Workers, op[w] # Idle, Work(w) \/ Fault(w) PROVE read' \in [Workers -> Nat]
  <2>1. ASSUME NEW k \in Nat, Load(w, k) PROVE read' \in [Workers -> Nat]
    BY <1>0, <2>1 DEF Load
  <2>2. zeny[op[w].char] \in Nat
    BY <1>0, <1>2, VerbFields
  <2> QED BY <1>0, <1>2, <2>1, <2>2, WorkReads DEF Forget
<1>3. ASSUME NEW w \in Workers, NEW c \in Chars, Arrive(w, c) PROVE UNCHANGED read
  BY <1>3, ArriveKeeps
<1>4. ASSUME NEW c \in Chars, OnClose(c) \/ Enter(c) PROVE UNCHANGED read
  BY <1>4, CloseKeeps
<1>5. ASSUME NEW o \in Others, Outside(o) PROVE UNCHANGED read
  BY <1>5, OutsideKeeps
<1>6. UNCHANGED vars => UNCHANGED read
  BY DEF vars
<1>7. \A w \in Workers : Fault(w) => op[w] # Idle
  BY DEF Fault
<1>8. read' \in [Workers -> Nat]
  BY <1>0, <1>2, <1>3, <1>4, <1>5, <1>6, <1>7 DEF Next
<1> QED BY <1>1, <1>8 DEF MovesOK

LEMMA TypeStep ==
    ASSUME TypeInv, LetterInv, LoadInv, [Next]_vars
    PROVE  TypeInv'
BY RowsStep, TwiceStep, MailStep, ZenyStep, SlotStep, HistoryStep, OpsMove, MovesStep DEF TypeInv

-----------------------------------------------------------------------------
\* One verb of a character at a time, and the letter it works on.

LEMMA SerialStep ==
    ASSUME TypeInv, Serial, [Next]_vars
    PROVE  Serial'
<1>1. CASE UNCHANGED op
  BY <1>1 DEF Serial
<1>2. ASSUME NEW w \in Workers, op[w] # Idle, Goes(w) PROVE Serial'
  BY <1>2 DEF Serial, Goes
<1>3. ASSUME NEW w \in Workers, NEW c \in Chars, NEW r \in Verb, Arrive(w, c), Begun(w, r), r.i = 1,
             r.char = c
      PROVE  Serial'
  <2>1. op'[w] = r /\ \A v \in Workers \ {w} : op'[v] = op[v]
    BY <1>3 DEF TypeInv, OpsOK, Begun
  <2>2. \A v \in Workers : op[v] # Idle => op[v].char # c
    BY <1>3, ArriveKeeps DEF Frame, lockMailOps
  <2> QED BY <1>3, <2>1, <2>2 DEF Serial
<1> QED BY <1>1, <1>2, <1>3, OpsMove

\* What a step does to the letters of a character that it is not of.
LEMMA LettersKept ==
    ASSUME TypeInv, LetterInv, [Next]_vars, NEW m \in DOMAIN mail, ~SameLetter(m)
    PROVE  \/ \E w \in Workers : op[w] # Idle /\ op[w].char = mail[m].dest /\ (Work(w) \/ Fault(w))
           \/ \E w \in Workers, c \in Chars : Frame(w, c) /\ c = mail[m].dest
<1>1. CASE UNCHANGED mail
  BY <1>1 DEF SameLetter
<1>2. ASSUME NEW w \in Workers, CreateInsert(w) PROVE FALSE
  BY <1>2, NewLetter DEF OnlyLetter
<1>3. ASSUME NEW w \in Workers, ClearZeny(w) \/ SetZeny(w) \/ ClearItems(w)
      PROVE  op[w] # Idle /\ op[w].char = mail[m].dest /\ Work(w)
  <2>1. op[w] # Idle /\ op[w].pc \in CollectPcs
    BY <1>3, BusyAt DEF TypeInv, ClearZeny, SetZeny, ClearItems, At, Pcs, CollectPcs
  <2>2. mail[op[w].id].dest = op[w].char
    BY <2>1 DEF LetterInv, Reads
  <2>3. OnlyLetter(op[w].id)
    BY <1>3, CollectLetters
  <2>4. m = op[w].id
    BY <2>3 DEF OnlyLetter
  <2> QED BY <1>3, <2>1, <2>2, <2>4 DEF Work
<1>4. ASSUME NEW w \in Workers, Collect(w) PROVE FALSE
  BY <1>4, CollectLetters DEF SameLetters
<1>5. ASSUME NEW w \in Workers, NEW c \in Chars, Frame(w, c),
             \/ handleOpenMailbox(w, c)
             \/ \E x \in DOMAIN mail : handleReadMail(w, c, x) \/ handleDeleteMail(w, c, x)
      PROVE  c = mail[m].dest
  <2>1. CASE \E x \in DOMAIN mail : handleDeleteMail(w, c, x)
    BY <2>1, FrameLetters DEF OnlyLetter
  <2>2. CASE handleOpenMailbox(w, c) \/ \E x \in DOMAIN mail : handleReadMail(w, c, x)
    BY <2>2, FrameLetters DEF SameLetters
  <2> QED BY <1>5, <2>1, <2>2
<1> QED BY <1>1, <1>2, <1>3, <1>4, <1>5, Writers

LEMMA OwnLetter ==
    ASSUME TypeInv, LetterInv, NEW w \in Workers, op[w] # Idle, op[w].pc \in CollectPcs,
           Work(w) \/ Fault(w), op'[w] # Idle
    PROVE  Reads(op[w])'
<1>0. OpsOK /\ op[w].items \in Seq(Attachment) /\ Reads(op[w])
  BY VerbFields DEF TypeInv, LetterInv
<1>1. op[w].i \in 1 .. Len(op[w].items) + 1 /\ Len(op[w].items) \in Nat
  BY <1>0, VerbFields
<1>2. ASSUME NEW p \in CollectPcs, Goto(w, p)
      PROVE  /\ op'[w].pc = p /\ op'[w].id = op[w].id /\ op'[w].char = op[w].char
             /\ op'[w].zeny = op[w].zeny /\ op'[w].items = op[w].items
  <2>1. Moved(w, p, op[w].items, op[w].i) /\ p \in Pcs
    BY <1>0, <1>2, Motions DEF Pcs
  <2> QED BY <1>0, <1>1, <2>1, MovedFacts
<1>3. ~Return(w)
  BY <1>0, ReturnFacts
<1>4. CASE ClearZeny(w)
  <2>1. Goto(w, "credit")
    BY <1>4 DEF ClearZeny
  <2>2. /\ op'[w].pc = "credit" /\ op'[w].id = op[w].id /\ op'[w].char = op[w].char
    BY <1>2, <2>1 DEF CollectPcs
  <2> QED BY <1>0, <1>4, <2>2, CollectLetters DEF Reads
<1>5. CASE /\ UNCHANGED mail /\ op[w].pc \in {"credit", "collect"}
           /\ Goto(w, "restore") \/ Goto(w, "collect")
  <2>1. PICK p \in {"restore", "collect"} : Goto(w, p)
    BY <1>5
  <2>2. /\ op'[w].pc = p /\ op'[w].id = op[w].id /\ op'[w].char = op[w].char
    BY <1>2, <2>1 DEF CollectPcs
  <2> QED BY <1>0, <1>5, <2>2 DEF Reads
<1>6. CASE CollectAdd(w)
  <2>1. Again(w) /\ More(w) /\ UNCHANGED mail /\ op[w].pc = "add"
    BY <1>6 DEF CollectAdd, At
  <2>2. Moved(w, "add", op[w].items, op[w].i + 1)
    BY <1>0, <2>1, Motions
  <2>3. op[w].i + 1 \in 1 .. Len(op[w].items) + 1
    BY <1>1, <2>1 DEF More
  <2>4. /\ op'[w].pc = "add" /\ op'[w].id = op[w].id /\ op'[w].char = op[w].char
        /\ op'[w].items = op[w].items
    BY <1>0, <2>2, <2>3, MovedFacts DEF Pcs, CollectPcs
  <2> QED BY <1>0, <2>1, <2>4 DEF Reads
<1>7. ASSUME Work(w), ~ClearZeny(w), ~CollectAdd(w)
      PROVE  /\ UNCHANGED mail /\ op[w].pc \in {"credit", "collect"}
             /\ Goto(w, "restore") \/ Goto(w, "collect")
  <2>1. ~addZenyToMail(w) /\ ~stageMailItem(w) /\ ~handleRemoveItemFromMail(w)
    BY <1>3, StageKeeps
  <2>2. ~charge(w) /\ ~Deduct(w) /\ ~Pay(w) /\ ~lift(w) /\ ~Take(w) /\ ~CreateCount(w) /\ ~CreateInsert(w)
    BY DEF charge, Deduct, Pay, lift, Take, CreateCount, CreateInsert, At, CollectPcs
  <2>3. ~Refund(w) /\ ~Repay(w) /\ ~ReturnItem(w) /\ ~Undone(w)
    BY DEF Refund, Repay, ReturnItem, Undone, At, CollectPcs
  <2>4. ~SetZeny(w) /\ ~ClearItems(w) /\ ~Collect(w)
    BY <1>3 DEF SetZeny, ClearItems, Collect
  <2>5. CollectCredit(w)
    BY <1>7, <2>1, <2>2, <2>3, <2>4 DEF Work
  <2> QED BY <2>5 DEF CollectCredit, At, tables
<1>8. ASSUME Fault(w)
      PROVE  /\ UNCHANGED mail /\ op[w].pc \in {"credit", "collect"}
             /\ Goto(w, "restore") \/ Goto(w, "collect")
  BY <1>3, <1>8 DEF Fault, At, SendFails, CollectPcs, tables
<1> QED BY <1>4, <1>5, <1>6, <1>7, <1>8

LEMMA LetterStep ==
    ASSUME TypeInv, Serial, LetterInv, [Next]_vars
    PROVE  LetterInv'
<1> SUFFICES ASSUME NEW v \in Workers, op'[v] # Idle, op'[v].pc \in CollectPcs PROVE Reads(op[v])'
  BY DEF LetterInv
<1>0. OpsOK
  BY DEF TypeInv
<1>1. ASSUME op[v] # Idle, op[v].pc \in CollectPcs, Work(v) \/ Fault(v) PROVE Reads(op[v])'
  BY <1>1, OwnLetter
<1>2. ASSUME op'[v] = op[v] PROVE Reads(op[v])'
  <2>1. op[v] # Idle /\ op[v].pc \in CollectPcs /\ Reads(op[v])
    BY <1>2 DEF LetterInv
  <2>2. CASE SameLetter(op[v].id)
    BY <1>2, <2>1, <2>2 DEF Reads, SameLetter
  <2>3. CASE ~SameLetter(op[v].id)
    <3>1. op[v].id \in DOMAIN mail /\ mail[op[v].id].dest = op[v].char
      BY <2>1 DEF Reads
    <3>2. CASE \E w \in Workers, c \in Chars : Frame(w, c) /\ c = op[v].char
      BY <2>1, <3>2 DEF Frame, lockMailOps
    <3>3. ASSUME NEW w \in Workers, op[w] # Idle, op[w].char = op[v].char, Work(w) \/ Fault(w)
          PROVE  Reads(op[v])'
      <4>1. w = v
        BY <2>1, <3>3 DEF Serial
      <4> QED BY <1>1, <2>1, <3>3, <4>1
    <3> QED BY <2>3, <3>1, <3>2, <3>3, LettersKept
  <2> QED BY <2>2, <2>3
<1>3. ASSUME NEW w \in Workers, op[w] # Idle, Work(w) \/ Fault(w), Goes(w) PROVE Reads(op[v])'
  <2>1. CASE v # w
    BY <1>2, <1>3, <2>1 DEF Goes
  <2>2. CASE v = w
    <3>1. op[v].pc \in CollectPcs
      BY <1>3, <2>2 DEF Goes, SendPcs, CollectPcs
    <3> QED BY <1>1, <1>3, <2>2, <3>1
  <2> QED BY <2>1, <2>2
<1>4. ASSUME NEW w \in Workers, NEW c \in Chars, NEW r \in Verb, Begun(w, r), r.i = 1, r.char = c,
             UNCHANGED mail,
             \/ r.pc \in StagePcs \cup {"charge"}
             \/ r.pc = "clear" /\ r.id \in InboxOf(c) /\ mail[r.id].zeny = r.zeny
             \/ r.pc = "add" /\ r.id \in InboxOf(c) /\ mail[r.id].items = r.items
      PROVE  Reads(op[v])'
  <2>1. op'[w] = r /\ \A u \in Workers \ {w} : op'[u] = op[u]
    BY <1>0, <1>4 DEF OpsOK, Begun
  <2>2. CASE v # w
    BY <1>2, <2>1, <2>2
  <2>3. CASE v = w
    BY <1>4, <2>1, <2>3 DEF Reads, InboxOf, StagePcs, CollectPcs
  <2> QED BY <2>2, <2>3
<1> QED BY <1>2, <1>3, <1>4, OpsMove

-----------------------------------------------------------------------------
\* The names of what is staged and sent.

\* The entry x names the item of its row, as long as the row is there.
Agrees(x, t, n) == x.row < n /\ (x.row \in DOMAIN t => t[x.row].name = x.name)
Fits(s, t, n) == \A j \in DOMAIN s : Agrees(s[j], t, n)
NameInv ==
    /\ \A c \in Chars : Fits(slot[c].items, rows, nextId)
    /\ \A w \in Workers : op[w] # Idle /\ op[w].pc \notin CollectPcs => Fits(op[w].items, rows, nextId)

LEMMA FitsLast ==
    ASSUME TypeInv, RowsOK', RowsLast, NEW s \in Seq(Attachment), Fits(s, rows, nextId)
    PROVE  Fits(s, rows', nextId')
<1>1. nextId \in Nat /\ nextId' \in Nat /\ \A j \in DOMAIN s : s[j].row \in Nat
  BY ItemFields DEF TypeInv, RowsOK
<1> QED BY <1>1 DEF Fits, Agrees, RowsLast

LEMMA FrontFits ==
    ASSUME NEW s \in Seq(Attachment), NEW k \in 0 .. Len(s), NEW t, NEW n, Fits(s, t, n)
    PROVE  SubSeq(s, 1, k) \in Seq(Attachment) /\ Fits(SubSeq(s, 1, k), t, n)
<1>1. Len(s) \in Nat /\ DOMAIN s = 1 .. Len(s) /\ \A i \in DOMAIN s : s[i] \in Attachment
  BY ItemFields
<1>2. k \in Int /\ \A i \in 1 .. k : s[i] \in Attachment
  BY <1>1
<1>3. PICK u : u = SubSeq(s, 1, k)
  OBVIOUS
<1>4. u \in Seq(Attachment) /\ Len(u) = k /\ \A i \in 1 .. k : u[i] = s[i]
  <2>1. /\ u \in Seq(Attachment) /\ Len(u) = IF 1 <= k THEN k - 1 + 1 ELSE 0
        /\ \A i \in 1 .. k - 1 + 1 : u[i] = s[1 + i - 1]
    BY <1>2, <1>3, SubSeqProperties
  <2>2. \A i \in 1 .. k : i \in 1 .. k - 1 + 1 /\ 1 + i - 1 = i
    BY <1>1
  <2> QED BY <1>1, <2>1, <2>2
<1>5. DOMAIN u = 1 .. k
  BY <1>4, ItemFields
<1> QED BY <1>1, <1>3, <1>4, <1>5 DEF Fits

LEMMA NameStep ==
    ASSUME TypeInv, TypeInv', LoadInv, NameInv, [Next]_vars
    PROVE  NameInv'
<1>0. OpsOK /\ RowsOK' /\ RowsOK /\ RowsLast /\ slot \in [Chars -> Slot]
  BY RowsStep DEF TypeInv
<1>1. ASSUME NEW c \in Chars PROVE Fits(slot'[c].items, rows', nextId')
  <2>0. slot[c].items \in Seq(Attachment) /\ Fits(slot[c].items, rows', nextId')
    BY <1>0, FitsLast DEF NameInv, Slot
  <2>1. CASE UNCHANGED slot
    BY <2>0, <2>1
  <2>2. ASSUME NEW d \in Chars, NEW b \in BOOLEAN, slot' = [slot EXCEPT ![d] = [NoSlot EXCEPT !.writing = b]]
        PROVE  Fits(slot'[c].items, rows', nextId')
    <3>1. CASE c # d
      BY <1>0, <2>0, <2>2, <3>1
    <3>2. CASE c = d
      <4>1. slot'[c].items = << >>
        BY <1>0, <2>2, <3>2 DEF NoSlot
      <4> QED BY <4>1 DEF Fits
    <3> QED BY <3>1, <3>2
  <2>3. ASSUME NEW w \in Workers, op[w] # Idle, op[w].pc \in StagePcs, Stages(w, op[w].char)
        PROVE  Fits(slot'[c].items, rows', nextId')
    <3>1. PICK d \in Chars : d = op[w].char
      BY <1>0, <2>3, VerbFields
    <3>2. PICK q \in Slot : /\ slot' = [slot EXCEPT ![d] = q]
                            /\ \A j \in DOMAIN q.items : \/ Known(q.items[j], slot[d].items)
                                                         \/ Known(q.items[j], op[w].items)
                                                         \/ Bagged(q.items[j])
      BY <2>3, <3>1 DEF Stages
    <3>3. Fits(op[w].items, rows, nextId) /\ Fits(slot[d].items, rows, nextId)
      BY <2>3 DEF NameInv, StagePcs, CollectPcs
    <3>4. \A j \in DOMAIN q.items : Bagged(q.items[j]) => Agrees(q.items[j], rows, nextId)
      BY <1>0 DEF Bagged, Agrees, RowsOK
    <3>5. \A j \in DOMAIN q.items : /\ Known(q.items[j], slot[d].items) => Agrees(q.items[j], rows, nextId)
                                    /\ Known(q.items[j], op[w].items) => Agrees(q.items[j], rows, nextId)
      BY <3>3 DEF Known, Fits, Agrees
    <3>6. q.items \in Seq(Attachment) /\ Fits(q.items, rows, nextId)
      BY <3>2, <3>4, <3>5 DEF Fits, Slot
    <3>7. Fits(q.items, rows', nextId')
      BY <1>0, <3>6, FitsLast
    <3>8. slot'[c].items = IF c = d THEN q.items ELSE slot[c].items
      BY <1>0, <3>2
    <3> QED BY <2>0, <3>7, <3>8
  <2> QED BY <2>1, <2>2, <2>3, SlotStep DEF SlotMoves
<1>2. ASSUME NEW v \in Workers, op'[v] # Idle, op'[v].pc \notin CollectPcs
      PROVE  Fits(op'[v].items, rows', nextId')
  <2>1. ASSUME op'[v] = op[v] PROVE Fits(op'[v].items, rows', nextId')
    BY <1>0, <1>2, <2>1, FitsLast, VerbFields DEF NameInv
  <2>2. ASSUME NEW w \in Workers, op[w] # Idle, Goes(w) PROVE Fits(op'[v].items, rows', nextId')
    <3>1. CASE v # w
      BY <2>1, <2>2, <3>1 DEF Goes
    <3>2. CASE v = w
      <4>1. op[v].pc \notin CollectPcs /\ op'[v].items \in {op[v].items, SubSeq(op[v].items, 1, op[v].i - 1)}
        BY <1>2, <2>2, <3>2 DEF Goes, SendPcs, CollectPcs
      <4>2. /\ Fits(op[v].items, rows, nextId) /\ op[v].items \in Seq(Attachment)
            /\ Len(op[v].items) \in Nat /\ op[v].i \in 1 .. Len(op[v].items) + 1
        BY <1>0, <2>2, <3>2, <4>1, VerbFields DEF NameInv
      <4>3. op[v].i - 1 \in 0 .. Len(op[v].items)
        BY <4>2
      <4>4. op'[v].items \in Seq(Attachment) /\ Fits(op'[v].items, rows, nextId)
        BY <4>1, <4>2, <4>3, FrontFits
      <4> QED BY <1>0, <4>4, FitsLast
    <3> QED BY <3>1, <3>2
  <2>3. ASSUME NEW w \in Workers, NEW c \in Chars, NEW r \in Verb, Begun(w, r), r.i = 1,
               \/ r.pc \in StagePcs /\ r.items = slot[c].items
               \/ r.pc = "charge" /\ r.items = slot[c].items
               \/ r.pc = "clear" \/ r.pc = "add"
        PROVE  Fits(op'[v].items, rows', nextId')
    <3>1. op'[w] = r /\ \A u \in Workers \ {w} : op'[u] = op[u]
      BY <1>0, <2>3 DEF OpsOK, Begun
    <3>2. CASE v # w
      BY <2>1, <3>1, <3>2
    <3>3. CASE v = w
      <4>1. op'[v].items = slot[c].items
        BY <1>2, <2>3, <3>1, <3>3 DEF CollectPcs
      <4>2. slot[c].items \in Seq(Attachment) /\ Fits(slot[c].items, rows, nextId)
        BY <1>0 DEF NameInv, Slot
      <4> QED BY <1>0, <4>1, <4>2, FitsLast
    <3> QED BY <3>2, <3>3
  <2> QED BY <2>1, <2>2, <2>3, OpsMove
<1> QED BY <1>1, <1>2 DEF NameInv

-----------------------------------------------------------------------------
\* The loads.

LEMMA VerbKept ==
    ASSUME TypeInv, LoadInv, [Next]_vars, NEW r \in Verb, Placed(r), NEW l \in Nat, VerbSound(r, l)
    PROVE  VerbSound(r, l)'
<1>1. CASE r.pc # "take"
  BY <1>1 DEF VerbSound
<1>2. CASE r.pc = "take"
  <2>1. r.i \in DOMAIN r.items /\ r.items \in Seq(Attachment)
    <3>1. r.items \in Seq(Attachment)
      BY DEF Verb
    <3> QED BY <1>2, <3>1, ItemFields DEF Placed, Stands
  <2>2. PICK a \in Attachment : a = r.items[r.i]
    BY <2>1, ItemFields
  <2>3. Sound(a.row, a.name, l, a.amount) /\ a.row \in Nat /\ a.name \in Names /\ a.amount \in Nat
    BY <1>2, <2>2 DEF VerbSound, Attachment
  <2>4. Sound(a.row, a.name, l, a.amount)'
    BY <2>3, SoundStep
  <2> QED BY <1>2, <2>2, <2>4 DEF VerbSound
<1> QED BY <1>1, <1>2

LEMMA MoveKept ==
    ASSUME TypeInv, LoadInv, [Next]_vars, NEW x \in {NoMove} \cup ZenyMoves \cup BagMoves, MoveSound(x)
    PROVE  MoveSound(x)'
<1>1. CASE x.kind # "bag"
  BY <1>1 DEF MoveSound
<1>2. CASE x.kind = "bag"
  <2>1. x.row \in Nat /\ x.name \in Names /\ x.amount \in Nat /\ x.loaded \in Nat
    BY <1>2 DEF NoMove, ZenyMoves, BagMoves
  <2>2. Sound(x.row, x.name, x.loaded, x.amount)
    BY <1>2 DEF MoveSound
  <2>3. Sound(x.row, x.name, x.loaded, x.amount)'
    BY <2>1, <2>2, SoundStep
  <2> QED BY <1>2, <2>3 DEF MoveSound
<1> QED BY <1>1, <1>2

\* What is loaded now is sound now.
LEMMA FreshLoad ==
    ASSUME TypeInv, NEW id \in DOMAIN rows, NEW k \in Nat, k <= rows[id].amount
    PROVE  Sound(id, rows[id].name, rows[id].amount, k)
<1>1. id < nextId /\ rows[id].amount \in Nat /\ rows[id].name \in Names
  BY DEF TypeInv, RowsOK, Row
<1>2. Twice(rows[id].name, id) \in Nat
  BY <1>1 DEF TypeInv, TwiceOK, Twice
<1> QED BY <1>1, <1>2 DEF Sound

\* After a statement of its own a verb is sound.
LEMMA OwnLoad ==
    ASSUME TypeInv, LoadInv, NameInv, [Next]_vars, NEW w \in Workers, op[w] # Idle,
           Work(w) \/ Fault(w), op'[w] # Idle, NEW r, r = op'[w], NEW l, l = read'[w]
    PROVE  VerbSound(r, l)
<1>0. /\ OpsOK /\ op[w].items \in Seq(Attachment) /\ op[w].char \in Chars /\ op[w].total \in Nat
      /\ op[w].zeny \in Nat /\ zeny[op[w].char] \in Balances /\ Half \in Nat \ {0}
      /\ op[w].i \in 1 .. Len(op[w].items) + 1
  BY VerbFields, HalfAssumption DEF TypeInv
<1>1. \A n : Load(w, n) => read'[w] = n
  BY DEF TypeInv, MovesOK, Load
<1>2. ASSUME NEW p \in Pcs, Goto(w, p)
      PROVE  /\ r.pc = p /\ r.total = op[w].total /\ r.zeny = op[w].zeny /\ r.items = op[w].items
             /\ r.i = op[w].i
  <2>1. Moved(w, p, op[w].items, op[w].i)
    BY <1>0, <1>2, Motions
  <2> QED BY <1>0, <2>1, MovedFacts
<1>3. ASSUME NEW p \in Pcs, Step(w, p)
      PROVE  r.pc = p /\ r.total = op[w].total
  <2>1. Moved(w, p, op[w].items, 1)
    BY <1>0, <1>3, Motions
  <2>2. 1 \in 1 .. Len(op[w].items) + 1
    BY <1>0, LenProperties
  <2> QED BY <1>0, <2>1, <2>2, MovedFacts
<1>4. ASSUME NEW p \in Pcs \ {"pay", "repay", "collect", "take"}, r.pc = p PROVE VerbSound(r, l)
  BY <1>4 DEF VerbSound
<1>5. ~Return(w)
  BY <1>0, ReturnFacts
<1>6. CASE Deduct(w)
  <2>1. MoveOk("deduct", zeny[op[w].char], op[w].total) /\ Load(w, zeny[op[w].char]) /\ Goto(w, "pay")
    BY <1>5, <1>6 DEF Deduct, SendFails
  <2>2. l = zeny[op[w].char] /\ r.pc = "pay" /\ r.total = op[w].total
    BY <1>1, <1>2, <2>1 DEF Pcs, SendPcs
  <2>3. l - r.total \in Balances
    BY <1>0, <2>1, <2>2 DEF MoveOk, NewZenyOk, DeductOk, Int32, Balances
  <2> QED BY <2>2, <2>3 DEF VerbSound
<1>7. CASE Refund(w)
  <2>1. CASE Step(w, "return")
    BY <1>3, <1>4, <2>1 DEF Pcs, SendPcs
  <2>2. CASE MoveOk("credit", zeny[op[w].char], op[w].total) /\ Load(w, zeny[op[w].char]) /\ Step(w, "repay")
    <3>1. l = zeny[op[w].char] /\ r.pc = "repay" /\ r.total = op[w].total
      BY <1>1, <1>3, <2>2 DEF Pcs, SendPcs
    <3>2. l + r.total \in Balances
      BY <1>0, <2>2, <3>1 DEF MoveOk, NewZenyOk, CreditOk, Int32, Balances
    <3> QED BY <3>1, <3>2 DEF VerbSound
  <2> QED BY <1>7, <2>1, <2>2 DEF Refund
<1>8. CASE CollectCredit(w)
  <2>1. CASE Goto(w, "restore")
    BY <1>2, <1>4, <2>1 DEF Pcs, CollectPcs
  <2>2. CASE MoveOk("credit", zeny[op[w].char], op[w].zeny) /\ Load(w, zeny[op[w].char]) /\ Goto(w, "collect")
    <3>1. l = zeny[op[w].char] /\ r.pc = "collect" /\ r.zeny = op[w].zeny
      BY <1>1, <1>2, <2>2 DEF Pcs, CollectPcs
    <3>2. l + r.zeny \in Balances
      BY <1>0, <2>2, <3>1 DEF MoveOk, NewZenyOk, CreditOk, Int32, Balances
    <3> QED BY <3>1, <3>2 DEF VerbSound
  <2> QED BY <1>8, <2>1, <2>2 DEF CollectCredit
<1>9. ASSUME Undo(w) PROVE VerbSound(r, l)
  <2>1. op'[w].pc = "refund"
    BY <1>0, <1>9, VerbFields DEF OpsOK, Undo, Verb
  <2> QED BY <2>1 DEF VerbSound
<1>10. CASE lift(w)
  <2>1. More(w) /\ op[w].pc = "lift"
    BY <1>10 DEF lift, At
  <2>2. CASE RemoveOk(rows, Item(w).row, Item(w).amount) /\ Load(w, rows[Item(w).row].amount) /\ Goto(w, "take")
    <3>1. PICK a \in Attachment : a = Item(w)
      BY <1>0, <2>1, ItemType
    <3>2. l = rows[a.row].amount /\ r.pc = "take" /\ r.items[r.i] = a
      BY <1>1, <1>2, <2>2, <3>1 DEF Pcs, SendPcs, Item
    <3>3. a.row \in DOMAIN rows /\ a.amount <= rows[a.row].amount /\ a.amount \in Nat
      BY <2>2, <3>1 DEF RemoveOk, Attachment, TypeInv, RowsOK, Row
    <3>4. rows[a.row].name = a.name
      <4>1. Fits(op[w].items, rows, nextId) /\ op[w].i \in DOMAIN op[w].items
        BY <1>0, <2>1, ItemType DEF NameInv, CollectPcs
      <4> QED BY <3>1, <3>3, <4>1 DEF Fits, Agrees, Item
    <3>5. Sound(a.row, a.name, l, a.amount)
      BY <3>2, <3>3, <3>4, FreshLoad
    <3> QED BY <3>2, <3>5 DEF VerbSound
  <2> QED BY <1>9, <1>10, <2>2 DEF lift
<1>11. ASSUME op'[w].pc \notin {"pay", "repay", "collect", "take"} PROVE VerbSound(r, l)
  BY <1>11 DEF VerbSound
<1>12. ASSUME Work(w), ~Deduct(w), ~Refund(w), ~CollectCredit(w), ~lift(w)
       PROVE  VerbSound(r, l)
  <2>1. ~addZenyToMail(w) /\ ~stageMailItem(w) /\ ~handleRemoveItemFromMail(w)
    BY <1>5, StageKeeps
  <2>2. ~CreateInsert(w) /\ ~Undone(w) /\ ~Collect(w) /\ ~SetZeny(w) /\ ~ClearItems(w)
    BY <1>5 DEF CreateInsert, Undone, Collect, SetZeny, ClearItems, SendFails
  <2>3. CASE charge(w)
    <3>1. Goto(w, "lift") \/ Goto(w, "deduct")
      BY <1>5, <2>3 DEF charge, SendFails
    <3> QED BY <1>2, <1>4, <3>1 DEF Pcs, SendPcs
  <2>4. CASE Pay(w)
    BY <1>2, <1>4, <2>4 DEF Pay, Pcs, SendPcs
  <2>5. CASE Take(w)
    <3>1. op'[w].pc = "lift"
      BY <1>0, <2>5 DEF Take, Passed, OpsOK, Verb
    <3> QED BY <1>11, <3>1
  <2>6. CASE CreateCount(w)
    <3>1. Step(w, "insert") \/ Undo(w)
      BY <2>6 DEF CreateCount
    <3> QED BY <1>3, <1>4, <1>9, <3>1 DEF Pcs, SendPcs
  <2>7. CASE Repay(w)
    BY <1>3, <1>4, <2>7 DEF Repay, Pcs, SendPcs
  <2>8. CASE ReturnItem(w) \/ CollectAdd(w)
    <3>1. Again(w) /\ op[w].pc \in {"return", "add"}
      BY <2>8 DEF ReturnItem, CollectAdd, At
    <3>2. op'[w].pc = op[w].pc
      BY <1>0, <3>1 DEF Again, OpsOK, Verb
    <3> QED BY <1>11, <3>1, <3>2
  <2>9. CASE ClearZeny(w)
    BY <1>2, <1>4, <2>9 DEF ClearZeny, Pcs, CollectPcs
  <2> QED BY <1>12, <2>1, <2>2, <2>3, <2>4, <2>5, <2>6, <2>7, <2>8, <2>9 DEF Work
<1>13. ASSUME Fault(w) PROVE VerbSound(r, l)
  <2>1. \/ Undo(w)
        \/ op' = [op EXCEPT ![w].pc = "refund"]
        \/ Goto(w, "restore")
        \/ Step(w, "return")
        \/ op[w].pc = "return" /\ Again(w)
    BY <1>5, <1>13 DEF Fault, At, SendFails
  <2>2. op' = [op EXCEPT ![w].pc = "refund"] => Goto(w, "refund")
    BY DEF Goto
  <2>3. op[w].pc = "return" /\ Again(w) => op'[w].pc = "return"
    BY <1>0 DEF Again, OpsOK, Verb
  <2> QED BY <1>2, <1>3, <1>4, <1>9, <1>11, <2>1, <2>2, <2>3 DEF Pcs, SendPcs, CollectPcs
<1> QED BY <1>6, <1>7, <1>8, <1>10, <1>12, <1>13

LEMMA LoadStep ==
    ASSUME TypeInv, TypeInv', LoadInv, NameInv, [Next]_vars
    PROVE  LoadInv'
<1>0. OpsOK /\ OpsOK' /\ read' \in [Workers -> Nat] /\ read \in [Workers -> Nat]
  BY DEF TypeInv, MovesOK
<1>1. ASSUME NEW v \in Workers, op'[v] # Idle PROVE VerbSound(op[v], read[v])'
  <2>1. PICK r \in Verb, l \in Nat : r = op'[v] /\ l = read'[v] /\ Placed(r)
    <3>1. op'[v] \in Verb /\ Placed(op[v])'
      BY <1>0, <1>1 DEF OpsOK
    <3>2. PICK r \in Verb : r = op'[v]
      BY <3>1
    <3>3. Placed(r)
      BY <3>1, <3>2 DEF Placed, Stands
    <3> QED BY <1>0, <3>2, <3>3
  <2>2. SUFFICES VerbSound(r, l)
    BY <2>1, VerbKept DEF VerbSound, Sound, Twice
  <2>3. ASSUME op'[v] = op[v], read'[v] = read[v] PROVE VerbSound(r, l)
    BY <1>1, <2>1, <2>3 DEF LoadInv
  <2>4. ASSUME NEW w \in Workers, op[w] # Idle, Work(w) \/ Fault(w) PROVE VerbSound(r, l)
    <3>1. CASE v = w
      BY <1>1, <2>1, <2>4, <3>1, OwnLoad
    <3>2. CASE v # w
      <4>1. op'[v] = op[v]
        BY <1>0, <2>4, <3>2, WorkGoes DEF Goes
      <4>2. read'[v] = read[v]
        BY <1>0, <2>4, <3>2, WorkReads DEF Load, Forget
      <4> QED BY <2>3, <4>1, <4>2
    <3> QED BY <3>1, <3>2
  <2>5. ASSUME NEW w \in Workers, NEW c \in Chars, Arrive(w, c) PROVE VerbSound(r, l)
    <3>1. UNCHANGED read
      BY <2>5, ArriveKeeps
    <3>2. \/ UNCHANGED op
          \/ \E q \in Verb : Begun(w, q) /\ q.pc \in StagePcs \cup {"charge", "clear", "add"}
      BY <2>5, ArriveMoves
    <3>3. ASSUME NEW q \in Verb, Begun(w, q), q.pc \in StagePcs \cup {"charge", "clear", "add"}
          PROVE  VerbSound(r, l)
      <4>1. op'[w] = q /\ \A u \in Workers \ {w} : op'[u] = op[u]
        BY <1>0, <3>3 DEF OpsOK, Begun
      <4>2. CASE v = w
        BY <2>1, <3>3, <4>1, <4>2 DEF VerbSound, StagePcs
      <4>3. CASE v # w
        BY <2>3, <3>1, <4>1, <4>3
      <4> QED BY <4>2, <4>3
    <3> QED BY <2>3, <3>1, <3>2, <3>3
  <2>6. ASSUME UNCHANGED <<op, read>> PROVE VerbSound(r, l)
    BY <2>3, <2>6
  <2>7. \A c \in Chars : OnClose(c) \/ Enter(c) => UNCHANGED <<op, read>>
    BY CloseKeeps
  <2>8. \A o \in Others : Outside(o) => UNCHANGED <<op, read>>
    BY OutsideKeeps
  <2>9. UNCHANGED vars => UNCHANGED <<op, read>>
    BY DEF vars
  <2>10. \A w \in Workers : Fault(w) => op[w] # Idle
    BY DEF Fault
  <2> QED BY <2>4, <2>5, <2>6, <2>7, <2>8, <2>9, <2>10 DEF Next
<1>2. ASSUME NEW o \in Others PROVE MoveSound(ext[o])'
  <2>0. ext \in [Others -> {NoMove} \cup ZenyMoves \cup BagMoves]
    BY DEF TypeInv, MovesOK
  <2>1. PICK x \in {NoMove} \cup ZenyMoves \cup BagMoves : x = ext'[o]
    BY DEF TypeInv, MovesOK
  <2>2. MoveSound(x)
    <3>1. CASE ext'[o] = ext[o]
      BY <2>1, <3>1 DEF LoadInv
    <3>2. CASE ext'[o] # ext[o]
      <4>1. \/ x = NoMove
            \/ x \in ZenyMoves /\ x.loaded + x.by \in Balances
            \/ /\ x \in BagMoves /\ x.row \in DOMAIN rows /\ x.loaded = rows[x.row].amount
               /\ x.name = rows[x.row].name /\ x.amount <= x.loaded
        BY <2>0, <2>1, <3>2, ExtMoves
      <4>2. CASE x = NoMove
        BY <4>2 DEF NoMove, MoveSound
      <4>3. CASE x \in ZenyMoves /\ x.loaded + x.by \in Balances
        BY <4>3 DEF ZenyMoves, MoveSound
      <4>4. CASE /\ x \in BagMoves /\ x.row \in DOMAIN rows /\ x.loaded = rows[x.row].amount
                 /\ x.name = rows[x.row].name /\ x.amount <= x.loaded
        <5>1. x.kind = "bag" /\ x.amount \in Nat
          BY <4>4 DEF BagMoves
        <5>2. Sound(x.row, x.name, x.loaded, x.amount)
          BY <4>4, <5>1, FreshLoad
        <5> QED BY <5>1, <5>2 DEF MoveSound
      <4> QED BY <4>1, <4>2, <4>3, <4>4
    <3> QED BY <3>1, <3>2
  <2>3. MoveSound(x)'
    BY <2>2, MoveKept
  <2> QED BY <2>1, <2>3 DEF MoveSound
<1> QED BY <1>1, <1>2 DEF LoadInv

-----------------------------------------------------------------------------
\* Sums over the letters, the purses and the goroutines.

LEMMA MailFinite ==
    ASSUME TypeInv
    PROVE  IsFiniteSet(DOMAIN mail) /\ IsFiniteSet(DOMAIN rows)
<1>1. /\ nextId - 1 \in Nat /\ DOMAIN mail \subseteq 1 .. nextId - 1
      /\ DOMAIN rows \subseteq 1 .. nextId - 1
  BY DEF TypeInv, MailOK, RowsOK
<1>2. IsFiniteSet(1 .. nextId - 1)
  BY <1>1, FS_Interval
<1> QED BY <1>1, <1>2, FS_Subset

\* What would be in the purses but for the writes of older balances.
Purses == SumOver(zeny, Chars) + overwritten
Posted == SumOver([m \in DOMAIN mail |-> mail[m].zeny], DOMAIN mail)
OnItsWay == SumOver([w \in Workers |-> Carried(w)], Workers)
ZenyOf(t, m) == IF m \in DOMAIN t THEN t[m].zeny ELSE 0

LEMMA PurseShift ==
    ASSUME TypeInv, TypeInv', NEW c \in Chars, NEW loaded \in Nat, NEW by \in Int,
           UpdateZeny(c, loaded, by)
    PROVE  Purses \in Int /\ Purses' = Purses + by
<1>1. /\ \A d \in Chars : zeny[d] \in Int /\ zeny'[d] \in Int
      /\ \A d \in Chars \ {c} : zeny'[d] = zeny[d]
      /\ zeny'[c] = loaded + by
      /\ overwritten' = overwritten + zeny[c] - loaded /\ overwritten \in Int
  BY HalfAssumption DEF TypeInv, HistoryOK, Balances, UpdateZeny
<1>2. IsFiniteSet(Chars)
  BY MailAssumption
<1>3. PICK f, g : f = zeny /\ g = zeny'
  OBVIOUS
<1>4. SumOver(f, Chars) \in Int
  BY <1>1, <1>2, <1>3, SumType
<1>5. SumOver(g, Chars) = SumOver(f, Chars) - f[c] + g[c]
  <2>1. (\A d \in Chars : f[d] \in Int /\ g[d] \in Int) /\ \A d \in Chars \ {c} : g[d] = f[d]
    BY <1>1, <1>3
  <2> QED BY <1>2, <2>1, SumUpdate
<1> QED BY <1>1, <1>3, <1>4, <1>5 DEF Purses

LEMMA PurseType ==
    ASSUME TypeInv
    PROVE  Purses \in Int
<1>1. IsFiniteSet(Chars) /\ \A d \in Chars : zeny[d] \in Int
  BY MailAssumption, HalfAssumption DEF TypeInv, Balances
<1>2. SumOver(zeny, Chars) \in Int /\ overwritten \in Int
  BY <1>1, SumType DEF TypeInv, HistoryOK
<1> QED BY <1>2 DEF Purses

LEMMA PostedShift ==
    ASSUME TypeInv, TypeInv', NEW m, OnlyLetter(m)
    PROVE  /\ Posted \in Int /\ Posted' = Posted - ZenyOf(mail, m) + ZenyOf(mail', m)
           /\ ZenyOf(mail, m) \in Nat /\ ZenyOf(mail', m) \in Nat
<1>1. PICK S, T, f, g : /\ S = DOMAIN mail /\ T = DOMAIN mail'
                        /\ f = [x \in DOMAIN mail |-> mail[x].zeny]
                        /\ g = [x \in DOMAIN mail' |-> mail'[x].zeny]
  OBVIOUS
<1>2. IsFiniteSet(S) /\ T \ {m} = S \ {m}
  BY <1>1, MailFinite DEF OnlyLetter
<1>3. \A x \in DOMAIN mail : mail[x].zeny \in Nat
  BY LetterAt
<1>4. \A x \in DOMAIN mail' : mail'[x].zeny \in Nat
  BY DEF TypeInv, MailOK, Letter
<1>5. (\A x \in S : f[x] \in Int) /\ (\A x \in T : g[x] \in Int)
  BY <1>1, <1>3, <1>4
<1>6. \A x \in S \ {m} : g[x] = f[x]
  BY <1>1 DEF OnlyLetter, SameLetter
<1>7. SumOver(f, S) \in Int /\ SumOver(g, T) = SumOver(f, S) - Share(f, S, m) + Share(g, T, m)
  BY <1>2, <1>5, <1>6, SumType, SumShift
<1>8. Share(f, S, m) = ZenyOf(mail, m) /\ Share(g, T, m) = ZenyOf(mail', m)
  BY <1>1 DEF Share, ZenyOf
<1> QED BY <1>1, <1>3, <1>4, <1>7, <1>8 DEF Posted, ZenyOf

LEMMA PostedSame ==
    ASSUME TypeInv, TypeInv', SameLetters
    PROVE  Posted \in Int /\ Posted' = Posted
<1>1. OnlyLetter(0)
  BY DEF SameLetters, OnlyLetter
<1>2. ZenyOf(mail', 0) = ZenyOf(mail, 0)
  BY DEF ZenyOf, SameLetters, SameLetter
<1> QED BY <1>1, <1>2, PostedShift

LEMMA LettersSame ==
    ASSUME UNCHANGED mail
    PROVE  SameLetters
BY DEF SameLetters, SameLetter

LEMMA CarriedType ==
    ASSUME OpsOK, NEW w \in Workers
    PROVE  Carried(w) \in Nat
BY VerbFields DEF Carried, Pending

LEMMA CarriedAfter == (OpsOK => \A w \in Workers : Carried(w) \in Nat)'
<1>1. OpsOK => \A w \in Workers : Carried(w) \in Nat
  BY CarriedType
<1> QED BY <1>1, PTL

LEMMA WayShift ==
    ASSUME OpsOK, OpsOK', NEW w \in Workers, \A v \in Workers \ {w} : op'[v] = op[v]
    PROVE  /\ OnItsWay \in Int /\ OnItsWay' = OnItsWay - Carried(w) + Carried(w)'
           /\ Carried(w) \in Nat /\ Carried(w)' \in Nat
<1>1. PICK f : f = [v \in Workers |-> Carried(v)]
  OBVIOUS
<1>2. PICK g : g = [v \in Workers |-> Carried(v)']
  OBVIOUS
<1>3. (\A v \in Workers : Carried(v) \in Nat) /\ (\A v \in Workers : Carried(v)' \in Nat)
  BY CarriedType, CarriedAfter
<1>4. \A v \in Workers \ {w} : Carried(v)' = Carried(v)
  BY DEF Carried, Pending
<1>5. (\A v \in Workers : f[v] \in Int /\ g[v] \in Int) /\ \A v \in Workers \ {w} : g[v] = f[v]
  BY <1>1, <1>2, <1>3, <1>4
<1>6. IsFiniteSet(Workers)
  BY MailAssumption
<1>7. SumOver(f, Workers) \in Int
  BY <1>5, <1>6, SumType
<1>9. SumOver(g, Workers) = SumOver(f, Workers) - f[w] + g[w]
  BY <1>5, <1>6, SumUpdate
<1>8. OnItsWay = SumOver(f, Workers) /\ OnItsWay' = SumOver(g, Workers)
  BY <1>1, <1>2 DEF OnItsWay
<1> QED BY <1>1, <1>2, <1>3, <1>7, <1>8, <1>9

LEMMA WayType ==
    ASSUME OpsOK
    PROVE  OnItsWay \in Int
<1>1. PICK f : f = [v \in Workers |-> Carried(v)]
  OBVIOUS
<1>2. IsFiniteSet(Workers) /\ \A v \in Workers : f[v] \in Int
  BY <1>1, MailAssumption, CarriedType
<1> QED BY <1>1, <1>2, SumType DEF OnItsWay

\* What a verb carries, by its statement.
CarriesRule(w) ==
    /\ op[w] = Idle => Carried(w) = 0
    /\ op[w] # Idle =>
         /\ op[w].pc \in {"lift", "take", "insert", "refund", "repay"} => Carried(w) = op[w].total
         /\ op[w].pc \in {"credit", "collect", "restore"} => Carried(w) = op[w].zeny
         /\ op[w].pc \notin {"lift", "take", "insert", "refund", "repay", "credit", "collect", "restore"} =>
              Carried(w) = 0

LEMMA CarriesNow == \A w \in Workers : CarriesRule(w)
BY DEF CarriesRule, Carried, Pending

LEMMA CarriesNext == (\A w \in Workers : CarriesRule(w))'
BY CarriesNow, PTL

\* Where a verb goes, and what it keeps.
Ends(w, p) == /\ op'[w] # Idle /\ op'[w].pc = p /\ op'[w].char = op[w].char
              /\ op'[w].zeny = op[w].zeny /\ op'[w].total = op[w].total

LEMMA MoveEnds ==
    ASSUME OpsOK, NEW w \in Workers, op[w] # Idle, NEW p \in Pcs
    PROVE  /\ Goto(w, p) => Ends(w, p) /\ op'[w].items = op[w].items /\ op'[w].i = op[w].i
           /\ Step(w, p) => Ends(w, p) /\ op'[w].items = op[w].items /\ op'[w].i = 1
           /\ Again(w) /\ More(w) =>
                Ends(w, op[w].pc) /\ op'[w].items = op[w].items /\ op'[w].i = op[w].i + 1
           /\ Passed(w, p) /\ op[w].pc = "take" =>
                Ends(w, p) /\ op'[w].items = op[w].items /\ op'[w].i = op[w].i + 1
           /\ Undo(w) =>
                Ends(w, "refund") /\ op'[w].items = SubSeq(op[w].items, 1, op[w].i - 1) /\ op'[w].i = 1
<1>0. /\ op[w].items \in Seq(Attachment) /\ Len(op[w].items) \in Nat /\ op[w].pc \in Pcs
      /\ op[w].i \in 1 .. Len(op[w].items) + 1
  BY VerbFields
<1>1. ASSUME Goto(w, p) PROVE Ends(w, p) /\ op'[w].items = op[w].items /\ op'[w].i = op[w].i
  BY <1>0, <1>1, Motions, MovedFacts DEF Ends
<1>2. ASSUME Step(w, p) PROVE Ends(w, p) /\ op'[w].items = op[w].items /\ op'[w].i = 1
  <2>1. 1 \in 1 .. Len(op[w].items) + 1
    BY <1>0
  <2> QED BY <1>0, <1>2, <2>1, Motions, MovedFacts DEF Ends
<1>3. ASSUME Again(w), More(w)
      PROVE  Ends(w, op[w].pc) /\ op'[w].items = op[w].items /\ op'[w].i = op[w].i + 1
  <2>1. op[w].i + 1 \in 1 .. Len(op[w].items) + 1
    BY <1>0, <1>3 DEF More
  <2>2. Moved(w, op[w].pc, op[w].items, op[w].i + 1)
    BY <1>3, Motions
  <2> QED BY <1>0, <2>1, <2>2, MovedFacts DEF Ends
<1>4. ASSUME Undo(w)
      PROVE  Ends(w, "refund") /\ op'[w].items = SubSeq(op[w].items, 1, op[w].i - 1) /\ op'[w].i = 1
  <2>1. PICK s : s = SubSeq(op[w].items, 1, op[w].i - 1)
    OBVIOUS
  <2>2. s \in Seq(Attachment) /\ Len(s) \in Nat
    <3>1. op[w].i - 1 \in Int
      BY <1>0
    <3>2. s \in Seq(Attachment)
      BY <1>0, <2>1, <3>1, SubSeqProperties
    <3> QED BY <3>2, LenProperties
  <2>3. "refund" \in Pcs /\ 1 \in 1 .. Len(s) + 1
    BY <2>2 DEF Pcs, SendPcs
  <2>4. Moved(w, "refund", s, 1)
    BY <1>4, <2>1, Motions
  <2>5. /\ op'[w] # Idle /\ op'[w].pc = "refund" /\ op'[w].char = op[w].char
        /\ op'[w].zeny = op[w].zeny /\ op'[w].total = op[w].total /\ op'[w].items = s /\ op'[w].i = 1
    BY <2>2, <2>3, <2>4, MovedFacts
  <2> QED BY <2>1, <2>5 DEF Ends
<1>5. ASSUME Passed(w, p), op[w].pc = "take"
      PROVE  Ends(w, p) /\ op'[w].items = op[w].items /\ op'[w].i = op[w].i + 1
  <2>1. op[w].i \in 1 .. Len(op[w].items)
    BY <1>5, VerbFields
  <2>2. op[w].i + 1 \in 1 .. Len(op[w].items) + 1
    BY <1>0, <2>1
  <2> QED BY <1>0, <1>5, <2>2, Motions, MovedFacts DEF Ends
<1> QED BY <1>1, <1>2, <1>3, <1>4, <1>5

-----------------------------------------------------------------------------
\* No zeny is made or lost.

Money == Purses + Posted + OnItsWay + spent

\* A statement of w: what it does to the purses, the letters, what w carries and what
\* has been spent adds up to nothing.
LEMMA MoneyMoves ==
    ASSUME TypeInv, TypeInv', LetterInv, NEW w \in Workers, op[w] # Idle, Work(w) \/ Fault(w),
           Goes(w), "undo" \notin failed'
    PROVE  Money' = Money
<1>0. /\ OpsOK /\ OpsOK' /\ spent \in Int /\ spent' \in Int
      /\ op[w].char \in Chars /\ op[w].total \in Nat /\ op[w].zeny \in Nat /\ op[w].pc \in Pcs
      /\ Purses \in Int /\ Posted \in Int
  <2>2. Posted \in Int
    <3>1. IsFiniteSet(DOMAIN mail) /\ \A m \in DOMAIN mail : mail[m].zeny \in Nat
      BY MailFinite, LetterAt
    <3>2. PICK f : f = [m \in DOMAIN mail |-> mail[m].zeny]
      OBVIOUS
    <3>3. \A m \in DOMAIN mail : f[m] \in Int
      BY <3>1, <3>2
    <3>4. SumOver(f, DOMAIN mail) \in Int
      BY <3>1, <3>3, SumType
    <3> QED BY <3>2, <3>4 DEF Posted
  <2> QED BY <2>2, VerbFields, PurseType DEF TypeInv, HistoryOK
<1>1. /\ OnItsWay \in Int /\ OnItsWay' = OnItsWay - Carried(w) + Carried(w)'
      /\ Carried(w) \in Nat /\ Carried(w)' \in Nat
  BY <1>0, WayShift DEF Goes
<1>2. CarriesRule(w) /\ CarriesRule(w)'
  BY CarriesNow, CarriesNext
<1>3. UNCHANGED <<zeny, overwritten>> => Purses' = Purses
  BY DEF Purses
<1>4. UNCHANGED mail => Posted' = Posted
  BY DEF Posted
<1>5. Return(w) => Carried(w)' = 0
  BY <1>0, <1>2, ReturnFacts DEF CarriesRule
<1>6. \A p \in Pcs : Goto(w, p) \/ Step(w, p) => Ends(w, p)
  BY <1>0, MoveEnds
<1>7. ASSUME UNCHANGED <<zeny, overwritten, mail, spent>>, Carried(w)' = Carried(w) PROVE Money' = Money
  BY <1>0, <1>1, <1>3, <1>4, <1>7 DEF Money
<1>8. CASE addZenyToMail(w) \/ stageMailItem(w) \/ handleRemoveItemFromMail(w)
  <2>1. Return(w) /\ op[w].pc \in StagePcs /\ UNCHANGED <<zeny, overwritten, mail, spent>>
    BY <1>8, StageKeeps DEF tables, history
  <2>2. Carried(w) = 0
    BY <1>2, <2>1 DEF CarriesRule, StagePcs
  <2> QED BY <1>5, <1>7, <2>1, <2>2
<1>9. CASE charge(w)
  <2>1. /\ op[w].pc = "charge" /\ UNCHANGED <<zeny, overwritten, mail, spent>>
        /\ (op[w].total = 0 /\ Goto(w, "lift")) \/ Return(w) \/ Goto(w, "deduct")
    BY <1>9 DEF charge, At, SendFails, tables, history
  <2>2. Carried(w) = 0
    BY <1>2, <2>1 DEF CarriesRule
  <2>3. Goto(w, "lift") => Carried(w)' = op[w].total
    BY <1>2, <1>6 DEF CarriesRule, Ends, Pcs, SendPcs
  <2>4. Goto(w, "deduct") => Carried(w)' = 0
    BY <1>2, <1>6 DEF CarriesRule, Ends, Pcs, SendPcs
  <2> QED BY <1>5, <1>7, <2>1, <2>2, <2>3, <2>4
<1>10. CASE Deduct(w)
  <2>1. /\ op[w].pc = "deduct" /\ UNCHANGED <<zeny, overwritten, mail, spent>>
        /\ Goto(w, "pay") \/ Return(w)
    BY <1>10 DEF Deduct, At, SendFails, tables, history
  <2>2. Carried(w) = 0
    BY <1>2, <2>1 DEF CarriesRule
  <2>3. Goto(w, "pay") => Carried(w)' = 0
    BY <1>2, <1>6 DEF CarriesRule, Ends, Pcs, SendPcs
  <2> QED BY <1>5, <1>7, <2>1, <2>2, <2>3
<1>21. PICK c \in Chars, k \in Nat, z \in Nat, l \in Nat :
          c = op[w].char /\ k = op[w].total /\ z = op[w].zeny /\ l = read[w]
  BY <1>0 DEF TypeInv, MovesOK
<1>22. CASE Pay(w)
  <2>1. /\ op[w].pc = "pay" /\ UNCHANGED <<mail, spent>> /\ Goto(w, "lift")
        /\ UpdateZeny(c, l, -k)
    BY <1>21, <1>22 DEF Pay, At
  <2>2. Carried(w) = 0 /\ Carried(w)' = k
    BY <1>2, <1>6, <1>21, <2>1 DEF CarriesRule, Ends, Pcs, SendPcs
  <2>3. PICK by \in Int : by = -k
    OBVIOUS
  <2>4. Purses' = Purses + by
    BY <2>1, <2>3, PurseShift
  <2> QED BY <1>0, <1>1, <1>4, <2>1, <2>2, <2>3, <2>4 DEF Money
<1>11. CASE lift(w) \/ Take(w) \/ CreateCount(w)
  <2>1. /\ op[w].pc \in {"lift", "take"} /\ UNCHANGED <<zeny, overwritten, mail, spent>>
        /\ \/ Goto(w, "take") \/ Undo(w) \/ Step(w, "insert")
           \/ op[w].pc = "take" /\ Passed(w, "lift")
    BY <1>11 DEF lift, Take, CreateCount, At, tables, history
  <2>2. Ends(w, "take") \/ Ends(w, "lift") \/ Ends(w, "refund") \/ Ends(w, "insert")
    BY <1>0, <2>1, MoveEnds DEF Pcs, SendPcs
  <2>3. Carried(w)' = op[w].total /\ Carried(w) = op[w].total
    BY <1>2, <2>1, <2>2 DEF CarriesRule, Ends
  <2> QED BY <1>7, <2>1, <2>3
<1>12. CASE CreateInsert(w)
  <2>1. /\ op[w].pc = "insert" /\ UNCHANGED <<zeny, overwritten>> /\ Return(w)
        /\ spent' = spent + op[w].total - op[w].zeny
    BY <1>12 DEF CreateInsert, At
  <2>2. Carried(w) = op[w].total
    BY <1>2, <2>1 DEF CarriesRule
  <2>3. Posted' = Posted - ZenyOf(mail, nextId) + ZenyOf(mail', nextId)
    BY <1>12, NewLetter, PostedShift
  <2>4. ZenyOf(mail, nextId) = 0 /\ ZenyOf(mail', nextId) = op[w].zeny
    BY <1>12, NewLetter DEF ZenyOf
  <2> QED BY <1>0, <1>1, <1>3, <1>5, <2>1, <2>2, <2>3, <2>4 DEF Money
<1>13. CASE Refund(w)
  <2>1. /\ op[w].pc = "refund" /\ UNCHANGED <<zeny, overwritten, mail, spent>>
        /\ \/ op[w].total = 0 /\ Step(w, "return")
           \/ Step(w, "repay")
    BY <1>13 DEF Refund, At, tables
  <2>2. Carried(w) = op[w].total
    BY <1>2, <2>1 DEF CarriesRule
  <2>3. /\ Step(w, "return") => Carried(w)' = 0
        /\ Step(w, "repay") => Carried(w)' = op[w].total
    BY <1>2, <1>6 DEF CarriesRule, Ends, Pcs, SendPcs
  <2> QED BY <1>7, <2>1, <2>2, <2>3
<1>23. CASE Repay(w)
  <2>1. /\ op[w].pc = "repay" /\ UNCHANGED <<mail, spent>> /\ Step(w, "return")
        /\ UpdateZeny(c, l, k)
    BY <1>21, <1>23 DEF Repay, At
  <2>2. Carried(w) = k /\ Carried(w)' = 0
    BY <1>2, <1>6, <1>21, <2>1 DEF CarriesRule, Ends, Pcs, SendPcs
  <2>3. Purses' = Purses + k
    <3>1. k \in Int
      OBVIOUS
    <3> QED BY <2>1, <3>1, PurseShift
  <2> QED BY <1>0, <1>1, <1>4, <2>1, <2>2, <2>3 DEF Money
<1>14. CASE ReturnItem(w) \/ CollectAdd(w)
  <2>1. /\ op[w].pc \in {"return", "add"} /\ UNCHANGED <<zeny, overwritten, mail, spent>> /\ Again(w) /\ More(w)
    BY <1>14 DEF ReturnItem, CollectAdd, At, history
  <2>2. Ends(w, op[w].pc)
    BY <1>0, <2>1, MoveEnds
  <2>3. Carried(w)' = 0 /\ Carried(w) = 0
    BY <1>2, <2>1, <2>2 DEF CarriesRule, Ends
  <2> QED BY <1>7, <2>1, <2>3
<1>15. CASE Undone(w)
  <2>1. op[w].pc = "return" /\ UNCHANGED <<zeny, overwritten, mail, spent>> /\ Return(w)
    BY <1>15 DEF Undone, At, SendFails, tables, history
  <2>2. Carried(w) = 0
    BY <1>2, <2>1 DEF CarriesRule
  <2> QED BY <1>5, <1>7, <2>1, <2>2
<1>16. CASE ClearZeny(w)
  <2>1. op[w].pc = "clear" /\ UNCHANGED <<zeny, overwritten, spent>> /\ Goto(w, "credit")
    BY <1>16 DEF ClearZeny, At, history
  <2>2. Carried(w) = 0 /\ Carried(w)' = op[w].zeny
    BY <1>2, <1>6, <2>1 DEF CarriesRule, Ends, Pcs, CollectPcs
  <2>3. Posted' = Posted - ZenyOf(mail, op[w].id) + ZenyOf(mail', op[w].id)
    BY <1>16, CollectLetters, PostedShift
  <2>4. ZenyOf(mail, op[w].id) = op[w].zeny /\ ZenyOf(mail', op[w].id) = 0
    BY <1>16, <2>1, CollectLetters DEF ZenyOf, LetterInv, Reads, CollectPcs
  <2> QED BY <1>0, <1>1, <1>3, <2>1, <2>2, <2>3, <2>4 DEF Money
<1>17. CASE CollectCredit(w)
  <2>1. /\ op[w].pc = "credit" /\ UNCHANGED <<zeny, overwritten, mail, spent>>
        /\ Goto(w, "collect") \/ Goto(w, "restore")
    BY <1>17 DEF CollectCredit, At, tables, history
  <2>2. Carried(w) = op[w].zeny /\ Carried(w)' = op[w].zeny
    BY <1>2, <1>6, <2>1 DEF CarriesRule, Ends, Pcs, CollectPcs
  <2> QED BY <1>7, <2>1, <2>2
<1>24. CASE Collect(w)
  <2>1. /\ op[w].pc = "collect" /\ UNCHANGED spent /\ Return(w) /\ UpdateZeny(c, l, z)
    BY <1>21, <1>24 DEF Collect, At
  <2>2. Carried(w) = z /\ Carried(w)' = 0 /\ Posted' = Posted
    BY <1>2, <1>5, <1>21, <1>24, <2>1, CollectLetters, PostedSame DEF CarriesRule
  <2>3. Purses' = Purses + z
    <3>1. z \in Int
      OBVIOUS
    <3> QED BY <2>1, <3>1, PurseShift
  <2> QED BY <1>0, <1>1, <2>1, <2>2, <2>3 DEF Money
<1>18. CASE SetZeny(w)
  <2>1. op[w].pc = "restore" /\ UNCHANGED <<zeny, overwritten, spent>> /\ Return(w)
    BY <1>18 DEF SetZeny, At, history
  <2>2. Carried(w) = op[w].zeny
    BY <1>2, <2>1 DEF CarriesRule
  <2>3. Posted' = Posted - ZenyOf(mail, op[w].id) + ZenyOf(mail', op[w].id)
    BY <1>18, CollectLetters, PostedShift
  <2>4. ZenyOf(mail, op[w].id) = 0 /\ ZenyOf(mail', op[w].id) = op[w].zeny
    BY <1>18, <2>1, CollectLetters DEF ZenyOf, LetterInv, Reads, CollectPcs
  <2> QED BY <1>0, <1>1, <1>3, <1>5, <2>1, <2>2, <2>3, <2>4 DEF Money
<1>19. CASE ClearItems(w)
  <2>1. op[w].pc = "add" /\ UNCHANGED <<zeny, overwritten, spent>> /\ Return(w)
    BY <1>19 DEF ClearItems, At, history
  <2>2. Carried(w) = 0
    BY <1>2, <2>1 DEF CarriesRule
  <2>3. Posted' = Posted - ZenyOf(mail, op[w].id) + ZenyOf(mail', op[w].id)
    BY <1>19, CollectLetters, PostedShift
  <2>4. ZenyOf(mail, op[w].id) = ZenyOf(mail', op[w].id) /\ ZenyOf(mail, op[w].id) \in Nat
    BY <1>19, CollectLetters, LetterAt DEF ZenyOf
  <2> QED BY <1>0, <1>1, <1>3, <1>5, <2>1, <2>2, <2>3, <2>4 DEF Money
<1>20. CASE Fault(w)
  <2>1. /\ UNCHANGED <<zeny, overwritten, mail, spent>>
        /\ \/ op[w].pc \in {"deduct", "pay", "clear", "add"} /\ Return(w)
           \/ op[w].pc \in {"lift", "take"} /\ Undo(w)
           \/ op[w].pc = "insert" /\ op' = [op EXCEPT ![w].pc = "refund"]
           \/ op[w].pc \in {"credit", "collect"} /\ Goto(w, "restore")
           \/ "undo" \in failed'
    BY <1>20 DEF Fault, At, SendFails, tables
  <2>2. CASE op[w].pc \in {"deduct", "pay", "clear", "add"} /\ Return(w)
    <3>1. Carried(w) = 0
      BY <1>2, <2>2 DEF CarriesRule
    <3> QED BY <1>5, <1>7, <2>1, <2>2, <3>1
  <2>3. CASE \/ op[w].pc \in {"lift", "take"} /\ Undo(w)
             \/ (op[w].pc = "insert" /\ op' = [op EXCEPT ![w].pc = "refund"])
    <3>1. op' = [op EXCEPT ![w].pc = "refund"] => Goto(w, "refund")
      BY DEF Goto
    <3>2. Ends(w, "refund")
      BY <1>0, <1>6, <2>3, <3>1, MoveEnds DEF Pcs, SendPcs
    <3>3. Carried(w) = op[w].total /\ Carried(w)' = op[w].total
      BY <1>2, <2>3, <3>2 DEF CarriesRule, Ends
    <3> QED BY <1>7, <2>1, <3>3
  <2>4. CASE op[w].pc \in {"credit", "collect"} /\ Goto(w, "restore")
    <3>1. Carried(w) = op[w].zeny /\ Carried(w)' = op[w].zeny
      BY <1>2, <1>6, <2>4 DEF CarriesRule, Ends, Pcs, CollectPcs
    <3> QED BY <1>7, <2>1, <3>1
  <2> QED BY <2>1, <2>2, <2>3, <2>4
<1> QED BY <1>8, <1>9, <1>10, <1>11, <1>12, <1>13, <1>14, <1>15, <1>16, <1>17, <1>18, <1>19, <1>20, <1>22,
           <1>23, <1>24 DEF Work

\* A frame that arrives moves no zeny: a letter that is deleted has none.
LEMMA MoneyArrives ==
    ASSUME TypeInv, TypeInv', NEW w \in Workers, NEW c \in Chars, Arrive(w, c)
    PROVE  Money' = Money
<1>0. OpsOK /\ OpsOK'
  BY DEF TypeInv
<1>1. OnItsWay' = OnItsWay
  <2>1. CASE UNCHANGED op
    BY <2>1 DEF OnItsWay, Carried, Pending
  <2>2. CASE \E r \in Verb : Begun(w, r) /\ r.i = 1 /\ r.pc \in StagePcs \cup {"charge", "clear", "add"}
    <3>1. PICK r \in Verb : Begun(w, r) /\ r.i = 1 /\ r.pc \in StagePcs \cup {"charge", "clear", "add"}
      BY <2>2
    <3>2. op[w] = Idle /\ op'[w] = r /\ op'[w] # Idle /\ \A v \in Workers \ {w} : op'[v] = op[v]
      <4>1. r.pc # "take"
        BY <3>1 DEF StagePcs
      <4> QED BY <1>0, <3>1, <4>1, BegunFacts DEF Begun
    <3>3. Carried(w) = 0 /\ Carried(w)' = 0
      BY <3>1, <3>2, CarriesNow, CarriesNext DEF CarriesRule, StagePcs
    <3> QED BY <1>0, <3>2, <3>3, WayShift
  <2> QED BY <2>1, <2>2, ArriveMoves
<1>2. Posted' = Posted
  <2>1. UNCHANGED mail => Posted' = Posted
    BY DEF Posted
  <2>2. SameLetters => Posted' = Posted
    BY PostedSame
  <2>3. \A m \in DOMAIN mail : handleDeleteMail(w, c, m) => Posted' = Posted
    <3> SUFFICES ASSUME NEW m \in DOMAIN mail, handleDeleteMail(w, c, m) PROVE Posted' = Posted
      OBVIOUS
    <3>1. OnlyLetter(m) /\ m \notin DOMAIN mail' /\ mail[m].zeny = 0
      BY FrameLetters
    <3>2. Posted \in Int /\ Posted' = Posted - ZenyOf(mail, m) + ZenyOf(mail', m)
      BY <3>1, PostedShift
    <3>3. ZenyOf(mail, m) = 0 /\ ZenyOf(mail', m) = 0
      BY <3>1 DEF ZenyOf
    <3> QED BY <3>2, <3>3
  <2> QED BY <2>1, <2>2, <2>3, ArriveKeeps, FrameLetters
<1>3. Purses' = Purses /\ spent' = spent
  BY ArriveKeeps DEF Purses, history
<1> QED BY <1>1, <1>2, <1>3 DEF Money

\* The rest of the world: what another handler takes or gives is counted as it goes.
LEMMA MoneyElsewhere ==
    ASSUME TypeInv, TypeInv', \/ \E c \in Chars : OnClose(c) \/ Enter(c)
                              \/ \E o \in Others : Outside(o)
    PROVE  Money' = Money
<1>1. UNCHANGED <<mail, op>>
  BY CloseKeeps, OutsideKeeps DEF tables
<1>2. Posted' = Posted /\ OnItsWay' = OnItsWay
  BY <1>1 DEF Posted, OnItsWay, Carried, Pending
<1>3. CASE UNCHANGED <<zeny, overwritten, spent>>
  BY <1>2, <1>3 DEF Money, Purses
<1>4. ASSUME NEW o \in Others, MoveZeny(o) PROVE Money' = Money
  <2>1. spent \in Int /\ Posted \in Int /\ OnItsWay \in Int
    <3>1. SameLetters
      BY <1>1, LettersSame
    <3> QED BY <3>1, PostedSame, WayType DEF TypeInv, HistoryOK
  <2>2. ext[o].kind = "zeny"
    BY <1>4 DEF MoveZeny
  <2>3. PICK c \in Chars, l \in Nat, by \in Int :
           c = ext[o].char /\ l = ext[o].loaded /\ by = ext[o].by
    BY <2>2, MoveKinds
  <2>4. UpdateZeny(c, l, by) /\ spent' = spent - by
    BY <1>4, <2>3 DEF MoveZeny
  <2>5. Purses \in Int /\ Purses' = Purses + by
    BY <2>4, PurseShift
  <2> QED BY <1>2, <2>1, <2>4, <2>5 DEF Money
<1>5. UNCHANGED <<zeny, overwritten, spent>> \/ \E o \in Others : MoveZeny(o)
  BY CloseKeeps, OutsideKeeps DEF tables, history
<1> QED BY <1>3, <1>4, <1>5

-----------------------------------------------------------------------------
\* The inductive invariant, and that no zeny is made or lost.

Inv == TypeInv /\ Serial /\ LetterInv /\ NameInv /\ LoadInv

LEMMA InvInit == Init => Inv
<1> SUFFICES ASSUME Init PROVE Inv
  OBVIOUS
<1>1. RowsOK
  <2>1. rows = StartRows /\ nextId = Len(StartRows) + 1 /\ StartRows \in Seq(Row)
    BY MailAssumption DEF Init
  <2>2. Len(StartRows) \in Nat /\ DOMAIN StartRows = 1 .. Len(StartRows)
    BY <2>1, LenProperties
  <2>3. StartRows \in [DOMAIN StartRows -> Row]
    BY <2>1, <2>2, LenProperties
  <2> QED BY <2>1, <2>2, <2>3 DEF RowsOK
<1>2. MailOK
  <2>1. mail = << >> /\ DOMAIN mail = {}
    BY DEF Init
  <2> QED BY <2>1 DEF MailOK
<1>3. \A w \in Workers : op[w] = Idle
  BY DEF Init
<1>4. OpsOK
  BY <1>3 DEF Init, OpsOK
<1>5. HistoryOK
  BY DEF Init, HistoryOK
<1>6. NoSlot \in Slot /\ DOMAIN NoSlot.items = {}
  <2>1. << >> \in Seq(Attachment)
    BY EmptySeq
  <2> QED BY <2>1 DEF NoSlot, Slot
<1>7. zeny \in [Chars -> Balances] /\ slot \in [Chars -> Slot] /\ live \subseteq Chars
  BY <1>6, MailAssumption DEF Init
<1>8. NameInv
  BY <1>3, <1>6 DEF NameInv, Fits, Init
<1>9. TwiceOK
  <2>1. \A n \in Names : doubled[n] = << >> /\ DOMAIN doubled[n] = {}
    BY DEF Init
  <2> QED BY <2>1 DEF Init, TwiceOK
<1>10. MovesOK
  BY DEF Init, MovesOK
<1>11. LoadInv
  <2>1. \A o \in Others : ext[o] = NoMove
    BY DEF Init
  <2> QED BY <1>3, <2>1 DEF LoadInv, MoveSound, NoMove
<1> QED BY <1>1, <1>2, <1>3, <1>4, <1>5, <1>7, <1>8, <1>9, <1>10, <1>11
        DEF Inv, TypeInv, Serial, LetterInv

LEMMA InvStep == Inv /\ [Next]_vars => Inv'
<1> SUFFICES ASSUME Inv, [Next]_vars PROVE Inv'
  OBVIOUS
<1>1. TypeInv' /\ Serial' /\ LetterInv'
  BY TypeStep, SerialStep, LetterStep DEF Inv
<1>2. NameInv' /\ LoadInv'
  BY <1>1, NameStep, LoadStep DEF Inv
<1> QED BY <1>1, <1>2 DEF Inv

\* The balance, while no recovery has failed.
MoneyInv == "undo" \notin failed => Money = SumOver(StartZeny, Chars)

LEMMA MoneyInit == Init => MoneyInv
<1> SUFFICES ASSUME Init PROVE Money = SumOver(StartZeny, Chars)
  BY DEF MoneyInv
<1>1. Purses = SumOver(StartZeny, Chars) + 0 /\ spent = 0
  BY DEF Init, Purses
<1>2. Posted = 0
  <2>1. DOMAIN mail = {}
    BY DEF Init
  <2> QED BY <2>1, SumEmpty DEF Posted
<1>3. OnItsWay = 0
  <2>1. PICK f : f = [w \in Workers |-> Carried(w)]
    OBVIOUS
  <2>2. \A w \in Workers : op[w] = Idle
    BY DEF Init
  <2>3. \A w \in Workers : f[w] = 0
    BY <2>1, <2>2, CarriesNow DEF CarriesRule
  <2>4. IsFiniteSet(Workers) /\ 0 \in Nat
    BY MailAssumption
  <2>5. SumOver(f, Workers) = Cardinality(Workers) * 0
    BY <2>3, <2>4, SumConst
  <2>6. Cardinality(Workers) \in Nat
    BY <2>4, FS_CardinalityType
  <2> QED BY <2>1, <2>5, <2>6 DEF OnItsWay
<1>4. SumOver(StartZeny, Chars) \in Int
  <2>1. IsFiniteSet(Chars) /\ \A c \in Chars : StartZeny[c] \in Int
    BY MailAssumption, HalfAssumption DEF Balances
  <2> QED BY <2>1, SumType
<1> QED BY <1>1, <1>2, <1>3, <1>4 DEF Money

LEMMA MoneyStep == Inv /\ Inv' /\ MoneyInv /\ [Next]_vars => MoneyInv'
<1> SUFFICES ASSUME Inv, Inv', MoneyInv, [Next]_vars, "undo" \notin failed'
             PROVE  Money' = Money
  BY HistoryStep DEF Inv, MoneyInv
<1>0. TypeInv /\ TypeInv' /\ LetterInv /\ OpsOK
  BY DEF Inv, TypeInv
<1>1. ASSUME NEW w \in Workers, op[w] # Idle, Work(w) \/ Fault(w) PROVE Money' = Money
  BY <1>0, <1>1, WorkGoes, MoneyMoves
<1>2. ASSUME NEW w \in Workers, Fault(w) PROVE op[w] # Idle
  BY <1>2 DEF Fault
<1>3. CASE UNCHANGED vars
  BY <1>3 DEF vars, tables, history, Money, Purses, Posted, OnItsWay, Carried, Pending
<1>4. CASE Next
  BY <1>0, <1>1, <1>2, <1>4, MoneyArrives, MoneyElsewhere DEF Next
<1> QED BY <1>3, <1>4

LEMMA InvAlways == Spec => []Inv
<1> QED BY InvInit, InvStep, PTL DEF Spec

\* Every column keeps its type, and windows and letters the shape that Send and the
\* collections read, through the in-place edits of a window no lock protects.  Balances
\* and amounts keep it although they are written from older loads, and what overlapping
\* removals of a row did to it never loses units.
THEOREM TypeCorrect == Spec => []TypeOK
<1>1. Inv => TypeOK
  <2>1. ASSUME Inv PROVE TypeOK
    BY <2>1 DEF Inv, TypeInv, TypeOK, RowsOK, MailOK, HistoryOK, TwiceOK, MovesOK, ZenyMoves, BagMoves,
                Letter, Slot
  <2> QED BY <2>1
<1> QED BY <1>1, InvAlways, PTL

\* No zeny is made or lost by letters: purses, letters, what verbs carry and what was
\* spent add up to what there was, for any number of goroutines whose statements
\* interleave and fail, as long as the recovery of Send and of CollectZeny does not
\* fail.  What the write of an older balance does to another movement of the same purse
\* is counted in overwritten.
THEOREM ZenyCorrect == Spec => []ZenyConserved
<1>1. Inv /\ MoneyInv => ZenyConserved
  <2>1. ASSUME Inv, MoneyInv, "undo" \notin failed PROVE ZenyConserved
    <3>1. PICK a, b, d, e \in Int : /\ a = SumOver(zeny, Chars) /\ e = overwritten
                                   /\ b = Posted /\ d = OnItsWay
      <4>1. SumOver(zeny, Chars) \in Int
        <5>1. IsFiniteSet(Chars) /\ \A c \in Chars : zeny[c] \in Int
          BY <2>1, MailAssumption, HalfAssumption DEF Inv, TypeInv, Balances
        <5> QED BY <5>1, SumType
      <4>2. Posted \in Int
        <5>1. IsFiniteSet(DOMAIN mail) /\ \A m \in DOMAIN mail : mail[m].zeny \in Nat
          BY <2>1, MailFinite, LetterAt DEF Inv
        <5>2. PICK f : f = [m \in DOMAIN mail |-> mail[m].zeny]
          OBVIOUS
        <5>3. \A m \in DOMAIN mail : f[m] \in Int
          BY <5>1, <5>2
        <5> QED BY <5>1, <5>2, <5>3, SumType DEF Posted
      <4> QED BY <2>1, <4>1, <4>2, WayType DEF Inv, TypeInv, HistoryOK
    <3>2. a + e + b + d + spent = SumOver(StartZeny, Chars) /\ spent \in Int
      BY <2>1, <3>1 DEF MoneyInv, Money, Purses, Inv, TypeInv, HistoryOK
    <3>3. a + b + d + spent = SumOver(StartZeny, Chars) - e
      BY <3>1, <3>2
    <3> QED BY <3>1, <3>3 DEF Posted, OnItsWay, ZenyConserved
  <2> QED BY <2>1 DEF ZenyConserved
<1> QED BY <1>1, InvAlways, MoneyInit, MoneyStep, PTL DEF Spec

-----------------------------------------------------------------------------
\* Units of an item in a list of attachments: before position k, from it on, and in all.

Front(s, k, n) == UnitsIn(s, 1 .. k - 1, n)
Rest(s, k, n) == UnitsIn(s, k .. Len(s), n)
Whole(s, n) == UnitsIn(s, DOMAIN s, n)

LEMMA ListType ==
    ASSUME NEW s \in Seq(Attachment), NEW k \in 1 .. Len(s) + 1, NEW n
    PROVE  Whole(s, n) \in Nat /\ Front(s, k, n) \in Nat /\ Rest(s, k, n) \in Nat
<1>1. Len(s) \in Nat /\ DOMAIN s = 1 .. Len(s) /\ \A j \in DOMAIN s : s[j].amount \in Nat
  BY ItemFields
<1>2. IsFiniteSet(DOMAIN s) /\ IsFiniteSet(1 .. k - 1) /\ IsFiniteSet(k .. Len(s))
  BY <1>1, FS_Interval
<1>3. 1 .. k - 1 \subseteq DOMAIN s /\ k .. Len(s) \subseteq DOMAIN s
  BY <1>1
<1>4. PICK A, B : A = 1 .. k - 1 /\ B = k .. Len(s)
  OBVIOUS
<1>5. UnitsIn(s, DOMAIN s, n) \in Nat /\ UnitsIn(s, A, n) \in Nat /\ UnitsIn(s, B, n) \in Nat
  BY <1>1, <1>2, <1>3, <1>4, UnitsType
<1> QED BY <1>4, <1>5 DEF Whole, Front, Rest

LEMMA ListEnds ==
    ASSUME NEW s \in Seq(Attachment), NEW n
    PROVE  /\ Front(s, 1, n) = 0 /\ Rest(s, 1, n) = Whole(s, n)
           /\ Front(s, Len(s) + 1, n) = Whole(s, n) /\ Rest(s, Len(s) + 1, n) = 0
<1>1. Len(s) \in Nat /\ DOMAIN s = 1 .. Len(s)
  BY ItemFields
<1>2. /\ 1 .. 1 - 1 = {} /\ Len(s) + 1 .. Len(s) = {}
      /\ 1 .. Len(s) + 1 - 1 = DOMAIN s /\ 1 .. Len(s) = DOMAIN s
  BY <1>1
<1> QED BY <1>2, UnitsNone DEF Front, Rest, Whole

LEMMA ListNext ==
    ASSUME NEW s \in Seq(Attachment), NEW k \in DOMAIN s, NEW n
    PROVE  /\ One(s, k, n) \in Nat
           /\ Front(s, k + 1, n) = Front(s, k, n) + One(s, k, n)
           /\ Rest(s, k, n) = Rest(s, k + 1, n) + One(s, k, n)
<1>1. Len(s) \in Nat /\ DOMAIN s = 1 .. Len(s) /\ \A j \in DOMAIN s : s[j].amount \in Nat
  BY ItemFields
<1>2. PICK A, B : A = 1 .. k /\ B = k .. Len(s)
  OBVIOUS
<1>3. /\ A \ {k} = 1 .. k - 1 /\ B \ {k} = k + 1 .. Len(s) /\ 1 .. k + 1 - 1 = A
      /\ k \in A /\ k \in B /\ A \subseteq DOMAIN s /\ B \subseteq DOMAIN s
  BY <1>1, <1>2
<1>4. IsFiniteSet(A) /\ IsFiniteSet(B)
  BY <1>1, <1>2, FS_Interval
<1>5. (\A i \in A : s[i].amount \in Nat) /\ (\A i \in B : s[i].amount \in Nat)
  BY <1>1, <1>3
<1>6. UnitsIn(s, A, n) = UnitsIn(s, A \ {k}, n) + One(s, k, n) /\ One(s, k, n) \in Nat
  BY <1>3, <1>4, <1>5, UnitsOne
<1>7. UnitsIn(s, B, n) = UnitsIn(s, B \ {k}, n) + One(s, k, n)
  BY <1>3, <1>4, <1>5, UnitsOne
<1>8. Front(s, k + 1, n) = UnitsIn(s, A, n) /\ Front(s, k, n) = UnitsIn(s, A \ {k}, n)
  <2>1. 1 .. (k + 1) - 1 = A /\ 1 .. k - 1 = A \ {k}
    BY <1>3
  <2>2. Front(s, k + 1, n) = UnitsIn(s, 1 .. (k + 1) - 1, n)
    BY DEF Front
  <2>3. Front(s, k, n) = UnitsIn(s, 1 .. k - 1, n)
    BY DEF Front
  <2> QED BY <2>1, <2>2, <2>3
<1>9. Rest(s, k, n) = UnitsIn(s, B, n) /\ Rest(s, k + 1, n) = UnitsIn(s, B \ {k}, n)
  BY <1>2, <1>3 DEF Rest
<1> QED BY <1>6, <1>7, <1>8, <1>9

LEMMA ListPrefix ==
    ASSUME NEW s \in Seq(Attachment), NEW k \in 1 .. Len(s) + 1, NEW n
    PROVE  Whole(SubSeq(s, 1, k - 1), n) = Front(s, k, n)
<1>1. Len(s) \in Nat /\ DOMAIN s = 1 .. Len(s)
  BY ItemFields
<1>2. PICK t : t = SubSeq(s, 1, k - 1)
  OBVIOUS
<1>3. Len(t) = k - 1 /\ \A i \in 1 .. k - 1 : t[i] = s[i]
  BY <1>1, <1>2, SubSeqProperties
<1>4. t \in Seq(Attachment)
  <2>1. k - 1 \in Int
    BY <1>1
  <2> QED BY <1>2, <2>1, SubSeqProperties
<1>5. DOMAIN t = 1 .. k - 1
  BY <1>3, <1>4, ItemFields
<1>6. \A i \in DOMAIN t : t[i].name = s[i].name /\ t[i].amount = s[i].amount
  BY <1>3, <1>5
<1>7. UnitsIn(t, DOMAIN t, n) = UnitsIn(s, DOMAIN t, n)
  BY <1>6, UnitsSame
<1> QED BY <1>2, <1>5, <1>7 DEF Whole, Front

-----------------------------------------------------------------------------
\* No attachment is lost or made.  The balance counts what is in the bags, in letters,
\* lifted by verbs and gone, less what a collection has delivered while its letter still
\* holds it, and less what overlapping removals took twice.

Bagful(n) == UnitsIn(rows, DOMAIN rows, n)
Enclosed(n) == SumOver([m \in DOMAIN mail |-> Whole(mail[m].items, n)], DOMAIN mail)
Net(w, n) ==
    IF op[w] = Idle THEN 0
    ELSE IF op[w].pc \in {"lift", "take"} THEN Front(op[w].items, op[w].i, n)
    ELSE IF op[w].pc \in {"insert", "refund", "repay"} THEN Whole(op[w].items, n)
    ELSE IF op[w].pc = "return" THEN Rest(op[w].items, op[w].i, n)
    ELSE IF op[w].pc = "add" THEN -Front(op[w].items, op[w].i, n)
    ELSE 0
InHand(n) == SumOver([w \in Workers |-> Net(w, n)], Workers)
Balance(n) == Bagful(n) + Enclosed(n) + InHand(n) + gone[n] - Doubled(n)

\* What a verb has in hand, by its statement.
NetRule(w, n) ==
    /\ op[w] = Idle => Net(w, n) = 0
    /\ op[w] # Idle =>
         /\ op[w].pc \in {"lift", "take"} => Net(w, n) = Front(op[w].items, op[w].i, n)
         /\ op[w].pc \in {"insert", "refund", "repay"} => Net(w, n) = Whole(op[w].items, n)
         /\ op[w].pc = "return" => Net(w, n) = Rest(op[w].items, op[w].i, n)
         /\ op[w].pc = "add" => Net(w, n) = -Front(op[w].items, op[w].i, n)
         /\ op[w].pc \notin {"lift", "take", "insert", "refund", "repay", "return", "add"} =>
              Net(w, n) = 0

LEMMA NetNow == \A w \in Workers, n \in Names : NetRule(w, n)
BY DEF NetRule, Net

LEMMA NetNext == (\A w \in Workers, n \in Names : NetRule(w, n))'
BY NetNow, PTL

LEMMA NetType ==
    ASSUME OpsOK
    PROVE  \A w \in Workers, n \in Names : Net(w, n) \in Int
<1> SUFFICES ASSUME NEW w \in Workers, NEW n \in Names PROVE Net(w, n) \in Int
  OBVIOUS
<1>1. CASE op[w] = Idle
  BY <1>1 DEF Net
<1>2. CASE op[w] # Idle
  <2>1. op[w].items \in Seq(Attachment) /\ op[w].i \in 1 .. Len(op[w].items) + 1
    BY <1>2, VerbFields
  <2>2. PICK f, r, a : /\ f = Front(op[w].items, op[w].i, n) /\ r = Rest(op[w].items, op[w].i, n)
                       /\ a = Whole(op[w].items, n)
    OBVIOUS
  <2>3. f \in Nat /\ r \in Nat /\ a \in Nat
    BY <2>1, <2>2, ListType
  <2> QED BY <1>2, <2>2, <2>3 DEF Net
<1> QED BY <1>1, <1>2

LEMMA NetTypeNext == (OpsOK => \A w \in Workers, n \in Names : Net(w, n) \in Int)'
<1>1. OpsOK => \A w \in Workers, n \in Names : Net(w, n) \in Int
  BY NetType
<1> QED BY <1>1, PTL

LEMMA HandShift ==
    ASSUME OpsOK, OpsOK', NEW w \in Workers, NEW n \in Names, \A v \in Workers \ {w} : op'[v] = op[v]
    PROVE  /\ InHand(n) \in Int /\ InHand(n)' = InHand(n) - Net(w, n) + Net(w, n)'
           /\ Net(w, n) \in Int /\ Net(w, n)' \in Int
<1>1. PICK f : f = [v \in Workers |-> Net(v, n)]
  OBVIOUS
<1>2. PICK g : g = [v \in Workers |-> Net(v, n)']
  OBVIOUS
<1>3. (\A v \in Workers : Net(v, n) \in Int) /\ (\A v \in Workers : Net(v, n)' \in Int)
  BY NetType, NetTypeNext
<1>4. \A v \in Workers \ {w} : Net(v, n)' = Net(v, n)
  BY DEF Net
<1>5. (\A v \in Workers : f[v] \in Int /\ g[v] \in Int) /\ \A v \in Workers \ {w} : g[v] = f[v]
  BY <1>1, <1>2, <1>3, <1>4
<1>6. IsFiniteSet(Workers)
  BY MailAssumption
<1>7. SumOver(f, Workers) \in Int
  BY <1>5, <1>6, SumType
<1>8. SumOver(g, Workers) = SumOver(f, Workers) - f[w] + g[w]
  BY <1>5, <1>6, SumUpdate
<1>9. InHand(n) = SumOver(f, Workers) /\ InHand(n)' = SumOver(g, Workers)
  BY <1>1, <1>2 DEF InHand
<1> QED BY <1>1, <1>2, <1>3, <1>7, <1>8, <1>9

LEMMA NetMoves ==
    ASSUME OpsOK, NEW w \in Workers, op[w] # Idle, NEW n \in Names
    PROVE  /\ Return(w) => Net(w, n)' = 0
           /\ op[w].i = 1 /\ Goto(w, "lift") => Net(w, n)' = 0
           /\ \A p \in {"deduct", "pay", "credit", "collect", "restore"} : Goto(w, p) => Net(w, n)' = 0
           /\ op[w].pc = "lift" /\ Goto(w, "take") => Net(w, n)' = Net(w, n)
           /\ op[w].pc \in {"lift", "take"} /\ Undo(w) => Net(w, n)' = Net(w, n)
           /\ op[w].pc = "lift" /\ ~More(w) /\ Step(w, "insert") => Net(w, n)' = Net(w, n)
           /\ op[w].pc = "insert" /\ Goto(w, "refund") => Net(w, n)' = Net(w, n)
           /\ op[w].pc = "refund" /\ Step(w, "repay") => Net(w, n)' = Net(w, n)
           /\ op[w].pc \in {"refund", "repay"} /\ Step(w, "return") => Net(w, n)' = Net(w, n)
           /\ op[w].pc = "take" /\ Passed(w, "lift") =>
                Net(w, n)' = Net(w, n) + One(op[w].items, op[w].i, n)
           /\ op[w].pc \in {"return", "add"} /\ More(w) /\ Again(w) =>
                Net(w, n)' = Net(w, n) - One(op[w].items, op[w].i, n)
           /\ op[w].pc = "return" /\ ~More(w) => Net(w, n) = 0
           /\ op[w].pc = "add" /\ ~More(w) => Net(w, n) = -Whole(op[w].items, n)
<1>0. /\ op[w].items \in Seq(Attachment) /\ Len(op[w].items) \in Nat /\ op[w].pc \in Pcs
      /\ op[w].i \in 1 .. Len(op[w].items) + 1 /\ DOMAIN op[w].items = 1 .. Len(op[w].items)
  BY VerbFields, ItemFields
<1>1. PICK s, i : s \in Seq(Attachment) /\ i \in 1 .. Len(s) + 1 /\ s = op[w].items /\ i = op[w].i
  BY <1>0
<1>2. NetRule(w, n) /\ NetRule(w, n)'
  BY NetNow, NetNext
<1>3. Whole(s, n) \in Nat /\ Front(s, i, n) \in Nat /\ Rest(s, i, n) \in Nat
  BY <1>1, ListType
<1>4. /\ Front(s, 1, n) = 0 /\ Rest(s, 1, n) = Whole(s, n)
      /\ ~More(w) => i = Len(s) + 1 /\ Front(s, i, n) = Whole(s, n) /\ Rest(s, i, n) = 0
  <2>1. ~More(w) => i = Len(s) + 1
    BY <1>0, <1>1 DEF More
  <2> QED BY <1>1, <2>1, ListEnds
<1>5. More(w) => /\ i + 1 \in 1 .. Len(s) + 1 /\ One(s, i, n) \in Nat
                 /\ Front(s, i + 1, n) = Front(s, i, n) + One(s, i, n)
                 /\ Rest(s, i, n) = Rest(s, i + 1, n) + One(s, i, n)
                 /\ Rest(s, i + 1, n) \in Nat
  <2> SUFFICES ASSUME More(w)
               PROVE  /\ i + 1 \in 1 .. Len(s) + 1 /\ One(s, i, n) \in Nat
                      /\ Front(s, i + 1, n) = Front(s, i, n) + One(s, i, n)
                      /\ Rest(s, i, n) = Rest(s, i + 1, n) + One(s, i, n)
                      /\ Rest(s, i + 1, n) \in Nat
    OBVIOUS
  <2>1. i \in DOMAIN s /\ i + 1 \in 1 .. Len(s) + 1
    BY <1>0, <1>1 DEF More
  <2>2. Rest(s, i + 1, n) \in Nat
    BY <1>1, <2>1, ListType
  <2> QED BY <1>1, <2>1, <2>2, ListNext
<1>6. ASSUME Return(w) PROVE Net(w, n)' = 0
  BY <1>2, <1>6, ReturnFacts DEF NetRule
<1>7. ASSUME op[w].i = 1, Goto(w, "lift") PROVE Net(w, n)' = 0
  <2>1. Ends(w, "lift") /\ op'[w].items = s /\ op'[w].i = 1
    BY <1>1, <1>7, MoveEnds DEF Pcs, SendPcs
  <2> QED BY <1>2, <1>4, <2>1 DEF NetRule, Ends
<1>8. ASSUME NEW p \in {"deduct", "pay", "credit", "collect", "restore"}, Goto(w, p)
      PROVE  Net(w, n)' = 0
  <2>1. Ends(w, p)
    BY <1>8, MoveEnds DEF Pcs, SendPcs, CollectPcs
  <2> QED BY <1>2, <2>1 DEF NetRule, Ends
<1>18. ASSUME op[w].pc = "lift", Goto(w, "take") PROVE Net(w, n)' = Net(w, n)
  <2>1. Ends(w, "take") /\ op'[w].items = s /\ op'[w].i = i
    BY <1>1, <1>18, MoveEnds DEF Pcs, SendPcs
  <2> QED BY <1>1, <1>2, <1>18, <2>1 DEF NetRule, Ends
<1>9. ASSUME op[w].pc \in {"lift", "take"}, Undo(w) PROVE Net(w, n)' = Net(w, n)
  <2>1. Ends(w, "refund") /\ op'[w].items = SubSeq(s, 1, i - 1)
    BY <1>1, <1>9, MoveEnds DEF Pcs, SendPcs
  <2>2. Net(w, n)' = Whole(SubSeq(s, 1, i - 1), n)
    BY <1>2, <2>1 DEF NetRule, Ends
  <2> QED BY <1>1, <1>2, <1>9, <2>2, ListPrefix DEF NetRule
<1>10. ASSUME op[w].pc = "lift", ~More(w), Step(w, "insert") PROVE Net(w, n)' = Net(w, n)
  <2>1. Ends(w, "insert") /\ op'[w].items = s
    BY <1>1, <1>10, MoveEnds DEF Pcs, SendPcs
  <2> QED BY <1>1, <1>2, <1>4, <1>10, <2>1 DEF NetRule, Ends
<1>11. ASSUME op[w].pc = "insert", Goto(w, "refund") PROVE Net(w, n)' = Net(w, n)
  <2>1. Ends(w, "refund") /\ op'[w].items = s
    BY <1>1, <1>11, MoveEnds DEF Pcs, SendPcs
  <2> QED BY <1>1, <1>2, <1>11, <2>1 DEF NetRule, Ends
<1>19. ASSUME op[w].pc = "refund", Step(w, "repay") PROVE Net(w, n)' = Net(w, n)
  <2>1. Ends(w, "repay") /\ op'[w].items = s
    BY <1>1, <1>19, MoveEnds DEF Pcs, SendPcs
  <2> QED BY <1>1, <1>2, <1>19, <2>1 DEF NetRule, Ends
<1>12. ASSUME op[w].pc \in {"refund", "repay"}, Step(w, "return") PROVE Net(w, n)' = Net(w, n)
  <2>1. Ends(w, "return") /\ op'[w].items = s /\ op'[w].i = 1
    BY <1>1, <1>12, MoveEnds DEF Pcs, SendPcs
  <2> QED BY <1>1, <1>2, <1>4, <1>12, <2>1 DEF NetRule, Ends
<1>13. ASSUME op[w].pc = "take", Passed(w, "lift") PROVE Net(w, n)' = Net(w, n) + One(s, i, n)
  <2>1. Ends(w, "lift") /\ op'[w].items = s /\ op'[w].i = i + 1
    BY <1>1, <1>13, MoveEnds DEF Pcs, SendPcs
  <2>2. Net(w, n)' = Front(s, i + 1, n) /\ Net(w, n) = Front(s, i, n)
    BY <1>1, <1>2, <1>13, <2>1 DEF NetRule, Ends
  <2>3. More(w)
    <3>1. op[w].i \in 1 .. Len(op[w].items)
      BY <1>13, VerbFields
    <3> QED BY <1>0, <3>1 DEF More
  <2> QED BY <1>5, <2>2, <2>3
<1>14. ASSUME op[w].pc = "return", More(w), Again(w) PROVE Net(w, n)' = Net(w, n) - One(s, i, n)
  <2>1. Ends(w, "return") /\ op'[w].items = s /\ op'[w].i = i + 1
    BY <1>0, <1>1, <1>14, MoveEnds
  <2>2. Net(w, n)' = Rest(s, i + 1, n) /\ Net(w, n) = Rest(s, i, n)
    BY <1>1, <1>2, <1>14, <2>1 DEF NetRule, Ends
  <2> QED BY <1>5, <1>14, <2>2
<1>15. ASSUME op[w].pc = "add", More(w), Again(w) PROVE Net(w, n)' = Net(w, n) - One(s, i, n)
  <2>1. Ends(w, "add") /\ op'[w].items = s /\ op'[w].i = i + 1
    BY <1>0, <1>1, <1>15, MoveEnds
  <2>2. Net(w, n)' = -Front(s, i + 1, n) /\ Net(w, n) = -Front(s, i, n)
    BY <1>1, <1>2, <1>15, <2>1 DEF NetRule, Ends
  <2> QED BY <1>3, <1>5, <1>15, <2>2
<1>16. ASSUME op[w].pc = "return", ~More(w) PROVE Net(w, n) = 0
  BY <1>1, <1>2, <1>4, <1>16 DEF NetRule
<1>17. ASSUME op[w].pc = "add", ~More(w) PROVE Net(w, n) = -Whole(s, n)
  BY <1>1, <1>2, <1>4, <1>17 DEF NetRule
<1> QED BY <1>1, <1>6, <1>7, <1>8, <1>9, <1>10, <1>11, <1>12, <1>13, <1>14, <1>15, <1>16, <1>17,
           <1>18, <1>19

\* The bags.
LEMMA BagType ==
    ASSUME TypeInv, NEW n \in Names
    PROVE  Bagful(n) \in Int
<1>1. IsFiniteSet(DOMAIN rows) /\ \A i \in DOMAIN rows : rows[i].amount \in Nat
  BY MailFinite DEF TypeInv, RowsOK, Row
<1>2. UnitsIn(rows, DOMAIN rows, n) \in Nat
  BY <1>1, UnitsType
<1> QED BY <1>2 DEF Bagful

\* Row id comes, goes or changes.
LEMMA BagShift ==
    ASSUME TypeInv, RowsOK', NEW n \in Names, NEW id,
           DOMAIN rows' \ {id} = DOMAIN rows \ {id}, \A i \in DOMAIN rows \ {id} : rows'[i] = rows[i]
    PROVE  /\ Bagful(n) \in Int
           /\ Bagful(n)' = Bagful(n) - Part(rows, DOMAIN rows, n, id) + Part(rows', DOMAIN rows', n, id)
<1>1. PICK t, u : t = rows /\ u = rows'
  OBVIOUS
<1>2. IsFiniteSet(DOMAIN t) /\ (\A i \in DOMAIN t : t[i].amount \in Int)
      /\ (\A i \in DOMAIN u : u[i].amount \in Int)
  BY <1>1, MailFinite DEF TypeInv, RowsOK, Row
<1>3. DOMAIN u \ {id} = DOMAIN t \ {id}
  BY <1>1
<1>4. \A i \in DOMAIN t \ {id} : u[i].name = t[i].name /\ u[i].amount = t[i].amount
  BY <1>1
<1>5. PICK A, B : A = DOMAIN t /\ B = DOMAIN u
  OBVIOUS
<1>6. UnitsIn(u, B, n) = UnitsIn(t, A, n) - Part(t, A, n, id) + Part(u, B, n, id)
  BY <1>2, <1>3, <1>4, <1>5, UnitsShift
<1>7. Bagful(n) = UnitsIn(t, A, n) /\ Bagful(n)' = UnitsIn(u, B, n)
  BY <1>1, <1>5 DEF Bagful
<1> QED BY <1>1, <1>5, <1>6, <1>7, BagType

LEMMA BagPut ==
    ASSUME TypeInv, NEW n \in Names, NEW c \in Chars, NEW x \in Names, NEW k \in Nat,
           rows' = AddRow(rows, nextId, c, x, k), nextId' = nextId + 1
    PROVE  Bagful(n) \in Int /\ Bagful(n)' = Bagful(n) + (IF x = n THEN k ELSE 0)
<1>1. /\ RowsOK' /\ DOMAIN rows' = DOMAIN rows \cup {nextId} /\ nextId \notin DOMAIN rows
      /\ rows'[nextId].name = x /\ rows'[nextId].amount = k
      /\ \A i \in DOMAIN rows : rows'[i] = rows[i]
  BY AddRowFacts DEF TypeInv
<1>2. PICK id : id = nextId
  OBVIOUS
<1>3. DOMAIN rows' \ {id} = DOMAIN rows \ {id} /\ \A i \in DOMAIN rows \ {id} : rows'[i] = rows[i]
  BY <1>1, <1>2
<1>4. Bagful(n) \in Int
      /\ Bagful(n)' = Bagful(n) - Part(rows, DOMAIN rows, n, id) + Part(rows', DOMAIN rows', n, id)
  BY <1>1, <1>3, BagShift
<1>5. Part(rows, DOMAIN rows, n, id) = 0 /\ Part(rows', DOMAIN rows', n, id) = IF x = n THEN k ELSE 0
  BY <1>1, <1>2 DEF Part
<1> QED BY <1>4, <1>5

\* What overlapping removals took twice.
LEMMA DoubledType ==
    ASSUME TypeInv, NEW n \in Names
    PROVE  /\ Doubled(n) \in Nat /\ IsFiniteSet(DOMAIN doubled[n])
           /\ \A i \in DOMAIN doubled[n] : doubled[n][i] \in Nat
<1>1. DOMAIN doubled[n] \subseteq 0 .. nextId - 1 /\ \A i \in DOMAIN doubled[n] : doubled[n][i] \in Nat
  BY DEF TypeInv, TwiceOK
<1>2. IsFiniteSet(0 .. nextId - 1)
  <2>1. nextId - 1 \in Int
    BY DEF TypeInv, RowsOK
  <2> QED BY <2>1, FS_Interval
<1>3. IsFiniteSet(DOMAIN doubled[n])
  BY <1>1, <1>2, FS_Subset
<1> QED BY <1>1, <1>3, SumNat DEF Doubled

\* A removal takes k units, from the row or, recorded, once more.
LEMMA BagTake ==
    ASSUME TypeInv, TypeInv', NEW n \in Names, NEW id \in Nat, NEW x \in Names, NEW loaded \in Nat,
           NEW k \in Nat, Removes(id, x, loaded, k)
    PROVE  /\ Bagful(n) \in Int /\ Bagful(n)' \in Int /\ Doubled(n) \in Int /\ Doubled(n)' \in Int
           /\ Bagful(n)' - Doubled(n)' = Bagful(n) - Doubled(n) - (IF x = n THEN k ELSE 0)
<1>1. /\ RowsOK' /\ DOMAIN rows' \ {id} = DOMAIN rows \ {id}
      /\ \A i \in DOMAIN rows \ {id} : rows'[i] = rows[i]
      /\ id \in DOMAIN rows /\ id \notin DOMAIN rows' => loaded = k
      /\ id \in DOMAIN rows' => /\ id \in DOMAIN rows /\ rows'[id].name = rows[id].name
                                /\ rows'[id].amount = loaded - k
      /\ id \in DOMAIN rows => rows[id].name = x
      /\ k <= loaded
  <2>1. /\ k <= loaded /\ UNCHANGED nextId /\ rows' = RemoveWrite(rows, id, loaded, k)
        /\ id \in DOMAIN rows => rows[id].name = x
    BY DEF Removes, Sound, Remove
  <2> QED BY <2>1, TakeFacts DEF TypeInv
<1>2. /\ Bagful(n) \in Int
      /\ Bagful(n)' = Bagful(n) - Part(rows, DOMAIN rows, n, id) + Part(rows', DOMAIN rows', n, id)
  BY <1>1, BagShift
<1>3. \A i \in DOMAIN rows : rows[i].amount \in Nat
  BY DEF TypeInv, RowsOK, Row
<1>4. /\ Twice(x, id) \in Nat /\ Twice(x, id)' \in Nat
      /\ id \in DOMAIN rows => Twice(x, id)' = Twice(x, id) + loaded - rows[id].amount
      /\ id \notin DOMAIN rows => Twice(x, id)' = Twice(x, id) + k
      /\ DOMAIN doubled'[x] = DOMAIN doubled[x] \cup {id}
      /\ \A i \in DOMAIN doubled[x] \ {id} : doubled'[x][i] = doubled[x][i]
      /\ \A m \in Names \ {x} : doubled'[m] = doubled[m]
  BY RemovesFacts
<1>5. Doubled(n) \in Nat
  BY DoubledType
<1>6. CASE x # n
  <2>1. Part(rows, DOMAIN rows, n, id) = 0 /\ Part(rows', DOMAIN rows', n, id) = 0
    BY <1>1, <1>6 DEF Part
  <2>2. Doubled(n)' = Doubled(n)
    BY <1>4, <1>6 DEF Doubled
  <2> QED BY <1>2, <1>5, <1>6, <2>1, <2>2
<1>7. CASE x = n
  <2>1. PICK S, T, f, g : S = DOMAIN doubled[n] /\ T = DOMAIN doubled'[n] /\ f = doubled[n] /\ g = doubled'[n]
    OBVIOUS
  <2>2. IsFiniteSet(S) /\ \A i \in S : f[i] \in Int
    BY <2>1, DoubledType
  <2>3. T \ {id} = S \ {id} /\ \A i \in S \ {id} : g[i] = f[i]
    BY <1>4, <1>7, <2>1
  <2>4. \A i \in T : g[i] \in Int
    BY <2>1 DEF TypeInv, TwiceOK
  <2>5. SumOver(g, T) = SumOver(f, S) - Share(f, S, id) + Share(g, T, id)
    BY <2>2, <2>3, <2>4, SumShift
  <2>6. Share(f, S, id) = Twice(x, id) /\ Share(g, T, id) = Twice(x, id)'
    BY <1>7, <2>1 DEF Share, Twice
  <2>7. Doubled(n)' = Doubled(n) - Twice(x, id) + Twice(x, id)'
    BY <2>1, <2>5, <2>6 DEF Doubled
  <2>8. CASE id \in DOMAIN rows
    <3>1. PICK a \in Nat : a = rows[id].amount
      BY <1>3, <2>8
    <3>2. Part(rows, DOMAIN rows, n, id) = a
      BY <1>1, <1>7, <2>8, <3>1 DEF Part
    <3>3. Part(rows', DOMAIN rows', n, id) = loaded - k
      <4>1. CASE id \in DOMAIN rows'
        BY <1>1, <1>7, <4>1 DEF Part
      <4>2. CASE id \notin DOMAIN rows'
        BY <1>1, <2>8, <4>2 DEF Part
      <4> QED BY <4>1, <4>2
    <3>4. Bagful(n)' = Bagful(n) - a + (loaded - k)
      BY <1>2, <3>2, <3>3
    <3>5. Doubled(n)' = Doubled(n) + (loaded - a)
      BY <1>4, <1>5, <2>7, <2>8, <3>1
    <3> QED BY <1>2, <1>5, <1>7, <3>4, <3>5
  <2>9. CASE id \notin DOMAIN rows
    <3>1. Part(rows, DOMAIN rows, n, id) = 0 /\ Part(rows', DOMAIN rows', n, id) = 0
      BY <1>1, <2>9 DEF Part
    <3>2. Doubled(n)' = Doubled(n) + k
      BY <1>4, <1>5, <2>7, <2>9
    <3> QED BY <1>2, <1>5, <1>7, <3>1, <3>2
  <2> QED BY <2>8, <2>9
<1> QED BY <1>6, <1>7

\* The letters.
UnitsOf(t, m, n) == IF m \in DOMAIN t THEN Whole(t[m].items, n) ELSE 0

LEMMA WholeType ==
    ASSUME NEW s \in Seq(Attachment), NEW n
    PROVE  Whole(s, n) \in Nat
<1>1. Len(s) \in Nat /\ 1 \in 1 .. Len(s) + 1
  BY ItemFields
<1> QED BY <1>1, ListType

LEMMA EnclosedShift ==
    ASSUME TypeInv, TypeInv', NEW n \in Names, NEW m, OnlyLetter(m)
    PROVE  /\ Enclosed(n) \in Int
           /\ Enclosed(n)' = Enclosed(n) - UnitsOf(mail, m, n) + UnitsOf(mail', m, n)
           /\ UnitsOf(mail, m, n) \in Nat /\ UnitsOf(mail', m, n) \in Nat
<1>0. PICK t, u : t = mail /\ u = mail'
  OBVIOUS
<1>1. PICK S, T, f, g : /\ S = DOMAIN t /\ T = DOMAIN u
                        /\ f = [x \in DOMAIN t |-> Whole(t[x].items, n)]
                        /\ g = [x \in DOMAIN u |-> Whole(u[x].items, n)]
  OBVIOUS
<1>2. IsFiniteSet(S) /\ T \ {m} = S \ {m}
  BY <1>0, <1>1, MailFinite DEF OnlyLetter
<1>3. \A x \in S : t[x].items \in Seq(Attachment)
  BY <1>0, <1>1, LetterAt
<1>4. \A x \in T : u[x].items \in Seq(Attachment)
  BY <1>0, <1>1 DEF TypeInv, MailOK, Letter
<1>5. (\A x \in S : f[x] \in Nat) /\ (\A x \in T : g[x] \in Nat)
  BY <1>1, <1>3, <1>4, WholeType
<1>6. \A x \in S \ {m} : g[x] = f[x]
  <2>1. \A x \in S \ {m} : x \in T /\ u[x].items = t[x].items
    BY <1>0, <1>1 DEF OnlyLetter, SameLetter
  <2> QED BY <1>1, <2>1
<1>7. (\A x \in S : f[x] \in Int) /\ (\A x \in T : g[x] \in Int)
  BY <1>5
<1>8. SumOver(f, S) \in Int /\ SumOver(g, T) = SumOver(f, S) - Share(f, S, m) + Share(g, T, m)
  BY <1>2, <1>6, <1>7, SumType, SumShift
<1>9. Share(f, S, m) = UnitsOf(mail, m, n) /\ Share(g, T, m) = UnitsOf(mail', m, n)
  BY <1>0, <1>1 DEF Share, UnitsOf
<1>10. Share(f, S, m) \in Nat /\ Share(g, T, m) \in Nat
  BY <1>5 DEF Share
<1>11. Enclosed(n) = SumOver(f, S) /\ Enclosed(n)' = SumOver(g, T)
  BY <1>0, <1>1 DEF Enclosed
<1> QED BY <1>8, <1>9, <1>10, <1>11

LEMMA EnclosedType ==
    ASSUME TypeInv, NEW n \in Names
    PROVE  Enclosed(n) \in Int
<1>1. PICK f : f = [x \in DOMAIN mail |-> Whole(mail[x].items, n)]
  OBVIOUS
<1>2. \A x \in DOMAIN mail : f[x] \in Int
  <2>1. \A x \in DOMAIN mail : mail[x].items \in Seq(Attachment)
    BY LetterAt
  <2> QED BY <1>1, <2>1, WholeType
<1>3. SumOver(f, DOMAIN mail) \in Int
  BY <1>2, MailFinite, SumType
<1> QED BY <1>1, <1>3 DEF Enclosed

LEMMA EnclosedSame ==
    ASSUME TypeInv, TypeInv', NEW n \in Names,
           SameLetters \/ \E m \in DOMAIN mail : /\ OnlyLetter(m) /\ m \in DOMAIN mail'
                                                 /\ mail'[m].items = mail[m].items
    PROVE  Enclosed(n) \in Int /\ Enclosed(n)' = Enclosed(n)
<1>1. PICK m : OnlyLetter(m) /\ UnitsOf(mail', m, n) = UnitsOf(mail, m, n)
  <2>1. CASE SameLetters
    <3>1. OnlyLetter(0)
      BY <2>1 DEF SameLetters, OnlyLetter
    <3>2. UnitsOf(mail', 0, n) = UnitsOf(mail, 0, n)
      BY <2>1 DEF UnitsOf, SameLetters, SameLetter
    <3> QED BY <3>1, <3>2
  <2>2. ASSUME NEW m \in DOMAIN mail, OnlyLetter(m), m \in DOMAIN mail', mail'[m].items = mail[m].items
        PROVE  UnitsOf(mail', m, n) = UnitsOf(mail, m, n)
    BY <2>2 DEF UnitsOf
  <2> QED BY <2>1, <2>2
<1> QED BY <1>1, EnclosedShift

\* A statement that succeeds moves units from one place to the next.
LEMMA UnitsMove ==
    ASSUME TypeInv, TypeInv', LetterInv, LoadInv, NEW w \in Workers, op[w] # Idle, Work(w), Goes(w),
           NEW n \in Names
    PROVE  Balance(n)' = Balance(n)
<1>0. /\ OpsOK /\ OpsOK' /\ gone[n] \in Nat /\ Doubled(n) \in Int
      /\ op[w].char \in Chars /\ op[w].pc \in Pcs /\ op[w].items \in Seq(Attachment)
      /\ op[w].i \in 1 .. Len(op[w].items) + 1 /\ Bagful(n) \in Int /\ Enclosed(n) \in Int
  BY VerbFields, BagType, EnclosedType, DoubledType DEF TypeInv, HistoryOK
<1>1. /\ InHand(n) \in Int /\ InHand(n)' = InHand(n) - Net(w, n) + Net(w, n)'
      /\ Net(w, n) \in Int /\ Net(w, n)' \in Int
  BY <1>0, HandShift DEF Goes
<1>2. NetRule(w, n)
  BY NetNow
<1>3. UNCHANGED rows => Bagful(n)' = Bagful(n)
  BY DEF Bagful
<1>4. UNCHANGED mail => Enclosed(n)' = Enclosed(n)
  BY DEF Enclosed
<1>5. Return(w) => Net(w, n)' = 0
  BY <1>0, NetMoves
<1>20. UNCHANGED doubled => Doubled(n)' = Doubled(n)
  BY DEF Doubled
<1>6. ASSUME Bagful(n)' = Bagful(n), Enclosed(n)' = Enclosed(n), Net(w, n)' = Net(w, n),
             UNCHANGED <<gone, doubled>>
      PROVE  Balance(n)' = Balance(n)
  BY <1>0, <1>1, <1>6, <1>20 DEF Balance
<1>7. CASE addZenyToMail(w) \/ stageMailItem(w) \/ handleRemoveItemFromMail(w)
  <2>1. Return(w) /\ op[w].pc \in StagePcs /\ UNCHANGED <<rows, mail, gone, doubled>>
    BY <1>7, StageKeeps DEF tables, history
  <2>2. Net(w, n) = 0
    BY <1>2, <2>1 DEF NetRule, StagePcs
  <2> QED BY <1>3, <1>4, <1>5, <1>6, <2>1, <2>2
<1>8. CASE charge(w) \/ Deduct(w) \/ Pay(w)
  <2>1. /\ op[w].pc \in {"charge", "deduct", "pay"} /\ UNCHANGED <<rows, mail, gone, doubled>>
        /\ Goto(w, "lift") \/ Return(w) \/ Goto(w, "deduct") \/ Goto(w, "pay")
    BY <1>8 DEF charge, Deduct, Pay, At, SendFails, tables, history
  <2>2. op[w].i = 1
    BY <2>1 DEF TypeInv, OpsOK, Placed, Stands
  <2>3. Net(w, n) = 0 /\ Net(w, n)' = 0
    BY <1>0, <1>2, <1>5, <2>1, <2>2, NetMoves DEF NetRule
  <2> QED BY <1>3, <1>4, <1>6, <2>1, <2>3
<1>9. CASE lift(w)
  <2>1. /\ op[w].pc = "lift" /\ UNCHANGED <<rows, mail, gone, doubled>>
        /\ Goto(w, "take") \/ Undo(w)
    BY <1>9 DEF lift, At, tables, history
  <2>2. Net(w, n)' = Net(w, n)
    BY <1>0, <1>9, <2>1, NetMoves DEF lift
  <2> QED BY <1>3, <1>4, <1>6, <2>1, <2>2
<1>21. CASE Take(w)
  <2>1. UNCHANGED <<mail, gone>> /\ Passed(w, "lift")
    BY <1>21 DEF Take
  <2>2. /\ op[w].pc = "take" /\ op[w].i \in DOMAIN op[w].items
        /\ Item(w).row \in Nat /\ Item(w).name \in Names /\ Item(w).amount \in Nat /\ read[w] \in Nat
        /\ Removes(Item(w).row, Item(w).name, read[w], Item(w).amount)
    BY <1>21, TakeRemoves
  <2>3. PICK id \in Nat, x \in Names, k \in Nat, l \in Nat :
           id = Item(w).row /\ x = Item(w).name /\ k = Item(w).amount /\ l = read[w]
    BY <2>2
  <2>4. Removes(id, x, l, k)
    BY <2>2, <2>3
  <2>5. PICK j : j = IF x = n THEN k ELSE 0
    OBVIOUS
  <2>6. /\ Bagful(n)' \in Int /\ Doubled(n)' \in Int
        /\ Bagful(n)' - Doubled(n)' = Bagful(n) - Doubled(n) - j
    BY <2>4, <2>5, BagTake
  <2>7. One(op[w].items, op[w].i, n) = j
    BY <2>2, <2>3, <2>5 DEF One, Item
  <2>8. Net(w, n)' = Net(w, n) + j /\ j \in Nat
    BY <1>0, <2>1, <2>2, <2>3, <2>5, <2>7, NetMoves
  <2>9. InHand(n)' = InHand(n) + j /\ InHand(n) \in Int /\ j \in Int
    BY <1>1, <2>8
  <2>10. Enclosed(n)' = Enclosed(n) /\ gone'[n] = gone[n] /\ gone[n] \in Int /\ Enclosed(n) \in Int
         /\ Bagful(n) \in Int /\ Doubled(n) \in Int
    BY <1>0, <1>4, <2>1
  <2>11. PICK b, bb, d, dd, h, e, g \in Int :
            /\ b = Bagful(n) /\ bb = Bagful(n)' /\ d = Doubled(n) /\ dd = Doubled(n)'
            /\ h = InHand(n) /\ e = Enclosed(n) /\ g = gone[n]
    BY <2>6, <2>9, <2>10
  <2>12. Balance(n) = b + e + h + g - d
    BY <2>11 DEF Balance
  <2>13. Balance(n)' = bb + e + (h + j) + g - dd
    BY <2>9, <2>10, <2>11 DEF Balance
  <2>14. bb - dd = b - d - j
    BY <2>6, <2>11
  <2>15. bb + e + (h + j) + g - dd = b + e + h + g - d
    BY <2>9, <2>11, <2>14
  <2> QED BY <2>12, <2>13, <2>15
<1>10. CASE CreateCount(w)
  <2>1. /\ op[w].pc = "lift" /\ ~More(w) /\ UNCHANGED <<rows, mail, gone, doubled>>
        /\ Step(w, "insert") \/ Undo(w)
    BY <1>10 DEF CreateCount, At, tables, history
  <2>2. Net(w, n)' = Net(w, n)
    BY <1>0, <2>1, NetMoves
  <2> QED BY <1>3, <1>4, <1>6, <2>1, <2>2
<1>11. CASE CreateInsert(w)
  <2>1. op[w].pc = "insert" /\ UNCHANGED <<rows, gone, doubled>> /\ Return(w)
    BY <1>11 DEF CreateInsert, At
  <2>2. Net(w, n) = Whole(op[w].items, n)
    BY <1>2, <2>1 DEF NetRule
  <2>3. Enclosed(n)' = Enclosed(n) - UnitsOf(mail, nextId, n) + UnitsOf(mail', nextId, n)
    BY <1>11, NewLetter, EnclosedShift
  <2>4. UnitsOf(mail, nextId, n) = 0 /\ UnitsOf(mail', nextId, n) = Whole(op[w].items, n)
    BY <1>11, NewLetter DEF UnitsOf
  <2> QED BY <1>0, <1>1, <1>3, <1>5, <1>20, <2>1, <2>2, <2>3, <2>4 DEF Balance
<1>12. CASE Refund(w) \/ Repay(w)
  <2>1. /\ UNCHANGED <<rows, mail, gone, doubled>>
        /\ \/ op[w].pc = "refund" /\ Step(w, "repay")
           \/ op[w].pc \in {"refund", "repay"} /\ Step(w, "return")
    BY <1>12 DEF Refund, Repay, At, tables
  <2>2. Net(w, n)' = Net(w, n)
    BY <1>0, <2>1, NetMoves
  <2> QED BY <1>3, <1>4, <1>6, <2>1, <2>2
<1>13. CASE ReturnItem(w) \/ CollectAdd(w)
  <2>1. /\ op[w].pc \in {"return", "add"} /\ More(w) /\ Again(w) /\ UNCHANGED <<mail, gone, doubled>>
        /\ rows' = AddRow(rows, nextId, op[w].char, Item(w).name, Item(w).amount)
        /\ nextId' = nextId + 1
    BY <1>13 DEF ReturnItem, CollectAdd, At, history
  <2>2. PICK c \in Chars, x \in Names, k \in Nat : c = op[w].char /\ x = Item(w).name /\ k = Item(w).amount
    BY <1>0, <2>1, ItemType
  <2>3. Bagful(n)' = Bagful(n) + (IF x = n THEN k ELSE 0)
    BY <2>1, <2>2, BagPut
  <2>4. Net(w, n)' = Net(w, n) - One(op[w].items, op[w].i, n)
    BY <1>0, <2>1, NetMoves
  <2>5. One(op[w].items, op[w].i, n) = IF x = n THEN k ELSE 0
    BY <2>2 DEF One, Item
  <2>6. PICK j : j = IF x = n THEN k ELSE 0
    OBVIOUS
  <2>7. j \in Nat /\ Bagful(n)' = Bagful(n) + j /\ Net(w, n)' = Net(w, n) - j
    BY <2>3, <2>4, <2>5, <2>6
  <2> QED BY <1>0, <1>1, <1>4, <1>20, <2>1, <2>7 DEF Balance
<1>14. CASE Undone(w)
  <2>1. op[w].pc = "return" /\ ~More(w) /\ Return(w) /\ UNCHANGED <<rows, mail, gone, doubled>>
    BY <1>14 DEF Undone, At, SendFails, tables, history
  <2>2. Net(w, n) = 0
    BY <1>0, <2>1, NetMoves
  <2> QED BY <1>3, <1>4, <1>5, <1>6, <2>1, <2>2
<1>15. CASE ClearZeny(w) \/ SetZeny(w) \/ CollectCredit(w) \/ Collect(w)
  <2>1. /\ op[w].pc \in {"clear", "restore", "credit", "collect"} /\ UNCHANGED <<rows, gone, doubled>>
        /\ Goto(w, "credit") \/ Goto(w, "collect") \/ Goto(w, "restore") \/ Return(w)
    BY <1>15 DEF ClearZeny, SetZeny, CollectCredit, Collect, At, tables, history
  <2>2. Net(w, n) = 0 /\ Net(w, n)' = 0
    BY <1>0, <1>2, <2>1, NetMoves DEF NetRule
  <2>3. Enclosed(n)' = Enclosed(n)
    <3>1. CASE ClearZeny(w) \/ SetZeny(w) \/ Collect(w)
      BY <3>1, CollectLetters, EnclosedSame
    <3>2. CASE CollectCredit(w)
      BY <1>4, <3>2 DEF CollectCredit, tables
    <3> QED BY <1>15, <3>1, <3>2
  <2> QED BY <1>3, <1>6, <2>1, <2>2, <2>3
<1>16. CASE ClearItems(w)
  <2>1. op[w].pc = "add" /\ ~More(w) /\ Return(w) /\ UNCHANGED <<rows, gone, doubled>>
    BY <1>16 DEF ClearItems, At, history
  <2>2. Net(w, n) = -Whole(op[w].items, n)
    BY <1>0, <2>1, NetMoves
  <2>3. PICK m : m = op[w].id
    OBVIOUS
  <2>4. /\ OnlyLetter(m) /\ DOMAIN mail' = DOMAIN mail /\ m \in DOMAIN mail
        /\ mail'[m].items = << >> /\ mail[m].items = op[w].items
    <3>1. op[w].pc \in CollectPcs
      BY <2>1 DEF CollectPcs
    <3> QED BY <1>16, <2>1, <2>3, <3>1, CollectLetters DEF LetterInv, Reads
  <2>5. Enclosed(n)' = Enclosed(n) - UnitsOf(mail, m, n) + UnitsOf(mail', m, n)
    BY <2>4, EnclosedShift
  <2>6. Whole(<< >>, n) = 0
    <3>1. DOMAIN << >> = {}
      OBVIOUS
    <3> QED BY <3>1, UnitsNone DEF Whole
  <2>7. UnitsOf(mail, m, n) = Whole(op[w].items, n) /\ UnitsOf(mail', m, n) = 0
    BY <2>4, <2>6 DEF UnitsOf
  <2>8. Whole(op[w].items, n) \in Nat
    BY <1>0, WholeType
  <2> QED BY <1>0, <1>1, <1>3, <1>5, <1>20, <2>1, <2>2, <2>5, <2>7, <2>8 DEF Balance
<1> QED BY <1>7, <1>8, <1>9, <1>10, <1>11, <1>12, <1>13, <1>14, <1>15, <1>16, <1>21 DEF Work

\* A statement that fails leaves what was lifted in the verb's hands, or in the bag when
\* it is the deletion of what was collected that fails.
Keeps(n) == "undo" \notin failed' => /\ Balance(n)' >= Balance(n)
                                     /\ failed' = {} => Balance(n)' = Balance(n)

LEMMA BalanceType ==
    ASSUME TypeInv, NEW n \in Names
    PROVE  Balance(n) \in Int
<1>1. PICK f : f = [w \in Workers |-> Net(w, n)]
  OBVIOUS
<1>2. \A w \in Workers : f[w] \in Int
  BY <1>1, NetType DEF TypeInv
<1>3. IsFiniteSet(Workers)
  BY MailAssumption
<1>4. InHand(n) \in Int
  BY <1>1, <1>2, <1>3, SumType DEF InHand
<1>5. Doubled(n) \in Int /\ gone[n] \in Int
  BY DoubledType DEF TypeInv, HistoryOK
<1> QED BY <1>4, <1>5, BagType, EnclosedType DEF Balance

LEMMA BalanceTypeNext == (TypeInv => \A n \in Names : Balance(n) \in Int)'
<1>1. TypeInv => \A n \in Names : Balance(n) \in Int
  BY BalanceType
<1> QED BY <1>1, PTL

LEMMA SameKeeps ==
    ASSUME TypeInv, NEW n \in Names, Balance(n)' = Balance(n)
    PROVE  Keeps(n)
BY BalanceType DEF Keeps

LEMMA UnitsFault ==
    ASSUME TypeInv, TypeInv', NEW w \in Workers, op[w] # Idle, Fault(w), Goes(w), NEW n \in Names
    PROVE  Keeps(n)
<1>0. /\ OpsOK /\ OpsOK' /\ gone[n] \in Nat
      /\ op[w].pc \in Pcs /\ op[w].items \in Seq(Attachment)
      /\ op[w].i \in 1 .. Len(op[w].items) + 1 /\ Bagful(n) \in Int /\ Enclosed(n) \in Int
  BY VerbFields, BagType, EnclosedType DEF TypeInv, HistoryOK
<1>1. /\ InHand(n) \in Int /\ InHand(n)' = InHand(n) - Net(w, n) + Net(w, n)'
      /\ Net(w, n) \in Int /\ Net(w, n)' \in Int
  BY <1>0, HandShift DEF Goes
<1>2. NetRule(w, n)
  BY NetNow
<1>3. /\ UNCHANGED <<rows, mail, gone, doubled>>
      /\ \/ op[w].pc \in {"deduct", "pay", "clear"} /\ Return(w)
         \/ op[w].pc \in {"credit", "collect"} /\ Goto(w, "restore")
         \/ op[w].pc \in {"lift", "take"} /\ Undo(w)
         \/ op[w].pc = "insert" /\ Goto(w, "refund")
         \/ op[w].pc = "add" /\ Return(w) /\ "collect" \in failed'
         \/ "undo" \in failed'
  BY DEF Fault, At, SendFails, tables, Goto
<1>4. /\ Bagful(n)' = Bagful(n) /\ Enclosed(n)' = Enclosed(n) /\ UNCHANGED gone
      /\ Doubled(n)' = Doubled(n) /\ Doubled(n) \in Int
  BY <1>3, DoubledType DEF Bagful, Enclosed, Doubled
<1>5. ASSUME Net(w, n)' = Net(w, n) PROVE Keeps(n)
  <2>1. Balance(n)' = Balance(n)
    BY <1>0, <1>1, <1>4, <1>5 DEF Balance
  <2> QED BY <2>1, SameKeeps
<1>6. Return(w) => Net(w, n)' = 0
  BY <1>0, NetMoves
<1>7. CASE op[w].pc \in {"deduct", "pay", "clear"} /\ Return(w)
  BY <1>2, <1>5, <1>6, <1>7 DEF NetRule
<1>8. CASE op[w].pc \in {"credit", "collect"} /\ Goto(w, "restore")
  <2>1. Net(w, n)' = 0 /\ Net(w, n) = 0
    BY <1>0, <1>2, <1>8, NetMoves DEF NetRule
  <2> QED BY <1>5, <2>1
<1>9. CASE (op[w].pc \in {"lift", "take"} /\ Undo(w)) \/ (op[w].pc = "insert" /\ Goto(w, "refund"))
  BY <1>0, <1>5, <1>9, NetMoves
<1>10. CASE op[w].pc = "add" /\ Return(w) /\ "collect" \in failed'
  <2>1. PICK f : f = Front(op[w].items, op[w].i, n)
    OBVIOUS
  <2>2. f \in Nat
    BY <1>0, <2>1, ListType
  <2>3. Net(w, n) = -f /\ Net(w, n)' = 0
    BY <1>2, <1>6, <1>10, <2>1 DEF NetRule
  <2>4. Balance(n)' >= Balance(n)
    BY <1>0, <1>1, <1>4, <2>2, <2>3 DEF Balance
  <2> QED BY <1>10, <2>4 DEF Keeps
<1>11. CASE "undo" \in failed'
  BY <1>11 DEF Keeps
<1> QED BY <1>3, <1>7, <1>8, <1>9, <1>10, <1>11

\* A frame that arrives moves no units: a letter that is deleted is empty.
LEMMA UnitsArrive ==
    ASSUME TypeInv, TypeInv', NEW w \in Workers, NEW c \in Chars, Arrive(w, c), NEW n \in Names
    PROVE  Balance(n)' = Balance(n)
<1>0. OpsOK /\ OpsOK'
  BY DEF TypeInv
<1>1. InHand(n)' = InHand(n)
  <2>1. CASE UNCHANGED op
    BY <2>1 DEF InHand, Net
  <2>2. CASE \E r \in Verb : Begun(w, r) /\ r.i = 1 /\ r.pc \in StagePcs \cup {"charge", "clear", "add"}
    <3>1. PICK r \in Verb : Begun(w, r) /\ r.i = 1 /\ r.pc \in StagePcs \cup {"charge", "clear", "add"}
      BY <2>2
    <3>2. op[w] = Idle /\ op'[w] = r /\ op'[w] # Idle /\ \A v \in Workers \ {w} : op'[v] = op[v]
      <4>1. r.pc # "take"
        BY <3>1 DEF StagePcs
      <4> QED BY <1>0, <3>1, <4>1, BegunFacts DEF Begun
    <3>3. Front(r.items, 1, n) = 0
      BY ListEnds DEF Verb
    <3>4. NetRule(w, n) /\ NetRule(w, n)'
      BY NetNow, NetNext
    <3>5. Net(w, n) = 0
      BY <3>2, <3>4 DEF NetRule
    <3>6. Net(w, n)' = 0
      BY <3>1, <3>2, <3>3, <3>4 DEF NetRule, StagePcs
    <3>7. InHand(n) \in Int /\ InHand(n)' = InHand(n) - Net(w, n) + Net(w, n)'
      BY <1>0, <3>2, HandShift
    <3> QED BY <3>5, <3>6, <3>7
  <2> QED BY <2>1, <2>2, ArriveMoves
<1>2. Enclosed(n)' = Enclosed(n)
  <2>1. UNCHANGED mail => Enclosed(n)' = Enclosed(n)
    BY DEF Enclosed
  <2>2. SameLetters => Enclosed(n)' = Enclosed(n)
    BY EnclosedSame
  <2>3. \A m \in DOMAIN mail : handleDeleteMail(w, c, m) => Enclosed(n)' = Enclosed(n)
    <3> SUFFICES ASSUME NEW m \in DOMAIN mail, handleDeleteMail(w, c, m) PROVE Enclosed(n)' = Enclosed(n)
      OBVIOUS
    <3>1. OnlyLetter(m) /\ m \notin DOMAIN mail' /\ mail[m].items = << >>
      BY FrameLetters
    <3>2. Enclosed(n) \in Int /\ Enclosed(n)' = Enclosed(n) - UnitsOf(mail, m, n) + UnitsOf(mail', m, n)
      BY <3>1, EnclosedShift
    <3>3. Whole(<< >>, n) = 0
      <4>1. DOMAIN << >> = {}
        OBVIOUS
      <4> QED BY <4>1, UnitsNone DEF Whole
    <3>4. UnitsOf(mail, m, n) = 0 /\ UnitsOf(mail', m, n) = 0
      BY <3>1, <3>3 DEF UnitsOf
    <3> QED BY <3>2, <3>4
  <2> QED BY <2>1, <2>2, <2>3, ArriveKeeps, FrameLetters
<1>3. Bagful(n)' = Bagful(n) /\ Doubled(n)' = Doubled(n) /\ UNCHANGED gone
  BY ArriveKeeps DEF Bagful, Doubled, history
<1> QED BY <1>1, <1>2, <1>3 DEF Balance

\* What another handler takes from a row is counted as gone.
LEMMA UnitsElsewhere ==
    ASSUME TypeInv, TypeInv', LoadInv, NEW n \in Names,
           \/ \E c \in Chars : OnClose(c) \/ Enter(c)
           \/ \E o \in Others : Outside(o)
    PROVE  Balance(n)' = Balance(n)
<1>1. UNCHANGED <<mail, op>>
  BY CloseKeeps, OutsideKeeps DEF tables
<1>2. Enclosed(n)' = Enclosed(n) /\ InHand(n)' = InHand(n)
  BY <1>1 DEF Enclosed, InHand, Net
<1>3. CASE UNCHANGED <<rows, gone, doubled>>
  BY <1>2, <1>3 DEF Balance, Bagful, Doubled
<1>4. ASSUME NEW o \in Others, MoveUnits(o) PROVE Balance(n)' = Balance(n)
  <2>1. /\ ext[o].row \in Nat /\ ext[o].name \in Names /\ ext[o].amount \in Nat /\ ext[o].loaded \in Nat
        /\ Removes(ext[o].row, ext[o].name, ext[o].loaded, ext[o].amount)
    BY <1>4, MoveRemoves
  <2>2. PICK id \in Nat, x \in Names, l \in Nat, k \in Nat :
           id = ext[o].row /\ x = ext[o].name /\ l = ext[o].loaded /\ k = ext[o].amount
    BY <2>1
  <2>3. Removes(id, x, l, k) /\ gone' = [gone EXCEPT ![x] = @ + k] /\ gone \in [Names -> Nat]
    BY <1>4, <2>1, <2>2 DEF MoveUnits, TypeInv, HistoryOK
  <2>4. PICK j : j = IF x = n THEN k ELSE 0
    OBVIOUS
  <2>5. /\ Bagful(n) \in Int /\ Bagful(n)' \in Int /\ Doubled(n) \in Int /\ Doubled(n)' \in Int
        /\ Bagful(n)' - Doubled(n)' = Bagful(n) - Doubled(n) - j
    BY <2>3, <2>4, BagTake
  <2>6. gone[n] \in Nat /\ gone'[n] = gone[n] + j /\ j \in Nat
    BY <2>3, <2>4
  <2>7. Enclosed(n) \in Int /\ InHand(n) \in Int
    <3>1. OpsOK
      BY DEF TypeInv
    <3>2. PICK f : f = [w \in Workers |-> Net(w, n)]
      OBVIOUS
    <3>3. IsFiniteSet(Workers) /\ \A w \in Workers : f[w] \in Int
      BY <3>1, <3>2, NetType, MailAssumption
    <3> QED BY <3>2, <3>3, SumType, EnclosedType DEF InHand
  <2> QED BY <1>2, <2>5, <2>6, <2>7 DEF Balance
<1>5. UNCHANGED <<rows, gone, doubled>> \/ \E o \in Others : MoveUnits(o)
  BY CloseKeeps, OutsideKeeps DEF tables, history
<1> QED BY <1>3, <1>4, <1>5

-----------------------------------------------------------------------------
\* The balance of each item, and what it says of the units a player can find.

BalanceInv == \A n \in Names : /\ "undo" \notin failed => Balance(n) >= StartUnits(n)
                               /\ failed = {} => Balance(n) = StartUnits(n)

LEMMA StartType ==
    ASSUME NEW n \in Names
    PROVE  StartUnits(n) \in Nat
<1>1. StartRows \in Seq(Row) /\ Len(StartRows) \in Nat /\ DOMAIN StartRows = 1 .. Len(StartRows)
  BY MailAssumption, LenProperties
<1>2. IsFiniteSet(DOMAIN StartRows)
  BY <1>1, FS_Interval
<1>3. \A i \in DOMAIN StartRows : StartRows[i].amount \in Nat
  <2>1. \A i \in DOMAIN StartRows : StartRows[i] \in Row
    BY <1>1, ElementOfSeq
  <2> QED BY <2>1 DEF Row
<1> QED BY <1>2, <1>3, UnitsType DEF StartUnits

LEMMA BalanceInit == Init => BalanceInv
<1> SUFFICES ASSUME Init, NEW n \in Names PROVE Balance(n) = StartUnits(n)
  BY StartType DEF BalanceInv
<1>1. Bagful(n) = StartUnits(n) /\ gone[n] = 0
  BY DEF Init, Bagful, StartUnits
<1>2. Enclosed(n) = 0
  <2>1. DOMAIN mail = {}
    BY DEF Init
  <2> QED BY <2>1, SumEmpty DEF Enclosed
<1>3. InHand(n) = 0
  <2>1. PICK f : f = [w \in Workers |-> Net(w, n)]
    OBVIOUS
  <2>2. \A w \in Workers : op[w] = Idle
    BY DEF Init
  <2>3. \A w \in Workers : f[w] = 0
    BY <2>1, <2>2, NetNow DEF NetRule
  <2>4. IsFiniteSet(Workers) /\ 0 \in Nat
    BY MailAssumption
  <2>5. SumOver(f, Workers) = Cardinality(Workers) * 0
    BY <2>3, <2>4, SumConst
  <2>6. Cardinality(Workers) \in Nat
    BY <2>4, FS_CardinalityType
  <2> QED BY <2>1, <2>5, <2>6 DEF InHand
<1>4. Doubled(n) = 0
  <2>1. doubled[n] = << >>
    BY DEF Init
  <2>2. DOMAIN << >> = {}
    OBVIOUS
  <2> QED BY <2>1, <2>2, SumEmpty DEF Doubled
<1> QED BY <1>1, <1>2, <1>3, <1>4, StartType DEF Balance

LEMMA BalanceStep == Inv /\ Inv' /\ BalanceInv /\ [Next]_vars => BalanceInv'
<1> SUFFICES ASSUME Inv, Inv', BalanceInv, [Next]_vars PROVE BalanceInv'
  OBVIOUS
<1>0. TypeInv /\ TypeInv' /\ LetterInv /\ LoadInv /\ OpsOK /\ failed \subseteq failed'
  BY HistoryStep DEF Inv, TypeInv
<1>1. ASSUME NEW n \in Names PROVE Keeps(n)
  <2>1. ASSUME NEW w \in Workers, op[w] # Idle, Work(w) PROVE Keeps(n)
    <3>1. Goes(w)
      BY <1>0, <2>1, WorkGoes
    <3>2. Balance(n)' = Balance(n)
      BY <1>0, <2>1, <3>1, UnitsMove
    <3> QED BY <1>0, <3>2, SameKeeps
  <2>2. ASSUME NEW w \in Workers, Fault(w) PROVE Keeps(n)
    <3>1. op[w] # Idle
      BY <2>2 DEF Fault
    <3>2. Goes(w)
      BY <1>0, <2>2, <3>1, WorkGoes
    <3> QED BY <1>0, <2>2, <3>1, <3>2, UnitsFault
  <2>3. ASSUME NEW w \in Workers, NEW c \in Chars, Arrive(w, c) PROVE Keeps(n)
    BY <1>0, <2>3, UnitsArrive, SameKeeps
  <2>4. CASE (\E c \in Chars : OnClose(c) \/ Enter(c)) \/ (\E o \in Others : Outside(o))
    BY <1>0, <2>4, UnitsElsewhere, SameKeeps
  <2>5. CASE UNCHANGED vars
    <3>1. UNCHANGED <<rows, mail, op, gone, doubled>>
      BY <2>5 DEF vars, tables, history
    <3>2. Balance(n)' = Balance(n)
      BY <3>1 DEF Balance, Bagful, Enclosed, InHand, Net, Doubled
    <3> QED BY <1>0, <3>2, SameKeeps
  <2>6. CASE Next
    BY <2>1, <2>2, <2>3, <2>4, <2>6 DEF Next
  <2> QED BY <2>5, <2>6
<1>2. ASSUME NEW n \in Names
      PROVE  /\ "undo" \notin failed' => Balance(n)' >= StartUnits(n)
             /\ failed' = {} => Balance(n)' = StartUnits(n)
  <2>1. Balance(n) \in Int /\ StartUnits(n) \in Nat
    BY <1>0, BalanceType, StartType
  <2>2. Balance(n)' \in Int
    BY <1>0, BalanceTypeNext
  <2> QED BY <1>0, <1>1, <2>1, <2>2 DEF BalanceInv, Keeps
<1> QED BY <1>2 DEF BalanceInv, StartUnits

\* A verb has lifted what it has in hand, and a collection in progress less than nothing.

LEMMA LiftedNet ==
    ASSUME OpsOK, NEW w \in Workers, NEW n \in Names
    PROVE  /\ Net(w, n) \in Int /\ UnitsLifted(w, n) \in Int /\ Net(w, n) <= UnitsLifted(w, n)
           /\ ~(op[w] # Idle /\ op[w].pc = "add") => UnitsLifted(w, n) = Net(w, n)
<1>1. CASE op[w] = Idle
  <2>1. Lifted(w) = {}
    BY <1>1 DEF Lifted, Idle
  <2> QED BY <1>1, <2>1 DEF Net, UnitsLifted, Idle
<1>2. CASE op[w] # Idle
  <2>1. op[w].items \in Seq(Attachment) /\ op[w].i \in 1 .. Len(op[w].items) + 1
    BY <1>2, VerbFields
  <2>2. PICK f, r, a : /\ f = Front(op[w].items, op[w].i, n) /\ r = Rest(op[w].items, op[w].i, n)
                       /\ a = Whole(op[w].items, n)
    OBVIOUS
  <2>3. f \in Nat /\ r \in Nat /\ a \in Nat
    BY <2>1, <2>2, ListType
  <2>4. /\ op[w].pc \in {"lift", "take"} => UnitsLifted(w, n) = f
        /\ op[w].pc \in {"insert", "refund", "repay"} => UnitsLifted(w, n) = a
        /\ op[w].pc = "return" => UnitsLifted(w, n) = r
        /\ op[w].pc \notin {"lift", "take", "insert", "refund", "repay", "return"} =>
             UnitsLifted(w, n) = 0
    <3>1. op[w].pc \in {"lift", "take"} => UnitsLifted(w, n) = f
      <4>1. op[w].pc \in {"lift", "take"} => Lifted(w) = 1 .. op[w].i - 1
        BY <1>2 DEF Lifted
      <4> QED BY <2>2, <4>1, UnitsNone DEF UnitsLifted, Front
    <3>2. op[w].pc \in {"insert", "refund", "repay"} => UnitsLifted(w, n) = a
      <4>1. op[w].pc \in {"insert", "refund", "repay"} => Lifted(w) = DOMAIN op[w].items
        BY <1>2 DEF Lifted
      <4> QED BY <2>2, <4>1, UnitsNone DEF UnitsLifted, Whole
    <3>3. op[w].pc = "return" => UnitsLifted(w, n) = r
      <4>1. op[w].pc = "return" => Lifted(w) = op[w].i .. Len(op[w].items)
        BY <1>2 DEF Lifted
      <4> QED BY <2>2, <4>1, UnitsNone DEF UnitsLifted, Rest
    <3>4. op[w].pc \notin {"lift", "take", "insert", "refund", "repay", "return"} =>
            UnitsLifted(w, n) = 0
      BY <1>2 DEF UnitsLifted, Lifted
    <3> QED BY <3>1, <3>2, <3>3, <3>4
  <2> QED BY <1>2, <2>2, <2>3, <2>4 DEF Net
<1> QED BY <1>1, <1>2

\* Units that a player can find are those of the balance, those that removals took twice
\* and those a collection is delivering.
LEMMA UnitsFound ==
    ASSUME TypeInv, NEW n \in Names
    PROVE  /\ Units(n) \in Int /\ Doubled(n) \in Nat /\ Balance(n) + Doubled(n) <= Units(n)
           /\ (\A w \in Workers : op[w] # Idle => ~At(w, "add")) => Units(n) = Balance(n) + Doubled(n)
<1>1. PICK b : b = SumOver([c \in Chars |-> Held(rows, c, n)], Chars)
  OBVIOUS
<1>2. b = Bagful(n)
  <2>1. IsFiniteSet(DOMAIN rows) /\ IsFiniteSet(Chars)
        /\ \A i \in DOMAIN rows : rows[i].amount \in Nat /\ rows[i].owner \in Chars
    BY MailFinite, MailAssumption DEF TypeInv, RowsOK, Row
  <2>2. SumOver(Shares(rows, DOMAIN rows, Chars, n), Chars) = UnitsIn(rows, DOMAIN rows, n)
    BY <2>1, UnitsSplit
  <2>3. [c \in Chars |-> Held(rows, c, n)] = Shares(rows, DOMAIN rows, Chars, n)
    BY DEF Held, Owned, Shares
  <2> QED BY <1>1, <2>2, <2>3 DEF Bagful
<1>3. PICK f, g : f = [w \in Workers |-> Net(w, n)] /\ g = [w \in Workers |-> UnitsLifted(w, n)]
  OBVIOUS
<1>4. IsFiniteSet(Workers) /\ OpsOK
  BY MailAssumption DEF TypeInv
<1>5. \A w \in Workers : f[w] \in Int /\ g[w] \in Int /\ f[w] <= g[w]
  BY <1>3, <1>4, LiftedNet
<1>6. SumOver(f, Workers) <= SumOver(g, Workers) /\ SumOver(f, Workers) \in Int /\ SumOver(g, Workers) \in Int
  BY <1>4, <1>5, SumMonotone, SumType
<1>7. (\A w \in Workers : op[w] # Idle => ~At(w, "add")) => SumOver(g, Workers) = SumOver(f, Workers)
  <2> SUFFICES ASSUME \A w \in Workers : op[w] # Idle => ~At(w, "add")
               PROVE  SumOver(g, Workers) = SumOver(f, Workers)
    OBVIOUS
  <2>1. \A w \in Workers : f[w] \in Int /\ g[w] = f[w]
    BY <1>3, <1>4, LiftedNet DEF At
  <2> QED BY <1>4, <2>1, SumSame
<1>8. Balance(n) = Bagful(n) + Enclosed(n) + SumOver(f, Workers) + gone[n] - Doubled(n)
  BY <1>3 DEF Balance, InHand
<1>9. Units(n) = Bagful(n) + Enclosed(n) + SumOver(g, Workers) + gone[n]
  BY <1>1, <1>2, <1>3 DEF Units, Enclosed, Whole
<1>10. Bagful(n) \in Int /\ Enclosed(n) \in Int /\ gone[n] \in Int /\ Doubled(n) \in Nat
  BY BagType, EnclosedType, DoubledType DEF TypeInv, HistoryOK
<1> QED BY <1>6, <1>7, <1>8, <1>9, <1>10

\* Items sent by mail arrive, once, for any number of goroutines whose statements
\* interleave and fail: units are lost only by an undo that fails, and made only by a
\* collection whose own statement fails, or by removals of a row that overlap, which
\* doubled records.
THEOREM AttachmentsCorrect == Spec => []AttachmentsConserved
<1>1. Inv /\ BalanceInv => AttachmentsKept /\ DeliveredOnce
  <2> SUFFICES ASSUME Inv, BalanceInv PROVE AttachmentsKept /\ DeliveredOnce
    OBVIOUS
  <2>1. \A n \in Names :
           /\ Units(n) \in Int /\ Balance(n) \in Int /\ StartUnits(n) \in Nat /\ Doubled(n) \in Nat
           /\ Balance(n) + Doubled(n) <= Units(n)
           /\ (\A w \in Workers : op[w] # Idle => ~At(w, "add")) => Units(n) = Balance(n) + Doubled(n)
    BY UnitsFound, BalanceType, StartType DEF Inv
  <2>2. AttachmentsKept
    BY <2>1 DEF BalanceInv, AttachmentsKept
  <2>3. DeliveredOnce
    BY <2>1 DEF BalanceInv, DeliveredOnce
  <2> QED BY <2>2, <2>3
<1>2. Spec => [](Inv /\ BalanceInv)
  BY InvInit, InvStep, BalanceInit, BalanceStep, PTL DEF Spec
<1> QED BY <1>1, <1>2, TypeCorrect, PTL DEF AttachmentsConserved

=============================================================================
