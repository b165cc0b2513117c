-------------------------------- MODULE Mail --------------------------------
(***************************************************************************)
(* Letters with zeny and items attached: social/mail/app/service.go over    *)
(* its tables (social/mail/infra/gorm.go), and the compose window the map   *)
(* server keeps for each character (gateway/app/mail.go).                   *)
(*                                                                         *)
(* A frame is handled by a goroutine; lockMailOps lets one verb of a        *)
(* character run at a time.  A verb is several statements on the char, the  *)
(* inventory and the mail tables; each may fail, and Send and CollectZeny   *)
(* take back what they had done.  A movement of zeny reads the balance and  *)
(* then writes an absolute one, as Remove does with the units of a row.     *)
(* Handlers outside lockMailOps move the same character's zeny and items in *)
(* the same two statements, and closing the connection takes no lock.       *)
(***************************************************************************)
EXTENDS Inventory, Zeny, Sequences, FiniteSets

CONSTANTS
    Workers,      \* goroutines of the mail verbs
    Others,       \* goroutines of the other handlers
    Weight,       \* of one unit of an item
    AttachPrice,  \* zeny charged for each attached item
    MaxZeny, MaxInbox, MaxItems, MaxWeight,
    Amounts,      \* units in requests
    Sums,         \* zeny in requests
    Moves,        \* zeny that other handlers spend or earn
    StartRows, StartZeny,
    MaxRequests,  \* bound: verbs, moves of other handlers and closes
    MaxFaults     \* bound: failing statements

ASSUME MailAssumption ==
    /\ IsFiniteSet(Chars) /\ IsFiniteSet(Workers)
    /\ Weight \in [Names -> Nat] /\ AttachPrice \in Nat
    /\ MaxZeny \in 0 .. Half - 1 /\ MaxInbox \in Nat /\ MaxItems \in Nat /\ MaxWeight \in Nat
    /\ Amounts \subseteq Nat \ {0} /\ Sums \subseteq Nat /\ Moves \subseteq Nat \ {0}
    /\ StartRows \in Seq(Row) /\ StartZeny \in [Chars -> Balances]
    /\ MaxRequests \in Nat /\ MaxFaults \in Nat

VARIABLES
    rows, nextId,   \* the inventory table, and the next id of it and of the mail table
    zeny,           \* the char.zeny column
    mail,           \* the mail table, each letter with its attachments
    slot,           \* mailStaging: the open compose window of each character
    live,           \* the characters whose connection is open
    op,             \* the verb each goroutine is executing
    read,           \* the balance, or the units of a row, that its last load read
    ext,            \* the movement each other goroutine is executing
    spent, gone,    \* history: zeny and units that left by fees and other handlers
    overwritten,    \* history: zeny that came to a purse and that the write of an older
                    \* balance took away again; negative for zeny it brought back
    doubled,        \* history: of each item, the units of a row that overlapping removals
                    \* of the row both took
    failed,         \* history: the kinds of recovery that themselves failed
    count           \* the bounded counters

tables == <<rows, nextId, zeny, mail>>
history == <<spent, gone, overwritten, doubled, failed>>
vars == <<tables, slot, live, op, read, ext, history, count>>

Statuses == {"new", "unread", "read"}
Attachment == [row : Nat, name : Names, amount : Nat]
NoSlot == [writing |-> FALSE, zeny |-> 0, items |-> << >>]
Idle == [pc |-> "idle"]
NoMove == [kind |-> "none"]
Nobody == 0

Init ==
    /\ rows = StartRows /\ nextId = Len(StartRows) + 1
    /\ zeny = StartZeny
    /\ mail = << >>
    /\ slot = [c \in Chars |-> NoSlot]
    /\ live = Chars
    /\ op = [w \in Workers |-> Idle]
    /\ read = [w \in Workers |-> 0]
    /\ ext = [o \in Others |-> NoMove]
    /\ spent = 0 /\ gone = [n \in Names |-> 0]
    /\ overwritten = 0 /\ doubled = [n \in Names |-> << >>]
    /\ failed = {}
    /\ count = [requests |-> 0, faults |-> 0]

-----------------------------------------------------------------------------
\* Control.

\* Mutant of lockMailOps: the verbs of a character are not serialized.
lockMailOpsNot(c) == TRUE

lockMailOps(c) == \A v \in Workers : op[v] # Idle => op[v].char # c

Op(c, pc) ==
    [char |-> c, pc |-> pc, id |-> 0, to |-> c, zeny |-> 0, total |-> 0, items |-> << >>,
     i |-> 1]
Counted ==
    /\ count.requests < MaxRequests
    /\ count' = [count EXCEPT !.requests = @ + 1]
\* A frame of c begins a verb on w, or is a verb of one step.
Frame(w, c) == op[w] = Idle /\ c \in live /\ lockMailOps(c) /\ Counted
Goto(w, pc) == op' = [op EXCEPT ![w].pc = pc]
Step(w, pc) == op' = [op EXCEPT ![w].pc = pc, ![w].i = 1]
Again(w) == op' = [op EXCEPT ![w].i = @ + 1]
Passed(w, pc) == op' = [op EXCEPT ![w].pc = pc, ![w].i = @ + 1]
Return(w) == op' = [op EXCEPT ![w] = Idle]
At(w, pc) == op[w].pc = pc
More(w) == op[w].i <= Len(op[w].items)
Item(w) == op[w].items[op[w].i]
clearMailSlot(c) == slot' = [slot EXCEPT ![c] = NoSlot]
setMailSlot(c, st) == slot' = [slot EXCEPT ![c] = st]

\* A load, and the end of what it was good for.
Load(w, n) == read' = [read EXCEPT ![w] = n]
Forget(w) == Load(w, 0)

\* UpdateZeny writes the balance that was loaded, moved by an amount, whatever the
\* purse holds by then.
UpdateZeny(c, loaded, by) ==
    /\ zeny' = [zeny EXCEPT ![c] = loaded + by]
    /\ overwritten' = overwritten + zeny[c] - loaded

\* What overlapping removals of the row id, of item n, both took.
Twice(n, id) == IF id \in DOMAIN doubled[n] THEN doubled[n][id] ELSE 0
Record(n, id, k) ==
    doubled' = [doubled EXCEPT ![n] =
                   [i \in DOMAIN doubled[n] \cup {id} |-> IF i = id THEN k ELSE doubled[n][i]]]

\* The second statement of Remove, for k units of item n in the row id of which loaded
\* were read: what others took of them since is put back, or k are taken from no row.
Remove(id, n, loaded, k) ==
    LET again == IF id \in DOMAIN rows THEN loaded - rows[id].amount ELSE k IN
    /\ rows' = RemoveWrite(rows, id, loaded, k)
    /\ Record(n, id, Twice(n, id) + again)

-----------------------------------------------------------------------------
\* The compose window.

handleOpenWriteMail(w, c) ==
    /\ Frame(w, c)
    /\ ~slot[c].writing
    /\ setMailSlot(c, [NoSlot EXCEPT !.writing = TRUE])
    /\ UNCHANGED <<tables, live, op, read, ext, history>>

handleCancelWriteMail(w, c) ==
    /\ Frame(w, c)
    /\ clearMailSlot(c)
    /\ UNCHANGED <<tables, live, op, read, ext, history>>

\* Staging reads the window and writes it back; between the two it reads the bag or
\* the balance.  pc is "zeny", "item" or "unstage"; id is the bag row, 0 for zeny.
handleAddItemToMail(w, c, pc, id, k) ==
    /\ Frame(w, c)
    /\ slot[c].writing
    /\ op' = [op EXCEPT ![w] = [Op(c, pc) EXCEPT !.id = id, !.total = k,
                                  !.zeny = slot[c].zeny, !.items = slot[c].items]]
    /\ UNCHANGED <<tables, slot, live, read, ext, history>>

\* The window as the verb read it, with what it stages.
Staged(w, z, items) == [writing |-> TRUE, zeny |-> z, items |-> items]

Fee(z) == (z * 2) \div 100
addZenyToMail(w) ==
    LET c == op[w].char
        k == op[w].total
    IN
    /\ At(w, "zeny")
    /\ IF k + Fee(k) <= zeny[c] THEN setMailSlot(c, Staged(w, k, op[w].items))
                                ELSE UNCHANGED slot
    /\ Return(w)
    /\ UNCHANGED <<tables, live, read, ext, history, count>>

WeightOf(items) ==
    SumOver([i \in DOMAIN items |-> items[i].amount * Weight[items[i].name]], DOMAIN items)

(***************************************************************************)
(* The row must be the character's, not worn, and have the units.  Units of *)
(* a row that is staged already are added to its entry in place: the slice  *)
(* the verb holds is the one in the window, so they stay there even when    *)
(* the weight check that follows refuses them.                              *)
(***************************************************************************)
stageMailItem(w) ==
    LET c == op[w].char
        id == op[w].id
        k == op[w].total
        items == op[w].items
        same == {i \in DOMAIN items : items[i].row = id}
        total == k + SumOver([i \in same |-> items[i].amount], same)
        merged == [i \in DOMAIN items |->
                      IF i \in same THEN [items[i] EXCEPT !.amount = total] ELSE items[i]]
        added == Append(items, [row |-> id, name |-> rows[id].name, amount |-> k])
        heavy(s) == WeightOf(s) > MaxWeight
    IN
    /\ At(w, "item")
    /\ slot' =
         IF ~(id \in Owned(rows, c) /\ rows[id].amount >= total /\ ~rows[id].equip)
         THEN slot
         ELSE IF same # {} THEN
             IF heavy(merged)
             THEN [slot EXCEPT ![c].items = IF slot[c].writing THEN merged ELSE @]
             ELSE [slot EXCEPT ![c] = Staged(w, op[w].zeny, merged)]
         ELSE IF Len(items) >= MaxItems \/ heavy(added) THEN slot
         ELSE [slot EXCEPT ![c] = Staged(w, op[w].zeny, added)]
    /\ Return(w)
    /\ UNCHANGED <<tables, live, read, ext, history, count>>

handleRemoveItemFromMail(w) ==
    LET c == op[w].char
        id == op[w].id
        items == op[w].items
        same == {j \in DOMAIN items : items[j].row = id}
        without(j) == SubSeq(items, 1, j - 1) \o SubSeq(items, j + 1, Len(items))
    IN
    /\ At(w, "unstage")
    /\ IF id = 0 THEN setMailSlot(c, Staged(w, 0, items))
       ELSE IF same = {} THEN UNCHANGED slot
       ELSE \E first \in same : /\ \A j \in same : first <= j
                                /\ setMailSlot(c, Staged(w, op[w].zeny, without(first)))
    /\ Return(w)
    /\ UNCHANGED <<tables, live, read, ext, history, count>>

-----------------------------------------------------------------------------
\* Send.

charged(z, n) == z + Fee(z) + n * AttachPrice

\* handleWriteMail and the lookup of the receiver.  The frame's zeny stands, or the
\* staged zeny where the frame has none; too much of it keeps the window open.
handleWriteMail(w, c, to, z) ==
    LET sum == IF z = 0 THEN slot[c].zeny ELSE z
        items == slot[c].items
    IN
    /\ Frame(w, c)
    /\ slot[c].writing
    /\ z <= MaxZeny
    /\ IF to = Nobody
       THEN clearMailSlot(c) /\ UNCHANGED op
       ELSE /\ op' = [op EXCEPT ![w] = [Op(c, "charge") EXCEPT
                        !.to = to, !.zeny = sum, !.items = items,
                        !.total = charged(sum, Len(items))]]
            /\ UNCHANGED slot
    /\ UNCHANGED <<tables, live, read, ext, history>>

SendFails(w) == Return(w) /\ clearMailSlot(op[w].char)

\* charge: nothing to pay, not payable, or GetZeny shows the balance is there.
charge(w) ==
    LET c == op[w].char
        total == op[w].total
    IN
    /\ At(w, "charge")
    /\ IF total = 0 THEN Goto(w, "lift") /\ UNCHANGED slot
       ELSE IF total > MaxZeny \/ Int32(zeny[c]) < total THEN SendFails(w)
       ELSE Goto(w, "deduct") /\ UNCHANGED slot
    /\ UNCHANGED <<tables, live, read, ext, history, count>>
\* DeductZeny: the balance is read and validated, and once the ledger row is there the
\* new one is written.
Deduct(w) ==
    LET c == op[w].char IN
    /\ At(w, "deduct")
    /\ IF MoveOk("deduct", zeny[c], op[w].total)
       THEN Load(w, zeny[c]) /\ Goto(w, "pay") /\ UNCHANGED slot
       ELSE SendFails(w) /\ UNCHANGED read
    /\ UNCHANGED <<tables, live, ext, history, count>>

Pay(w) ==
    /\ At(w, "pay")
    /\ UpdateZeny(op[w].char, read[w], -op[w].total)
    /\ Forget(w) /\ Goto(w, "lift")
    /\ UNCHANGED <<rows, nextId, mail, slot, live, ext, spent, gone, doubled, failed, count>>

\* Mutant of Undo: every attachment is given back, lifted or not.
UndoWhole(w) == op' = [op EXCEPT ![w].pc = "refund", ![w].i = 1]

\* compensate, for the items lifted so far.
Undo(w) ==
    op' = [op EXCEPT ![w].pc = "refund", ![w].i = 1, ![w].items = SubSeq(@, 1, op[w].i - 1)]

\* lift: Remove each staged row, a read and a write, or undo what was done.
lift(w) ==
    LET k == Item(w).amount
        id == Item(w).row
    IN
    /\ At(w, "lift") /\ More(w)
    /\ IF RemoveOk(rows, id, k)
       THEN Load(w, rows[id].amount) /\ Goto(w, "take")
       ELSE UNCHANGED read /\ Undo(w)
    /\ UNCHANGED <<tables, slot, live, ext, history, count>>
Take(w) ==
    /\ At(w, "take")
    /\ Remove(Item(w).row, Item(w).name, read[w], Item(w).amount)
    /\ Forget(w) /\ Passed(w, "lift")
    /\ UNCHANGED <<nextId, zeny, mail, slot, live, ext, spent, gone, overwritten, failed, count>>

\* Create counts the receiver's letters and then inserts; the transaction takes no
\* lock on what it counts.
InboxOf(c) == {m \in DOMAIN mail : mail[m].dest = c}

HasRoom(c) == Cardinality(InboxOf(c)) < MaxInbox
CreateCount(w) ==
    /\ At(w, "lift") /\ ~More(w)
    /\ IF HasRoom(op[w].to) THEN Step(w, "insert") ELSE Undo(w)
    /\ UNCHANGED <<tables, slot, live, read, ext, history, count>>
CreateInsert(w) ==
    LET m == [dest |-> op[w].to, zeny |-> op[w].zeny, items |-> op[w].items, status |-> "new"]
    IN
    /\ At(w, "insert")
    /\ mail' = [i \in DOMAIN mail \cup {nextId} |-> IF i = nextId THEN m ELSE mail[i]]
    /\ nextId' = nextId + 1
    /\ spent' = spent + op[w].total - op[w].zeny
    /\ Return(w)
    /\ clearMailSlot(op[w].char)
    /\ UNCHANGED <<rows, zeny, live, read, ext, gone, overwritten, doubled, failed, count>>

\* compensate: the zeny and then every item; what cannot be given back is skipped.
Refund(w) ==
    LET c == op[w].char
        total == op[w].total
    IN
    /\ At(w, "refund")
    /\ \/ /\ total = 0
          /\ Step(w, "return")
          /\ UNCHANGED <<read, failed>>
       \/ /\ total > 0 /\ MoveOk("credit", zeny[c], total)
          /\ Load(w, zeny[c]) /\ Step(w, "repay")
          /\ UNCHANGED failed
       \/ /\ total > 0 /\ ~MoveOk("credit", zeny[c], total)
          /\ Step(w, "return")
          /\ failed' = failed \cup {"undo"}
          /\ UNCHANGED read
    /\ UNCHANGED <<tables, slot, live, ext, spent, gone, overwritten, doubled, count>>
Repay(w) ==
    /\ At(w, "repay")
    /\ UpdateZeny(op[w].char, read[w], op[w].total)
    /\ Forget(w) /\ Step(w, "return")
    /\ UNCHANGED <<rows, nextId, mail, slot, live, ext, spent, gone, doubled, failed, count>>
ReturnItem(w) ==
    /\ At(w, "return") /\ More(w)
    /\ rows' = AddRow(rows, nextId, op[w].char, Item(w).name, Item(w).amount)
    /\ nextId' = nextId + 1
    /\ Again(w)
    /\ UNCHANGED <<zeny, mail, slot, live, read, ext, history, count>>
Undone(w) ==
    /\ At(w, "return") /\ ~More(w)
    /\ SendFails(w)
    /\ UNCHANGED <<tables, live, read, ext, history, count>>

-----------------------------------------------------------------------------
\* The inbox.

\* Inbox turns the new letters it lists unread.
Shown(c) == {m \in InboxOf(c) : Cardinality({i \in InboxOf(c) : i <= m}) <= MaxInbox}
Listed(c, table) ==
    [m \in DOMAIN table |->
        IF m \in Shown(c) /\ table[m].status = "new" THEN [table[m] EXCEPT !.status = "unread"]
        ELSE table[m]]
handleOpenMailbox(w, c) ==
    /\ Frame(w, c)
    /\ mail' = Listed(c, mail)
    /\ UNCHANGED <<rows, nextId, zeny, slot, live, op, read, ext, history>>

handleReadMail(w, c, m) ==
    /\ Frame(w, c)
    /\ m \in InboxOf(c)
    /\ mail' = [mail EXCEPT ![m].status = "read"]
    /\ UNCHANGED <<rows, nextId, zeny, slot, live, op, read, ext, history>>

\* Delete refuses a letter that still has something attached.
Deletable(m) == mail[m].zeny = 0 /\ mail[m].items = << >>
handleDeleteMail(w, c, m) ==
    /\ Frame(w, c)
    /\ m \in InboxOf(c)
    /\ Deletable(m)
    /\ mail' = [i \in DOMAIN mail \ {m} |-> mail[i]]
    /\ UNCHANGED <<rows, nextId, zeny, slot, live, op, read, ext, history>>

\* CollectZeny: the letter is read, and the balance as the int32 that GetZeny shows; the
\* column is cleared and the receiver credited; when that fails the column is restored.
handleCollectZeny(w, c, m) ==
    /\ Frame(w, c)
    /\ m \in InboxOf(c)
    /\ mail[m].zeny > 0
    /\ NewZenyOk(zeny[c]) /\ Int32(zeny[c]) + mail[m].zeny <= MaxZeny
    /\ op' = [op EXCEPT ![w] = [Op(c, "clear") EXCEPT !.id = m, !.zeny = mail[m].zeny]]
    /\ UNCHANGED <<tables, slot, live, read, ext, history>>

ClearZeny(w) ==
    /\ At(w, "clear")
    /\ mail' = [mail EXCEPT ![op[w].id].zeny = 0]
    /\ Goto(w, "credit")
    /\ UNCHANGED <<rows, nextId, zeny, slot, live, read, ext, history, count>>
CollectCredit(w) ==
    LET c == op[w].char IN
    /\ At(w, "credit")
    /\ IF MoveOk("credit", zeny[c], op[w].zeny)
       THEN Load(w, zeny[c]) /\ Goto(w, "collect")
       ELSE UNCHANGED read /\ Goto(w, "restore")
    /\ UNCHANGED <<tables, slot, live, ext, history, count>>
Collect(w) ==
    /\ At(w, "collect")
    /\ UpdateZeny(op[w].char, read[w], op[w].zeny)
    /\ mail' = Listed(op[w].char, mail)
    /\ Forget(w) /\ Return(w)
    /\ UNCHANGED <<rows, nextId, slot, live, ext, spent, gone, doubled, failed, count>>
SetZeny(w) ==
    /\ At(w, "restore")
    /\ mail' = [mail EXCEPT ![op[w].id].zeny = op[w].zeny]
    /\ Return(w)
    /\ UNCHANGED <<rows, nextId, zeny, slot, live, read, ext, history, count>>

\* CollectItems: Add for each attachment, and then the attachments are deleted.
handleCollectItems(w, c, m) ==
    /\ Frame(w, c)
    /\ m \in InboxOf(c)
    /\ mail[m].items # << >>
    /\ op' = [op EXCEPT ![w] = [Op(c, "add") EXCEPT !.id = m, !.items = mail[m].items]]
    /\ UNCHANGED <<tables, slot, live, read, ext, history>>
CollectAdd(w) ==
    /\ At(w, "add") /\ More(w)
    /\ rows' = AddRow(rows, nextId, op[w].char, Item(w).name, Item(w).amount)
    /\ nextId' = nextId + 1
    /\ Again(w)
    /\ UNCHANGED <<zeny, mail, slot, live, read, ext, history, count>>
ClearItems(w) ==
    LET emptied == [mail EXCEPT ![op[w].id].items = << >>] IN
    /\ At(w, "add") /\ ~More(w)
    /\ mail' = Listed(op[w].char, emptied)
    /\ Return(w)
    /\ UNCHANGED <<rows, nextId, zeny, slot, live, read, ext, history, count>>

-----------------------------------------------------------------------------
(***************************************************************************)
(* A statement fails.  Before anything moved the verb just ends; the rest   *)
(* of Send is undone, the credit of CollectZeny leads to the restore.  What *)
(* fails while undoing is given up, and an item collection that fails       *)
(* leaves the attachments in place for the client to ask again.             *)
(***************************************************************************)
Fault(w) ==
    /\ op[w] # Idle
    /\ count.faults < MaxFaults
    /\ count' = [count EXCEPT !.faults = @ + 1]
    /\ \/ At(w, "deduct") /\ SendFails(w) /\ UNCHANGED <<read, failed>>
       \/ At(w, "pay") /\ SendFails(w) /\ Forget(w) /\ UNCHANGED failed
       \/ At(w, "lift") /\ Undo(w) /\ UNCHANGED <<slot, read, failed>>
       \/ At(w, "take") /\ Undo(w) /\ Forget(w) /\ UNCHANGED <<slot, failed>>
       \/ /\ At(w, "insert")
          /\ op' = [op EXCEPT ![w].pc = "refund"]
          /\ UNCHANGED <<slot, read, failed>>
       \/ At(w, "clear") /\ Return(w) /\ UNCHANGED <<slot, read, failed>>
       \/ At(w, "credit") /\ Goto(w, "restore") /\ UNCHANGED <<slot, read, failed>>
       \/ At(w, "collect") /\ Goto(w, "restore") /\ Forget(w) /\ UNCHANGED <<slot, failed>>
       \/ /\ At(w, "refund")
          /\ Step(w, "return") /\ failed' = failed \cup {"undo"} /\ UNCHANGED <<slot, read>>
       \/ /\ At(w, "repay") /\ Forget(w)
          /\ Step(w, "return") /\ failed' = failed \cup {"undo"} /\ UNCHANGED slot
       \/ /\ At(w, "return") /\ More(w)
          /\ Again(w) /\ failed' = failed \cup {"undo"} /\ UNCHANGED <<slot, read>>
       \/ /\ At(w, "restore")
          /\ Return(w) /\ failed' = failed \cup {"undo"} /\ UNCHANGED <<slot, read>>
       \/ /\ At(w, "add")
          /\ Return(w) /\ failed' = failed \cup {"collect"} /\ UNCHANGED <<slot, read>>
    /\ UNCHANGED <<tables, live, ext, spent, gone, overwritten, doubled>>

\* OnClose, on the event loop: unregisterConn clears the window without the lock.
OnClose(c) ==
    /\ c \in live
    /\ Counted
    /\ live' = live \ {c}
    /\ clearMailSlot(c)
    /\ UNCHANGED <<tables, op, read, ext, history>>
Enter(c) ==
    /\ c \notin live
    /\ live' = live \cup {c}
    /\ UNCHANGED <<tables, slot, op, read, ext, history, count>>

-----------------------------------------------------------------------------
\* Another handler of c spends or earns zeny, or takes units from the bag: a load and a
\* write, either of which may fail.
Begin(o, move) ==
    /\ ext[o] = NoMove
    /\ Counted
    /\ ext' = [ext EXCEPT ![o] = move]
    /\ UNCHANGED <<tables, slot, live, op, read, history>>
ZenyMove(c, by) == [kind |-> "zeny", char |-> c, by |-> by, loaded |-> zeny[c]]
Spend(o, c, k) == MoveOk("deduct", zeny[c], k) /\ Begin(o, ZenyMove(c, -k))
Earn(o, c, k) == MoveOk("credit", zeny[c], k) /\ Begin(o, ZenyMove(c, k))
Lose(o, id, k) ==
    /\ RemoveOk(rows, id, k)
    /\ Begin(o, [kind |-> "bag", row |-> id, name |-> rows[id].name, amount |-> k,
                 loaded |-> rows[id].amount])

Ended(o) == ext' = [ext EXCEPT ![o] = NoMove]
MoveZeny(o) ==
    /\ ext[o].kind = "zeny"
    /\ UpdateZeny(ext[o].char, ext[o].loaded, ext[o].by)
    /\ spent' = spent - ext[o].by
    /\ Ended(o)
    /\ UNCHANGED <<rows, nextId, mail, slot, live, op, read, gone, doubled, failed, count>>
MoveUnits(o) ==
    /\ ext[o].kind = "bag"
    /\ Remove(ext[o].row, ext[o].name, ext[o].loaded, ext[o].amount)
    /\ gone' = [gone EXCEPT ![ext[o].name] = @ + ext[o].amount]
    /\ Ended(o)
    /\ UNCHANGED <<nextId, zeny, mail, slot, live, op, read, spent, overwritten, failed, count>>
MoveFails(o) ==
    /\ ext[o] # NoMove
    /\ count.faults < MaxFaults
    /\ count' = [count EXCEPT !.faults = @ + 1]
    /\ Ended(o)
    /\ UNCHANGED <<tables, slot, live, op, read, history>>

Outside(o) ==
    \/ \E c \in Chars, k \in Moves : Spend(o, c, k) \/ Earn(o, c, k)
    \/ \E id \in DOMAIN rows, k \in Amounts : Lose(o, id, k)
    \/ MoveZeny(o) \/ MoveUnits(o) \/ MoveFails(o)

Arrive(w, c) ==
    \/ handleOpenWriteMail(w, c)
    \/ handleCancelWriteMail(w, c)
    \/ \E k \in Sums : handleAddItemToMail(w, c, "zeny", 0, k)
    \/ \E id \in DOMAIN rows, k \in Amounts : handleAddItemToMail(w, c, "item", id, k)
    \/ \E id \in {0} \cup {a.row : a \in {slot[c].items[i] : i \in DOMAIN slot[c].items}} :
           handleAddItemToMail(w, c, "unstage", id, 0)
    \/ \E to \in Chars \cup {Nobody}, z \in Sums : handleWriteMail(w, c, to, z)
    \/ handleOpenMailbox(w, c)
    \/ \E m \in DOMAIN mail :
           \/ handleReadMail(w, c, m)
           \/ handleDeleteMail(w, c, m)
           \/ handleCollectZeny(w, c, m)
           \/ handleCollectItems(w, c, m)

Work(w) ==
    \/ addZenyToMail(w) \/ stageMailItem(w) \/ handleRemoveItemFromMail(w)
    \/ charge(w) \/ Deduct(w) \/ Pay(w) \/ lift(w) \/ Take(w)
    \/ CreateCount(w) \/ CreateInsert(w)
    \/ Refund(w) \/ Repay(w) \/ ReturnItem(w) \/ Undone(w)
    \/ ClearZeny(w) \/ CollectCredit(w) \/ Collect(w) \/ SetZeny(w)
    \/ CollectAdd(w) \/ ClearItems(w)

Next ==
    \/ \E w \in Workers : (\E c \in Chars : Arrive(w, c)) \/ (op[w] # Idle /\ Work(w)) \/ Fault(w)
    \/ \E c \in Chars : OnClose(c) \/ Enter(c)
    \/ \E o \in Others : Outside(o)

Spec == Init /\ [][Next]_vars

-----------------------------------------------------------------------------
TypeOK ==
    /\ rows \in [DOMAIN rows -> Row] /\ nextId \in Nat
    /\ zeny \in [Chars -> Balances]
    /\ mail \in [DOMAIN mail -> [dest : Chars, zeny : Nat, items : Seq(Attachment),
                                 status : Statuses]]
    /\ slot \in [Chars -> [writing : BOOLEAN, zeny : Nat, items : Seq(Attachment)]]
    /\ live \subseteq Chars
    /\ read \in [Workers -> Nat]
    /\ ext \in [Others -> {NoMove}
                         \cup [kind : {"zeny"}, char : Chars, by : Int, loaded : Nat]
                         \cup [kind : {"bag"}, row : Nat, name : Names, amount : Nat,
                               loaded : Nat]]
    /\ spent \in Int /\ overwritten \in Int
    /\ gone \in [Names -> Nat] /\ DOMAIN doubled = Names
    /\ \A n \in Names : doubled[n] \in [DOMAIN doubled[n] -> Nat]
    /\ failed \subseteq {"undo", "collect"}

\* What a verb has taken from a purse or a bag and not put down.
Pending(w) == op[w] # Idle /\ op[w].pc \in {"lift", "take", "insert", "refund", "repay"}
Carried(w) ==
    CASE Pending(w) -> op[w].total
      [] op[w] # Idle /\ op[w].pc \in {"credit", "collect", "restore"} -> op[w].zeny
      [] OTHER -> 0
Lifted(w) ==
    CASE op[w] = Idle -> {}
      [] op[w].pc \in {"lift", "take"} -> 1 .. (op[w].i - 1)
      [] op[w].pc \in {"insert", "refund", "repay"} -> DOMAIN op[w].items
      [] op[w].pc = "return" -> op[w].i .. Len(op[w].items)
      [] OTHER -> {}

(***************************************************************************)
(* No zeny is made or lost: what is in the purses, in letters, on its way   *)
(* and spent is what there was.  A send that fails at any statement gives   *)
(* the charge back and a collection that fails leaves the letter payable,   *)
(* once; only the failure of the recovery itself can lose zeny.  The one    *)
(* thing to correct for is what the write of an older balance did to a      *)
(* movement of the same purse that was written since it was loaded.         *)
(***************************************************************************)
ZenyConserved ==
    "undo" \notin failed =>
        SumOver(zeny, Chars)
        + SumOver([m \in DOMAIN mail |-> mail[m].zeny], DOMAIN mail)
        + SumOver([w \in Workers |-> Carried(w)], Workers) + spent
        = SumOver(StartZeny, Chars) - overwritten

UnitsLifted(w, n) == IF Lifted(w) = {} THEN 0 ELSE UnitsIn(op[w].items, Lifted(w), n)
Units(n) ==
    SumOver([c \in Chars |-> Held(rows, c, n)], Chars)
    + SumOver([m \in DOMAIN mail |-> UnitsIn(mail[m].items, DOMAIN mail[m].items, n)], DOMAIN mail)
    + SumOver([w \in Workers |-> UnitsLifted(w, n)], Workers)
    + gone[n]
StartUnits(n) == UnitsIn(StartRows, DOMAIN StartRows, n)
Doubled(n) == SumOver(doubled[n], DOMAIN doubled[n])

\* No attachment is lost: a send that fails half-way gives back what it had lifted, and
\* a letter cannot be deleted with something in it.  Overlapping removals of one row
\* never lose a unit either: all they can do is to take some twice.
AttachmentsKept ==
    "undo" \notin failed => \A n \in Names : Units(n) >= StartUnits(n) + Doubled(n)

\* An attachment is delivered once: only a collection whose own statement failed
\* leaves a letter whose items are already in the bag, and only what was lifted while
\* another handler took it from the same row is there twice.
DeliveredOnce ==
    (failed = {} /\ \A w \in Workers : op[w] # Idle => ~At(w, "add"))
        => \A n \in Names : Units(n) <= StartUnits(n) + Doubled(n)

\* Items sent by mail arrive, once: however sends, collections and deletions of two
\* players interleave, with each other and with the handlers that move the same rows,
\* and are refused or undone, units are neither lost nor made, but by the failure of an
\* undo or of a collection itself, or by two removals that read a row before either
\* wrote it.
AttachmentsConserved == TypeOK /\ AttachmentsKept /\ DeliveredOnce

=============================================================================
