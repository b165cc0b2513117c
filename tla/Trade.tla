------------------------------- MODULE Trade -------------------------------
(***************************************************************************)
(* TradeService (world/app/trade.go): the player-to-player trade.          *)
(*                                                                         *)
(* One mutex serializes its calls.  Request, Ack, AddItem, AddZeny, Cancel *)
(* and an OK that only locks read the database at most once and are single *)
(* actions.  The OK that finds both sides locked holds the mutex while it  *)
(* runs conclude: a program of database operations (prog) executed one     *)
(* statement at a time, with a stack of compensating operations (undo)     *)
(* that replaces the program when an operation fails.  Meanwhile handlers  *)
(* that do not go through the trade mutex (drop, use, sell, equip) read    *)
(* and write the same inventory table.                                     *)
(*                                                                         *)
(* Zeny movements are single steps here: no other path moves zeny in this  *)
(* module (Economy models how they interleave).                            *)
(***************************************************************************)
EXTENDS Inventory, Zeny, Sequences

CONSTANTS
    Maps,       \* maps a player can be on
    Nobody,     \* neither a character nor a map
    Others,     \* goroutines of handlers outside the trade mutex
    Stakes,     \* amounts of items and zeny a client stages
    StartRows,  \* the inventory table at start
    StartZeny,  \* the balances at start
    MaxOffers,  \* bound: staged items per side
    MaxId,      \* bound: no trade is opened once the table has had MaxId rows
    MaxFaults,  \* bound: database failures
    MaxMoves    \* bound: log-ins, log-outs, warps and foreign bag operations

ASSUME CharsAssumption == IsFiniteSet(Chars)
ASSUME NobodyAssumption == Nobody \notin Chars \cup Maps
ASSUME StakesAssumption == \A k \in Stakes : k \in Nat /\ k > 0
ASSUME StartAssumption == StartRows \in Seq(Row) /\ StartZeny \in [Chars -> Balances]
ASSUME BoundsAssumption ==
    MaxOffers \in Nat /\ MaxId \in Nat /\ MaxFaults \in Nat /\ MaxMoves \in Nat

VARIABLES
    sessions,   \* TradeService.sessions, one side of a trade per character
    where,      \* the world registry: the map of each online player
    rows,       \* the inventory table
    nextId,     \* its auto-increment counter
    zeny,       \* char.zeny
    pair,       \* <<a, b>> while conclude(a, b) holds the mutex, <<>> when free
    prog,       \* the database operations conclude has still to execute
    undo,       \* undoStack, last pushed first
    rolling,    \* TRUE once an operation failed and the undos are being applied
    loaded,     \* the amount read by a Remove that has not written yet
    foreign,    \* the Remove each goroutine of Others is executing
    spent,      \* history: units of each item the goroutines of Others removed
    faults,     \* database failures so far, in the program and in the undos
    moves       \* environment steps so far

dbVars == <<rows, nextId, zeny>>
jobVars == <<pair, prog, undo, rolling, loaded>>
envVars == <<where, foreign, spent, moves>>
vars == <<sessions, dbVars, jobVars, envVars, faults>>

Offer == [id : Nat, name : Names, amount : Stakes]
Session == [partner : Chars, state : {"pending", "active"}, offered : Seq(Offer),
            zeny : Stakes \cup {0}, locked : BOOLEAN]
NoSession == [partner |-> Nobody, state |-> "none", offered |-> <<>>,
              zeny |-> 0, locked |-> FALSE]
NotLoaded == -1
Idle == [id |-> 0, name |-> Nobody, amount |-> 0, loaded |-> NotLoaded]

Trading(c) == sessions[c].state # "none"
Active(c) == sessions[c].state = "active"
Partner(c) == sessions[c].partner
MuFree == pair = <<>>

NewSession(p) == [partner |-> p, state |-> "pending", offered |-> <<>>,
                  zeny |-> 0, locked |-> FALSE]

\* Mutant of TearDown: only the caller's session is deleted.
TearDownOwn(a, b) == sessions' = [sessions EXCEPT ![a] = NoSession]

\* delete(s.sessions, a); delete(s.sessions, b).
TearDown(a, b) == sessions' = [sessions EXCEPT ![a] = NoSession, ![b] = NoSession]

Init ==
    /\ sessions = [c \in Chars |-> NoSession]
    /\ where \in [Chars -> Maps \cup {Nobody}]
    /\ rows = StartRows
    /\ nextId = 1 + Len(StartRows)
    /\ zeny = StartZeny
    /\ pair = <<>>
    /\ prog = <<>>
    /\ undo = <<>>
    /\ rolling = FALSE
    /\ loaded = NotLoaded
    /\ foreign = [g \in Others |-> Idle]
    /\ spent = [n \in Names |-> 0]
    /\ faults = [prog |-> 0, undo |-> 0]
    /\ moves = 0

----------------------------------------------------------------------------
\* The calls of the trade service that touch its sessions only.

Request(c, t) ==
    /\ MuFree
    /\ nextId <= MaxId
    /\ c # t
    /\ ~Trading(c) /\ ~Trading(t)
    /\ where[c] # Nobody /\ where[c] = where[t]
    /\ sessions' = [sessions EXCEPT ![c] = NewSession(t), ![t] = NewSession(c)]
    /\ UNCHANGED <<dbVars, jobVars, envVars, faults>>

\* Either side of a pending trade may call it; the accept moves both sides.
\* Ack and OK also handle a partner whose session is gone, which never happens
\* (SessionSymmetry), so they have no action for it.
AckAccept(c) ==
    /\ MuFree
    /\ sessions[c].state = "pending"
    /\ Trading(Partner(c))
    /\ sessions' = [sessions EXCEPT ![c].state = "active", ![Partner(c)].state = "active"]
    /\ UNCHANGED <<dbVars, jobVars, envVars, faults>>

AckReject(c) ==
    /\ MuFree
    /\ sessions[c].state = "pending"
    /\ TearDown(c, Partner(c))
    /\ UNCHANGED <<dbVars, jobVars, envVars, faults>>

Cancel(c) ==
    /\ MuFree
    /\ Trading(c)
    /\ TearDown(c, Partner(c))
    /\ UNCHANGED <<dbVars, jobVars, envVars, faults>>

\* The units of row id that a side has staged already.
Staged(offered, id) ==
    SumOver([i \in DOMAIN offered |-> offered[i].amount],
            {i \in DOMAIN offered : offered[i].id = id})

\* stageItem: LoadByChar, the row and stack checks, and the staged offer.
AddItem(c, id, k) ==
    /\ MuFree
    /\ Active(c) /\ ~sessions[c].locked
    /\ Len(sessions[c].offered) < MaxOffers
    /\ id \in Owned(rows, c)
    /\ ~rows[id].equip
    /\ Staged(sessions[c].offered, id) + k <= rows[id].amount
    /\ sessions' = [sessions EXCEPT ![c].offered =
                        Append(@, [id |-> id, name |-> rows[id].name, amount |-> k])]
    /\ UNCHANGED <<dbVars, jobVars, envVars, faults>>

\* stageZeny: the balance is read as an int32; a second stage replaces the first.
AddZeny(c, z) ==
    /\ MuFree
    /\ Active(c) /\ ~sessions[c].locked
    /\ z <= Int32(zeny[c])
    /\ sessions' = [sessions EXCEPT ![c].zeny = z]
    /\ UNCHANGED <<dbVars, jobVars, envVars, faults>>

\* OK on the first side to lock.
Lock(c) ==
    /\ MuFree
    /\ Active(c) /\ ~sessions[c].locked
    /\ Trading(Partner(c)) /\ ~sessions[Partner(c)].locked
    /\ sessions' = [sessions EXCEPT ![c].locked = TRUE]
    /\ UNCHANGED <<dbVars, jobVars, envVars, faults>>

----------------------------------------------------------------------------
\* The program of conclude.

Op(op, c, id, n, k) == [op |-> op, char |-> c, id |-> id, name |-> n, amount |-> k]

\* verifySide: the balance if zeny is staged, then the bag if items are.
Verify(c) ==
    LET s == sessions[c]
        checkZeny == <<Op("verifyZeny", c, 0, Nobody, s.zeny)>>
        checkBag == <<Op("verifyBag", c, 0, Nobody, 0)>>
    IN (IF s.zeny # 0 THEN checkZeny ELSE <<>>)
       \o (IF s.offered # <<>> THEN checkBag ELSE <<>>)

\* removeOffered(c) and grantOffered(to, offers of c).
RemoveOffered(c) ==
    LET o == sessions[c].offered
    IN [i \in DOMAIN o |-> Op("remove", c, o[i].id, o[i].name, o[i].amount)]
GrantOffered(to, c) ==
    LET o == sessions[c].offered
    IN [i \in DOMAIN o |-> Op("add", to, 0, o[i].name, o[i].amount)]

MoveZeny(from, to) ==
    LET z == sessions[from].zeny
    IN IF z = 0 THEN <<>>
       ELSE <<Op("deduct", from, 0, Nobody, z), Op("credit", to, 0, Nobody, z)>>

Swap(a, b) ==
    RemoveOffered(a) \o RemoveOffered(b)
    \o GrantOffered(b, a) \o GrantOffered(a, b)
    \o MoveZeny(a, b) \o MoveZeny(b, a)

\* OK on the second side to lock: conclude starts, and holds the mutex.
Conclude(c) ==
    /\ MuFree
    /\ Active(c) /\ ~sessions[c].locked
    /\ Trading(Partner(c)) /\ sessions[Partner(c)].locked
    /\ sessions' = [sessions EXCEPT ![c].locked = TRUE]
    /\ pair' = <<c, Partner(c)>>
    /\ prog' = Verify(c) \o Verify(Partner(c)) \o Swap(c, Partner(c))
    /\ UNCHANGED <<dbVars, undo, rolling, loaded, envVars, faults>>

----------------------------------------------------------------------------
\* Executing the program.

Running == pair # <<>> /\ prog # <<>>
Now == Head(prog)

\* The operation is done; its compensation u (a sequence of at most one
\* operation) is pushed, unless this is itself a compensation.
Done(u) ==
    /\ prog' = Tail(prog)
    /\ undo' = IF rolling THEN undo ELSE u \o undo
    /\ loaded' = NotLoaded
    /\ UNCHANGED <<pair, rolling>>

\* Mutant of Failed: the swap stops where it is, without applying the undos.
FailedHalfway ==
    /\ prog' = <<>>
    /\ undo' = <<>>
    /\ rolling' = TRUE
    /\ loaded' = NotLoaded
    /\ UNCHANGED pair

\* The operation failed: the undo stack is applied in place of the rest of the
\* program.  A compensation that fails is skipped (its error is ignored).
Failed ==
    /\ prog' = IF rolling THEN Tail(prog) ELSE undo
    /\ undo' = <<>>
    /\ rolling' = TRUE
    /\ loaded' = NotLoaded
    /\ UNCHANGED pair

BagCovers(c) ==
    \A i \in DOMAIN sessions[c].offered :
        LET o == sessions[c].offered[i]
        IN o.id \in Owned(rows, c) /\ rows[o.id].amount >= o.amount

ZenyMoveOk == MoveOk(Now.op, zeny[Now.char], Now.amount)

\* What the operation finds when it reads the database.
NowOk ==
    CASE Now.op = "verifyZeny" -> Int32(zeny[Now.char]) >= Now.amount
      [] Now.op = "verifyBag"  -> BagCovers(Now.char)
      [] Now.op = "remove"     -> loaded # NotLoaded \/ RemoveOk(rows, Now.id, Now.amount)
      [] Now.op = "add"        -> TRUE
      [] OTHER                 -> ZenyMoveOk

ExecVerify ==
    /\ Running /\ Now.op \in {"verifyZeny", "verifyBag"} /\ NowOk
    /\ Done(<<>>)
    /\ UNCHANGED <<sessions, dbVars, envVars, faults>>

\* Inventory.Remove, first statement.
ExecRemoveLoad ==
    /\ Running /\ Now.op = "remove" /\ loaded = NotLoaded /\ NowOk
    /\ loaded' = rows[Now.id].amount
    /\ UNCHANGED <<sessions, dbVars, pair, prog, undo, rolling, envVars, faults>>

\* Inventory.Remove, second statement; the compensation adds the units back.
ExecRemoveWrite ==
    /\ Running /\ Now.op = "remove" /\ loaded # NotLoaded
    /\ rows' = RemoveWrite(rows, Now.id, loaded, Now.amount)
    /\ Done(<<Op("add", Now.char, 0, Now.name, Now.amount)>>)
    /\ UNCHANGED <<sessions, nextId, zeny, envVars, faults>>

\* Inventory.Add; the compensation removes the row just added.
ExecAdd ==
    /\ Running /\ Now.op = "add"
    /\ rows' = AddRow(rows, nextId, Now.char, Now.name, Now.amount)
    /\ nextId' = nextId + 1
    /\ Done(<<Op("remove", Now.char, nextId, Now.name, Now.amount)>>)
    /\ UNCHANGED <<sessions, zeny, envVars, faults>>

\* DeductZenyWithPeer and CreditZenyWithPeer; each compensates the other.
ExecZeny ==
    /\ Running /\ Now.op \in {"deduct", "credit"} /\ NowOk
    /\ zeny' = [zeny EXCEPT ![Now.char] = @ + Delta(Now.op, Now.amount)]
    /\ Done(<<Op(IF Now.op = "deduct" THEN "credit" ELSE "deduct",
                 Now.char, 0, Nobody, Now.amount)>>)
    /\ UNCHANGED <<sessions, rows, nextId, envVars, faults>>

\* The operation finds that it cannot be done.
ExecRefused ==
    /\ Running /\ ~NowOk
    /\ Failed
    /\ UNCHANGED <<sessions, dbVars, envVars, faults>>

\* The database fails the statement.
ExecFault ==
    /\ Running
    /\ faults.prog + faults.undo < MaxFaults
    /\ faults' = IF rolling THEN [faults EXCEPT !.undo = @ + 1] ELSE [faults EXCEPT !.prog = @ + 1]
    /\ Failed
    /\ UNCHANGED <<sessions, dbVars, envVars>>

\* Mutant of Finish: the mutex is not given back.
FinishHolding ==
    /\ pair # <<>> /\ prog = <<>>
    /\ TearDown(pair[1], pair[2])
    /\ undo' = <<>>
    /\ rolling' = FALSE
    /\ UNCHANGED <<pair, prog, loaded, dbVars, envVars, faults>>

\* conclude returns: cancelBoth on success and on failure alike.
Finish ==
    /\ pair # <<>> /\ prog = <<>>
    /\ TearDown(pair[1], pair[2])
    /\ pair' = <<>>
    /\ undo' = <<>>
    /\ rolling' = FALSE
    /\ UNCHANGED <<prog, loaded, dbVars, envVars, faults>>

ConcludeStep ==
    \/ ExecVerify \/ ExecRemoveLoad \/ ExecRemoveWrite \/ ExecAdd
    \/ ExecZeny \/ ExecRefused \/ ExecFault \/ Finish

----------------------------------------------------------------------------
\* Everything that does not take the trade mutex.

\* EnterMap, LeaveMap and warps: the sessions are not told.
Travel(c, m) ==
    /\ moves < MaxMoves
    /\ m # where[c]
    /\ where' = [where EXCEPT ![c] = m]
    /\ moves' = moves + 1
    /\ UNCHANGED <<sessions, dbVars, jobVars, foreign, spent, faults>>

\* A drop, use, sell or deposit handler reads the row it removes from ...
ForeignLoad(g, id, k) ==
    /\ moves < MaxMoves
    /\ foreign[g] = Idle
    /\ RemoveOk(rows, id, k)
    /\ foreign' = [foreign EXCEPT ![g] =
                      [id |-> id, name |-> rows[id].name, amount |-> k,
                       loaded |-> rows[id].amount]]
    /\ moves' = moves + 1
    /\ UNCHANGED <<sessions, dbVars, jobVars, where, spent, faults>>

\* ... and writes it; the units are now on the floor, eaten, sold or stored.
\* A row that vanished in between is reported as a success.
ForeignWrite(g) ==
    /\ foreign[g] # Idle
    /\ rows' = RemoveWrite(rows, foreign[g].id, foreign[g].loaded, foreign[g].amount)
    /\ foreign' = [foreign EXCEPT ![g] = Idle]
    /\ spent' = [spent EXCEPT ![foreign[g].name] = @ + foreign[g].amount]
    /\ UNCHANGED <<sessions, nextId, zeny, jobVars, where, moves, faults>>

\* EquipService: SetEquip on a row of the bag.
Equip(id) ==
    /\ moves < MaxMoves
    /\ id \in DOMAIN rows
    /\ rows' = SetEquip(rows, id, ~rows[id].equip)
    /\ moves' = moves + 1
    /\ UNCHANGED <<sessions, nextId, zeny, jobVars, where, foreign, spent, faults>>

Next ==
    \/ \E c, t \in Chars : Request(c, t)
    \/ \E c \in Chars : AckAccept(c) \/ AckReject(c) \/ Cancel(c) \/ Lock(c) \/ Conclude(c)
    \/ \E c \in Chars, id \in DOMAIN rows, k \in Stakes : AddItem(c, id, k)
    \/ \E c \in Chars, z \in Stakes : AddZeny(c, z)
    \/ ConcludeStep
    \/ \E c \in Chars, m \in Maps \cup {Nobody} : Travel(c, m)
    \/ \E g \in Others, id \in DOMAIN rows :
          Equip(id) \/ \E k \in Stakes : ForeignLoad(g, id, k)
    \/ \E g \in Others : ForeignWrite(g)

\* conclude is a loop over finitely many database calls, each of which returns.
Spec == Init /\ [][Next]_vars /\ WF_vars(ConcludeStep)

----------------------------------------------------------------------------
Ops ==
    [op : {"verifyZeny", "verifyBag"}, char : Chars, id : {0}, name : {Nobody}, amount : Nat]
    \cup [op : {"remove", "add"}, char : Chars, id : Nat, name : Names, amount : Stakes]
    \cup [op : {"deduct", "credit"}, char : Chars, id : {0}, name : {Nobody}, amount : Stakes]
Removals == [id : Nat, name : Names, amount : Stakes, loaded : Nat]

\* The variables hold values of their types; nothing is left to execute when
\* the mutex is free, and a Remove between its two statements has read at least
\* the amount it removes.
TypeOK ==
    /\ sessions \in [Chars -> Session \cup {NoSession}]
    /\ where \in [Chars -> Maps \cup {Nobody}]
    /\ nextId \in Nat \ {0}
    /\ \A id \in DOMAIN rows : id \in 1 .. nextId - 1 /\ rows[id] \in Row
    /\ zeny \in [Chars -> Balances]
    /\ pair \in {<<>>} \cup (Chars \X Chars)
    /\ prog \in Seq(Ops)
    /\ undo \in Seq(Ops)
    /\ rolling \in BOOLEAN
    /\ MuFree => prog = <<>> /\ undo = <<>> /\ ~rolling
    /\ loaded = NotLoaded \/ (prog # <<>> /\ Now.op = "remove" /\ loaded \in Nat /\ loaded >= Now.amount)
    /\ foreign \in [Others -> Removals \cup {Idle}]
    /\ \A g \in Others : foreign[g] # Idle => foreign[g].loaded >= foreign[g].amount
    /\ spent \in [Names -> Nat]
    /\ faults \in [prog : Nat, undo : Nat] /\ moves \in Nat

\* The two halves of a trade always agree: whoever I trade with trades with me,
\* in the same state.  A half-torn-down trade would leave its survivor unable to
\* trade again, and conclude would pay a stranger.
SessionSymmetry ==
    \A c \in Chars : Trading(c) =>
        /\ Partner(c) \in Chars \ {c}
        /\ Trading(Partner(c))
        /\ Partner(Partner(c)) = c
        /\ sessions[Partner(c)].state = sessions[c].state

\* Both sides are locked exactly while conclude runs for them: a trade is never
\* left agreed and not executed, and never executed without both locks.
LockDiscipline ==
    \A c \in Chars : Trading(c) =>
        (sessions[c].locked /\ sessions[Partner(c)].locked
            <=> pair \in {<<c, Partner(c)>>, <<Partner(c), c>>})

\* The sessions of the two parties are in step in every well-typed state: both
\* exist or neither, they name each other, and they are both locked exactly while
\* conclude runs for them, whoever requests, answers, cancels, travels or fails.
SessionsPaired == TypeOK /\ SessionSymmetry /\ LockDiscipline

\* conclude always ends, and gives the mutex back to every other trade.
MutexReleased == ~MuFree ~> MuFree

----------------------------------------------------------------------------
\* What the two parties own, as the atomic swap promises it: an operation done
\* by a conclude that may still be rolled back does not count.

Pending == IF rolling THEN prog ELSE undo

\* Net units of item n (or of zeny, when n is Nobody) that the pending
\* compensations would give c.
Restores(c, n) ==
    LET of(op) == SumOver([i \in DOMAIN Pending |-> Pending[i].amount],
                          {i \in DOMAIN Pending : /\ Pending[i].op = op
                                                  /\ Pending[i].char = c
                                                  /\ Pending[i].name = n})
    IN of("add") + of("credit") - of("remove") - of("deduct")

bagBar == [c \in Chars |-> [n \in Names |-> Held(rows, c, n) + Restores(c, n)]]
purseBar == [c \in Chars |-> zeny[c] + Restores(c, Nobody)]

\* Units of item n on c's side of the table.
Offered(c, n) ==
    UnitsIn(sessions[c].offered, DOMAIN sessions[c].offered, n)

dealBar ==
    [c \in Chars |-> [partner |-> Partner(c), zeny |-> sessions[c].zeny,
                      give |-> [n \in Names |-> Offered(c, n)],
                      locked |-> sessions[c].locked]]

Atomic == INSTANCE AtomicTrade WITH bag <- bagBar, purse <- purseBar, deal <- dealBar

\* An undo fails: the database fails it, or it is refused.  Without a failure of the
\* database it is refused only because somebody's balance is exactly 2^31, which
\* NewZeny reads as negative.
UndoFails ==
    /\ rolling /\ Running
    /\ \/ faults'.undo > faults.undo
       \/ ~NowOk /\ (faults.undo > 0 \/ \E c \in Chars : zeny[c] = Half)

\* The trade service implements the atomic swap: conclude either exchanges
\* exactly what both sides locked, in one step, or changes nothing ("atomically swaps
\* items and zeny with full rollback on any failure"), except where an undo fails.
SwapIsAtomic == Atomic!Init /\ [][Atomic!Next \/ UndoFails]_<<bagBar, purseBar, dealBar>>

Units(table, n) == SumOver([c \in Chars |-> Held(table, c, n)], Chars)

\* Handlers outside the mutex that race with conclude, and database failures that
\* make it undo what it had done, can duplicate items, but never lose one: what is in
\* the bags and what the handlers took out is at least what there was, whatever those
\* handlers have loaded.  Only a failure that hits the undos themselves can lose one.
ItemsNeverLost ==
    MuFree /\ faults.undo = 0 =>
        \A n \in Names : Units(rows, n) + spent[n] >= Units(StartRows, n)

=============================================================================
