------------------------------ MODULE Presence ------------------------------
(***************************************************************************)
(* A character's session on the map server: EnterMap, LeaveMap, Checkpoint *)
(* and SaveAll of WorldService (world/app/world.go), driven by CZ_ENTER,   *)
(* CZ_RESTART and connection closes (gateway/app/map.go, dispatch.go), and *)
(* the in-game changes that have to survive in the char row.               *)
(*                                                                         *)
(* A session lives in two places: the entity in the world registry and the *)
(* char row.  Every handler runs on a goroutine of its own, closes run on  *)
(* the event loop, the checkpoint on its ticker, and none of them holds a  *)
(* lock across two database statements; each statement, and each section   *)
(* under the world mutex, is a step.                                       *)
(***************************************************************************)
EXTENDS Integers, FiniteSets

CONSTANTS
    Chars,          \* characters
    Conns,          \* connection slots of the map server
    Slots,          \* bound: CZ_ENTER handlers of one connection at a time
    Maps, Cells,    \* where a character can stand
    OffMap,         \* the cells outside the 512 x 512 canvas of an AOI grid
    SaveMap, SaveCell, \* the save point
    Full,           \* hit points of a healthy character
    Absent,         \* no entity, no character, no relocation
    MaxEnters,      \* bound: CZ_ENTERs
    MaxRestarts,    \* bound: CZ_RESTARTs
    MaxEvents,      \* bound: in-game changes
    MaxFaults,      \* bound: database failures
    MaxTicks,       \* bound: checkpoints and shutdown flushes
    MaxCrashes,     \* bound: process crashes
    MaxIncidents    \* bound: these four taken together

ASSUME PlaceAssumption ==
    SaveMap \in Maps /\ OffMap \subseteq Cells /\ SaveCell \in Cells \ OffMap
ASSUME FullAssumption == Full \in Nat \ {0}
ASSUME PresenceBounds ==
    /\ MaxEnters \in Nat /\ MaxRestarts \in Nat
    /\ MaxEvents \in Nat /\ MaxFaults \in Nat
    /\ MaxTicks \in Nat /\ MaxCrashes \in Nat /\ MaxIncidents \in Nat

VARIABLES
    row,        \* the char row of each character
    online,     \* its online column
    ent,        \* the world registry
    conn,       \* each connection: is it open, and the mapAuth in its context
    enter,      \* the CZ_ENTER handlers under way
    leave,      \* the LeaveMap calls under way: one from the close of each
                \* connection, one from its CZ_RESTART
    flush,      \* the Checkpoint or SaveAll under way
    port,       \* the position a portal relocation has still to persist
    last,       \* history: what each character was when LeaveMap took it out of
                \* the world, Absent when that failed or the process died before
    stray,      \* history: the entities that nobody will remove
    raced,      \* history: characters that another call may still write, or has
                \* changed under LeaveMap's hands, when LeaveMap removes them
    early,      \* history: the handlers that loaded a row LeaveMap had yet to write
    used        \* the bounded counters

database == <<row, online>>
histories == <<last, stray, raced, early>>
vars == <<database, ent, conn, enter, leave, flush, port, histories, used>>

\* The columns of the char row that the world loads; statusPoint is an unspent
\* point and stat what it was spent on.  Learned skills are a table of their own,
\* of which this module keeps only the statements that may fail.
Entity == [map : Maps, cell : Cells, hp : 0 .. Full, max : {0, Full},
           statusPoint : 0 .. 1, stat : 0 .. 1]
ASSUME AbsentAssumption == Absent \notin Entity \cup Chars \cup [char : Chars, ent : Entity]
Fresh(m, p) == [map |-> m, cell |-> p, hp |-> Full, max |-> Full,
                statusPoint |-> 1, stat |-> 0]

Frames == Conns \X Slots
Leaves == Conns \X {"close", "restart"}
NoConn == [open |-> FALSE, char |-> Absent]
NoCall == [pc |-> "idle", char |-> Absent, ent |-> Absent]
NoFlush == [pc |-> "idle", all |-> FALSE, todo |-> {}, snap |-> Absent]

\* The columns a session is resumed from.
Progress(e) == [hp |-> e.hp, max |-> e.max, statusPoint |-> e.statusPoint]

In(c) == ent[c] # Absent
Running(proc, i) == proc[i].pc # "idle"
\* Some call of proc is at one of these points for c.
At(proc, c, pcs) == \E i \in DOMAIN proc : proc[i].char = c /\ proc[i].pc \in pcs
\* No handler of connection k is running.
Quiet(k) ==
    /\ \A f \in Frames : f[1] = k => ~Running(enter, f)
    /\ \A l \in Leaves : l[1] = k => ~Running(leave, l)

\* Connection k is open and its close will take c out of the world: c is the
\* identity it has cached, or is about to cache.
Holds(k, c) ==
    /\ conn[k].open
    /\ \/ conn[k].char = c
       \/ \E s \in Slots : /\ enter[<<k, s>>].char = c
                           /\ enter[<<k, s>>].pc \in {"online", "bind"}
Held(c) == \E k \in Conns : Holds(k, c)

\* A LeaveMap of c has taken it out of the world and still has statements to go.
Saving(c) == At(leave, c, {"offline", "state", "skills"})
Gone(c) == ~In(c) /\ ~Saving(c)
\* The running flush has a snapshot of c.
Flushes(c) == \E s \in flush.todo : s.char = c

Spend(what) == used' = [used EXCEPT ![what] = @ + 1]
Incident(what, max) ==
    /\ used[what] < max
    /\ used.events + used.faults + used.ticks + used.crashes < MaxIncidents
    /\ Spend(what)
\* A database statement fails.
Fault == Incident("faults", MaxFaults)

\* The rows are what an earlier session left, a cell outside the grid included.
Init ==
    /\ \E p \in Cells : row = [c \in Chars |-> Fresh(SaveMap, p)]
    /\ online = [c \in Chars |-> FALSE]
    /\ ent = [c \in Chars |-> Absent]
    /\ conn = [k \in Conns |-> NoConn]
    /\ enter = [f \in Frames |-> NoCall]
    /\ leave = [l \in Leaves |-> NoCall]
    /\ flush = NoFlush
    /\ port = Absent
    /\ last = row
    /\ stray = {} /\ raced = {} /\ early = {}
    /\ used = [enters |-> 0, restarts |-> 0, events |-> 0, faults |-> 0, ticks |-> 0,
               crashes |-> 0]

----------------------------------------------------------------------------
\* Database statements.

\* SetOnline: the flag and the cell, not the map.
SetOnline(c, flag, s) ==
    /\ online' = [online EXCEPT ![c] = flag]
    /\ row' = [row EXCEPT ![c].cell = s.cell]

\* Mutant of SaveState: the points column is forgotten.
SaveVitals(c, s, maxHP) == row' = [row EXCEPT ![c].hp = s.hp, ![c].max = maxHP]

\* SaveState: vitals and points; the stats they were spent on are not written.
SaveState(c, s, maxHP) ==
    row' = [row EXCEPT ![c].hp = s.hp, ![c].max = maxHP, ![c].statusPoint = s.statusPoint]

SetPosition(c, m, p) == row' = [row EXCEPT ![c].map = m, ![c].cell = p]

----------------------------------------------------------------------------
\* CZ_ENTER.

\* The call goes on to pc with what it has read.
Goto(proc, i, pc, e) == [proc EXCEPT ![i] = [pc |-> pc, char |-> @.char, ent |-> e]]
Call(c, pc) == [pc |-> pc, char |-> c, ent |-> Absent]

\* A client connects; the listeners are not shut down yet.
Open(k) ==
    /\ ~conn[k].open /\ Quiet(k) /\ ~flush.all
    /\ conn' = [conn EXCEPT ![k] = [open |-> TRUE, char |-> Absent]]
    /\ UNCHANGED <<database, ent, enter, leave, flush, port, histories, used>>

\* A CZ_ENTER whose session ticket is in order.  It may name any character, also
\* on a connection that has entered one before.
Connect(f, c) ==
    /\ conn[f[1]].open /\ ~Running(enter, f)
    /\ used.enters < MaxEnters /\ Spend("enters")
    /\ enter' = [enter EXCEPT ![f] = Call(c, "load")]
    /\ UNCHANGED <<database, ent, conn, leave, flush, port, histories>>

\* The row is loaded as e.
Load(f, e) ==
    LET c == enter[f].char IN
    /\ enter[f].pc = "load"
    /\ enter' = Goto(enter, f, "skills", e)
    /\ early' = IF At(leave, c, {"offline", "state"}) THEN early \cup {f} ELSE early
    /\ UNCHANGED <<database, ent, conn, leave, flush, port, last, stray, raced, used>>

\* Mutant of EnterLoad: the character enters in full health.
EnterHealed(f) == \E c \in Chars : enter[f].char = c /\ Load(f, [row[c] EXCEPT !.hp = row[c].max])

\* LoadEnterState.
EnterLoad(f) == Load(f, row[enter[f].char])

\* LoadSkills.
EnterSkills(f) ==
    /\ enter[f].pc = "skills"
    /\ enter' = Goto(enter, f, "add", enter[f].ent)
    /\ UNCHANGED <<database, ent, conn, leave, flush, port, histories, used>>

\* AddEntity.  An entity the grid refuses stays in the registry, and the enter is
\* refused.
EnterAdd(f) ==
    LET c == enter[f].char   refused == enter[f].ent.cell \in OffMap IN
    /\ enter[f].pc = "add" /\ ~In(c)
    /\ ent' = [ent EXCEPT ![c] = enter[f].ent]
    /\ stray' = IF refused \/ ~conn[f[1]].open THEN stray \cup {c} ELSE stray
    /\ enter' = IF refused THEN [enter EXCEPT ![f] = NoCall]
                           ELSE Goto(enter, f, "online", enter[f].ent)
    /\ early' = early \ {f}
    /\ UNCHANGED <<database, conn, leave, flush, port, last, raced, used>>

\* A load fails, or the character is in the world already: the enter is refused.
EnterRefused(f) ==
    /\ \/ enter[f].pc \in {"load", "skills"} /\ Fault
       \/ enter[f].pc = "add" /\ In(enter[f].char) /\ UNCHANGED used
    /\ enter' = [enter EXCEPT ![f] = NoCall]
    /\ early' = early \ {f}
    /\ UNCHANGED <<database, ent, conn, leave, flush, port, last, stray, raced>>

\* SetOnline; its error is ignored.
EnterOnline(f) ==
    /\ enter[f].pc = "online"
    /\ \/ SetOnline(enter[f].char, TRUE, enter[f].ent) /\ UNCHANGED used
       \/ Fault /\ UNCHANGED database
    /\ enter' = Goto(enter, f, "bind", Absent)
    /\ UNCHANGED <<ent, conn, leave, flush, port, histories>>

\* SetContext and registerConn: from here on a close knows whose it is, and no
\* longer whose it was.  The context of a connection that is closed already is
\* read by nobody.
EnterBind(f) ==
    LET k == f[1] IN
    /\ enter[f].pc = "bind"
    /\ conn' = IF conn[k].open THEN [conn EXCEPT ![k].char = enter[f].char] ELSE conn
    /\ enter' = [enter EXCEPT ![f] = NoCall]
    /\ stray' = stray \cup {c \in Chars : c = conn[k].char /\ In(c) /\ ~Held(c)'}
    /\ UNCHANGED <<database, ent, leave, flush, port, last, raced, early, used>>

----------------------------------------------------------------------------
\* LeaveMap.

\* A close ends the connection, also while CZ_ENTERs of it run on; whom they have
\* put into the world it does not know.
Closed(k) ==
    /\ conn[k].open
    /\ conn' = [conn EXCEPT ![k] = NoConn]
    /\ stray' = stray \cup {c \in Chars : \E s \in Slots :
                               /\ enter[<<k, s>>].char = c
                               /\ enter[<<k, s>>].pc \in {"online", "bind"}}
    /\ UNCHANGED <<database, ent, enter, flush, port, last, raced, early, used>>

\* Mutant of OnClose: the registries are pruned and LeaveMap is not called.
OnClosePruneOnly(k) == Closed(k) /\ UNCHANGED leave

\* OnClose: a connection without a cached identity leaves no one.
OnClose(k) ==
    /\ Closed(k)
    /\ leave' = IF conn[k].char = Absent THEN leave
                ELSE [leave EXCEPT ![<<k, "close">>] = Call(conn[k].char, "get")]

\* CZ_RESTART, return to character select; the frame was cut with this identity.
Restart(k) ==
    /\ conn[k].open /\ conn[k].char # Absent /\ ~Running(leave, <<k, "restart">>)
    /\ used.restarts < MaxRestarts /\ Spend("restarts")
    /\ leave' = [leave EXCEPT ![<<k, "restart">>] = Call(conn[k].char, "get")]
    /\ UNCHANGED <<database, ent, conn, enter, flush, port, histories>>

\* LeaveMap reads the entity, or finds that there is none and is done.
LeaveGet(l) ==
    LET c == leave[l].char IN
    /\ leave[l].pc = "get"
    /\ leave' = IF In(c) THEN Goto(leave, l, "remove", ent[c]) ELSE [leave EXCEPT ![l] = NoCall]
    /\ UNCHANGED <<database, ent, conn, enter, flush, port, histories, used>>

\* Mutant of LeaveRemove: the session is saved and the entity stays.
LeaveSavesOnly(l) ==
    /\ leave[l].pc = "remove"
    /\ leave' = Goto(leave, l, "offline", leave[l].ent)
    /\ UNCHANGED <<database, ent, conn, enter, flush, port, histories, used>>

\* What LeaveMap is about to write is not all there is to write of c: the entity
\* changed after its Get, a flush still has an older snapshot, another LeaveMap of
\* c is not done, or a CZ_ENTER of c has still to mark it online.
Crossed(c, e) ==
    \/ Progress(ent[c]) # Progress(e)
    \/ Flushes(c) \/ Saving(c)
    \/ At(enter, c, {"online"})

\* RemoveEntity; it fails when another leave was faster.
LeaveRemove(l) ==
    LET c == leave[l].char IN
    /\ leave[l].pc = "remove"
    /\ IF In(c)
       THEN /\ ent' = [ent EXCEPT ![c] = Absent]
            /\ last' = [last EXCEPT ![c] = ent[c]]
            /\ raced' = IF Crossed(c, leave[l].ent) THEN raced \cup {c} ELSE raced \ {c}
            /\ early' = early \cup {f \in Frames : /\ enter[f].char = c
                                                   /\ enter[f].pc \in {"skills", "add"}}
            /\ leave' = Goto(leave, l, "offline", leave[l].ent)
       ELSE /\ leave' = [leave EXCEPT ![l] = NoCall]
            /\ UNCHANGED <<ent, last, raced, early>>
    /\ stray' = stray \ {c}
    /\ UNCHANGED <<database, conn, enter, flush, port, used>>

\* SetOnline, SaveState and SaveSkills, in this order.
LeaveOffline(l) ==
    /\ leave[l].pc = "offline"
    /\ SetOnline(leave[l].char, FALSE, leave[l].ent)
    /\ leave' = Goto(leave, l, "state", leave[l].ent)
    /\ UNCHANGED <<ent, conn, enter, flush, port, histories, used>>

LeaveState(l) ==
    /\ leave[l].pc = "state"
    /\ SaveState(leave[l].char, leave[l].ent, leave[l].ent.max)
    /\ leave' = Goto(leave, l, "skills", Absent)
    /\ UNCHANGED <<online, ent, conn, enter, flush, port, histories, used>>

LeaveSkills(l) ==
    /\ leave[l].pc = "skills"
    /\ leave' = [leave EXCEPT ![l] = NoCall]
    /\ UNCHANGED <<database, ent, conn, enter, flush, port, histories, used>>

\* One of the three fails, and LeaveMap returns without the rest.
LeaveFails(l) ==
    /\ leave[l].pc \in {"offline", "state", "skills"}
    /\ Fault
    /\ last' = [last EXCEPT ![leave[l].char] = Absent]
    /\ leave' = [leave EXCEPT ![l] = NoCall]
    /\ UNCHANGED <<database, ent, conn, enter, flush, port, stray, raced, early>>

LeaveStep(l) ==
    \/ LeaveGet(l) \/ LeaveRemove(l)
    \/ LeaveOffline(l) \/ LeaveState(l) \/ LeaveSkills(l) \/ LeaveFails(l)

----------------------------------------------------------------------------
\* Checkpoint and SaveAll.

\* The snapshot of every player in the world.
Snapshot == {[char |-> c, ent |-> ent[c]] : c \in {d \in Chars : In(d)}}

\* Checkpoint on its ticker, or SaveAll once the listeners are stopped.
FlushStart(all) ==
    /\ flush.pc = "idle" /\ Incident("ticks", MaxTicks)
    /\ all => \A k \in Conns : ~conn[k].open
    /\ flush' = [pc |-> "state", all |-> all, todo |-> Snapshot, snap |-> Absent]
    /\ UNCHANGED <<database, ent, conn, enter, leave, port, histories>>

\* SaveState of one of them; the snapshot's maxHP was never filled in.
FlushState(s) ==
    /\ flush.pc = "state"
    /\ SaveState(s.char, s.ent, 0)
    /\ flush' = [flush EXCEPT !.pc = "online", !.snap = s]
    /\ UNCHANGED <<online, ent, conn, enter, leave, port, histories, used>>

\* SetOnline of the same one: TRUE in a checkpoint, FALSE in SaveAll.
FlushOnline ==
    /\ flush.pc = "online"
    /\ SetOnline(flush.snap.char, ~flush.all, flush.snap.ent)
    /\ flush' = [flush EXCEPT !.pc = "state", !.todo = @ \ {flush.snap}, !.snap = Absent]
    /\ UNCHANGED <<ent, conn, enter, leave, port, histories, used>>

\* A statement fails and the character is skipped.
FlushFails(s) ==
    /\ flush.pc = "state" \/ flush.snap = s
    /\ Fault
    /\ flush' = [flush EXCEPT !.pc = "state", !.todo = @ \ {s}, !.snap = Absent]
    /\ UNCHANGED <<database, ent, conn, enter, leave, port, histories>>

\* The process ends, and with it everything but the rows; another one starts.
Dies ==
    /\ ent' = [c \in Chars |-> Absent]
    /\ conn' = [k \in Conns |-> NoConn]
    /\ enter' = [f \in Frames |-> NoCall]
    /\ leave' = [l \in Leaves |-> NoCall]
    /\ flush' = NoFlush
    /\ port' = Absent
    /\ last' = [c \in Chars |-> IF Gone(c) THEN last[c] ELSE Absent]
    /\ stray' = {} /\ early' = {}
    /\ UNCHANGED <<database, raced>>

\* A checkpoint is done; after SaveAll the process exits.
FlushEnd ==
    /\ flush.pc = "state" /\ flush.todo = {}
    /\ UNCHANGED used
    /\ \/ flush.all /\ Dies
       \/ /\ ~flush.all /\ flush' = NoFlush
          /\ UNCHANGED <<database, ent, conn, enter, leave, port, histories>>

\* The process dies in the middle of anything.
Crash == Incident("crashes", MaxCrashes) /\ Dies

----------------------------------------------------------------------------
\* What happens to a character in the world.

InGame(c) == In(c) /\ Incident("events", MaxEvents)
rest == <<online, conn, enter, leave, flush, histories>>

\* AddVitals, RegenTick and mob attacks: hit points within 0 .. max.
Vitals(c, hp) ==
    /\ InGame(c) /\ hp # ent[c].hp /\ hp <= ent[c].max
    /\ ent' = [ent EXCEPT ![c].hp = hp]
    /\ UNCHANGED <<row, port, rest>>

\* MoveEntity.
Walk(c, p) ==
    /\ InGame(c)
    /\ ent' = [ent EXCEPT ![c].cell = p]
    /\ UNCHANGED <<row, port, rest>>

\* RespawnPlayer: nothing is persisted.
Respawn(c) ==
    /\ InGame(c)
    /\ ent' = [ent EXCEPT ![c].map = SaveMap, ![c].cell = SaveCell, ![c].hp = ent[c].max]
    /\ UNCHANGED <<row, port, rest>>

\* AllocateStat: a point is spent.
AllocateStat(c) ==
    /\ InGame(c) /\ ent[c].statusPoint > 0
    /\ ent' = [ent EXCEPT ![c].statusPoint = @ - 1, ![c].stat = @ + 1]
    /\ UNCHANGED <<row, port, rest>>

\* RelocatePlayer, the entity first and the row once the mutex is released.
Relocate(c, m, p) ==
    /\ InGame(c) /\ port = Absent
    /\ ent' = [ent EXCEPT ![c].map = m, ![c].cell = p]
    /\ port' = [char |-> c, map |-> m, cell |-> p]
    /\ UNCHANGED <<row, rest>>

RelocateWrite ==
    /\ port # Absent
    /\ \/ SetPosition(port.char, port.map, port.cell) /\ UNCHANGED used
       \/ Fault /\ UNCHANGED row
    /\ port' = Absent
    /\ UNCHANGED <<ent, rest>>

\* WarpPlayer, the script builtin: only the row; the client is told to reconnect.
WarpPlayer(c, m, p) ==
    /\ InGame(c) /\ m # ent[c].map
    /\ SetPosition(c, m, p)
    /\ UNCHANGED <<ent, port, rest>>

EnterStep(f) ==
    EnterLoad(f) \/ EnterSkills(f) \/ EnterAdd(f) \/ EnterRefused(f)
    \/ EnterOnline(f) \/ EnterBind(f)

FlushStep == (\E s \in flush.todo : FlushState(s) \/ FlushFails(s)) \/ FlushOnline \/ FlushEnd

InGameStep(c) ==
    \/ \E hp \in 0 .. Full : Vitals(c, hp)
    \/ \E p \in Cells : Walk(c, p)
    \/ Respawn(c) \/ AllocateStat(c)
    \/ \E m \in Maps, p \in Cells : Relocate(c, m, p) \/ WarpPlayer(c, m, p)

Next ==
    \/ \E k \in Conns : Open(k) \/ OnClose(k) \/ Restart(k)
    \/ \E f \in Frames : (\E c \in Chars : Connect(f, c)) \/ EnterStep(f)
    \/ \E l \in Leaves : LeaveStep(l)
    \/ \E all \in BOOLEAN : FlushStart(all)
    \/ FlushStep
    \/ RelocateWrite
    \/ Crash
    \/ \E c \in Chars : InGameStep(c)

\* A handler that has started runs to its end: none of its steps waits.
Fairness ==
    /\ \A f \in Frames : WF_vars(EnterStep(f))
    /\ \A l \in Leaves : WF_vars(LeaveStep(l))

Spec == Init /\ [][Next]_vars /\ Fairness

----------------------------------------------------------------------------
\* A call at pc: whom it serves, and the entity it has in its hands.
CallsAt(pcs) == [pc : pcs, char : Chars, ent : Entity]
CallsTo(pcs) == [pc : pcs, char : Chars, ent : {Absent}]
Snap == [char : Chars, ent : Entity]

\* The variables hold values of their types; in particular an entity, a row and
\* a snapshot never have more hit points than a healthy character.
TypeOK ==
    /\ row \in [Chars -> Entity]
    /\ online \in [Chars -> BOOLEAN]
    /\ ent \in [Chars -> Entity \cup {Absent}]
    /\ conn \in [Conns -> [open : BOOLEAN, char : Chars \cup {Absent}]]
    /\ enter \in [Frames -> {NoCall} \cup CallsTo({"load", "bind"})
                                     \cup CallsAt({"skills", "add", "online"})]
    /\ leave \in [Leaves -> {NoCall} \cup CallsTo({"get", "skills"})
                                     \cup CallsAt({"remove", "offline", "state"})]
    /\ flush \in [pc : {"idle", "state", "online"}, all : BOOLEAN,
                   todo : SUBSET Snap, snap : Snap \cup {Absent}]
    /\ port \in [char : Chars, map : Maps, cell : Cells] \cup {Absent}
    /\ last \in [Chars -> Entity \cup {Absent}]
    /\ stray \subseteq Chars /\ raced \subseteq Chars /\ early \subseteq Frames
    /\ used \in [enters : Nat, restarts : Nat, events : Nat, faults : Nat, ticks : Nat,
                crashes : Nat]

\* Whoever is out of the world is offline, and the row holds what the entity was
\* when it was removed, although LeaveMap saves an earlier copy of it with three
\* statements, a concurrent close and CZ_RESTART both call it, each with a copy of
\* its own, and the client may be back before they are done.  Excepted are a
\* LeaveMap that failed, a crash, and what Crossed names: the entity changed
\* between Get and RemoveEntity, a checkpoint that still had the character in its
\* hands, an older LeaveMap that was not done, and a CZ_ENTER that had still to
\* mark it online.  The next LeaveMap that nothing crosses makes it good again.
SessionSaved ==
    /\ TypeOK
    /\ \A c \in Chars : Gone(c) /\ last[c] # Absent /\ c \notin raced =>
          ~online[c] /\ Progress(row[c]) = Progress(last[c])

\* Who enters goes on where the last session ended, however many handlers and
\* checkpoints are under way: but for the sessions excepted in SessionSaved, the
\* only enters that may resume an older row are those that loaded it while LeaveMap
\* had still to write it, or before the character was out of the world.
ResumesWhereLeft ==
    [][\A c \in Chars : ~In(c) /\ In(c)' =>
          \/ last[c] = Absent \/ c \in raced
          \/ \E f \in early : enter[f].char = c /\ enter'[f] # enter[f]
          \/ Progress(ent'[c]) = Progress(last[c])]_vars

\* An entity always has someone who will remove it: an open connection that has
\* cached its identity or is about to, or a LeaveMap under way.  One without locks
\* its character out for good, since AddEntity refuses to enter it again.  The three
\* ways in which the code leaves one behind are excepted: a connection that closes
\* during its own CZ_ENTER, a saved cell that the grid refuses, and a second
\* CZ_ENTER for another character on the same connection, which overwrites the
\* identity of the first.
NoGhost ==
    \A c \in Chars : In(c) => c \in stray \/ Held(c) \/ At(leave, c, {"get", "remove"})

\* A character that no open connection holds any more leaves the world, unless its
\* player enters again, whatever statement fails on the way; but for the strays of
\* NoGhost.
DisconnectDespawns ==
    \A c \in Chars : ~Held(c) ~> (~In(c) \/ c \in stray \/ Held(c))

=============================================================================
