--------------------------- MODULE PresenceProofs ---------------------------
(***************************************************************************)
(* Proofs about Presence, for any number of characters, connections, maps  *)
(* and cells, and any number of events, failures, checkpoints and crashes. *)
(***************************************************************************)
EXTENDS Presence, TLAPS

\* A character has one status point, spent or not; the stat it was spent on is never
\* written.  A flush that is between its two statements has still to tick the character
\* off.
CallsOK ==
    /\ \A f \in Frames : enter[f].pc \in {"skills", "add"} => enter[f].ent.stat = 0
    /\ flush.pc = "online" => flush.snap \in flush.todo
    /\ \A c \in Chars : row[c].stat = 0 /\ (In(c) => ent[c].statusPoint + ent[c].stat <= 1)
TypeInv == TypeOK /\ CallsOK

\* The close of an open connection is still to come.
GhostInv ==
    /\ NoGhost
    /\ \A k \in Conns : conn[k].open => leave[<<k, "close">>].pc = "idle"

-----------------------------------------------------------------------------
\* A session that ended, and that nothing else has its hands on.

\* LeaveMap of c has removed the entity and has statements left.
Writes(l, c) == leave[l].char = c /\ leave[l].pc \in {"offline", "state", "skills"}
\* c is out of the world, by a LeaveMap that nothing crossed.
Away(c) == ~In(c) /\ c \notin raced /\ last[c] # Absent
Kept(c) == ~online[c] /\ Progress(row[c]) = Progress(last[c])

\* How far the LeaveMap l of c got.
WriteSafe(l, c) ==
    /\ leave[l].pc \in {"offline", "state"} => Progress(leave[l].ent) = Progress(last[c])
    /\ leave[l].pc \in {"state", "skills"} => ~online[c]
    /\ leave[l].pc = "skills" => Progress(row[c]) = Progress(last[c])
\* What the CZ_ENTER f of c has read is what the last session left.
EnterSafe(f, c) ==
    enter[f].char = c =>
        /\ enter[f].pc # "online"
        /\ enter[f].pc \in {"skills", "add"} /\ f \notin early =>
              Progress(enter[f].ent) = Progress(last[c])
\* While c is away one LeaveMap at most is writing, no flush has a snapshot of c, and
\* what handlers hold or the row has is what the session left.
Awaited(c) ==
    Away(c) =>
        /\ ~Flushes(c)
        /\ \A l, n \in Leaves : Writes(l, c) /\ Writes(n, c) => l = n
        /\ \A l \in Leaves : Writes(l, c) => WriteSafe(l, c)
        /\ (\A l \in Leaves : ~Writes(l, c)) => Kept(c)
        /\ \A f \in Frames : EnterSafe(f, c)
SavedInv == \A c \in Chars : Awaited(c)

-----------------------------------------------------------------------------
\* The statements on the char row keep it well formed, and what they leave alone.
RowsOK(r) == r \in [Chars -> Entity] /\ \A c \in Chars : r[c].stat = 0

LEMMA SaveStateRow ==
    ASSUME RowsOK(row), NEW c \in Chars, NEW s \in Entity, NEW max \in {0, Full},
           SaveState(c, s, max)
    PROVE  /\ RowsOK(row')
           /\ Progress(row'[c]) = [hp |-> s.hp, max |-> max, statusPoint |-> s.statusPoint]
           /\ \A d \in Chars : d # c => row'[d] = row[d]
<1>1. row[c] \in Entity
  BY DEF RowsOK
<1> DEFINE e == [row[c] EXCEPT !.hp = s.hp, !.max = max, !.statusPoint = s.statusPoint]
<1>2. row' = [row EXCEPT ![c] = e]
  BY DEF SaveState, RowsOK
<1>3. /\ e \in Entity /\ e.stat = row[c].stat
      /\ e.hp = s.hp /\ e.max = max /\ e.statusPoint = s.statusPoint
  BY <1>1 DEF Entity
<1> HIDE DEF e
<1> QED BY <1>2, <1>3 DEF RowsOK, Progress

LEMMA SetOnlineRow ==
    ASSUME RowsOK(row), NEW c \in Chars, NEW s \in Entity, NEW flag, SetOnline(c, flag, s)
    PROVE  /\ RowsOK(row')
           /\ \A d \in Chars : Progress(row'[d]) = Progress(row[d])
<1>1. row[c] \in Entity
  BY DEF RowsOK
<1> DEFINE e == [row[c] EXCEPT !.cell = s.cell]
<1>2. row' = [row EXCEPT ![c] = e]
  BY DEF SetOnline, RowsOK
<1>3. /\ e \in Entity /\ e.stat = row[c].stat
      /\ e.hp = row[c].hp /\ e.max = row[c].max /\ e.statusPoint = row[c].statusPoint
  BY <1>1 DEF Entity
<1> HIDE DEF e
<1> QED BY <1>2, <1>3 DEF RowsOK, Progress

LEMMA SetPositionRow ==
    ASSUME RowsOK(row), NEW c \in Chars, NEW m \in Maps, NEW p \in Cells, SetPosition(c, m, p)
    PROVE  /\ RowsOK(row')
           /\ \A d \in Chars : Progress(row'[d]) = Progress(row[d])
<1>1. row[c] \in Entity
  BY DEF RowsOK
<1> DEFINE e == [row[c] EXCEPT !.map = m, !.cell = p]
<1>2. row' = [row EXCEPT ![c] = e]
  BY DEF SetPosition, RowsOK
<1>3. /\ e \in Entity /\ e.stat = row[c].stat
      /\ e.hp = row[c].hp /\ e.max = row[c].max /\ e.statusPoint = row[c].statusPoint
  BY <1>1 DEF Entity
<1> HIDE DEF e
<1> QED BY <1>2, <1>3 DEF RowsOK, Progress

\* The parts of TypeInv.
EnterRecs == {NoCall} \cup CallsTo({"load", "bind"}) \cup CallsAt({"skills", "add", "online"})
LeaveRecs == {NoCall} \cup CallsTo({"get", "skills"}) \cup CallsAt({"remove", "offline", "state"})
Used == [enters : Nat, restarts : Nat, events : Nat, faults : Nat, ticks : Nat, crashes : Nat]
EntsOK == /\ ent \in [Chars -> Entity \cup {Absent}]
          /\ \A c \in Chars : In(c) => ent[c].statusPoint + ent[c].stat <= 1
ConnsOK == conn \in [Conns -> [open : BOOLEAN, char : Chars \cup {Absent}]]
EntersOK == /\ enter \in [Frames -> EnterRecs]
            /\ \A f \in Frames : enter[f].pc \in {"skills", "add"} => enter[f].ent.stat = 0
LeavesOK == leave \in [Leaves -> LeaveRecs]
FlushOK == /\ flush \in [pc : {"idle", "state", "online"}, all : BOOLEAN,
                         todo : SUBSET Snap, snap : Snap \cup {Absent}]
           /\ flush.pc = "online" => flush.snap \in flush.todo
MiscOK == /\ online \in [Chars -> BOOLEAN]
          /\ port \in [char : Chars, map : Maps, cell : Cells] \cup {Absent}
          /\ last \in [Chars -> Entity \cup {Absent}]
          /\ stray \subseteq Chars /\ raced \subseteq Chars /\ early \subseteq Frames
          /\ used \in [enters : Nat, restarts : Nat, events : Nat, faults : Nat, ticks : Nat, crashes : Nat]

LEMMA TypeParts ==
    /\ TypeInv <=> /\ RowsOK(row) /\ EntsOK /\ ConnsOK /\ EntersOK /\ LeavesOK
                   /\ FlushOK /\ MiscOK
    /\ TypeInv' <=> /\ RowsOK(row') /\ EntsOK' /\ ConnsOK' /\ EntersOK' /\ LeavesOK'
                    /\ FlushOK' /\ MiscOK'
<1>1. TypeInv <=> /\ RowsOK(row) /\ EntsOK /\ ConnsOK /\ EntersOK /\ LeavesOK
                  /\ FlushOK /\ MiscOK
  BY DEF TypeInv, TypeOK, CallsOK, RowsOK, EntsOK, ConnsOK, EntersOK, LeavesOK, FlushOK, MiscOK,
         EnterRecs, LeaveRecs
<1>2. TypeInv' <=> /\ RowsOK(row') /\ EntsOK' /\ ConnsOK' /\ EntersOK' /\ LeavesOK'
                   /\ FlushOK' /\ MiscOK'
  BY DEF TypeInv, TypeOK, CallsOK, RowsOK, EntsOK, ConnsOK, EntersOK, LeavesOK, FlushOK, MiscOK,
         EnterRecs, LeaveRecs
<1> QED BY <1>1, <1>2

\* What a step leaves alone stays well formed.
LEMMA TypeKept ==
    ASSUME TypeInv
    PROVE  /\ UNCHANGED row => RowsOK(row')
           /\ UNCHANGED ent => EntsOK'
           /\ UNCHANGED conn => ConnsOK'
           /\ UNCHANGED enter => EntersOK'
           /\ UNCHANGED leave => LeavesOK'
           /\ UNCHANGED flush => FlushOK'
           /\ UNCHANGED <<online, port, histories, used>> => MiscOK'
<1>0. /\ RowsOK(row) /\ EntsOK /\ ConnsOK /\ EntersOK /\ LeavesOK /\ FlushOK /\ MiscOK
  BY TypeParts
<1>1. UNCHANGED row => RowsOK(row')
  BY <1>0
<1>2. UNCHANGED ent => EntsOK'
  BY <1>0 DEF EntsOK, In
<1>3. UNCHANGED conn => ConnsOK'
  BY <1>0 DEF ConnsOK
<1>4. UNCHANGED enter => EntersOK'
  BY <1>0 DEF EntersOK
<1>5. UNCHANGED leave => LeavesOK'
  BY <1>0 DEF LeavesOK
<1>6. UNCHANGED flush => FlushOK'
  BY <1>0 DEF FlushOK
<1>7. UNCHANGED <<online, port, histories, used>> => MiscOK'
  BY <1>0 DEF MiscOK, histories
<1> QED BY <1>1, <1>2, <1>3, <1>4, <1>5, <1>6, <1>7

\* The counters stay counters.
LEMMA SpendType ==
    ASSUME TypeInv
    PROVE  /\ \A what \in {"enters", "restarts", "events", "faults", "ticks", "crashes"} :
                 Spend(what) => used' \in Used
           /\ \A max : \A what \in {"events", "faults", "ticks", "crashes"} :
                 Incident(what, max) => used' \in Used
           /\ Fault => used' \in Used
<1>1. used \in Used
  BY DEF TypeInv, TypeOK, Used
<1>2. ASSUME NEW what \in {"enters", "restarts", "events", "faults", "ticks", "crashes"}, Spend(what)
      PROVE  used' \in Used
  BY <1>1, <1>2 DEF Spend, Used
<1> QED BY <1>2 DEF Incident, Fault

\* The records of calls.
LEMMA CallFacts ==
    /\ NoCall.pc = "idle" /\ NoCall.char = Absent /\ NoCall.ent = Absent
    /\ Absent \notin Chars /\ Absent \notin Entity
    /\ \A r \in EnterRecs :
          /\ r.pc # "idle" => r.char \in Chars
          /\ r.pc \in {"skills", "add", "online"} => r.ent \in Entity
          /\ r.pc = "idle" => r = NoCall
    /\ \A r \in LeaveRecs :
          /\ r.pc # "idle" => r.char \in Chars
          /\ r.pc \in {"remove", "offline", "state"} => r.ent \in Entity
          /\ r.pc = "idle" => r = NoCall
<1>1. NoCall.pc = "idle" /\ NoCall.char = Absent /\ NoCall.ent = Absent
  BY DEF NoCall
<1>2. Absent \notin Chars /\ Absent \notin Entity
  BY AbsentAssumption
<1>3. ASSUME NEW r \in EnterRecs
      PROVE  /\ r.pc # "idle" => r.char \in Chars
             /\ r.pc \in {"skills", "add", "online"} => r.ent \in Entity
             /\ r.pc = "idle" => r = NoCall
     <2>1. CASE r = NoCall
    BY <1>1, <2>1 DEF NoCall
  <2>2. CASE r \in CallsTo({"load", "bind"})
    BY <2>2 DEF CallsTo
  <2>3. CASE r \in CallsAt({"skills", "add", "online"})
    BY <2>3 DEF CallsAt
  <2> QED BY <2>1, <2>2, <2>3 DEF EnterRecs
<1>4. ASSUME NEW r \in LeaveRecs
      PROVE  /\ r.pc # "idle" => r.char \in Chars
             /\ r.pc \in {"remove", "offline", "state"} => r.ent \in Entity
             /\ r.pc = "idle" => r = NoCall
     <2>1. CASE r = NoCall
    BY <1>1, <2>1 DEF NoCall
  <2>2. CASE r \in CallsTo({"get", "skills"})
    BY <2>2 DEF CallsTo
  <2>3. CASE r \in CallsAt({"remove", "offline", "state"})
    BY <2>3 DEF CallsAt
  <2> QED BY <2>1, <2>2, <2>3 DEF LeaveRecs
<1> QED BY <1>1, <1>2, <1>3, <1>4

LEMMA EnterMoves ==
    ASSUME TypeInv, NEW f \in Frames, NEW r \in EnterRecs,
           r.pc \in {"skills", "add"} => r.ent.stat = 0,
           enter' = [enter EXCEPT ![f] = r]
    PROVE  EntersOK' /\ \A g \in Frames : enter'[g] = IF g = f THEN r ELSE enter[g]
<1>1. EntersOK
  BY TypeParts
<1> QED BY <1>1 DEF EntersOK

LEMMA LeaveMoves ==
    ASSUME TypeInv, NEW l \in Leaves, NEW r \in LeaveRecs, leave' = [leave EXCEPT ![l] = r]
    PROVE  LeavesOK' /\ \A n \in Leaves : leave'[n] = IF n = l THEN r ELSE leave[n]
<1>1. LeavesOK
  BY TypeParts
<1> QED BY <1>1 DEF LeavesOK

LEMMA GotoEnter ==
    ASSUME TypeInv, NEW f \in Frames, NEW pc, NEW e
    PROVE  Goto(enter, f, pc, e) =
               [enter EXCEPT ![f] = [pc |-> pc, char |-> enter[f].char, ent |-> e]]
<1>1. enter[f] \in EnterRecs /\ enter \in [Frames -> EnterRecs]
  BY TypeParts DEF EntersOK
<1> QED BY <1>1 DEF Goto

LEMMA GotoLeave ==
    ASSUME TypeInv, NEW l \in Leaves, NEW pc, NEW e
    PROVE  Goto(leave, l, pc, e) =
               [leave EXCEPT ![l] = [pc |-> pc, char |-> leave[l].char, ent |-> e]]
<1>1. leave[l] \in LeaveRecs /\ leave \in [Leaves -> LeaveRecs]
  BY TypeParts DEF LeavesOK
<1> QED BY <1>1 DEF Goto

-----------------------------------------------------------------------------
\* What the steps of the handlers do with their own record, and whom they serve.
Rec(pc, c, e) == [pc |-> pc, char |-> c, ent |-> e]
EnterBecomes(f, r) == \A g \in Frames : enter'[g] = IF g = f THEN r ELSE enter[g]
LeaveBecomes(l, r) == \A n \in Leaves : leave'[n] = IF n = l THEN r ELSE leave[n]

LEMMA EnterDoes ==
    ASSUME TypeInv, NEW f \in Frames
    PROVE  /\ enter[f].pc # "idle" => enter[f].char \in Chars
           /\ enter[f].pc \in {"skills", "add", "online"} => enter[f].ent \in Entity
           /\ enter[f].pc \in {"skills", "add"} => enter[f].ent.stat = 0
           /\ \A c \in Chars : Connect(f, c) =>
                 EntersOK' /\ EnterBecomes(f, Rec("load", c, Absent))
           /\ EnterLoad(f) =>
                 EntersOK' /\ EnterBecomes(f, Rec("skills", enter[f].char, row[enter[f].char]))
           /\ EnterSkills(f) =>
                 EntersOK' /\ EnterBecomes(f, Rec("add", enter[f].char, enter[f].ent))
           /\ EnterAdd(f) =>
                 /\ EntersOK'
                 /\ IF enter[f].ent.cell \in OffMap THEN EnterBecomes(f, NoCall)
                    ELSE EnterBecomes(f, Rec("online", enter[f].char, enter[f].ent))
           /\ EnterRefused(f) => EntersOK' /\ EnterBecomes(f, NoCall)
           /\ EnterOnline(f) => EntersOK' /\ EnterBecomes(f, Rec("bind", enter[f].char, Absent))
           /\ EnterBind(f) => EntersOK' /\ EnterBecomes(f, NoCall)
<1> DEFINE c == enter[f].char
           e == enter[f].ent
<1>0. enter[f] \in EnterRecs /\ (enter[f].pc \in {"skills", "add"} => e.stat = 0) /\ RowsOK(row)
  BY TypeParts DEF EntersOK
<1>1. /\ enter[f].pc # "idle" => c \in Chars
      /\ enter[f].pc \in {"skills", "add", "online"} => e \in Entity
  BY <1>0, CallFacts
<1>2. NoCall \in EnterRecs /\ NoCall.pc = "idle"
  BY CallFacts DEF EnterRecs
<1>3. \A d \in Chars, pc \in {"load", "bind"} :
         Rec(pc, d, Absent) \in EnterRecs /\ Rec(pc, d, Absent).pc = pc
  BY DEF Rec, EnterRecs, CallsTo
<1>4. \A d \in Chars, pc \in {"skills", "add", "online"}, x \in Entity :
         /\ Rec(pc, d, x) \in EnterRecs
         /\ Rec(pc, d, x).pc = pc /\ Rec(pc, d, x).ent = x
  BY DEF Rec, EnterRecs, CallsAt
<1>5. ASSUME NEW r \in EnterRecs, r.pc \in {"skills", "add"} => r.ent.stat = 0,
             enter' = [enter EXCEPT ![f] = r]
      PROVE  EntersOK' /\ EnterBecomes(f, r)
  BY <1>5, EnterMoves DEF EnterBecomes
<1>6. \A pc, x : Goto(enter, f, pc, x) = [enter EXCEPT ![f] = Rec(pc, c, x)]
  BY GotoEnter DEF Rec
<1>7. ASSUME NEW d \in Chars, Connect(f, d)
      PROVE  EntersOK' /\ EnterBecomes(f, Rec("load", d, Absent))
  <2>1. enter' = [enter EXCEPT ![f] = Rec("load", d, Absent)]
    BY <1>7 DEF Connect, Call, Rec
  <2> QED BY <1>3, <1>5, <2>1
<1>8. ASSUME EnterLoad(f) PROVE EntersOK' /\ EnterBecomes(f, Rec("skills", c, row[c]))
  <2>1. enter[f].pc = "load" /\ enter' = [enter EXCEPT ![f] = Rec("skills", c, row[c])]
    BY <1>6, <1>8 DEF EnterLoad, Load
  <2>2. row[c] \in Entity /\ row[c].stat = 0
    BY <1>0, <1>1, <2>1 DEF RowsOK
  <2>3. Rec("skills", c, row[c]) \in EnterRecs /\ Rec("skills", c, row[c]).ent = row[c]
    BY <1>1, <1>4, <2>1, <2>2
  <2> QED BY <1>5, <2>1, <2>2, <2>3
<1>9. ASSUME EnterSkills(f) PROVE EntersOK' /\ EnterBecomes(f, Rec("add", c, e))
  <2>1. enter[f].pc = "skills" /\ enter' = [enter EXCEPT ![f] = Rec("add", c, e)]
    BY <1>6, <1>9 DEF EnterSkills
  <2>2. Rec("add", c, e) \in EnterRecs /\ Rec("add", c, e).ent = e
    BY <1>1, <1>4, <2>1
  <2> QED BY <1>0, <1>5, <2>1, <2>2
<1>10. ASSUME EnterAdd(f)
       PROVE  /\ EntersOK'
              /\ IF e.cell \in OffMap THEN EnterBecomes(f, NoCall)
                 ELSE EnterBecomes(f, Rec("online", c, e))
  <2>1. /\ enter[f].pc = "add"
        /\ enter' = IF e.cell \in OffMap THEN [enter EXCEPT ![f] = NoCall]
                    ELSE [enter EXCEPT ![f] = Rec("online", c, e)]
    BY <1>6, <1>10 DEF EnterAdd
  <2> QED BY <1>0, <1>1, <1>2, <1>4, <1>5, <2>1
<1>11. ASSUME EnterRefused(f) \/ EnterBind(f) PROVE EntersOK' /\ EnterBecomes(f, NoCall)
  <2>1. enter' = [enter EXCEPT ![f] = NoCall]
    BY <1>11 DEF EnterRefused, EnterBind
  <2> QED BY <1>2, <1>5, <2>1
<1>12. ASSUME EnterOnline(f) PROVE EntersOK' /\ EnterBecomes(f, Rec("bind", c, Absent))
  <2>1. enter[f].pc = "online" /\ enter' = [enter EXCEPT ![f] = Rec("bind", c, Absent)]
    BY <1>6, <1>12 DEF EnterOnline
  <2> QED BY <1>1, <1>3, <1>5, <2>1
<1> QED BY <1>0, <1>1, <1>7, <1>8, <1>9, <1>10, <1>11, <1>12

LEMMA LeaveDoes ==
    ASSUME TypeInv, NEW l \in Leaves
    PROVE  /\ leave[l].pc # "idle" => leave[l].char \in Chars
           /\ leave[l].pc \in {"remove", "offline", "state"} => leave[l].ent \in Entity
           /\ \A c \in Chars : leave' = [leave EXCEPT ![l] = Call(c, "get")] =>
                 LeavesOK' /\ LeaveBecomes(l, Rec("get", c, Absent))
           /\ LeaveGet(l) =>
                 /\ LeavesOK'
                 /\ IF In(leave[l].char)
                    THEN LeaveBecomes(l, Rec("remove", leave[l].char, ent[leave[l].char]))
                    ELSE LeaveBecomes(l, NoCall)
           /\ LeaveRemove(l) =>
                 /\ LeavesOK'
                 /\ IF In(leave[l].char)
                    THEN LeaveBecomes(l, Rec("offline", leave[l].char, leave[l].ent))
                    ELSE LeaveBecomes(l, NoCall)
           /\ LeaveOffline(l) =>
                 LeavesOK' /\ LeaveBecomes(l, Rec("state", leave[l].char, leave[l].ent))
           /\ LeaveState(l) => LeavesOK' /\ LeaveBecomes(l, Rec("skills", leave[l].char, Absent))
           /\ LeaveSkills(l) \/ LeaveFails(l) => LeavesOK' /\ LeaveBecomes(l, NoCall)
<1> DEFINE c == leave[l].char
           e == leave[l].ent
<1>0. leave[l] \in LeaveRecs /\ EntsOK
  BY TypeParts DEF LeavesOK
<1>1. /\ leave[l].pc # "idle" => c \in Chars
      /\ leave[l].pc \in {"remove", "offline", "state"} => e \in Entity
  BY <1>0, CallFacts
<1>2. NoCall \in LeaveRecs
  BY DEF LeaveRecs
<1>3. \A d \in Chars, pc \in {"get", "skills"} : Rec(pc, d, Absent) \in LeaveRecs
  BY DEF Rec, LeaveRecs, CallsTo
<1>4. \A d \in Chars, pc \in {"remove", "offline", "state"}, x \in Entity :
         Rec(pc, d, x) \in LeaveRecs
  BY DEF Rec, LeaveRecs, CallsAt
<1>5. ASSUME NEW r \in LeaveRecs, leave' = [leave EXCEPT ![l] = r]
      PROVE  LeavesOK' /\ LeaveBecomes(l, r)
  BY <1>5, LeaveMoves DEF LeaveBecomes
<1>6. \A pc, x : Goto(leave, l, pc, x) = [leave EXCEPT ![l] = Rec(pc, c, x)]
  BY GotoLeave DEF Rec
<1>7. ASSUME NEW d \in Chars, leave' = [leave EXCEPT ![l] = Call(d, "get")]
      PROVE  LeavesOK' /\ LeaveBecomes(l, Rec("get", d, Absent))
  BY <1>3, <1>5, <1>7 DEF Call, Rec
<1>8. ASSUME LeaveGet(l)
      PROVE  /\ LeavesOK'
             /\ IF In(c) THEN LeaveBecomes(l, Rec("remove", c, ent[c]))
                ELSE LeaveBecomes(l, NoCall)
  <2>1. /\ leave[l].pc = "get"
        /\ leave' = IF In(c) THEN [leave EXCEPT ![l] = Rec("remove", c, ent[c])]
                    ELSE [leave EXCEPT ![l] = NoCall]
    BY <1>6, <1>8 DEF LeaveGet
  <2>2. In(c) => ent[c] \in Entity
    BY <1>0, <1>1, <2>1 DEF EntsOK, In
  <2> QED BY <1>1, <1>2, <1>4, <1>5, <2>1, <2>2
<1>9. ASSUME LeaveRemove(l)
      PROVE  /\ LeavesOK'
             /\ IF In(c) THEN LeaveBecomes(l, Rec("offline", c, e))
                ELSE LeaveBecomes(l, NoCall)
  <2>1. /\ leave[l].pc = "remove"
        /\ IF In(c) THEN leave' = [leave EXCEPT ![l] = Rec("offline", c, e)]
           ELSE leave' = [leave EXCEPT ![l] = NoCall]
    BY <1>6, <1>9 DEF LeaveRemove
  <2> QED BY <1>1, <1>2, <1>4, <1>5, <2>1
<1>10. ASSUME LeaveOffline(l) PROVE LeavesOK' /\ LeaveBecomes(l, Rec("state", c, e))
  <2>1. leave[l].pc = "offline" /\ leave' = [leave EXCEPT ![l] = Rec("state", c, e)]
    BY <1>6, <1>10 DEF LeaveOffline
  <2> QED BY <1>1, <1>4, <1>5, <2>1
<1>11. ASSUME LeaveState(l) PROVE LeavesOK' /\ LeaveBecomes(l, Rec("skills", c, Absent))
  <2>1. leave[l].pc = "state" /\ leave' = [leave EXCEPT ![l] = Rec("skills", c, Absent)]
    BY <1>6, <1>11 DEF LeaveState
  <2> QED BY <1>1, <1>3, <1>5, <2>1
<1>12. ASSUME LeaveSkills(l) \/ LeaveFails(l) PROVE LeavesOK' /\ LeaveBecomes(l, NoCall)
  <2>1. leave' = [leave EXCEPT ![l] = NoCall]
    BY <1>12 DEF LeaveSkills, LeaveFails
  <2> QED BY <1>2, <1>5, <2>1
<1> QED BY <1>1, <1>7, <1>8, <1>9, <1>10, <1>11, <1>12

\* A change of an entity in the world.
LEMMA EntChanges ==
    ASSUME TypeInv, NEW c \in Chars, NEW e \in Entity, e.statusPoint + e.stat <= 1,
           ent' = [ent EXCEPT ![c] = e]
    PROVE  /\ EntsOK' /\ In(c)' /\ \A d \in Chars : d # c => ent'[d] = ent[d]
<1>1. EntsOK
  BY TypeParts
<1>2. \A d \in Chars : ent'[d] = IF d = c THEN e ELSE ent[d]
  BY <1>1 DEF EntsOK
<1>3. ent' \in [Chars -> Entity \cup {Absent}]
  BY <1>1 DEF EntsOK
<1>4. e # Absent
  BY AbsentAssumption
<1> QED BY <1>1, <1>2, <1>3, <1>4 DEF EntsOK, In

\* What an in-game step does: an entity in the world stays there with its points.
LEMMA InGameType ==
    ASSUME TypeInv, NEW c \in Chars, InGameStep(c)
    PROVE  /\ EntsOK' /\ RowsOK(row') /\ MiscOK'
           /\ \A d \in Chars : (In(d)' <=> In(d)) /\ Progress(row'[d]) = Progress(row[d])
           /\ UNCHANGED rest
<1> DEFINE Good == /\ EntsOK' /\ RowsOK(row') /\ MiscOK'
                   /\ \A d \in Chars : (In(d)' <=> In(d)) /\ Progress(row'[d]) = Progress(row[d])
                   /\ UNCHANGED rest
<1>0. RowsOK(row) /\ EntsOK /\ MiscOK
  BY TypeParts
<1>1. In(c) /\ used' \in Used
  BY SpendType DEF InGameStep, Vitals, Walk, Respawn, AllocateStat, Relocate, WarpPlayer, InGame
<1>2. ent[c] \in Entity /\ ent[c].statusPoint + ent[c].stat <= 1
  BY <1>0, <1>1 DEF EntsOK, In
<1>3. ASSUME NEW e \in Entity, e.statusPoint + e.stat <= 1, ent' = [ent EXCEPT ![c] = e],
             UNCHANGED <<row, rest>>,
             port' \in [char : Chars, map : Maps, cell : Cells] \cup {Absent}
      PROVE  Good
  <2>1. EntsOK' /\ In(c)' /\ \A d \in Chars : d # c => ent'[d] = ent[d]
    BY <1>3, EntChanges
  <2>2. \A d \in Chars : In(d)' <=> In(d)
    BY <1>1, <2>1 DEF In
  <2>3. MiscOK'
    BY <1>0, <1>1, <1>3 DEF MiscOK, rest, histories, Used
  <2> QED BY <1>0, <1>3, <2>1, <2>2, <2>3
<1>4. port \in [char : Chars, map : Maps, cell : Cells] \cup {Absent}
  BY <1>0 DEF MiscOK
<1>5. ASSUME NEW hp \in 0 .. Full, Vitals(c, hp) PROVE Good
  <2> DEFINE e == [ent[c] EXCEPT !.hp = hp]
  <2>1. e \in Entity /\ e.statusPoint = ent[c].statusPoint /\ e.stat = ent[c].stat
    BY <1>2 DEF Entity
  <2>2. ent' = [ent EXCEPT ![c] = e] /\ UNCHANGED <<row, port, rest>>
    BY <1>0, <1>5 DEF Vitals, EntsOK
  <2> HIDE DEF e
  <2> QED BY <1>2, <1>3, <1>4, <2>1, <2>2
<1>6. ASSUME NEW p \in Cells, Walk(c, p) PROVE Good
  <2> DEFINE e == [ent[c] EXCEPT !.cell = p]
  <2>1. e \in Entity /\ e.statusPoint = ent[c].statusPoint /\ e.stat = ent[c].stat
    BY <1>2 DEF Entity
  <2>2. ent' = [ent EXCEPT ![c] = e] /\ UNCHANGED <<row, port, rest>>
    BY <1>0, <1>6 DEF Walk, EntsOK
  <2> HIDE DEF e
  <2> QED BY <1>2, <1>3, <1>4, <2>1, <2>2
<1>7. ASSUME Respawn(c) PROVE Good
  <2> DEFINE e == [ent[c] EXCEPT !.map = SaveMap, !.cell = SaveCell, !.hp = ent[c].max]
  <2>1. e \in Entity /\ e.statusPoint = ent[c].statusPoint /\ e.stat = ent[c].stat
    <3>1. ent[c].max \in 0 .. Full
      BY <1>2, FullAssumption DEF Entity
    <3>2. SaveMap \in Maps /\ SaveCell \in Cells
      BY PlaceAssumption
    <3> QED BY <1>2, <3>1, <3>2 DEF Entity
  <2>2. ent' = [ent EXCEPT ![c] = e] /\ UNCHANGED <<row, port, rest>>
    BY <1>0, <1>7 DEF Respawn, EntsOK
  <2> HIDE DEF e
  <2> QED BY <1>2, <1>3, <1>4, <2>1, <2>2
<1>8. ASSUME AllocateStat(c) PROVE Good
  <2> DEFINE e == [ent[c] EXCEPT !.statusPoint = @ - 1, !.stat = @ + 1]
  <2>1. e \in Entity /\ e.statusPoint + e.stat <= 1
    <3>1. /\ ent[c].statusPoint \in 0 .. 1 /\ ent[c].stat \in 0 .. 1 /\ ent[c].statusPoint > 0
      BY <1>2, <1>8 DEF Entity, AllocateStat
    <3>2. ent[c].statusPoint - 1 = 0 /\ ent[c].stat + 1 = 1
      BY <1>2, <3>1
    <3>3. e = [ent[c] EXCEPT !.statusPoint = 0, !.stat = 1]
      BY <3>2
    <3>4. 0 \in 0 .. 1 /\ 1 \in 0 .. 1 /\ 0 + 1 <= 1
      OBVIOUS
    <3>5. \A x, y \in 0 .. 1 : LET f == [ent[c] EXCEPT !.statusPoint = x, !.stat = y]
                               IN f \in Entity /\ f.statusPoint = x /\ f.stat = y
      BY <1>2 DEF Entity
    <3> DEFINE f == [ent[c] EXCEPT !.statusPoint = 0, !.stat = 1]
    <3>6. f \in Entity /\ f.statusPoint = 0 /\ f.stat = 1
      BY <3>4, <3>5
    <3> HIDE DEF f
    <3>7. f \in Entity /\ f.statusPoint + f.stat <= 1
      BY <3>6
    <3> QED BY <3>3, <3>7 DEF f
  <2>2. ent' = [ent EXCEPT ![c] = e] /\ UNCHANGED <<row, port, rest>>
    BY <1>0, <1>8 DEF AllocateStat, EntsOK
  <2> HIDE DEF e
  <2> QED BY <1>2, <1>3, <1>4, <2>1, <2>2
<1>9. ASSUME NEW m \in Maps, NEW p \in Cells, Relocate(c, m, p) PROVE Good
  <2> DEFINE e == [ent[c] EXCEPT !.map = m, !.cell = p]
  <2>1. e \in Entity /\ e.statusPoint = ent[c].statusPoint /\ e.stat = ent[c].stat
    BY <1>2 DEF Entity
  <2>2. ent' = [ent EXCEPT ![c] = e] /\ UNCHANGED <<row, rest>>
    BY <1>0, <1>9 DEF Relocate, EntsOK
  <2>3. port' \in [char : Chars, map : Maps, cell : Cells]
    BY <1>9 DEF Relocate
  <2> HIDE DEF e
  <2> QED BY <1>2, <1>3, <2>1, <2>2, <2>3
<1>10. ASSUME NEW m \in Maps, NEW p \in Cells, WarpPlayer(c, m, p) PROVE Good
  <2>1. UNCHANGED <<ent, port, rest>> /\ SetPosition(c, m, p)
    BY <1>10 DEF WarpPlayer
  <2>2. RowsOK(row') /\ \A d \in Chars : Progress(row'[d]) = Progress(row[d])
    BY <1>0, <2>1, SetPositionRow
  <2>3. EntsOK' /\ \A d \in Chars : In(d)' <=> In(d)
    BY <1>0, <2>1 DEF EntsOK, In
  <2>4. MiscOK'
    BY <1>0, <1>1, <2>1 DEF MiscOK, rest, histories, Used
  <2> QED BY <2>1, <2>2, <2>3, <2>4
<1> QED BY <1>5, <1>6, <1>7, <1>8, <1>9, <1>10 DEF InGameStep

\* The process ends.
LEMMA DiesDoes ==
    ASSUME TypeInv, Dies
    PROVE  /\ EntsOK' /\ ConnsOK' /\ EntersOK' /\ LeavesOK' /\ FlushOK' /\ RowsOK(row')
           /\ used' \in Used => MiscOK'
           /\ \A c \in Chars : ~In(c)' /\ last'[c] = IF Gone(c) THEN last[c] ELSE Absent
           /\ \A k \in Conns : ~conn'[k].open
           /\ \A f \in Frames : enter'[f] = NoCall
           /\ \A l \in Leaves : leave'[l] = NoCall
           /\ flush'.todo = {} /\ UNCHANGED <<row, online, raced>>
<1>0. RowsOK(row) /\ MiscOK
  BY TypeParts
<1>1. /\ ent' = [c \in Chars |-> Absent] /\ conn' = [k \in Conns |-> NoConn]
      /\ enter' = [f \in Frames |-> NoCall] /\ leave' = [l \in Leaves |-> NoCall]
      /\ flush' = NoFlush /\ port' = Absent
      /\ last' = [c \in Chars |-> IF Gone(c) THEN last[c] ELSE Absent]
      /\ stray' = {} /\ early' = {} /\ UNCHANGED <<row, online, raced>>
  BY DEF Dies, database
<1>2. \A c \in Chars : ~In(c)'
  BY <1>1 DEF In
<1>3. EntsOK'
  BY <1>1, <1>2 DEF EntsOK
<1>4. NoConn \in [open : BOOLEAN, char : Chars \cup {Absent}] /\ ~NoConn.open
  BY DEF NoConn
<1>5. ConnsOK' /\ \A k \in Conns : ~conn'[k].open
  BY <1>1, <1>4 DEF ConnsOK
<1>6. NoCall \in EnterRecs /\ NoCall \in LeaveRecs /\ NoCall.pc = "idle"
  BY CallFacts DEF EnterRecs, LeaveRecs
<1>7. EntersOK' /\ LeavesOK'
  BY <1>1, <1>6 DEF EntersOK, LeavesOK
<1>8. FlushOK' /\ flush'.todo = {}
  BY <1>1 DEF FlushOK, NoFlush
<1>9. last' \in [Chars -> Entity \cup {Absent}]
  BY <1>0, <1>1 DEF MiscOK
<1>10. used' \in Used => MiscOK'
  BY <1>0, <1>1, <1>9 DEF MiscOK, Used
<1> QED BY <1>0, <1>1, <1>2, <1>3, <1>5, <1>7, <1>8, <1>10

\* A connection closes.
LEMMA CloseDoes ==
    ASSUME TypeInv, NEW k \in Conns, OnClose(k)
    PROVE  /\ ConnsOK' /\ LeavesOK' /\ UNCHANGED <<row, online, ent, enter, flush, last, raced, early>>
           /\ conn[k].open /\ \A n \in Conns : conn'[n] = IF n = k THEN NoConn ELSE conn[n]
           /\ stray \subseteq stray' /\ stray' \subseteq Chars
           /\ \A c \in Chars, s \in Slots :
                 enter[<<k, s>>].char = c /\ enter[<<k, s>>].pc \in {"online", "bind"} =>
                     c \in stray'
           /\ \/ conn[k].char = Absent /\ UNCHANGED leave
              \/ /\ conn[k].char \in Chars
                 /\ LeaveBecomes(<<k, "close">>, Rec("get", conn[k].char, Absent))
<1>0. ConnsOK /\ LeavesOK /\ MiscOK
  BY TypeParts
<1>1. /\ conn[k].open /\ conn' = [conn EXCEPT ![k] = NoConn]
      /\ stray' = stray \cup {c \in Chars : \E s \in Slots :
                     /\ enter[<<k, s>>].char = c
                     /\ enter[<<k, s>>].pc \in {"online", "bind"}}
      /\ UNCHANGED <<row, online, ent, enter, flush, port, last, raced, early, used>>
      /\ leave' = IF conn[k].char = Absent THEN leave
                  ELSE [leave EXCEPT ![<<k, "close">>] = Call(conn[k].char, "get")]
  BY DEF OnClose, Closed, database
<1>2. NoConn \in [open : BOOLEAN, char : Chars \cup {Absent}]
  BY DEF NoConn
<1>3. ConnsOK' /\ \A n \in Conns : conn'[n] = IF n = k THEN NoConn ELSE conn[n]
  BY <1>0, <1>1, <1>2 DEF ConnsOK
<1>4. <<k, "close">> \in Leaves
  BY DEF Leaves
<1>5. /\ stray \subseteq stray' /\ stray' \subseteq Chars
      /\ \A c \in Chars, s \in Slots :
            enter[<<k, s>>].char = c /\ enter[<<k, s>>].pc \in {"online", "bind"} => c \in stray'
  BY <1>0, <1>1 DEF MiscOK
<1>6. CASE conn[k].char = Absent
  BY <1>1, <1>3, <1>6, <1>5, TypeKept
<1>7. CASE conn[k].char # Absent
  <2>1. conn[k].char \in Chars
    BY <1>0, <1>7 DEF ConnsOK
  <2>2. leave' = [leave EXCEPT ![<<k, "close">>] = Call(conn[k].char, "get")]
    BY <1>1, <1>7
  <2>3. LeavesOK' /\ LeaveBecomes(<<k, "close">>, Rec("get", conn[k].char, Absent))
    BY <1>4, <2>1, <2>2, LeaveDoes
  <2> QED BY <1>1, <1>3, <1>5, <2>1, <2>3
<1> QED BY <1>6, <1>7

\* Every step keeps the state well formed.
LEMMA TypeStep ==
    ASSUME TypeInv, [Next]_vars
    PROVE  TypeInv'
<1>0. /\ RowsOK(row) /\ EntsOK /\ ConnsOK /\ EntersOK /\ LeavesOK /\ FlushOK /\ MiscOK
  BY TypeParts
<1>a. UNCHANGED used => used' \in Used
  BY <1>0 DEF MiscOK, Used
<1>b. UNCHANGED <<online, port, histories>> /\ used' \in Used => MiscOK'
  BY <1>0 DEF MiscOK, histories, Used
<1>1. ASSUME NEW k \in Conns, Open(k) PROVE TypeInv'
  <2>1. /\ conn' = [conn EXCEPT ![k] = [open |-> TRUE, char |-> Absent]]
        /\ UNCHANGED <<row, online, ent, enter, leave, flush, port, histories, used>>
    BY <1>1 DEF Open, database
  <2>2. ConnsOK'
    BY <1>0, <2>1 DEF ConnsOK
  <2> QED BY <2>1, <2>2, TypeKept, TypeParts
<1>2. ASSUME NEW f \in Frames, NEW c \in Chars, Connect(f, c) PROVE TypeInv'
  <2>1. /\ UNCHANGED <<row, online, ent, conn, leave, flush, port, histories>>
        /\ used' \in Used
    BY <1>2, SpendType DEF Connect, database
  <2> QED BY <1>2, <1>b, <2>1, EnterDoes, TypeKept, TypeParts
<1>3. ASSUME NEW f \in Frames, EnterLoad(f) PROVE TypeInv'
  <2>1. /\ UNCHANGED <<row, online, ent, conn, leave, flush, port, last, stray, raced, used>>
        /\ early' \in {early, early \cup {f}}
    BY <1>3 DEF EnterLoad, Load, database
  <2>2. MiscOK'
    BY <1>0, <2>1 DEF MiscOK
  <2> QED BY <1>3, <2>1, <2>2, EnterDoes, TypeKept, TypeParts
<1>4. ASSUME NEW f \in Frames, EnterSkills(f) PROVE TypeInv'
  <2>1. UNCHANGED <<row, online, ent, conn, leave, flush, port, histories, used>>
    BY <1>4 DEF EnterSkills, database
  <2> QED BY <1>4, <2>1, EnterDoes, TypeKept, TypeParts
<1>5. ASSUME NEW f \in Frames, EnterAdd(f) PROVE TypeInv'
  <2> DEFINE c == enter[f].char
             e == enter[f].ent
  <2>1. /\ enter[f].pc = "add" /\ ent' = [ent EXCEPT ![c] = e]
        /\ stray' \in {stray, stray \cup {c}} /\ early' = early \ {f}
        /\ UNCHANGED <<row, online, conn, leave, flush, port, last, raced, used>>
    BY <1>5 DEF EnterAdd, database
  <2>2. c \in Chars /\ e \in Entity /\ e.stat = 0 /\ EntersOK'
    BY <1>5, <2>1, EnterDoes
  <2>3. e.statusPoint + e.stat <= 1
    BY <2>2 DEF Entity
  <2>4. EntsOK'
    BY <2>1, <2>2, <2>3, EntChanges
  <2>5. MiscOK'
    BY <1>0, <2>1, <2>2 DEF MiscOK
  <2> QED BY <2>1, <2>2, <2>4, <2>5, TypeKept, TypeParts
<1>6. ASSUME NEW f \in Frames, EnterRefused(f) PROVE TypeInv'
  <2>1. /\ UNCHANGED <<row, online, ent, conn, leave, flush, port, last, stray, raced>>
        /\ used' \in Used /\ early' = early \ {f}
    BY <1>6, <1>a, SpendType DEF EnterRefused, database
  <2>2. MiscOK'
    BY <1>0, <2>1 DEF MiscOK, Used
  <2> QED BY <1>6, <2>1, <2>2, EnterDoes, TypeKept, TypeParts
<1>7. ASSUME NEW f \in Frames, EnterOnline(f) PROVE TypeInv'
  <2> DEFINE c == enter[f].char
             e == enter[f].ent
  <2>1. /\ enter[f].pc = "online" /\ UNCHANGED <<ent, conn, leave, flush, port, histories>>
        /\ used' \in Used /\ (SetOnline(c, TRUE, e) \/ UNCHANGED <<row, online>>)
    BY <1>7, <1>a, SpendType DEF EnterOnline, database
  <2>2. c \in Chars /\ e \in Entity /\ EntersOK'
    BY <1>7, <2>1, EnterDoes
  <2>3. RowsOK(row')
    BY <1>0, <2>1, <2>2, SetOnlineRow
  <2>4. online' \in [Chars -> BOOLEAN]
    BY <1>0, <2>1 DEF SetOnline, MiscOK
  <2>5. MiscOK'
    BY <1>0, <2>1, <2>4 DEF MiscOK, histories, Used
  <2> QED BY <2>1, <2>2, <2>3, <2>5, TypeKept, TypeParts
<1>8. ASSUME NEW f \in Frames, EnterBind(f) PROVE TypeInv'
  <2>1. /\ enter[f].pc = "bind"
        /\ conn' \in {conn, [conn EXCEPT ![f[1]].char = enter[f].char]}
        /\ stray' = stray \cup {c \in Chars : c = conn[f[1]].char /\ In(c) /\ ~Held(c)'}
        /\ UNCHANGED <<row, online, ent, leave, flush, port, last, raced, early, used>>
    BY <1>8 DEF EnterBind, database
  <2>2. enter[f].char \in Chars /\ EntersOK'
    BY <1>8, <2>1, EnterDoes
  <2>3. ConnsOK'
    BY <1>0, <2>1, <2>2 DEF ConnsOK
  <2>4. MiscOK'
    <3>1. stray' \subseteq Chars
      BY <1>0, <2>1 DEF MiscOK
    <3> QED BY <1>0, <2>1, <3>1 DEF MiscOK
  <2> QED BY <2>1, <2>2, <2>3, <2>4, TypeKept, TypeParts
<1>9. ASSUME NEW k \in Conns, OnClose(k) PROVE TypeInv'
  <2>1. /\ ConnsOK' /\ LeavesOK' /\ stray' \subseteq Chars
        /\ UNCHANGED <<row, online, ent, enter, flush, port, last, raced, early, used>>
    BY <1>9, CloseDoes DEF OnClose, Closed, database
  <2>2. MiscOK'
    BY <1>0, <2>1 DEF MiscOK
  <2> QED BY <2>1, <2>2, TypeKept, TypeParts
<1>10. ASSUME NEW k \in Conns, Restart(k) PROVE TypeInv'
  <2>1. /\ leave' = [leave EXCEPT ![<<k, "restart">>] = Call(conn[k].char, "get")]
        /\ conn[k].char # Absent
        /\ UNCHANGED <<row, online, ent, conn, enter, flush, port, histories>>
        /\ used' \in Used
    BY <1>10, SpendType DEF Restart, database
  <2>2. conn[k].char \in Chars /\ <<k, "restart">> \in Leaves
    BY <1>0, <2>1 DEF ConnsOK, Leaves
  <2>3. LeavesOK'
    BY <2>1, <2>2, LeaveDoes
  <2>4. MiscOK'
    BY <1>b, <2>1
  <2> QED BY <2>1, <2>3, <2>4, TypeKept, TypeParts
<1>11. ASSUME NEW l \in Leaves, LeaveStep(l) PROVE TypeInv'
  <2> DEFINE c == leave[l].char
             e == leave[l].ent
  <2> USE DEF LeaveStep
  <2>1. LeavesOK' /\ c \in Chars /\ (leave[l].pc \in {"remove", "offline", "state"} => e \in Entity)
    <3>1. leave[l].pc # "idle"
      BY <1>11 DEF LeaveGet, LeaveRemove, LeaveOffline, LeaveState, LeaveSkills, LeaveFails
    <3> QED BY <1>11, <3>1, LeaveDoes
  <2>2. UNCHANGED <<conn, enter, flush, port>> /\ used' \in Used
    BY <1>11, <1>a, SpendType
       DEF LeaveGet, LeaveRemove, LeaveOffline, LeaveState, LeaveSkills, LeaveFails, histories
  <2>3. RowsOK(row') /\ online' \in [Chars -> BOOLEAN]
    <3>1. CASE LeaveOffline(l)
      <4>1. e \in Entity /\ SetOnline(c, FALSE, e)
        BY <2>1, <3>1 DEF LeaveOffline
      <4> QED BY <1>0, <2>1, <4>1, SetOnlineRow DEF SetOnline, MiscOK
    <3>2. CASE LeaveState(l)
      <4>1. e \in Entity /\ SaveState(c, e, e.max) /\ UNCHANGED online
        BY <2>1, <3>2 DEF LeaveState
      <4>2. e.max \in {0, Full}
        BY <4>1 DEF Entity
      <4> QED BY <1>0, <2>1, <4>1, <4>2, SaveStateRow DEF MiscOK
    <3>3. CASE LeaveGet(l) \/ LeaveRemove(l) \/ LeaveSkills(l) \/ LeaveFails(l)
      BY <1>0, <3>3 DEF LeaveGet, LeaveRemove, LeaveSkills, LeaveFails, database, MiscOK
    <3> QED BY <1>11, <3>1, <3>2, <3>3
  <2>4. EntsOK'
    <3>1. CASE UNCHANGED ent
      BY <3>1, TypeKept
    <3>2. CASE ent' = [ent EXCEPT ![c] = Absent]
      <4>1. \A d \in Chars : ent'[d] = IF d = c THEN Absent ELSE ent[d]
        BY <1>0, <3>2 DEF EntsOK
      <4>2. ent' \in [Chars -> Entity \cup {Absent}]
        BY <1>0, <3>2 DEF EntsOK
      <4> QED BY <1>0, <4>1, <4>2 DEF EntsOK, In
    <3> QED BY <1>11, <3>1, <3>2
            DEF LeaveGet, LeaveRemove, LeaveOffline, LeaveState, LeaveSkills, LeaveFails
  <2>5. /\ stray' \subseteq Chars /\ raced' \subseteq Chars /\ early' \subseteq Frames
        /\ last' \in [Chars -> Entity \cup {Absent}]
    <3>1. CASE LeaveRemove(l) /\ In(c)
      <4>1. /\ last' = [last EXCEPT ![c] = ent[c]] /\ raced' \in {raced \cup {c}, raced \ {c}}
            /\ stray' = stray \ {c}
            /\ early' = early \cup {f \in Frames : enter[f].char = c /\ enter[f].pc \in {"skills", "add"}}
        BY <3>1 DEF LeaveRemove
      <4>2. ent[c] \in Entity
        BY <1>0, <2>1, <3>1 DEF EntsOK, In
      <4> QED BY <1>0, <2>1, <4>1, <4>2 DEF MiscOK
    <3>2. CASE LeaveRemove(l) /\ ~In(c)
      BY <1>0, <3>2 DEF LeaveRemove, MiscOK
    <3>3. CASE LeaveFails(l)
      BY <1>0, <3>3 DEF LeaveFails, MiscOK
    <3>4. CASE LeaveGet(l) \/ LeaveOffline(l) \/ LeaveState(l) \/ LeaveSkills(l)
      BY <1>0, <3>4 DEF LeaveGet, LeaveOffline, LeaveState, LeaveSkills, histories, MiscOK
    <3> QED BY <1>11, <3>1, <3>2, <3>3, <3>4
  <2>6. MiscOK'
    BY <1>0, <2>2, <2>3, <2>5 DEF MiscOK, Used
  <2> QED BY <2>1, <2>2, <2>3, <2>4, <2>6, TypeKept, TypeParts
<1>12. ASSUME NEW all \in BOOLEAN, FlushStart(all) PROVE TypeInv'
  <2>1. /\ UNCHANGED <<row, online, ent, conn, enter, leave, port, histories>>
        /\ flush' = [pc |-> "state", all |-> all, todo |-> Snapshot, snap |-> Absent]
        /\ used' \in Used
    BY <1>12, SpendType DEF FlushStart, database
  <2>2. Snapshot \subseteq Snap
    BY <1>0 DEF Snapshot, Snap, EntsOK, In
  <2>3. FlushOK'
    BY <2>1, <2>2 DEF FlushOK
  <2> QED BY <1>b, <2>1, <2>3, TypeKept, TypeParts
<1>13. ASSUME NEW s \in flush.todo, FlushState(s) PROVE TypeInv'
  <2>1. /\ UNCHANGED <<online, ent, conn, enter, leave, port, histories, used>>
        /\ flush' = [flush EXCEPT !.pc = "online", !.snap = s] /\ SaveState(s.char, s.ent, 0)
    BY <1>13 DEF FlushState
  <2>2. s \in Snap /\ s.char \in Chars /\ s.ent \in Entity
    BY <1>0 DEF FlushOK, Snap
  <2>3. FlushOK'
    BY <1>0, <2>1, <2>2 DEF FlushOK
  <2>4. RowsOK(row')
    BY <1>0, <2>1, <2>2, SaveStateRow
  <2> QED BY <2>1, <2>3, <2>4, TypeKept, TypeParts
<1>14. ASSUME FlushOnline PROVE TypeInv'
  <2> DEFINE s == flush.snap
  <2>1. /\ UNCHANGED <<ent, conn, enter, leave, port, histories, used>>
        /\ flush' = [flush EXCEPT !.pc = "state", !.todo = @ \ {flush.snap}, !.snap = Absent]
        /\ SetOnline(s.char, ~flush.all, s.ent) /\ flush.pc = "online"
    BY <1>14 DEF FlushOnline
  <2>2. s.char \in Chars /\ s.ent \in Entity
    BY <1>0, <2>1 DEF FlushOK, Snap
  <2>3. FlushOK'
    BY <1>0, <2>1 DEF FlushOK
  <2>4. RowsOK(row')
    BY <1>0, <2>1, <2>2, SetOnlineRow
  <2>5. MiscOK'
    <3>1. (~flush.all) \in BOOLEAN
      OBVIOUS
    <3>2. online' \in [Chars -> BOOLEAN]
      BY <1>0, <2>1, <3>1 DEF SetOnline, MiscOK
    <3> QED BY <1>0, <2>1, <3>2 DEF MiscOK, histories
  <2> QED BY <2>1, <2>3, <2>4, <2>5, TypeKept, TypeParts
<1>15. ASSUME NEW s \in flush.todo, FlushFails(s) PROVE TypeInv'
  <2>1. /\ UNCHANGED <<row, online, ent, conn, enter, leave, port, histories>> /\ used' \in Used
        /\ flush' = [flush EXCEPT !.pc = "state", !.todo = @ \ {s}, !.snap = Absent]
    BY <1>15, SpendType DEF FlushFails, database
  <2>2. FlushOK'
    BY <1>0, <2>1 DEF FlushOK
  <2> QED BY <1>b, <2>1, <2>2, TypeKept, TypeParts
<1>16. ASSUME FlushEnd PROVE TypeInv'
  <2>1. CASE Dies
    BY <1>16, <1>a, <2>1, DiesDoes, TypeParts DEF FlushEnd
  <2>2. CASE ~Dies
    <3>1. /\ UNCHANGED <<row, online, ent, conn, enter, leave, port, histories, used>>
          /\ flush' = NoFlush
      BY <1>16, <2>2 DEF FlushEnd, database
    <3>2. FlushOK'
      BY <3>1 DEF FlushOK, NoFlush
    <3> QED BY <3>1, <3>2, TypeKept, TypeParts
  <2> QED BY <2>1, <2>2
<1>17. ASSUME RelocateWrite PROVE TypeInv'
  <2>1. /\ UNCHANGED <<ent, conn, enter, leave, flush, online, histories>> /\ used' \in Used
        /\ port' = Absent
    BY <1>17, <1>a, SpendType DEF RelocateWrite, rest
  <2>2. RowsOK(row')
    <3>1. port.char \in Chars /\ port.map \in Maps /\ port.cell \in Cells
      BY <1>0, <1>17 DEF RelocateWrite, MiscOK
    <3> QED BY <1>0, <1>17, <3>1, SetPositionRow DEF RelocateWrite
  <2>3. MiscOK'
    BY <1>0, <2>1 DEF MiscOK, histories, Used
  <2> QED BY <2>1, <2>2, <2>3, TypeKept, TypeParts
<1>18. ASSUME Crash PROVE TypeInv'
  BY <1>18, SpendType, DiesDoes, TypeParts DEF Crash
<1>19. ASSUME NEW c \in Chars, InGameStep(c) PROVE TypeInv'
  <2>1. EntsOK' /\ RowsOK(row') /\ MiscOK' /\ UNCHANGED rest
    BY <1>19, InGameType
  <2>2. UNCHANGED <<conn, enter, leave, flush>>
    BY <2>1 DEF rest
  <2> QED BY <2>1, <2>2, TypeKept, TypeParts
<1>20. CASE UNCHANGED vars
  BY <1>20, TypeKept, TypeParts DEF vars, database
<1> QED BY <1>1, <1>2, <1>3, <1>4, <1>5, <1>6, <1>7, <1>8, <1>9, <1>10, <1>11, <1>12, <1>13,
           <1>14, <1>15, <1>16, <1>17, <1>18, <1>19, <1>20 DEF Next, EnterStep, FlushStep

-----------------------------------------------------------------------------
LEMMA AtIs ==
    ASSUME TypeInv
    PROVE  /\ \A c, pcs : At(enter, c, pcs) <=>
                             \E f \in Frames : enter[f].char = c /\ enter[f].pc \in pcs
           /\ \A c, pcs : At(leave, c, pcs) <=>
                             \E l \in Leaves : leave[l].char = c /\ leave[l].pc \in pcs
<1>1. DOMAIN enter = Frames /\ DOMAIN leave = Leaves
  BY TypeParts DEF EntersOK, LeavesOK
<1> QED BY <1>1 DEF At

\* Someone will remove c: the parts of NoGhost.
Removes(l, c) == leave[l].char = c /\ leave[l].pc \in {"get", "remove"}
Claimed(c) == c \in stray \/ Held(c) \/ \E l \in Leaves : Removes(l, c)
CloseIdle == \A k \in Conns : conn[k].open => leave[<<k, "close">>].pc = "idle"

LEMMA GhostIs ==
    ASSUME TypeInv
    PROVE  GhostInv <=> CloseIdle /\ \A c \in Chars : In(c) => Claimed(c)
<1>1. \A c \in Chars : At(leave, c, {"get", "remove"}) <=> \E l \in Leaves : Removes(l, c)
  BY AtIs DEF Removes
<1> QED BY <1>1 DEF GhostInv, NoGhost, CloseIdle, Claimed

\* A connection that holds c keeps it when it stays as it is, with the handlers that
\* are past AddEntity.
Past(f, c) == enter[f].char = c /\ enter[f].pc \in {"online", "bind"}
LEMMA HeldKept ==
    ASSUME NEW c \in Chars, \A f \in Frames : Past(f, c) => Past(f, c)',
           \A k \in Conns : conn[k].open => conn'[k] = conn[k]
    PROVE  Held(c) => Held(c)'
<1> SUFFICES ASSUME NEW k \in Conns, Holds(k, c) PROVE Holds(k, c)'
  BY DEF Held
<1>1. conn[k].open /\ conn'[k] = conn[k]
  BY DEF Holds
<1>2. ASSUME NEW s \in Slots, Past(<<k, s>>, c) PROVE Past(<<k, s>>, c)'
  BY <1>2 DEF Frames
<1> QED BY <1>1, <1>2 DEF Holds, Past

LEMMA GhostKept ==
    ASSUME TypeInv, TypeInv', GhostInv,
           \A c \in Chars : \/ In(c)' => In(c) /\ (Claimed(c) => Claimed(c)')
                            \/ Claimed(c)',
           CloseIdle'
    PROVE  GhostInv'
<1>1. CloseIdle /\ \A c \in Chars : In(c) => Claimed(c)
  BY GhostIs
<1>2. GhostInv' <=> CloseIdle' /\ \A c \in Chars : In(c)' => Claimed(c)'
  <2>1. \A c \in Chars : At(leave, c, {"get", "remove"})' <=> \E l \in Leaves : Removes(l, c)'
    <3>1. DOMAIN leave' = Leaves
      BY TypeParts DEF LeavesOK
    <3> QED BY <3>1 DEF At, Removes
  <2> QED BY <2>1 DEF GhostInv, NoGhost, CloseIdle, Claimed
<1> QED BY <1>1, <1>2

\* A CZ_ENTER leaves nobody behind.
LEMMA GhostEnter ==
    ASSUME TypeInv, TypeInv', GhostInv, NEW f \in Frames,
           EnterStep(f) \/ \E c \in Chars : Connect(f, c)
    PROVE  GhostInv'
<1> DEFINE c == enter[f].char
           k == f[1]
<1>0. /\ CloseIdle /\ k \in Conns /\ f[2] \in Slots /\ f = <<k, f[2]>>
      /\ conn \in [Conns -> [open : BOOLEAN, char : Chars \cup {Absent}]]
      /\ ent \in [Chars -> Entity \cup {Absent}]
  BY GhostIs, TypeParts DEF Frames, ConnsOK, EntsOK
<1>1. UNCHANGED leave
  BY DEF EnterStep, Connect, EnterLoad, Load, EnterSkills, EnterAdd, EnterRefused, EnterOnline,
         EnterBind
<1>2. \A d \in Chars, l \in Leaves : Removes(l, d) => Removes(l, d)'
  BY <1>1 DEF Removes
<1>3. ASSUME UNCHANGED <<conn, ent, stray>>,
             \A d \in Chars, g \in Frames : Past(g, d) => Past(g, d)'
      PROVE  GhostInv'
  <2>1. CloseIdle' /\ \A d \in Chars : In(d)' => In(d)
    BY <1>0, <1>1, <1>3 DEF CloseIdle, In
  <2>2. \A d \in Chars : Claimed(d) => Claimed(d)'
    BY <1>2, <1>3, HeldKept DEF Claimed
  <2> QED BY <2>1, <2>2, GhostKept
<1>4. ASSUME NEW d \in Chars, Connect(f, d) PROVE GhostInv'
  <2>1. UNCHANGED <<conn, ent, stray>> /\ enter[f].pc = "idle"
    BY <1>4 DEF Connect, histories, Running
  <2>2. \A g \in Frames : g # f => enter'[g] = enter[g]
    BY <1>4, EnterDoes DEF EnterBecomes
  <2> QED BY <1>3, <2>1, <2>2 DEF Past
<1>5. ASSUME EnterLoad(f) \/ EnterSkills(f) \/ EnterRefused(f) PROVE GhostInv'
  <2>1. UNCHANGED <<conn, ent, stray>> /\ enter[f].pc \notin {"online", "bind"}
    BY <1>5 DEF EnterLoad, Load, EnterSkills, EnterRefused, histories
  <2>2. \A g \in Frames : g # f => enter'[g] = enter[g]
    BY <1>5, EnterDoes DEF EnterBecomes
  <2> QED BY <1>3, <2>1, <2>2 DEF Past
<1>6. ASSUME EnterOnline(f) PROVE GhostInv'
  <2>1. UNCHANGED <<conn, ent, stray>>
    BY <1>6 DEF EnterOnline, histories
  <2>2. \A g \in Frames : enter'[g] = IF g = f THEN Rec("bind", c, Absent) ELSE enter[g]
    BY <1>6, EnterDoes DEF EnterBecomes
  <2> QED BY <1>3, <2>1, <2>2 DEF Past, Rec
<1>7. ASSUME EnterAdd(f) PROVE GhostInv'
  <2>1. /\ enter[f].pc = "add" /\ UNCHANGED conn
        /\ ent' = [ent EXCEPT ![c] = enter[f].ent]
        /\ stray' = IF enter[f].ent.cell \in OffMap \/ ~conn[k].open THEN stray \cup {c} ELSE stray
    BY <1>7 DEF EnterAdd
  <2>2. \A g \in Frames : g # f => enter'[g] = enter[g]
    BY <1>7, EnterDoes DEF EnterBecomes
  <2>3. \A d \in Chars, g \in Frames : Past(g, d) => Past(g, d)'
    BY <2>1, <2>2 DEF Past
  <2>4. \A d \in Chars : Claimed(d) => Claimed(d)'
    BY <1>2, <2>1, <2>3, HeldKept DEF Claimed
  <2>5. PICK b \in Chars : b = c
    BY <2>1, EnterDoes
  <2>6. Claimed(b)'
    <3>1. CASE enter[f].ent.cell \in OffMap \/ ~conn[k].open
      <4>1. b \in stray'
        BY <2>1, <2>5, <3>1
      <4> QED BY <4>1 DEF Claimed
    <3>2. CASE ~(enter[f].ent.cell \in OffMap) /\ conn[k].open
      <4>1. enter'[f] = Rec("online", b, enter[f].ent)
        BY <1>7, <2>5, <3>2, EnterDoes DEF EnterBecomes
      <4>2. conn'[k].open /\ enter'[<<k, f[2]>>].char = b /\ enter'[<<k, f[2]>>].pc = "online"
        BY <1>0, <2>1, <3>2, <4>1 DEF Rec
      <4>3. \E n \in Conns : Holds(n, b)'
        BY <1>0, <4>2 DEF Holds
      <4> QED BY <4>3 DEF Claimed, Held
    <3> QED BY <3>1, <3>2
  <2>7. \A d \in Chars : d # b => (In(d)' => In(d))
    BY <1>0, <2>1, <2>5 DEF In
  <2>8. CloseIdle'
    BY <1>0, <1>1, <2>1 DEF CloseIdle
  <2> QED BY <2>4, <2>6, <2>7, <2>8, GhostKept
<1>8. ASSUME EnterBind(f) PROVE GhostInv'
  <2>1. /\ enter[f].pc = "bind" /\ UNCHANGED ent
        /\ conn' = IF conn[k].open THEN [conn EXCEPT ![k].char = c] ELSE conn
        /\ stray' = stray \cup {d \in Chars : d = conn[k].char /\ In(d) /\ ~Held(d)'}
    BY <1>8 DEF EnterBind
  <2>2. /\ \A n \in Conns : n # k => conn'[n] = conn[n]
        /\ conn'[k].open = conn[k].open /\ (conn[k].open => conn'[k].char = c)
    BY <1>0, <2>1
  <2>3. \A g \in Frames : g # f => enter'[g] = enter[g]
    BY <1>8, EnterDoes DEF EnterBecomes
  <2>4. ASSUME NEW d \in Chars, Held(d), In(d) PROVE d \in stray' \/ Held(d)'
    <3>1. PICK n \in Conns : Holds(n, d)
      BY <2>4 DEF Held
    <3>2. CASE n # k
      <4>1. \A s \in Slots : enter'[<<n, s>>] = enter[<<n, s>>]
        BY <1>0, <2>3, <3>2 DEF Frames
      <4>2. Holds(n, d)'
        BY <2>2, <3>1, <3>2, <4>1 DEF Holds
      <4> QED BY <4>2 DEF Held
    <3>3. CASE n = k /\ d = conn[k].char
      BY <2>1, <2>4, <3>3
    <3>4. CASE n = k /\ d # conn[k].char
      <4>1. PICK s \in Slots : enter[<<k, s>>].char = d /\ enter[<<k, s>>].pc \in {"online", "bind"}
        BY <3>1, <3>4 DEF Holds
      <4>2. conn[k].open
        BY <3>1, <3>4 DEF Holds
      <4>3. CASE <<k, s>> = f
        BY <1>0, <2>2, <4>1, <4>2, <4>3 DEF Held, Holds
      <4>4. CASE <<k, s>> # f
        <5>1. enter'[<<k, s>>] = enter[<<k, s>>]
          BY <1>0, <2>3, <4>4 DEF Frames
        <5> QED BY <1>0, <2>2, <4>1, <4>2, <5>1 DEF Held, Holds
      <4> QED BY <4>3, <4>4
    <3> QED BY <3>2, <3>3, <3>4
  <2>5. \A d \in Chars : In(d)' => In(d)
    BY <2>1 DEF In
  <2>6. \A d \in Chars : In(d) /\ Claimed(d) => Claimed(d)'
    BY <1>2, <2>1, <2>4 DEF Claimed
  <2>7. CloseIdle'
    BY <1>0, <1>1, <2>2 DEF CloseIdle
  <2>8. \A d \in Chars : In(d) => Claimed(d)
    BY GhostIs
  <2> QED BY <2>5, <2>6, <2>7, <2>8, GhostKept
<1> QED BY <1>4, <1>5, <1>6, <1>7, <1>8 DEF EnterStep

\* Nor does a LeaveMap, or the close or CZ_RESTART that calls it.
LEMMA GhostLeave ==
    ASSUME TypeInv, TypeInv', GhostInv,
           \/ \E l \in Leaves : LeaveStep(l)
           \/ \E k \in Conns : Open(k) \/ OnClose(k) \/ Restart(k)
    PROVE  GhostInv'
<1>0. /\ CloseIdle /\ conn \in [Conns -> [open : BOOLEAN, char : Chars \cup {Absent}]]
      /\ ent \in [Chars -> Entity \cup {Absent}]
      /\ \A n \in Conns : <<n, "close">> \in Leaves /\ <<n, "restart">> \in Leaves
      /\ NoCall.pc = "idle"
  BY GhostIs, TypeParts, CallFacts DEF ConnsOK, EntsOK, Leaves
<1>1. ASSUME NEW l \in Leaves, LeaveStep(l) PROVE GhostInv'
  <2> DEFINE c == leave[l].char
  <2> USE DEF LeaveStep
  <2>1. UNCHANGED <<conn, enter>> /\ leave[l].pc # "idle"
    BY <1>1 DEF LeaveGet, LeaveRemove, LeaveOffline, LeaveState, LeaveSkills, LeaveFails
  <2>2. c \in Chars
    BY <2>1, LeaveDoes
  <2>3. \A n \in Leaves : n # l => leave'[n] = leave[n]
    BY <1>1, LeaveDoes DEF LeaveBecomes
  <2>4. CloseIdle'
    BY <1>0, <2>1, <2>3 DEF CloseIdle
  <2>5. \A d \in Chars : Held(d) => Held(d)'
    BY <2>1, HeldKept DEF Past
  <2>6. \A d \in Chars, n \in Leaves : d # c \/ n # l => (Removes(n, d) => Removes(n, d)')
    BY <2>3 DEF Removes
  <2>7. ASSUME NEW d \in Chars
        PROVE  Claimed(d)' \/ (In(d)' => In(d) /\ (Claimed(d) => Claimed(d)'))
    <3>1. (d # c => (d \in stray => d \in stray')) /\ (In(d)' => In(d))
      BY <1>0, <1>1, <2>2 DEF LeaveGet, LeaveRemove, LeaveOffline, LeaveState, LeaveSkills, LeaveFails,
                              histories, In
    <3>2. CASE d # c
      BY <2>5, <2>6, <3>1, <3>2 DEF Claimed
    <3>3. CASE d = c /\ LeaveRemove(l)
      <4>1. ~In(d)'
        BY <1>0, <2>2, <3>3 DEF LeaveRemove, In
      <4> QED BY <4>1
    <3>4. CASE d = c /\ LeaveGet(l)
      <4>1. CASE In(d)
        <5>1. leave'[l] = Rec("remove", d, ent[d])
          BY <3>4, <4>1, LeaveDoes DEF LeaveBecomes
        <5>2. Removes(l, d)'
          BY <5>1 DEF Removes, Rec
        <5> QED BY <5>2 DEF Claimed
      <4>2. CASE ~In(d)
        BY <3>1, <3>4, <4>2
      <4> QED BY <4>1, <4>2
    <3>5. CASE d = c /\ (LeaveOffline(l) \/ LeaveState(l) \/ LeaveSkills(l) \/ LeaveFails(l))
      <4>1. leave[l].pc \notin {"get", "remove"} /\ UNCHANGED stray
        BY <3>5 DEF LeaveOffline, LeaveState, LeaveSkills, LeaveFails, histories
      <4>2. \A n \in Leaves : Removes(n, d) => Removes(n, d)'
        BY <2>6, <4>1 DEF Removes
      <4> QED BY <2>5, <3>1, <4>1, <4>2 DEF Claimed
    <3> QED BY <1>1, <3>2, <3>3, <3>4, <3>5
  <2> QED BY <2>4, <2>7, GhostKept
<1>2. ASSUME NEW k \in Conns, Open(k) PROVE GhostInv'
  <2>1. /\ ~conn[k].open /\ Quiet(k) /\ UNCHANGED <<ent, enter, leave, stray>>
        /\ \A n \in Conns : n # k => conn'[n] = conn[n]
    BY <1>0, <1>2 DEF Open, histories
  <2>2. leave[<<k, "close">>].pc = "idle"
    BY <1>0, <2>1 DEF Quiet, Running
  <2>3. CloseIdle'
    BY <1>0, <2>1, <2>2 DEF CloseIdle
  <2>4. \A d \in Chars : Held(d) => Held(d)'
    BY <2>1, HeldKept DEF Past
  <2>5. \A d \in Chars : (In(d)' => In(d)) /\ (Claimed(d) => Claimed(d)')
    BY <2>1, <2>4 DEF Claimed, Removes, In
  <2> QED BY <2>3, <2>5, GhostIs, GhostKept
<1>3. ASSUME NEW k \in Conns, OnClose(k) PROVE GhostInv'
  <2> DEFINE c == conn[k].char
             l == <<k, "close">>
  <2>1. /\ conn[k].open /\ \A n \in Conns : conn'[n] = IF n = k THEN NoConn ELSE conn[n]
        /\ stray \subseteq stray' /\ UNCHANGED <<ent, enter>>
        /\ \/ c = Absent /\ UNCHANGED leave
           \/ c \in Chars /\ LeaveBecomes(l, Rec("get", c, Absent))
    BY <1>3, CloseDoes
  <2>2. l \in Leaves /\ leave[l].pc = "idle" /\ ~NoConn.open
    BY <1>0, <2>1 DEF CloseIdle, NoConn
  <2>3. \A n \in Leaves : n # l => leave'[n] = leave[n]
    BY <2>1 DEF LeaveBecomes
  <2>4. CloseIdle'
    BY <1>0, <2>1, <2>2, <2>3 DEF CloseIdle
  <2>5. ASSUME NEW d \in Chars, NEW n \in Leaves, Removes(n, d) PROVE Removes(n, d)'
    BY <2>2, <2>3, <2>5 DEF Removes
  <2>6. ASSUME NEW d \in Chars, Held(d) PROVE Claimed(d)'
    <3>1. PICK n \in Conns : Holds(n, d)
      BY <2>6 DEF Held
    <3>2. CASE n # k
      BY <2>1, <3>1, <3>2 DEF Claimed, Held, Holds
    <3>3. CASE n = k /\ d = c
      <4>1. leave'[l] = Rec("get", d, Absent)
        BY <2>1, <2>2, <3>3, CallFacts DEF LeaveBecomes
      <4>2. Removes(l, d)'
        BY <4>1 DEF Removes, Rec
      <4> QED BY <2>2, <4>2 DEF Claimed
    <3>4. CASE n = k /\ d # c
      <4>1. d \in stray'
        BY <1>3, <3>1, <3>4, CloseDoes DEF Holds
      <4> QED BY <4>1 DEF Claimed
    <3> QED BY <3>2, <3>3, <3>4
  <2>7. \A d \in Chars : (In(d)' => In(d)) /\ (Claimed(d) => Claimed(d)')
    BY <2>1, <2>5, <2>6 DEF Claimed, In
  <2> QED BY <2>4, <2>7, GhostIs, GhostKept
<1>4. ASSUME NEW k \in Conns, Restart(k) PROVE GhostInv'
  <2> DEFINE l == <<k, "restart">>
  <2>1. /\ conn[k].open /\ conn[k].char # Absent /\ leave[l].pc = "idle"
        /\ leave' = [leave EXCEPT ![l] = Call(conn[k].char, "get")]
        /\ UNCHANGED <<conn, ent, enter, stray>>
    BY <1>4 DEF Restart, histories, Running
  <2>2. conn[k].char \in Chars /\ l \in Leaves
    BY <1>0, <2>1
  <2>3. \A n \in Leaves : n # l => leave'[n] = leave[n]
    BY <2>1, <2>2, LeaveDoes DEF LeaveBecomes
  <2>4. CloseIdle'
    BY <1>0, <2>1, <2>3 DEF CloseIdle
  <2>5. \A d \in Chars, n \in Leaves : Removes(n, d) => Removes(n, d)'
    BY <2>1, <2>3 DEF Removes
  <2>6. \A d \in Chars : Held(d) => Held(d)'
    BY <2>1, HeldKept DEF Past
  <2>7. \A d \in Chars : (In(d)' => In(d)) /\ (Claimed(d) => Claimed(d)')
    BY <2>1, <2>5, <2>6 DEF Claimed, In
  <2> QED BY <2>4, <2>7, GhostIs, GhostKept
<1> QED BY <1>1, <1>2, <1>3, <1>4

\* No step leaves an entity behind.
LEMMA GhostStep ==
    ASSUME TypeInv, TypeInv', GhostInv, [Next]_vars
    PROVE  GhostInv'
<1>0. CloseIdle
  BY GhostIs
<1>1. ASSUME UNCHANGED <<conn, enter, leave, stray>>, \A d \in Chars : In(d)' => In(d)
      PROVE  GhostInv'
  <2>1. CloseIdle'
    BY <1>0, <1>1 DEF CloseIdle
  <2>2. \A d \in Chars : Held(d) => Held(d)'
    BY <1>1, HeldKept DEF Past
  <2>3. \A d \in Chars : Claimed(d) => Claimed(d)'
    BY <1>1, <2>2 DEF Claimed, Removes
  <2> QED BY <1>1, <2>1, <2>3, GhostKept
<1>2. ASSUME Dies PROVE GhostInv'
  <2>1. CloseIdle' /\ \A d \in Chars : ~In(d)'
    BY <1>2, DiesDoes DEF CloseIdle
  <2> QED BY <2>1, GhostKept
<1>3. ASSUME NEW c \in Chars, InGameStep(c) PROVE GhostInv'
  BY <1>1, <1>3, InGameType DEF rest, histories
<1>4. ASSUME \/ \E all \in BOOLEAN : FlushStart(all)
             \/ FlushStep /\ ~Dies
             \/ RelocateWrite
             \/ UNCHANGED vars
      PROVE  GhostInv'
  <2>1. UNCHANGED <<conn, enter, leave, stray, ent>>
    BY <1>4 DEF FlushStart, FlushStep, FlushState, FlushOnline, FlushFails, FlushEnd, RelocateWrite,
                rest, histories, vars
  <2> QED BY <1>1, <2>1 DEF In
<1>5. Crash => Dies
  BY DEF Crash
<1> QED BY <1>2, <1>3, <1>4, <1>5, GhostEnter, GhostLeave DEF Next

-----------------------------------------------------------------------------
\* A step that leaves an ended session of c as it is.
LEMMA SavedFrame ==
    ASSUME NEW c \in Chars, Awaited(c),
           Away(c)' => Away(c) /\ last'[c] = last[c],
           Away(c)' => /\ Flushes(c)' => Flushes(c)
                       /\ online'[c] = online[c] /\ Progress(row'[c]) = Progress(row[c])
                       /\ \A l \in Leaves : Writes(l, c) \/ Writes(l, c)' => leave'[l] = leave[l]
                       /\ \A f \in Frames : EnterSafe(f, c) => EnterSafe(f, c)'
    PROVE  Awaited(c)'
<1> SUFFICES ASSUME Away(c)'
             PROVE  /\ ~Flushes(c)'
                    /\ \A l, n \in Leaves : Writes(l, c)' /\ Writes(n, c)' => l = n
                    /\ \A l \in Leaves : Writes(l, c)' => WriteSafe(l, c)'
                    /\ (\A l \in Leaves : ~Writes(l, c)') => Kept(c)'
                    /\ \A f \in Frames : EnterSafe(f, c)'
  BY DEF Awaited
<1>1. /\ Away(c) /\ last'[c] = last[c]
      /\ Flushes(c)' => Flushes(c)
      /\ online'[c] = online[c] /\ Progress(row'[c]) = Progress(row[c])
      /\ \A l \in Leaves : Writes(l, c) \/ Writes(l, c)' => leave'[l] = leave[l]
      /\ \A f \in Frames : EnterSafe(f, c) => EnterSafe(f, c)'
  OBVIOUS
<1>2. \A l \in Leaves : Writes(l, c)' <=> Writes(l, c)
  BY <1>1 DEF Writes
<1>3. ASSUME NEW l \in Leaves, Writes(l, c)' PROVE WriteSafe(l, c)'
  <2>1. WriteSafe(l, c) /\ leave'[l] = leave[l]
    BY <1>1, <1>2, <1>3 DEF Awaited
  <2> QED BY <1>1, <2>1 DEF WriteSafe, Progress
<1>4. Kept(c) => Kept(c)'
  BY <1>1 DEF Kept, Progress
<1> QED BY <1>1, <1>2, <1>3, <1>4 DEF Awaited

\* What a CZ_ENTER holds of c stays what the last session left.
LEMMA EnterSafeKept ==
    ASSUME NEW c \in Chars, NEW f \in Frames, EnterSafe(f, c), last'[c] = last[c],
           \/ enter'[f].char # c
           \/ enter'[f].pc \notin {"skills", "add", "online"}
           \/ enter'[f] = enter[f] /\ (f \in early => f \in early')
           \/ /\ enter[f].pc = "skills" /\ enter'[f].pc = "add" /\ enter'[f].char = enter[f].char
              /\ enter'[f].ent = enter[f].ent /\ (f \in early => f \in early')
    PROVE  EnterSafe(f, c)'
BY DEF EnterSafe, Progress

\* Nobody but the steps of EnterAdd brings a character into the world, and only LeaveMap
\* and the end of the process take one out.
LEMMA SavedEnter ==
    ASSUME TypeInv, NEW c \in Chars, Awaited(c), NEW f \in Frames,
           EnterStep(f) \/ \E d \in Chars : Connect(f, d)
    PROVE  Awaited(c)'
<1> DEFINE d == enter[f].char
<1>0. RowsOK(row) /\ EntsOK /\ MiscOK
  BY TypeParts
<1>1. UNCHANGED <<leave, flush, last, raced>>
  BY DEF EnterStep, Connect, EnterLoad, Load, EnterSkills, EnterAdd, EnterRefused, EnterOnline,
         EnterBind, histories
<1>2. \A l \in Leaves : leave'[l] = leave[l]
  BY <1>1
<1>3. Flushes(c)' => Flushes(c)
  BY <1>1 DEF Flushes
<1>4. ASSUME NEW g \in Frames, g # f, EnterSafe(g, c) PROVE EnterSafe(g, c)'
  <2>1. enter'[g] = enter[g]
    BY <1>4, EnterDoes DEF EnterStep, EnterBecomes
  <2>2. g \in early => g \in early'
    BY <1>4 DEF EnterStep, Connect, EnterLoad, Load, EnterSkills, EnterAdd, EnterRefused, EnterOnline,
                EnterBind, histories
  <2> QED BY <1>1, <1>4, <2>1, <2>2, EnterSafeKept
<1>5. ASSUME UNCHANGED <<ent, row, online>>, EnterSafe(f, c) => EnterSafe(f, c)' PROVE Awaited(c)'
  <2>1. Away(c)' => Away(c) /\ last'[c] = last[c]
    BY <1>1, <1>5 DEF Away, In
  <2> QED BY <1>2, <1>3, <1>4, <1>5, <2>1, SavedFrame
<1>6. ASSUME NEW b \in Chars, Connect(f, b) PROVE Awaited(c)'
  <2>1. UNCHANGED <<ent, row, online>>
    BY <1>6 DEF Connect, database
  <2>2. enter'[f] = Rec("load", b, Absent)
    BY <1>6, EnterDoes DEF EnterBecomes
  <2>3. EnterSafe(f, c) => EnterSafe(f, c)'
    BY <1>1, <2>2, EnterSafeKept DEF Rec
  <2> QED BY <1>5, <2>1, <2>3
<1>7. ASSUME EnterLoad(f) PROVE Awaited(c)'
  <2>1. /\ UNCHANGED <<ent, row, online>>
        /\ f \notin early' => f \notin early /\ ~At(leave, d, {"offline", "state"})
    BY <1>7 DEF EnterLoad, Load, database
  <2>2. enter'[f] = Rec("skills", d, row[d])
    BY <1>7, EnterDoes DEF EnterBecomes
  <2>3. CASE ~Away(c)
    <3>1. ~Away(c)'
      BY <1>1, <2>1, <2>3 DEF Away, In
    <3> QED BY <3>1 DEF Awaited
  <2>4. CASE Away(c)
    <3>1. ASSUME d = c, f \notin early' PROVE Progress(row[c]) = Progress(last[c])
      <4>1. \A l \in Leaves : Writes(l, c) => leave[l].pc = "skills"
        BY <2>1, <3>1, AtIs DEF Writes
      <4>2. CASE \A l \in Leaves : ~Writes(l, c)
        BY <2>4, <4>2 DEF Awaited, Kept
      <4>3. ASSUME NEW l \in Leaves, Writes(l, c) PROVE Progress(row[c]) = Progress(last[c])
        BY <2>4, <4>1, <4>3 DEF Awaited, WriteSafe
      <4> QED BY <4>2, <4>3
    <3>2. EnterSafe(f, c)'
      <4>1. /\ enter'[f].char = d /\ enter'[f].pc = "skills" /\ enter'[f].ent = row[d]
        BY <2>2 DEF Rec
      <4>2. CASE d # c
        BY <4>1, <4>2 DEF EnterSafe
      <4>3. CASE d = c /\ f \in early'
        BY <4>1, <4>3 DEF EnterSafe
      <4>4. CASE d = c /\ f \notin early'
        <5>1. Progress(row[c]) = Progress(last'[c])
          BY <1>1, <3>1, <4>4
        <5> QED BY <4>1, <4>4, <5>1 DEF EnterSafe, Progress
      <4> QED BY <4>2, <4>3, <4>4
    <3> QED BY <1>5, <2>1, <3>2
  <2> QED BY <2>3, <2>4
<1>8. ASSUME EnterSkills(f) PROVE Awaited(c)'
  <2>1. UNCHANGED <<ent, row, online, early>> /\ enter[f].pc = "skills"
    BY <1>8 DEF EnterSkills, database, histories
  <2>2. enter'[f] = Rec("add", d, enter[f].ent)
    BY <1>8, EnterDoes DEF EnterBecomes
  <2>3. EnterSafe(f, c) => EnterSafe(f, c)'
    BY <1>1, <2>1, <2>2, EnterSafeKept DEF Rec
  <2> QED BY <1>5, <2>1, <2>3
<1>9. ASSUME EnterRefused(f) \/ EnterBind(f) PROVE Awaited(c)'
  <2>1. UNCHANGED <<ent, row, online>>
    BY <1>9 DEF EnterRefused, EnterBind, database
  <2>2. enter'[f].pc = "idle"
    BY <1>9, EnterDoes, CallFacts DEF EnterBecomes
  <2>3. EnterSafe(f, c) => EnterSafe(f, c)'
    BY <1>1, <2>2, EnterSafeKept
  <2> QED BY <1>5, <2>1, <2>3
<1>10. ASSUME EnterAdd(f) PROVE Awaited(c)'
  <2>1. /\ enter[f].pc = "add" /\ UNCHANGED <<row, online>>
        /\ ent' = [ent EXCEPT ![d] = enter[f].ent]
    BY <1>10 DEF EnterAdd, database
  <2>2. d \in Chars /\ enter[f].ent \in Entity
    BY <2>1, EnterDoes
  <2>3. CASE d = c
    <3>1. In(c)'
      BY <1>0, <2>1, <2>2, <2>3, CallFacts DEF EntsOK, In
    <3> QED BY <3>1 DEF Awaited, Away
  <2>4. CASE d # c
    <3>1. Away(c)' => Away(c) /\ last'[c] = last[c]
      BY <1>0, <1>1, <2>1, <2>2, <2>4 DEF EntsOK, Away, In
    <3>2. enter'[f] \in {NoCall, Rec("online", d, enter[f].ent)}
      BY <1>10, EnterDoes DEF EnterBecomes
    <3>3. EnterSafe(f, c)'
      BY <2>4, <3>2, CallFacts DEF EnterSafe, Rec
    <3> QED BY <1>2, <1>3, <1>4, <2>1, <3>1, <3>3, SavedFrame
  <2> QED BY <2>3, <2>4
<1>11. ASSUME EnterOnline(f) PROVE Awaited(c)'
  <2>1. /\ enter[f].pc = "online" /\ UNCHANGED ent
        /\ SetOnline(d, TRUE, enter[f].ent) \/ UNCHANGED <<row, online>>
    BY <1>11 DEF EnterOnline, database
  <2>2. d \in Chars /\ enter[f].ent \in Entity
    BY <2>1, EnterDoes
  <2>3. Away(c)' => Away(c) /\ last'[c] = last[c]
    BY <1>1, <2>1 DEF Away, In
  <2>4. CASE d = c
    <3>1. ~Away(c)
      BY <2>1, <2>4 DEF Awaited, EnterSafe
    <3> QED BY <2>3, <3>1 DEF Awaited
  <2>5. CASE d # c
    <3>1. online'[c] = online[c]
      BY <1>0, <2>1, <2>2, <2>5 DEF SetOnline, MiscOK
    <3>2. Progress(row'[c]) = Progress(row[c])
      BY <1>0, <2>1, <2>2, SetOnlineRow
    <3>3. enter'[f] = Rec("bind", d, Absent)
      BY <1>11, EnterDoes DEF EnterBecomes
    <3>4. EnterSafe(f, c)'
      BY <2>5, <3>3 DEF EnterSafe, Rec
    <3> QED BY <1>2, <1>3, <1>4, <2>3, <3>1, <3>2, <3>4, SavedFrame
  <2> QED BY <2>4, <2>5
<1> QED BY <1>6, <1>7, <1>8, <1>9, <1>10, <1>11 DEF EnterStep

\* LeaveMap saves what it removed, unless something crosses it.
LEMMA SavedLeave ==
    ASSUME TypeInv, NEW c \in Chars, Awaited(c), NEW l \in Leaves, LeaveStep(l)
    PROVE  Awaited(c)'
<1> DEFINE d == leave[l].char
           e == leave[l].ent
<1>0. RowsOK(row) /\ EntsOK /\ MiscOK
  BY TypeParts
<1>1. UNCHANGED <<enter, flush>>
  BY DEF LeaveStep, LeaveGet, LeaveRemove, LeaveOffline, LeaveState, LeaveSkills, LeaveFails
<1>2. \A n \in Leaves : n # l => leave'[n] = leave[n]
  BY LeaveDoes DEF LeaveStep, LeaveBecomes
<1>3. Flushes(c)' => Flushes(c)
  BY <1>1 DEF Flushes
<1>4. ASSUME last'[c] = last[c], early \subseteq early'
      PROVE  \A f \in Frames : EnterSafe(f, c) => EnterSafe(f, c)'
  BY <1>1, <1>4, EnterSafeKept
<1>5. ASSUME In(c)' => In(c), In(c) => In(c)', c \in raced => c \in raced', last'[c] = last[c],
             online'[c] = online[c], Progress(row'[c]) = Progress(row[c]), early \subseteq early',
             ~Writes(l, c), ~Writes(l, c)'
      PROVE  Awaited(c)'
  <2>1. Away(c)' => Away(c) /\ last'[c] = last[c]
    BY <1>5 DEF Away
  <2>2. \A n \in Leaves : Writes(n, c) \/ Writes(n, c)' => leave'[n] = leave[n]
    BY <1>2, <1>5
  <2> QED BY <1>3, <1>4, <1>5, <2>1, <2>2, SavedFrame
<1>6. d \in Chars
  <2>1. leave[l].pc # "idle"
    BY DEF LeaveStep, LeaveGet, LeaveRemove, LeaveOffline, LeaveState, LeaveSkills, LeaveFails
  <2> QED BY <2>1, LeaveDoes
<1>7. ASSUME LeaveGet(l) PROVE Awaited(c)'
  <2>1. /\ UNCHANGED <<ent, raced, last, online, row, early>>
        /\ leave[l].pc = "get"
    BY <1>7 DEF LeaveGet, database, histories
  <2>2. leave'[l] \in {NoCall, Rec("remove", d, ent[d])}
    BY <1>7, LeaveDoes DEF LeaveBecomes
  <2>3. ~Writes(l, c) /\ ~Writes(l, c)'
    BY <2>1, <2>2, CallFacts DEF Writes, Rec
  <2> QED BY <1>5, <2>1, <2>3 DEF In
<1>8. ASSUME LeaveRemove(l), ~In(d) PROVE Awaited(c)'
  <2>1. /\ UNCHANGED <<ent, raced, last, online, row, early>>
        /\ leave[l].pc = "remove"
    BY <1>8 DEF LeaveRemove, database
  <2>2. leave'[l] = NoCall
    BY <1>8, LeaveDoes DEF LeaveBecomes
  <2>3. ~Writes(l, c) /\ ~Writes(l, c)'
    BY <2>1, <2>2, CallFacts DEF Writes
  <2> QED BY <1>5, <2>1, <2>3 DEF In
<1>9. ASSUME LeaveRemove(l), In(d) PROVE Awaited(c)'
  <2>1. /\ ent' = [ent EXCEPT ![d] = Absent] /\ last' = [last EXCEPT ![d] = ent[d]]
        /\ raced' = IF Crossed(d, e) THEN raced \cup {d} ELSE raced \ {d}
        /\ early' = early \cup {f \in Frames : enter[f].char = d /\ enter[f].pc \in {"skills", "add"}}
        /\ UNCHANGED <<row, online>> /\ leave[l].pc = "remove"
    BY <1>9 DEF LeaveRemove, database
  <2>2. leave'[l] = Rec("offline", d, e)
    BY <1>9, LeaveDoes DEF LeaveBecomes
  <2>3. CASE d # c
    <3>1. ~Writes(l, c) /\ ~Writes(l, c)'
      BY <2>2, <2>3 DEF Writes, Rec
    <3>2. ent'[c] = ent[c] /\ last'[c] = last[c] /\ (c \in raced => c \in raced')
      BY <1>0, <1>6, <2>1, <2>3 DEF EntsOK, MiscOK
    <3> QED BY <1>5, <2>1, <3>1, <3>2 DEF In
  <2>4. CASE d = c /\ Away(c)'
    <3>1. ~Crossed(c, e) /\ last'[c] = ent[c]
      BY <1>0, <2>1, <2>4 DEF Away, MiscOK
    <3>2. Progress(ent[c]) = Progress(e) /\ ~Flushes(c)
      BY <3>1 DEF Crossed
    <3>3. \A n \in Leaves : ~Writes(n, c)
      BY <3>1, AtIs DEF Crossed, Saving, Writes
    <3>4. \A f \in Frames : ~(enter[f].char = c /\ enter[f].pc = "online")
      BY <3>1, AtIs DEF Crossed
    <3>5. /\ leave'[l].pc = "offline" /\ leave'[l].ent = e
      BY <2>2 DEF Rec
    <3>6. \A n \in Leaves : Writes(n, c)' => n = l
      BY <1>2, <3>3 DEF Writes
    <3>7. Writes(l, c)'
      BY <2>2, <2>4 DEF Writes, Rec
    <3>8. WriteSafe(l, c)'
      BY <3>1, <3>2, <3>5 DEF WriteSafe, Progress
    <3>9. ASSUME NEW f \in Frames PROVE EnterSafe(f, c)'
      BY <1>1, <2>1, <2>4, <3>4 DEF EnterSafe
    <3> QED BY <1>3, <3>2, <3>6, <3>7, <3>8, <3>9 DEF Awaited
  <2> QED BY <2>3, <2>4 DEF Awaited
<1>10. ASSUME LeaveOffline(l) PROVE Awaited(c)'
  <2>1. /\ UNCHANGED <<ent, raced, last, early>> /\ leave[l].pc = "offline"
        /\ SetOnline(d, FALSE, e)
    BY <1>10 DEF LeaveOffline, histories
  <2>2. leave'[l] = Rec("state", d, e) /\ e \in Entity
    BY <1>10, <2>1, LeaveDoes DEF LeaveBecomes
  <2>3. Progress(row'[c]) = Progress(row[c])
    BY <1>0, <1>6, <2>1, <2>2, SetOnlineRow
  <2>4. online'[c] = IF c = d THEN FALSE ELSE online[c]
    BY <1>0, <2>1 DEF SetOnline, MiscOK
  <2>5. CASE d # c
    <3>1. ~Writes(l, c) /\ ~Writes(l, c)'
      BY <2>2, <2>5 DEF Writes, Rec
    <3> QED BY <1>5, <2>1, <2>3, <2>4, <2>5, <3>1 DEF In
  <2>6. CASE d = c /\ Away(c)'
    <3>1. Away(c) /\ Writes(l, c) /\ last'[c] = last[c]
      BY <2>1, <2>6 DEF Away, In, Writes
    <3>2. Progress(e) = Progress(last[c])
      BY <2>1, <3>1 DEF Awaited, WriteSafe
    <3>3. leave'[l].char = c /\ leave'[l].pc = "state" /\ leave'[l].ent = e
      BY <2>2, <2>6 DEF Rec
    <3>4. Writes(l, c)' /\ WriteSafe(l, c)'
      BY <2>4, <2>6, <3>1, <3>2, <3>3 DEF Writes, WriteSafe, Progress
    <3>5. \A n \in Leaves : Writes(n, c)' => n = l
      BY <1>2, <3>1 DEF Awaited, Writes
    <3>6. \A f \in Frames : EnterSafe(f, c)'
      BY <1>4, <2>1, <3>1 DEF Awaited
    <3> QED BY <1>3, <3>1, <3>4, <3>5, <3>6 DEF Awaited
  <2> QED BY <2>5, <2>6 DEF Awaited
<1>11. ASSUME LeaveState(l) PROVE Awaited(c)'
  <2>1. /\ UNCHANGED <<online, ent, raced, last, early>> /\ leave[l].pc = "state"
        /\ SaveState(d, e, e.max)
    BY <1>11 DEF LeaveState, histories
  <2>2. leave'[l] = Rec("skills", d, Absent) /\ e \in Entity
    BY <1>11, <2>1, LeaveDoes DEF LeaveBecomes
  <2>3. e.max \in {0, Full}
    BY <2>2 DEF Entity
  <2>4. /\ Progress(row'[d]) = [hp |-> e.hp, max |-> e.max, statusPoint |-> e.statusPoint]
        /\ \A b \in Chars : b # d => row'[b] = row[b]
    BY <1>0, <1>6, <2>1, <2>2, <2>3, SaveStateRow
  <2>5. CASE d # c
    <3>1. ~Writes(l, c) /\ ~Writes(l, c)'
      BY <2>2, <2>5 DEF Writes, Rec
    <3> QED BY <1>5, <2>1, <2>4, <2>5, <3>1 DEF In, Progress
  <2>6. CASE d = c /\ Away(c)'
    <3>1. Away(c) /\ Writes(l, c) /\ last'[c] = last[c]
      BY <2>1, <2>6 DEF Away, In, Writes
    <3>2. Progress(e) = Progress(last[c]) /\ ~online[c]
      BY <2>1, <3>1 DEF Awaited, WriteSafe
    <3>3. leave'[l].char = c /\ leave'[l].pc = "skills"
      BY <2>2, <2>6 DEF Rec
    <3>4. Progress(row'[c]) = Progress(last'[c])
      BY <2>4, <2>6, <3>1, <3>2 DEF Progress
    <3>5. Writes(l, c)' /\ WriteSafe(l, c)'
      BY <2>1, <3>2, <3>3, <3>4 DEF Writes, WriteSafe, Progress
    <3>6. \A n \in Leaves : Writes(n, c)' => n = l
      BY <1>2, <3>1 DEF Awaited, Writes
    <3>7. \A f \in Frames : EnterSafe(f, c)'
      BY <1>4, <2>1, <3>1 DEF Awaited
    <3> QED BY <1>3, <3>1, <3>5, <3>6, <3>7 DEF Awaited
  <2> QED BY <2>5, <2>6 DEF Awaited
<1>12. ASSUME LeaveSkills(l) PROVE Awaited(c)'
  <2>1. UNCHANGED <<row, online, ent, raced, last, early>> /\ leave[l].pc = "skills"
    BY <1>12 DEF LeaveSkills, database, histories
  <2>2. leave'[l] = NoCall
    BY <1>12, LeaveDoes DEF LeaveBecomes
  <2>3. ~Writes(l, c)'
    BY <2>2, CallFacts DEF Writes
  <2>4. CASE d # c
    <3>1. ~Writes(l, c)
      BY <2>4 DEF Writes
    <3> QED BY <1>5, <2>1, <2>3, <3>1 DEF In
  <2>5. CASE d = c /\ Away(c)'
    <3>1. Away(c) /\ Writes(l, c) /\ last'[c] = last[c]
      BY <2>1, <2>5 DEF Away, In, Writes
    <3>2. Kept(c)
      BY <2>1, <3>1 DEF Awaited, WriteSafe, Kept
    <3>3. Kept(c)'
      BY <2>1, <3>2 DEF Kept, Progress
    <3>4. \A n \in Leaves : ~Writes(n, c)'
      BY <1>2, <2>3, <3>1 DEF Awaited, Writes
    <3>5. \A f \in Frames : EnterSafe(f, c)'
      BY <1>4, <2>1, <3>1 DEF Awaited
    <3> QED BY <1>3, <3>1, <3>3, <3>4, <3>5 DEF Awaited
  <2> QED BY <2>4, <2>5 DEF Awaited
<1>13. ASSUME LeaveFails(l) PROVE Awaited(c)'
  <2>1. UNCHANGED <<row, online, ent, raced, early>> /\ last' = [last EXCEPT ![d] = Absent]
    BY <1>13 DEF LeaveFails, database
  <2>2. leave'[l] = NoCall
    BY <1>13, LeaveDoes DEF LeaveBecomes
  <2>3. CASE d = c
    <3>1. last'[c] = Absent
      BY <1>0, <2>1, <2>3 DEF MiscOK
    <3> QED BY <3>1 DEF Awaited, Away
  <2>4. CASE d # c
    <3>1. ~Writes(l, c) /\ ~Writes(l, c)' /\ last'[c] = last[c]
      BY <1>0, <2>1, <2>2, <2>4, CallFacts DEF Writes, MiscOK
    <3> QED BY <1>5, <2>1, <3>1 DEF In
  <2> QED BY <2>3, <2>4
<1> QED BY <1>7, <1>8, <1>9, <1>10, <1>11, <1>12, <1>13 DEF LeaveStep

\* A checkpoint writes no row of a session that ended, and what happens in the world
\* touches nobody who is out of it.
LEMMA SavedStep ==
    ASSUME TypeInv, GhostInv, SavedInv, [Next]_vars
    PROVE  SavedInv'
<1> SUFFICES ASSUME NEW c \in Chars PROVE Awaited(c)'
  BY DEF SavedInv
<1>0. /\ Awaited(c) /\ RowsOK(row) /\ EntsOK /\ ConnsOK /\ MiscOK /\ FlushOK /\ CloseIdle
      /\ NoCall.pc = "idle"
  BY TypeParts, GhostIs, CallFacts DEF SavedInv
<1>1. ASSUME In(c)' <=> In(c), UNCHANGED <<enter, leave, last, raced, early>>,
             Away(c) => (Flushes(c)' => Flushes(c)),
             Away(c) => online'[c] = online[c] /\ Progress(row'[c]) = Progress(row[c])
      PROVE  Awaited(c)'
  <2>1. Away(c)' => Away(c) /\ last'[c] = last[c]
    BY <1>1 DEF Away
  <2>2. \A f \in Frames : EnterSafe(f, c) => EnterSafe(f, c)'
    BY <1>1, EnterSafeKept
  <2> QED BY <1>0, <1>1, <2>1, <2>2, SavedFrame
<1>2. ASSUME NEW k \in Conns, Open(k) \/ OnClose(k) \/ Restart(k) PROVE Awaited(c)'
  <2>1. /\ UNCHANGED <<row, online, ent, enter, flush, last, raced, early>>
        /\ \/ UNCHANGED leave
           \/ \E l \in Leaves, d \in Chars :
                 leave[l].pc = "idle" /\ LeaveBecomes(l, Rec("get", d, Absent))
    <3>1. CASE Open(k)
      BY <3>1 DEF Open, database, histories
    <3>2. CASE OnClose(k)
      <4>1. <<k, "close">> \in Leaves /\ leave[<<k, "close">>].pc = "idle"
        BY <1>0, <3>2, CloseDoes DEF CloseIdle, Leaves
      <4> QED BY <3>2, <4>1, CloseDoes
    <3>3. CASE Restart(k)
      <4>1. /\ UNCHANGED <<row, online, ent, enter, flush, last, raced, early>>
            /\ leave' = [leave EXCEPT ![<<k, "restart">>] = Call(conn[k].char, "get")]
            /\ conn[k].char # Absent /\ leave[<<k, "restart">>].pc = "idle"
        BY <3>3 DEF Restart, Running, database, histories
      <4>2. <<k, "restart">> \in Leaves /\ conn[k].char \in Chars
        BY <1>0, <4>1 DEF ConnsOK, Leaves
      <4>3. LeaveBecomes(<<k, "restart">>, Rec("get", conn[k].char, Absent))
        BY <4>1, <4>2, LeaveDoes
      <4> QED BY <4>1, <4>2, <4>3
    <3> QED BY <1>2, <3>1, <3>2, <3>3
  <2>2. \A n \in Leaves : Writes(n, c) \/ Writes(n, c)' => leave'[n] = leave[n]
    <3>1. ASSUME NEW l \in Leaves, NEW d \in Chars,
                 leave[l].pc = "idle", LeaveBecomes(l, Rec("get", d, Absent)),
                 NEW n \in Leaves, leave'[n] # leave[n]
          PROVE  ~Writes(n, c) /\ ~Writes(n, c)'
      <4>1. n = l /\ leave'[n] = Rec("get", d, Absent)
        BY <3>1 DEF LeaveBecomes
      <4> QED BY <3>1, <4>1 DEF Writes, Rec
    <3> QED BY <2>1, <3>1
  <2>3. Away(c)' => Away(c) /\ last'[c] = last[c]
    BY <2>1 DEF Away, In
  <2>4. \A f \in Frames : EnterSafe(f, c) => EnterSafe(f, c)'
    BY <2>1, EnterSafeKept
  <2> QED BY <1>0, <2>1, <2>2, <2>3, <2>4, SavedFrame DEF Flushes
<1>3. ASSUME NEW all \in BOOLEAN, FlushStart(all) PROVE Awaited(c)'
  <2>1. UNCHANGED <<row, online, ent, enter, leave, last, raced, early>> /\ flush'.todo = Snapshot
    BY <1>3 DEF FlushStart, database, histories
  <2>2. ~In(c) => ~Flushes(c)'
    BY <2>1 DEF Flushes, Snapshot
  <2> QED BY <1>1, <2>1, <2>2 DEF In, Away
<1>4. ASSUME NEW s \in flush.todo, FlushState(s) PROVE Awaited(c)'
  <2>1. /\ UNCHANGED <<online, ent, enter, leave, last, raced, early>>
        /\ flush' = [flush EXCEPT !.pc = "online", !.snap = s] /\ SaveState(s.char, s.ent, 0)
    BY <1>4 DEF FlushState, histories
  <2>2. flush'.todo = flush.todo /\ s.char \in Chars /\ s.ent \in Entity
    BY <1>0, <2>1 DEF FlushOK, Snap
  <2>3. Away(c) => s.char # c
    BY <1>0 DEF Awaited, Flushes
  <2>4. Away(c) => Progress(row'[c]) = Progress(row[c])
    BY <1>0, <2>1, <2>2, <2>3, SaveStateRow DEF Progress
  <2> QED BY <1>1, <2>1, <2>2, <2>4 DEF In, Flushes
<1>5. ASSUME FlushOnline PROVE Awaited(c)'
  <2> DEFINE s == flush.snap
  <2>1. /\ UNCHANGED <<ent, enter, leave, last, raced, early>> /\ flush.pc = "online"
        /\ flush' = [flush EXCEPT !.pc = "state", !.todo = @ \ {s}, !.snap = Absent]
        /\ SetOnline(s.char, ~flush.all, s.ent)
    BY <1>5 DEF FlushOnline, histories
  <2>2. /\ flush'.todo \subseteq flush.todo /\ s \in flush.todo
        /\ s.char \in Chars /\ s.ent \in Entity
    BY <1>0, <2>1 DEF FlushOK, Snap
  <2>3. Away(c) => s.char # c
    BY <1>0, <2>2 DEF Awaited, Flushes
  <2>4. Progress(row'[c]) = Progress(row[c])
    BY <1>0, <2>1, <2>2, SetOnlineRow
  <2>5. Away(c) => online'[c] = online[c]
    BY <1>0, <2>1, <2>3 DEF SetOnline, MiscOK
  <2> QED BY <1>1, <2>1, <2>2, <2>4, <2>5 DEF In, Flushes
<1>6. ASSUME NEW s \in flush.todo, FlushFails(s) PROVE Awaited(c)'
  <2>1. /\ UNCHANGED <<row, online, ent, enter, leave, last, raced, early>>
        /\ flush' = [flush EXCEPT !.pc = "state", !.todo = @ \ {s}, !.snap = Absent]
    BY <1>6 DEF FlushFails, database, histories
  <2>2. flush'.todo \subseteq flush.todo
    BY <1>0, <2>1 DEF FlushOK
  <2> QED BY <1>1, <2>1, <2>2 DEF In, Flushes
<1>7. ASSUME Dies PROVE Awaited(c)'
  <2> SUFFICES ASSUME Away(c)' PROVE Awaited(c)'
    BY DEF Awaited
  <2>1. /\ Gone(c) /\ last'[c] = last[c] /\ UNCHANGED <<row, online, raced>>
    BY <1>7, DiesDoes DEF Away
  <2>2. Away(c) /\ \A l \in Leaves : ~Writes(l, c)
    BY <2>1, AtIs DEF Away, Gone, Saving, Writes
  <2>3. Kept(c)'
    BY <1>0, <2>1, <2>2 DEF Awaited, Kept, Progress
  <2>4. /\ ~Flushes(c)' /\ \A l \in Leaves : ~Writes(l, c)'
        /\ \A f \in Frames : EnterSafe(f, c)'
    BY <1>0, <1>7, DiesDoes DEF Flushes, Writes, EnterSafe
  <2> QED BY <2>3, <2>4 DEF Awaited
<1>8. ASSUME FlushEnd, ~Dies PROVE Awaited(c)'
  <2>1. UNCHANGED <<row, online, ent, enter, leave, last, raced, early>> /\ flush' = NoFlush
    BY <1>8 DEF FlushEnd, database, histories
  <2>2. ~Flushes(c)'
    BY <2>1 DEF Flushes, NoFlush
  <2> QED BY <1>1, <2>1, <2>2 DEF In
<1>9. ASSUME RelocateWrite PROVE Awaited(c)'
  <2>1. UNCHANGED <<ent, online, enter, leave, flush, last, raced, early>>
    BY <1>9 DEF RelocateWrite, rest, histories
  <2>2. Progress(row'[c]) = Progress(row[c])
    <3>1. port.char \in Chars /\ port.map \in Maps /\ port.cell \in Cells
      BY <1>0, <1>9 DEF RelocateWrite, MiscOK
    <3> QED BY <1>0, <1>9, <3>1, SetPositionRow DEF RelocateWrite
  <2> QED BY <1>1, <2>1, <2>2 DEF In, Flushes
<1>10. ASSUME NEW d \in Chars, InGameStep(d) PROVE Awaited(c)'
  <2>1. /\ In(c)' <=> In(c)
        /\ Progress(row'[c]) = Progress(row[c]) /\ UNCHANGED rest
    BY <1>10, InGameType
  <2> QED BY <1>1, <2>1 DEF rest, histories, Flushes
<1>11. CASE UNCHANGED vars
  BY <1>1, <1>11 DEF vars, database, histories, In, Flushes, Progress
<1> QED BY <1>0, <1>2, <1>3, <1>4, <1>5, <1>6, <1>7, <1>8, <1>9, <1>10, <1>11, SavedEnter, SavedLeave
        DEF Next, FlushStep, Crash

LEMMA InitSafe ==
    Init => TypeInv /\ GhostInv /\ SavedInv
<1> SUFFICES ASSUME Init PROVE TypeInv /\ GhostInv /\ SavedInv
  OBVIOUS
<1>0. /\ ~NoConn.open /\ NoConn \in [open : BOOLEAN, char : Chars \cup {Absent}]
      /\ NoCall.pc = "idle" /\ NoCall \in EnterRecs /\ NoCall \in LeaveRecs
      /\ NoFlush.todo = {}
  BY CallFacts DEF NoConn, NoFlush, EnterRecs, LeaveRecs
<1>1. /\ \A c \in Chars : ~In(c) /\ ~online[c]
      /\ \A k \in Conns : ~conn[k].open
      /\ \A f \in Frames : enter[f].pc = "idle"
      /\ \A l \in Leaves : leave[l].pc = "idle"
      /\ flush.todo = {} /\ last = row
  BY <1>0 DEF Init, In
<1>2. RowsOK(row)
  <2>1. PICK p \in Cells : row = [c \in Chars |-> Fresh(SaveMap, p)]
    BY DEF Init
  <2>2. Fresh(SaveMap, p) \in Entity /\ Fresh(SaveMap, p).stat = 0
    BY FullAssumption, PlaceAssumption DEF Fresh, Entity
  <2> QED BY <2>1, <2>2 DEF RowsOK
<1>3. TypeInv
  <2>1. EntsOK
    BY <1>1 DEF Init, EntsOK
  <2>2. ConnsOK /\ LeavesOK
    BY <1>0 DEF Init, ConnsOK, LeavesOK
  <2>3. EntersOK
    BY <1>0, <1>1 DEF Init, EntersOK
  <2>4. FlushOK
    BY DEF Init, FlushOK, NoFlush
  <2>5. MiscOK
    BY <1>1, <1>2 DEF Init, MiscOK, RowsOK
  <2> QED BY <1>2, <2>1, <2>2, <2>3, <2>4, <2>5, TypeParts
<1>4. GhostInv
  BY <1>1 DEF GhostInv, NoGhost
<1>5. SavedInv
  BY <1>1 DEF SavedInv, Awaited, Flushes, Writes, Kept, EnterSafe
<1> QED BY <1>3, <1>4, <1>5

-----------------------------------------------------------------------------
\* The variables keep their types, and every call under way knows whom it serves: no
\* handler of the session code works on an entity it has not read.
THEOREM TypeCorrect == Spec => []TypeInv
<1>1. Init => TypeInv
  BY InitSafe
<1>2. TypeInv /\ [Next]_vars => TypeInv'
  BY TypeStep
<1> QED BY <1>1, <1>2, PTL DEF Spec

\* OnClose, CZ_RESTART and LeaveMap leave no entity behind but the strays, however many
\* CZ_ENTERs of however many characters run on however many connections, however they
\* interleave with closes and checkpoints, and whatever statement fails.  A stray is an
\* entity left by a connection that closed during its own CZ_ENTER, by a saved cell that
\* the grid refuses, or by a second CZ_ENTER for another character on the connection.
THEOREM NoGhostCorrect == Spec => []NoGhost
<1>1. Init => TypeInv /\ GhostInv
  BY InitSafe
<1>2. TypeInv /\ GhostInv /\ [Next]_vars => (TypeInv /\ GhostInv)'
  BY TypeStep, GhostStep
<1>3. GhostInv => NoGhost
  BY DEF GhostInv
<1> QED BY <1>1, <1>2, <1>3, PTL DEF Spec

\* The inductive invariant behind the two theorems that follow.
LEMMA SavedAlways == Spec => [](TypeInv /\ GhostInv /\ SavedInv)
<1>1. Init => TypeInv /\ GhostInv /\ SavedInv
  BY InitSafe
<1>2. TypeInv /\ GhostInv /\ SavedInv /\ [Next]_vars => (TypeInv /\ GhostInv /\ SavedInv)'
  BY TypeStep, GhostStep, SavedStep
<1> QED BY <1>1, <1>2, PTL DEF Spec

\* The row of whoever is out of the world is what the entity was when LeaveMap removed it,
\* although a close and a CZ_RESTART may both have called LeaveMap, clients may be back
\* before it is done and checkpoints run at any time.  Excepted are a LeaveMap that failed,
\* a crash, and what crossed the LeaveMap: a change of the entity between its Get and its
\* RemoveEntity, a checkpoint with an older snapshot, another LeaveMap that was not done,
\* and a CZ_ENTER that had still to mark the character online.
THEOREM SavedCorrect == Spec => []SessionSaved
<1>1. TypeInv /\ SavedInv => SessionSaved
  <2> SUFFICES ASSUME TypeInv, SavedInv, NEW c \in Chars, Gone(c), last[c] # Absent, c \notin raced
               PROVE  ~online[c] /\ Progress(row[c]) = Progress(last[c])
    BY DEF SessionSaved, TypeInv
  <2>1. Away(c) /\ \A l \in Leaves : ~Writes(l, c)
    BY AtIs DEF Away, Gone, Saving, Writes
  <2> QED BY <2>1 DEF SavedInv, Awaited, Kept
<1> QED BY <1>1, SavedAlways, PTL

\* EnterMap brings a character back with what its last session left, but for the sessions
\* that SavedCorrect excepts and for a CZ_ENTER that loaded the row before LeaveMap had
\* written it.
THEOREM ResumeCorrect == Spec => ResumesWhereLeft
<1> DEFINE Resumes == \A c \in Chars : ~In(c) /\ In(c)' =>
                         \/ last[c] = Absent \/ c \in raced
                         \/ \E f \in early : enter[f].char = c /\ enter'[f] # enter[f]
                         \/ Progress(ent'[c]) = Progress(last[c])
<1>1. TypeInv /\ SavedInv /\ [Next]_vars => [Resumes]_vars
  <2> SUFFICES ASSUME TypeInv, SavedInv, [Next]_vars,
                      NEW c \in Chars, ~In(c), In(c)', last[c] # Absent, c \notin raced
               PROVE  \/ \E f \in early : enter[f].char = c /\ enter'[f] # enter[f]
                      \/ Progress(ent'[c]) = Progress(last[c])
    OBVIOUS
  <2>1. EntsOK
    BY TypeParts
  <2>2. PICK f \in Frames : EnterAdd(f) /\ enter[f].char = c
    <3>1. ASSUME NEW f \in Frames, EnterAdd(f) PROVE enter[f].char = c
      BY <2>1, <3>1 DEF EnterAdd, EntsOK, In
    <3>2. ASSUME NEW l \in Leaves, LeaveStep(l) PROVE FALSE
      BY <2>1, <3>2 DEF LeaveStep, LeaveGet, LeaveRemove, LeaveOffline, LeaveState, LeaveSkills,
                        LeaveFails, EntsOK, In
    <3>3. ASSUME NEW d \in Chars, InGameStep(d) PROVE FALSE
      BY <3>3, InGameType
    <3>4. ASSUME Dies PROVE FALSE
      BY <3>4, DiesDoes
    <3>5. ASSUME UNCHANGED ent PROVE FALSE
      BY <3>5 DEF In
    <3>6. ASSUME ~Dies,
                 FlushStep \/ RelocateWrite \/ (\E all \in BOOLEAN : FlushStart(all))
                 \/ UNCHANGED vars
          PROVE  UNCHANGED ent
      BY <3>6 DEF FlushStep, FlushState, FlushFails, FlushOnline, FlushEnd, FlushStart,
                  RelocateWrite, vars
    <3>7. ASSUME NEW k \in Conns, Open(k) \/ OnClose(k) \/ Restart(k) PROVE UNCHANGED ent
      BY <3>7 DEF Open, OnClose, Closed, Restart
    <3>8. ASSUME NEW f \in Frames, ~EnterAdd(f),
                 (\E d \in Chars : Connect(f, d)) \/ EnterStep(f)
          PROVE  UNCHANGED ent
      BY <3>8 DEF Connect, EnterStep, EnterLoad, Load, EnterSkills, EnterRefused, EnterOnline,
                  EnterBind
    <3> QED BY <3>1, <3>2, <3>3, <3>4, <3>5, <3>6, <3>7, <3>8 DEF Next, Crash
  <2>3. enter[f].pc = "add" /\ ent'[c] = enter[f].ent
    BY <2>1, <2>2 DEF EnterAdd, EntsOK
  <2>4. CASE f \in early
    <3>1. enter'[f] \in {NoCall, Rec("online", c, enter[f].ent)}
      BY <2>2, EnterDoes DEF EnterBecomes
    <3>2. enter'[f].pc # "add"
      BY <3>1, CallFacts DEF Rec
    <3> QED BY <2>2, <2>3, <2>4, <3>2
  <2>5. CASE f \notin early
    <3>1. Progress(enter[f].ent) = Progress(last[c])
      BY <2>2, <2>3, <2>5 DEF SavedInv, Awaited, Away, EnterSafe
    <3> QED BY <2>3, <3>1
  <2> QED BY <2>4, <2>5
<1> QED BY <1>1, SavedAlways, PTL DEF Spec, ResumesWhereLeft

=============================================================================
