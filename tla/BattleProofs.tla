---------------------------- MODULE BattleProofs ----------------------------
(***************************************************************************)
(* Proofs about Battle, and so about Growth and Respawn, which it extends, *)
(* for any numbers of characters, handlers, mobs, deaths and hit points.   *)
(* What must happen in the end is left to TLC.                             *)
(***************************************************************************)
EXTENDS Battle, SumProofs, FunctionTheorems

-----------------------------------------------------------------------------
\* Respawn timers.

timerVars == <<slot, timer, cancelled, button>>

TimersOK ==
    /\ slot \in [Chars -> Timers \cup {None}]
    /\ timer \in [Timers -> {NoTimer} \cup
                    [char : Chars, pc : {"waiting", "fired", "quit", "respawn", "done"}]]
    /\ cancelled \subseteq Timers
    /\ button \in [Chars -> [pc : {"idle", "cancel", "respawn"}, took : Timers \cup {None}]]
    /\ \A c \in Chars : slot[c] # None =>
          timer[slot[c]].char = c /\ timer[slot[c]].pc \in {"waiting", "fired", "quit"}

\* The button holds a token only until it has cancelled it.
TookInv == \A c \in Chars : button[c].pc # "cancel" => button[c].took = None

TimerInv == TimersOK /\ TookInv /\ NoLostTimer

\* The timers are touched by the death notification, the timer goroutines and the
\* respawn button only.
TimerAction ==
    \/ \E c \in Chars : (\E t \in Timers : ArmRespawn(c, t)) \/ Press(c) \/ PressCancel(c) \/ PressRespawn(c)
    \/ \E t \in Timers : Expire(t) \/ Quit(t) \/ ClearSlot(t) \/ TimerRespawn(t)

LEMMA TimerFrame ==
    ASSUME [Next]_vars
    PROVE  TimerAction \/ UNCHANGED timerVars
<1>1. CASE RespawnNext
  BY <1>1 DEF RespawnNext, DeathMissed, Stop, TimerStep, PressStep, TimerAction, timerVars
<1>2. CASE GrowthNext
  <2>1. ASSUME NEW c \in Chars, LeaveMap(c) \/ EnterMap(c) \/ Heal(c) PROVE UNCHANGED timerVars
    BY <2>1 DEF LeaveMap, Leave, EnterMap, Enter, Heal, bodyVars, timerVars
  <2>2. ASSUME NEW S, RegenTick(S) PROVE UNCHANGED timerVars
    BY <2>2 DEF RegenTick, bodyVars, timerVars
  <2>3. ASSUME NEW w \in Workers, NEW c \in Chars, LearnSnapshot(w, c) PROVE UNCHANGED timerVars
    BY <2>3 DEF LearnSnapshot, respawnVars, timerVars
  <2>4. ASSUME NEW w \in Workers, LearnStep(w) \/ LearnFails(w) PROVE UNCHANGED timerVars
    BY <2>4 DEF LearnStep, LearnRaise, SaveSkills, SaveState, LearnApply, LearnFails, respawnVars, bodyVars, timerVars
  <2> QED BY <1>2, <2>1, <2>2, <2>3, <2>4 DEF GrowthNext
<1>3. CASE BattleNext
  <2>1. ASSUME NEW w \in Workers, NEW c, NEW t, Attack(w, c, t) PROVE UNCHANGED timerVars
    BY <2>1 DEF Attack, respawnVars, timerVars
  <2>2. ASSUME NEW w \in Workers, FightStep(w) PROVE UNCHANGED timerVars
    BY <2>2 DEF FightStep, trySpendSP, HitMob, HitPlayer, Bury, Remove, scheduleRespawn, grantMobExp, Grant,
                LevelUp, JobLevelUp, respawnVars, bodyVars, timerVars
  <2>3. ASSUME NEW m \in Mobs, MobRespawn(m) \/ \E c \in Chars : Swing(m, c) PROVE UNCHANGED timerVars
    BY <2>3 DEF MobRespawn, Swing, Die, respawnVars, timerVars
  <2>4. ASSUME resolve PROVE UNCHANGED timerVars
    BY <2>4 DEF resolve, respawnVars, timerVars
  <2> QED BY <1>3, <2>1, <2>2, <2>3, <2>4 DEF BattleNext
<1>4. CASE UNCHANGED vars
  BY <1>4 DEF vars, respawnVars, timerVars
<1> QED BY <1>1, <1>2, <1>3, <1>4 DEF Next

LEMMA TimerTypes ==
    ASSUME TimerInv
    PROVE  /\ None \notin Timers
           /\ \A t \in Timers : timer[t].pc # "unused" =>
                 timer[t] \in [char : Chars, pc : {"waiting", "fired", "quit", "respawn", "done"}]
           /\ \A t \in Timers : timer[t].pc = "unused" => timer[t] = NoTimer
<1>1. None \notin Timers
  BY RespawnBounds DEF None, Timers
<1>2. timer \in [Timers -> {NoTimer} \cup [char : Chars, pc : {"waiting", "fired", "quit", "respawn", "done"}]]
  BY DEF TimerInv, TimersOK
<1> QED BY <1>1, <1>2 DEF NoTimer

LEMMA TimerStepInv ==
    ASSUME TimerInv, [Next]_vars
    PROVE  TimerInv'
<1>0. CASE UNCHANGED timerVars
  BY <1>0 DEF timerVars, TimerInv, TimersOK, TookInv, NoLostTimer
<1>t. TimersOK /\ TookInv /\ NoLostTimer
  BY DEF TimerInv
<1>1. ASSUME NEW c \in Chars, NEW t \in Timers, ArmRespawn(c, t) PROVE TimerInv'
  <2>1. /\ timer[t] = NoTimer /\ timer[t].pc = "unused"
        /\ cancelled' = cancelled \cup ({slot[c]} \ {None})
        /\ slot' = [slot EXCEPT ![c] = t]
        /\ timer' = [timer EXCEPT ![t] = [char |-> c, pc |-> "waiting"]]
        /\ UNCHANGED button
    BY <1>1 DEF ArmRespawn, NoTimer
  <2>2. \A b \in Chars : slot[b] # t
    BY <1>t, <2>1, TimerTypes DEF TimersOK
  <2>3. TimersOK'
    BY <1>t, <2>1, <2>2 DEF TimersOK
  <2>4. NoLostTimer'
    BY <1>t, <2>1, <2>2, TimerTypes DEF TimersOK, NoLostTimer
  <2> QED BY <1>t, <2>1, <2>3, <2>4 DEF TimerInv, TookInv
<1>2. ASSUME NEW t \in Timers, Expire(t) \/ Quit(t) PROVE TimerInv'
  <2>1. /\ timer[t].pc = "waiting" /\ UNCHANGED <<slot, cancelled, button>>
        /\ \E pc \in {"fired", "quit"} : timer' = [timer EXCEPT ![t].pc = pc]
    BY <1>2 DEF Expire, Quit
  <2>2. PICK pc \in {"fired", "quit"} : timer' = [timer EXCEPT ![t] = [timer[t] EXCEPT !.pc = pc]]
    BY <1>t, <2>1 DEF TimersOK
  <2>3. timer[t] \in [char : Chars, pc : {"waiting", "fired", "quit", "respawn", "done"}]
    BY <2>1, TimerTypes
  <2>4. PICK e : e = [timer[t] EXCEPT !.pc = pc]
    OBVIOUS
  <2>5. e.pc = pc /\ e.char = timer[t].char /\ e \in [char : Chars, pc : {"waiting", "fired", "quit", "respawn", "done"}]
    BY <2>3, <2>4
  <2>6. timer' = [timer EXCEPT ![t] = e]
    BY <2>2, <2>4
  <2>7. TimersOK'
    <3>1. pc \in {"fired", "quit"} /\ UNCHANGED <<slot, cancelled, button>>
      BY <2>1, <2>2
    <3> QED BY <1>t, <3>1, <2>5, <2>6 DEF TimersOK
  <2>8. NoLostTimer'
    BY <1>t, <2>1, <2>2, <2>5, <2>6 DEF TimersOK, NoLostTimer
  <2> QED BY <1>t, <2>1, <2>7, <2>8 DEF TimerInv, TookInv
<1>3. ASSUME NEW t \in Timers, ClearSlot(t) PROVE TimerInv'
  <2>1. /\ timer[t].pc \in {"fired", "quit"} /\ UNCHANGED <<cancelled, button>>
        /\ slot' = [slot EXCEPT ![timer[t].char] = IF @ = t THEN None ELSE @]
        /\ \E pc \in {"respawn", "done"} : timer' = [timer EXCEPT ![t].pc = pc]
    BY <1>3, <1>t DEF ClearSlot, TimersOK
  <2>2. timer[t] \in [char : Chars, pc : {"waiting", "fired", "quit", "respawn", "done"}]
    BY <2>1, TimerTypes
  <2>3. PICK pc \in {"respawn", "done"} : \E e : e = [timer[t] EXCEPT !.pc = pc] /\ timer' = [timer EXCEPT ![t] = e]
    BY <1>t, <2>1 DEF TimersOK
  <2>a. PICK e : e = [timer[t] EXCEPT !.pc = pc] /\ timer' = [timer EXCEPT ![t] = e]
    BY <2>3
  <2>4. e.pc = pc /\ e.char = timer[t].char /\ e \in [char : Chars, pc : {"waiting", "fired", "quit", "respawn", "done"}]
    BY <2>2, <2>a
  <2>5. \A b \in Chars : slot'[b] = IF slot[b] = t THEN None ELSE slot[b]
    BY <1>t, <2>1, <2>2, TimerTypes DEF TimersOK
  <2>6. slot' \in [Chars -> Timers \cup {None}]
    BY <1>t, <2>1, <2>2 DEF TimersOK
  <2>7. TimersOK'
    BY <1>t, <2>1, <2>3, <2>a, <2>4, <2>5, <2>6 DEF TimersOK
  <2>8. NoLostTimer'
    BY <1>t, <2>1, <2>3, <2>a, <2>4, <2>5 DEF TimersOK, NoLostTimer
  <2> QED BY <1>t, <2>1, <2>7, <2>8 DEF TimerInv, TookInv
<1>4. ASSUME NEW t \in Timers, TimerRespawn(t) PROVE TimerInv'
  <2>1. timer[t].pc = "respawn" /\ UNCHANGED <<slot, cancelled, button>> /\ timer' = [timer EXCEPT ![t].pc = "done"]
    BY <1>4 DEF TimerRespawn
  <2>2. timer[t] \in [char : Chars, pc : {"waiting", "fired", "quit", "respawn", "done"}]
    BY <2>1, TimerTypes
  <2>3. PICK e : e = [timer[t] EXCEPT !.pc = "done"] /\ timer' = [timer EXCEPT ![t] = e]
    BY <1>t, <2>1 DEF TimersOK
  <2>4. e.pc = "done" /\ e \in [char : Chars, pc : {"waiting", "fired", "quit", "respawn", "done"}]
    BY <2>2, <2>3
  <2>5. \A b \in Chars : slot[b] # t
    BY <1>t, <2>1, TimerTypes DEF TimersOK
  <2>6. TimersOK'
    BY <1>t, <2>1, <2>3, <2>4, <2>5 DEF TimersOK
  <2>7. NoLostTimer'
    BY <1>t, <2>1, <2>3, <2>4 DEF TimersOK, NoLostTimer
  <2> QED BY <1>t, <2>1, <2>6, <2>7 DEF TimerInv, TookInv
<1>5. ASSUME NEW c \in Chars, Press(c) PROVE TimerInv'
  <2>1. /\ button[c].took = None /\ UNCHANGED <<timer, cancelled>>
        /\ button' = [button EXCEPT ![c] = [pc |-> "cancel", took |-> slot[c]]]
        /\ slot' = [slot EXCEPT ![c] = None]
    BY <1>5 DEF Press, NoPress
  <2>2. TimersOK'
    BY <1>t, <2>1 DEF TimersOK
  <2>3. TookInv'
    BY <1>t, <2>1 DEF TimersOK, TookInv
  <2>4. NoLostTimer'
    BY <1>t, <2>1, TimerTypes DEF TimersOK, NoLostTimer
  <2> QED BY <2>2, <2>3, <2>4 DEF TimerInv
<1>6. ASSUME NEW c \in Chars, PressCancel(c) PROVE TimerInv'
  <2>1. /\ UNCHANGED <<timer, slot>>
        /\ cancelled' = cancelled \cup ({button[c].took} \ {None})
        /\ button' = [button EXCEPT ![c] = [pc |-> "respawn", took |-> None]]
    BY <1>6 DEF PressCancel
  <2>2. TimersOK'
    BY <1>t, <2>1 DEF TimersOK
  <2>3. TookInv'
    BY <1>t, <2>1 DEF TimersOK, TookInv
  <2>4. NoLostTimer'
    BY <1>t, <2>1, TimerTypes DEF TimersOK, NoLostTimer
  <2> QED BY <2>2, <2>3, <2>4 DEF TimerInv
<1>7. ASSUME NEW c \in Chars, PressRespawn(c) PROVE TimerInv'
  <2>1. /\ UNCHANGED <<timer, slot, cancelled>> /\ button[c].took = None
        /\ button' = [button EXCEPT ![c] = [pc |-> "idle", took |-> None]]
    BY <1>7, <1>t DEF PressRespawn, NoPress, TookInv
  <2>2. TimersOK'
    BY <1>t, <2>1 DEF TimersOK
  <2>3. TookInv'
    BY <1>t, <2>1 DEF TimersOK, TookInv
  <2>4. NoLostTimer'
    BY <1>t, <2>1, TimerTypes DEF TimersOK, NoLostTimer
  <2> QED BY <2>2, <2>3, <2>4 DEF TimerInv
<1> QED BY <1>0, <1>1, <1>2, <1>3, <1>4, <1>5, <1>6, <1>7, TimerFrame DEF TimerAction

\* A timer that still waits can be cancelled by the button of its player: neither another
\* death of the player nor the clean-up of an older timer drops it from its slot
\* (ArmRespawn, CancelRespawn).
THEOREM NoLostTimerCorrect == Spec => []NoLostTimer
<1>1. Init => TimerInv
  <2> SUFFICES ASSUME Init PROVE TimerInv
    OBVIOUS
  <2>1. RespawnInit
    BY DEF Init
  <2>2. TimersOK /\ TookInv
    BY <2>1 DEF RespawnInit, TimersOK, TookInv, NoPress, NoTimer
  <2>3. NoLostTimer
    BY <2>1 DEF RespawnInit, NoLostTimer, NoTimer
  <2> QED BY <2>2, <2>3 DEF TimerInv
<1>2. TimerInv /\ [Next]_vars => TimerInv'
  BY TimerStepInv
<1>3. TimerInv => NoLostTimer
  BY DEF TimerInv
<1> QED BY <1>1, <1>2, <1>3, PTL DEF Spec

-----------------------------------------------------------------------------
\* Types.

Grown == [base : 0 .. ExpCap, level : 1 .. MaxLevel, job : 0 .. ExpCap, jobLevel : 1 .. MaxJob,
          points : Nat, map : Maps \cup {Nil}]
Kept == [base : 0 .. ExpCap, level : 1 .. MaxLevel, job : 0 .. ExpCap, jobLevel : 1 .. MaxJob,
         points : Nat, skill : 0 .. SkillMax]
Snaps == {g \in Grown : g.points > 0}
Awards == [to : Chars, gain : Nat]

\* What a handler may be doing.
Learners == [pc : {"raise", "skills", "state", "apply"}, char : Chars, snap : Snaps, dead : BOOLEAN,
             sp : 0 .. MaxSP, map : Maps \cup {Nil}, list : 0 .. SkillMax]
Fighters == [pc : {"hit", "spend"}, char : Chars, who : Chars \cup Mobs]
Buriers == [pc : {"bury", "remove", "schedule"}, char : Chars, who : Mobs]
Sharers == [pc : {"share"}, char : Chars]
Granters == [pc : {"grant"}, due : SUBSET Awards]
Payers == [pc : {"grant", "level", "jobLevel"}, to : Chars, due : SUBSET Awards]
Ops == {Idle} \cup Learners \cup Fighters \cup Buriers \cup Sharers \cup Granters \cup Payers

OpsOK == op \in [Workers -> Ops]

BodyOK ==
    /\ in \subseteq Chars /\ dead \subseteq Chars /\ dropped \subseteq Chars
    /\ sp \in [Chars -> 0 .. MaxSP]
    /\ dying \in [Chars -> BOOLEAN]
    /\ stopped \in BOOLEAN
    /\ budget \in [Events -> Nat]

\* Whoever is in the world has an entity, nobody else does.
GrowOK ==
    /\ grow \in [Chars -> Grown \cup {Absent}]
    /\ \A c \in Chars : IF c \in in THEN grow[c] \in Grown ELSE grow[c] = Absent
    /\ skills \in [Maps -> 0 .. SkillMax]
    /\ row \in [Chars -> Kept]
    /\ tangled \subseteq Chars

MobsOK ==
    /\ mob \in [Mobs -> {Gone} \cup 0 .. MobLife]
    /\ back \in [Mobs -> Nat]
    /\ swing \subseteq Mobs \X Chars
    /\ kills \in Nat

TypeInv == TimerInv /\ OpsOK /\ BodyOK /\ GrowOK /\ MobsOK

LEMMA TypeInvType ==
    ASSUME TypeInv
    PROVE  TypeOK
<1>1. RespawnTypeOK
  BY DEF TypeInv, TimerInv, TimersOK, BodyOK, RespawnTypeOK
<1>2. GrowthTypeOK
  <2>1. GrowOK
    BY DEF TypeInv
  <2>2. \A c \in Chars : c \in in =>
          /\ grow[c].base \in 0 .. ExpCap /\ grow[c].job \in 0 .. ExpCap
          /\ grow[c].level \in 1 .. MaxLevel /\ grow[c].jobLevel \in 1 .. MaxJob
          /\ grow[c].points \in Nat /\ grow[c].map \in Maps \cup {Nil}
    BY <2>1 DEF GrowOK, Grown
  <2>3. \A c \in Chars : row[c].points \in Nat /\ row[c].skill \in 0 .. SkillMax
    BY <2>1 DEF GrowOK, Kept
  <2> QED BY <2>1, <2>2, <2>3 DEF GrowOK, GrowthTypeOK
<1> QED BY <1>1, <1>2 DEF TypeInv, MobsOK, TypeOK

\* The statement a handler is at says what it carries.
LEMMA OpKinds ==
    ASSUME OpsOK, NEW w \in Workers
    PROVE  /\ op[w].pc \in {"raise", "skills", "state", "apply"} => op[w] \in Learners
           /\ op[w].pc \in {"hit", "spend"} => op[w] \in Fighters
           /\ op[w].pc \in {"bury", "remove", "schedule"} => op[w] \in Buriers
           /\ op[w].pc = "share" => op[w] \in Sharers
           /\ op[w].pc = "grant" => op[w] \in Granters \cup Payers
           /\ op[w].pc \in {"level", "jobLevel"} => op[w] \in Payers
           /\ "snap" \in DOMAIN op[w] <=> op[w] \in Learners
           /\ "map" \in DOMAIN op[w] <=> op[w] \in Learners
<1>0. op[w] \in Ops
  BY DEF OpsOK
<1>1. ASSUME op[w] = Idle PROVE op[w].pc = "idle" /\ "snap" \notin DOMAIN op[w] /\ "map" \notin DOMAIN op[w]
  BY <1>1 DEF Idle
<1>2. ASSUME op[w] \in Learners
      PROVE  /\ op[w].pc \in {"raise", "skills", "state", "apply"}
             /\ "snap" \in DOMAIN op[w] /\ "map" \in DOMAIN op[w]
  BY <1>2 DEF Learners
<1>3. ASSUME op[w] \in Fighters
      PROVE  op[w].pc \in {"hit", "spend"} /\ "snap" \notin DOMAIN op[w] /\ "map" \notin DOMAIN op[w]
  BY <1>3 DEF Fighters
<1>4. ASSUME op[w] \in Buriers
      PROVE  op[w].pc \in {"bury", "remove", "schedule"} /\ "snap" \notin DOMAIN op[w] /\ "map" \notin DOMAIN op[w]
  BY <1>4 DEF Buriers
<1>5. ASSUME op[w] \in Sharers
      PROVE  op[w].pc = "share" /\ "snap" \notin DOMAIN op[w] /\ "map" \notin DOMAIN op[w]
  BY <1>5 DEF Sharers
<1>6. ASSUME op[w] \in Granters
      PROVE  op[w].pc = "grant" /\ "snap" \notin DOMAIN op[w] /\ "map" \notin DOMAIN op[w]
  BY <1>6 DEF Granters
<1>7. ASSUME op[w] \in Payers
      PROVE  op[w].pc \in {"grant", "level", "jobLevel"} /\ "snap" \notin DOMAIN op[w] /\ "map" \notin DOMAIN op[w]
  BY <1>7 DEF Payers
<1> QED BY <1>0, <1>1, <1>2, <1>3, <1>4, <1>5, <1>6, <1>7 DEF Ops

LEMMA OpSet ==
    ASSUME OpsOK, NEW w \in Workers, NEW r \in Ops, op' = [op EXCEPT ![w] = r]
    PROVE  OpsOK' /\ op'[w] = r /\ \A v \in Workers : v # w => op'[v] = op[v]
BY DEF OpsOK

LEMMA DivBound ==
    ASSUME NEW n \in Nat, NEW d \in Nat \ {0}
    PROVE  n \div d \in Nat /\ d * (n \div d) <= n
<1>1. PICK q \in Int : q = n \div d
  OBVIOUS
<1>2. d * q <= n /\ n < d * q + d
  BY <1>1
<1>3. q >= 0
  <2> SUFFICES ASSUME q <= -1 PROVE FALSE
    BY <1>1
  <2>1. d * q <= d * (-1)
    OBVIOUS
  <2> QED BY <1>2, <2>1
<1> QED BY <1>1, <1>2, <1>3

LEMMA GainedBound ==
    ASSUME NEW exp \in Nat, NEW step \in Nat \ {0}, NEW room \in Nat
    PROVE  LET k == Gained(exp, step, room)
           IN k \in 0 .. room /\ step * k \in 0 .. exp
<1>1. PICK q : q = exp \div step /\ q \in Nat /\ step * q <= exp
  BY DivBound
<1>2. PICK k : k = Gained(exp, step, room) /\ k \in 0 .. room /\ k <= q
  BY <1>1 DEF Gained
<1>3. k \in Nat /\ step * k <= step * q
  BY <1>1, <1>2
<1>4. step * k \in Nat /\ step * q \in Nat
  BY <1>1, <1>3
<1>5. step * k <= exp
  BY <1>1, <1>3, <1>4
<1> QED BY <1>2, <1>4, <1>5

\* There are more maps than can be in use at once, so a new one there is.
LEMMA MapsLeft == NewMap \in Maps \ InUse
<1>0. IsFiniteSet(Chars) /\ IsFiniteSet(Workers)
  BY GrowthConstants
<1> DEFINE W == {v \in Workers : "map" \in DOMAIN op[v]}
           A == {grow[c].map : c \in Chars}
           B == {op[w].map : w \in W}
<1>1. IsFiniteSet(A) /\ Cardinality(A) <= Cardinality(Chars)
  <2> DEFINE f == [c \in Chars |-> grow[c].map]
  <2>1. f \in Surjection(Chars, A)
    BY DEF Surjection
  <2> HIDE DEF f, A
  <2> QED BY <1>0, <2>1, FS_Surjection
<1>2. IsFiniteSet(W) /\ Cardinality(W) <= Cardinality(Workers)
  BY <1>0, FS_Subset
<1>3. IsFiniteSet(B) /\ Cardinality(B) <= Cardinality(W)
  <2> DEFINE f == [w \in W |-> op[w].map]
  <2>1. f \in Surjection(W, B)
    BY DEF Surjection
  <2> HIDE DEF f, B, W
  <2> QED BY <1>2, <2>1, FS_Surjection
<1>4. InUse = A \cup B
  BY DEF InUse
<1> HIDE DEF A, B, W
<1>5. IsFiniteSet(InUse) /\ Cardinality(InUse) <= Cardinality(A) + Cardinality(B)
  <2>1. /\ IsFiniteSet(A \cup B)
        /\ Cardinality(A \cup B) = Cardinality(A) + Cardinality(B) - Cardinality(A \cap B)
    BY <1>1, <1>3, FS_Union
  <2>2. IsFiniteSet(A \cap B)
    BY <1>1, FS_Intersection
  <2>3. Cardinality(A) \in Nat /\ Cardinality(B) \in Nat /\ Cardinality(A \cap B) \in Nat
    BY <1>1, <1>3, <2>2, FS_CardinalityType
  <2> QED BY <1>4, <2>1, <2>3
<1>6. /\ Cardinality(A) \in Nat /\ Cardinality(B) \in Nat /\ Cardinality(W) \in Nat
      /\ Cardinality(Chars) \in Nat /\ Cardinality(Workers) \in Nat /\ Cardinality(InUse) \in Nat
  BY <1>0, <1>1, <1>2, <1>3, <1>5, FS_CardinalityType
<1>7. Cardinality(InUse) < Cardinality(Chars) + Cardinality(Workers) + 1
  BY <1>1, <1>2, <1>3, <1>5, <1>6
<1>8. Maps \ InUse # {}
  <2> DEFINE n == Cardinality(Chars) + Cardinality(Workers) + 1
  <2>1. n \in Nat /\ Cardinality(InUse) < n
    BY <1>6, <1>7
  <2> HIDE DEF n
  <2>2. IsFiniteSet(1 .. n) /\ Cardinality(1 .. n) = n
    BY <2>1, FS_Interval
  <2>3. Maps = 1 .. n
    BY DEF Maps, n
  <2>4. ~(Maps \subseteq InUse)
    BY <1>5, <1>6, <2>1, <2>2, <2>3, FS_Subset
  <2> QED BY <2>4
<1>9. Maps \subseteq Nat
  BY <1>6 DEF Maps
<1>10. \E m \in Maps \ InUse : \A n \in Maps \ InUse : m <= n
  <2> DEFINE R == {p \in Nat \X Nat : p[1] < p[2]}
             F == Maps \ InUse
  <2>1. F \subseteq Nat /\ F # {}
    BY <1>8, <1>9
  <2> HIDE DEF F
  <2>2. IsWellFoundedOn(R, Nat)
    BY NatLessThanWellFounded, Zenon DEF OpToRel
  <2>3. PICK m \in F : \A n \in F : <<n, m>> \notin R
    <3> HIDE DEF R
    <3> QED BY <2>1, <2>2, WFMin
  <2>4. \A n \in F : ~(n < m)
    BY <2>1, <2>3
  <2>5. \A n \in F : m <= n
    BY <2>1, <2>4
  <2> QED BY <2>5 DEF F
<1> QED BY <1>10 DEF NewMap

\* What becomes of an entity that gains experience.
LEMMA GrantExpType ==
    ASSUME NEW g \in Grown, NEW gain \in Nat
    PROVE  /\ GrantExp(g, gain) \in Grown
           /\ GrantExp(g, gain).points = g.points /\ GrantExp(g, gain).map = g.map
           /\ GrantExp(g, gain).jobLevel = g.jobLevel
<1>1. \A cur \in 0 .. ExpCap : clampExpAdd(cur, gain) \in 0 .. ExpCap
  BY GrowthConstants DEF clampExpAdd
<1> QED BY <1>1 DEF GrantExp, Grown

LEMMA CheckLevelUpType ==
    ASSUME NEW g \in Grown
    PROVE  /\ CheckLevelUp(g) \in Grown
           /\ CheckLevelUp(g).points = g.points /\ CheckLevelUp(g).map = g.map
           /\ CheckLevelUp(g).jobLevel = g.jobLevel
<1>1. g.base \in 0 .. ExpCap /\ g.level \in 1 .. MaxLevel /\ MaxLevel - g.level \in Nat
  BY GrowthConstants DEF Grown
<1>2. PICK k : k = BaseGained(g) /\ k \in 0 .. MaxLevel - g.level /\ BaseStep * k \in 0 .. g.base
  <2>1. g.base \in Nat /\ BaseStep \in Nat \ {0}
    BY <1>1, GrowthConstants
  <2> QED BY <1>1, <2>1, GainedBound DEF BaseGained
<1>3. PICK cost : cost = BaseStep * k
  OBVIOUS
<1>4. g.base - cost \in 0 .. ExpCap /\ g.level + k \in 1 .. MaxLevel
  BY <1>1, <1>2, <1>3, GrowthConstants
<1>5. CheckLevelUp(g) = [g EXCEPT !.base = g.base - cost, !.level = g.level + k]
  BY <1>2, <1>3 DEF CheckLevelUp, Grown
<1> QED BY <1>4, <1>5 DEF Grown

LEMMA CheckJobLevelUpType ==
    ASSUME NEW g \in Grown
    PROVE  /\ CheckJobLevelUp(g) \in Grown /\ CheckJobLevelUp(g).map = g.map
           /\ CheckJobLevelUp(g).points - g.points = CheckJobLevelUp(g).jobLevel - g.jobLevel
<1>1. g.job \in 0 .. ExpCap /\ g.jobLevel \in 1 .. MaxJob /\ MaxJob - g.jobLevel \in Nat /\ g.points \in Nat
  BY GrowthConstants DEF Grown
<1>2. PICK k : k = JobGained(g) /\ k \in 0 .. MaxJob - g.jobLevel /\ JobStep * k \in 0 .. g.job
  <2>1. g.job \in Nat /\ JobStep \in Nat \ {0}
    BY <1>1, GrowthConstants
  <2> QED BY <1>1, <2>1, GainedBound DEF JobGained
<1>3. PICK cost : cost = JobStep * k
  OBVIOUS
<1>4. g.job - cost \in 0 .. ExpCap /\ g.jobLevel + k \in 1 .. MaxJob /\ g.points + k \in Nat
  BY <1>1, <1>2, <1>3, GrowthConstants
<1>5. CheckJobLevelUp(g) = [g EXCEPT !.job = g.job - cost, !.jobLevel = g.jobLevel + k, !.points = g.points + k]
  BY <1>2, <1>3 DEF CheckJobLevelUp, Grown
<1>6. (g.points + k) - g.points = (g.jobLevel + k) - g.jobLevel
  BY <1>1, <1>2
<1> QED BY <1>4, <1>5, <1>6 DEF Grown

\* The shares of a reward.
LEMMA SplitExpType ==
    ASSUME NEW S, S \subseteq Chars, S # {}
    PROVE  SplitExp(S) \subseteq Awards
<1>1. IsFiniteSet(S)
  BY GrowthConstants, FS_Subset
<1>2. Cardinality(S) \in Nat \ {0}
  BY <1>1, FS_CardinalityType, FS_EmptySet
<1>3. Reward \div Cardinality(S) \in Nat
  BY <1>2, DivBound, BattleConstants
<1> QED BY <1>3 DEF SplitExp, Awards

LEMMA ReturnType ==
    ASSUME OpsOK, NEW w \in Workers, Return(w)
    PROVE  OpsOK' /\ op'[w] = Idle /\ \A v \in Workers : v # w => op'[v] = op[v]
BY OpSet DEF Return, Ops

LEMMA LearnOps ==
    ASSUME TypeInv, NEW w \in Workers,
           (\E c \in Chars : LearnSnapshot(w, c)) \/ LearnStep(w) \/ LearnFails(w)
    PROVE  OpsOK'
<1>0. OpsOK /\ GrowOK /\ BodyOK
  BY DEF TypeInv
<1>1. ASSUME NEW c \in Chars, LearnSnapshot(w, c) PROVE OpsOK'
  <2>1. PICK r : /\ r = [pc |-> "raise", char |-> c, snap |-> grow[c], dead |-> c \in dead, sp |-> sp[c],
                         map |-> grow[c].map, list |-> 0]
                 /\ op' = [op EXCEPT ![w] = r]
    BY <1>1 DEF LearnSnapshot
  <2>2. grow[c] \in Grown /\ grow[c].points > 0
    BY <1>0, <1>1 DEF LearnSnapshot, GrowOK
  <2>3. grow[c] \in Snaps /\ grow[c].map \in Maps \cup {Nil}
    BY <2>2 DEF Snaps, Grown
  <2>4. sp[c] \in 0 .. MaxSP /\ 0 \in 0 .. SkillMax /\ (c \in dead) \in BOOLEAN
    BY <1>0, GrowthConstants DEF BodyOK
  <2>5. r \in Learners
    BY <2>1, <2>3, <2>4 DEF Learners
  <2> QED BY <1>0, <2>1, <2>5, OpSet DEF Ops
<1>2. ASSUME LearnRaise(w) PROVE OpsOK'
  <2>1. op[w] \in Learners
    BY <1>0, <1>2, OpKinds DEF LearnRaise
  <2>2. CASE Return(w)
    BY <1>0, <2>2, ReturnType
  <2>3. CASE ~Return(w)
    <3> DEFINE m == IF op[w].map = Nil THEN NewMap ELSE op[w].map
               level == Learned(op[w].map) + 1
    <3>1. level <= SkillMax /\ op' = [op EXCEPT ![w].pc = "skills", ![w].map = m, ![w].list = level]
      BY <1>2, <2>3 DEF LearnRaise
    <3>2. m \in Maps \cup {Nil}
      BY <2>1, MapsLeft DEF Learners
    <3>3. level \in 0 .. SkillMax
      <4>1. Learned(op[w].map) \in 0 .. SkillMax
        BY <1>0, <2>1, GrowthConstants DEF Learned, GrowOK, Learners
      <4> QED BY <3>1, <4>1, GrowthConstants
    <3> HIDE DEF m, level
    <3>4. PICK r : r = [op[w] EXCEPT !.pc = "skills", !.map = m, !.list = level] /\ op' = [op EXCEPT ![w] = r]
      BY <1>0, <3>1 DEF OpsOK
    <3>5. r \in Learners
      BY <2>1, <3>2, <3>3, <3>4 DEF Learners
    <3> QED BY <1>0, <3>4, <3>5, OpSet DEF Ops
  <2> QED BY <2>2, <2>3
<1>3. ASSUME NEW pc \in {"state", "apply"}, op[w].pc \in {"skills", "state"}, op' = [op EXCEPT ![w].pc = pc]
      PROVE  OpsOK'
  <2>1. op[w] \in Learners
    BY <1>0, <1>3, OpKinds
  <2>2. PICK r : r = [op[w] EXCEPT !.pc = pc] /\ op' = [op EXCEPT ![w] = r]
    BY <1>0, <1>3 DEF OpsOK
  <2>3. r \in Learners
    BY <2>1, <2>2 DEF Learners
  <2> QED BY <1>0, <2>2, <2>3, OpSet DEF Ops
<1>4. ASSUME SaveSkills(w) \/ SaveState(w) PROVE OpsOK'
  BY <1>3, <1>4 DEF SaveSkills, SaveState
<1>5. ASSUME LearnApply(w) \/ LearnFails(w) PROVE OpsOK'
  BY <1>0, <1>5, ReturnType DEF LearnApply, LearnFails
<1> QED BY <1>1, <1>2, <1>4, <1>5 DEF LearnStep

LEMMA FightOps ==
    ASSUME TypeInv, NEW w \in Workers, (\E c \in Chars, t \in Chars \cup Mobs : Attack(w, c, t)) \/ FightStep(w)
    PROVE  OpsOK'
<1>0. OpsOK /\ GrowOK /\ BodyOK
  BY DEF TypeInv
<1>r. ASSUME Return(w) PROVE OpsOK'
  BY <1>0, <1>r, ReturnType
<1>1. ASSUME NEW c \in Chars, NEW t \in Chars \cup Mobs, Attack(w, c, t) PROVE OpsOK'
  <2>1. PICK pc \in {"hit", "spend"} : op' = [op EXCEPT ![w] = [pc |-> pc, char |-> c, who |-> t]]
    BY <1>1 DEF Attack
  <2>2. [pc |-> pc, char |-> c, who |-> t] \in Fighters
    BY DEF Fighters
  <2> QED BY <1>0, <2>1, <2>2, OpSet DEF Ops
<1>2. ASSUME op[w] \in Fighters, op' = [op EXCEPT ![w].pc = "hit"] PROVE OpsOK'
  <2>1. PICK r : r = [op[w] EXCEPT !.pc = "hit"] /\ op' = [op EXCEPT ![w] = r]
    BY <1>0, <1>2 DEF OpsOK
  <2>2. r \in Fighters
    BY <1>2, <2>1 DEF Fighters
  <2> QED BY <1>0, <2>1, <2>2, OpSet DEF Ops
<1>3. ASSUME trySpendSP(w) PROVE OpsOK'
  <2>1. op[w] \in Fighters
    BY <1>0, <1>3, OpKinds DEF trySpendSP
  <2>2. Return(w) \/ op' = [op EXCEPT ![w].pc = "hit"]
    BY <1>3 DEF trySpendSP, Return
  <2> QED BY <1>2, <1>r, <2>1, <2>2
<1>4. ASSUME NEW pc \in {"bury", "remove", "schedule"}, op[w] \in Fighters \cup Buriers, op[w].who \in Mobs,
             op' = [op EXCEPT ![w].pc = pc]
      PROVE  OpsOK'
  <2>1. PICK r : r = [op[w] EXCEPT !.pc = pc] /\ op' = [op EXCEPT ![w] = r]
    BY <1>0, <1>4 DEF OpsOK
  <2>2. r \in Buriers
    BY <1>4, <2>1 DEF Fighters, Buriers
  <2> QED BY <1>0, <2>1, <2>2, OpSet DEF Ops
<1>5. ASSUME NEW d \in Damages, HitMob(w, d) PROVE OpsOK'
  <2>1. op[w] \in Fighters /\ op[w].who \in Mobs
    BY <1>0, <1>5, OpKinds DEF HitMob
  <2>2. Return(w) \/ op' = [op EXCEPT ![w].pc = "bury"]
    BY <1>5 DEF HitMob
  <2> QED BY <1>4, <1>r, <2>1, <2>2
<1>6. ASSUME NEW kill, HitPlayer(w, kill) PROVE OpsOK'
  BY <1>6, <1>r DEF HitPlayer
<1>7. ASSUME Bury(w) \/ Remove(w) PROVE OpsOK'
  <2>1. op[w] \in Buriers
    BY <1>0, <1>7, OpKinds DEF Bury, Remove
  <2>2. op[w].who \in Mobs
    BY <2>1 DEF Buriers
  <2>3. Return(w) \/ \E pc \in {"remove", "schedule"} : op' = [op EXCEPT ![w].pc = pc]
    BY <1>7 DEF Bury, Remove
  <2> QED BY <1>4, <1>r, <2>1, <2>2, <2>3
<1>8. ASSUME scheduleRespawn(w) PROVE OpsOK'
  <2>1. op[w] \in Buriers
    BY <1>0, <1>8, OpKinds DEF scheduleRespawn
  <2>2. PICK r : r = [pc |-> "share", char |-> op[w].char] /\ op' = [op EXCEPT ![w] = r]
    BY <1>8 DEF scheduleRespawn
  <2>3. r \in Sharers
    BY <2>1, <2>2 DEF Buriers, Sharers
  <2> QED BY <1>0, <2>2, <2>3, OpSet DEF Ops
<1>9. ASSUME grantMobExp(w) PROVE OpsOK'
  <2>1. op[w] \in Sharers
    BY <1>0, <1>9, OpKinds DEF grantMobExp
  <2>2. op[w].char \in Chars
    BY <2>1 DEF Sharers
  <2>3. PICK S \in (IF op[w].char \in Party THEN SUBSET Party ELSE {{}}) :
             LET awards == IF S = {} THEN SplitExp({op[w].char})
                           ELSE {a \in SplitExp(S) : a.to \in in \ dead}
             IN op' = [op EXCEPT ![w] = [pc |-> "grant", due |-> awards]]
    BY <1>9 DEF grantMobExp
  <2>4. S \subseteq Chars
    BY <2>3, BattleConstants
  <2>5. SplitExp({op[w].char}) \subseteq Awards /\ (S # {} => SplitExp(S) \subseteq Awards)
    BY <2>2, <2>4, SplitExpType
  <2>6. PICK awards : awards \subseteq Awards /\ op' = [op EXCEPT ![w] = [pc |-> "grant", due |-> awards]]
    BY <2>3, <2>5
  <2>7. [pc |-> "grant", due |-> awards] \in Granters
    BY <2>6 DEF Granters
  <2> QED BY <1>0, <2>6, <2>7, OpSet DEF Ops
<1>10. ASSUME Grant(w) PROVE OpsOK'
  <2>1. op[w] \in Granters \cup Payers
    BY <1>0, <1>10, OpKinds DEF Grant
  <2>2. op[w].due \subseteq Awards
    BY <2>1 DEF Granters, Payers
  <2>3. CASE Return(w)
    BY <1>r, <2>3
  <2>4. CASE ~Return(w)
    <3>1. PICK a \in op[w].due : op' = [op EXCEPT ![w] = [pc |-> IF a.to \in in THEN "level" ELSE "grant",
                                                         to |-> a.to, due |-> op[w].due \ {a}]]
      BY <1>10, <2>4 DEF Grant
    <3>2. PICK r : /\ r = [pc |-> IF a.to \in in THEN "level" ELSE "grant", to |-> a.to, due |-> op[w].due \ {a}]
                   /\ op' = [op EXCEPT ![w] = r]
      BY <3>1
    <3>3. a.to \in Chars
      BY <2>2 DEF Awards
    <3>4. r \in Payers
      BY <2>2, <3>2, <3>3 DEF Payers
    <3> QED BY <1>0, <3>2, <3>4, OpSet DEF Ops
  <2> QED BY <2>3, <2>4
<1>11. ASSUME LevelUp(w) PROVE OpsOK'
  <2>1. op[w] \in Payers
    BY <1>0, <1>11, OpKinds DEF LevelUp
  <2>2. PICK r : r = [op[w] EXCEPT !.pc = "jobLevel"] /\ op' = [op EXCEPT ![w] = r]
    BY <1>0, <1>11 DEF LevelUp, OpsOK
  <2>3. r \in Payers
    BY <2>1, <2>2 DEF Payers
  <2> QED BY <1>0, <2>2, <2>3, OpSet DEF Ops
<1>12. ASSUME JobLevelUp(w) PROVE OpsOK'
  <2>1. op[w] \in Payers
    BY <1>0, <1>12, OpKinds DEF JobLevelUp
  <2>2. PICK r : r = [pc |-> "grant", due |-> op[w].due] /\ op' = [op EXCEPT ![w] = r]
    BY <1>12 DEF JobLevelUp
  <2>3. r \in Granters
    BY <2>1, <2>2 DEF Payers, Granters
  <2> QED BY <1>0, <2>2, <2>3, OpSet DEF Ops
<1> QED BY <1>1, <1>3, <1>5, <1>6, <1>7, <1>8, <1>9, <1>10, <1>11, <1>12 DEF FightStep

\* The handlers are the steps of Growth and Battle that are not the world's own.
Handles(w) ==
    \/ (\E c \in Chars : LearnSnapshot(w, c)) \/ LearnStep(w) \/ LearnFails(w)
    \/ (\E c \in Chars, t \in Chars \cup Mobs : Attack(w, c, t)) \/ FightStep(w)

LEMMA OpFrame ==
    ASSUME [Next]_vars
    PROVE  (\E w \in Workers : Handles(w)) \/ UNCHANGED op
<1>1. CASE RespawnNext /\ UNCHANGED <<growthVars, op, mobVars, kills>>
  BY <1>1
<1>2. CASE GrowthNext
  <2>1. ASSUME NEW c \in Chars, LeaveMap(c) \/ EnterMap(c) \/ Heal(c) PROVE UNCHANGED op
    BY <2>1 DEF LeaveMap, EnterMap, Heal
  <2>2. ASSUME NEW S, RegenTick(S) PROVE UNCHANGED op
    BY <2>2 DEF RegenTick
  <2> QED BY <1>2, <2>1, <2>2 DEF GrowthNext, Handles
<1>3. CASE BattleNext
  <2>1. ASSUME NEW m \in Mobs, MobRespawn(m) \/ \E c \in Chars : Swing(m, c) PROVE UNCHANGED op
    BY <2>1 DEF MobRespawn, Swing
  <2>2. ASSUME resolve PROVE UNCHANGED op
    BY <2>2 DEF resolve
  <2> QED BY <1>3, <2>1, <2>2 DEF BattleNext, Handles
<1>4. CASE UNCHANGED vars
  BY <1>4 DEF vars
<1> QED BY <1>1, <1>2, <1>3, <1>4 DEF Next

LEMMA OpsStep ==
    ASSUME TypeInv, [Next]_vars
    PROVE  OpsOK'
<1>1. CASE UNCHANGED op
  BY <1>1 DEF TypeInv, OpsOK
<1>2. ASSUME NEW w \in Workers, Handles(w) PROVE OpsOK'
  BY <1>2, LearnOps, FightOps DEF Handles
<1> QED BY <1>1, <1>2, OpFrame

LEMMA SpendType ==
    ASSUME BodyOK, NEW what \in Events, Spend(what)
    PROVE  budget' \in [Events -> Nat]
<1>1. budget \in [Events -> Nat] /\ budget[what] \in Nat /\ budget[what] > 0
  BY DEF BodyOK, Spend
<1>2. budget[what] - 1 \in Nat
  BY <1>1
<1> QED BY <1>1, <1>2 DEF Spend

LEMMA RespawnBody ==
    ASSUME TypeInv, RespawnNext
    PROVE  BodyOK'
<1>0. BodyOK /\ MaxSP \in 0 .. MaxSP
  BY RespawnBounds DEF TypeInv
<1>1. ASSUME NEW c \in Chars, DeathMissed(c) \/ \E t \in Timers : ArmRespawn(c, t) PROVE BodyOK'
  <2>1. /\ dying' = [dying EXCEPT ![c] = FALSE]
        /\ UNCHANGED <<in, dead, sp, dropped, stopped, budget>>
    BY <1>1 DEF DeathMissed, ArmRespawn
  <2> QED BY <1>0, <2>1 DEF BodyOK
<1>2. ASSUME NEW c \in Chars, Press(c) PROVE BodyOK'
  <2>1. UNCHANGED <<in, dead, sp, dying, dropped, stopped>>
    BY <1>2 DEF Press
  <2>2. budget' \in [Events -> Nat]
    BY <1>0, <1>2, SpendType DEF Press, Events
  <2> QED BY <1>0, <2>1, <2>2 DEF BodyOK
<1>3. ASSUME NEW c \in Chars, RespawnPlayer(c), UNCHANGED <<in, dying, dropped, stopped, budget>> PROVE BodyOK'
  BY <1>0, <1>3 DEF RespawnPlayer, BodyOK
<1>4. ASSUME NEW c \in Chars, PressStep(c) PROVE BodyOK'
  <2>1. CASE PressCancel(c)
    BY <1>0, <2>1 DEF PressCancel, BodyOK
  <2>2. CASE PressRespawn(c)
    BY <1>3, <2>2 DEF PressRespawn
  <2> QED BY <1>4, <2>1, <2>2 DEF PressStep
<1>5. ASSUME NEW t \in Timers, TimerStep(t) PROVE BodyOK'
  <2>1. CASE Expire(t) \/ Quit(t) \/ ClearSlot(t)
    <3>1. UNCHANGED <<in, dead, sp, dying, dropped, stopped, budget>>
      BY <2>1 DEF Expire, Quit, ClearSlot
    <3> QED BY <1>0, <3>1 DEF BodyOK
  <2>2. CASE TimerRespawn(t)
    <3>1. timer[t].char \in Chars
      <4>1. TimerInv /\ timer[t].pc # "unused"
        BY <2>2 DEF TypeInv, TimerRespawn
      <4> QED BY <4>1, TimerTypes
    <3> QED BY <1>3, <2>2, <3>1 DEF TimerRespawn
  <2> QED BY <1>5, <2>1, <2>2 DEF TimerStep
<1>6. ASSUME Stop PROVE BodyOK'
  <2>1. stopped' = TRUE /\ UNCHANGED <<in, dead, sp, dying, dropped>>
    BY <1>6 DEF Stop
  <2>2. budget' \in [Events -> Nat]
    BY <1>0, <1>6, SpendType DEF Stop, Events
  <2> QED BY <1>0, <2>1, <2>2 DEF BodyOK
<1> QED BY <1>1, <1>2, <1>4, <1>5, <1>6 DEF RespawnNext

LEMMA GrowthBody ==
    ASSUME TypeInv, GrowthNext
    PROVE  BodyOK'
<1>0. BodyOK /\ OpsOK /\ MaxSP \in Nat
  BY RespawnBounds DEF TypeInv
<1>1. ASSUME NEW c \in Chars, LeaveMap(c) PROVE BodyOK'
  <2>1. /\ in' = in \ {c} /\ UNCHANGED <<dead, sp, dying, stopped>>
        /\ dropped' = IF c \in dead THEN dropped \cup {c} ELSE dropped
    BY <1>1 DEF LeaveMap, Leave
  <2>2. budget' \in [Events -> Nat]
    BY <1>0, <1>1, SpendType DEF LeaveMap, Leave, Events
  <2> QED BY <1>0, <2>1, <2>2 DEF BodyOK
<1>2. ASSUME NEW c \in Chars, EnterMap(c) PROVE BodyOK'
  <2>1. in' = in \cup {c} /\ UNCHANGED <<dead, sp, dying, dropped, stopped, budget>>
    BY <1>2 DEF EnterMap, Enter
  <2> QED BY <1>0, <2>1 DEF BodyOK
<1>3. ASSUME NEW c \in Chars, Heal(c) PROVE BodyOK'
  <2>1. dead' = dead \ {c} /\ UNCHANGED <<in, sp, dying, dropped, stopped>>
    BY <1>3 DEF Heal, bodyVars
  <2>2. budget' \in [Events -> Nat]
    BY <1>0, <1>3, SpendType DEF Heal, Events
  <2> QED BY <1>0, <2>1, <2>2 DEF BodyOK
<1>4. ASSUME NEW S, RegenTick(S) PROVE BodyOK'
  <2>1. /\ sp' = [c \in Chars |-> IF c \in S /\ sp[c] < MaxSP THEN sp[c] + 1 ELSE sp[c]]
        /\ UNCHANGED <<in, dead, dying, dropped, stopped>>
    BY <1>4 DEF RegenTick, bodyVars
  <2>2. sp' \in [Chars -> 0 .. MaxSP]
    <3>1. \A c \in Chars : sp[c] \in 0 .. MaxSP
      BY <1>0 DEF BodyOK
    <3>2. \A c \in Chars : (IF c \in S /\ sp[c] < MaxSP THEN sp[c] + 1 ELSE sp[c]) \in 0 .. MaxSP
      BY <1>0, <3>1
    <3> QED BY <2>1, <3>2
  <2>3. budget' \in [Events -> Nat]
    BY <1>0, <1>4, SpendType DEF RegenTick, Events
  <2> QED BY <1>0, <2>1, <2>2, <2>3 DEF BodyOK
<1>5. ASSUME NEW w \in Workers, NEW c \in Chars, LearnSnapshot(w, c) PROVE BodyOK'
  <2>1. UNCHANGED <<in, dead, sp, dying, dropped, stopped>>
    BY <1>5 DEF LearnSnapshot, respawnVars
  <2>2. budget' \in [Events -> Nat]
    BY <1>0, <1>5, SpendType DEF LearnSnapshot, Events
  <2> QED BY <1>0, <2>1, <2>2 DEF BodyOK
<1>6. ASSUME NEW w \in Workers, LearnRaise(w) \/ SaveSkills(w) \/ LearnApply(w) PROVE BodyOK'
  <2>1. UNCHANGED <<in, dead, sp, dying, dropped, stopped, budget>>
    BY <1>6 DEF LearnRaise, SaveSkills, LearnApply, respawnVars
  <2> QED BY <1>0, <2>1 DEF BodyOK
<1>7. ASSUME NEW w \in Workers, SaveState(w) PROVE BodyOK'
  <2>1. op[w] \in Learners
    BY <1>0, <1>7, OpKinds DEF SaveState
  <2>2. op[w].char \in Chars /\ op[w].sp \in 0 .. MaxSP
    BY <2>1 DEF Learners
  <2>3. /\ UNCHANGED <<in, dying, dropped, stopped, budget>>
        /\ dead' \in {dead, dead \cup {op[w].char}, dead \ {op[w].char}}
        /\ sp' = IF op[w].char \in in THEN sp ELSE [sp EXCEPT ![op[w].char] = op[w].sp]
    BY <1>7 DEF SaveState, bodyVars
  <2>4. sp' \in [Chars -> 0 .. MaxSP] /\ dead' \subseteq Chars
    BY <1>0, <2>2, <2>3 DEF BodyOK
  <2> QED BY <1>0, <2>3, <2>4 DEF BodyOK
<1>8. ASSUME NEW w \in Workers, LearnFails(w) PROVE BodyOK'
  <2>1. UNCHANGED <<in, dead, sp, dying, dropped, stopped>>
    BY <1>8 DEF LearnFails, respawnVars
  <2>2. budget' \in [Events -> Nat]
    BY <1>0, <1>8, SpendType DEF LearnFails, Events
  <2> QED BY <1>0, <2>1, <2>2 DEF BodyOK
<1> QED BY <1>1, <1>2, <1>3, <1>4, <1>5, <1>6, <1>7, <1>8 DEF GrowthNext, LearnStep

LEMMA BattleBody ==
    ASSUME TypeInv, BattleNext
    PROVE  BodyOK'
<1>0. BodyOK /\ OpsOK /\ MaxSP \in Nat
  BY RespawnBounds DEF TypeInv
<1>u. ASSUME UNCHANGED <<in, dead, sp, dying, dropped, stopped, budget>> PROVE BodyOK'
  BY <1>0, <1>u DEF BodyOK
<1>1. ASSUME NEW w \in Workers, NEW c \in Chars, NEW t, Attack(w, c, t) PROVE BodyOK'
  <2>1. UNCHANGED <<in, dead, sp, dying, dropped, stopped>>
    BY <1>1 DEF Attack, respawnVars
  <2>2. budget' \in [Events -> Nat]
    BY <1>0, <1>1, SpendType DEF Attack, Events
  <2> QED BY <1>0, <2>1, <2>2 DEF BodyOK
<1>2. ASSUME NEW w \in Workers, trySpendSP(w) PROVE BodyOK'
  <2>1. op[w] \in Fighters
    BY <1>0, <1>2, OpKinds DEF trySpendSP
  <2>2. PICK c \in Chars : c = op[w].char
    BY <2>1 DEF Fighters
  <2>3. /\ UNCHANGED <<in, dead, dying, dropped, stopped, budget>>
        /\ UNCHANGED sp \/ (sp[c] > 0 /\ sp' = [sp EXCEPT ![c] = sp[c] - 1])
    BY <1>2, <2>2 DEF trySpendSP, bodyVars
  <2>4. sp[c] \in 0 .. MaxSP
    BY <1>0 DEF BodyOK
  <2>5. sp[c] > 0 => sp[c] - 1 \in 0 .. MaxSP
    BY <1>0, <2>4
  <2>6. sp' \in [Chars -> 0 .. MaxSP]
    BY <1>0, <2>3, <2>5 DEF BodyOK
  <2> QED BY <1>0, <2>3, <2>6 DEF BodyOK
<1>3. ASSUME NEW w \in Workers, NEW kill, HitPlayer(w, kill) PROVE BodyOK'
  <2>1. PICK c \in Chars : c = op[w].who
    BY <1>3 DEF HitPlayer
  <2>2. /\ UNCHANGED <<in, sp, dying, stopped, budget>>
        /\ UNCHANGED <<dead, dropped>> \/ (dead' = dead \cup {c} /\ dropped' = dropped \cup {c})
    BY <1>3, <2>1 DEF HitPlayer
  <2> QED BY <1>0, <2>2 DEF BodyOK
<1>4. ASSUME NEW w \in Workers, (\E d \in Damages : HitMob(w, d)) \/ Bury(w) \/ Remove(w) \/ scheduleRespawn(w)
                                \/ grantMobExp(w) \/ Grant(w) \/ JobLevelUp(w)
      PROVE  BodyOK'
  <2>1. UNCHANGED <<respawnVars, budget>>
    BY <1>4 DEF HitMob, Bury, Remove, scheduleRespawn, grantMobExp, Grant, JobLevelUp
  <2> QED BY <1>u, <2>1 DEF respawnVars
<1>5. ASSUME NEW w \in Workers, LevelUp(w) PROVE BodyOK'
  <2>1. op[w] \in Payers
    BY <1>0, <1>5, OpKinds DEF LevelUp
  <2>2. op[w].to \in Chars
    BY <2>1 DEF Payers
  <2>3. /\ UNCHANGED <<in, dying, dropped, stopped, budget>>
        /\ UNCHANGED <<dead, sp>> \/ (dead' = dead \ {op[w].to} /\ sp' = [sp EXCEPT ![op[w].to] = MaxSP])
    BY <1>5 DEF LevelUp, LevelUpHeals, bodyVars
  <2>4. MaxSP \in 0 .. MaxSP
    BY <1>0
  <2> QED BY <1>0, <2>2, <2>3, <2>4 DEF BodyOK
<1>6. ASSUME NEW m \in Mobs, MobRespawn(m) PROVE BodyOK'
  BY <1>6, <1>u DEF MobRespawn, respawnVars
<1>7. ASSUME NEW m \in Mobs, NEW c \in Chars, Swing(m, c) PROVE BodyOK'
  <2>1. CASE UNCHANGED <<respawnVars, budget>>
    BY <1>u, <2>1 DEF respawnVars
  <2>2. CASE Die(c)
    <3>1. /\ dead' = dead \cup {c} /\ dying' = [dying EXCEPT ![c] = TRUE] /\ dropped' = dropped \ {c}
          /\ UNCHANGED <<in, sp, stopped>>
      BY <2>2 DEF Die
    <3>2. budget' \in [Events -> Nat]
      BY <1>0, <2>2, SpendType DEF Die, Events
    <3> QED BY <1>0, <3>1, <3>2 DEF BodyOK
  <2> QED BY <1>7, <2>1, <2>2 DEF Swing
<1>8. ASSUME resolve PROVE BodyOK'
  BY <1>8, <1>u DEF resolve, respawnVars
<1> QED BY <1>1, <1>2, <1>3, <1>4, <1>5, <1>6, <1>7, <1>8 DEF BattleNext, FightStep

\* An entity that changes while its character stays in the world.
LEMMA GrowSet ==
    ASSUME GrowOK, NEW c \in Chars, c \in in, NEW g \in Grown, grow' = [grow EXCEPT ![c] = g],
           UNCHANGED <<in, skills, row>>, tangled' \subseteq Chars
    PROVE  GrowOK' /\ grow'[c] = g /\ \A b \in Chars : b # c => grow'[b] = grow[b]
BY DEF GrowOK

LEMMA GrowSame ==
    ASSUME GrowOK, UNCHANGED <<in, grow, skills, row>>, tangled' \subseteq Chars
    PROVE  GrowOK'
BY DEF GrowOK

LEMMA TangleType ==
    ASSUME GrowOK, NEW c \in Chars, Tangle(c)
    PROVE  tangled' \subseteq Chars
BY DEF GrowOK, Tangle

LEMMA LoadedType ==
    ASSUME NEW r \in Kept, NEW m \in Maps
    PROVE  /\ Loaded(r, m) \in Grown
           /\ Loaded(r, m).points = r.points /\ Loaded(r, m).jobLevel = r.jobLevel
           /\ Loaded(r, m).map = IF r.skill = 0 THEN Nil ELSE m
BY DEF Loaded, Grown, Kept

LEMMA GrowthGrow ==
    ASSUME TypeInv, GrowthNext
    PROVE  GrowOK'
<1>0. GrowOK /\ BodyOK /\ OpsOK
  BY DEF TypeInv
<1>1. ASSUME NEW c \in Chars, LeaveMap(c) PROVE GrowOK'
  <2>1. c \in in /\ in' = in \ {c} /\ grow' = [grow EXCEPT ![c] = Absent] /\ UNCHANGED skills
    BY <1>1 DEF LeaveMap, Leave
  <2>2. tangled' \subseteq Chars
    BY <1>0, <1>1, TangleType DEF LeaveMap
  <2>3. grow[c] \in Grown /\ row[c] \in Kept /\ skills \in [Maps -> 0 .. SkillMax]
    BY <1>0, <2>1 DEF GrowOK
  <2>4. PICK k : k = IF grow[c].map = Nil THEN row[c].skill ELSE skills[grow[c].map]
    OBVIOUS
  <2>5. k \in 0 .. SkillMax
    BY <2>3, <2>4 DEF Grown, Kept
  <2>6. PICK r : /\ r = [base |-> grow[c].base, level |-> grow[c].level, job |-> grow[c].job,
                         jobLevel |-> grow[c].jobLevel, points |-> grow[c].points, skill |-> k]
                 /\ row' = [row EXCEPT ![c] = r]
    BY <1>0, <1>1, <2>4 DEF LeaveMap, GrowOK
  <2>7. r \in Kept
    BY <2>3, <2>5, <2>6 DEF Grown, Kept
  <2> QED BY <1>0, <2>1, <2>2, <2>6, <2>7 DEF GrowOK
<1>2. ASSUME NEW c \in Chars, EnterMap(c) PROVE GrowOK'
  <2>1. PICK m : m = NewMap /\ m \in Maps
    BY MapsLeft
  <2>2. /\ c \notin in /\ in' = in \cup {c} /\ grow' = [grow EXCEPT ![c] = Loaded(row[c], m)]
        /\ skills' = IF row[c].skill = 0 THEN skills ELSE [skills EXCEPT ![m] = row[c].skill]
        /\ UNCHANGED <<row, tangled>>
    BY <1>2, <2>1 DEF EnterMap, Enter
  <2>3. row[c] \in Kept /\ skills \in [Maps -> 0 .. SkillMax]
    BY <1>0 DEF GrowOK
  <2>4. PICK g : g = Loaded(row[c], m) /\ g \in Grown
    BY <2>1, <2>3, LoadedType
  <2>5. row[c].skill \in 0 .. SkillMax
    BY <2>3 DEF Kept
  <2>6. skills' \in [Maps -> 0 .. SkillMax]
    BY <2>1, <2>2, <2>3, <2>5
  <2>7. \A b \in Chars : IF b \in in' THEN grow'[b] \in Grown ELSE grow'[b] = Absent
    BY <1>0, <2>2, <2>4 DEF GrowOK
  <2>8. grow' \in [Chars -> Grown \cup {Absent}]
    BY <1>0, <2>2, <2>4 DEF GrowOK
  <2> QED BY <1>0, <2>2, <2>6, <2>7, <2>8 DEF GrowOK
<1>3. ASSUME NEW c \in Chars, Heal(c) PROVE GrowOK'
  BY <1>0, <1>3, GrowSame DEF Heal, bodyVars, growthVars, GrowOK
<1>4. ASSUME NEW S, RegenTick(S) PROVE GrowOK'
  BY <1>0, <1>4, GrowSame DEF RegenTick, bodyVars, growthVars, GrowOK
<1>5. ASSUME NEW w \in Workers, NEW c \in Chars, LearnSnapshot(w, c) PROVE GrowOK'
  <2>1. tangled' \subseteq Chars
    BY <1>0, <1>5, TangleType DEF LearnSnapshot
  <2> QED BY <1>0, <1>5, <2>1, GrowSame DEF LearnSnapshot, respawnVars
<1>6. ASSUME NEW w \in Workers, LearnRaise(w) PROVE GrowOK'
  <2>1. op[w] \in Learners
    BY <1>0, <1>6, OpKinds DEF LearnRaise
  <2>2. PICK m, k : /\ m = (IF op[w].map = Nil THEN NewMap ELSE op[w].map)
                    /\ k = Learned(op[w].map) + 1
    OBVIOUS
  <2>3. /\ UNCHANGED skills \/ (k <= SkillMax /\ skills' = [skills EXCEPT ![m] = k])
        /\ UNCHANGED <<in, grow, row, tangled>>
    BY <1>6, <2>2 DEF LearnRaise, respawnVars
  <2>4. Learned(op[w].map) \in 0 .. SkillMax
    BY <1>0, <2>1, GrowthConstants DEF Learned, GrowOK, Learners
  <2>5. k <= SkillMax => k \in 0 .. SkillMax
    BY <2>2, <2>4, GrowthConstants
  <2>6. skills' \in [Maps -> 0 .. SkillMax]
    BY <1>0, <2>3, <2>5 DEF GrowOK
  <2> QED BY <1>0, <2>3, <2>6 DEF GrowOK
<1>7. ASSUME NEW w \in Workers, SaveSkills(w) PROVE GrowOK'
  <2>1. op[w] \in Learners
    BY <1>0, <1>7, OpKinds DEF SaveSkills
  <2>2. PICK c \in Chars : c = op[w].char
    BY <2>1 DEF Learners
  <2>3. PICK r : r = [row[c] EXCEPT !.skill = op[w].list] /\ row' = [row EXCEPT ![c] = r]
    BY <1>0, <1>7, <2>2 DEF SaveSkills, GrowOK
  <2>4. row[c] \in Kept /\ op[w].list \in 0 .. SkillMax
    BY <1>0, <2>1 DEF GrowOK, Learners
  <2>5. r \in Kept
    BY <2>3, <2>4 DEF Kept
  <2>6. UNCHANGED <<in, grow, skills, tangled>>
    BY <1>7 DEF SaveSkills, respawnVars
  <2> QED BY <1>0, <2>3, <2>5, <2>6 DEF GrowOK
<1>8. ASSUME NEW w \in Workers, SaveState(w) PROVE GrowOK'
  <2>1. op[w] \in Learners
    BY <1>0, <1>8, OpKinds DEF SaveState
  <2>2. PICK c \in Chars : c = op[w].char
    BY <2>1 DEF Learners
  <2>3. PICK s \in Snaps : s = op[w].snap
    BY <2>1 DEF Learners
  <2>4. s \in Grown /\ s.points - 1 \in Nat
    BY DEF Snaps, Grown
  <2>5. PICK r : /\ r = [base |-> s.base, level |-> s.level, job |-> s.job, jobLevel |-> s.jobLevel,
                         points |-> s.points - 1, skill |-> row[c].skill]
                 /\ row' = [row EXCEPT ![c] = r]
    BY <1>0, <1>8, <2>2, <2>3 DEF SaveState, GrowOK
  <2>6. row[c].skill \in 0 .. SkillMax
    BY <1>0 DEF GrowOK, Kept
  <2>7. r \in Kept
    BY <2>4, <2>5, <2>6 DEF Grown, Kept
  <2>8. UNCHANGED <<in, grow, skills, tangled>>
    BY <1>8 DEF SaveState, bodyVars
  <2> QED BY <1>0, <2>5, <2>7, <2>8 DEF GrowOK
<1>9. ASSUME NEW w \in Workers, LearnApply(w) PROVE GrowOK'
  <2>1. op[w] \in Learners
    BY <1>0, <1>9, OpKinds DEF LearnApply
  <2>2. PICK c \in Chars : c = op[w].char
    BY <2>1 DEF Learners
  <2>3. op[w].snap \in Snaps /\ op[w].map \in Maps \cup {Nil}
    BY <2>1 DEF Learners
  <2>4. PICK k : k = op[w].snap.points - 1 /\ k \in Nat
    BY <2>3 DEF Snaps, Grown
  <2>5. UNCHANGED <<in, skills, row, tangled>>
    BY <1>9 DEF LearnApply, respawnVars
  <2>6. CASE c \in in
    <3>1. PICK g : g = [grow[c] EXCEPT !.points = k, !.map = op[w].map] /\ grow' = [grow EXCEPT ![c] = g]
      BY <1>0, <1>9, <2>2, <2>4, <2>6 DEF LearnApply, GrowOK
    <3>2. grow[c] \in Grown
      BY <1>0, <2>6 DEF GrowOK
    <3>3. g \in Grown
      BY <2>3, <2>4, <3>1, <3>2 DEF Grown
    <3> QED BY <1>0, <2>5, <2>6, <3>1, <3>3, GrowSet DEF GrowOK
  <2>7. CASE c \notin in
    BY <1>0, <1>9, <2>2, <2>5, <2>7, GrowSame DEF LearnApply, GrowOK
  <2> QED BY <2>6, <2>7
<1>10. ASSUME NEW w \in Workers, LearnFails(w) PROVE GrowOK'
  <2>1. op[w] \in Learners
    BY <1>0, <1>10, OpKinds DEF LearnFails
  <2>2. op[w].char \in Chars
    BY <2>1 DEF Learners
  <2>3. tangled' \subseteq Chars
    BY <1>0, <1>10, <2>2 DEF LearnFails, GrowOK
  <2> QED BY <1>0, <1>10, <2>3, GrowSame DEF LearnFails, respawnVars
<1> QED BY <1>1, <1>2, <1>3, <1>4, <1>5, <1>6, <1>7, <1>8, <1>9, <1>10 DEF GrowthNext, LearnStep

LEMMA BattleGrow ==
    ASSUME TypeInv, BattleNext
    PROVE  GrowOK'
<1>0. GrowOK /\ BodyOK /\ OpsOK
  BY DEF TypeInv
<1>u. ASSUME UNCHANGED <<in, growthVars>> PROVE GrowOK'
  BY <1>0, <1>u, GrowSame DEF growthVars, GrowOK
<1>1. ASSUME NEW w \in Workers, NEW c \in Chars, NEW t, Attack(w, c, t) PROVE GrowOK'
  BY <1>1, <1>u DEF Attack, respawnVars
<1>2. ASSUME NEW w \in Workers,
             \/ trySpendSP(w) \/ (\E d \in Damages : HitMob(w, d)) \/ (\E kill \in BOOLEAN : HitPlayer(w, kill))
             \/ Bury(w) \/ Remove(w) \/ scheduleRespawn(w) \/ grantMobExp(w)
      PROVE  GrowOK'
  <2>1. UNCHANGED <<in, growthVars>>
    BY <1>2 DEF trySpendSP, HitMob, HitPlayer, Bury, Remove, scheduleRespawn, grantMobExp, respawnVars, bodyVars
  <2> QED BY <1>u, <2>1
<1>3. ASSUME NEW w \in Workers, Grant(w) PROVE GrowOK'
  <2>1. op[w] \in Granters \cup Payers
    BY <1>0, <1>3, OpKinds DEF Grant
  <2>2. op[w].due \subseteq Awards
    BY <2>1 DEF Granters, Payers
  <2>3. UNCHANGED <<in, skills, row, tangled>>
    BY <1>3 DEF Grant, respawnVars
  <2>4. CASE UNCHANGED grow
    BY <1>0, <2>3, <2>4, GrowSame DEF GrowOK
  <2>5. CASE grow' # grow
    <3>1. PICK a \in op[w].due : a.to \in in /\ grow' = [grow EXCEPT ![a.to] = GrantExp(@, a.gain)]
      BY <1>3, <2>5 DEF Grant
    <3>2. PICK c \in Chars : c = a.to /\ a.gain \in Nat
      BY <2>2 DEF Awards
    <3>3. grow' = [grow EXCEPT ![c] = GrantExp(grow[c], a.gain)] /\ grow[c] \in Grown /\ c \in in
      BY <1>0, <3>1, <3>2 DEF GrowOK
    <3> QED BY <1>0, <2>3, <3>2, <3>3, GrantExpType, GrowSet DEF GrowOK
  <2> QED BY <2>4, <2>5
<1>4. ASSUME NEW w \in Workers, LevelUp(w) PROVE GrowOK'
  <2>1. op[w] \in Payers
    BY <1>0, <1>4, OpKinds DEF LevelUp
  <2>2. PICK c \in Chars : c = op[w].to
    BY <2>1 DEF Payers
  <2>3. UNCHANGED <<in, skills, row, tangled>>
    BY <1>4 DEF LevelUp, bodyVars
  <2>4. CASE c \notin in
    BY <1>0, <1>4, <2>2, <2>3, <2>4, GrowSame DEF LevelUp, GrowOK
  <2>5. CASE c \in in
    <3>1. grow' = [grow EXCEPT ![c] = CheckLevelUp(grow[c])] /\ grow[c] \in Grown
      BY <1>0, <1>4, <2>2, <2>5 DEF LevelUp, GrowOK
    <3> QED BY <1>0, <2>3, <2>5, <3>1, CheckLevelUpType, GrowSet DEF GrowOK
  <2> QED BY <2>4, <2>5
<1>5. ASSUME NEW w \in Workers, JobLevelUp(w) PROVE GrowOK'
  <2>1. op[w] \in Payers
    BY <1>0, <1>5, OpKinds DEF JobLevelUp
  <2>2. PICK c \in Chars : c = op[w].to
    BY <2>1 DEF Payers
  <2>3. UNCHANGED <<in, skills, row>>
    BY <1>5 DEF JobLevelUp, respawnVars
  <2>4. CASE UNCHANGED <<grow, tangled>>
    BY <1>0, <2>3, <2>4, GrowSame DEF GrowOK
  <2>5. CASE c \in in /\ grow' = [grow EXCEPT ![c] = CheckJobLevelUp(@)] /\ Tangle(c)
    <3>1. grow' = [grow EXCEPT ![c] = CheckJobLevelUp(grow[c])] /\ grow[c] \in Grown
      BY <1>0, <2>5 DEF GrowOK
    <3>2. tangled' \subseteq Chars
      BY <1>0, <2>5, TangleType
    <3> QED BY <1>0, <2>3, <2>5, <3>1, <3>2, CheckJobLevelUpType, GrowSet
  <2> QED BY <1>5, <2>2, <2>4, <2>5 DEF JobLevelUp
<1>6. ASSUME NEW m \in Mobs, MobRespawn(m) PROVE GrowOK'
  BY <1>6, <1>u DEF MobRespawn, respawnVars
<1>7. ASSUME NEW m \in Mobs, NEW c \in Chars, Swing(m, c) PROVE GrowOK'
  BY <1>7, <1>u DEF Swing, Die, respawnVars
<1>8. ASSUME resolve PROVE GrowOK'
  BY <1>8, <1>u DEF resolve, respawnVars
<1> QED BY <1>1, <1>2, <1>3, <1>4, <1>5, <1>6, <1>7, <1>8 DEF BattleNext, FightStep

LEMMA MobsStep ==
    ASSUME TypeInv, [Next]_vars
    PROVE  MobsOK'
<1>0. MobsOK /\ OpsOK /\ BodyOK
  BY DEF TypeInv
<1>u. ASSUME UNCHANGED <<mobVars, kills>> PROVE MobsOK'
  BY <1>0, <1>u DEF MobsOK, mobVars
<1>1. CASE RespawnNext /\ UNCHANGED <<growthVars, op, mobVars, kills>>
  BY <1>1, <1>u
<1>2. CASE GrowthNext /\ UNCHANGED <<mobVars, kills>>
  BY <1>2, <1>u
<1>3. ASSUME NEW w \in Workers, NEW c \in Chars, NEW t, Attack(w, c, t) PROVE MobsOK'
  BY <1>3, <1>u DEF Attack
<1>4. ASSUME NEW w \in Workers,
             \/ trySpendSP(w) \/ (\E kill \in BOOLEAN : HitPlayer(w, kill))
             \/ Bury(w) \/ grantMobExp(w) \/ Grant(w) \/ LevelUp(w) \/ JobLevelUp(w)
      PROVE  MobsOK'
  <2>1. UNCHANGED <<mobVars, kills>>
    BY <1>4 DEF trySpendSP, HitPlayer, Bury, grantMobExp, Grant, LevelUp, JobLevelUp
  <2> QED BY <1>u, <2>1
<1>5. ASSUME NEW w \in Workers, NEW d \in Damages, HitMob(w, d) PROVE MobsOK'
  <2>1. PICK m \in Mobs : m = op[w].who
    BY <1>5 DEF HitMob
  <2>2. /\ mob' = IF mob[m] = Gone THEN mob ELSE [mob EXCEPT ![m] = Left(mob[m], d)]
        /\ kills' \in {kills, kills + 1} /\ UNCHANGED <<back, swing>>
    BY <1>5, <2>1 DEF HitMob
  <2>3. mob[m] # Gone => Left(mob[m], d) \in 0 .. MobLife
    <3>1. d \in Nat /\ MobLife \in Nat /\ mob[m] \in {Gone} \cup 0 .. MobLife
      BY <1>0, BattleConstants DEF MobsOK
    <3> QED BY <3>1 DEF Left
  <2>4. mob' \in [Mobs -> {Gone} \cup 0 .. MobLife]
    BY <1>0, <2>2, <2>3 DEF MobsOK
  <2>5. kills' \in Nat
    BY <1>0, <2>2 DEF MobsOK
  <2> QED BY <1>0, <2>2, <2>4, <2>5 DEF MobsOK
<1>6. ASSUME NEW w \in Workers, Remove(w) PROVE MobsOK'
  <2>1. mob' = [mob EXCEPT ![op[w].who] = Gone] /\ UNCHANGED <<back, swing, kills>>
    BY <1>6 DEF Remove
  <2> QED BY <1>0, <2>1 DEF MobsOK
<1>7. ASSUME NEW w \in Workers, scheduleRespawn(w) PROVE MobsOK'
  <2>1. op[w] \in Buriers
    BY <1>0, <1>7, OpKinds DEF scheduleRespawn
  <2>2. PICK m \in Mobs : m = op[w].who
    BY <2>1 DEF Buriers
  <2>3. back' = [back EXCEPT ![m] = back[m] + 1] /\ UNCHANGED <<mob, swing, kills>>
    BY <1>0, <1>7, <2>2 DEF scheduleRespawn, MobsOK
  <2>4. back[m] + 1 \in Nat
    BY <1>0 DEF MobsOK
  <2> QED BY <1>0, <2>3, <2>4 DEF MobsOK
<1>8. ASSUME NEW m \in Mobs, MobRespawn(m) PROVE MobsOK'
  <2>1. /\ back[m] > 0 /\ back' = [back EXCEPT ![m] = back[m] - 1] /\ UNCHANGED <<swing, kills>>
        /\ mob' \in {mob, [mob EXCEPT ![m] = MobLife]}
    BY <1>8 DEF MobRespawn
  <2>2. back[m] - 1 \in Nat /\ MobLife \in 0 .. MobLife
    BY <1>0, <2>1, BattleConstants DEF MobsOK
  <2>3. back' \in [Mobs -> Nat] /\ mob' \in [Mobs -> {Gone} \cup 0 .. MobLife]
    BY <1>0, <2>1, <2>2 DEF MobsOK
  <2> QED BY <1>0, <2>1, <2>3 DEF MobsOK
<1>9. ASSUME NEW m \in Mobs, NEW c \in Chars, Swing(m, c) PROVE MobsOK'
  BY <1>0, <1>9 DEF Swing, MobsOK
<1>10. ASSUME resolve PROVE MobsOK'
  <2>1. /\ UNCHANGED <<mob, back, kills>>
        /\ \E due \in SUBSET {m \in Mobs : mob[m] > 0} \ {{}} : \E f \in [due -> in \ dead] :
              swing' = {<<m, f[m]>> : m \in due}
    BY <1>10 DEF resolve
  <2>2. PICK due \in SUBSET {m \in Mobs : mob[m] > 0} \ {{}} : \E f \in [due -> in \ dead] :
              swing' = {<<m, f[m]>> : m \in due}
    BY <2>1
  <2>3. PICK f \in [due -> in \ dead] : swing' = {<<m, f[m]>> : m \in due}
    BY <2>2
  <2>4. \A m \in due : m \in Mobs /\ f[m] \in Chars
    BY <1>0, <2>2, <2>3 DEF BodyOK
  <2>5. swing' \subseteq Mobs \X Chars
    BY <2>3, <2>4
  <2> QED BY <1>0, <2>1, <2>5 DEF MobsOK
<1>11. CASE UNCHANGED vars
  BY <1>11, <1>u DEF vars
<1> QED BY <1>1, <1>2, <1>3, <1>4, <1>5, <1>6, <1>7, <1>8, <1>9, <1>10, <1>11 DEF Next, BattleNext, FightStep

LEMMA TypeStep ==
    ASSUME TypeInv, [Next]_vars
    PROVE  TypeInv'
<1>1. TimerInv' /\ OpsOK' /\ MobsOK'
  BY TimerStepInv, OpsStep, MobsStep DEF TypeInv
<1>2. CASE RespawnNext /\ UNCHANGED <<growthVars, op, mobVars, kills>>
  <2>1. BodyOK'
    BY <1>2, RespawnBody
  <2>2. UNCHANGED in
    <3>1. ASSUME NEW c \in Chars, DeathMissed(c) \/ (\E t \in Timers : ArmRespawn(c, t)) \/ Press(c) \/ PressStep(c)
          PROVE  UNCHANGED in
      BY <3>1 DEF DeathMissed, ArmRespawn, Press, PressStep, PressCancel, PressRespawn
    <3>2. ASSUME NEW t \in Timers, TimerStep(t) PROVE UNCHANGED in
      BY <3>2 DEF TimerStep, Expire, Quit, ClearSlot, TimerRespawn
    <3>3. ASSUME Stop PROVE UNCHANGED in
      BY <3>3 DEF Stop
    <3> QED BY <1>2, <3>1, <3>2, <3>3 DEF RespawnNext
  <2>3. GrowOK'
    BY <1>2, <2>2, GrowSame DEF TypeInv, growthVars, GrowOK
  <2> QED BY <1>1, <2>1, <2>3 DEF TypeInv
<1>3. CASE GrowthNext
  BY <1>1, <1>3, GrowthBody, GrowthGrow DEF TypeInv
<1>4. CASE BattleNext
  BY <1>1, <1>4, BattleBody, BattleGrow DEF TypeInv
<1>5. CASE UNCHANGED vars
  <2>1. BodyOK' /\ GrowOK'
    BY <1>5 DEF TypeInv, BodyOK, GrowOK, vars, respawnVars, growthVars
  <2> QED BY <1>1, <2>1 DEF TypeInv
<1> QED BY <1>2, <1>3, <1>4, <1>5 DEF Next

\* Everybody starts with a map of their own.
LEMMA InitMaps ==
    ASSUME GrowthInit
    PROVE  \E id \in [Chars -> 1 .. Cardinality(Chars)] :
              /\ \A b, c \in Chars : id[b] = id[c] => b = c
              /\ grow = [c \in Chars |-> Loaded(Newcomer(c), id[c])]
              /\ skills = [m \in Maps |->
                    IF \E c \in Chars : id[c] = m THEN StartSkill[CHOOSE c \in Chars : id[c] = m] ELSE 0]
<1>1. \E f \in [Chars -> 1 .. Cardinality(Chars)] : \A b, c \in Chars : f[b] = f[c] => b = c
  <2>1. IsFiniteSet(Chars) /\ ExistsBijection(1 .. Cardinality(Chars), Chars)
    BY GrowthConstants, FS_CardinalityType
  <2>2. ExistsBijection(Chars, 1 .. Cardinality(Chars))
    BY <2>1, Fun_ExistsBijSymmetric
  <2>3. PICK f : f \in Bijection(Chars, 1 .. Cardinality(Chars))
    BY <2>2 DEF ExistsBijection
  <2>4. f \in Injection(Chars, 1 .. Cardinality(Chars))
    BY <2>3 DEF Bijection
  <2> QED BY <2>4 DEF Injection, IsInjective
<1> DEFINE id == CHOOSE f \in [Chars -> 1 .. Cardinality(Chars)] : \A b, c \in Chars : f[b] = f[c] => b = c
<1>2. id \in [Chars -> 1 .. Cardinality(Chars)] /\ \A b, c \in Chars : id[b] = id[c] => b = c
  BY <1>1
<1>3. /\ grow = [c \in Chars |-> Loaded(Newcomer(c), id[c])]
      /\ skills = [m \in Maps |->
            IF \E c \in Chars : id[c] = m THEN StartSkill[CHOOSE c \in Chars : id[c] = m] ELSE 0]
  BY DEF GrowthInit
<1> HIDE DEF id
<1> QED BY <1>2, <1>3

LEMMA NewcomerType ==
    ASSUME NEW c \in Chars
    PROVE  /\ Newcomer(c) \in Kept /\ Newcomer(c).points = StartPoints
           /\ Newcomer(c).skill = StartSkill[c] /\ Newcomer(c).jobLevel = 1
<1>1. /\ 0 \in 0 .. ExpCap /\ 1 \in 1 .. MaxLevel /\ 1 \in 1 .. MaxJob
      /\ StartPoints \in Nat /\ StartSkill[c] \in 0 .. SkillMax
  BY GrowthConstants
<1> QED BY <1>1 DEF Newcomer, Kept

LEMMA InitType ==
    ASSUME Init
    PROVE  TypeInv
<1>0. RespawnInit /\ GrowthInit
  BY DEF Init
<1>1. TimerInv
  <2>2. TimersOK /\ TookInv
    BY <1>0 DEF RespawnInit, TimersOK, TookInv, NoPress, NoTimer
  <2>3. NoLostTimer
    BY <1>0 DEF RespawnInit, NoLostTimer, NoTimer
  <2> QED BY <2>2, <2>3 DEF TimerInv
<1>2. OpsOK
  BY <1>0 DEF GrowthInit, OpsOK, Ops
<1>3. BodyOK
  <2>1. MaxSP \in 0 .. MaxSP /\ budget \in [Events -> Nat]
    BY <1>0, RespawnBounds DEF RespawnInit
  <2> QED BY <1>0, <2>1 DEF RespawnInit, BodyOK
<1>4. MobsOK
  BY BattleConstants DEF Init, MobsOK
<1>5. GrowOK
  <2>1. PICK id \in [Chars -> 1 .. Cardinality(Chars)] :
              /\ grow = [c \in Chars |-> Loaded(Newcomer(c), id[c])]
              /\ skills = [m \in Maps |->
                    IF \E c \in Chars : id[c] = m THEN StartSkill[CHOOSE c \in Chars : id[c] = m] ELSE 0]
    BY <1>0, InitMaps
  <2>2. Cardinality(Chars) \in Nat /\ Cardinality(Workers) \in Nat
    BY GrowthConstants, FS_CardinalityType
  <2>3. \A c \in Chars : id[c] \in Maps
    <3>1. \A m \in 1 .. Cardinality(Chars) : m \in Maps
      BY <2>2 DEF Maps
    <3> QED BY <3>1
  <2>4. \A c \in Chars : grow[c] \in Grown
    BY <2>1, <2>3, LoadedType, NewcomerType
  <2>5. skills \in [Maps -> 0 .. SkillMax]
    <3>1. ASSUME NEW m, \E c \in Chars : id[c] = m
          PROVE  StartSkill[CHOOSE c \in Chars : id[c] = m] \in 0 .. SkillMax
      BY <3>1, GrowthConstants
    <3>2. 0 \in 0 .. SkillMax
      BY GrowthConstants
    <3>3. \A m \in Maps : skills[m] \in 0 .. SkillMax
      BY <2>1, <3>1, <3>2
    <3>4. PICK f : f = [m \in Maps |-> skills[m]]
      OBVIOUS
    <3>5. skills = f
      BY <2>1, <3>4
    <3> QED BY <3>3, <3>4, <3>5
  <2>6. row \in [Chars -> Kept]
    BY <1>0, NewcomerType DEF GrowthInit
  <2>7. in = Chars /\ tangled = {} /\ grow \in [Chars -> Grown \cup {Absent}]
    BY <1>0, <2>1, <2>4 DEF RespawnInit, GrowthInit
  <2> QED BY <2>4, <2>5, <2>6, <2>7 DEF GrowOK
<1> QED BY <1>1, <1>2, <1>3, <1>4, <1>5 DEF TypeInv

-----------------------------------------------------------------------------
\* Mobs.

LearnPcs == {"raise", "skills", "state", "apply"}
BuryPcs == {"bury", "remove", "schedule"}

\* What a handler of an attack moves on to.
LEMMA FightPcs ==
    ASSUME TypeInv, NEW w \in Workers, (\E c \in Chars, t \in Chars \cup Mobs : Attack(w, c, t)) \/ FightStep(w)
    PROVE  /\ \A v \in Workers : v # w => op'[v] = op[v]
           /\ op[w].pc \notin LearnPcs /\ op'[w].pc \notin LearnPcs
           /\ \/ op[w].pc \notin BuryPcs /\ op'[w].pc \notin BuryPcs
              \/ (\E d \in Damages : HitMob(w, d)) \/ Bury(w) \/ Remove(w) \/ scheduleRespawn(w)
           /\ \/ op'[w].pc \in {"idle", "hit", "spend"}
              \/ op[w].pc \in BuryPcs /\ op'[w].pc \in BuryPcs \cup {"share"}
              \/ (\E d \in Damages : HitMob(w, d)) \/ grantMobExp(w) \/ Grant(w) \/ LevelUp(w) \/ JobLevelUp(w)
<1>0. OpsOK /\ Idle.pc = "idle"
  BY DEF TypeInv, Idle
<1>o. ASSUME NEW r, op' = [op EXCEPT ![w] = r] PROVE op'[w] = r /\ \A v \in Workers : v # w => op'[v] = op[v]
  BY <1>0, <1>o DEF OpsOK
<1>p. ASSUME op[w] \in Fighters \cup Buriers \cup Payers, NEW pc, op' = [op EXCEPT ![w].pc = pc]
      PROVE  op'[w].pc = pc /\ \A v \in Workers : v # w => op'[v] = op[v]
  <2>1. PICK r : r = [op[w] EXCEPT !.pc = pc] /\ op' = [op EXCEPT ![w] = r]
    BY <1>0, <1>p DEF OpsOK
  <2>2. r.pc = pc
    BY <1>p, <2>1 DEF Fighters, Buriers, Payers
  <2> QED BY <1>o, <2>1, <2>2
<1>r. ASSUME Return(w) PROVE op'[w].pc = "idle" /\ \A v \in Workers : v # w => op'[v] = op[v]
  BY <1>0, <1>r, <1>o DEF Return
<1>1. ASSUME NEW c \in Chars, NEW t \in Chars \cup Mobs, Attack(w, c, t)
      PROVE  /\ op[w].pc = "idle" /\ op'[w].pc \in {"hit", "spend"} /\ \A v \in Workers : v # w => op'[v] = op[v]
  <2>1. PICK pc \in {"hit", "spend"} : op' = [op EXCEPT ![w] = [pc |-> pc, char |-> c, who |-> t]]
    BY <1>1 DEF Attack
  <2>2. PICK r : r = [pc |-> pc, char |-> c, who |-> t] /\ op' = [op EXCEPT ![w] = r]
    BY <2>1
  <2>3. r.pc \in {"hit", "spend"}
    BY <2>2
  <2> QED BY <1>0, <1>1, <1>o, <2>2, <2>3 DEF Attack
<1>2. ASSUME trySpendSP(w)
      PROVE  /\ op[w].pc = "spend" /\ op'[w].pc \in {"idle", "hit"} /\ \A v \in Workers : v # w => op'[v] = op[v]
  <2>1. op[w].pc = "spend" /\ op[w] \in Fighters
    BY <1>0, <1>2, OpKinds DEF trySpendSP
  <2>2. Return(w) \/ op' = [op EXCEPT ![w].pc = "hit"]
    BY <1>2 DEF trySpendSP, Return
  <2> QED BY <1>p, <1>r, <2>1, <2>2
<1>3. ASSUME NEW d \in Damages, HitMob(w, d)
      PROVE  /\ op[w].pc = "hit" /\ op'[w].pc \in {"idle", "bury"} /\ \A v \in Workers : v # w => op'[v] = op[v]
  <2>1. op[w].pc = "hit" /\ op[w] \in Fighters
    BY <1>0, <1>3, OpKinds DEF HitMob
  <2>2. Return(w) \/ op' = [op EXCEPT ![w].pc = "bury"]
    BY <1>3 DEF HitMob
  <2> QED BY <1>p, <1>r, <2>1, <2>2
<1>4. ASSUME NEW kill, HitPlayer(w, kill)
      PROVE  /\ op[w].pc = "hit" /\ op'[w].pc = "idle" /\ \A v \in Workers : v # w => op'[v] = op[v]
  BY <1>4, <1>r DEF HitPlayer
<1>5. ASSUME Bury(w) \/ Remove(w)
      PROVE  /\ op[w].pc \in BuryPcs /\ op'[w].pc \in {"idle", "remove", "schedule"}
             /\ \A v \in Workers : v # w => op'[v] = op[v]
  <2>1. op[w].pc \in BuryPcs /\ op[w] \in Buriers
    BY <1>0, <1>5, OpKinds DEF Bury, Remove, BuryPcs
  <2>2. Return(w) \/ \E pc \in {"remove", "schedule"} : op' = [op EXCEPT ![w].pc = pc]
    BY <1>5 DEF Bury, Remove
  <2> QED BY <1>p, <1>r, <2>1, <2>2
<1>6. ASSUME scheduleRespawn(w)
      PROVE  /\ op[w].pc \in BuryPcs /\ op'[w].pc = "share" /\ \A v \in Workers : v # w => op'[v] = op[v]
  <2>1. PICK r : r = [pc |-> "share", char |-> op[w].char] /\ op' = [op EXCEPT ![w] = r] /\ op[w].pc = "schedule"
    BY <1>6 DEF scheduleRespawn
  <2>2. r.pc = "share"
    BY <2>1
  <2> QED BY <1>o, <2>1, <2>2 DEF BuryPcs
<1>7. ASSUME grantMobExp(w)
      PROVE  /\ op[w].pc = "share" /\ op'[w].pc = "grant" /\ \A v \in Workers : v # w => op'[v] = op[v]
  <2>1. PICK due : op' = [op EXCEPT ![w] = [pc |-> "grant", due |-> due]]
    BY <1>7 DEF grantMobExp
  <2>2. PICK r : r = [pc |-> "grant", due |-> due] /\ op' = [op EXCEPT ![w] = r]
    BY <2>1
  <2>3. r.pc = "grant"
    BY <2>2
  <2> QED BY <1>7, <1>o, <2>2, <2>3 DEF grantMobExp
<1>8. ASSUME Grant(w)
      PROVE  /\ op[w].pc = "grant" /\ op'[w].pc \in {"idle", "grant", "level"}
             /\ \A v \in Workers : v # w => op'[v] = op[v]
  <2>1. op[w].pc = "grant"
    BY <1>8 DEF Grant
  <2>2. CASE Return(w)
    BY <1>r, <2>1, <2>2
  <2>3. CASE ~Return(w)
    <3>1. PICK a \in op[w].due : op' = [op EXCEPT ![w] = [pc |-> IF a.to \in in THEN "level" ELSE "grant",
                                                         to |-> a.to, due |-> op[w].due \ {a}]]
      BY <1>8, <2>3 DEF Grant
    <3>2. PICK r : /\ r = [pc |-> IF a.to \in in THEN "level" ELSE "grant", to |-> a.to, due |-> op[w].due \ {a}]
                   /\ op' = [op EXCEPT ![w] = r]
      BY <3>1
    <3>3. r.pc \in {"grant", "level"}
      BY <3>2
    <3> QED BY <1>o, <2>1, <3>2, <3>3
  <2> QED BY <2>2, <2>3
<1>9. ASSUME LevelUp(w)
      PROVE  /\ op[w].pc = "level" /\ op'[w].pc = "jobLevel" /\ \A v \in Workers : v # w => op'[v] = op[v]
  <2>1. op[w].pc = "level" /\ op[w] \in Payers /\ op' = [op EXCEPT ![w].pc = "jobLevel"]
    BY <1>0, <1>9, OpKinds DEF LevelUp
  <2> QED BY <1>p, <2>1
<1>10. ASSUME JobLevelUp(w)
      PROVE  /\ op[w].pc = "jobLevel" /\ op'[w].pc = "grant" /\ \A v \in Workers : v # w => op'[v] = op[v]
  <2>1. PICK r : r = [pc |-> "grant", due |-> op[w].due] /\ op' = [op EXCEPT ![w] = r] /\ op[w].pc = "jobLevel"
    BY <1>10 DEF JobLevelUp
  <2>2. r.pc = "grant"
    BY <2>1
  <2> QED BY <1>o, <2>1, <2>2
<1> QED BY <1>1, <1>2, <1>3, <1>4, <1>5, <1>6, <1>7, <1>8, <1>9, <1>10 DEF FightStep, LearnPcs, BuryPcs

\* What a handler that learns a skill moves on to.
LEMMA LearnPcsStep ==
    ASSUME TypeInv, NEW w \in Workers,
           (\E c \in Chars : LearnSnapshot(w, c)) \/ LearnStep(w) \/ LearnFails(w)
    PROVE  /\ \A v \in Workers : v # w => op'[v] = op[v]
           /\ op[w].pc \notin BuryPcs /\ op'[w].pc \notin BuryPcs
           /\ op'[w].pc \in LearnPcs \cup {"idle"}
<1>0. OpsOK /\ Idle.pc = "idle"
  BY DEF TypeInv, Idle
<1>o. ASSUME NEW r, op' = [op EXCEPT ![w] = r] PROVE op'[w] = r /\ \A v \in Workers : v # w => op'[v] = op[v]
  BY <1>0, <1>o DEF OpsOK
<1>r. ASSUME Return(w) PROVE op'[w].pc = "idle" /\ \A v \in Workers : v # w => op'[v] = op[v]
  BY <1>0, <1>r, <1>o DEF Return
<1>1. ASSUME NEW c \in Chars, LearnSnapshot(w, c)
      PROVE  op[w].pc = "idle" /\ op'[w].pc = "raise" /\ \A v \in Workers : v # w => op'[v] = op[v]
  <2>1. PICK r : /\ r = [pc |-> "raise", char |-> c, snap |-> grow[c], dead |-> c \in dead, sp |-> sp[c],
                         map |-> grow[c].map, list |-> 0]
                 /\ op' = [op EXCEPT ![w] = r]
    BY <1>1 DEF LearnSnapshot
  <2>2. r.pc = "raise"
    BY <2>1
  <2> QED BY <1>0, <1>1, <1>o, <2>1, <2>2 DEF LearnSnapshot
<1>2. ASSUME LearnRaise(w)
      PROVE  op[w].pc = "raise" /\ op'[w].pc \in {"idle", "skills"} /\ \A v \in Workers : v # w => op'[v] = op[v]
  <2>1. op[w].pc = "raise" /\ op[w] \in Learners
    BY <1>0, <1>2, OpKinds DEF LearnRaise
  <2>2. CASE Return(w)
    BY <1>r, <2>1, <2>2
  <2>3. CASE ~Return(w)
    <3> DEFINE m == IF op[w].map = Nil THEN NewMap ELSE op[w].map
               k == Learned(op[w].map) + 1
    <3>1. op' = [op EXCEPT ![w].pc = "skills", ![w].map = m, ![w].list = k]
      BY <1>2, <2>3 DEF LearnRaise
    <3> HIDE DEF m, k
    <3>2. op' = [op EXCEPT ![w] = [op[w] EXCEPT !.pc = "skills", !.map = m, !.list = k]]
      BY <1>0, <3>1 DEF OpsOK
    <3>3. PICK r : r = [op[w] EXCEPT !.pc = "skills", !.map = m, !.list = k] /\ op' = [op EXCEPT ![w] = r]
      BY <3>2
    <3>4. r.pc = "skills"
      BY <2>1, <3>3 DEF Learners
    <3> QED BY <1>o, <2>1, <3>3, <3>4
  <2> QED BY <2>2, <2>3
<1>3. ASSUME SaveSkills(w) \/ SaveState(w)
      PROVE  op[w].pc \in LearnPcs /\ op'[w].pc \in LearnPcs /\ \A v \in Workers : v # w => op'[v] = op[v]
  <2>1. op[w].pc \in LearnPcs /\ op[w] \in Learners /\ \E pc \in {"state", "apply"} : op' = [op EXCEPT ![w].pc = pc]
    BY <1>0, <1>3, OpKinds DEF SaveSkills, SaveState, LearnPcs
  <2>2. PICK pc \in {"state", "apply"} : op' = [op EXCEPT ![w] = [op[w] EXCEPT !.pc = pc]]
    BY <1>0, <2>1 DEF OpsOK
  <2>3. PICK r : r = [op[w] EXCEPT !.pc = pc] /\ op' = [op EXCEPT ![w] = r]
    BY <2>2
  <2>4. r.pc = pc
    BY <2>1, <2>3 DEF Learners
  <2> QED BY <1>o, <2>1, <2>2, <2>3, <2>4 DEF LearnPcs
<1>4. ASSUME LearnApply(w) \/ LearnFails(w)
      PROVE  op[w].pc \in LearnPcs /\ op'[w].pc = "idle" /\ \A v \in Workers : v # w => op'[v] = op[v]
  BY <1>4, <1>r DEF LearnApply, LearnFails, LearnPcs
<1> QED BY <1>1, <1>2, <1>3, <1>4 DEF LearnStep, LearnPcs, BuryPcs

\* A mob is alive, or in one handler's hands, or due back on one timer; and what the
\* handlers and the timer expect of the registry is so: the corpse lies there until it is
\* removed, and the place is free until the mob comes back.
OnceInv ==
    \A m \in Mobs :
        /\ \A v, w \in Burying(m) : v = w
        /\ \A w \in Burying(m) : back[m] = 0 /\ mob[m] = IF op[w].pc = "schedule" THEN Gone ELSE 0
        /\ back[m] > 0 => back[m] = 1 /\ mob[m] = Gone
        /\ mob[m] > 0 \/ Burying(m) # {} \/ back[m] > 0 \/ stopped

BuryAction ==
    \/ \E w \in Workers : (\E d \in Damages : HitMob(w, d)) \/ Bury(w) \/ Remove(w) \/ scheduleRespawn(w)
    \/ \E m \in Mobs : MobRespawn(m)

\* Nothing happens to a mob or to who buries it.
Undisturbed ==
    /\ UNCHANGED <<mob, back>> /\ (stopped => stopped')
    /\ \A v \in Workers : op'[v] = op[v] \/ (op[v].pc \notin BuryPcs /\ op'[v].pc \notin BuryPcs)

LEMMA StopFrame ==
    ASSUME [Next]_vars
    PROVE  stopped => stopped'
<1>1. CASE RespawnNext
  <2>1. ASSUME NEW c \in Chars, DeathMissed(c) \/ (\E t \in Timers : ArmRespawn(c, t)) \/ Press(c) \/ PressStep(c)
        PROVE  UNCHANGED stopped
    BY <2>1 DEF DeathMissed, ArmRespawn, Press, PressStep, PressCancel, PressRespawn
  <2>2. ASSUME NEW t \in Timers, TimerStep(t) PROVE UNCHANGED stopped
    BY <2>2 DEF TimerStep, Expire, Quit, ClearSlot, TimerRespawn
  <2>3. ASSUME Stop PROVE stopped'
    BY <2>3 DEF Stop
  <2> QED BY <1>1, <2>1, <2>2, <2>3 DEF RespawnNext
<1>2. CASE GrowthNext
  <2>1. ASSUME NEW c \in Chars, LeaveMap(c) \/ EnterMap(c) \/ Heal(c) PROVE UNCHANGED stopped
    BY <2>1 DEF LeaveMap, Leave, EnterMap, Enter, Heal, bodyVars
  <2>2. ASSUME NEW S, RegenTick(S) PROVE UNCHANGED stopped
    BY <2>2 DEF RegenTick, bodyVars
  <2>3. ASSUME NEW w \in Workers, NEW c \in Chars, LearnSnapshot(w, c) PROVE UNCHANGED stopped
    BY <2>3 DEF LearnSnapshot, respawnVars
  <2>4. ASSUME NEW w \in Workers, LearnStep(w) \/ LearnFails(w) PROVE UNCHANGED stopped
    BY <2>4 DEF LearnStep, LearnRaise, SaveSkills, SaveState, LearnApply, LearnFails, respawnVars, bodyVars
  <2> QED BY <1>2, <2>1, <2>2, <2>3, <2>4 DEF GrowthNext
<1>3. CASE BattleNext
  <2>1. ASSUME NEW w \in Workers, NEW c, NEW t, Attack(w, c, t) PROVE UNCHANGED stopped
    BY <2>1 DEF Attack, respawnVars
  <2>2. ASSUME NEW w \in Workers, FightStep(w) PROVE UNCHANGED stopped
    BY <2>2 DEF FightStep, trySpendSP, HitMob, HitPlayer, Bury, Remove, scheduleRespawn, grantMobExp, Grant,
                LevelUp, JobLevelUp, respawnVars, bodyVars
  <2>3. ASSUME NEW m \in Mobs, MobRespawn(m) \/ \E c \in Chars : Swing(m, c) PROVE UNCHANGED stopped
    BY <2>3 DEF MobRespawn, Swing, Die, respawnVars
  <2>4. ASSUME resolve PROVE UNCHANGED stopped
    BY <2>4 DEF resolve, respawnVars
  <2> QED BY <1>3, <2>1, <2>2, <2>3, <2>4 DEF BattleNext
<1>4. CASE UNCHANGED vars
  BY <1>4 DEF vars, respawnVars
<1> QED BY <1>1, <1>2, <1>3, <1>4 DEF Next

LEMMA BuryFrame ==
    ASSUME TypeInv, [Next]_vars, ~BuryAction
    PROVE  Undisturbed
<1>1. stopped => stopped'
  BY StopFrame
<1>2. \A v \in Workers : op'[v] = op[v] \/ (op[v].pc \notin BuryPcs /\ op'[v].pc \notin BuryPcs)
  <2>1. CASE UNCHANGED op
    BY <2>1
  <2>2. ASSUME NEW w \in Workers, Handles(w)
        PROVE  \A v \in Workers : op'[v] = op[v] \/ (op[v].pc \notin BuryPcs /\ op'[v].pc \notin BuryPcs)
    <3>1. /\ \A v \in Workers : v # w => op'[v] = op[v]
          /\ op[w].pc \notin BuryPcs /\ op'[w].pc \notin BuryPcs
      BY <2>2, FightPcs, LearnPcsStep DEF Handles, BuryAction
    <3> QED BY <3>1
  <2> QED BY <2>1, <2>2, OpFrame
<1>3. UNCHANGED <<mob, back>>
  <2>1. ASSUME NEW w \in Workers, NEW c, NEW t, Attack(w, c, t) PROVE UNCHANGED <<mob, back>>
    BY <2>1 DEF Attack, mobVars
  <2>2. ASSUME NEW w \in Workers, FightStep(w) PROVE UNCHANGED <<mob, back>>
    BY <2>2 DEF FightStep, trySpendSP, HitPlayer, grantMobExp, Grant, LevelUp, JobLevelUp, mobVars, BuryAction
  <2>3. ASSUME NEW m \in Mobs, NEW c \in Chars, Swing(m, c) PROVE UNCHANGED <<mob, back>>
    BY <2>3 DEF Swing
  <2>4. ASSUME resolve PROVE UNCHANGED <<mob, back>>
    BY <2>4 DEF resolve
  <2>5. CASE BattleNext
    BY <2>1, <2>2, <2>3, <2>4, <2>5 DEF BattleNext, BuryAction
  <2> QED BY <2>5 DEF Next, vars, mobVars
<1> QED BY <1>1, <1>2, <1>3 DEF Undisturbed

LEMMA OnceStep ==
    ASSUME TypeInv, OnceInv, [Next]_vars
    PROVE  OnceInv'
<1>0. OpsOK /\ MobsOK /\ (stopped => stopped')
  BY StopFrame DEF TypeInv
<1>b. \A m \in Mobs : /\ mob[m] \in {Gone} \cup 0 .. MobLife /\ back[m] \in Nat /\ MobLife \in Nat \ {0}
                      /\ mob[m] \in Int /\ Gone = -1
  BY <1>0, BattleConstants DEF MobsOK, Gone
<1>1. CASE ~BuryAction
  <2>1. /\ UNCHANGED <<mob, back>>
        /\ \A v \in Workers : op'[v] = op[v] \/ (op[v].pc \notin BuryPcs /\ op'[v].pc \notin BuryPcs)
    BY <1>1, BuryFrame DEF Undisturbed
  <2>2. ASSUME NEW m \in Mobs PROVE Burying(m)' = Burying(m) /\ \A w \in Burying(m) : op'[w] = op[w]
    BY <2>1 DEF Burying, BuryPcs
  <2> QED BY <1>0, <2>1, <2>2 DEF OnceInv
\* What happens to one mob leaves the others alone.
<1>2. ASSUME NEW n \in Mobs, NEW w \in Workers,
             \A v \in Workers : v # w => op'[v] = op[v],
             op[w].pc \in BuryPcs => op[w].who = n, op'[w].pc \in BuryPcs => op'[w].who = n,
             \A m \in Mobs : m # n => mob'[m] = mob[m] /\ back'[m] = back[m],
             NEW m \in Mobs, m # n
      PROVE  /\ \A u, v \in Burying(m)' : u = v
             /\ \A v \in Burying(m)' : back'[m] = 0 /\ mob'[m] = IF op'[v].pc = "schedule" THEN Gone ELSE 0
             /\ back'[m] > 0 => back'[m] = 1 /\ mob'[m] = Gone
             /\ mob'[m] > 0 \/ Burying(m)' # {} \/ back'[m] > 0 \/ stopped'
  <2>1. Burying(m)' = Burying(m) /\ \A v \in Burying(m) : op'[v] = op[v]
    BY <1>2 DEF Burying, BuryPcs
  <2> QED BY <1>0, <1>2, <2>1 DEF OnceInv
<1>3. ASSUME NEW w \in Workers, NEW d \in Damages, HitMob(w, d) PROVE OnceInv'
  <2>1. PICK n \in Mobs : n = op[w].who
    BY <1>3 DEF HitMob
  <2>2. /\ op[w].pc = "hit" /\ op[w] \in Fighters /\ UNCHANGED back
        /\ mob' = IF mob[n] = Gone THEN mob ELSE [mob EXCEPT ![n] = Left(mob[n], d)]
        /\ \A v \in Workers : v # w => op'[v] = op[v]
    BY <1>0, <1>3, <2>1, OpKinds, FightPcs DEF HitMob, FightStep
  <2>3. \A m \in Mobs : m # n => mob'[m] = mob[m] /\ back'[m] = back[m]
    BY <1>0, <2>2 DEF MobsOK
  <2>4. w \notin Burying(n) /\ d \in Nat
    BY <2>2, BattleConstants DEF Burying
  <2>5. CASE mob[n] # Gone /\ Died(mob[n], d)
    <3>1. PICK r : r = [op[w] EXCEPT !.pc = "bury"] /\ op' = [op EXCEPT ![w] = r]
      BY <1>0, <1>3, <2>1, <2>5 DEF HitMob, OpsOK
    <3>2. op'[w].pc = "bury" /\ op'[w].who = n
      <4>1. r.pc = "bury" /\ r.who = n
        BY <2>1, <2>2, <3>1 DEF Fighters
      <4> QED BY <1>0, <3>1, <4>1 DEF OpsOK
    <3>3. mob[n] > 0 /\ mob'[n] = 0
      BY <1>0, <2>2, <2>5 DEF Died, MobsOK
    <3>4. Burying(n) = {} /\ back[n] = 0
      BY <1>b, <3>3 DEF OnceInv
    <3>5. Burying(n)' = {w}
      BY <2>2, <3>2, <3>4 DEF Burying
    <3>6. /\ \A u, v \in Burying(n)' : u = v
          /\ \A v \in Burying(n)' : back'[n] = 0 /\ mob'[n] = IF op'[v].pc = "schedule" THEN Gone ELSE 0
          /\ back'[n] > 0 => back'[n] = 1 /\ mob'[n] = Gone
          /\ mob'[n] > 0 \/ Burying(n)' # {} \/ back'[n] > 0 \/ stopped'
      BY <2>2, <3>2, <3>3, <3>4, <3>5
    <3>7. op[w].pc \notin BuryPcs
      BY <2>2 DEF BuryPcs
    <3> QED BY <1>2, <2>2, <2>3, <3>2, <3>6, <3>7 DEF OnceInv
  <2>6. CASE ~(mob[n] # Gone /\ Died(mob[n], d))
    <3>1. op'[w].pc = "idle"
      BY <1>0, <1>3, <2>1, <2>6, ReturnType DEF HitMob, Idle
    <3>2. Burying(n)' = Burying(n) /\ \A v \in Burying(n) : op'[v] = op[v]
      BY <2>2, <2>4, <3>1 DEF Burying
    <3>3. mob[n] > 0 => mob'[n] > 0
      BY <1>0, <1>b, <2>2, <2>4, <2>6 DEF MobsOK, Died, Left
    <3>4. ~(mob[n] > 0) => mob'[n] = mob[n]
      BY <1>0, <1>b, <2>2, <2>4 DEF MobsOK, Left
    <3>5. /\ \A u, v \in Burying(n)' : u = v
          /\ \A v \in Burying(n)' : back'[n] = 0 /\ mob'[n] = IF op'[v].pc = "schedule" THEN Gone ELSE 0
          /\ back'[n] > 0 => back'[n] = 1 /\ mob'[n] = Gone
          /\ mob'[n] > 0 \/ Burying(n)' # {} \/ back'[n] > 0 \/ stopped'
      BY <1>0, <1>b, <2>2, <3>2, <3>3, <3>4 DEF OnceInv
    <3>6. op[w].pc \notin BuryPcs /\ op'[w].pc \notin BuryPcs
      BY <2>2, <3>1 DEF BuryPcs
    <3> QED BY <1>2, <2>2, <2>3, <3>5, <3>6 DEF OnceInv
  <2> QED BY <2>5, <2>6
<1>4. ASSUME NEW w \in Workers, Bury(w) \/ Remove(w) PROVE OnceInv'
  <2>1. op[w] \in Buriers /\ op[w].pc \in {"bury", "remove"}
    BY <1>0, <1>4, OpKinds DEF Bury, Remove
  <2>2. PICK n \in Mobs : n = op[w].who
    BY <2>1 DEF Buriers
  <2>3. w \in Burying(n)
    BY <2>1, <2>2 DEF Burying
  <2>4. Burying(n) = {w} /\ back[n] = 0 /\ mob[n] = 0
    BY <2>1, <2>3 DEF OnceInv
  <2>5. /\ \A v \in Workers : v # w => op'[v] = op[v]
        /\ UNCHANGED back
        /\ Bury(w) => UNCHANGED mob
        /\ Remove(w) => mob' = [mob EXCEPT ![n] = Gone]
    BY <1>4, <2>2, FightPcs DEF Bury, Remove, FightStep, mobVars
  <2>6. PICK pc : /\ (Bury(w) /\ pc = "remove") \/ (Remove(w) /\ pc = "schedule")
                  /\ op' = [op EXCEPT ![w].pc = pc]
    BY <1>4, <1>b, <2>2, <2>4 DEF Bury, Remove
  <2>7. op'[w].pc = pc /\ op'[w].who = n
    <3>1. PICK r : r = [op[w] EXCEPT !.pc = pc] /\ op' = [op EXCEPT ![w] = r]
      BY <1>0, <2>6 DEF OpsOK
    <3>2. r.pc = pc /\ r.who = n
      BY <2>1, <2>2, <3>1 DEF Buriers
    <3> QED BY <1>0, <3>1, <3>2 DEF OpsOK
  <2>8. Burying(n)' = {w}
    BY <2>4, <2>5, <2>6, <2>7 DEF Burying
  <2>9. mob'[n] = (IF pc = "schedule" THEN Gone ELSE 0) /\ \A m \in Mobs : m # n => mob'[m] = mob[m]
    <3>1. ~(Bury(w) /\ Remove(w))
      BY DEF Bury, Remove
    <3> QED BY <1>0, <2>4, <2>5, <2>6, <3>1 DEF MobsOK
  <2>10. /\ \A u, v \in Burying(n)' : u = v
         /\ \A v \in Burying(n)' : back'[n] = 0 /\ mob'[n] = IF op'[v].pc = "schedule" THEN Gone ELSE 0
         /\ back'[n] > 0 => back'[n] = 1 /\ mob'[n] = Gone
         /\ mob'[n] > 0 \/ Burying(n)' # {} \/ back'[n] > 0 \/ stopped'
    BY <2>4, <2>5, <2>7, <2>8, <2>9
  <2> QED BY <1>2, <2>2, <2>5, <2>7, <2>9, <2>10 DEF OnceInv
<1>5. ASSUME NEW w \in Workers, scheduleRespawn(w) PROVE OnceInv'
  <2>1. op[w] \in Buriers /\ op[w].pc = "schedule"
    BY <1>0, <1>5, OpKinds DEF scheduleRespawn
  <2>2. PICK n \in Mobs : n = op[w].who
    BY <2>1 DEF Buriers
  <2>3. w \in Burying(n)
    BY <2>1, <2>2 DEF Burying
  <2>4. Burying(n) = {w} /\ back[n] = 0 /\ mob[n] = Gone
    BY <2>1, <2>3 DEF OnceInv
  <2>5. /\ \A v \in Workers : v # w => op'[v] = op[v]
        /\ UNCHANGED mob /\ back' = [back EXCEPT ![n] = back[n] + 1]
    BY <1>0, <1>5, <2>2, FightPcs DEF scheduleRespawn, FightStep, MobsOK
  <2>6. op'[w].pc = "share"
    <3>1. PICK r : r = [pc |-> "share", char |-> op[w].char] /\ op' = [op EXCEPT ![w] = r]
      BY <1>5 DEF scheduleRespawn
    <3>2. r.pc = "share"
      BY <3>1
    <3> QED BY <1>0, <3>1, <3>2 DEF OpsOK
  <2>7. Burying(n)' = {}
    BY <2>4, <2>5, <2>6 DEF Burying
  <2>8. back'[n] = 1 /\ \A m \in Mobs : m # n => back'[m] = back[m]
    BY <1>0, <2>4, <2>5 DEF MobsOK
  <2>9. /\ \A u, v \in Burying(n)' : u = v
        /\ \A v \in Burying(n)' : back'[n] = 0 /\ mob'[n] = IF op'[v].pc = "schedule" THEN Gone ELSE 0
        /\ back'[n] > 0 => back'[n] = 1 /\ mob'[n] = Gone
        /\ mob'[n] > 0 \/ Burying(n)' # {} \/ back'[n] > 0 \/ stopped'
    BY <2>4, <2>5, <2>7, <2>8
  <2>10. op'[w].pc \notin BuryPcs
    BY <2>6 DEF BuryPcs
  <2> QED BY <1>2, <2>2, <2>5, <2>8, <2>9, <2>10 DEF OnceInv
<1>6. ASSUME NEW n \in Mobs, MobRespawn(n) PROVE OnceInv'
  <2>1. /\ back[n] > 0 /\ back' = [back EXCEPT ![n] = back[n] - 1] /\ UNCHANGED <<op, stopped>>
        /\ mob' \in {IF mob[n] = Gone THEN [mob EXCEPT ![n] = MobLife] ELSE mob}
                    \cup (IF stopped THEN {mob} ELSE {})
    BY <1>6 DEF MobRespawn, respawnVars
  <2>2. back[n] = 1 /\ mob[n] = Gone /\ Burying(n) = {}
    BY <2>1 DEF OnceInv
  <2>3. mob' = [mob EXCEPT ![n] = MobLife] \/ (stopped /\ mob' = mob)
    BY <2>1, <2>2
  <2>4. back'[n] = 0 /\ \A m \in Mobs : m # n => back'[m] = back[m] /\ mob'[m] = mob[m]
    BY <1>0, <2>1, <2>2, <2>3 DEF MobsOK
  <2>5. mob'[n] > 0 \/ stopped'
    BY <1>0, <1>b, <2>1, <2>3 DEF MobsOK
  <2>6. \A m \in Mobs : Burying(m)' = Burying(m)
    BY <2>1 DEF Burying
  <2> QED BY <1>0, <2>1, <2>2, <2>4, <2>5, <2>6 DEF OnceInv
<1> QED BY <1>1, <1>3, <1>4, <1>5, <1>6 DEF BuryAction

\* A mob's death is one death: however many players strike at once, one of them buries
\* the mob, and it is back once, or it is not due back because the server stops
\* (CombatService.Attack, OnMobDeath, scheduleRespawn); and everything stays well typed.
THEOREM MobLivesOnceCorrect == Spec => []MobLivesOnce
<1> DEFINE I == TypeInv /\ OnceInv
<1>1. Init => I
  <2> SUFFICES ASSUME Init PROVE I
    OBVIOUS
  <2>1. TypeInv
    BY InitType
  <2>2. \A m \in Mobs : Burying(m) = {} /\ back[m] = 0 /\ mob[m] > 0
    BY BattleConstants DEF Init, GrowthInit, Burying, Idle
  <2> QED BY <2>1, <2>2 DEF OnceInv
<1>2. I /\ [Next]_vars => I'
  BY TypeStep, OnceStep
<1>3. I => MobLivesOnce
  <2> SUFFICES ASSUME I, NEW m \in Mobs
               PROVE  LET lives == (IF mob[m] > 0 THEN 1 ELSE 0) + Cardinality(Burying(m)) + back[m]
                      IN lives = 1 \/ (stopped /\ lives = 0)
    BY TypeInvType DEF MobLivesOnce
  <2>1. mob[m] \in Int /\ back[m] \in Nat /\ Gone = -1
    BY BattleConstants DEF TypeInv, MobsOK, Gone
  <2>2. CASE Burying(m) = {}
    <3>1. Cardinality(Burying(m)) = 0
      BY <2>2, FS_EmptySet
    <3> QED BY <2>1, <2>2, <3>1 DEF OnceInv
  <2>3. CASE Burying(m) # {}
    <3>1. PICK w : w \in Burying(m) /\ Burying(m) = {w}
      BY <2>3 DEF OnceInv
    <3>2. Cardinality(Burying(m)) = 1
      BY <3>1, FS_Singleton
    <3>3. back[m] = 0 /\ ~(mob[m] > 0)
      BY <2>1, <3>1 DEF OnceInv
    <3> QED BY <3>2, <3>3
  <2> QED BY <2>2, <2>3
<1> QED BY <1>1, <1>2, <1>3, PTL DEF Spec

-----------------------------------------------------------------------------
\* Skill points.

\* The handlers that learn a skill for a character, and the maps that it or its
\* learners hold.
Learns(w, c) == op[w].pc \in LearnPcs /\ op[w].char = c
MapsOf(c) == ({grow[c].map} \cup {op[w].map : w \in {v \in Workers : Learns(v, c)}}) \ {Nil}

\* No two characters share a map.
Apart == \A c, d \in Chars : c # d => MapsOf(c) \cap MapsOf(d) = {}

\* The account of a character in the world; and the skill table agrees with an entity
\* that has no map, since LeaveMap leaves its rows as they are.
Paid(c) ==
    /\ grow[c].points + Learned(grow[c].map) = Granted(c) + grow[c].jobLevel - 1
    /\ grow[c].map = Nil => row[c].skill = 0

\* The account while a skill is being learned: a level is raised in the map of the
\* learner before the point is taken, and both come to the entity together.
Pay(c) ==
    /\ \A v, w \in Workers : Learns(v, c) /\ Learns(w, c) => v = w
    /\ c \notin in => /\ \A w \in Workers : ~Learns(w, c)
                      /\ row[c].points + row[c].skill = Granted(c) + row[c].jobLevel - 1
    /\ c \in in /\ (\A w \in Workers : Learns(w, c) => op[w].pc = "raise") => Paid(c)
    /\ \A w \in Workers : Learns(w, c) =>
          /\ op[w].snap.points = grow[c].points
          /\ op[w].pc = "raise" => op[w].map = grow[c].map
          /\ op[w].pc # "raise" =>
                /\ op[w].map # Nil
                /\ grow[c].points - 1 + skills[op[w].map] = Granted(c) + grow[c].jobLevel - 1

PayInv == Apart /\ \A c \in Chars \ tangled : Pay(c)

\* A step that is nothing to the account of a character.
Same(c) ==
    /\ c \in in' <=> c \in in
    /\ /\ grow'[c].points = grow[c].points /\ grow'[c].map = grow[c].map
       /\ grow'[c].jobLevel = grow[c].jobLevel
    /\ row'[c] = row[c]
    /\ \A w \in Workers : Learns(w, c) \/ Learns(w, c)' => op'[w] = op[w]
    /\ \A m \in MapsOf(c) : skills'[m] = skills[m]
    /\ c \in tangled => c \in tangled'

LEMMA LearnsKind ==
    ASSUME OpsOK, NEW c
    PROVE  /\ Learning(c) <=> \E w \in Workers : Learns(w, c)
           /\ \A w \in Workers : Learns(w, c) => op[w] \in Learners
<1>1. ASSUME NEW w \in Workers PROVE "snap" \in DOMAIN op[w] <=> op[w].pc \in LearnPcs
  <2>1. op[w] \in Learners => op[w].pc \in LearnPcs
    BY DEF Learners, LearnPcs
  <2> QED BY <2>1, OpKinds DEF LearnPcs
<1> QED BY <1>1, OpKinds DEF Learning, Learns, LearnPcs

LEMMA SameLearns ==
    ASSUME NEW c, Same(c)
    PROVE  (\A w \in Workers : Learns(w, c)' <=> Learns(w, c)) /\ MapsOf(c)' = MapsOf(c)
<1>1. \A w \in Workers : Learns(w, c)' <=> Learns(w, c)
  BY DEF Same, Learns
<1>2. \A w \in Workers : Learns(w, c) => op'[w].map = op[w].map
  BY DEF Same
<1> QED BY <1>1, <1>2 DEF Same, MapsOf

LEMMA PaySame ==
    ASSUME NEW c \in Chars, Same(c), Pay(c)
    PROVE  Pay(c)'
<1>1. \A w \in Workers : (Learns(w, c)' <=> Learns(w, c)) /\ (Learns(w, c) => op'[w] = op[w])
  BY SameLearns DEF Same
<1>2. \A m : m \in MapsOf(c) \/ m = Nil => Learned(m)' = Learned(m)
  BY DEF Same, Learned
<1>3. Learned(grow[c].map)' = Learned(grow[c].map)
  <2>1. grow'[c].map = grow[c].map
    BY DEF Same
  <2>2. grow[c].map \in MapsOf(c) \/ grow[c].map = Nil
    BY DEF MapsOf
  <2> QED BY <1>2, <2>1, <2>2 DEF Learned
<1>4. Paid(c)' <=> Paid(c)
  BY <1>3 DEF Same, Paid, Granted
<1>5. \A w \in Workers : Learns(w, c) /\ op[w].map # Nil => op[w].map \in MapsOf(c)
  BY DEF MapsOf
<1>6. \A w \in Workers : Learns(w, c) /\ op[w].map # Nil => skills'[op[w].map] = skills[op[w].map]
  BY <1>5 DEF Same
<1> QED BY <1>1, <1>4, <1>6 DEF Pay, Same, Granted

\* Whoever makes a map makes a new one.
LEMMA MapsInUse ==
    ASSUME OpsOK, NEW c \in Chars
    PROVE  MapsOf(c) \subseteq InUse
<1>1. \A w \in Workers : Learns(w, c) => "map" \in DOMAIN op[w]
  BY OpKinds, LearnsKind
<1> QED BY <1>1 DEF MapsOf, InUse

\* A step that is one character's.
LEMMA PayOthers ==
    ASSUME TypeInv, PayInv, NEW c \in Chars, \A d \in Chars : d # c => Same(d),
           MapsOf(c)' \subseteq MapsOf(c) \cup {NewMap}, c \notin tangled' => Pay(c)'
    PROVE  PayInv'
<1>1. OpsOK
  BY DEF TypeInv
<1>2. \A d \in Chars : d # c => MapsOf(d)' = MapsOf(d)
  BY SameLearns
<1>3. \A d \in Chars : NewMap \notin MapsOf(d)
  BY <1>1, MapsInUse, MapsLeft
<1>4. Apart'
  <2> SUFFICES ASSUME NEW a \in Chars, NEW b \in Chars, a # b PROVE MapsOf(a)' \cap MapsOf(b)' = {}
    BY DEF Apart
  <2>1. MapsOf(a) \cap MapsOf(b) = {}
    BY DEF PayInv, Apart
  <2> QED BY <1>2, <1>3, <2>1
<1>5. ASSUME NEW d \in Chars, d # c, d \notin tangled' PROVE Pay(d)'
  <2>1. Same(d) /\ d \notin tangled
    BY <1>5 DEF Same
  <2> QED BY <2>1, PaySame DEF PayInv
<1> QED BY <1>4, <1>5 DEF PayInv

LEMMA PayAllSame ==
    ASSUME PayInv, \A d \in Chars : Same(d)
    PROVE  PayInv'
<1>1. \A d \in Chars : MapsOf(d)' = MapsOf(d)
  BY SameLearns
<1>2. Apart'
  BY <1>1 DEF PayInv, Apart
<1>3. ASSUME NEW d \in Chars, d \notin tangled' PROVE Pay(d)'
  <2>1. Same(d) /\ d \notin tangled
    BY <1>3 DEF Same
  <2> QED BY <2>1, PaySame DEF PayInv
<1> QED BY <1>2, <1>3 DEF PayInv

\* A handler that learns for somebody else is nothing to a character.
LEMMA SameOther ==
    ASSUME NEW w \in Workers, NEW c \in Chars, NEW d \in Chars, d # c,
           \A v \in Workers : v # w => op'[v] = op[v],
           op[w].pc \in LearnPcs => op[w].char = c, op'[w].pc \in LearnPcs => op'[w].char = c,
           UNCHANGED in, grow'[d] = grow[d], row'[d] = row[d],
           \A m \in MapsOf(d) : skills'[m] = skills[m], tangled \subseteq tangled'
    PROVE  Same(d)
<1>1. ~Learns(w, d) /\ ~Learns(w, d)'
  BY DEF Learns
<1>2. \A v \in Workers : Learns(v, d) \/ Learns(v, d)' => op'[v] = op[v]
  BY <1>1
<1> QED BY <1>2 DEF Same

LEMMA PayLeave ==
    ASSUME TypeInv, PayInv, NEW c \in Chars, LeaveMap(c)
    PROVE  PayInv'
<1>0. OpsOK /\ GrowOK
  BY DEF TypeInv
<1>1. /\ c \in in /\ in' = in \ {c} /\ grow' = [grow EXCEPT ![c] = Absent] /\ UNCHANGED <<skills, op>>
      /\ tangled' = IF Learning(c) THEN tangled \cup {c} ELSE tangled
  BY DEF LeaveMap, Leave, Tangle
<1>2. PICK k : k = IF grow[c].map = Nil THEN row[c].skill ELSE skills[grow[c].map]
  OBVIOUS
<1>3. PICK r : /\ r = [base |-> grow[c].base, level |-> grow[c].level, job |-> grow[c].job,
                       jobLevel |-> grow[c].jobLevel, points |-> grow[c].points, skill |-> k]
               /\ row' = [row EXCEPT ![c] = r]
  BY <1>0, <1>2 DEF LeaveMap, GrowOK
<1>4. \A v \in Workers : \A d : Learns(v, d)' <=> Learns(v, d)
  BY <1>1 DEF Learns
<1>5. ASSUME NEW d \in Chars, d # c PROVE Same(d)
  BY <1>0, <1>1, <1>3, <1>5 DEF Same, GrowOK
<1>6. grow'[c] = Absent /\ Absent.map = Nil /\ row'[c] = r
  BY <1>0, <1>1, <1>3 DEF GrowOK, Absent
<1>7. MapsOf(c)' \subseteq MapsOf(c)
  BY <1>1, <1>4, <1>6 DEF MapsOf
<1>8. ASSUME c \notin tangled' PROVE Pay(c)'
  <2>1. c \notin tangled /\ \A w \in Workers : ~Learns(w, c)
    BY <1>0, <1>1, <1>8, LearnsKind
  <2>2. Paid(c)
    BY <1>1, <2>1 DEF PayInv, Pay
  <2>3. r.points = grow[c].points /\ r.jobLevel = grow[c].jobLevel /\ r.skill = k
    BY <1>3
  <2>4. k = Learned(grow[c].map)
    BY <1>2, <2>2 DEF Paid, Learned
  <2>5. r.points + r.skill = Granted(c) + r.jobLevel - 1
    BY <2>2, <2>3, <2>4 DEF Paid
  <2> QED BY <1>1, <1>4, <1>6, <2>1, <2>5 DEF Pay, Granted
<1> QED BY <1>5, <1>7, <1>8, PayOthers

LEMMA PayEnter ==
    ASSUME TypeInv, PayInv, NEW c \in Chars, EnterMap(c)
    PROVE  PayInv'
<1>0. OpsOK /\ GrowOK
  BY DEF TypeInv
<1>1. PICK n : n = NewMap /\ n \in Maps \ InUse
  BY MapsLeft
<1>2. /\ c \notin in /\ in' = in \cup {c} /\ grow' = [grow EXCEPT ![c] = Loaded(row[c], n)]
      /\ skills' = IF row[c].skill = 0 THEN skills ELSE [skills EXCEPT ![n] = row[c].skill]
      /\ UNCHANGED <<row, op, tangled>>
  BY <1>1 DEF EnterMap, Enter
<1>3. PICK g : /\ g = Loaded(row[c], n) /\ g.points = row[c].points /\ g.jobLevel = row[c].jobLevel
               /\ g.map = IF row[c].skill = 0 THEN Nil ELSE n
  BY <1>0, <1>1, LoadedType DEF GrowOK
<1>4. \A v \in Workers : \A d : Learns(v, d)' <=> Learns(v, d)
  BY <1>2 DEF Learns
<1>5. ASSUME NEW d \in Chars, d # c PROVE Same(d)
  <2>1. n \notin MapsOf(d)
    BY <1>0, <1>1, MapsInUse
  <2>2. \A m \in MapsOf(d) : skills'[m] = skills[m]
    BY <1>0, <1>2, <2>1 DEF GrowOK
  <2> QED BY <1>0, <1>2, <1>5, <2>2 DEF Same, GrowOK
<1>6. grow'[c] = g
  BY <1>0, <1>2, <1>3 DEF GrowOK
<1>7. MapsOf(c)' \subseteq MapsOf(c) \cup {n}
  BY <1>2, <1>3, <1>4, <1>6 DEF MapsOf
<1>8. ASSUME c \notin tangled' PROVE Pay(c)'
  <2>1. /\ \A w \in Workers : ~Learns(w, c)
        /\ row[c].points + row[c].skill = Granted(c) + row[c].jobLevel - 1
    BY <1>2, <1>8 DEF PayInv, Pay
  <2>2. 0 \notin Maps
    <3>1. Cardinality(Chars) \in Nat /\ Cardinality(Workers) \in Nat
      BY GrowthConstants, FS_CardinalityType
    <3> QED BY <3>1 DEF Maps
  <2>3. Learned(grow[c].map)' = row[c].skill
    BY <1>0, <1>1, <1>2, <1>3, <1>6, <2>2 DEF Learned, GrowOK, Nil
  <2>4. Paid(c)'
    BY <1>1, <1>2, <1>3, <1>6, <2>1, <2>2, <2>3 DEF Paid, Granted, Nil
  <2> QED BY <1>2, <1>4, <2>1, <2>4 DEF Pay
<1> QED BY <1>1, <1>5, <1>7, <1>8, PayOthers

LEMMA PaySnapshot ==
    ASSUME TypeInv, PayInv, NEW w \in Workers, NEW c \in Chars, LearnSnapshot(w, c)
    PROVE  PayInv'
<1>0. OpsOK /\ GrowOK
  BY DEF TypeInv
<1>1. /\ op[w] = Idle /\ c \in in /\ UNCHANGED <<in, grow, skills, row>>
      /\ tangled' = IF Learning(c) THEN tangled \cup {c} ELSE tangled
  BY DEF LearnSnapshot, respawnVars, Tangle
<1>2. PICK r : /\ r = [pc |-> "raise", char |-> c, snap |-> grow[c], dead |-> c \in dead, sp |-> sp[c],
                       map |-> grow[c].map, list |-> 0]
               /\ op' = [op EXCEPT ![w] = r]
  BY DEF LearnSnapshot
<1>3. r.pc = "raise" /\ r.char = c /\ r.snap = grow[c] /\ r.map = grow[c].map
  BY <1>2
<1>4. op'[w] = r /\ \A v \in Workers : v # w => op'[v] = op[v]
  BY <1>0, <1>2 DEF OpsOK
<1>5. op[w].pc \notin LearnPcs
  BY <1>1 DEF Idle, LearnPcs
<1>6. ASSUME NEW d \in Chars, d # c PROVE Same(d)
  BY <1>1, <1>3, <1>4, <1>5, <1>6, SameOther
<1>7. \A v \in Workers : Learns(v, c)' <=> Learns(v, c) \/ v = w
  BY <1>3, <1>4, <1>5 DEF Learns, LearnPcs
<1>8. MapsOf(c)' \subseteq MapsOf(c)
  BY <1>1, <1>3, <1>4, <1>7 DEF MapsOf
<1>9. ASSUME c \notin tangled' PROVE Pay(c)'
  <2>1. c \notin tangled /\ \A v \in Workers : ~Learns(v, c)
    BY <1>0, <1>1, <1>9, LearnsKind
  <2>2. Paid(c)
    BY <1>1, <2>1 DEF PayInv, Pay
  <2>3. Paid(c)'
    BY <1>1, <2>2 DEF Paid, Learned, Granted
  <2> QED BY <1>1, <1>3, <1>4, <1>7, <2>1, <2>3 DEF Pay
<1> QED BY <1>6, <1>8, <1>9, PayOthers

LEMMA PayRaise ==
    ASSUME TypeInv, PayInv, NEW w \in Workers, LearnRaise(w)
    PROVE  PayInv'
<1>0. OpsOK /\ GrowOK
  BY DEF TypeInv
<1>1. op[w].pc = "raise" /\ op[w] \in Learners /\ UNCHANGED <<in, grow, row, tangled>>
  BY <1>0, OpKinds DEF LearnRaise, respawnVars
<1>2. PICK c \in Chars : c = op[w].char
  BY <1>1 DEF Learners
<1>3. Learns(w, c)
  BY <1>1, <1>2 DEF Learns, LearnPcs
<1>4. ASSUME c \notin tangled
      PROVE  /\ \A v \in Workers : Learns(v, c) => v = w
             /\ c \in in /\ Paid(c) /\ op[w].map = grow[c].map /\ op[w].snap.points = grow[c].points
  <2>1. Pay(c)
    BY <1>4 DEF PayInv
  <2>2. (\A v \in Workers : Learns(v, c) => v = w) /\ c \in in
    BY <1>3, <2>1 DEF Pay
  <2> QED BY <1>1, <1>3, <2>1, <2>2 DEF Pay
<1>5. CASE Return(w) /\ UNCHANGED skills
  <2>1. op'[w].pc = "idle" /\ \A v \in Workers : v # w => op'[v] = op[v]
    BY <1>0, <1>5, ReturnType DEF Idle
  <2>2. ASSUME NEW d \in Chars, d # c PROVE Same(d)
    BY <1>1, <1>2, <1>5, <2>1, <2>2, SameOther DEF LearnPcs
  <2>3. \A v \in Workers : Learns(v, c)' <=> Learns(v, c) /\ v # w
    BY <2>1 DEF Learns, LearnPcs
  <2>4. MapsOf(c)' \subseteq MapsOf(c)
    BY <1>1, <2>1, <2>3 DEF MapsOf
  <2>5. ASSUME c \notin tangled' PROVE Pay(c)'
    <3>1. Paid(c)'
      BY <1>1, <1>4, <1>5, <2>5 DEF Paid, Learned, Granted
    <3> QED BY <1>1, <1>4, <2>3, <2>5, <3>1 DEF Pay
  <2> QED BY <2>2, <2>4, <2>5, PayOthers
<1>6. CASE ~(Return(w) /\ UNCHANGED skills)
  <2>1. PICK n : n = NewMap /\ n \in Maps \ InUse
    BY MapsLeft
  <2>2. PICK m : m = IF op[w].map = Nil THEN n ELSE op[w].map
    OBVIOUS
  <2>3. PICK k : k = Learned(op[w].map) + 1
    OBVIOUS
  <2>4. /\ skills' = [skills EXCEPT ![m] = k]
        /\ op' = [op EXCEPT ![w].pc = "skills", ![w].map = m, ![w].list = k]
    BY <1>6, <2>1, <2>2, <2>3 DEF LearnRaise
  <2>5. PICK r : r = [op[w] EXCEPT !.pc = "skills", !.map = m, !.list = k] /\ op' = [op EXCEPT ![w] = r]
    BY <1>0, <2>4 DEF OpsOK
  <2>6. r.pc = "skills" /\ r.map = m /\ r.char = c /\ r.snap = op[w].snap
    BY <1>1, <1>2, <2>5 DEF Learners
  <2>7. op'[w] = r /\ \A v \in Workers : v # w => op'[v] = op[v]
    BY <1>0, <2>5 DEF OpsOK
  <2>8. 0 \notin Maps
    <3>1. Cardinality(Chars) \in Nat /\ Cardinality(Workers) \in Nat
      BY GrowthConstants, FS_CardinalityType
    <3> QED BY <3>1 DEF Maps
  <2>9. m \in Maps /\ m # Nil
    BY <1>1, <2>1, <2>2, <2>8 DEF Learners, Nil
  <2>10. skills'[m] = k /\ \A x \in Maps : x # m => skills'[x] = skills[x]
    BY <1>0, <2>4, <2>9 DEF GrowOK
  <2>11. ASSUME NEW d \in Chars, d # c PROVE Same(d)
    <3>1. MapsOf(d) \subseteq InUse /\ MapsOf(c) \cap MapsOf(d) = {}
      BY <1>0, <2>11, MapsInUse DEF PayInv, Apart
    <3>2. m = n \/ m \in MapsOf(c)
      BY <1>3, <2>2, <2>9 DEF MapsOf
    <3>3. m \notin MapsOf(d)
      BY <2>1, <3>1, <3>2
    <3>4. \A x \in MapsOf(d) : skills'[x] = skills[x]
      BY <1>0, <2>4, <3>3 DEF GrowOK
    <3> QED BY <1>1, <1>2, <2>6, <2>7, <2>11, <3>4, SameOther
  <2>12. \A v \in Workers : Learns(v, c)' <=> Learns(v, c)
    BY <1>3, <2>6, <2>7 DEF Learns, LearnPcs
  <2>13. MapsOf(c)' \subseteq MapsOf(c) \cup {n}
    BY <1>1, <1>3, <2>2, <2>6, <2>7, <2>12 DEF MapsOf
  <2>14. ASSUME c \notin tangled' PROVE Pay(c)'
    <3>1. k = Learned(grow[c].map) + 1 /\ grow[c].points + Learned(grow[c].map) = Granted(c) + grow[c].jobLevel - 1
      BY <1>1, <1>4, <2>3, <2>14 DEF Paid
    <3>2. Learned(grow[c].map) \in Nat /\ grow[c].points \in Nat
      <4>1. grow[c] \in Grown /\ skills \in [Maps -> 0 .. SkillMax]
        BY <1>0, <1>1, <1>4, <2>14 DEF GrowOK
      <4>2. grow[c].points \in Nat /\ grow[c].map \in Maps \cup {Nil}
        BY <4>1 DEF Grown
      <4> QED BY <4>1, <4>2, GrowthConstants DEF Learned
    <3>3. grow[c].points - 1 + k = Granted(c) + grow[c].jobLevel - 1
      BY <3>1, <3>2
    <3> QED BY <1>1, <1>3, <1>4, <2>6, <2>7, <2>9, <2>10, <2>12, <2>14, <3>3 DEF Pay, Granted
  <2> QED BY <2>1, <2>11, <2>13, <2>14, PayOthers
<1> QED BY <1>5, <1>6

LEMMA PaySave ==
    ASSUME TypeInv, PayInv, NEW w \in Workers, SaveSkills(w) \/ SaveState(w)
    PROVE  PayInv'
<1>0. OpsOK /\ GrowOK
  BY DEF TypeInv
<1>1. op[w].pc \in {"skills", "state"} /\ op[w] \in Learners /\ UNCHANGED <<in, grow, skills, tangled>>
  BY <1>0, OpKinds DEF SaveSkills, SaveState, respawnVars, bodyVars
<1>2. PICK c \in Chars : c = op[w].char
  BY <1>1 DEF Learners
<1>3. \A d \in Chars : d # c => row'[d] = row[d]
  BY <1>0, <1>2 DEF SaveSkills, SaveState, GrowOK
<1>4. PICK pc \in {"state", "apply"} : op' = [op EXCEPT ![w].pc = pc]
  BY DEF SaveSkills, SaveState
<1>5. PICK r : r = [op[w] EXCEPT !.pc = pc] /\ op' = [op EXCEPT ![w] = r]
  BY <1>0, <1>4 DEF OpsOK
<1>6. r.pc = pc /\ r.map = op[w].map /\ r.char = c /\ r.snap = op[w].snap
  BY <1>1, <1>2, <1>5 DEF Learners
<1>7. op'[w] = r /\ \A v \in Workers : v # w => op'[v] = op[v]
  BY <1>0, <1>5 DEF OpsOK
<1>8. Learns(w, c) /\ Learns(w, c)'
  BY <1>1, <1>2, <1>4, <1>6, <1>7 DEF Learns, LearnPcs
<1>9. ASSUME NEW d \in Chars, d # c PROVE Same(d)
  BY <1>1, <1>2, <1>3, <1>6, <1>7, <1>9, SameOther
<1>10. \A v \in Workers : Learns(v, c)' <=> Learns(v, c)
  BY <1>7, <1>8 DEF Learns
<1>11. MapsOf(c)' \subseteq MapsOf(c)
  BY <1>1, <1>6, <1>7, <1>8, <1>10 DEF MapsOf
<1>12. ASSUME c \notin tangled' PROVE Pay(c)'
  <2>1. Pay(c)
    BY <1>1, <1>12 DEF PayInv
  <2>2. c \in in /\ \A v \in Workers : Learns(v, c) => v = w
    BY <1>8, <2>1 DEF Pay
  <2> QED BY <1>1, <1>4, <1>6, <1>7, <1>8, <1>10, <2>1, <2>2 DEF Pay, Granted
<1> QED BY <1>9, <1>11, <1>12, PayOthers

LEMMA PayApply ==
    ASSUME TypeInv, PayInv, NEW w \in Workers, LearnApply(w) \/ LearnFails(w)
    PROVE  PayInv'
<1>0. OpsOK /\ GrowOK
  BY DEF TypeInv
<1>1. op[w].pc \in LearnPcs \ {"raise"} /\ op[w] \in Learners /\ UNCHANGED <<in, skills, row>>
  BY <1>0, OpKinds DEF LearnApply, LearnFails, respawnVars, LearnPcs
<1>2. PICK c \in Chars : c = op[w].char
  BY <1>1 DEF Learners
<1>3. Learns(w, c)
  BY <1>1, <1>2 DEF Learns
<1>4. op'[w].pc = "idle" /\ \A v \in Workers : v # w => op'[v] = op[v]
  BY <1>0, ReturnType DEF LearnApply, LearnFails, Idle
<1>5. \A v \in Workers : Learns(v, c)' <=> Learns(v, c) /\ v # w
  BY <1>4 DEF Learns, LearnPcs
<1>6. CASE LearnFails(w)
  <2>1. UNCHANGED grow /\ tangled' = tangled \cup {c}
    BY <1>2, <1>6 DEF LearnFails
  <2>2. ASSUME NEW d \in Chars, d # c PROVE Same(d)
    BY <1>1, <1>2, <1>4, <2>1, <2>2, SameOther DEF LearnPcs
  <2>3. MapsOf(c)' \subseteq MapsOf(c)
    BY <1>4, <1>5, <2>1 DEF MapsOf
  <2> QED BY <2>1, <2>2, <2>3, PayOthers
<1>7. CASE LearnApply(w)
  <2>1. /\ UNCHANGED tangled
        /\ grow' = IF c \in in
                   THEN [grow EXCEPT ![c].points = op[w].snap.points - 1, ![c].map = op[w].map]
                   ELSE grow
    BY <1>2, <1>7 DEF LearnApply
  <2>2. \A d \in Chars : d # c => grow'[d] = grow[d]
    BY <1>0, <2>1 DEF GrowOK
  <2>3. ASSUME NEW d \in Chars, d # c PROVE Same(d)
    BY <1>1, <1>2, <1>4, <2>1, <2>2, <2>3, SameOther DEF LearnPcs
  <2>4. ASSUME c \in in
        PROVE  /\ grow'[c].points = op[w].snap.points - 1 /\ grow'[c].map = op[w].map
               /\ grow'[c].jobLevel = grow[c].jobLevel
    <3>1. PICK g : g = [grow[c] EXCEPT !.points = op[w].snap.points - 1, !.map = op[w].map] /\ grow'[c] = g
      BY <1>0, <2>1, <2>4 DEF GrowOK
    <3>2. grow[c] \in Grown
      BY <1>0, <2>4 DEF GrowOK
    <3> QED BY <3>1, <3>2 DEF Grown
  <2>5. grow'[c].map \in {grow[c].map, op[w].map}
    BY <2>1, <2>4
  <2>6. MapsOf(c)' \subseteq MapsOf(c)
    BY <1>3, <1>4, <1>5, <2>5 DEF MapsOf
  <2>7. ASSUME c \notin tangled' PROVE Pay(c)'
    <3>1. Pay(c)
      BY <2>1, <2>7 DEF PayInv
    <3>2. c \in in /\ \A v \in Workers : Learns(v, c) => v = w
      BY <1>3, <3>1 DEF Pay
    <3>3. /\ op[w].snap.points = grow[c].points /\ op[w].map # Nil
          /\ grow[c].points - 1 + skills[op[w].map] = Granted(c) + grow[c].jobLevel - 1
      BY <1>1, <1>3, <3>1 DEF Pay
    <3>4. Paid(c)'
      BY <1>1, <2>4, <3>2, <3>3 DEF Paid, Learned, Granted
    <3> QED BY <1>1, <1>5, <3>2, <3>4 DEF Pay
  <2> QED BY <2>3, <2>6, <2>7, PayOthers
<1> QED BY <1>6, <1>7

\* A handler that fights is nothing to an account that it leaves alone.
LEMMA SameFight ==
    ASSUME NEW d \in Chars, UNCHANGED <<in, skills, row>>, tangled \subseteq tangled',
           \A v \in Workers : op'[v] = op[v] \/ (op[v].pc \notin LearnPcs /\ op'[v].pc \notin LearnPcs),
           grow'[d].points = grow[d].points, grow'[d].map = grow[d].map, grow'[d].jobLevel = grow[d].jobLevel
    PROVE  Same(d)
<1>1. \A v \in Workers : Learns(v, d) \/ Learns(v, d)' => op'[v] = op[v]
  BY DEF Learns
<1> QED BY <1>1 DEF Same

LEMMA PayGrant ==
    ASSUME TypeInv, PayInv, NEW w \in Workers, Grant(w) \/ LevelUp(w)
    PROVE  PayInv'
<1>0. OpsOK /\ GrowOK
  BY DEF TypeInv
<1>1. UNCHANGED <<in, skills, row, tangled>>
  BY DEF Grant, LevelUp, respawnVars, bodyVars
<1>2. \A v \in Workers : op'[v] = op[v] \/ (op[v].pc \notin LearnPcs /\ op'[v].pc \notin LearnPcs)
  BY FightPcs DEF FightStep
<1>3. ASSUME NEW c \in Chars, c \in in, NEW g, grow' = [grow EXCEPT ![c] = g],
             g.points = grow[c].points, g.map = grow[c].map, g.jobLevel = grow[c].jobLevel, NEW d \in Chars
      PROVE  /\ grow'[d].points = grow[d].points /\ grow'[d].map = grow[d].map
             /\ grow'[d].jobLevel = grow[d].jobLevel
  BY <1>0, <1>3 DEF GrowOK
<1>4. ASSUME NEW d \in Chars
      PROVE  /\ grow'[d].points = grow[d].points /\ grow'[d].map = grow[d].map
             /\ grow'[d].jobLevel = grow[d].jobLevel
  <2>1. CASE UNCHANGED grow
    BY <2>1
  <2>2. CASE Grant(w) /\ grow' # grow
    <3>1. op[w] \in Granters \cup Payers
      BY <1>0, <2>2, OpKinds DEF Grant
    <3>2. op[w].due \subseteq Awards
      BY <3>1 DEF Granters, Payers
    <3>3. PICK a \in op[w].due : a.to \in in /\ grow' = [grow EXCEPT ![a.to] = GrantExp(@, a.gain)]
      BY <2>2 DEF Grant
    <3>4. PICK c \in Chars : c = a.to /\ a.gain \in Nat
      BY <3>2 DEF Awards
    <3>5. grow' = [grow EXCEPT ![c] = GrantExp(grow[c], a.gain)] /\ grow[c] \in Grown /\ c \in in
      BY <1>0, <3>3, <3>4 DEF GrowOK
    <3> QED BY <1>3, <3>4, <3>5, GrantExpType
  <2>3. CASE LevelUp(w) /\ grow' # grow
    <3>1. op[w] \in Payers
      BY <1>0, <2>3, OpKinds DEF LevelUp
    <3>2. PICK c \in Chars : c = op[w].to
      BY <3>1 DEF Payers
    <3>3. grow' = [grow EXCEPT ![c] = CheckLevelUp(grow[c])] /\ grow[c] \in Grown /\ c \in in
      BY <1>0, <2>3, <3>2 DEF LevelUp, GrowOK
    <3> QED BY <1>3, <3>3, CheckLevelUpType
  <2> QED BY <2>1, <2>2, <2>3
<1>5. \A d \in Chars : Same(d)
  BY <1>1, <1>2, <1>4, SameFight
<1> QED BY <1>5, PayAllSame

LEMMA PayJobLevelUp ==
    ASSUME TypeInv, PayInv, NEW w \in Workers, JobLevelUp(w)
    PROVE  PayInv'
<1>0. OpsOK /\ GrowOK
  BY DEF TypeInv
<1>1. UNCHANGED <<in, skills, row>>
  BY DEF JobLevelUp, respawnVars
<1>2. \A v \in Workers : op'[v] = op[v] \/ (op[v].pc \notin LearnPcs /\ op'[v].pc \notin LearnPcs)
  BY FightPcs DEF FightStep
<1>3. CASE UNCHANGED <<grow, tangled>>
  <2>1. \A d \in Chars : Same(d)
    BY <1>1, <1>2, <1>3, SameFight
  <2> QED BY <2>1, PayAllSame
<1>4. CASE ~UNCHANGED <<grow, tangled>>
  <2>1. op[w] \in Payers
    BY <1>0, OpKinds DEF JobLevelUp
  <2>2. PICK c \in Chars : c = op[w].to
    BY <2>1 DEF Payers
  <2>3. /\ c \in in /\ grow' = [grow EXCEPT ![c] = CheckJobLevelUp(grow[c])] /\ grow[c] \in Grown
        /\ tangled' = IF Learning(c) THEN tangled \cup {c} ELSE tangled
    BY <1>0, <1>4, <2>2 DEF JobLevelUp, Tangle, GrowOK
  <2>4. PICK g : /\ g = CheckJobLevelUp(grow[c]) /\ g \in Grown /\ g.map = grow[c].map
                 /\ g.points - grow[c].points = g.jobLevel - grow[c].jobLevel
    BY <2>3, CheckJobLevelUpType
  <2>5. grow'[c] = g /\ \A d \in Chars : d # c => grow'[d] = grow[d]
    BY <1>0, <2>3, <2>4 DEF GrowOK
  <2>6. ASSUME NEW d \in Chars, d # c PROVE Same(d)
    BY <1>1, <1>2, <2>3, <2>5, <2>6, SameFight
  <2>7. \A v \in Workers : (Learns(v, c)' <=> Learns(v, c)) /\ (Learns(v, c) => op'[v] = op[v])
    BY <1>2 DEF Learns
  <2>8. MapsOf(c)' \subseteq MapsOf(c)
    BY <2>4, <2>5, <2>7 DEF MapsOf
  <2>9. ASSUME c \notin tangled' PROVE Pay(c)'
    <3>1. c \notin tangled /\ \A v \in Workers : ~Learns(v, c)
      BY <1>0, <2>3, <2>9, LearnsKind
    <3>2. Paid(c)
      BY <2>3, <3>1 DEF PayInv, Pay
    <3>3. PICK k : k = Learned(grow[c].map) /\ k \in Nat /\ k = Learned(grow[c].map)'
      <4>1. skills \in [Maps -> 0 .. SkillMax] /\ grow[c].map \in Maps \cup {Nil}
        BY <1>0, <2>3 DEF GrowOK, Grown
      <4> QED BY <1>1, <2>4, <2>5, <4>1, GrowthConstants DEF Learned
    <3>4. /\ g.points \in Int /\ g.jobLevel \in Int /\ grow[c].points \in Int /\ grow[c].jobLevel \in Int
          /\ Granted(c) \in Int
      BY <2>3, <2>4, GrowthConstants DEF Grown, Granted
    <3>5. grow[c].points + k = Granted(c) + grow[c].jobLevel - 1
      BY <3>2, <3>3 DEF Paid
    <3>6. g.points + k = Granted(c) + g.jobLevel - 1
      <4>1. PICK p, q, i, j, h \in Int : /\ p = grow[c].points /\ q = g.points /\ h = Granted(c)
                                         /\ i = grow[c].jobLevel /\ j = g.jobLevel
        BY <3>4
      <4>2. q - p = j - i /\ p + k = h + i - 1 /\ k \in Int
        BY <2>4, <3>3, <3>5, <4>1
      <4>3. q + k = h + j - 1
        BY <4>2
      <4> QED BY <4>1, <4>3
    <3>7. Paid(c)'
      BY <1>1, <2>4, <2>5, <3>2, <3>3, <3>6 DEF Paid, Granted
    <3> QED BY <1>1, <2>3, <2>7, <3>1, <3>7 DEF Pay
  <2> QED BY <2>6, <2>8, <2>9, PayOthers
<1> QED BY <1>3, <1>4

\* The steps that touch an account.
PayAction ==
    \/ \E c \in Chars : LeaveMap(c) \/ EnterMap(c)
    \/ \E w \in Workers :
          \/ \E c \in Chars : LearnSnapshot(w, c)
          \/ LearnStep(w) \/ LearnFails(w) \/ Grant(w) \/ LevelUp(w) \/ JobLevelUp(w)

LEMMA PayFrame ==
    ASSUME TypeInv, [Next]_vars, ~PayAction
    PROVE  /\ UNCHANGED <<in, growthVars>>
           /\ \A v \in Workers : op'[v] = op[v] \/ (op[v].pc \notin LearnPcs /\ op'[v].pc \notin LearnPcs)
<1>1. UNCHANGED <<in, growthVars>>
  <2>1. CASE RespawnNext /\ UNCHANGED <<growthVars, op, mobVars, kills>>
    <3>1. ASSUME NEW c \in Chars, DeathMissed(c) \/ (\E t \in Timers : ArmRespawn(c, t)) \/ Press(c) \/ PressStep(c)
          PROVE  UNCHANGED in
      BY <3>1 DEF DeathMissed, ArmRespawn, Press, PressStep, PressCancel, PressRespawn
    <3>2. ASSUME NEW t \in Timers, TimerStep(t) PROVE UNCHANGED in
      BY <3>2 DEF TimerStep, Expire, Quit, ClearSlot, TimerRespawn
    <3>3. ASSUME Stop PROVE UNCHANGED in
      BY <3>3 DEF Stop
    <3> QED BY <2>1, <3>1, <3>2, <3>3 DEF RespawnNext
  <2>2. CASE GrowthNext
    <3>1. ASSUME NEW c \in Chars, Heal(c) PROVE UNCHANGED <<in, growthVars>>
      BY <3>1 DEF Heal, bodyVars
    <3>2. ASSUME NEW S, RegenTick(S) PROVE UNCHANGED <<in, growthVars>>
      BY <3>2 DEF RegenTick, bodyVars
    <3> QED BY <2>2, <3>1, <3>2 DEF GrowthNext, PayAction
  <2>3. CASE BattleNext
    <3>1. ASSUME NEW w \in Workers, NEW c, NEW t, Attack(w, c, t) PROVE UNCHANGED <<in, growthVars>>
      BY <3>1 DEF Attack, respawnVars
    <3>2. ASSUME NEW w \in Workers, FightStep(w) PROVE UNCHANGED <<in, growthVars>>
      BY <3>2 DEF FightStep, trySpendSP, HitMob, HitPlayer, Bury, Remove, scheduleRespawn, grantMobExp,
                  PayAction, respawnVars, bodyVars
    <3>3. ASSUME NEW m \in Mobs, MobRespawn(m) \/ \E c \in Chars : Swing(m, c) PROVE UNCHANGED <<in, growthVars>>
      BY <3>3 DEF MobRespawn, Swing, Die, respawnVars
    <3>4. ASSUME resolve PROVE UNCHANGED <<in, growthVars>>
      BY <3>4 DEF resolve, respawnVars
    <3> QED BY <2>3, <3>1, <3>2, <3>3, <3>4 DEF BattleNext
  <2>4. CASE UNCHANGED vars
    BY <2>4 DEF vars, respawnVars
  <2> QED BY <2>1, <2>2, <2>3, <2>4 DEF Next
<1>2. CASE UNCHANGED op
  BY <1>1, <1>2
<1>3. ASSUME NEW w \in Workers, Handles(w)
      PROVE  \A v \in Workers : op'[v] = op[v] \/ (op[v].pc \notin LearnPcs /\ op'[v].pc \notin LearnPcs)
  BY <1>3, FightPcs DEF Handles, PayAction
<1> QED BY <1>1, <1>2, <1>3, OpFrame

LEMMA PayStep ==
    ASSUME TypeInv, PayInv, [Next]_vars
    PROVE  PayInv'
<1>1. CASE ~PayAction
  <2>1. \A d \in Chars : Same(d)
    BY <1>1, PayFrame, SameFight DEF growthVars
  <2> QED BY <2>1, PayAllSame
<1>2. CASE PayAction
  BY <1>2, PayLeave, PayEnter, PaySnapshot, PayRaise, PaySave, PayApply, PayGrant, PayJobLevelUp
     DEF PayAction, LearnStep
<1> QED BY <1>1, <1>2

LEMMA InitPay ==
    ASSUME Init
    PROVE  PayInv
<1>0. GrowthInit /\ in = Chars /\ op = [w \in Workers |-> Idle] /\ row = [c \in Chars |-> Newcomer(c)]
  BY DEF Init, RespawnInit, GrowthInit
<1>1. PICK id \in [Chars -> 1 .. Cardinality(Chars)] :
          /\ \A b, c \in Chars : id[b] = id[c] => b = c
          /\ grow = [c \in Chars |-> Loaded(Newcomer(c), id[c])]
          /\ skills = [m \in Maps |->
                IF \E c \in Chars : id[c] = m THEN StartSkill[CHOOSE c \in Chars : id[c] = m] ELSE 0]
  BY <1>0, InitMaps
<1>2. \A c \in Chars : id[c] \in Maps /\ id[c] # Nil
  <2>1. Cardinality(Chars) \in Nat /\ Cardinality(Workers) \in Nat
    BY GrowthConstants, FS_CardinalityType
  <2>2. \A m \in 1 .. Cardinality(Chars) : m \in Maps /\ m # 0
    BY <2>1 DEF Maps
  <2> QED BY <2>2 DEF Nil
<1>3. \A w \in Workers : \A c : ~Learns(w, c)
  BY <1>0 DEF Learns, LearnPcs, Idle
<1>4. ASSUME NEW c \in Chars
      PROVE  /\ grow[c].points = StartPoints /\ grow[c].jobLevel = 1
             /\ grow[c].map = IF StartSkill[c] = 0 THEN Nil ELSE id[c]
  <2>1. grow[c] = Loaded(Newcomer(c), id[c])
    BY <1>1
  <2> QED BY <1>2, <2>1, NewcomerType, LoadedType
<1>5. Apart
  <2>1. \A c \in Chars : MapsOf(c) \subseteq {id[c]}
    BY <1>3, <1>4 DEF MapsOf
  <2> QED BY <1>1, <2>1 DEF Apart
<1>6. ASSUME NEW c \in Chars PROVE Pay(c)
  <2>1. skills[id[c]] = StartSkill[c]
    <3>1. PICK m : m = id[c]
      OBVIOUS
    <3>2. \A b \in Chars : id[b] = m <=> b = c
      BY <1>1, <3>1
    <3>3. (CHOOSE b \in Chars : id[b] = m) = c
      BY <3>2
    <3>4. skills[m] = StartSkill[CHOOSE b \in Chars : id[b] = m]
      BY <1>1, <1>2, <3>1
    <3> QED BY <3>1, <3>3, <3>4
  <2>2. Learned(grow[c].map) = StartSkill[c]
    BY <1>2, <1>4, <2>1 DEF Learned
  <2>3. row[c].skill = StartSkill[c]
    BY <1>0, NewcomerType
  <2>4. StartPoints \in Nat /\ StartSkill[c] \in Nat
    BY GrowthConstants
  <2>5. Paid(c)
    BY <1>2, <1>4, <2>2, <2>3, <2>4 DEF Paid, Granted
  <2> QED BY <1>0, <1>3, <2>5 DEF Pay
<1> QED BY <1>5, <1>6 DEF PayInv

\* Skill points pay for skill levels: what a character has learned and what it has left
\* to spend are what its job levels brought, in the world and in the tables, whatever the
\* others learn, gain or lose meanwhile; the entity, its copy in LearnSkill, the map they
\* share and the two tables agree on it (LearnSkill, CheckJobLevelUp, LeaveMap, EnterMap).
THEOREM PointsCorrect == Spec => []PointsPayForLevels
<1> DEFINE I == TypeInv /\ PayInv
<1>1. Init => I
  BY InitType, InitPay
<1>2. I /\ [Next]_vars => I'
  BY TypeStep, PayStep
<1>3. I => PointsPayForLevels
  <2> SUFFICES ASSUME I, NEW c \in Chars \ tangled, ~Learning(c)
               PROVE  IF c \in in
                      THEN grow[c].points + Learned(grow[c].map) = Granted(c) + grow[c].jobLevel - 1
                      ELSE row[c].points + row[c].skill = Granted(c) + row[c].jobLevel - 1
    BY DEF PointsPayForLevels
  <2>1. \A w \in Workers : ~Learns(w, c)
    BY LearnsKind DEF TypeInv
  <2> QED BY <2>1 DEF PayInv, Pay, Paid
<1> QED BY <1>1, <1>2, <1>3, PTL DEF Spec

-----------------------------------------------------------------------------
\* Experience.

earned == [c \in Chars |-> Earned(c)]
dues == [w \in Workers |-> Due(w)]

\* The most that each character could come to have of what it was given, now or when
\* the copy in a LearnSkill is saved: e is what they have, o what the handlers do.
Covers(high, e, o) ==
    /\ \A c \in Chars : e[c] <= high[c]
    /\ \A w \in Workers : o[w] \in Learners => Worth(o[w].snap) <= high[o[w].char]

DueFinite == \A w \in Workers : op[w].pc \in {"grant", "level", "jobLevel"} => IsFiniteSet(op[w].due)

\* A row or a copy may be behind the entity, so what a character has may go up as well as
\* down; the heights it never exceeds are bounded by the kills.
MintInv ==
    /\ DueFinite
    /\ \E high \in [Chars -> Int] :
          /\ Covers(high, earned, op)
          /\ SumOver(high, Chars) + SumOver(dues, Workers) <= Reward * kills

\* What c has is what it had, or what a handler saved of it.
Backed(c) ==
    \/ Earned(c)' = Earned(c)
    \/ \E v \in Workers : op[v] \in Learners /\ op[v].char = c /\ Earned(c)' = Worth(op[v].snap)

\* A copy that v holds is the one it held, or of what the character has.
Copied(v) ==
    op'[v] \in Learners =>
        \/ op[v] \in Learners /\ op'[v].char = op[v].char /\ op'[v].snap = op[v].snap
        \/ Worth(op'[v].snap) = Earned(op'[v].char)

LEMMA DueKinds ==
    ASSUME OpsOK, NEW w \in Workers
    PROVE  /\ op[w].pc \in LearnPcs \cup {"idle", "hit", "spend"} => Due(w) = 0
           /\ op[w].pc \in BuryPcs \cup {"share"} => Due(w) = Reward
           /\ op[w].pc \in {"grant", "level", "jobLevel"} =>
                 /\ Due(w) = SumOver([a \in op[w].due |-> a.gain], op[w].due)
                 /\ op[w].due \subseteq Awards
           /\ op[w].pc \in LearnPcs \cup BuryPcs \cup {"idle", "hit", "spend", "share", "grant", "level", "jobLevel"}
<1>0. op[w] \in Ops /\ Buriers = [pc : {"bury", "remove", "schedule"}, char : Chars, who : Mobs]
  BY DEF OpsOK, Buriers
<1>d. Due(w) = IF op[w].pc = "share" \/ op[w] \in Buriers THEN Reward
               ELSE IF "due" \in DOMAIN op[w] THEN SumOver([a \in op[w].due |-> a.gain], op[w].due) ELSE 0
  BY <1>0 DEF Due
<1>b. op[w] \in Buriers => op[w].pc \in BuryPcs
  BY DEF Buriers, BuryPcs
<1>1. CASE op[w] = Idle
  <2>1. op[w].pc = "idle" /\ "due" \notin DOMAIN op[w]
    BY <1>1 DEF Idle
  <2> QED BY <1>d, <1>b, <2>1 DEF LearnPcs, BuryPcs
<1>2. CASE op[w] \in Learners
  <2>1. op[w].pc \in LearnPcs /\ "due" \notin DOMAIN op[w]
    BY <1>2 DEF Learners, LearnPcs
  <2> QED BY <1>d, <1>b, <2>1 DEF LearnPcs, BuryPcs
<1>3. CASE op[w] \in Fighters
  <2>1. op[w].pc \in {"hit", "spend"} /\ "due" \notin DOMAIN op[w]
    BY <1>3 DEF Fighters
  <2> QED BY <1>d, <1>b, <2>1 DEF LearnPcs, BuryPcs
<1>4. CASE op[w] \in Buriers
  BY <1>d, <1>b, <1>4 DEF LearnPcs, BuryPcs
<1>5. CASE op[w] \in Sharers
  <2>1. op[w].pc = "share"
    BY <1>5 DEF Sharers
  <2> QED BY <1>d, <2>1 DEF LearnPcs, BuryPcs
<1>6. CASE op[w] \in Granters \cup Payers
  <2>1. op[w].pc \in {"grant", "level", "jobLevel"} /\ "due" \in DOMAIN op[w] /\ op[w].due \subseteq Awards
    BY <1>6 DEF Granters, Payers
  <2> QED BY <1>d, <1>b, <2>1 DEF LearnPcs, BuryPcs
<1> QED BY <1>0, <1>1, <1>2, <1>3, <1>4, <1>5, <1>6 DEF Ops

LEMMA AwardsSum ==
    ASSUME NEW A, A \subseteq Awards, IsFiniteSet(A)
    PROVE  SumOver([a \in A |-> a.gain], A) \in Nat
<1> DEFINE f == [a \in A |-> a.gain]
<1>1. \A a \in A : f[a] \in Nat
  BY DEF Awards
<1> HIDE DEF f
<1>2. SumOver(f, A) \in Nat
  BY <1>1, SumNat
<1> QED BY <1>2 DEF f

LEMMA DueType == OpsOK /\ DueFinite => \A w \in Workers : Due(w) \in Nat
<1> SUFFICES ASSUME OpsOK, DueFinite, NEW w \in Workers PROVE Due(w) \in Nat
  OBVIOUS
<1>1. CASE op[w].pc \in {"grant", "level", "jobLevel"}
  BY <1>1, DueKinds, AwardsSum DEF DueFinite
<1>2. CASE op[w].pc \notin {"grant", "level", "jobLevel"}
  <2>1. Due(w) = 0 \/ Due(w) = Reward
    BY <1>2, DueKinds
  <2> QED BY <2>1, BattleConstants
<1> QED BY <1>1, <1>2

\* ... before a step and after it.
LEMMA DueTypes == (OpsOK /\ DueFinite => \A w \in Workers : Due(w) \in Nat)'
  BY DueType, PTL

LEMMA WorthType ==
    ASSUME NEW g \in Grown \cup Kept
    PROVE  Worth(g) \in Int
<1>1. g.base \in Int /\ g.level \in Int /\ BaseStep \in Int
  BY GrowthConstants DEF Grown, Kept
<1> QED BY <1>1 DEF Worth

LEMMA EarnedType ==
    ASSUME GrowOK, NEW c \in Chars
    PROVE  Earned(c) \in Int
BY WorthType DEF GrowOK, Earned

\* A level costs what it is counted for, and nothing else makes an entity worth more.
LEMMA WorthOf ==
    ASSUME NEW g \in Grown, NEW gain \in Nat
    PROVE  /\ Worth(GrantExp(g, gain)) <= Worth(g) + gain
           /\ Worth(CheckLevelUp(g)) = Worth(g)
           /\ Worth(CheckJobLevelUp(g)) = Worth(g)
<1>1. g.base \in 0 .. ExpCap /\ g.level \in 1 .. MaxLevel /\ g.job \in 0 .. ExpCap
  BY DEF Grown
<1>0. ExpCap \in Nat /\ MaxLevel \in Nat /\ BaseStep \in Nat \ {0}
  BY GrowthConstants
<1>2. PICK b, l, p \in Int : b = g.base /\ l = g.level /\ p = BaseStep * (l - 1)
  BY <1>0, <1>1
<1>3. Worth(g) = b + p
  BY <1>2 DEF Worth
<1>4. Worth(GrantExp(g, gain)) <= Worth(g) + gain
  <2>1. PICK n \in Int : n = clampExpAdd(g.base, gain) /\ n <= b + gain
    BY <1>0, <1>2 DEF clampExpAdd
  <2>2. PICK h : h = GrantExp(g, gain)
    OBVIOUS
  <2>c. h = [g EXCEPT !.base = n, !.job = clampExpAdd(g.job, gain)]
    BY <2>1, <2>2 DEF GrantExp, Grown
  <2>e. h.base = n /\ h.level = l
    BY <1>2, <2>c DEF Grown
  <2>3. Worth(h) = n + p
    BY <1>2, <2>e DEF Worth
  <2> QED BY <1>2, <1>3, <2>1, <2>2, <2>3
<1>5. Worth(CheckLevelUp(g)) = Worth(g)
  <2>1. PICK k : k = BaseGained(g) /\ k \in Int
    <3>1. PICK room \in Nat : room = MaxLevel - g.level
      BY <1>0, <1>1
    <3>2. BaseGained(g) \in 0 .. room
      <4>1. g.base \in Nat /\ BaseStep \in Nat \ {0}
        BY <1>0, <1>1
      <4> QED BY <3>1, <4>1, GainedBound DEF BaseGained
    <3> QED BY <3>2
  <2>2. PICK h : h = CheckLevelUp(g)
    OBVIOUS
  <2>c. h = [g EXCEPT !.base = b - BaseStep * k, !.level = l + k]
    BY <1>2, <2>1, <2>2 DEF CheckLevelUp, Grown
  <2>e. h.base = b - BaseStep * k /\ h.level = l + k
    BY <2>c DEF Grown
  <2>3. Worth(h) = (b - BaseStep * k) + BaseStep * ((l + k) - 1)
    <3>1. Worth(h) = h.base + BaseStep * (h.level - 1)
      BY DEF Worth
    <3> QED BY <2>e, <3>1, Zenon
  <2>4. BaseStep * ((l + k) - 1) = p + BaseStep * k /\ BaseStep * k \in Int
    BY <1>0, <1>2, <2>1
  <2>5. (b - BaseStep * k) + (p + BaseStep * k) = b + p
    BY <1>2, <2>4
  <2> QED BY <1>3, <2>2, <2>3, <2>4, <2>5
<1>6. Worth(CheckJobLevelUp(g)) = Worth(g)
  <2>1. CheckJobLevelUp(g).base = g.base /\ CheckJobLevelUp(g).level = g.level
    BY DEF CheckJobLevelUp, Grown
  <2> QED BY <2>1 DEF Worth
<1> QED BY <1>4, <1>5, <1>6

\* Whatever is in the copies was within the heights already.
LEMMA CoversStep ==
    ASSUME TypeInv, TypeInv', NEW high \in [Chars -> Int], NEW more \in [Chars -> Int],
           Covers(high, earned, op),
           \A b \in Chars : high[b] <= more[b],
           \A b \in Chars : Backed(b) \/ Earned(b)' <= more[b],
           \A v \in Workers : Copied(v)
    PROVE  Covers(more, earned', op')
<1>0. GrowOK /\ GrowOK' /\ OpsOK /\ OpsOK'
  BY DEF TypeInv
<1>1. \A b \in Chars : Earned(b) \in Int /\ Earned(b)' \in Int
  <2>1. \A b \in Chars : Earned(b) \in Int
    BY <1>0, EarnedType
  <2>2. \A b \in Chars : Earned(b)' \in Int
    BY <1>0, WorthType DEF GrowOK, Earned
  <2> QED BY <2>1, <2>2
<1>2. \A b \in Chars : Earned(b) <= high[b] /\ high[b] \in Int /\ more[b] \in Int
  BY DEF Covers, earned
<1>3. \A v \in Workers : op[v] \in Learners => Worth(op[v].snap) <= high[op[v].char] /\ Worth(op[v].snap) \in Int
                                             /\ op[v].char \in Chars
  <2> SUFFICES ASSUME NEW v \in Workers, op[v] \in Learners
               PROVE  Worth(op[v].snap) <= high[op[v].char] /\ Worth(op[v].snap) \in Int /\ op[v].char \in Chars
    OBVIOUS
  <2>1. op[v].snap \in Grown /\ op[v].char \in Chars
    BY DEF Learners, Snaps
  <2> QED BY <2>1, WorthType DEF Covers
<1>4. ASSUME NEW b \in Chars PROVE Earned(b)' <= more[b]
  <2>1. CASE Earned(b)' = Earned(b)
    BY <1>1, <1>2, <2>1
  <2>2. ASSUME NEW v \in Workers, op[v] \in Learners, op[v].char = b, Earned(b)' = Worth(op[v].snap)
        PROVE  Earned(b)' <= more[b]
    BY <1>1, <1>2, <1>3, <2>2
  <2> QED BY <2>1, <2>2 DEF Backed
<1>5. ASSUME NEW v \in Workers, op'[v] \in Learners PROVE Worth(op'[v].snap) <= more[op'[v].char]
  <2>1. PICK b \in Chars : b = op'[v].char
    BY <1>5 DEF Learners
  <2>2. CASE op[v] \in Learners /\ op'[v].char = op[v].char /\ op'[v].snap = op[v].snap
    BY <1>2, <1>3, <2>1, <2>2
  <2>3. CASE Worth(op'[v].snap) = Earned(op'[v].char)
    BY <1>1, <1>2, <2>1, <2>3
  <2> QED BY <1>5, <2>2, <2>3 DEF Copied
<1>6. \A b \in Chars : earned'[b] <= more[b]
  BY <1>4 DEF earned
<1> QED BY <1>5, <1>6 DEF Covers

\* A step that gives nobody anything.
LEMMA MintStill ==
    ASSUME TypeInv, TypeInv', MintInv, DueFinite', UNCHANGED kills,
           \A b \in Chars : Backed(b),
           \A v \in Workers : Copied(v),
           \A v \in Workers : Due(v)' <= Due(v)
    PROVE  MintInv'
<1>0. OpsOK /\ OpsOK' /\ DueFinite /\ IsFiniteSet(Chars) /\ IsFiniteSet(Workers)
  BY GrowthConstants DEF TypeInv, MintInv
<1>1. PICK high \in [Chars -> Int] :
          Covers(high, earned, op) /\ SumOver(high, Chars) + SumOver(dues, Workers) <= Reward * kills
  BY DEF MintInv
<1>2. Covers(high, earned', op')
  BY <1>1, CoversStep
<1>3. PICK d, e : d = dues /\ e = dues'
  OBVIOUS
<1>4. \A v \in Workers : d[v] \in Int /\ e[v] \in Int /\ e[v] <= d[v]
  <2>1. \A v \in Workers : Due(v) \in Nat
    BY <1>0, DueType
  <2>2. \A v \in Workers : Due(v)' \in Nat
    BY <1>0, DueTypes
  <2> QED BY <1>3, <2>1, <2>2 DEF dues
<1>5. SumOver(e, Workers) <= SumOver(d, Workers) /\ SumOver(e, Workers) \in Int /\ SumOver(d, Workers) \in Int
  BY <1>0, <1>4, SumMonotone, SumType
<1>6. SumOver(high, Chars) \in Int /\ Reward * kills \in Int
  <2>1. Reward \in Int /\ kills \in Int
    BY BattleConstants DEF TypeInv, MobsOK
  <2> QED BY <1>0, <2>1, SumType
<1>7. SumOver(high, Chars) + SumOver(e, Workers) <= Reward * kills
  BY <1>1, <1>3, <1>5, <1>6
<1>8. SumOver(high, Chars) + SumOver(dues', Workers) <= Reward * kills'
  BY <1>3, <1>7
<1> QED BY <1>2, <1>8 DEF MintInv

\* Handler w gives gain of what is due to c, more kills having been made.
LEMMA MintMove ==
    ASSUME TypeInv, TypeInv', MintInv, DueFinite',
           NEW w \in Workers, NEW c \in Chars, NEW gain \in Nat, NEW more \in {0, 1}, kills' = kills + more,
           \A b \in Chars : Backed(b) \/ (b = c /\ Earned(b)' <= Earned(b) + gain),
           \A v \in Workers : Copied(v),
           \A v \in Workers : v # w => Due(v)' = Due(v),
           Due(w)' + gain <= Due(w) + Reward * more
    PROVE  MintInv'
<1>0. OpsOK /\ OpsOK' /\ GrowOK /\ DueFinite /\ IsFiniteSet(Chars) /\ IsFiniteSet(Workers)
  BY GrowthConstants DEF TypeInv, MintInv
<1>1. PICK high \in [Chars -> Int] :
          Covers(high, earned, op) /\ SumOver(high, Chars) + SumOver(dues, Workers) <= Reward * kills
  BY DEF MintInv
<1>2. PICK up : up = [high EXCEPT ![c] = high[c] + gain]
  OBVIOUS
<1>3. up \in [Chars -> Int] /\ up[c] = high[c] + gain /\ \A b \in Chars \ {c} : up[b] = high[b]
  BY <1>2
<1>4. \A b \in Chars : high[b] <= up[b]
  BY <1>3
<1>5. \A b \in Chars : Backed(b) \/ Earned(b)' <= up[b]
  <2> SUFFICES Earned(c)' <= Earned(c) + gain => Earned(c)' <= up[c]
    OBVIOUS
  <2>1. Earned(c) <= high[c]
    BY <1>1 DEF Covers, earned
  <2>2. Earned(c) \in Int
    BY <1>0, EarnedType
  <2>3. Earned(c)' \in Int
    <3>1. GrowOK'
      BY DEF TypeInv
    <3> QED BY <3>1, WorthType DEF GrowOK, Earned
  <2> QED BY <1>3, <2>1, <2>2, <2>3
<1>6. Covers(up, earned', op')
  BY <1>1, <1>3, <1>4, <1>5, CoversStep
<1>7. SumOver(up, Chars) = SumOver(high, Chars) - high[c] + up[c] /\ SumOver(high, Chars) \in Int
  BY <1>0, <1>3, SumUpdate, SumType
<1>8. PICK d, e : d = dues /\ e = dues'
  OBVIOUS
<1>9. /\ \A v \in Workers : d[v] \in Int /\ e[v] \in Int
      /\ \A v \in Workers \ {w} : e[v] = d[v]
      /\ e[w] + gain <= d[w] + Reward * more
  <2>1. \A v \in Workers : Due(v) \in Nat
    BY <1>0, DueType
  <2>2. \A v \in Workers : Due(v)' \in Nat
    BY <1>0, DueTypes
  <2> QED BY <1>8, <2>1, <2>2 DEF dues
<1>10. SumOver(e, Workers) = SumOver(d, Workers) - d[w] + e[w] /\ SumOver(d, Workers) \in Int
  BY <1>0, <1>9, SumUpdate, SumType
<1>11. /\ Reward * kills' = Reward * kills + Reward * more
       /\ Reward * kills \in Int /\ Reward * more \in Int
  <2>1. Reward \in Int /\ kills \in Int /\ more \in Int
    BY BattleConstants DEF TypeInv, MobsOK
  <2> QED BY <2>1
<1>12. SumOver(up, Chars) + SumOver(e, Workers) <= Reward * kills'
  <2>1. PICK h, x, y, u, r, m, s, t \in Int :
            /\ h = high[c] /\ x = d[w] /\ y = e[w] /\ r = Reward * kills /\ m = Reward * more
            /\ s = SumOver(high, Chars) /\ t = SumOver(d, Workers) /\ u = up[c]
    BY <1>3, <1>7, <1>9, <1>10, <1>11
  <2>2. s + t <= r /\ u = h + gain /\ y + gain <= x + m
    BY <1>1, <1>3, <1>8, <1>9, <2>1
  <2>3. (s - h + u) + (t - x + y) <= r + m
    BY <2>2
  <2> QED BY <1>7, <1>10, <1>11, <2>1, <2>3
<1>13. SumOver(up, Chars) + SumOver(dues', Workers) <= Reward * kills'
  BY <1>8, <1>12
<1> QED BY <1>3, <1>6, <1>13 DEF MintInv

\* What is due, after a step.
LEMMA DueAfter ==
    (OpsOK => \A w \in Workers :
        /\ op[w].pc \in LearnPcs \cup {"idle", "hit", "spend"} => Due(w) = 0
        /\ op[w].pc \in BuryPcs \cup {"share"} => Due(w) = Reward
        /\ op[w].pc \in {"grant", "level", "jobLevel"} =>
              Due(w) = SumOver([a \in op[w].due |-> a.gain], op[w].due))'
<1>1. OpsOK => \A w \in Workers :
        /\ op[w].pc \in LearnPcs \cup {"idle", "hit", "spend"} => Due(w) = 0
        /\ op[w].pc \in BuryPcs \cup {"share"} => Due(w) = Reward
        /\ op[w].pc \in {"grant", "level", "jobLevel"} =>
              Due(w) = SumOver([a \in op[w].due |-> a.gain], op[w].due)
  BY DueKinds
<1> QED BY <1>1, PTL

LEMMA DueSame ==
    ASSUME NEW v \in Workers, op'[v] = op[v]
    PROVE  Due(v)' = Due(v)
BY DEF Due

LEMMA CopiedSame ==
    ASSUME NEW v \in Workers, op'[v] = op[v] \/ op'[v].pc \notin LearnPcs
    PROVE  Copied(v)
<1>1. op'[v] \in Learners => op'[v].pc \in LearnPcs
  BY DEF Learners, LearnPcs
<1> QED BY <1>1 DEF Copied

\* A handler goes about something that has nothing to do with what is due.
LEMMA DueKept ==
    ASSUME OpsOK, OpsOK', DueFinite, NEW w \in Workers, \A v \in Workers : v # w => op'[v] = op[v],
           \/ op'[w].pc \in LearnPcs \cup {"idle", "hit", "spend"}
           \/ op[w].pc \in BuryPcs /\ op'[w].pc \in BuryPcs \cup {"share"}
    PROVE  DueFinite' /\ \A v \in Workers : Due(v)' <= Due(v)
<1>1. op'[w].pc \notin {"grant", "level", "jobLevel"}
  BY DEF LearnPcs, BuryPcs
<1>2. DueFinite'
  <2> SUFFICES ASSUME NEW v \in Workers, op'[v].pc \in {"grant", "level", "jobLevel"}
               PROVE  IsFiniteSet(op'[v].due)
    BY DEF DueFinite
  <2>1. op'[v] = op[v]
    BY <1>1
  <2> QED BY <2>1 DEF DueFinite
<1>3. \A v \in Workers : Due(v) \in Nat
  BY DueType
<1>4. Due(w)' <= Due(w)
  <2>1. CASE op'[w].pc \in LearnPcs \cup {"idle", "hit", "spend"}
    <3>1. Due(w)' = 0
      BY <2>1, DueAfter
    <3> QED BY <1>3, <3>1
  <2>2. CASE op[w].pc \in BuryPcs /\ op'[w].pc \in BuryPcs \cup {"share"}
    <3>1. Due(w)' = Reward
      BY <2>2, DueAfter
    <3>2. Due(w) = Reward
      BY <2>2, DueKinds
    <3> QED BY <3>1, <3>2, BattleConstants
  <2> QED BY <2>1, <2>2
<1>5. ASSUME NEW v \in Workers, v # w PROVE Due(v)' <= Due(v)
  BY <1>3, <1>5, DueSame
<1> QED BY <1>2, <1>4, <1>5

\* A handler pays on: the awards it still has to hand out are the same.
LEMMA DueCarried ==
    ASSUME TypeInv, OpsOK', MintInv, NEW w \in Workers, LevelUp(w) \/ JobLevelUp(w)
    PROVE  DueFinite' /\ \A v \in Workers : Due(v)' <= Due(v)
<1>0. OpsOK /\ DueFinite
  BY DEF TypeInv, MintInv
<1>1. /\ op[w].pc \in {"level", "jobLevel"} /\ op[w] \in Payers
      /\ op' = [op EXCEPT ![w].pc = "jobLevel"] \/ op' = [op EXCEPT ![w] = [pc |-> "grant", due |-> op[w].due]]
  BY <1>0, OpKinds DEF LevelUp, JobLevelUp
<1>2. PICK r : /\ op' = [op EXCEPT ![w] = r]
               /\ r = [op[w] EXCEPT !.pc = "jobLevel"] \/ r = [pc |-> "grant", due |-> op[w].due]
  BY <1>0, <1>1 DEF OpsOK
<1>3. r.due = op[w].due /\ r.pc \in {"jobLevel", "grant"}
  BY <1>1, <1>2 DEF Payers
<1>4. op'[w] = r /\ \A v \in Workers : v # w => op'[v] = op[v]
  BY <1>0, <1>2 DEF OpsOK
<1>5. DueFinite'
  BY <1>0, <1>1, <1>3, <1>4 DEF DueFinite
<1>6. Due(w)' = Due(w)
  <2>1. Due(w)' = SumOver([a \in op'[w].due |-> a.gain], op'[w].due)
    BY <1>3, <1>4, DueAfter
  <2>2. Due(w) = SumOver([a \in op[w].due |-> a.gain], op[w].due)
    BY <1>0, <1>1, DueKinds
  <2> QED BY <1>3, <1>4, <2>1, <2>2
<1>7. \A v \in Workers : Due(v)' = Due(v)
  BY <1>4, <1>6, DueSame
<1>8. \A v \in Workers : Due(v) \in Nat
  BY <1>0, DueType
<1> QED BY <1>5, <1>7, <1>8

LEMMA KillsFrame ==
    ASSUME [Next]_vars
    PROVE  UNCHANGED kills \/ \E w \in Workers, d \in Damages : HitMob(w, d)
<1>1. CASE BattleNext
  <2>1. ASSUME NEW w \in Workers, NEW c, NEW t, Attack(w, c, t) PROVE UNCHANGED kills
    BY <2>1 DEF Attack
  <2>2. ASSUME NEW w \in Workers, FightStep(w), \A d \in Damages : ~HitMob(w, d) PROVE UNCHANGED kills
    BY <2>2 DEF FightStep, trySpendSP, HitPlayer, Bury, Remove, scheduleRespawn, grantMobExp, Grant, LevelUp, JobLevelUp
  <2>3. ASSUME NEW m \in Mobs, MobRespawn(m) \/ \E c \in Chars : Swing(m, c) PROVE UNCHANGED kills
    BY <2>3 DEF MobRespawn, Swing
  <2>4. ASSUME resolve PROVE UNCHANGED kills
    BY <2>4 DEF resolve
  <2> QED BY <1>1, <2>1, <2>2, <2>3, <2>4 DEF BattleNext
<1> QED BY <1>1 DEF Next, vars

LEMMA MintTravel ==
    ASSUME TypeInv, TypeInv', MintInv, UNCHANGED kills, NEW c \in Chars, LeaveMap(c) \/ EnterMap(c)
    PROVE  MintInv'
<1>0. OpsOK /\ GrowOK /\ DueFinite
  BY DEF TypeInv, MintInv
<1>1. UNCHANGED op
  BY DEF LeaveMap, EnterMap
<1>2. ASSUME NEW b \in Chars PROVE Earned(b)' = Earned(b)
  <2>1. CASE LeaveMap(c)
    <3>1. c \in in /\ in' = in \ {c} /\ grow' = [grow EXCEPT ![c] = Absent]
      BY <2>1 DEF LeaveMap, Leave
    <3>2. PICK k : row' = [row EXCEPT ![c] =
              [base |-> grow[c].base, level |-> grow[c].level, job |-> grow[c].job,
               jobLevel |-> grow[c].jobLevel, points |-> grow[c].points, skill |-> k]]
      BY <1>0, <2>1 DEF LeaveMap, GrowOK
    <3>3. PICK r : /\ r = [base |-> grow[c].base, level |-> grow[c].level, job |-> grow[c].job,
                           jobLevel |-> grow[c].jobLevel, points |-> grow[c].points, skill |-> k]
                   /\ row' = [row EXCEPT ![c] = r]
      BY <3>2
    <3>4. r.base = grow[c].base /\ r.level = grow[c].level
      BY <3>3
    <3>5. row'[c] = r /\ \A d \in Chars : d # c => row'[d] = row[d] /\ grow'[d] = grow[d]
      BY <1>0, <3>1, <3>3 DEF GrowOK
    <3> QED BY <3>1, <3>4, <3>5 DEF Earned, Worth
  <2>2. CASE EnterMap(c)
    <3>1. c \notin in /\ in' = in \cup {c} /\ UNCHANGED row
      BY <2>2 DEF EnterMap, Enter
    <3>2. PICK m : grow' = [grow EXCEPT ![c] = Loaded(row[c], m)]
      BY <2>2 DEF EnterMap
    <3>3. Loaded(row[c], m).base = row[c].base /\ Loaded(row[c], m).level = row[c].level
      BY DEF Loaded
    <3>4. grow'[c] = Loaded(row[c], m) /\ \A d \in Chars : d # c => grow'[d] = grow[d]
      BY <1>0, <3>2 DEF GrowOK
    <3> QED BY <3>1, <3>3, <3>4 DEF Earned, Worth
  <2> QED BY <2>1, <2>2
<1>3. DueFinite'
  BY <1>0, <1>1 DEF DueFinite
<1>4. \A v \in Workers : Due(v) \in Nat
  BY <1>0, DueType
<1>5. \A v \in Workers : Due(v)' <= Due(v)
  BY <1>1, <1>4, DueSame
<1>6. \A v \in Workers : Copied(v)
  BY <1>1, CopiedSame
<1>7. \A b \in Chars : Backed(b)
  BY <1>2 DEF Backed
<1> QED BY <1>3, <1>5, <1>6, <1>7, MintStill

LEMMA MintLearn ==
    ASSUME TypeInv, TypeInv', MintInv, UNCHANGED kills, NEW w \in Workers,
           (\E c \in Chars : LearnSnapshot(w, c)) \/ LearnStep(w) \/ LearnFails(w)
    PROVE  MintInv'
<1>0. OpsOK /\ OpsOK' /\ GrowOK /\ DueFinite
  BY DEF TypeInv, MintInv
<1>1. (\A v \in Workers : v # w => op'[v] = op[v]) /\ op'[w].pc \in LearnPcs \cup {"idle"}
  BY LearnPcsStep
<1>2. DueFinite' /\ \A v \in Workers : Due(v)' <= Due(v)
  BY <1>0, <1>1, DueKept
<1>3. ASSUME Copied(w), \A b \in Chars : Backed(b) PROVE MintInv'
  <2>1. \A v \in Workers : Copied(v)
    BY <1>1, <1>3, CopiedSame
  <2> QED BY <1>2, <1>3, <2>1, MintStill
<1>4. ASSUME UNCHANGED <<in, grow, row>> PROVE \A b \in Chars : Backed(b)
  BY <1>4 DEF Backed, Earned
<1>r. ASSUME Return(w) PROVE Copied(w)
  <2>1. op'[w].pc \notin LearnPcs
    BY <1>0, <1>r, ReturnType DEF Idle, LearnPcs
  <2> QED BY <2>1, CopiedSame
<1>k. ASSUME op[w] \in Learners, NEW r, op' = [op EXCEPT ![w] = r], r.char = op[w].char, r.snap = op[w].snap
      PROVE  Copied(w)
  BY <1>0, <1>k DEF Copied, OpsOK
<1>5. ASSUME NEW c \in Chars, LearnSnapshot(w, c) PROVE MintInv'
  <2>1. PICK r : /\ r = [pc |-> "raise", char |-> c, snap |-> grow[c], dead |-> c \in dead, sp |-> sp[c],
                         map |-> grow[c].map, list |-> 0]
                 /\ op' = [op EXCEPT ![w] = r]
    BY <1>5 DEF LearnSnapshot
  <2>2. r.snap = grow[c] /\ r.char = c /\ op'[w] = r
    BY <1>0, <2>1 DEF OpsOK
  <2>3. UNCHANGED <<in, grow, row>> /\ c \in in
    BY <1>5 DEF LearnSnapshot, respawnVars
  <2>4. Copied(w)
    BY <2>2, <2>3 DEF Copied, Earned
  <2> QED BY <1>3, <1>4, <2>3, <2>4
<1>6. ASSUME LearnRaise(w) PROVE MintInv'
  <2>1. op[w] \in Learners /\ UNCHANGED <<in, grow, row>>
    BY <1>0, <1>6, OpKinds DEF LearnRaise, respawnVars
  <2>2. CASE Return(w)
    BY <1>3, <1>4, <1>r, <2>1, <2>2
  <2>3. CASE ~Return(w)
    <3>1. PICK m, k : op' = [op EXCEPT ![w].pc = "skills", ![w].map = m, ![w].list = k]
      BY <1>6, <2>3 DEF LearnRaise
    <3>2. PICK r : r = [op[w] EXCEPT !.pc = "skills", !.map = m, !.list = k] /\ op' = [op EXCEPT ![w] = r]
      BY <1>0, <3>1 DEF OpsOK
    <3>3. r.char = op[w].char /\ r.snap = op[w].snap
      BY <2>1, <3>2 DEF Learners
    <3> QED BY <1>3, <1>4, <1>k, <2>1, <3>2, <3>3
  <2> QED BY <2>2, <2>3
<1>7. ASSUME SaveSkills(w) \/ SaveState(w) PROVE MintInv'
  <2>1. op[w] \in Learners /\ UNCHANGED <<in, grow>>
    BY <1>0, <1>7, OpKinds DEF SaveSkills, SaveState, respawnVars, bodyVars
  <2>2. PICK pc : op' = [op EXCEPT ![w].pc = pc]
    BY <1>7 DEF SaveSkills, SaveState
  <2>3. PICK r : r = [op[w] EXCEPT !.pc = pc] /\ op' = [op EXCEPT ![w] = r]
    BY <1>0, <2>2 DEF OpsOK
  <2>4. r.char = op[w].char /\ r.snap = op[w].snap
    BY <2>1, <2>3 DEF Learners
  <2>5. Copied(w)
    BY <1>k, <2>1, <2>3, <2>4
  <2>6. PICK c \in Chars : c = op[w].char
    BY <2>1 DEF Learners
  <2>7. PICK s : s = op[w].snap
    OBVIOUS
  <2>8. PICK r2 : /\ row' = [row EXCEPT ![c] = r2]
                  /\ \/ r2 = [row[c] EXCEPT !.skill = op[w].list]
                     \/ r2 = [base |-> s.base, level |-> s.level, job |-> s.job, jobLevel |-> s.jobLevel,
                              points |-> s.points - 1, skill |-> row[c].skill]
    BY <1>0, <1>7, <2>6, <2>7 DEF SaveSkills, SaveState, GrowOK
  <2>9. \/ r2.base = row[c].base /\ r2.level = row[c].level
        \/ r2.base = s.base /\ r2.level = s.level
    BY <1>0, <2>8 DEF GrowOK, Kept
  <2>10. row'[c] = r2 /\ \A b \in Chars : b # c => row'[b] = row[b]
    BY <1>0, <2>8 DEF GrowOK
  <2>11. Worth(r2) = Worth(row[c]) \/ Worth(r2) = Worth(s)
    BY <2>9 DEF Worth
  <2>12. ASSUME NEW b \in Chars PROVE Backed(b)
    <3>1. CASE b # c \/ c \in in
      BY <2>1, <2>10, <3>1 DEF Backed, Earned
    <3>2. CASE b = c /\ c \notin in
      <4>1. Earned(b)' = Worth(r2) /\ Earned(b) = Worth(row[c])
        BY <2>1, <2>10, <3>2 DEF Earned
      <4> QED BY <2>1, <2>6, <2>7, <2>11, <3>2, <4>1 DEF Backed
    <3> QED BY <3>1, <3>2
  <2> QED BY <1>3, <2>5, <2>12
<1>8. ASSUME LearnApply(w) \/ LearnFails(w) PROVE MintInv'
  <2>1. Return(w) /\ UNCHANGED <<in, row>> /\ op[w] \in Learners
    BY <1>0, <1>8, OpKinds DEF LearnApply, LearnFails, respawnVars
  <2>2. PICK c \in Chars : c = op[w].char
    BY <2>1 DEF Learners
  <2>3. UNCHANGED grow \/ \E p, m : grow' = [grow EXCEPT ![c].points = p, ![c].map = m] /\ c \in in
    BY <1>8, <2>2 DEF LearnApply, LearnFails
  <2>4. CASE UNCHANGED grow
    BY <1>3, <1>4, <1>r, <2>1, <2>4
  <2>5. CASE ~UNCHANGED grow
    <3>1. PICK p, m : grow' = [grow EXCEPT ![c].points = p, ![c].map = m]
      BY <2>3, <2>5
    <3>2. PICK g : g = [grow[c] EXCEPT !.points = p, !.map = m] /\ grow' = [grow EXCEPT ![c] = g]
      BY <1>0, <3>1 DEF GrowOK
    <3>3. grow[c] \in Grown
      BY <1>0, <2>3, <2>5 DEF GrowOK
    <3>4. g.base = grow[c].base /\ g.level = grow[c].level
      BY <3>2, <3>3 DEF Grown
    <3>5. grow'[c] = g /\ \A b \in Chars : b # c => grow'[b] = grow[b]
      BY <1>0, <3>2 DEF GrowOK
    <3>6. \A b \in Chars : Earned(b)' = Earned(b)
      BY <2>1, <3>4, <3>5 DEF Earned, Worth
    <3>7. \A b \in Chars : Backed(b)
      BY <3>6 DEF Backed
    <3> QED BY <1>3, <1>r, <2>1, <3>7
  <2> QED BY <2>4, <2>5
<1> QED BY <1>5, <1>6, <1>7, <1>8 DEF LearnStep

LEMMA MintKill ==
    ASSUME TypeInv, TypeInv', MintInv, UNCHANGED <<in, growthVars>>, NEW w \in Workers, NEW d \in Damages, HitMob(w, d)
    PROVE  MintInv'
<1>0. OpsOK /\ OpsOK' /\ GrowOK /\ DueFinite
  BY DEF TypeInv, MintInv
<1>1. op[w].pc = "hit" /\ op[w] \in Fighters
  BY <1>0, OpKinds DEF HitMob
<1>2. PICK c \in Chars : c = op[w].char
  BY <1>1 DEF Fighters
<1>3. \A b \in Chars : Backed(b)
  BY DEF Backed, Earned, growthVars
<1>4. CASE Return(w) /\ UNCHANGED kills
  <2>1. op'[w].pc = "idle" /\ \A v \in Workers : v # w => op'[v] = op[v]
    BY <1>0, <1>4, ReturnType DEF Idle
  <2>2. DueFinite' /\ \A v \in Workers : Due(v)' <= Due(v)
    BY <1>0, <2>1, DueKept
  <2>3. \A v \in Workers : Copied(v)
    BY <2>1, CopiedSame DEF LearnPcs
  <2> QED BY <1>3, <1>4, <2>2, <2>3, MintStill
<1>5. CASE kills' = kills + 1 /\ op' = [op EXCEPT ![w].pc = "bury"]
  <2>1. PICK r : r = [op[w] EXCEPT !.pc = "bury"] /\ op' = [op EXCEPT ![w] = r]
    BY <1>0, <1>5 DEF OpsOK
  <2>2. r.pc = "bury"
    BY <1>1, <2>1 DEF Fighters
  <2>3. op'[w] = r /\ \A v \in Workers : v # w => op'[v] = op[v]
    BY <1>0, <2>1 DEF OpsOK
  <2>4. DueFinite'
    BY <1>0, <2>2, <2>3 DEF DueFinite
  <2>5. Due(w) = 0
    BY <1>0, <1>1, DueKinds
  <2>6. Due(w)' = Reward
    BY <1>0, <2>2, <2>3, DueAfter DEF BuryPcs
  <2>7. Due(w)' + 0 <= Due(w) + Reward * 1
    BY <2>5, <2>6, BattleConstants
  <2>8. \A v \in Workers : v # w => Due(v)' = Due(v)
    BY <2>3, DueSame
  <2>9. \A v \in Workers : Copied(v)
    BY <2>2, <2>3, CopiedSame DEF LearnPcs
  <2>10. PICK gain \in Nat, more \in {0, 1} : gain = 0 /\ more = 1
    OBVIOUS
  <2>11. kills' = kills + more /\ Due(w)' + gain <= Due(w) + Reward * more
    BY <1>5, <2>7, <2>10
  <2> QED BY <1>3, <2>4, <2>8, <2>9, <2>11, MintMove
<1> QED BY <1>4, <1>5 DEF HitMob

\* The shares of a reward are together no more than the reward.
LEMMA SplitSum ==
    ASSUME NEW S, S \subseteq Chars, S # {}, NEW A, A \subseteq SplitExp(S)
    PROVE  IsFiniteSet(A) /\ A \subseteq Awards /\ SumOver([a \in A |-> a.gain], A) <= Reward
<1>1. IsFiniteSet(S)
  BY GrowthConstants, FS_Subset
<1>2. PICK n : n = Cardinality(S) /\ n \in Nat \ {0}
  BY <1>1, FS_CardinalityType, FS_EmptySet
<1>3. PICK g : g = Reward \div n /\ g \in Nat /\ n * g <= Reward
  BY <1>2, DivBound, BattleConstants
<1>4. PICK B : B = SplitExp(S) /\ B = {[to |-> c, gain |-> g] : c \in S}
  BY <1>2, <1>3 DEF SplitExp
<1>5. IsFiniteSet(B) /\ Cardinality(B) <= n
  <2> DEFINE F == [c \in S |-> [to |-> c, gain |-> g]]
  <2>1. F \in Surjection(S, B)
    BY <1>4 DEF Surjection
  <2> HIDE DEF F
  <2> QED BY <1>1, <1>2, <2>1, FS_Surjection
<1>6. IsFiniteSet(A) /\ Cardinality(A) <= Cardinality(B) /\ Cardinality(A) \in Nat /\ Cardinality(B) \in Nat
  BY <1>4, <1>5, FS_Subset, FS_CardinalityType
<1>7. A \subseteq Awards
  BY SplitExpType
<1> DEFINE f == [a \in A |-> a.gain]
<1>8. \A a \in A : f[a] = g
  BY <1>4
<1> HIDE DEF f
<1>9. SumOver(f, A) = Cardinality(A) * g
  BY <1>3, <1>6, <1>8, SumConst
<1>10. Cardinality(A) * g <= Reward
  <2>1. PICK k \in Nat : k = Cardinality(A) /\ k <= n
    BY <1>2, <1>5, <1>6
  <2>2. k * g <= n * g
    BY <1>2, <1>3, <2>1
  <2>3. k * g \in Int /\ n * g \in Int /\ Reward \in Int
    BY <1>2, <1>3, <2>1, BattleConstants
  <2> QED BY <1>3, <2>1, <2>2, <2>3
<1> QED BY <1>6, <1>7, <1>9, <1>10 DEF f

LEMMA MintShare ==
    ASSUME TypeInv, TypeInv', MintInv, UNCHANGED <<in, growthVars, kills>>, NEW w \in Workers, grantMobExp(w)
    PROVE  MintInv'
<1>0. OpsOK /\ OpsOK' /\ GrowOK /\ DueFinite
  BY DEF TypeInv, MintInv
<1>1. op[w].pc = "share" /\ op[w] \in Sharers
  BY <1>0, OpKinds DEF grantMobExp
<1>2. PICK c \in Chars : c = op[w].char
  BY <1>1 DEF Sharers
<1>3. PICK A : /\ op' = [op EXCEPT ![w] = [pc |-> "grant", due |-> A]]
               /\ IsFiniteSet(A) /\ A \subseteq Awards /\ SumOver([a \in A |-> a.gain], A) <= Reward
  <2>1. PICK S \in (IF c \in Party THEN SUBSET Party ELSE {{}}) :
            op' = [op EXCEPT ![w] = [pc |-> "grant",
                       due |-> IF S = {} THEN SplitExp({c}) ELSE {a \in SplitExp(S) : a.to \in in \ dead}]]
    BY <1>2 DEF grantMobExp
  <2>2. S \subseteq Chars
    BY BattleConstants
  <2>3. CASE S = {}
    BY <2>1, <2>3, SplitSum
  <2>4. CASE S # {}
    <3>1. {a \in SplitExp(S) : a.to \in in \ dead} \subseteq SplitExp(S)
      OBVIOUS
    <3> QED BY <2>1, <2>2, <2>4, <3>1, SplitSum
  <2> QED BY <2>3, <2>4
<1>4. PICK r : r = [pc |-> "grant", due |-> A] /\ op' = [op EXCEPT ![w] = r]
  BY <1>3
<1>5. r.pc = "grant" /\ r.due = A
  BY <1>4
<1>6. op'[w] = r /\ \A v \in Workers : v # w => op'[v] = op[v]
  BY <1>0, <1>4 DEF OpsOK
<1>7. DueFinite'
  BY <1>0, <1>3, <1>5, <1>6 DEF DueFinite
<1>8. Due(w)' <= Due(w)
  <2>1. Due(w)' = SumOver([a \in A |-> a.gain], A)
    BY <1>0, <1>5, <1>6, DueAfter
  <2>2. Due(w) = Reward
    BY <1>0, <1>1, DueKinds
  <2> QED BY <1>3, <2>1, <2>2
<1>9. \A v \in Workers : Due(v)' <= Due(v)
  <2>1. \A v \in Workers : Due(v) \in Nat
    BY <1>0, DueType
  <2>2. ASSUME NEW v \in Workers, v # w PROVE Due(v)' <= Due(v)
    BY <1>6, <2>1, <2>2, DueSame
  <2> QED BY <1>8, <2>2
<1>10. \A v \in Workers : Copied(v)
  BY <1>5, <1>6, CopiedSame DEF LearnPcs
<1>11. \A b \in Chars : Backed(b)
  BY DEF Backed, Earned, growthVars
<1> QED BY <1>7, <1>9, <1>10, <1>11, MintStill

LEMMA AwardsRemove ==
    ASSUME NEW A, A \subseteq Awards, IsFiniteSet(A), NEW a \in A
    PROVE  /\ IsFiniteSet(A \ {a})
           /\ SumOver([x \in A |-> x.gain], A) = a.gain + SumOver([x \in A \ {a} |-> x.gain], A \ {a})
<1> DEFINE f == [x \in A |-> x.gain]
           g == [x \in A \ {a} |-> x.gain]
<1>1. (\A x \in A : f[x] \in Int) /\ (\A x \in A \ {a} : g[x] = f[x]) /\ f[a] = a.gain
  BY DEF Awards
<1>2. IsFiniteSet(A \ {a})
  BY FS_RemoveElement
<1> HIDE DEF f, g
<1>3. SumOver(f, A) = f[a] + SumOver(f, A \ {a})
  BY <1>1, SumRemove
<1>4. SumOver(g, A \ {a}) = SumOver(f, A \ {a})
  <2>1. PICK B : B = A \ {a}
    OBVIOUS
  <2>2. \A x \in B : f[x] \in Int /\ g[x] = f[x]
    BY <1>1, <2>1
  <2>3. SumOver(g, B) = SumOver(f, B)
    BY <1>2, <2>1, <2>2, SumSame
  <2> QED BY <2>1, <2>3
<1>5. SumOver(f, A) = a.gain + SumOver(g, A \ {a})
  BY <1>1, <1>3, <1>4
<1> QED BY <1>2, <1>5 DEF f, g

LEMMA MintGrant ==
    ASSUME TypeInv, TypeInv', MintInv, UNCHANGED kills, NEW w \in Workers, Grant(w)
    PROVE  MintInv'
<1>0. OpsOK /\ OpsOK' /\ GrowOK /\ DueFinite
  BY DEF TypeInv, MintInv
<1>1. op[w].pc = "grant" /\ UNCHANGED <<in, row>>
  BY DEF Grant, respawnVars
<1>2. PICK A : A = op[w].due /\ A \subseteq Awards /\ IsFiniteSet(A)
  BY <1>0, <1>1, DueKinds DEF DueFinite
<1>3. CASE Return(w) /\ UNCHANGED grow
  <2>1. op'[w].pc = "idle" /\ \A v \in Workers : v # w => op'[v] = op[v]
    BY <1>0, <1>3, ReturnType DEF Idle
  <2>2. DueFinite' /\ \A v \in Workers : Due(v)' <= Due(v)
    BY <1>0, <2>1, DueKept
  <2>3. \A v \in Workers : Copied(v)
    BY <2>1, CopiedSame DEF LearnPcs
  <2>4. \A b \in Chars : Backed(b)
    BY <1>1, <1>3 DEF Backed, Earned
  <2> QED BY <2>2, <2>3, <2>4, MintStill
<1>4. CASE ~(Return(w) /\ UNCHANGED grow)
  <2>1. PICK a \in A :
            /\ grow' = IF a.to \in in THEN [grow EXCEPT ![a.to] = GrantExp(@, a.gain)] ELSE grow
            /\ op' = [op EXCEPT ![w] = [pc |-> IF a.to \in in THEN "level" ELSE "grant",
                                        to |-> a.to, due |-> A \ {a}]]
    BY <1>2, <1>4 DEF Grant
  <2>2. PICK c \in Chars : c = a.to
    BY <1>2 DEF Awards
  <2>3. PICK gain \in Nat : gain = a.gain
    BY <1>2 DEF Awards
  <2>4. PICK r : r = [pc |-> IF c \in in THEN "level" ELSE "grant", to |-> c, due |-> A \ {a}]
                 /\ op' = [op EXCEPT ![w] = r]
    BY <2>1, <2>2
  <2>5. r.pc \in {"grant", "level"} /\ r.due = A \ {a}
    BY <2>4
  <2>6. op'[w] = r /\ \A v \in Workers : v # w => op'[v] = op[v]
    BY <1>0, <2>4 DEF OpsOK
  <2>7. IsFiniteSet(A \ {a})
    BY <1>2, AwardsRemove
  <2>8. DueFinite'
    BY <1>0, <2>5, <2>6, <2>7 DEF DueFinite
  <2>9. Due(w)' + gain = Due(w)
    <3>1. Due(w) = SumOver([x \in A |-> x.gain], A)
      BY <1>0, <1>1, <1>2, DueKinds
    <3>2. Due(w)' = SumOver([x \in A \ {a} |-> x.gain], A \ {a})
      BY <1>0, <2>5, <2>6, DueAfter
    <3>3. Due(w)' \in Nat
      BY <1>0, <2>8, DueTypes
    <3>4. Due(w) = gain + Due(w)'
      BY <1>2, <2>3, <3>1, <3>2, AwardsRemove
    <3> QED BY <3>3, <3>4
  <2>10. \A v \in Workers : v # w => Due(v)' = Due(v)
    BY <2>6, DueSame
  <2>11. \A v \in Workers : Copied(v)
    BY <2>5, <2>6, CopiedSame DEF LearnPcs
  <2>12. ASSUME NEW b \in Chars PROVE Backed(b) \/ (b = c /\ Earned(b)' <= Earned(b) + gain)
    <3>1. CASE c \notin in
      BY <1>1, <2>1, <2>2, <3>1 DEF Backed, Earned
    <3>2. CASE c \in in
      <4>1. grow' = [grow EXCEPT ![c] = GrantExp(grow[c], gain)] /\ grow[c] \in Grown
        BY <1>0, <2>1, <2>2, <2>3, <3>2 DEF GrowOK
      <4>2. grow'[c] = GrantExp(grow[c], gain) /\ \A e \in Chars : e # c => grow'[e] = grow[e]
        BY <1>0, <4>1 DEF GrowOK
      <4>3. Earned(c)' <= Earned(c) + gain
        BY <1>1, <3>2, <4>1, <4>2, WorthOf DEF Earned
      <4>4. b # c => Backed(b)
        BY <1>1, <4>2 DEF Backed, Earned
      <4> QED BY <4>3, <4>4
    <3> QED BY <3>1, <3>2
  <2>13. PICK more \in {0, 1} : more = 0
    OBVIOUS
  <2>14. Due(w)' + gain <= Due(w) + Reward * more
    <3>1. Due(w) \in Nat
      BY <1>0, DueType
    <3> QED BY <2>9, <2>13, <3>1, BattleConstants
  <2>15. kills' = kills + more
    BY <2>13 DEF TypeInv, MobsOK
  <2> QED BY <2>8, <2>10, <2>11, <2>12, <2>14, <2>15, MintMove
<1> QED BY <1>3, <1>4

LEMMA MintLevels ==
    ASSUME TypeInv, TypeInv', MintInv, UNCHANGED kills, NEW w \in Workers, LevelUp(w) \/ JobLevelUp(w)
    PROVE  MintInv'
<1>0. OpsOK /\ OpsOK' /\ GrowOK
  BY DEF TypeInv
<1>1. DueFinite' /\ \A v \in Workers : Due(v)' <= Due(v)
  BY <1>0, DueCarried
<1>2. \A v \in Workers : Copied(v)
  BY FightPcs, CopiedSame DEF FightStep
<1>3. op[w] \in Payers /\ UNCHANGED <<in, row>>
  BY <1>0, OpKinds DEF LevelUp, JobLevelUp, respawnVars, bodyVars
<1>4. PICK c \in Chars : c = op[w].to
  BY <1>3 DEF Payers
<1>5. ASSUME NEW b \in Chars PROVE Backed(b)
  <2>1. CASE UNCHANGED grow
    BY <1>3, <2>1 DEF Backed, Earned
  <2>2. CASE ~UNCHANGED grow
    <3>1. PICK g : /\ c \in in /\ grow' = [grow EXCEPT ![c] = g]
                   /\ g = CheckLevelUp(grow[c]) \/ g = CheckJobLevelUp(grow[c])
      BY <1>0, <1>4, <2>2 DEF LevelUp, JobLevelUp, GrowOK
    <3>2. grow[c] \in Grown
      BY <1>0, <3>1 DEF GrowOK
    <3>3. Worth(g) = Worth(grow[c])
      <4>1. 0 \in Nat
        OBVIOUS
      <4> QED BY <3>1, <3>2, <4>1, WorthOf
    <3>4. grow'[c] = g /\ \A e \in Chars : e # c => grow'[e] = grow[e]
      BY <1>0, <3>1 DEF GrowOK
    <3> QED BY <1>3, <3>1, <3>3, <3>4 DEF Backed, Earned
  <2> QED BY <2>1, <2>2
<1> QED BY <1>1, <1>2, <1>5, MintStill

\* Every other step leaves experience alone.
LEMMA MintOther ==
    ASSUME TypeInv, TypeInv', MintInv, [Next]_vars, UNCHANGED kills, ~PayAction,
           \A w \in Workers : ~grantMobExp(w) /\ \A d \in Damages : ~HitMob(w, d)
    PROVE  MintInv'
<1>0. OpsOK /\ OpsOK' /\ DueFinite
  BY DEF TypeInv, MintInv
<1>1. /\ UNCHANGED <<in, growthVars>>
      /\ \A v \in Workers : op'[v] = op[v] \/ (op[v].pc \notin LearnPcs /\ op'[v].pc \notin LearnPcs)
  BY PayFrame
<1>2. \A v \in Workers : Copied(v)
  BY <1>1, CopiedSame
<1>3. \A b \in Chars : Backed(b)
  BY <1>1 DEF Backed, Earned, growthVars
<1>4. DueFinite' /\ \A v \in Workers : Due(v)' <= Due(v)
  <2>1. CASE UNCHANGED op
    <3>1. \A v \in Workers : Due(v) \in Nat
      BY <1>0, DueType
    <3>2. \A v \in Workers : Due(v)' = Due(v)
      BY <2>1, DueSame
    <3>3. DueFinite'
      BY <1>0, <2>1 DEF DueFinite
    <3> QED BY <3>1, <3>2, <3>3
  <2>2. ASSUME NEW w \in Workers, Handles(w) PROVE DueFinite' /\ \A v \in Workers : Due(v)' <= Due(v)
    <3>1. (\E c \in Chars, t \in Chars \cup Mobs : Attack(w, c, t)) \/ FightStep(w)
      BY <2>2 DEF Handles, PayAction
    <3>2. /\ \A v \in Workers : v # w => op'[v] = op[v]
          /\ \/ op'[w].pc \in {"idle", "hit", "spend"}
             \/ op[w].pc \in BuryPcs /\ op'[w].pc \in BuryPcs \cup {"share"}
      BY <3>1, FightPcs DEF PayAction
    <3> QED BY <1>0, <3>2, DueKept
  <2> QED BY <2>1, <2>2, OpFrame
<1> QED BY <1>2, <1>3, <1>4, MintStill

LEMMA MintStep ==
    ASSUME TypeInv, MintInv, [Next]_vars
    PROVE  MintInv'
<1>0. TypeInv'
  BY TypeStep
<1>1. ASSUME NEW w \in Workers, NEW d \in Damages, HitMob(w, d) PROVE MintInv'
  <2>1. UNCHANGED <<in, growthVars>>
    BY <1>1 DEF HitMob, respawnVars
  <2> QED BY <1>0, <1>1, <2>1, MintKill
<1>2. CASE \A w \in Workers : \A d \in Damages : ~HitMob(w, d)
  <2>0. UNCHANGED kills
    BY <1>2, KillsFrame
  <2>1. ASSUME NEW w \in Workers, grantMobExp(w) PROVE MintInv'
    <3>1. UNCHANGED <<in, growthVars>>
      BY <2>1 DEF grantMobExp, respawnVars
    <3> QED BY <1>0, <2>0, <2>1, <3>1, MintShare
  <2>2. CASE PayAction
    BY <1>0, <2>0, <2>2, MintTravel, MintLearn, MintGrant, MintLevels DEF PayAction
  <2>3. CASE ~PayAction /\ \A w \in Workers : ~grantMobExp(w)
    BY <1>0, <1>2, <2>0, <2>3, MintOther
  <2> QED BY <2>1, <2>2, <2>3
<1> QED BY <1>1, <1>2

LEMMA InitMint ==
    ASSUME Init
    PROVE  MintInv
<1>0. TypeInv /\ kills = 0 /\ in = Chars /\ op = [w \in Workers |-> Idle]
  BY InitType DEF Init, RespawnInit, GrowthInit
<1>1. OpsOK /\ IsFiniteSet(Chars) /\ IsFiniteSet(Workers)
  BY <1>0, GrowthConstants DEF TypeInv
<1>2. PICK id : grow = [c \in Chars |-> Loaded(Newcomer(c), id[c])]
  BY InitMaps DEF Init
<1>3. ASSUME NEW c \in Chars PROVE Earned(c) = 0
  <2>1. PICK g : g = Loaded(Newcomer(c), id[c]) /\ grow[c] = g
    BY <1>2
  <2>2. g.base = 0 /\ g.level = 1
    BY <2>1 DEF Loaded, Newcomer
  <2>3. Worth(g) = 0
    BY <2>2, GrowthConstants DEF Worth
  <2> QED BY <1>0, <2>1, <2>3 DEF Earned
<1>4. \A w \in Workers : op[w].pc = "idle" /\ op[w] \notin Learners
  BY <1>0 DEF Idle, Learners
<1>5. DueFinite
  BY <1>4 DEF DueFinite
<1>6. PICK high : high = [c \in Chars |-> 0]
  OBVIOUS
<1>7. high \in [Chars -> Int] /\ Covers(high, earned, op)
  BY <1>3, <1>4, <1>6 DEF Covers, earned
<1>8. SumOver(high, Chars) = 0
  <2>1. SumOver(high, Chars) = Cardinality(Chars) * 0 /\ Cardinality(Chars) \in Nat
    BY <1>1, <1>6, SumConst, FS_CardinalityType
  <2> QED BY <2>1
<1>9. SumOver(dues, Workers) = 0
  <2>1. PICK d : d = dues
    OBVIOUS
  <2>2. \A w \in Workers : d[w] = 0
    BY <1>1, <1>4, <2>1, DueKinds DEF dues
  <2>3. SumOver(d, Workers) = Cardinality(Workers) * 0 /\ Cardinality(Workers) \in Nat
    BY <1>1, <2>2, SumConst, FS_CardinalityType
  <2> QED BY <2>1, <2>3
<1>10. SumOver(high, Chars) + SumOver(dues, Workers) <= Reward * kills
  BY <1>0, <1>8, <1>9, BattleConstants
<1> QED BY <1>5, <1>7, <1>10 DEF MintInv

\* Killing mobs is the only source of experience: what the characters have, what their
\* levels cost them and what is on its way to them is no more than what was killed for,
\* however the reward is split, and however often a LearnSkill saves an older copy over
\* the row of someone who has left (grantMobExp, SplitExp, GrantExp, CheckLevelUp, SaveState).
THEOREM ExpCorrect == Spec => []ExpNeverMinted
<1> DEFINE I == TypeInv /\ MintInv
<1>1. Init => I
  BY InitType, InitMint
<1>2. I /\ [Next]_vars => I'
  BY TypeStep, MintStep
<1>3. I => ExpNeverMinted
  <2> SUFFICES ASSUME I PROVE ExpNeverMinted
    OBVIOUS
  <2>0. OpsOK /\ GrowOK /\ DueFinite /\ IsFiniteSet(Chars) /\ IsFiniteSet(Workers)
    BY GrowthConstants DEF TypeInv, MintInv
  <2>1. PICK high \in [Chars -> Int] :
            Covers(high, earned, op) /\ SumOver(high, Chars) + SumOver(dues, Workers) <= Reward * kills
    BY DEF MintInv
  <2>2. PICK e : e = earned
    OBVIOUS
  <2>3. \A c \in Chars : e[c] \in Int /\ high[c] \in Int /\ e[c] <= high[c]
    BY <2>0, <2>1, <2>2, EarnedType DEF Covers, earned
  <2>4. SumOver(e, Chars) <= SumOver(high, Chars) /\ SumOver(e, Chars) \in Int /\ SumOver(high, Chars) \in Int
    BY <2>0, <2>3, SumMonotone, SumType
  <2>5. PICK d : d = dues
    OBVIOUS
  <2>6. \A w \in Workers : d[w] \in Int
    BY <2>0, <2>5, DueType DEF dues
  <2>7. SumOver(d, Workers) \in Int
    BY <2>0, <2>6, SumType
  <2>8. Reward * kills \in Int
    BY BattleConstants DEF TypeInv, MobsOK
  <2>9. SumOver(e, Chars) + SumOver(d, Workers) <= Reward * kills
    BY <2>1, <2>4, <2>5, <2>7, <2>8
  <2>10. SumOver(earned, Chars) + SumOver(dues, Workers) <= Reward * kills
    BY <2>2, <2>5, <2>9
  <2> QED BY <2>10 DEF ExpNeverMinted, earned, dues
<1> QED BY <1>1, <1>2, <1>3, PTL DEF Spec

=============================================================================
