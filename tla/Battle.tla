------------------------------- MODULE Battle -------------------------------
(***************************************************************************)
(* Mobs, and the blows that players and mobs deal: CombatService            *)
(* (world/app/combat.go), MobAIService (mobai.go), SpawnService (spawn.go)  *)
(* and the handlers that attack, cast and share out experience              *)
(* (gateway/app/dispatch.go), composed with Growth and Respawn.             *)
(*                                                                         *)
(* Damage is applied in one critical section; everything that follows a     *)
(* killing blow is done by the goroutine that dealt it, in later ones.  Hit *)
(* points of a mob are numbers, of a player only whether any are left.      *)
(* Where everybody stands is left out: any player may be in any mob's       *)
(* range, so the aggro table only chooses among the players it could be.    *)
(***************************************************************************)
EXTENDS Growth, Sums

CONSTANTS
    Mobs,     \* mobs with a spawn point
    MobLife,  \* hit points of a mob
    Damages,  \* what a blow may take (0: a miss)
    Reward,   \* experience for a kill
    Party     \* the members of the party whose members share

ASSUME BattleConstants ==
    MobLife \in Nat \ {0} /\ Damages \subseteq Nat /\ Reward \in Nat /\ Party \subseteq Chars

VARIABLES
    mob,     \* hit points of each mob in the registry, or Gone
    back,    \* respawn timers of each mob that are running
    swing,   \* the attacks the tick goroutine has still to make
    kills    \* history: how many mobs were killed

mobVars == <<mob, back, swing>>
vars == <<respawnVars, growthVars, op, budget, mobVars, kills>>

Gone == -1

Init ==
    /\ RespawnInit /\ GrowthInit
    /\ mob = [m \in Mobs |-> MobLife]
    /\ back = [m \in Mobs |-> 0]
    /\ swing = {}
    /\ kills = 0

----------------------------------------------------------------------------
\* CZ_ACTION_REQUEST, attack: Attack looks both parties up; nobody asks whether
\* the attacker is alive.  A cast goes on to its spell points first, and needs
\* the skill.
Attack(w, c, t) ==
    /\ Spend("fights")
    /\ op[w] = Idle /\ c \in in /\ (t \in in \ {c} \/ (t \in Mobs /\ mob[t] # Gone))
    /\ \E pc \in {"hit"} \cup (IF Learned(grow[c].map) > 0 THEN {"spend"} ELSE {}) :
          op' = [op EXCEPT ![w] = [pc |-> pc, char |-> c, who |-> t]]
    /\ UNCHANGED <<respawnVars, growthVars, mobVars, kills>>

\* trySpendSP: check and spend in one critical section.  Of a skill that is not
\* offensive that is all.
trySpendSP(w) ==
    LET c == op[w].char
    IN /\ op[w].pc = "spend"
       /\ \/ /\ c \notin in \/ sp[c] = 0
             /\ Return(w) /\ UNCHANGED sp
          \/ /\ c \in in /\ sp[c] > 0
             /\ sp' = [sp EXCEPT ![c] = @ - 1]
             /\ op' \in {[op EXCEPT ![w].pc = "hit"], [op EXCEPT ![w] = Idle]}
       /\ UNCHANGED <<dead, bodyVars, budget, growthVars, mobVars, kills>>

Left(hp, d) == IF hp - d > 0 THEN hp - d ELSE 0

\* Mutant of Died: whoever strikes a corpse has killed it too.
DiedAgain(hp, d) == Left(hp, d) = 0

\* died: this hit took the last hit point, and it was there to be taken.
Died(hp, d) == hp > 0 /\ Left(hp, d) = 0

\* applyDamage to a mob.
HitMob(w, d) ==
    LET m == op[w].who
    IN /\ op[w].pc = "hit" /\ m \in Mobs
       /\ mob' = IF mob[m] = Gone THEN mob ELSE [mob EXCEPT ![m] = Left(@, d)]
       /\ IF mob[m] # Gone /\ Died(mob[m], d)
          THEN kills' = kills + 1 /\ op' = [op EXCEPT ![w].pc = "bury"]
          ELSE UNCHANGED kills /\ Return(w)
       /\ UNCHANGED <<respawnVars, budget, growthVars, back, swing>>

\* applyDamage to a player: handleMobDeath does nothing for one it killed, so
\* nobody arms a timer.
HitPlayer(w, kill) ==
    LET c == op[w].who
    IN /\ op[w].pc = "hit" /\ c \in Chars
       /\ IF kill /\ c \in in \ dead
          THEN dead' = dead \cup {c} /\ dropped' = dropped \cup {c}
          ELSE UNCHANGED <<dead, dropped>>
       /\ Return(w)
       /\ UNCHANGED <<in, sp, dying, slot, timer, cancelled, button, stopped, budget,
                      growthVars, mobVars, kills>>

----------------------------------------------------------------------------
\* handleMobDeath finds the corpse in the registry, OnMobDeath drops its loot,
Bury(w) ==
    /\ op[w].pc = "bury"
    /\ IF mob[op[w].who] = Gone THEN Return(w) ELSE op' = [op EXCEPT ![w].pc = "remove"]
    /\ UNCHANGED <<respawnVars, budget, growthVars, mobVars, kills>>

\* removes it (RemoveEntity)
Remove(w) ==
    /\ op[w].pc = "remove"
    /\ mob' = [mob EXCEPT ![op[w].who] = Gone]
    /\ op' = [op EXCEPT ![w].pc = "schedule"]
    /\ UNCHANGED <<respawnVars, budget, growthVars, back, swing, kills>>

\* and starts its respawn timer.
scheduleRespawn(w) ==
    /\ op[w].pc = "schedule"
    /\ back' = [back EXCEPT ![op[w].who] = @ + 1]
    /\ op' = [op EXCEPT ![w] = [pc |-> "share", char |-> op[w].char]]
    /\ UNCHANGED <<respawnVars, budget, growthVars, mob, swing, kills>>

\* Mutant of MobRespawn: the goroutine waits for nothing but Stop.
MobRespawnNever(m) ==
    /\ back[m] > 0 /\ stopped
    /\ back' = [back EXCEPT ![m] = @ - 1]
    /\ UNCHANGED <<respawnVars, budget, growthVars, op, mob, swing, kills>>

\* The timer expires: AddEntity, which refuses an id that is in the registry;
\* or Stop has cancelled it.
MobRespawn(m) ==
    /\ back[m] > 0
    /\ back' = [back EXCEPT ![m] = @ - 1]
    /\ mob' \in {IF mob[m] = Gone THEN [mob EXCEPT ![m] = MobLife] ELSE mob}
                \cup (IF stopped THEN {mob} ELSE {})
    /\ UNCHANGED <<respawnVars, budget, growthVars, op, swing, kills>>

\* Mutant of SplitExp: every sharer is paid the whole reward.
SplitExpWhole(S) == {[to |-> c, gain |-> Reward] : c \in S}

\* SplitExp: equal parts, the remainder is dropped.
SplitExp(S) == {[to |-> c, gain |-> Reward \div Cardinality(S)] : c \in S}

\* grantMobExp: the killer's party, as far as its roster says online and on this
\* map, less those who are dead or gone; or the killer alone.
grantMobExp(w) ==
    LET c == op[w].char
    IN /\ op[w].pc = "share"
       /\ \E S \in (IF c \in Party THEN SUBSET Party ELSE {{}}) :
             LET awards == IF S = {} THEN SplitExp({c})
                           ELSE {a \in SplitExp(S) : a.to \in in \ dead}
             IN op' = [op EXCEPT ![w] = [pc |-> "grant", due |-> awards]]
       /\ UNCHANGED <<respawnVars, budget, growthVars, mobVars, kills>>

\* GrantExp to one of them, who may have left;
Grant(w) ==
    /\ op[w].pc = "grant"
    /\ \/ /\ op[w].due = {}
          /\ Return(w) /\ UNCHANGED grow
       \/ \E a \in op[w].due :
             /\ grow' = IF a.to \in in THEN [grow EXCEPT ![a.to] = GrantExp(@, a.gain)] ELSE grow
             /\ op' = [op EXCEPT ![w] = [pc |-> IF a.to \in in THEN "level" ELSE "grant",
                                         to |-> a.to, due |-> op[w].due \ {a}]]
    /\ UNCHANGED <<respawnVars, budget, skills, row, tangled, mobVars, kills>>

\* CheckLevelUp;
LevelUp(w) ==
    LET c == op[w].to
    IN /\ op[w].pc = "level"
       /\ IF c \in in
          THEN grow' = [grow EXCEPT ![c] = CheckLevelUp(@)] /\ LevelUpHeals(c)
          ELSE UNCHANGED <<grow, dead, sp>>
       /\ op' = [op EXCEPT ![w].pc = "jobLevel"]
       /\ UNCHANGED <<bodyVars, budget, skills, row, tangled, mobVars, kills>>

\* CheckJobLevelUp.
JobLevelUp(w) ==
    LET c == op[w].to
    IN /\ op[w].pc = "jobLevel"
       /\ IF c \in in /\ JobGained(grow[c]) > 0
          THEN grow' = [grow EXCEPT ![c] = CheckJobLevelUp(@)] /\ Tangle(c)
          ELSE UNCHANGED <<grow, tangled>>
       /\ op' = [op EXCEPT ![w] = [pc |-> "grant", due |-> op[w].due]]
       /\ UNCHANGED <<respawnVars, budget, skills, row, mobVars, kills>>

FightStep(w) ==
    \/ trySpendSP(w)
    \/ \E d \in Damages : HitMob(w, d)
    \/ \E kill \in BOOLEAN : HitPlayer(w, kill)
    \/ Bury(w) \/ Remove(w) \/ scheduleRespawn(w)
    \/ grantMobExp(w) \/ Grant(w) \/ LevelUp(w) \/ JobLevelUp(w)

----------------------------------------------------------------------------
\* MonsterTick, resolve: under the read lock every living mob that is due picks
\* a living player in range, or none.
resolve ==
    /\ swing = {} /\ ~stopped /\ \A c \in Chars : ~dying[c]
    /\ budget["deaths"] > 0
    /\ \E due \in SUBSET {m \in Mobs : mob[m] > 0} \ {{}} : \E f \in [due -> in \ dead] :
          swing' = {<<m, f[m]>> : m \in due}
    /\ UNCHANGED <<respawnVars, budget, growthVars, op, mob, back, kills>>

\* Then it attacks, off the lock, one pair after the other.  A blow that kills is
\* followed by notifyMobAttack before the next; a mob that is gone when Attack
\* looks it up, a target that is gone or dead already, or a miss changes nothing.
Swing(m, c) ==
    /\ <<m, c>> \in swing /\ \A b \in Chars : ~dying[b]
    /\ swing' = swing \ {<<m, c>>}
    /\ Die(c) \/ UNCHANGED <<respawnVars, budget>>
    /\ UNCHANGED <<growthVars, op, mob, back, kills>>

BattleNext ==
    \/ \E w \in Workers :
          \/ \E c \in Chars, t \in Chars \cup Mobs : Attack(w, c, t)
          \/ FightStep(w)
    \/ \E m \in Mobs : MobRespawn(m) \/ \E c \in Chars : Swing(m, c)
    \/ resolve

Next ==
    \/ RespawnNext /\ UNCHANGED <<growthVars, op, mobVars, kills>>
    \/ GrowthNext /\ UNCHANGED <<mobVars, kills>>
    \/ BattleNext

\* A handler runs on until it is done, and a timer expires.
Fairness ==
    /\ RespawnFairness
    /\ \A w \in Workers : WF_vars(FightStep(w))
    /\ \A m \in Mobs : WF_vars(MobRespawn(m))

Spec == Init /\ [][Next]_vars /\ Fairness

----------------------------------------------------------------------------
\* The variables hold values of their types; nobody spends spell points that are
\* not there, however many casts run at once.
TypeOK ==
    /\ RespawnTypeOK /\ GrowthTypeOK
    /\ mob \in [Mobs -> {Gone} \cup 0 .. MobLife]
    /\ back \in [Mobs -> Nat]
    /\ swing \subseteq Mobs \X Chars
    /\ kills \in Nat

\* A spawn point has one mob: it is alive, or one handler is burying it, or one
\* timer will bring it back, and never two of these.  So one death pays once and
\* drops once, however many players strike at once (combat.go: "died=true when the
\* entity's HP reached 0 on this hit").
Burying(m) == {w \in Workers : op[w].pc \in {"bury", "remove", "schedule"} /\ op[w].who = m}
MobLivesOnce ==
    /\ TypeOK
    /\ \A m \in Mobs :
          LET lives == (IF mob[m] > 0 THEN 1 ELSE 0) + Cardinality(Burying(m)) + back[m]
          IN lives = 1 \/ (stopped /\ lives = 0)

\* Killing mobs is the only source of experience: what the characters have, what
\* their levels cost them and what is on its way to them is no more than what was
\* killed for, however the reward is split.  Stale rows (SaveState of LearnSkill)
\* may lose some, and so do dead sharers.
Worth(g) == g.base + BaseStep * (g.level - 1)
Earned(c) == IF c \in in THEN Worth(grow[c]) ELSE Worth(row[c])
Due(w) == IF op[w].pc = "share" \/ op[w] \in [pc : {"bury", "remove", "schedule"}, char : Chars, who : Mobs]
          THEN Reward
          ELSE IF "due" \in DOMAIN op[w] THEN SumOver([a \in op[w].due |-> a.gain], op[w].due) ELSE 0
ExpNeverMinted ==
    SumOver([c \in Chars |-> Earned(c)], Chars) + SumOver([w \in Workers |-> Due(w)], Workers)
        <= Reward * kills

\* A mob that was killed comes back: the handler that killed it gets as far as
\* starting the timer, and the timer brings it back, until the server stops
\* (spawn.go: "the timer re-spawns the mob at its origin position").
MobComesBack == \A m \in Mobs : (mob[m] <= 0) ~> (mob[m] > 0 \/ stopped)
=============================================================================
