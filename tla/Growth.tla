------------------------------- MODULE Growth -------------------------------
(***************************************************************************)
(* Experience, levels, spell points and skill points of players:            *)
(* world/app/leveling.go, SkillService of skill.go, GrantExp, RegenTick and *)
(* the healing calls of world.go.                                           *)
(*                                                                         *)
(* LearnSkill works on a copy of the entity that it takes under the mutex.  *)
(* The copy shares the map of learned skills with the entity, so that map   *)
(* is an object of its own here: grow[c].map says which one an entity has   *)
(* and skills what it says (Nil: the entity has none yet).  One skill of    *)
(* the tree is modelled.                                                    *)
(***************************************************************************)
EXTENDS Respawn

CONSTANTS
    Workers,      \* handler goroutines
    StartPoints,  \* skill points of a new character
    StartSkill,   \* what each character knows of the skill at first
    SkillMax,     \* MaxLevel of the skill in the tree
    BaseStep,     \* experience for the next base level ...
    JobStep,      \* ... and for the next job level
    MaxLevel,     \* the last base level of the curve
    MaxJob,       \* and the last job level
    ExpCap        \* stands for math.MaxUint64

ASSUME GrowthConstants ==
    /\ IsFiniteSet(Chars) /\ IsFiniteSet(Workers)
    /\ StartPoints \in Nat /\ SkillMax \in Nat /\ StartSkill \in [Chars -> 0 .. SkillMax]
    /\ BaseStep \in Nat \ {0} /\ JobStep \in Nat \ {0}
    /\ MaxLevel \in Nat \ {0} /\ MaxJob \in Nat \ {0} /\ ExpCap \in Nat

VARIABLES
    grow,     \* the growth of the characters in the world
    skills,   \* the maps of learned skills
    row,      \* growth as the char and skill tables have it
    op,       \* what each handler goroutine is doing
    tangled   \* history: the characters of whom a skill was learned while another
              \* was, while they gained a job level or left, or unsuccessfully

growthVars == <<grow, skills, row, tangled>>
bodyVars == <<in, dying, slot, timer, cancelled, button, dropped, stopped>>

Nil == 0
Maps == 1 .. Cardinality(Chars) + Cardinality(Workers) + 1
Idle == [pc |-> "idle"]
Absent == [base |-> 0, level |-> 0, job |-> 0, jobLevel |-> 0, points |-> 0, map |-> Nil]
Learned(m) == IF m = Nil THEN 0 ELSE skills[m]

InUse == {grow[c].map : c \in Chars} \cup {op[w].map : w \in {v \in Workers : "map" \in DOMAIN op[v]}}
NewMap == CHOOSE m \in Maps \ InUse : \A n \in Maps \ InUse : m <= n

\* A character of the char and skill tables.
Newcomer(c) == [base |-> 0, level |-> 1, job |-> 0, jobLevel |-> 1,
                points |-> StartPoints, skill |-> StartSkill[c]]

\* LoadEnterState and LoadSkills: a character without skill rows gets no map.
Loaded(r, m) == [base |-> r.base, level |-> r.level, job |-> r.job, jobLevel |-> r.jobLevel,
                 points |-> r.points, map |-> IF r.skill = 0 THEN Nil ELSE m]

\* Everybody is in the world, with a map of their own.
GrowthInit ==
    /\ row = [c \in Chars |-> Newcomer(c)]
    /\ LET id == CHOOSE f \in [Chars -> 1 .. Cardinality(Chars)] :
                    \A b, c \in Chars : f[b] = f[c] => b = c
       IN /\ grow = [c \in Chars |-> Loaded(Newcomer(c), id[c])]
          /\ skills = [m \in Maps |->
                IF \E c \in Chars : id[c] = m THEN StartSkill[CHOOSE c \in Chars : id[c] = m] ELSE 0]
    /\ op = [w \in Workers |-> Idle]
    /\ tangled = {}

Learning(c) == \E w \in Workers : "snap" \in DOMAIN op[w] /\ op[w].char = c
Tangle(c) == tangled' = IF Learning(c) THEN tangled \cup {c} ELSE tangled
Return(w) == op' = [op EXCEPT ![w] = Idle]

----------------------------------------------------------------------------
\* GrantExp, CheckLevelUp and CheckJobLevelUp: a critical section each.  They
\* say what becomes of an entity; Battle takes them in turn.
clampExpAdd(cur, delta) == IF delta > ExpCap - cur THEN ExpCap ELSE cur + delta

GrantExp(g, gain) == [g EXCEPT !.base = clampExpAdd(@, gain), !.job = clampExpAdd(@, gain)]

Gained(exp, step, room) == IF exp \div step < room THEN exp \div step ELSE room
BaseGained(g) == Gained(g.base, BaseStep, MaxLevel - g.level)
JobGained(g) == Gained(g.job, JobStep, MaxJob - g.jobLevel)

CheckLevelUp(g) ==
    [g EXCEPT !.base = @ - BaseStep * BaseGained(g), !.level = @ + BaseGained(g)]

CheckJobLevelUp(g) ==
    [g EXCEPT !.job = @ - JobStep * JobGained(g), !.jobLevel = @ + JobGained(g),
              !.points = @ + JobGained(g)]

\* A base level heals, and brings a dead player back to life where it lies.
LevelUpHeals(c) ==
    LET up == BaseGained(grow[c]) > 0
    IN /\ dead' = IF up THEN dead \ {c} ELSE dead
       /\ sp' = IF up THEN [sp EXCEPT ![c] = MaxSP] ELSE sp

----------------------------------------------------------------------------
\* RegenTick: some of the living have waited long enough for a spell point.
RegenTick(S) ==
    /\ Spend("ticks") /\ ~stopped
    /\ S \subseteq in \ dead
    /\ sp' = [c \in Chars |-> IF c \in S /\ sp[c] < MaxSP THEN sp[c] + 1 ELSE sp[c]]
    /\ UNCHANGED <<dead, bodyVars, growthVars, op>>

\* AddVitals (a potion) and HealPlayer (a script): neither asks whether the
\* player is alive.
Heal(c) ==
    /\ Spend("heals")
    /\ c \in in
    /\ dead' = dead \ {c}
    /\ UNCHANGED <<sp, bodyVars, growthVars, op>>

\* LeaveMap saves the entity, EnterMap makes another one of the row.
LeaveMap(c) ==
    /\ Leave(c)
    /\ row' = [row EXCEPT ![c] =
          [base |-> grow[c].base, level |-> grow[c].level, job |-> grow[c].job,
           jobLevel |-> grow[c].jobLevel, points |-> grow[c].points,
           skill |-> IF grow[c].map = Nil THEN @.skill ELSE skills[grow[c].map]]]
    /\ grow' = [grow EXCEPT ![c] = Absent]
    /\ Tangle(c)
    /\ UNCHANGED <<skills, op>>

EnterMap(c) ==
    /\ Enter(c)
    /\ grow' = [grow EXCEPT ![c] = Loaded(row[c], NewMap)]
    /\ skills' = IF row[c].skill = 0 THEN skills ELSE [skills EXCEPT ![NewMap] = row[c].skill]
    /\ UNCHANGED <<row, op, tangled>>

----------------------------------------------------------------------------
\* LearnSkill, step 2: the copy, of which every gate is read.  Step 4 refuses a
\* copy without points.
LearnSnapshot(w, c) ==
    /\ Spend("learns")
    /\ op[w] = Idle /\ c \in in /\ grow[c].points > 0
    /\ op' = [op EXCEPT ![w] = [pc |-> "raise", char |-> c, snap |-> grow[c],
                                dead |-> c \in dead, sp |-> sp[c],
                                map |-> grow[c].map, list |-> 0]]
    /\ Tangle(c)
    /\ UNCHANGED <<respawnVars, grow, skills, row>>

\* Steps 6 and 7: the level is read from the map and raised in it, without the
\* mutex, and the list to save is made of it.  A copy without a map makes one.
LearnRaise(w) ==
    LET m == IF op[w].map = Nil THEN NewMap ELSE op[w].map
        level == Learned(op[w].map) + 1
    IN /\ op[w].pc = "raise"
       /\ \/ /\ level > SkillMax
             /\ Return(w) /\ UNCHANGED skills
          \/ /\ level <= SkillMax
             /\ skills' = [skills EXCEPT ![m] = level]
             /\ op' = [op EXCEPT ![w].pc = "skills", ![w].map = m, ![w].list = level]
       /\ UNCHANGED <<respawnVars, budget, grow, row, tangled>>

\* Step 8: the list is written to the skill table ...
SaveSkills(w) ==
    /\ op[w].pc = "skills"
    /\ row' = [row EXCEPT ![op[w].char].skill = op[w].list]
    /\ op' = [op EXCEPT ![w].pc = "state"]
    /\ UNCHANGED <<respawnVars, budget, grow, skills, tangled>>

\* ... and the copy, less one point, to the char table: what the row of someone
\* who has left meanwhile is, hit points and spell points included.
SaveState(w) ==
    LET c == op[w].char
        s == op[w].snap
    IN /\ op[w].pc = "state"
       /\ row' = [row EXCEPT ![c] =
             [base |-> s.base, level |-> s.level, job |-> s.job, jobLevel |-> s.jobLevel,
              points |-> s.points - 1, skill |-> @.skill]]
       /\ dead' = IF c \in in THEN dead
                  ELSE IF op[w].dead THEN dead \cup {c} ELSE dead \ {c}
       /\ sp' = IF c \in in THEN sp ELSE [sp EXCEPT ![c] = op[w].sp]
       /\ op' = [op EXCEPT ![w].pc = "apply"]
       /\ UNCHANGED <<bodyVars, budget, grow, skills, tangled>>

\* Mutant of LearnApply: the entity keeps its points until the next login.
ApplySkillOnly(w) ==
    LET c == op[w].char
    IN /\ op[w].pc = "apply"
       /\ grow' = IF c \in in THEN [grow EXCEPT ![c].map = op[w].map] ELSE grow
       /\ Return(w)
       /\ UNCHANGED <<respawnVars, budget, skills, row, tangled>>

\* Step 10: the points of the copy, less one, and its map are the entity's.
LearnApply(w) ==
    LET c == op[w].char
    IN /\ op[w].pc = "apply"
       /\ grow' = IF c \in in
                  THEN [grow EXCEPT ![c].points = op[w].snap.points - 1, ![c].map = op[w].map]
                  ELSE grow
       /\ Return(w)
       /\ UNCHANGED <<respawnVars, budget, skills, row, tangled>>

\* SaveSkills or SaveState fails, and the level stays raised in the map.
LearnFails(w) ==
    /\ op[w].pc \in {"skills", "state"}
    /\ Spend("faults")
    /\ tangled' = tangled \cup {op[w].char}
    /\ Return(w)
    /\ UNCHANGED <<respawnVars, grow, skills, row>>

LearnStep(w) == LearnRaise(w) \/ SaveSkills(w) \/ SaveState(w) \/ LearnApply(w)

GrowthNext ==
    \/ \E c \in Chars : LeaveMap(c) \/ EnterMap(c) \/ Heal(c)
    \/ \E S \in SUBSET Chars : RegenTick(S)
    \/ \E w \in Workers :
          \/ \E c \in Chars : LearnSnapshot(w, c)
          \/ LearnStep(w)
          \/ LearnFails(w)

----------------------------------------------------------------------------
GrowthTypeOK ==
    /\ \A c \in Chars : c \in in =>
          /\ grow[c].base \in 0 .. ExpCap /\ grow[c].job \in 0 .. ExpCap
          /\ grow[c].level \in 1 .. MaxLevel /\ grow[c].jobLevel \in 1 .. MaxJob
          /\ grow[c].points \in Nat /\ grow[c].map \in Maps \cup {Nil}
    /\ skills \in [Maps -> 0 .. SkillMax]
    /\ \A c \in Chars : row[c].points \in Nat /\ row[c].skill \in 0 .. SkillMax
    /\ tangled \subseteq Chars

\* Skill points pay for skill levels: what a character has learned and what is
\* left to spend are together what its job levels brought, in the world or, once
\* it has left, in the tables.  It is what LearnSkill ("nothing is spent or
\* persisted" on failure) and CheckJobLevelUp promise together; it holds until a
\* learn overlaps with another learn, a job level or a logout of the same
\* character, or fails in one of its two statements.
Granted(c) == StartPoints + StartSkill[c]
PointsPayForLevels ==
    \A c \in Chars \ tangled :
        ~Learning(c) =>
            IF c \in in
            THEN grow[c].points + Learned(grow[c].map) = Granted(c) + grow[c].jobLevel - 1
            ELSE row[c].points + row[c].skill = Granted(c) + row[c].jobLevel - 1
=============================================================================
