--------------------------- MODULE SocietyProofs ---------------------------
(***************************************************************************)
(* Proofs about Society, for any numbers of characters and goroutines, any  *)
(* caps and any handlers of other parts beside these, and about the dialogs *)
(* that Social puts beside them, for any scripts and any machine.           *)
(***************************************************************************)
EXTENDS Social, FiniteSetTheorems, SequenceTheorems, TLAPS

-----------------------------------------------------------------------------
\* Types: which operations there are, and how far each can be.

GroupPcs == {"invite", "answer", "create", "join", "leave", "left", "break", "options"}
GroupOps == [part : Kinds, pc : GroupPcs, char : Chars, who : Chars, group : Nat,
             tx : Txs \cup {""}, flag : BOOLEAN]

\* A group operation while the next id is n.
GroupJob(o, n) ==
    /\ o \in GroupOps
    /\ o.group < n
    /\ o.pc \in Txs => o.tx = o.pc
    /\ o.pc = "left" => o.tx = "leave" /\ o.part = "guild"
    /\ o.pc \in {"invite", "answer", "options"} => o.tx = ""
    /\ o.pc # "create" => o.group # NoGroup
    /\ o.pc = "break" => o.part = "guild"

ContactPcs == {"ask", "befriend", "unfriend", "gate", "deliver"}
ContactOps ==
    {o \in [part : {"friend", "chat"}, pc : ContactPcs, char : Chars, who : Chars, flag : BOOLEAN] :
        o.part = "chat" <=> o.pc \in {"gate", "deliver"}}
Foreign(o) == o.part = "dialog" /\ o.pc \in {"put", "send"}

JobOK(o, n) == o = Idle \/ GroupJob(o, n) \/ o \in ContactOps \/ Foreign(o)

Invites(n) == [group : 1 .. (n - 1), by : Chars, late : BOOLEAN]
Requests == [from : {{c} : c \in Chars}, late : BOOLEAN]
Rows(k) == IF k = "party" THEN [leader : Chars, share : BOOLEAN] ELSE [leader : Chars]

ConnTypes ==
    /\ live \subseteq Chars
    /\ budget \in [Parts -> Nat]
OpTypes ==
    /\ op = [w \in Workers |-> op[w]]
    /\ \A w \in Workers : JobOK(op[w], nextGroup)
Tables ==
    /\ groups = [k \in Kinds |-> groups[k]]
    /\ \A k \in Kinds :
          /\ groups[k] = [g \in DOMAIN groups[k] |-> groups[k][g]]
          /\ DOMAIN groups[k] \subseteq 1 .. (nextGroup - 1)
          /\ \A g \in DOMAIN groups[k] : groups[k][g] \in Rows(k)
GroupTypes ==
    /\ nextGroup \in Nat \ {0}
    /\ belongs \in [Kinds -> [Chars -> 0 .. (nextGroup - 1)]]
    /\ Tables
InviteTypes ==
    invites \in [Kinds -> [Chars -> Invites(nextGroup) \cup {NoInvite}]]
ContactTypes ==
    /\ friends \subseteq Chars \X Chars
    /\ requests \in [Chars -> Requests \cup {NoRequest}]
    /\ ignores \in [Chars -> SUBSET Chars]
    /\ ignoreAll \in [Chars -> BOOLEAN]
    /\ crossed \in BOOLEAN

TypeInv == ConnTypes /\ OpTypes /\ GroupTypes /\ InviteTypes /\ ContactTypes

LEMMA InitTypes == SocietyInit => TypeInv
<1> SUFFICES ASSUME SocietyInit PROVE TypeInv
  OBVIOUS
<1> USE DEF SocietyInit
<1>1. ConnTypes /\ OpTypes
  BY ConnectionsAssumption DEF ConnInit, ConnTypes, OpTypes, JobOK
<1>2. GroupTypes
  BY DEF GroupInit, GroupTypes, Tables, NoGroup
<1>3. InviteTypes
  BY DEF GroupInit, InviteTypes
<1>4. ContactTypes
  BY DEF ContactInit, ContactTypes
<1> QED BY <1>1, <1>2, <1>3, <1>4 DEF TypeInv

\* The steps of an operation: where the goroutine w goes.
LEMMA OpMoves ==
    ASSUME OpTypes, nextGroup \in Nat, nextGroup' \in Nat, nextGroup <= nextGroup',
           NEW w \in Workers, NEW o, JobOK(o, nextGroup'),
           op' = [op EXCEPT ![w] = o]
    PROVE  OpTypes' /\ op'[w] = o /\ \A v \in Workers \ {w} : op'[v] = op[v]
<1>1. op'[w] = o /\ \A v \in Workers \ {w} : op'[v] = op[v]
  BY DEF OpTypes
<1>2. op' = [v \in Workers |-> op'[v]]
  BY DEF OpTypes
<1>3. ASSUME NEW v \in Workers PROVE JobOK(op[v], nextGroup')
  <2>1. CASE GroupJob(op[v], nextGroup)
    <3>1. PICK g \in Nat : op[v].group = g
      BY <2>1 DEF GroupJob, GroupOps
    <3>2. g < nextGroup
      BY <2>1, <3>1 DEF GroupJob
    <3>3. g < nextGroup'
      BY <3>2
    <3> QED BY <2>1, <3>1, <3>3 DEF GroupJob, JobOK
  <2> QED BY <2>1 DEF OpTypes, JobOK
<1> QED BY <1>1, <1>2, <1>3 DEF OpTypes

\* What a frame of a group handler has found, when its operation o begins.
Begins(o) ==
    /\ o.pc \notin {"join", "left"}
    /\ o.pc = "create" => belongs[o.part][o.who] = NoGroup
    /\ o.pc = "leave" =>
          /\ Exists(o.part, o.group)
          /\ belongs[o.part][o.who] = o.group
          /\ o.part = "party" /\ ~o.flag => groups["party"][o.group].leader # o.who
    /\ o.pc = "invite" => {o.char, o.who} \subseteq live
    /\ o.pc = "answer" =>
          invites[o.part][o.who] # NoInvite /\ invites[o.part][o.who].group = o.group

Frames(w, o) ==
    /\ op[w] = Idle
    /\ GroupJob(o, nextGroup)
    /\ Begins(o)
    /\ op' = [op EXCEPT ![w] = o]
    /\ budget' \in [Parts -> Nat]
    /\ UNCHANGED <<live, groupVars>>

LEMMA FrameSpends ==
    ASSUME ConnTypes, NEW w, NEW c, NEW part \in Parts, Frame(w, c, part)
    PROVE  op[w] = Idle /\ c \in live /\ c \in Chars /\ budget' \in [Parts -> Nat]
BY DEF ConnTypes, Frame, Spend

LEMMA GroupFrames ==
    ASSUME TypeInv, NEW w \in Workers, NEW c \in Chars, GroupFrame(w, c)
    PROVE  \E o \in GroupOps : Frames(w, o)
<1> DEFINE B(k) == belongs[k][c]
<1>a. /\ "party" \in Parts /\ "guild" \in Parts /\ "party" \in Kinds /\ "guild" \in Kinds
      /\ nextGroup \in Nat \ {0}
  BY DEF Parts, Kinds, TypeInv, GroupTypes
\* The operation a handler starts.
<1>b. ASSUME NEW k \in Kinds, NEW pc \in GroupPcs \ {"join", "left"}, NEW who \in Chars, NEW g \in Nat,
             NEW flag \in BOOLEAN, g < nextGroup, pc # "create" => g # NoGroup, pc = "break" => k = "guild",
             Frame(w, c, k), Start(w, GroupOp(k, pc, c, who, g, flag)), UNCHANGED <<live, groupVars>>,
             Begins(GroupOp(k, pc, c, who, g, flag))
      PROVE  \E o \in GroupOps : Frames(w, o)
  <2>1. PICK o : o = GroupOp(k, pc, c, who, g, flag)
    OBVIOUS
  <2>2. GroupJob(o, nextGroup)
    BY <1>b, <2>1 DEF GroupOp, GroupJob, GroupOps, GroupPcs, Txs
  <2>3. op[w] = Idle /\ budget' \in [Parts -> Nat]
    BY <1>a, <1>b, FrameSpends DEF TypeInv, Kinds
  <2> QED BY <1>b, <2>1, <2>2, <2>3 DEF Frames, GroupJob, Start
\* The group of a member.
<1>c. ASSUME NEW k \in Kinds, GetByMember(k, c)
      PROVE  B(k) \in Nat /\ B(k) < nextGroup /\ B(k) # NoGroup /\ Exists(k, B(k))
  BY <1>a, <1>c DEF TypeInv, GroupTypes, GetByMember
<1>d. ASSUME NEW k \in Kinds, Leads(k, c)
      PROVE  GetByMember(k, c) /\ groups[k][B(k)].leader = c
  BY <1>d DEF Leads
<1>e. ASSUME NEW k \in Kinds, NEW t, Frame(w, c, k), connFor(t) PROVE {c, t} \subseteq live /\ t \in Chars
  BY <1>e DEF Frame, connFor, TypeInv, ConnTypes
<1>f. NoGroup \in Nat
  BY DEF NoGroup
<1> HIDE DEF B
<1>1. ASSUME NEW k \in Kinds, Create(w, c, k) PROVE \E o \in GroupOps : Frames(w, o)
  <2>1. Begins(GroupOp(k, "create", c, c, NoGroup, FALSE))
    BY <1>1 DEF Begins, GroupOp, Create
  <2>2. NoGroup < nextGroup
    BY <1>a DEF NoGroup
  <2> QED BY <1>1, <1>b, <1>f, <2>1, <2>2 DEF Create, GroupPcs
<1>2. ASSUME NEW k \in Kinds, NEW t \in Chars, Invite(w, c, k, t) PROVE \E o \in GroupOps : Frames(w, o)
  <2>1. Begins(GroupOp(k, "invite", c, t, B(k), FALSE))
    BY <1>2, <1>e DEF Begins, GroupOp, Invite
  <2>2. Start(w, GroupOp(k, "invite", c, t, B(k), FALSE))
    BY <1>2 DEF Invite, B
  <2> QED BY <1>2, <1>b, <1>c, <1>d, <2>1, <2>2 DEF Invite, GroupPcs
<1>3. ASSUME NEW k \in Kinds, NEW g \in 1 .. (nextGroup - 1), NEW accept \in BOOLEAN, Answer(w, c, k, g, accept)
      PROVE  \E o \in GroupOps : Frames(w, o)
  <2>1. Begins(GroupOp(k, "answer", c, c, g, accept))
    BY <1>3 DEF Begins, GroupOp, Answer, Answers
  <2>2. g \in Nat /\ g < nextGroup /\ g # NoGroup
    BY <1>a DEF NoGroup
  <2> QED BY <1>3, <1>b, <2>1, <2>2 DEF Answer, GroupPcs
<1>4. ASSUME handleLeaveGroup(w, c) PROVE \E o \in GroupOps : Frames(w, o)
  <2>1. Begins(GroupOp("party", "leave", c, c, B("party"), Leads("party", c)))
    BY <1>4, <1>a, <1>c DEF Begins, GroupOp, handleLeaveGroup, B, Leads
  <2>2. Start(w, GroupOp("party", "leave", c, c, B("party"), Leads("party", c)))
    BY <1>4 DEF handleLeaveGroup, B
  <2>3. Leads("party", c) \in BOOLEAN
    BY DEF Leads
  <2> QED BY <1>4, <1>a, <1>b, <1>c, <2>1, <2>2, <2>3 DEF handleLeaveGroup, GroupPcs
<1>5. ASSUME handleGuildLeave(w, c) PROVE \E o \in GroupOps : Frames(w, o)
  <2>1. Begins(GroupOp("guild", "leave", c, c, B("guild"), FALSE))
    BY <1>5, <1>a, <1>c DEF Begins, GroupOp, handleGuildLeave, B
  <2>2. Start(w, GroupOp("guild", "leave", c, c, B("guild"), FALSE))
    BY <1>5 DEF handleGuildLeave, B
  <2> QED BY <1>5, <1>a, <1>b, <1>c, <2>1, <2>2 DEF handleGuildLeave, GroupPcs
<1>6. ASSUME NEW t \in Chars, handleExpelGroupMember(w, c, t) PROVE \E o \in GroupOps : Frames(w, o)
  <2>1. Begins(GroupOp("party", "leave", c, t, B("party"), t = c))
    BY <1>6, <1>a, <1>c, <1>d DEF Begins, GroupOp, handleExpelGroupMember, B
  <2>2. Start(w, GroupOp("party", "leave", c, t, B("party"), t = c))
    BY <1>6 DEF handleExpelGroupMember, B
  <2> QED BY <1>6, <1>a, <1>b, <1>c, <1>d, <2>1, <2>2 DEF handleExpelGroupMember, GroupPcs
<1>7. ASSUME NEW t \in Chars, handleGuildBan(w, c, t) PROVE \E o \in GroupOps : Frames(w, o)
  <2>1. Begins(GroupOp("guild", "leave", c, t, B("guild"), FALSE))
    BY <1>7, <1>a, <1>c, <1>d DEF Begins, GroupOp, handleGuildBan, B
  <2>2. Start(w, GroupOp("guild", "leave", c, t, B("guild"), FALSE))
    BY <1>7 DEF handleGuildBan, B
  <2> QED BY <1>7, <1>a, <1>b, <1>c, <1>d, <2>1, <2>2 DEF handleGuildBan, GroupPcs
<1>8. ASSUME handleGuildBreak(w, c) PROVE \E o \in GroupOps : Frames(w, o)
  <2>1. Begins(GroupOp("guild", "break", c, c, B("guild"), FALSE))
    BY DEF Begins, GroupOp
  <2>2. Start(w, GroupOp("guild", "break", c, c, B("guild"), FALSE))
    BY <1>8 DEF handleGuildBreak, B
  <2> QED BY <1>8, <1>a, <1>b, <1>c, <1>d, <2>1, <2>2 DEF handleGuildBreak, GroupPcs
<1>9. ASSUME NEW share \in BOOLEAN, handleChangeGroupExpOption(w, c, share) PROVE \E o \in GroupOps : Frames(w, o)
  <2>1. Begins(GroupOp("party", "options", c, c, B("party"), share))
    BY DEF Begins, GroupOp
  <2>2. Start(w, GroupOp("party", "options", c, c, B("party"), share))
    BY <1>9 DEF handleChangeGroupExpOption, B
  <2> QED BY <1>9, <1>a, <1>b, <1>c, <1>d, <2>1, <2>2 DEF handleChangeGroupExpOption, GroupPcs
<1> QED BY <1>a, <1>1, <1>2, <1>3, <1>4, <1>5, <1>6, <1>7, <1>8, <1>9
        DEF GroupFrame, handleMakeGroup, handleCreateGuild, handleReqJoinGroup, handleGuildInvite,
            handleJoinGroup, handleGuildReplyInvite

\* What a step finds in the goroutine it runs on.
LEMMA JobAt ==
    ASSUME TypeInv, NEW w \in Workers, op[w] # Idle
    PROVE  /\ op[w].pc \in GroupPcs => GroupJob(op[w], nextGroup) /\ op[w].part \in Kinds
                                        /\ op[w].who \in Chars /\ op[w].char \in Chars
                                        /\ op[w].group \in 0 .. (nextGroup - 1) /\ op[w].flag \in BOOLEAN
           /\ op[w].pc \in ContactPcs => op[w] \in ContactOps /\ op[w].who \in Chars /\ op[w].char \in Chars
<1>1. JobOK(op[w], nextGroup) /\ nextGroup \in Nat
  BY DEF TypeInv, OpTypes, GroupTypes
<1>2. op[w].pc \in GroupPcs => GroupJob(op[w], nextGroup)
  BY <1>1 DEF JobOK, ContactOps, ContactPcs, GroupPcs, Foreign
<1>3. op[w].pc \in ContactPcs => op[w] \in ContactOps
  BY <1>1 DEF JobOK, GroupJob, GroupOps, ContactPcs, GroupPcs, Foreign
<1>4. GroupJob(op[w], nextGroup) => /\ op[w].part \in Kinds /\ op[w].who \in Chars /\ op[w].char \in Chars
                                    /\ op[w].group \in Nat /\ op[w].group < nextGroup /\ op[w].flag \in BOOLEAN
  BY DEF GroupJob, GroupOps
<1>5. \A g \in Nat : g < nextGroup => g \in 0 .. (nextGroup - 1)
  BY <1>1
<1>6. op[w] \in ContactOps => op[w].who \in Chars /\ op[w].char \in Chars
  BY DEF ContactOps
<1> QED BY <1>2, <1>3, <1>4, <1>5, <1>6

\* The two tables, entry by entry.
LEMMA BelongsSet ==
    ASSUME GroupTypes, NEW k \in Kinds, NEW cs, NEW g, SetBelongs(k, cs, g)
    PROVE  /\ \A c \in Chars : belongs'[k][c] = IF c \in cs THEN g ELSE belongs[k][c]
           /\ \A j \in Kinds \ {k} : belongs'[j] = belongs[j]
           /\ \A n : n \in Nat /\ nextGroup <= n /\ g \in 0 .. (n - 1) => belongs' \in [Kinds -> [Chars -> 0 .. (n - 1)]]
<1>1. belongs' = [belongs EXCEPT ![k] = [c \in Chars |-> IF c \in cs THEN g ELSE belongs[k][c]]]
  BY DEF SetBelongs
<1>2. belongs \in [Kinds -> [Chars -> 0 .. (nextGroup - 1)]] /\ nextGroup \in Nat
  BY DEF GroupTypes
<1>3. belongs'[k] = [c \in Chars |-> IF c \in cs THEN g ELSE belongs[k][c]]
  BY <1>1, <1>2
<1>4. \A j \in Kinds \ {k} : belongs'[j] = belongs[j]
  BY <1>1, <1>2
<1>5. ASSUME NEW n \in Nat, nextGroup <= n, g \in 0 .. (n - 1) PROVE belongs' \in [Kinds -> [Chars -> 0 .. (n - 1)]]
  <2>1. \A j \in Kinds, c \in Chars : belongs[j][c] \in 0 .. (n - 1)
    BY <1>2, <1>5
  <2>2. belongs'[k] \in [Chars -> 0 .. (n - 1)]
    BY <1>3, <1>5, <2>1
  <2>3. ASSUME NEW j \in Kinds \ {k} PROVE belongs'[j] \in [Chars -> 0 .. (n - 1)]
    BY <1>2, <1>4, <2>1
  <2>4. belongs' = [j \in Kinds |-> belongs'[j]]
    BY <1>1, <1>2
  <2> QED BY <2>2, <2>3, <2>4
<1> QED BY <1>3, <1>4, <1>5

LEMMA GroupDeleted ==
    ASSUME GroupTypes, NEW k \in Kinds, NEW g, DeleteGroup(k, g)
    PROVE  /\ DOMAIN groups'[k] = DOMAIN groups[k] \ {g}
           /\ \A i \in DOMAIN groups[k] \ {g} : groups'[k][i] = groups[k][i]
           /\ \A j \in Kinds \ {k} : groups'[j] = groups[j]
           /\ nextGroup' = nextGroup => Tables'
<1>1. groups' = [groups EXCEPT ![k] = [i \in DOMAIN groups[k] \ {g} |-> groups[k][i]]]
  BY DEF DeleteGroup
<1>2. groups = [j \in Kinds |-> groups[j]]
  BY DEF GroupTypes, Tables
<1>3. groups'[k] = [i \in DOMAIN groups[k] \ {g} |-> groups[k][i]] /\ \A j \in Kinds \ {k} : groups'[j] = groups[j]
  BY <1>1, <1>2
<1>4. groups' = [j \in Kinds |-> groups'[j]]
  BY <1>1, <1>2
<1>5. DOMAIN groups'[k] = DOMAIN groups[k] \ {g} /\ \A i \in DOMAIN groups[k] \ {g} : groups'[k][i] = groups[k][i]
  BY <1>3
<1>6. ASSUME nextGroup' = nextGroup, NEW j \in Kinds
      PROVE  /\ groups'[j] = [i \in DOMAIN groups'[j] |-> groups'[j][i]]
             /\ DOMAIN groups'[j] \subseteq 1 .. (nextGroup' - 1)
             /\ \A i \in DOMAIN groups'[j] : groups'[j][i] \in Rows(j)
  <2>1. CASE j = k
    BY <1>3, <1>5, <1>6, <2>1 DEF GroupTypes, Tables
  <2> QED BY <1>3, <1>6, <2>1 DEF GroupTypes, Tables
<1> QED BY <1>3, <1>4, <1>5, <1>6 DEF Tables

LEMMA GroupInserted ==
    ASSUME GroupTypes, NEW k \in Kinds, NEW row \in Rows(k), nextGroup' = nextGroup + 1,
           groups' = [groups EXCEPT ![k] = [i \in DOMAIN @ \cup {nextGroup} |->
                                               IF i = nextGroup THEN row ELSE @[i]]]
    PROVE  /\ DOMAIN groups'[k] = DOMAIN groups[k] \cup {nextGroup}
           /\ groups'[k][nextGroup] = row
           /\ \A i \in DOMAIN groups[k] : i # nextGroup /\ groups'[k][i] = groups[k][i]
           /\ \A j \in Kinds \ {k} : groups'[j] = groups[j]
           /\ Tables'
<1>1. groups' = [groups EXCEPT ![k] = [i \in DOMAIN groups[k] \cup {nextGroup} |->
                                          IF i = nextGroup THEN row ELSE groups[k][i]]]
  OBVIOUS
<1>2. groups = [j \in Kinds |-> groups[j]]
  BY DEF GroupTypes, Tables
<1>3. groups'[k] = [i \in DOMAIN groups[k] \cup {nextGroup} |-> IF i = nextGroup THEN row ELSE groups[k][i]]
  BY <1>1, <1>2
<1>4. groups' = [j \in Kinds |-> groups'[j]] /\ \A j \in Kinds \ {k} : groups'[j] = groups[j]
  BY <1>1, <1>2
<1>5. nextGroup \in Nat \ {0} /\ \A j \in Kinds : DOMAIN groups[j] \subseteq 1 .. (nextGroup - 1)
  BY DEF GroupTypes, Tables
<1>6. \A j \in Kinds : \A i \in DOMAIN groups[j] : i # nextGroup
  BY <1>5
<1>7. /\ DOMAIN groups'[k] = DOMAIN groups[k] \cup {nextGroup}
      /\ groups'[k][nextGroup] = row
      /\ \A i \in DOMAIN groups[k] : groups'[k][i] = groups[k][i]
  BY <1>3, <1>6
<1>8. 1 .. (nextGroup - 1) \subseteq 1 .. (nextGroup' - 1) /\ nextGroup \in 1 .. (nextGroup' - 1)
  BY <1>5
<1>9. ASSUME NEW j \in Kinds
      PROVE  /\ groups'[j] = [i \in DOMAIN groups'[j] |-> groups'[j][i]]
             /\ DOMAIN groups'[j] \subseteq 1 .. (nextGroup' - 1)
             /\ \A i \in DOMAIN groups'[j] : groups'[j][i] \in Rows(j)
  <2>1. CASE j = k
    <3>1. groups'[j] = [i \in DOMAIN groups'[j] |-> groups'[j][i]]
      BY <1>3, <2>1
    <3>2. DOMAIN groups'[j] \subseteq 1 .. (nextGroup' - 1)
      BY <1>5, <1>7, <1>8, <2>1
    <3>3. \A i \in DOMAIN groups'[j] : groups'[j][i] \in Rows(j)
      BY <1>7, <2>1 DEF GroupTypes, Tables
    <3> QED BY <3>1, <3>2, <3>3
  <2>2. CASE j # k
    BY <1>4, <1>5, <1>8, <2>2 DEF GroupTypes, Tables
  <2> QED BY <2>1, <2>2
<1> QED BY <1>4, <1>6, <1>7, <1>9 DEF Tables

-----------------------------------------------------------------------------
\* Group steps keep the types.

LEMMA FoundedTypes ==
    ASSUME TypeInv, NEW w \in Workers, op[w] # Idle, NEW k \in Kinds, op[w].part = k,
           op[w].pc = "create", NEW row \in Rows(k), Founded(w, k, row), UNCHANGED contactVars
    PROVE  TypeInv'
<1>1. GroupTypes /\ nextGroup \in Nat \ {0} /\ nextGroup' = nextGroup + 1
  BY DEF TypeInv, GroupTypes, Founded
<1>2. Tables'
  BY <1>1, GroupInserted DEF Founded
<1>3. belongs' \in [Kinds -> [Chars -> 0 .. (nextGroup' - 1)]]
  <2>1. nextGroup' \in Nat /\ nextGroup <= nextGroup' /\ nextGroup \in 0 .. (nextGroup' - 1)
    BY <1>1
  <2>2. SetBelongs(k, {op[w].who}, nextGroup)
    BY DEF Founded
  <2> QED BY <1>1, <2>1, <2>2, BelongsSet
<1>4. OpTypes'
  <2>1. op' = [op EXCEPT ![w] = Idle]
    BY DEF Founded, Return
  <2>2. nextGroup \in Nat /\ nextGroup' \in Nat /\ nextGroup <= nextGroup'
    BY <1>1
  <2>3. JobOK(Idle, nextGroup')
    BY DEF JobOK
  <2> QED BY <2>1, <2>2, <2>3, OpMoves DEF TypeInv
<1>5. InviteTypes'
  <2>1. \A j \in Kinds, c \in Chars : invites[j][c] \in Invites(nextGroup') \cup {NoInvite}
    BY <1>1 DEF TypeInv, InviteTypes, Invites
  <2> QED BY <2>1 DEF TypeInv, InviteTypes, Founded
<1>6. ConnTypes' /\ ContactTypes'
  BY DEF TypeInv, ConnTypes, ContactTypes, contactVars, Founded
<1> QED BY <1>1, <1>2, <1>3, <1>4, <1>5, <1>6 DEF TypeInv, GroupTypes

\* A step that leaves the ids and the invitations alone.
LEMMA TableTypes ==
    ASSUME TypeInv, NEW w \in Workers, NEW o, JobOK(o, nextGroup), op' = [op EXCEPT ![w] = o],
           belongs' \in [Kinds -> [Chars -> 0 .. (nextGroup - 1)]], Tables',
           UNCHANGED <<live, budget, nextGroup, invites>>, UNCHANGED contactVars
    PROVE  TypeInv'
<1>1. nextGroup \in Nat /\ nextGroup' = nextGroup /\ OpTypes
  BY DEF TypeInv, GroupTypes
<1>2. OpTypes'
  <2>1. nextGroup' \in Nat /\ nextGroup <= nextGroup' /\ JobOK(o, nextGroup')
    BY <1>1
  <2> QED BY <1>1, <2>1, OpMoves
<1> QED BY <1>2 DEF TypeInv, ConnTypes, GroupTypes, InviteTypes, ContactTypes, contactVars

LEMMA GroupStepTypes ==
    ASSUME TypeInv, NEW w \in Workers, op[w] # Idle, GroupStep(w), UNCHANGED contactVars
    PROVE  TypeInv'
<1> DEFINE k == op[w].part
           g == op[w].group
           c == op[w].who
<1>a. GroupTypes /\ nextGroup \in Nat \ {0} /\ Tables /\ belongs \in [Kinds -> [Chars -> 0 .. (nextGroup - 1)]]
  BY DEF TypeInv, GroupTypes
<1>b. JobOK(Idle, nextGroup)
  BY DEF JobOK
<1>c. "party" \in Kinds /\ "guild" \in Kinds /\ 0 \in 0 .. (nextGroup - 1) /\ nextGroup <= nextGroup
  BY <1>a DEF Kinds
\* A departure or a disbanding.
<1>d. ASSUME NEW j \in Kinds, NEW cs, SetBelongs(j, cs, NoGroup), DeleteGroup(j, g) \/ UNCHANGED groups,
             Return(w), UNCHANGED <<live, budget, nextGroup, invites>>
      PROVE  TypeInv'
  <2>1. belongs' \in [Kinds -> [Chars -> 0 .. (nextGroup - 1)]]
    BY <1>a, <1>c, <1>d, BelongsSet DEF NoGroup
  <2>2. Tables'
    <3>1. CASE DeleteGroup(j, g)
      BY <1>a, <1>d, <3>1, GroupDeleted
    <3>2. CASE UNCHANGED groups
      BY <1>a, <1>d, <3>2 DEF Tables
    <3> QED BY <1>d, <3>1, <3>2
  <2> QED BY <1>b, <1>d, <2>1, <2>2, TableTypes DEF Return
<1>e. UNCHANGED groups => (nextGroup' = nextGroup => Tables')
  BY <1>a DEF Tables
<1>1. ASSUME PartyCreate(w) PROVE TypeInv'
  <2>1. c \in Chars
    BY <1>1, JobAt DEF PartyCreate, At, GroupPcs
  <2>2. [leader |-> c, share |-> FALSE] \in Rows("party")
    BY <2>1 DEF Rows
  <2> QED BY <1>1, <1>c, <2>2, FoundedTypes DEF PartyCreate, At
<1>2. ASSUME GuildCreate(w) PROVE TypeInv'
  <2>1. c \in Chars
    BY <1>2, JobAt DEF GuildCreate, At, GroupPcs
  <2>2. [leader |-> c] \in Rows("guild")
    BY <2>1 DEF Rows
  <2> QED BY <1>2, <1>c, <2>2, FoundedTypes DEF GuildCreate, At
<1>3. ASSUME SetInvite(w) PROVE TypeInv'
  <2>1. GroupJob(op[w], nextGroup) /\ k \in Kinds /\ c \in Chars /\ op[w].char \in Chars
        /\ g \in 0 .. (nextGroup - 1) /\ op[w].flag \in BOOLEAN
    BY <1>3, JobAt DEF SetInvite, At, GroupPcs
  <2>2. g # 0
    BY <1>3, <2>1 DEF GroupJob, SetInvite, At, NoGroup
  <2>3. g \in 1 .. (nextGroup - 1)
    BY <1>a, <2>1, <2>2
  <2>4. PICK i : i = [group |-> g, by |-> op[w].char, late |-> op[w].flag]
    OBVIOUS
  <2>5. i \in Invites(nextGroup)
    BY <2>1, <2>3, <2>4 DEF Invites
  <2>6. invites' = [invites EXCEPT ![k][c] = i]
    BY <1>3, <2>4 DEF SetInvite
  <2>7. InviteTypes' /\ nextGroup' = nextGroup
    BY <1>3, <2>1, <2>5, <2>6 DEF TypeInv, InviteTypes, SetInvite
  <2>8. OpTypes'
    BY <1>3, <1>a, <1>b, <1>c, OpMoves DEF TypeInv, SetInvite, Return
  <2> QED BY <1>3, <2>7, <2>8 DEF TypeInv, SetInvite, ConnTypes, GroupTypes, Tables, ContactTypes, contactVars
<1>4. ASSUME TakeInvite(w) PROVE TypeInv'
  <2>1. GroupJob(op[w], nextGroup) /\ k \in Kinds /\ c \in Chars /\ g \in 0 .. (nextGroup - 1)
    BY <1>4, JobAt DEF TakeInvite, At, GroupPcs
  <2>2. g # 0
    BY <1>4, <2>1 DEF GroupJob, TakeInvite, At, NoGroup
  <2>3. PICK o : o = GroupOp(k, "join", c, c, g, FALSE)
    OBVIOUS
  <2>4. JobOK(o, nextGroup)
    BY <1>a, <2>1, <2>2, <2>3 DEF GroupOp, JobOK, GroupJob, GroupOps, GroupPcs, Txs, NoGroup
  <2>5. Start(w, o) \/ Return(w)
    BY <1>4, <2>3 DEF TakeInvite
  <2>6. OpTypes'
    BY <1>4, <1>a, <1>b, <1>c, <2>4, <2>5, OpMoves DEF TypeInv, TakeInvite, Return, Start
  <2>7. InviteTypes' /\ nextGroup' = nextGroup
    BY <1>4, <2>1 DEF TypeInv, InviteTypes, TakeInvite
  <2> QED BY <1>4, <2>6, <2>7 DEF TypeInv, TakeInvite, ConnTypes, GroupTypes, Tables, ContactTypes, contactVars
<1>5. ASSUME AddMember(w) PROVE TypeInv'
  <2>1. k \in Kinds /\ g \in 0 .. (nextGroup - 1)
    BY <1>5, JobAt DEF AddMember, At, GroupPcs
  <2>2. SetBelongs(k, {c}, g)
    BY <1>5 DEF AddMember
  <2>3. belongs' \in [Kinds -> [Chars -> 0 .. (nextGroup - 1)]]
    <3> HIDE DEF k, g, c
    <3> QED BY <1>a, <1>c, <2>1, <2>2, BelongsSet
  <2> QED BY <1>5, <1>b, <1>e, <2>3, TableTypes DEF AddMember, Return
<1>6. ASSUME PartyRemoveMember(w) PROVE TypeInv'
  BY <1>6, <1>c, <1>d DEF PartyRemoveMember
<1>7. ASSUME GuildCountLeft(w) PROVE TypeInv'
  <2>1. GroupJob(op[w], nextGroup)
    BY <1>7, JobAt DEF GuildCountLeft, At, GroupPcs
  <2>2. PICK f \in BOOLEAN : f = (Members("guild", g) \subseteq {c})
    OBVIOUS
  <2>3. PICK o : o = [op[w] EXCEPT !.pc = "left", !.flag = f]
    OBVIOUS
  <2>4. op' = [op EXCEPT ![w] = o]
    BY <1>7, <2>2, <2>3 DEF GuildCountLeft
  <2>5. JobOK(o, nextGroup)
    BY <1>7, <2>1, <2>3 DEF GuildCountLeft, At, JobOK, GroupJob, GroupOps, GroupPcs, Txs
  <2> QED BY <1>7, <1>a, <1>e, <2>4, <2>5, TableTypes DEF GuildCountLeft, groupVars
<1>8. ASSUME GuildRemoveMember(w) PROVE TypeInv'
  BY <1>8, <1>c, <1>d DEF GuildRemoveMember
<1>9. ASSUME Break(w) PROVE TypeInv'
  BY <1>9, <1>c, <1>d DEF Break
<1>10. ASSUME SetOptions(w) PROVE TypeInv'
  <2>1. op[w].flag \in BOOLEAN
    BY <1>10, JobAt DEF SetOptions, At, GroupPcs
  <2>2. CASE Exists("party", g)
    <3>1. groups' = [groups EXCEPT !["party"] = [groups["party"] EXCEPT ![g] = [groups["party"][g] EXCEPT !.share = op[w].flag]]]
      BY <1>10, <2>2 DEF SetOptions
    <3>2. PICK r : r = [groups["party"][g] EXCEPT !.share = op[w].flag]
      OBVIOUS
    <3>3. r \in Rows("party")
      BY <1>a, <1>c, <2>1, <2>2, <3>2 DEF Rows, Tables, Exists
    <3>4. groups' = [groups EXCEPT !["party"] = [groups["party"] EXCEPT ![g] = r]]
      BY <3>1, <3>2
    <3>5. Tables'
      BY <1>10, <1>a, <1>c, <2>2, <3>3, <3>4 DEF Tables, SetOptions, Exists
    <3> QED BY <1>10, <1>a, <1>b, <3>5, TableTypes DEF SetOptions, Return
  <2>3. CASE ~Exists("party", g)
    BY <1>10, <1>a, <1>b, <1>e, <2>3, TableTypes DEF SetOptions, Return
  <2> QED BY <2>2, <2>3
<1> QED BY <1>1, <1>2, <1>3, <1>4, <1>5, <1>6, <1>7, <1>8, <1>9, <1>10 DEF GroupStep

-----------------------------------------------------------------------------
\* Contact steps, connections and the rest keep the types.

\* A step beside the groups.
LEMMA BesideTypes ==
    ASSUME TypeInv, OpTypes', ConnTypes', ContactTypes', UNCHANGED groupVars
    PROVE  TypeInv'
BY DEF TypeInv, GroupTypes, Tables, InviteTypes, groupVars

LEMMA ContactFrameTypes ==
    ASSUME TypeInv, NEW w \in Workers, NEW c \in Chars, ContactFrame(w, c), UNCHANGED groupVars
    PROVE  TypeInv'
<1>a. "friend" \in Parts /\ "chat" \in Parts
  BY DEF Parts
<1>b. /\ nextGroup \in Nat /\ nextGroup' = nextGroup /\ nextGroup <= nextGroup'
      /\ OpTypes /\ ConnTypes /\ ContactTypes
  BY DEF TypeInv, GroupTypes, groupVars
\* A handler that starts an operation.
<1>c. ASSUME NEW part \in {"friend", "chat"}, NEW pc \in ContactPcs, NEW a \in Chars, NEW b \in Chars,
             NEW flag \in BOOLEAN, part = "chat" <=> pc \in {"gate", "deliver"}, Start(w, ContactOp(part, pc, a, b, flag))
      PROVE  OpTypes'
  <2>1. PICK o : o = ContactOp(part, pc, a, b, flag)
    OBVIOUS
  <2>2. JobOK(o, nextGroup')
    BY <1>c, <2>1 DEF ContactOp, JobOK, ContactOps
  <2> QED BY <1>b, <1>c, <2>1, <2>2, OpMoves DEF Start
\* One that forgets that whispers were denied all along.
<1>d. ASSUME NEW t, NEW names, NEW all, Admits(t, names, all) PROVE OpTypes'
  <2>1. ASSUME NEW v \in Workers PROVE JobOK(op'[v], nextGroup')
    <3>1. op'[v] = op[v] \/ (op[v].part = "chat" /\ op'[v] = [op[v] EXCEPT !.flag = FALSE])
      BY <1>d DEF Admits
    <3>2. CASE op[v].part = "chat" /\ op'[v] = [op[v] EXCEPT !.flag = FALSE] /\ op[v] # Idle
      <4>1. op[v] \in ContactOps
        BY <1>b, <3>2 DEF OpTypes, JobOK, GroupJob, GroupOps, Kinds, Foreign
      <4> QED BY <3>2, <4>1 DEF JobOK, ContactOps
    <3>3. CASE op'[v] = op[v]
      BY <1>b, <3>3 DEF OpTypes
    <3> QED BY <1>d, <3>2, <3>3 DEF Admits
  <2>2. op' = [v \in Workers |-> op'[v]]
    BY <1>d DEF Admits
  <2> QED BY <2>1, <2>2 DEF OpTypes
<1>1. ASSUME NEW t \in Chars, handleFriendsAdd(w, c, t) PROVE TypeInv'
  <2>1. ConnTypes' /\ ContactTypes'
    BY <1>1, <1>a, <1>b, FrameSpends DEF handleFriendsAdd, ConnTypes, ContactTypes, contactVars
  <2>2. OpTypes'
    BY <1>1, <1>c DEF handleFriendsAdd, ContactPcs
  <2> QED BY <2>1, <2>2, BesideTypes
<1>2. ASSUME NEW t \in Chars, handleFriendsRemove(w, c, t) PROVE TypeInv'
  <2>1. ConnTypes' /\ ContactTypes'
    BY <1>2, <1>a, <1>b, FrameSpends DEF handleFriendsRemove, ConnTypes, ContactTypes, contactVars
  <2>2. OpTypes'
    BY <1>2, <1>c DEF handleFriendsRemove, ContactPcs
  <2> QED BY <2>1, <2>2, BesideTypes
<1>3. ASSUME NEW t \in Chars, NEW accept \in BOOLEAN, handleFriendsReply(w, c, t, accept) PROVE TypeInv'
  <2>1. ConnTypes'
    BY <1>3, <1>a, <1>b, FrameSpends DEF handleFriendsReply, ConnTypes
  <2>2. ContactTypes'
    BY <1>3, <1>b DEF handleFriendsReply, ContactTypes
  <2>3. CASE UNCHANGED op
    BY <1>b, <2>1, <2>2, <2>3, BesideTypes DEF OpTypes
  <2>4. CASE Start(w, ContactOp("friend", "befriend", t, c, FALSE))
    <3>1. OpTypes'
      BY <1>c, <2>4 DEF ContactPcs
    <3> QED BY <2>1, <2>2, <3>1, BesideTypes
  <2> QED BY <1>3, <2>3, <2>4 DEF handleFriendsReply
<1>4. ASSUME NEW t \in Chars, handleWhisper(w, c, t) PROVE TypeInv'
  <2>1. ConnTypes' /\ ContactTypes'
    BY <1>4, <1>a, <1>b, FrameSpends DEF handleWhisper, ConnTypes, ContactTypes, contactVars
  <2>2. PICK f \in BOOLEAN : f = (ignoreAll[t] \/ c \in ignores[t])
    OBVIOUS
  <2>3. OpTypes'
    BY <1>4, <1>c, <2>2 DEF handleWhisper, ContactPcs
  <2> QED BY <2>1, <2>3, BesideTypes
<1>5. ASSUME NEW t \in Chars, NEW block \in BOOLEAN, handlePMIgnore(w, c, t, block) PROVE TypeInv'
  <2>1. ConnTypes'
    BY <1>5, <1>a, <1>b, FrameSpends DEF handlePMIgnore, ConnTypes
  <2>2. ContactTypes'
    BY <1>5, <1>b DEF handlePMIgnore, ContactTypes
  <2>3. OpTypes'
    BY <1>5, <1>d DEF handlePMIgnore
  <2> QED BY <2>1, <2>2, <2>3, BesideTypes
<1>6. ASSUME NEW deny \in BOOLEAN, handleSettingWhisperState(w, c, deny) PROVE TypeInv'
  <2>1. ConnTypes'
    BY <1>6, <1>a, <1>b, FrameSpends DEF handleSettingWhisperState, ConnTypes
  <2>2. ContactTypes'
    BY <1>6, <1>b DEF handleSettingWhisperState, ContactTypes
  <2>3. OpTypes'
    BY <1>6, <1>d DEF handleSettingWhisperState
  <2> QED BY <2>1, <2>2, <2>3, BesideTypes
<1> QED BY <1>1, <1>2, <1>3, <1>4, <1>5, <1>6 DEF ContactFrame

LEMMA ContactStepTypes ==
    ASSUME TypeInv, NEW w \in Workers, op[w] # Idle, ContactStep(w), UNCHANGED groupVars
    PROVE  TypeInv'
<1>b. /\ nextGroup \in Nat /\ nextGroup' = nextGroup /\ nextGroup <= nextGroup'
      /\ OpTypes /\ ConnTypes /\ ContactTypes
  BY DEF TypeInv, GroupTypes, groupVars
<1>c. ASSUME Return(w) PROVE OpTypes'
  BY <1>b, <1>c, OpMoves DEF Return, JobOK
<1>1. ASSUME setFriendReq(w) PROVE TypeInv'
  <2>1. op[w] \in ContactOps /\ op[w].who \in Chars /\ op[w].char \in Chars
    BY <1>1, JobAt DEF setFriendReq, At, ContactPcs
  <2>2. PICK r : r = [from |-> {op[w].char}, late |-> op[w].flag]
    OBVIOUS
  <2>3. r \in Requests
    BY <2>1, <2>2 DEF Requests, ContactOps
  <2>4. ContactTypes'
    BY <1>1, <1>b, <2>1, <2>2, <2>3 DEF setFriendReq, ContactTypes
  <2> QED BY <1>1, <1>b, <1>c, <2>4, BesideTypes DEF setFriendReq, ConnTypes
<1>2. ASSUME Add(w) PROVE TypeInv'
  <2>1. op[w].who \in Chars /\ op[w].char \in Chars
    BY <1>2, JobAt DEF Add, At, ContactPcs
  <2>2. Pair(op[w].char, op[w].who) \subseteq Chars \X Chars
    BY <2>1 DEF Pair
  <2>3. ContactTypes'
    BY <1>2, <1>b, <2>2 DEF Add, ContactTypes
  <2> QED BY <1>2, <1>b, <1>c, <2>3, BesideTypes DEF Add, ConnTypes
<1>3. ASSUME Remove(w) PROVE TypeInv'
  <2>3. ContactTypes'
    BY <1>3, <1>b DEF Remove, ContactTypes
  <2> QED BY <1>3, <1>b, <1>c, <2>3, BesideTypes DEF Remove, ConnTypes
<1>4. ASSUME Gate(w) PROVE TypeInv'
  <2>1. op[w] \in ContactOps
    BY <1>4, JobAt DEF Gate, At, ContactPcs
  <2>2. PICK o : o = [op[w] EXCEPT !.pc = "deliver"]
    OBVIOUS
  <2>3. JobOK(o, nextGroup')
    BY <1>4, <2>1, <2>2 DEF Gate, At, JobOK, ContactOps, ContactPcs
  <2>4. Return(w) \/ op' = [op EXCEPT ![w] = o]
    BY <1>4, <2>2 DEF Gate, Goto
  <2>5. OpTypes'
    BY <1>b, <1>c, <2>3, <2>4, OpMoves
  <2> QED BY <1>4, <1>b, <2>5, BesideTypes DEF Gate, ConnTypes, ContactTypes, contactVars
<1>5. ASSUME Deliver(w) PROVE TypeInv'
  BY <1>5, <1>b, <1>c, BesideTypes DEF Deliver, ConnTypes, ContactTypes, contactVars
<1> QED BY <1>1, <1>2, <1>3, <1>4, <1>5 DEF ContactStep

\* A close marks what it overtakes, and changes nothing else of an operation.
LEMMA OvertakenOps ==
    ASSUME TypeInv, NEW c, Overtaken(c), nextGroup' = nextGroup, NEW v \in Workers
    PROVE  /\ JobOK(op'[v], nextGroup')
           /\ \/ op'[v] = op[v]
              \/ /\ op[v] # Idle /\ op'[v] # Idle
                 /\ op[v].pc \in {"invite", "ask"} /\ op'[v].pc = op[v].pc
                 /\ op'[v].flag
           /\ op[v] # Idle /\ op[v].pc \in {"invite", "ask"} /\ c \in {op[v].char, op[v].who} => op'[v].flag
<1>1. JobOK(op[v], nextGroup)
  BY DEF TypeInv, OpTypes
<1>2. CASE op[v] # Idle /\ op[v].pc \in {"invite", "ask"} /\ c \in {op[v].char, op[v].who}
  <2>1. op'[v] = [op[v] EXCEPT !.flag = TRUE]
    BY <1>2 DEF Overtaken
  <2>2. CASE GroupJob(op[v], nextGroup)
    <3>1. op'[v].pc = op[v].pc /\ op'[v].flag /\ GroupJob(op'[v], nextGroup)
      BY <2>1, <2>2 DEF GroupJob, GroupOps
    <3> QED BY <1>2, <3>1 DEF JobOK, Idle
  <2>3. CASE op[v] \in ContactOps
    <3>1. op'[v].pc = op[v].pc /\ op'[v].flag /\ op'[v] \in ContactOps
      BY <2>1, <2>3 DEF ContactOps
    <3> QED BY <1>2, <3>1 DEF JobOK, Idle
  <2> QED BY <1>1, <1>2, <2>2, <2>3 DEF JobOK, Foreign
<1>3. CASE ~(op[v] # Idle /\ op[v].pc \in {"invite", "ask"} /\ c \in {op[v].char, op[v].who})
  <2>1. op'[v] = op[v]
    BY <1>3 DEF Overtaken
  <2> QED BY <1>1, <1>3, <2>1
<1> QED BY <1>2, <1>3

LEMMA CloseTypes ==
    ASSUME TypeInv, NEW c \in Chars, unregisterConn(c)
    PROVE  TypeInv'
<1>1. nextGroup' = nextGroup
  BY DEF unregisterConn
<1>2. OpTypes'
  BY <1>1, OvertakenOps DEF OpTypes, unregisterConn, Overtaken
<1>3. ConnTypes'
  <2>1. "close" \in Parts
    BY DEF Parts
  <2>2. budget' \in [Parts -> Nat]
    BY <2>1 DEF TypeInv, ConnTypes, unregisterConn, Spend
  <2> QED BY <2>2 DEF TypeInv, ConnTypes, unregisterConn
<1>4. GroupTypes'
  BY DEF TypeInv, GroupTypes, Tables, unregisterConn
<1>5. InviteTypes'
  BY <1>1 DEF TypeInv, InviteTypes, unregisterConn, clearInvitesFor
<1>6. ContactTypes'
  BY DEF TypeInv, ContactTypes, unregisterConn, clearFriendReqsFor
<1> QED BY <1>2, <1>3, <1>4, <1>5, <1>6 DEF TypeInv

LEMMA ElsewhereTypes ==
    ASSUME TypeInv, Elsewhere
    PROVE  TypeInv'
<1>1. OpTypes'
  <2>1. \A w \in Workers : op'[w] # op[w] => Other(op'[w])
    BY DEF Elsewhere
  <2>2. \A w \in Workers : JobOK(op'[w], nextGroup')
    BY <2>1 DEF TypeInv, OpTypes, Elsewhere, Other, JobOK, Foreign, groupVars
  <2> QED BY <2>2 DEF OpTypes, Elsewhere
<1>2. ConnTypes' /\ ContactTypes'
  BY DEF TypeInv, ConnTypes, ContactTypes, contactVars, Elsewhere
<1> QED BY <1>1, <1>2, BesideTypes DEF Elsewhere

LEMMA NextTypes == TypeInv /\ [SocietyNext]_societyVars => TypeInv'
<1> SUFFICES ASSUME TypeInv, [SocietyNext]_societyVars PROVE TypeInv'
  OBVIOUS
<1>1. CASE GroupNext
  <2>1. PICK w \in Workers : ((\E c \in Chars : GroupFrame(w, c)) \/ (op[w] # Idle /\ GroupStep(w))) /\ UNCHANGED contactVars
    BY <1>1 DEF GroupNext
  <2>2. ASSUME NEW c \in Chars, GroupFrame(w, c) PROVE TypeInv'
    <3>1. PICK o \in GroupOps : Frames(w, o)
      BY <2>2, GroupFrames
    <3>2. nextGroup \in Nat /\ nextGroup' = nextGroup /\ nextGroup <= nextGroup'
      BY <3>1 DEF Frames, groupVars, TypeInv, GroupTypes
    <3>3. OpTypes'
      BY <3>1, <3>2, OpMoves DEF Frames, JobOK, TypeInv
    <3>4. ConnTypes' /\ ContactTypes'
      BY <2>1, <3>1 DEF Frames, TypeInv, ConnTypes, ContactTypes, contactVars
    <3> QED BY <3>1, <3>3, <3>4, BesideTypes DEF Frames, groupVars
  <2> QED BY <2>1, <2>2, GroupStepTypes
<1>2. CASE ContactNext
  BY <1>2, ContactFrameTypes, ContactStepTypes DEF ContactNext
<1>3. CASE Elsewhere
  BY <1>3, ElsewhereTypes
<1>4. ASSUME NEW c \in Chars, unregisterConn(c) PROVE TypeInv'
  BY <1>4, CloseTypes
<1>5. ASSUME NEW c \in Chars, registerConn(c) PROVE TypeInv'
  <2>1. OpTypes' /\ ConnTypes' /\ ContactTypes'
    BY <1>5 DEF registerConn, TypeInv, OpTypes, ConnTypes, ContactTypes, groupVars, contactVars
  <2> QED BY <1>5, <2>1, BesideTypes DEF registerConn
<1>6. CASE UNCHANGED societyVars
  <2>1. OpTypes' /\ ConnTypes' /\ ContactTypes'
    BY <1>6 DEF societyVars, TypeInv, OpTypes, ConnTypes, ContactTypes, groupVars, contactVars
  <2> QED BY <1>6, <2>1, BesideTypes DEF societyVars
<1> QED BY <1>1, <1>2, <1>3, <1>4, <1>5, <1>6 DEF SocietyNext

-----------------------------------------------------------------------------
\* What a step does to the group operations and to the tables behind them.

\* The statements of a group operation that read or write a table.
TxPcs == {"create", "join", "leave", "left", "break"}

\* What a transaction that begins at o has checked.
Enters(o) ==
    /\ GroupJob(o, nextGroup)
    /\ o.pc \in TxPcs \ {"left"}
    /\ o.pc = "create" => belongs[o.part][o.who] = NoGroup
    /\ o.pc = "join" =>
          /\ Exists(o.part, o.group) /\ HasRoom(o.part, o.group)
          /\ belongs[o.part][o.who] = NoGroup
    /\ o.pc = "leave" =>
          /\ Exists(o.part, o.group)
          /\ belongs[o.part][o.who] = o.group
          /\ o.part = "party" /\ ~o.flag => groups["party"][o.group].leader # o.who

\* No transaction commits, and those that are open stay as they are.
Quiet ==
    /\ UNCHANGED <<belongs, nextGroup, raced>>
    /\ \A k \in Kinds :
          /\ DOMAIN groups'[k] = DOMAIN groups[k]
          /\ \A g \in DOMAIN groups[k] : groups'[k][g].leader = groups[k][g].leader
    /\ \A v \in Workers : (op'[v] # Idle /\ op'[v].pc \in TxPcs) => (op'[v] = op[v] \/ Enters(op'[v]))

\* A transaction of w advances.
Advance(w) ==
    \/ PartyCreate(w) \/ GuildCreate(w)
    \/ AddMember(w)
    \/ PartyRemoveMember(w)
    \/ GuildCountLeft(w) \/ GuildRemoveMember(w)
    \/ Break(w)

\* What runs beside the groups: their operations stay, but for the mark of a close.
Beside ==
    \A v \in Workers :
        \/ op'[v] = op[v]
        \/ op'[v] # Idle => op'[v].pc \notin GroupPcs
        \/ op[v] # Idle /\ op[v].pc = "invite" /\ op'[v].pc = "invite" /\ op'[v].flag

LEMMA ContactsBeside ==
    ASSUME TypeInv, ContactNext
    PROVE  Beside
<1>1. PICK w \in Workers : /\ (\E c \in Chars : ContactFrame(w, c)) \/ (op[w] # Idle /\ ContactStep(w))
                           /\ UNCHANGED groupVars
  BY DEF ContactNext
<1>a. op = [v \in Workers |-> op[v]]
  BY DEF TypeInv, OpTypes
<1>b. ASSUME NEW o, op' = [op EXCEPT ![w] = o], o # Idle => o.pc \notin GroupPcs PROVE Beside
  BY <1>a, <1>b DEF Beside
<1>c. ASSUME NEW part, NEW pc \in ContactPcs, NEW a, NEW b, NEW f, Start(w, ContactOp(part, pc, a, b, f)) PROVE Beside
  <2>1. ContactOp(part, pc, a, b, f).pc \notin GroupPcs
    BY DEF ContactOp, ContactPcs, GroupPcs
  <2> QED BY <1>b, <1>c, <2>1 DEF Start
<1>d. ASSUME NEW t, NEW names, NEW all, Admits(t, names, all) PROVE Beside
  <2>1. ASSUME NEW v \in Workers, op'[v] # op[v] PROVE op'[v].pc \notin GroupPcs
    <3>1. op[v] # Idle /\ op[v].part = "chat" /\ op'[v] = [op[v] EXCEPT !.flag = FALSE]
      BY <1>d, <2>1 DEF Admits
    <3>2. op[v] \in ContactOps
      BY <3>1 DEF TypeInv, OpTypes, JobOK, GroupJob, GroupOps, Kinds, Foreign
    <3> QED BY <3>1, <3>2 DEF ContactOps, ContactPcs, GroupPcs
  <2> QED BY <2>1 DEF Beside
<1>e. ASSUME Return(w) PROVE Beside
  BY <1>b, <1>e DEF Return
<1>2. ASSUME NEW c \in Chars, ContactFrame(w, c) PROVE Beside
  <2>1. ASSUME NEW t \in Chars, handleFriendsAdd(w, c, t) PROVE Beside
    BY <1>c, <2>1 DEF handleFriendsAdd, ContactPcs
  <2>2. ASSUME NEW t \in Chars, handleFriendsRemove(w, c, t) PROVE Beside
    BY <1>c, <2>2 DEF handleFriendsRemove, ContactPcs
  <2>3. ASSUME NEW t \in Chars, NEW accept \in BOOLEAN, handleFriendsReply(w, c, t, accept) PROVE Beside
    <3>1. CASE UNCHANGED op
      BY <3>1 DEF Beside
    <3> QED BY <1>c, <2>3, <3>1 DEF handleFriendsReply, ContactPcs
  <2>4. ASSUME NEW t \in Chars, handleWhisper(w, c, t) PROVE Beside
    BY <1>c, <2>4 DEF handleWhisper, ContactPcs
  <2>5. ASSUME NEW t \in Chars, NEW block \in BOOLEAN, handlePMIgnore(w, c, t, block) PROVE Beside
    BY <1>d, <2>5 DEF handlePMIgnore
  <2>6. ASSUME NEW deny \in BOOLEAN, handleSettingWhisperState(w, c, deny) PROVE Beside
    BY <1>d, <2>6 DEF handleSettingWhisperState
  <2> QED BY <1>2, <2>1, <2>2, <2>3, <2>4, <2>5, <2>6 DEF ContactFrame
<1>3. ASSUME op[w] # Idle, ContactStep(w) PROVE Beside
  <2>1. CASE Gate(w)
    <3>1. op[w] \in ContactOps
      BY <1>3, <2>1, JobAt DEF Gate, At, ContactPcs
    <3>2. PICK o : o = [op[w] EXCEPT !.pc = "deliver"]
      OBVIOUS
    <3>3. o.pc \notin GroupPcs
      BY <3>1, <3>2 DEF ContactOps, GroupPcs
    <3>4. Return(w) \/ op' = [op EXCEPT ![w] = o]
      BY <2>1, <3>2 DEF Gate, Goto
    <3> QED BY <1>b, <1>e, <3>3, <3>4
  <2> QED BY <1>3, <1>e, <2>1 DEF ContactStep, setFriendReq, Add, Remove, Deliver
<1> QED BY <1>1, <1>2, <1>3

LEMMA GroupCases ==
    ASSUME TypeInv, [SocietyNext]_societyVars
    PROVE  \/ /\ Beside
              /\ UNCHANGED <<belongs, groups, nextGroup, entitled, raced>>
              /\ \A k \in Kinds, c \in Chars : invites'[k][c] \in {invites[k][c], NoInvite}
           \/ \E w \in Workers : \E o \in GroupOps : Frames(w, o)
           \/ \E w \in Workers : op[w] # Idle /\ (SetInvite(w) \/ TakeInvite(w) \/ SetOptions(w) \/ Advance(w))
<1>1. CASE GroupNext
  <2>1. PICK w \in Workers : (\E c \in Chars : GroupFrame(w, c)) \/ (op[w] # Idle /\ GroupStep(w))
    BY <1>1 DEF GroupNext
  <2>2. CASE \E c \in Chars : GroupFrame(w, c)
    BY <2>2, GroupFrames
  <2>3. CASE op[w] # Idle /\ GroupStep(w)
    BY <2>3 DEF GroupStep, Advance
  <2> QED BY <2>1, <2>2, <2>3
<1>2. CASE ContactNext
  BY <1>2, ContactsBeside DEF ContactNext, groupVars
<1>3. CASE Elsewhere
  <2>1. Beside
    BY <1>3 DEF Elsewhere, Other, Beside, GroupPcs
  <2> QED BY <1>3, <2>1 DEF Elsewhere, groupVars
<1>4. ASSUME NEW c \in Chars, unregisterConn(c)
      PROVE  /\ Beside
             /\ UNCHANGED <<belongs, groups, nextGroup, entitled, raced>>
             /\ \A k \in Kinds, t \in Chars : invites'[k][t] \in {invites[k][t], NoInvite}
  <2>1. Beside
    BY <1>4, OvertakenOps DEF unregisterConn, Beside, GroupPcs
  <2> QED BY <1>4, <2>1 DEF unregisterConn, clearInvitesFor
<1>5. CASE UNCHANGED <<op, groupVars>>
  BY <1>5 DEF Beside, groupVars
<1>6. ASSUME NEW c \in Chars, registerConn(c) PROVE UNCHANGED <<op, groupVars>>
  BY <1>6 DEF registerConn
<1>7. CASE UNCHANGED societyVars
  BY <1>5, <1>7 DEF societyVars
<1> QED BY <1>1, <1>2, <1>3, <1>4, <1>5, <1>6, <1>7 DEF SocietyNext

LEMMA TableCases ==
    ASSUME TypeInv, [SocietyNext]_societyVars
    PROVE  Quiet \/ \E w \in Workers : op[w] # Idle /\ Advance(w)
<1>a. op = [v \in Workers |-> op[v]]
  BY DEF TypeInv, OpTypes
<1>1. ASSUME Beside, UNCHANGED <<belongs, groups, nextGroup, raced>> PROVE Quiet
  <2>1. \A v \in Workers : (op'[v] # Idle /\ op'[v].pc \in TxPcs) => op'[v] = op[v]
    BY <1>1 DEF Beside, TxPcs, GroupPcs
  <2> QED BY <1>1, <2>1 DEF Quiet
<1>2. ASSUME NEW w \in Workers, NEW o \in GroupOps, Frames(w, o) PROVE Quiet
  <2>1. op'[w] = o /\ \A v \in Workers \ {w} : op'[v] = op[v]
    BY <1>a, <1>2 DEF Frames
  <2>2. o.pc \in TxPcs => Enters(o)
    BY <1>2 DEF Frames, Begins, Enters
  <2> QED BY <1>2, <2>1, <2>2 DEF Frames, Quiet, groupVars
<1>3. ASSUME NEW w \in Workers, op[w] # Idle, SetInvite(w) PROVE Quiet
  <2>1. op'[w] = Idle /\ \A v \in Workers \ {w} : op'[v] = op[v]
    BY <1>a, <1>3 DEF SetInvite, Return
  <2> QED BY <1>3, <2>1 DEF Quiet, SetInvite
<1>4. ASSUME NEW w \in Workers, op[w] # Idle, TakeInvite(w) PROVE Quiet
  <2>1. GroupJob(op[w], nextGroup) /\ op[w].part \in Kinds /\ op[w].who \in Chars /\ op[w].group \in Nat /\ op[w].pc = "answer"
    BY <1>4, JobAt DEF TakeInvite, At, GroupPcs
  <2>2. PICK o : o = GroupOp(op[w].part, "join", op[w].who, op[w].who, op[w].group, FALSE)
    OBVIOUS
  <2>3. CASE Return(w)
    <3>1. op'[w] = Idle /\ \A v \in Workers \ {w} : op'[v] = op[v]
      BY <1>a, <2>3 DEF Return
    <3> QED BY <1>4, <3>1 DEF Quiet, TakeInvite
  <2>4. CASE ~Return(w)
    <3>1. /\ op' = [op EXCEPT ![w] = o]
          /\ IF op[w].part = "party" THEN PartyMayJoin(op[w].group, op[w].who) ELSE GuildMayJoin(op[w].group, op[w].who)
      BY <1>4, <2>2, <2>4 DEF TakeInvite, Start
    <3>2. op'[w] = o /\ \A v \in Workers \ {w} : op'[v] = op[v]
      BY <1>a, <3>1
    <3>3. GroupJob(o, nextGroup) /\ o.pc = "join" /\ o.part = op[w].part /\ o.group = op[w].group /\ o.who = op[w].who
      BY <2>1, <2>2 DEF GroupOp, GroupJob, GroupOps, GroupPcs, Txs
    <3>4. Enters(o)
      BY <2>1, <3>1, <3>3 DEF Enters, TxPcs, PartyMayJoin, GuildMayJoin, Kinds
    <3> QED BY <1>4, <3>2, <3>4 DEF Quiet, TakeInvite
  <2> QED BY <2>3, <2>4
<1>5. ASSUME NEW w \in Workers, op[w] # Idle, SetOptions(w) PROVE Quiet
  <2>1. op'[w] = Idle /\ \A v \in Workers \ {w} : op'[v] = op[v]
    BY <1>a, <1>5 DEF SetOptions, Return
  <2>2. ASSUME NEW k \in Kinds
        PROVE  /\ DOMAIN groups'[k] = DOMAIN groups[k]
               /\ \A g \in DOMAIN groups[k] : groups'[k][g].leader = groups[k][g].leader
    <3>1. PICK g : g = op[w].group
      OBVIOUS
    <3>2. PICK f : f = op[w].flag
      OBVIOUS
    <3>3. CASE Exists("party", g)
      <4>1. PICK r : r = [groups["party"][g] EXCEPT !.share = f]
        OBVIOUS
      <4>2. groups["party"][g] \in [leader : Chars, share : BOOLEAN]
        BY <3>3 DEF TypeInv, GroupTypes, Tables, Rows, Kinds, Exists
      <4>3. r.leader = groups["party"][g].leader
        BY <4>1, <4>2
      <4>4. groups' = [groups EXCEPT !["party"] = [groups["party"] EXCEPT ![g] = r]]
        BY <1>5, <3>1, <3>2, <3>3, <4>1 DEF SetOptions
      <4>5. groups = [j \in Kinds |-> groups[j]] /\ "party" \in Kinds
            /\ groups["party"] = [i \in DOMAIN groups["party"] |-> groups["party"][i]]
        BY DEF TypeInv, GroupTypes, Tables, Kinds
      <4>6. groups'["party"] = [groups["party"] EXCEPT ![g] = r] /\ \A j \in Kinds \ {"party"} : groups'[j] = groups[j]
        BY <4>4, <4>5
      <4> QED BY <4>3, <4>5, <4>6
    <3>4. CASE ~Exists("party", g)
      BY <1>5, <3>1, <3>4 DEF SetOptions
    <3> QED BY <3>3, <3>4
  <2> QED BY <1>5, <2>1, <2>2 DEF Quiet, SetOptions
<1> QED BY <1>1, <1>2, <1>3, <1>4, <1>5, GroupCases

\* A commit records the races and leaves the other operations alone.
LEMMA Commits ==
    ASSUME TypeInv, NEW w \in Workers, Commit(w), Return(w)
    PROVE  /\ raced \subseteq raced'
           /\ op'[w] = Idle /\ \A v \in Workers \ {w} : op'[v] = op[v]
           /\ \A v \in Workers \ {w} :
                 (op[v] # Idle /\ op[v].part = op[w].part /\ op[v].tx # ""
                  /\ (op[v].who = op[w].who \/ (op[w].group # NoGroup /\ op[v].group = op[w].group)))
                 => {op[w].tx, op[v].tx} \in raced'
<1>1. op'[w] = Idle /\ \A v \in Workers \ {w} : op'[v] = op[v]
  BY DEF TypeInv, OpTypes, Return
<1>2. raced \subseteq raced'
  BY DEF Commit
<1>3. ASSUME NEW v \in Workers \ {w}, op[v] # Idle, op[v].part = op[w].part, op[v].tx # "",
             op[v].who = op[w].who \/ (op[w].group # NoGroup /\ op[v].group = op[w].group)
      PROVE  {op[w].tx, op[v].tx} \in raced'
  BY <1>3 DEF Commit
<1> QED BY <1>1, <1>2, <1>3

\* The commits, entry by entry: a founding, a joining, and a going of the characters cs
\* that deletes the row or not.
FoundedBy(w) ==
    LET k == op[w].part IN
    /\ op[w].pc = "create"
    /\ nextGroup' = nextGroup + 1
    /\ \A c \in Chars : belongs'[k][c] = IF c = op[w].who THEN nextGroup ELSE belongs[k][c]
    /\ \A j \in Kinds \ {k} : belongs'[j] = belongs[j] /\ groups'[j] = groups[j]
    /\ DOMAIN groups'[k] = DOMAIN groups[k] \cup {nextGroup}
    /\ groups'[k][nextGroup].leader = op[w].who
    /\ \A i \in DOMAIN groups[k] : i # nextGroup /\ groups'[k][i] = groups[k][i]
JoinedBy(w) ==
    LET k == op[w].part IN
    /\ op[w].pc = "join"
    /\ UNCHANGED <<groups, nextGroup>>
    /\ \A c \in Chars : belongs'[k][c] = IF c = op[w].who THEN op[w].group ELSE belongs[k][c]
    /\ \A j \in Kinds \ {k} : belongs'[j] = belongs[j]
GoneBy(w, cs, del) ==
    LET k == op[w].part IN
    /\ op[w].pc \in {"leave", "left", "break"}
    /\ op[w].pc = "leave" => k = "party" /\ del = op[w].flag
    /\ op[w].pc = "left" => k = "guild" /\ del = op[w].flag /\ cs = {op[w].who}
    /\ op[w].pc = "break" => k = "guild" /\ del
    /\ cs = {op[w].who} \/ (del /\ cs = Members(k, op[w].group))
    /\ del /\ op[w].pc # "left" => cs = Members(k, op[w].group)
    /\ UNCHANGED nextGroup
    /\ \A c \in Chars : belongs'[k][c] = IF c \in cs THEN NoGroup ELSE belongs[k][c]
    /\ \A j \in Kinds \ {k} : belongs'[j] = belongs[j] /\ groups'[j] = groups[j]
    /\ DOMAIN groups'[k] = DOMAIN groups[k] \ (IF del THEN {op[w].group} ELSE {})
    /\ \A i \in DOMAIN groups'[k] : groups'[k][i] = groups[k][i]

LEMMA AdvanceCases ==
    ASSUME TypeInv, NEW w \in Workers, op[w] # Idle, Advance(w)
    PROVE  /\ GroupJob(op[w], nextGroup) /\ op[w].part \in Kinds /\ op[w].who \in Chars
           /\ op[w].group \in 0 .. (nextGroup - 1)
           /\ \/ GuildCountLeft(w)
              \/ /\ Commit(w) /\ Return(w)
                 /\ FoundedBy(w) \/ JoinedBy(w) \/ \E cs \in SUBSET Chars, del \in BOOLEAN : GoneBy(w, cs, del)
<1> DEFINE Goal == /\ Commit(w) /\ Return(w)
                   /\ FoundedBy(w) \/ JoinedBy(w) \/ \E cs \in SUBSET Chars, del \in BOOLEAN : GoneBy(w, cs, del)
<1>a. op[w].pc \in TxPcs
  BY DEF Advance, PartyCreate, GuildCreate, AddMember, PartyRemoveMember, GuildCountLeft, GuildRemoveMember,
         Break, At, TxPcs
<1>b. /\ GroupJob(op[w], nextGroup) /\ op[w].part \in Kinds /\ op[w].who \in Chars
      /\ op[w].group \in 0 .. (nextGroup - 1) /\ op[w].flag \in BOOLEAN
  BY <1>a, JobAt DEF TxPcs, GroupPcs
<1>c. GroupTypes /\ "party" \in Kinds /\ "guild" \in Kinds
  BY DEF TypeInv, Kinds
<1>d. ASSUME NEW k \in Kinds, NEW row \in Rows(k), op[w].part = k, op[w].pc = "create", row.leader = op[w].who,
             Founded(w, k, row)
      PROVE  Goal
  <2>1. nextGroup' = nextGroup + 1 /\ Commit(w) /\ Return(w) /\ SetBelongs(k, {op[w].who}, nextGroup)
    BY <1>d DEF Founded
  <2>a. groups' = [groups EXCEPT ![k] = [i \in DOMAIN @ \cup {nextGroup} |->
                                            IF i = nextGroup THEN row ELSE @[i]]]
    BY <1>d DEF Founded
  <2>2. /\ DOMAIN groups'[k] = DOMAIN groups[k] \cup {nextGroup}
        /\ groups'[k][nextGroup] = row
        /\ \A i \in DOMAIN groups[k] : i # nextGroup /\ groups'[k][i] = groups[k][i]
        /\ \A j \in Kinds \ {k} : groups'[j] = groups[j]
    BY <1>c, <2>1, <2>a, GroupInserted
  <2>3. /\ \A c \in Chars : belongs'[k][c] = IF c \in {op[w].who} THEN nextGroup ELSE belongs[k][c]
        /\ \A j \in Kinds \ {k} : belongs'[j] = belongs[j]
    BY <1>c, <2>1, BelongsSet
  <2>4. FoundedBy(w)
    BY <1>d, <2>1, <2>2, <2>3 DEF FoundedBy
  <2> QED BY <2>1, <2>4
<1>e. ASSUME NEW k \in Kinds, k = op[w].part, NEW cs \in SUBSET Chars, NEW del \in BOOLEAN,
             SetBelongs(k, cs, NoGroup), IF del THEN DeleteGroup(k, op[w].group) ELSE UNCHANGED groups
      PROVE  /\ \A c \in Chars : belongs'[k][c] = IF c \in cs THEN NoGroup ELSE belongs[k][c]
             /\ \A j \in Kinds \ {k} : belongs'[j] = belongs[j] /\ groups'[j] = groups[j]
             /\ DOMAIN groups'[k] = DOMAIN groups[k] \ (IF del THEN {op[w].group} ELSE {})
             /\ \A i \in DOMAIN groups'[k] : groups'[k][i] = groups[k][i]
  <2>1. /\ \A c \in Chars : belongs'[k][c] = IF c \in cs THEN NoGroup ELSE belongs[k][c]
        /\ \A j \in Kinds \ {k} : belongs'[j] = belongs[j]
    BY <1>c, <1>e, BelongsSet
  <2>2. CASE del
    <3>1. /\ DOMAIN groups'[k] = DOMAIN groups[k] \ {op[w].group}
          /\ \A i \in DOMAIN groups[k] \ {op[w].group} : groups'[k][i] = groups[k][i]
          /\ \A j \in Kinds \ {k} : groups'[j] = groups[j]
      BY <1>c, <1>e, <2>2, GroupDeleted
    <3> QED BY <2>1, <2>2, <3>1
  <2>3. CASE ~del
    BY <1>e, <2>1, <2>3
  <2> QED BY <2>2, <2>3
<1>f. \A k, g : Members(k, g) \in SUBSET Chars
  BY DEF Members
<1>1. ASSUME PartyCreate(w) PROVE Goal
  <2>1. [leader |-> op[w].who, share |-> FALSE] \in Rows("party")
    BY <1>b DEF Rows
  <2> QED BY <1>1, <1>c, <1>d, <2>1 DEF PartyCreate, At
<1>2. ASSUME GuildCreate(w) PROVE Goal
  <2>1. [leader |-> op[w].who] \in Rows("guild")
    BY <1>b DEF Rows
  <2> QED BY <1>2, <1>c, <1>d, <2>1 DEF GuildCreate, At
<1>3. ASSUME AddMember(w) PROVE Goal
  <2>1. PICK k \in Kinds : k = op[w].part
    BY <1>b
  <2>2. SetBelongs(k, {op[w].who}, op[w].group)
    BY <1>3, <2>1 DEF AddMember
  <2>3. /\ \A c \in Chars : belongs'[k][c] = IF c \in {op[w].who} THEN op[w].group ELSE belongs[k][c]
        /\ \A j \in Kinds \ {k} : belongs'[j] = belongs[j]
    BY <1>c, <2>2, BelongsSet
  <2>4. JoinedBy(w)
    BY <1>3, <2>1, <2>3 DEF JoinedBy, AddMember, At
  <2> QED BY <1>3, <2>4 DEF AddMember
<1>4. ASSUME PartyRemoveMember(w) PROVE Goal
  <2>1. PICK del \in BOOLEAN : del = op[w].flag
    BY <1>b
  <2>2. PICK cs \in SUBSET Chars : cs = IF del THEN Members("party", op[w].group) ELSE {op[w].who}
    BY <1>b, <1>f
  <2>3. SetBelongs("party", cs, NoGroup) /\ IF del THEN DeleteGroup("party", op[w].group) ELSE UNCHANGED groups
    BY <1>4, <2>1, <2>2 DEF PartyRemoveMember
  <2>4. op[w].part = "party" /\ op[w].pc = "leave" /\ UNCHANGED nextGroup /\ Commit(w) /\ Return(w)
    BY <1>4 DEF PartyRemoveMember, At
  <2>5. GoneBy(w, cs, del)
    BY <1>c, <1>e, <2>1, <2>2, <2>3, <2>4 DEF GoneBy
  <2> QED BY <2>4, <2>5
<1>5. ASSUME GuildRemoveMember(w) PROVE Goal
  <2>1. PICK del \in BOOLEAN : del = op[w].flag
    BY <1>b
  <2>2. PICK cs \in SUBSET Chars : cs = {op[w].who}
    BY <1>b
  <2>3. SetBelongs("guild", cs, NoGroup) /\ IF del THEN DeleteGroup("guild", op[w].group) ELSE UNCHANGED groups
    BY <1>5, <2>1, <2>2 DEF GuildRemoveMember
  <2>4. op[w].part = "guild" /\ op[w].pc = "left" /\ UNCHANGED nextGroup /\ Commit(w) /\ Return(w)
    BY <1>5, <1>b DEF GuildRemoveMember, At, GroupJob
  <2>5. GoneBy(w, cs, del)
    BY <1>c, <1>e, <2>1, <2>2, <2>3, <2>4 DEF GoneBy
  <2> QED BY <2>4, <2>5
<1>6. ASSUME Break(w) PROVE Goal
  <2>2. PICK cs \in SUBSET Chars : cs = Members("guild", op[w].group)
    BY <1>f
  <2>3. SetBelongs("guild", cs, NoGroup) /\ DeleteGroup("guild", op[w].group)
    BY <1>6, <2>2 DEF Break
  <2>4. op[w].part = "guild" /\ op[w].pc = "break" /\ UNCHANGED nextGroup /\ Commit(w) /\ Return(w)
    BY <1>6, <1>b DEF Break, At, GroupJob
  <2>5. PICK del \in BOOLEAN : del
    OBVIOUS
  <2>6. /\ \A c \in Chars : belongs'["guild"][c] = IF c \in cs THEN NoGroup ELSE belongs["guild"][c]
        /\ \A j \in Kinds \ {"guild"} : belongs'[j] = belongs[j] /\ groups'[j] = groups[j]
        /\ DOMAIN groups'["guild"] = DOMAIN groups["guild"] \ (IF del THEN {op[w].group} ELSE {})
        /\ \A i \in DOMAIN groups'["guild"] : groups'["guild"][i] = groups["guild"][i]
    BY <1>c, <1>e, <2>3, <2>4, <2>5
  <2>7. GoneBy(w, cs, del)
    BY <2>2, <2>4, <2>5, <2>6 DEF GoneBy
  <2> QED BY <2>4, <2>7
<1> QED BY <1>b, <1>1, <1>2, <1>3, <1>4, <1>5, <1>6 DEF Advance

-----------------------------------------------------------------------------
\* NoDanglingMember.  An acceptance past its check relies on the group being there, and
\* the deletion of a guild on the count it has taken.

Doing(v, pc) == op[v] # Idle /\ op[v].pc = pc

NoJoinRace == raced \cap {{"join", "leave"}, {"join", "break"}} = {}
JoinsExist == \A v \in Workers : Doing(v, "join") => Exists(op[v].part, op[v].group)
CountHolds ==
    \A v \in Workers :
        Doing(v, "left") /\ op[v].flag => Members("guild", op[v].group) \subseteq {op[v].who}
BelongExist == \A k \in Kinds, c \in Chars : belongs[k][c] # NoGroup => Exists(k, belongs[k][c])
DanglingInv == NoJoinRace => BelongExist /\ JoinsExist /\ CountHolds

\* What is known of an operation that was under way before the commit of w.
LEMMA Bystander ==
    ASSUME TypeInv, NEW w \in Workers, Commit(w), Return(w), NEW v \in Workers, NEW pc \in TxPcs, Doing(v, pc)'
    PROVE  /\ v # w /\ op'[v] = op[v] /\ Doing(v, pc)
           /\ GroupJob(op[v], nextGroup) /\ op[v].part \in Kinds /\ op[v].who \in Chars
           /\ op[v].group \in 0 .. (nextGroup - 1)
           /\ pc # "create" => op[v].group # NoGroup
           /\ op[v].tx = IF pc = "left" THEN "leave" ELSE pc
           /\ op[v].part = op[w].part
              /\ (op[v].who = op[w].who \/ (op[w].group # NoGroup /\ op[v].group = op[w].group))
              => {op[w].tx, op[v].tx} \in raced'
<1>1. op'[w] = Idle /\ \A u \in Workers \ {w} : op'[u] = op[u]
  BY Commits
<1>2. v # w /\ op'[v] = op[v] /\ Doing(v, pc)
  BY <1>1 DEF Doing
<1>3. /\ GroupJob(op[v], nextGroup) /\ op[v].part \in Kinds /\ op[v].who \in Chars
      /\ op[v].group \in 0 .. (nextGroup - 1)
  BY <1>2, JobAt DEF Doing, TxPcs, GroupPcs
<1>4. op[v].tx = IF pc = "left" THEN "leave" ELSE pc
  BY <1>2, <1>3 DEF GroupJob, Doing, TxPcs, Txs
<1>5. pc # "create" => op[v].group # NoGroup
  BY <1>2, <1>3 DEF GroupJob, Doing
<1>6. op[v] # Idle /\ op[v].tx # ""
  BY <1>2, <1>4 DEF Doing, TxPcs
<1> QED BY <1>2, <1>3, <1>4, <1>5, <1>6, Commits

\* The counting step of w: nothing else moves.
LEMMA Counted ==
    ASSUME TypeInv, NEW w \in Workers, op[w] # Idle, GuildCountLeft(w)
    PROVE  /\ UNCHANGED groupVars
           /\ \A v \in Workers \ {w} : op'[v] = op[v]
           /\ Doing(w, "leave") /\ Doing(w, "left")' /\ op[w].part = "guild" /\ op'[w].part = "guild"
           /\ op'[w].who = op[w].who /\ op'[w].group = op[w].group
           /\ op'[w].flag <=> Members("guild", op[w].group) \subseteq {op[w].who}
<1>1. GroupJob(op[w], nextGroup)
  BY JobAt DEF GuildCountLeft, At, GroupPcs
<1>2. PICK f \in BOOLEAN : f = (Members("guild", op[w].group) \subseteq {op[w].who})
  OBVIOUS
<1>3. PICK o : o = [op[w] EXCEPT !.pc = "left", !.flag = f]
  OBVIOUS
<1>4. op' = [op EXCEPT ![w] = o]
  BY <1>2, <1>3 DEF GuildCountLeft
<1>5. op'[w] = o /\ \A v \in Workers \ {w} : op'[v] = op[v]
  BY <1>4 DEF TypeInv, OpTypes
<1>6. o.pc = "left" /\ o.flag = f /\ o.who = op[w].who /\ o.group = op[w].group /\ o.part = op[w].part
  BY <1>1, <1>3 DEF GroupJob, GroupOps
<1>7. Doing(w, "left")'
  BY <1>5, <1>6 DEF Doing, Idle
<1> QED BY <1>2, <1>5, <1>6, <1>7 DEF GuildCountLeft, At, Doing

LEMMA DanglingStep == TypeInv /\ DanglingInv /\ [SocietyNext]_societyVars => DanglingInv'
<1> SUFFICES ASSUME TypeInv, DanglingInv, [SocietyNext]_societyVars, NoJoinRace'
             PROVE  (BelongExist /\ JoinsExist /\ CountHolds)'
  BY DEF DanglingInv
<1>1. CASE Quiet
  <2>1. BelongExist /\ JoinsExist /\ CountHolds
    BY <1>1 DEF DanglingInv, NoJoinRace, Quiet
  <2>2. \A k \in Kinds : \A g : Exists(k, g)' <=> Exists(k, g)
    BY <1>1 DEF Quiet, Exists
  <2>3. \A k, g : Members(k, g)' = Members(k, g)
    BY <1>1 DEF Quiet, Members
  <2>4. BelongExist'
    BY <1>1, <2>1, <2>2 DEF Quiet, BelongExist
  <2>5. ASSUME NEW v \in Workers, Doing(v, "join")' PROVE Exists(op[v].part, op[v].group)'
    <3>1. CASE op'[v] = op[v]
      <4>1. Doing(v, "join") /\ op[v].part \in Kinds
        BY <2>5, <3>1, JobAt DEF Doing, GroupPcs
      <4> QED BY <2>1, <2>2, <3>1, <4>1 DEF JoinsExist
    <3>2. CASE Enters(op'[v])
      <4>1. op'[v].part \in Kinds /\ Exists(op'[v].part, op'[v].group)
        BY <2>5, <3>2 DEF Enters, Doing, GroupJob, GroupOps
      <4> QED BY <2>2, <4>1
    <3> QED BY <1>1, <2>5, <3>1, <3>2 DEF Quiet, Doing, TxPcs
  <2>6. ASSUME NEW v \in Workers, Doing(v, "left")', op'[v].flag
        PROVE  Members("guild", op[v].group)' \subseteq {op'[v].who}
    <3>1. op'[v] = op[v]
      BY <1>1, <2>6 DEF Quiet, Doing, TxPcs, Enters
    <3> QED BY <2>1, <2>3, <2>6, <3>1 DEF CountHolds, Doing
  <2> QED BY <2>4, <2>5, <2>6 DEF JoinsExist, CountHolds
<1>2. ASSUME NEW w \in Workers, op[w] # Idle, Advance(w) PROVE (BelongExist /\ JoinsExist /\ CountHolds)'
  <2> DEFINE k == op[w].part
             g == op[w].group
  <2>a. GroupJob(op[w], nextGroup) /\ k \in Kinds /\ op[w].who \in Chars /\ g \in 0 .. (nextGroup - 1)
    BY <1>2, AdvanceCases
  <2>b. nextGroup \in Nat
    BY DEF TypeInv, GroupTypes
  <2>1. CASE GuildCountLeft(w)
    <3>1. UNCHANGED groupVars /\ \A v \in Workers \ {w} : op'[v] = op[v]
      BY <1>2, <2>1, Counted
    <3>2. BelongExist /\ JoinsExist /\ CountHolds
      BY <3>1 DEF DanglingInv, NoJoinRace, groupVars
    <3>3. BelongExist'
      BY <3>1, <3>2 DEF groupVars, BelongExist, Exists
    <3>4. JoinsExist'
      BY <1>2, <2>1, <3>1, <3>2, Counted DEF groupVars, JoinsExist, Exists, Doing
    <3>5. \A j, i : Members(j, i)' = Members(j, i)
      BY <3>1 DEF Members, groupVars
    <3>6. CountHolds'
      BY <1>2, <2>1, <3>1, <3>2, <3>5, Counted DEF CountHolds, Doing
    <3> QED BY <3>3, <3>4, <3>6
  <2>2. ASSUME Commit(w), Return(w) PROVE BelongExist /\ JoinsExist /\ CountHolds
    BY <2>2, Commits DEF DanglingInv, NoJoinRace
  <2>3. CASE Commit(w) /\ Return(w) /\ FoundedBy(w)
    <3>1. BelongExist'
      <4> SUFFICES ASSUME NEW j \in Kinds, NEW c \in Chars, belongs'[j][c] # NoGroup PROVE Exists(j, belongs[j][c])'
        BY DEF BelongExist
      <4>1. CASE j = k /\ c = op[w].who
        BY <2>3, <4>1 DEF FoundedBy, Exists
      <4>2. CASE ~(j = k /\ c = op[w].who)
        <5>1. belongs'[j][c] = belongs[j][c] /\ DOMAIN groups[j] \subseteq DOMAIN groups'[j]
          BY <2>3, <2>a, <4>2 DEF FoundedBy
        <5> QED BY <2>2, <2>3, <5>1 DEF BelongExist, Exists
      <4> QED BY <4>1, <4>2
    <3>2. JoinsExist'
      <4> SUFFICES ASSUME NEW v \in Workers, Doing(v, "join")' PROVE Exists(op[v].part, op[v].group)'
        BY DEF JoinsExist
      <4>1. op'[v] = op[v] /\ Doing(v, "join") /\ op[v].part \in Kinds
        BY <2>3, Bystander DEF TxPcs
      <4>2. DOMAIN groups[op[v].part] \subseteq DOMAIN groups'[op[v].part]
        BY <2>3, <2>a, <4>1 DEF FoundedBy
      <4> QED BY <2>2, <2>3, <4>1, <4>2 DEF JoinsExist, Exists
    <3>3. CountHolds'
      <4> SUFFICES ASSUME NEW v \in Workers, Doing(v, "left")', op'[v].flag, NEW c \in Chars, belongs'["guild"][c] = op'[v].group
                   PROVE  c = op'[v].who
        BY DEF CountHolds, Members
      <4>1. op'[v] = op[v] /\ Doing(v, "left") /\ op[v].group \in 0 .. (nextGroup - 1)
        BY <2>3, Bystander DEF TxPcs
      <4>2. belongs["guild"][c] = op[v].group
        BY <2>3, <2>b, <4>1 DEF FoundedBy, Kinds
      <4> QED BY <2>2, <2>3, <4>1, <4>2 DEF CountHolds, Members
    <3> QED BY <3>1, <3>2, <3>3
  <2>4. CASE Commit(w) /\ Return(w) /\ JoinedBy(w)
    <3>0. op[w].tx = "join" /\ Doing(w, "join") /\ g # NoGroup
      BY <1>2, <2>4, <2>a DEF JoinedBy, GroupJob, Txs, Doing
    <3>1. BelongExist'
      <4> SUFFICES ASSUME NEW j \in Kinds, NEW c \in Chars, belongs'[j][c] # NoGroup PROVE Exists(j, belongs[j][c])'
        BY DEF BelongExist
      <4>1. CASE j = k /\ c = op[w].who
        <5>1. belongs'[j][c] = g /\ Exists(k, g)
          BY <2>2, <2>4, <3>0, <4>1 DEF JoinedBy, JoinsExist
        <5> QED BY <2>4, <4>1, <5>1 DEF JoinedBy, Exists
      <4>2. CASE ~(j = k /\ c = op[w].who)
        <5>1. belongs'[j][c] = belongs[j][c] /\ groups' = groups
          BY <2>4, <2>a, <4>2 DEF JoinedBy
        <5> QED BY <2>2, <2>4, <5>1 DEF BelongExist, Exists
      <4> QED BY <4>1, <4>2
    <3>2. JoinsExist'
      <4> SUFFICES ASSUME NEW v \in Workers, Doing(v, "join")' PROVE Exists(op[v].part, op[v].group)'
        BY DEF JoinsExist
      <4>1. op'[v] = op[v] /\ Doing(v, "join")
        BY <2>4, Bystander DEF TxPcs
      <4> QED BY <2>2, <2>4, <4>1 DEF JoinsExist, Exists, JoinedBy
    <3>3. CountHolds'
      <4> SUFFICES ASSUME NEW v \in Workers, Doing(v, "left")', op'[v].flag, NEW c \in Chars, belongs'["guild"][c] = op'[v].group
                   PROVE  c = op'[v].who
        BY DEF CountHolds, Members
      <4>1. /\ op'[v] = op[v] /\ Doing(v, "left") /\ op[v].tx = "leave" /\ GroupJob(op[v], nextGroup)
            /\ op[v].part = op[w].part /\ op[v].group = op[w].group => {op[w].tx, op[v].tx} \in raced'
        BY <2>4, <3>0, Bystander DEF TxPcs
      <4>2. op[v].part = "guild"
        BY <4>1 DEF GroupJob, Doing
      <4>3. ~(k = "guild" /\ op[v].group = g)
        BY <3>0, <4>1, <4>2 DEF NoJoinRace
      <4>4. belongs["guild"][c] = op[v].group
        BY <2>4, <4>1, <4>3 DEF JoinedBy, Kinds
      <4> QED BY <2>2, <2>4, <4>1, <4>4 DEF CountHolds, Members
    <3> QED BY <3>1, <3>2, <3>3
  <2>5. ASSUME Commit(w), Return(w), NEW cs \in SUBSET Chars, NEW del \in BOOLEAN, GoneBy(w, cs, del)
        PROVE  (BelongExist /\ JoinsExist /\ CountHolds)'
    <3>0. op[w].tx \in {"leave", "break"} /\ g # NoGroup
      BY <2>5, <2>a DEF GoneBy, GroupJob, Txs
    <3>1. BelongExist'
      <4> SUFFICES ASSUME NEW j \in Kinds, NEW c \in Chars, belongs'[j][c] # NoGroup PROVE Exists(j, belongs[j][c])'
        BY DEF BelongExist
      <4>1. belongs'[j][c] = belongs[j][c] /\ (j = k => c \notin cs)
        BY <2>5 DEF GoneBy
      <4>2. Exists(j, belongs[j][c])
        BY <2>2, <2>5, <4>1 DEF BelongExist
      <4>3. ASSUME j = k, del, belongs[j][c] = g PROVE FALSE
        <5>1. c \in Members(k, g)
          BY <4>3 DEF Members
        <5>2. op[w].pc = "left" /\ op[w].flag /\ k = "guild" /\ cs = {op[w].who}
          BY <2>5, <4>1, <4>3, <5>1 DEF GoneBy
        <5>3. Members(k, g) \subseteq {op[w].who}
          BY <1>2, <2>2, <2>5, <5>2 DEF CountHolds, Doing
        <5> QED BY <4>1, <4>3, <5>1, <5>2, <5>3
      <4> QED BY <2>5, <4>1, <4>2, <4>3 DEF GoneBy, Exists
    <3>2. JoinsExist'
      <4> SUFFICES ASSUME NEW v \in Workers, Doing(v, "join")' PROVE Exists(op[v].part, op[v].group)'
        BY DEF JoinsExist
      <4>1. /\ op'[v] = op[v] /\ Doing(v, "join") /\ op[v].tx = "join" /\ op[v].part \in Kinds
            /\ op[v].part = op[w].part /\ op[v].group = op[w].group => {op[w].tx, op[v].tx} \in raced'
        BY <2>5, <3>0, Bystander DEF TxPcs
      <4>2. ~(op[v].part = k /\ op[v].group = g)
        BY <3>0, <4>1 DEF NoJoinRace
      <4>3. Exists(op[v].part, op[v].group)
        BY <2>2, <2>5, <4>1 DEF JoinsExist
      <4> QED BY <2>5, <4>1, <4>2, <4>3 DEF GoneBy, Exists
    <3>3. CountHolds'
      <4> SUFFICES ASSUME NEW v \in Workers, Doing(v, "left")', op'[v].flag, NEW c \in Chars, belongs'["guild"][c] = op'[v].group
                   PROVE  c = op'[v].who
        BY DEF CountHolds, Members
      <4>1. op'[v] = op[v] /\ Doing(v, "left") /\ op[v].group # NoGroup
        BY <2>5, Bystander DEF TxPcs
      <4>2. belongs["guild"][c] = op[v].group
        BY <2>5, <4>1 DEF GoneBy, Kinds
      <4> QED BY <2>2, <2>5, <4>1, <4>2 DEF CountHolds, Members
    <3> QED BY <3>1, <3>2, <3>3
  <2> QED BY <1>2, <2>1, <2>3, <2>4, <2>5, AdvanceCases
<1> QED BY <1>1, <1>2, TableCases

-----------------------------------------------------------------------------
\* GroupPeopled.  A transaction past its reads relies on what it has read of its character:
\* that it belongs to no group, or to the one it leaves, and leads none; and a departure
\* that keeps the guild on somebody staying.

OnlyBreaks == raced \subseteq {{"break"}, {"break", "join"}, {"break", "leave"}, {"break", "create"}}
LeadersIn == \A g \in DOMAIN groups["party"] : belongs["party"][groups["party"][g].leader] = g
GuildsPeopled == \A g \in DOMAIN groups["guild"] : Members("guild", g) # {}
Newcomers ==
    \A v \in Workers :
        Doing(v, "join") \/ Doing(v, "create") => belongs[op[v].part][op[v].who] = NoGroup
Leavers ==
    \A v \in Workers :
        Doing(v, "leave") \/ Doing(v, "left") => belongs[op[v].part][op[v].who] \in {op[v].group, NoGroup}
NotLeading ==
    \A v \in Workers :
        Doing(v, "leave") /\ op[v].part = "party" /\ ~op[v].flag =>
            \A g \in DOMAIN groups["party"] : groups["party"][g].leader # op[v].who
OthersStay ==
    \A v \in Workers :
        Doing(v, "left") /\ ~op[v].flag /\ Exists("guild", op[v].group) =>
            \E c \in Members("guild", op[v].group) : c # op[v].who
Peopled == LeadersIn /\ GuildsPeopled /\ Newcomers /\ Leavers /\ NotLeading /\ OthersStay
PeopledInv == OnlyBreaks => Peopled

LEMMA RacesBreak ==
    ASSUME OnlyBreaks, NEW s, NEW t, {s, t} \in raced
    PROVE  s = "break" \/ t = "break"
BY DEF OnlyBreaks

LEMMA PeopledQuiet ==
    ASSUME TypeInv, Peopled, Quiet
    PROVE  Peopled'
<1>1. /\ "party" \in Kinds /\ "guild" \in Kinds /\ belongs' = belongs
      /\ \A k \in Kinds :
            /\ DOMAIN groups'[k] = DOMAIN groups[k]
            /\ \A g \in DOMAIN groups[k] : groups'[k][g].leader = groups[k][g].leader
  BY DEF Quiet, Kinds
<1>2. \A k, g : Members(k, g)' = Members(k, g)
  BY <1>1 DEF Members
<1>3. LeadersIn' /\ GuildsPeopled'
  BY <1>1, <1>2 DEF Peopled, LeadersIn, GuildsPeopled
<1>4. ASSUME NEW v \in Workers, NEW pc \in TxPcs, Doing(v, pc)'
      PROVE  (op'[v] = op[v] /\ Doing(v, pc)) \/ Enters(op'[v])
  BY <1>4 DEF Quiet, Doing
<1>5. Newcomers'
  BY <1>1, <1>4 DEF Newcomers, Peopled, Doing, TxPcs, Enters
<1>6. Leavers'
  BY <1>1, <1>4 DEF Leavers, Peopled, Doing, TxPcs, Enters
<1>7. NotLeading'
  <2> SUFFICES ASSUME NEW v \in Workers, Doing(v, "leave")', op'[v].part = "party", ~op'[v].flag,
                      NEW g \in DOMAIN groups'["party"], groups'["party"][g].leader = op'[v].who
               PROVE  FALSE
    BY DEF NotLeading
  <2>1. g \in DOMAIN groups["party"] /\ groups["party"][g].leader = op'[v].who
    BY <1>1
  <2>2. CASE op'[v] = op[v] /\ Doing(v, "leave")
    BY <2>1, <2>2 DEF Peopled, NotLeading
  <2>3. CASE Enters(op'[v])
    <3>1. belongs["party"][op'[v].who] = op'[v].group /\ groups["party"][op'[v].group].leader # op'[v].who
      BY <2>3 DEF Enters, Doing
    <3> QED BY <2>1, <3>1 DEF Peopled, LeadersIn
  <2> QED BY <1>4, <2>2, <2>3 DEF TxPcs
<1>8. OthersStay'
  <2> SUFFICES ASSUME NEW v \in Workers, Doing(v, "left")', ~op'[v].flag, Exists("guild", op[v].group)'
               PROVE  \E c \in Members("guild", op[v].group)' : c # op'[v].who
    BY DEF OthersStay
  <2>1. op'[v] = op[v] /\ Doing(v, "left")
    BY <1>4 DEF Enters, Doing, TxPcs
  <2>2. Exists("guild", op[v].group)
    BY <1>1, <2>1 DEF Exists
  <2> QED BY <1>2, <2>1, <2>2 DEF Peopled, OthersStay
<1> QED BY <1>3, <1>5, <1>6, <1>7, <1>8 DEF Peopled

LEMMA PeopledCounted ==
    ASSUME TypeInv, Peopled, NEW w \in Workers, op[w] # Idle, GuildCountLeft(w)
    PROVE  Peopled'
<1>1. /\ UNCHANGED groupVars
      /\ \A v \in Workers \ {w} : op'[v] = op[v]
      /\ Doing(w, "leave") /\ Doing(w, "left")' /\ op[w].part = "guild" /\ op'[w].part = "guild"
      /\ op'[w].who = op[w].who /\ op'[w].group = op[w].group
      /\ op'[w].flag <=> Members("guild", op[w].group) \subseteq {op[w].who}
  BY Counted
<1>2. \A k, g : Members(k, g)' = Members(k, g)
  BY <1>1 DEF Members, groupVars
<1>3. LeadersIn' /\ GuildsPeopled'
  BY <1>1, <1>2 DEF Peopled, LeadersIn, GuildsPeopled, groupVars
<1>4. Newcomers' /\ NotLeading'
  BY <1>1 DEF Peopled, Newcomers, NotLeading, Doing, groupVars
<1>5. Leavers'
  BY <1>1 DEF Peopled, Leavers, Doing, groupVars
<1>6. OthersStay'
  BY <1>1, <1>2 DEF Peopled, OthersStay, Doing, groupVars, Exists
<1> QED BY <1>3, <1>4, <1>5, <1>6 DEF Peopled

LEMMA PeopledFounded ==
    ASSUME TypeInv, Peopled, OnlyBreaks', NEW w \in Workers, op[w] # Idle, Advance(w),
           Commit(w), Return(w), FoundedBy(w)
    PROVE  Peopled'
<1> DEFINE k == op[w].part
           c == op[w].who
<1>a. GroupJob(op[w], nextGroup) /\ k \in Kinds /\ c \in Chars /\ op[w].tx = "create"
  BY AdvanceCases DEF GroupJob, FoundedBy, Txs
<1>b. belongs[k][c] = NoGroup
  BY DEF Peopled, Newcomers, Doing, FoundedBy
<1>c. /\ nextGroup \in Nat \ {0} /\ "party" \in Kinds /\ "guild" \in Kinds
      /\ \A j \in Kinds : \A g \in DOMAIN groups[j] : g # NoGroup /\ g # nextGroup
  BY DEF TypeInv, GroupTypes, Tables, Kinds, NoGroup
<1>d. \A j \in Kinds, x \in Chars : belongs[j][x] # NoGroup => belongs'[j][x] = belongs[j][x]
  BY <1>b DEF FoundedBy
<1>e. \A j \in Kinds, x \in Chars : ~(j = k /\ x = c) => belongs'[j][x] = belongs[j][x]
  BY DEF FoundedBy
<1>f. ASSUME NEW v \in Workers, NEW pc \in TxPcs \ {"break"}, Doing(v, pc)', op[v].part = k PROVE op[v].who # c
  <2>1. op[v].tx # "break" /\ (op[v].who = c => {op[w].tx, op[v].tx} \in raced')
    BY <1>f, Bystander DEF TxPcs
  <2>2. \A s, t : {s, t} \in raced' => s = "break" \/ t = "break"
    BY RacesBreak DEF OnlyBreaks
  <2> QED BY <1>a, <2>1, <2>2
<1>1. LeadersIn'
  <2> SUFFICES ASSUME NEW g \in DOMAIN groups'["party"] PROVE belongs'["party"][groups'["party"][g].leader] = g
    BY DEF LeadersIn
  <2>1. CASE k = "party" /\ g = nextGroup
    BY <1>a, <2>1 DEF FoundedBy
  <2>2. CASE ~(k = "party" /\ g = nextGroup)
    <3>1. g \in DOMAIN groups["party"] /\ groups'["party"][g] = groups["party"][g]
      BY <1>c, <2>2 DEF FoundedBy
    <3>2. groups["party"][g].leader \in Chars
      BY <1>c, <3>1 DEF TypeInv, GroupTypes, Tables, Rows
    <3>3. belongs["party"][groups["party"][g].leader] = g /\ g # NoGroup
      BY <1>c, <3>1 DEF Peopled, LeadersIn
    <3> QED BY <1>c, <1>d, <3>1, <3>2, <3>3
  <2> QED BY <2>1, <2>2
<1>2. GuildsPeopled'
  <2> SUFFICES ASSUME NEW g \in DOMAIN groups'["guild"] PROVE \E x \in Chars : belongs'["guild"][x] = g
    BY DEF GuildsPeopled, Members
  <2>1. CASE k = "guild" /\ g = nextGroup
    BY <1>a, <2>1 DEF FoundedBy
  <2>2. CASE ~(k = "guild" /\ g = nextGroup)
    <3>1. g \in DOMAIN groups["guild"] /\ g # NoGroup
      BY <1>c, <2>2 DEF FoundedBy
    <3>2. PICK x \in Chars : belongs["guild"][x] = g
      BY <3>1 DEF Peopled, GuildsPeopled, Members
    <3> QED BY <1>c, <1>d, <3>1, <3>2
  <2> QED BY <2>1, <2>2
<1>3. Newcomers'
  <2> SUFFICES ASSUME NEW v \in Workers, NEW pc \in {"join", "create"}, Doing(v, pc)'
               PROVE  belongs'[op'[v].part][op'[v].who] = NoGroup
    BY DEF Newcomers
  <2>1. op'[v] = op[v] /\ Doing(v, pc) /\ op[v].part \in Kinds /\ op[v].who \in Chars
    BY Bystander DEF TxPcs
  <2>2. ~(op[v].part = k /\ op[v].who = c)
    BY <1>f DEF TxPcs
  <2> QED BY <1>e, <2>1, <2>2 DEF Peopled, Newcomers
<1>4. Leavers'
  <2> SUFFICES ASSUME NEW v \in Workers, NEW pc \in {"leave", "left"}, Doing(v, pc)'
               PROVE  belongs'[op'[v].part][op'[v].who] \in {op'[v].group, NoGroup}
    BY DEF Leavers
  <2>1. op'[v] = op[v] /\ Doing(v, pc) /\ op[v].part \in Kinds /\ op[v].who \in Chars
    BY Bystander DEF TxPcs
  <2>2. ~(op[v].part = k /\ op[v].who = c)
    BY <1>f DEF TxPcs
  <2> QED BY <1>e, <2>1, <2>2 DEF Peopled, Leavers
<1>5. NotLeading'
  <2> SUFFICES ASSUME NEW v \in Workers, Doing(v, "leave")', op'[v].part = "party", ~op'[v].flag,
                      NEW g \in DOMAIN groups'["party"]
               PROVE  groups'["party"][g].leader # op'[v].who
    BY DEF NotLeading
  <2>1. op'[v] = op[v] /\ Doing(v, "leave")
    BY Bystander DEF TxPcs
  <2>2. CASE k = "party" /\ g = nextGroup
    BY <1>f, <2>1, <2>2 DEF FoundedBy, TxPcs
  <2>3. CASE ~(k = "party" /\ g = nextGroup)
    <3>1. g \in DOMAIN groups["party"] /\ groups'["party"][g] = groups["party"][g]
      BY <1>c, <2>3 DEF FoundedBy
    <3> QED BY <2>1, <3>1 DEF Peopled, NotLeading
  <2> QED BY <2>2, <2>3
<1>6. OthersStay'
  <2> SUFFICES ASSUME NEW v \in Workers, Doing(v, "left")', ~op'[v].flag, op'[v].group \in DOMAIN groups'["guild"]
               PROVE  \E x \in Chars : belongs'["guild"][x] = op'[v].group /\ x # op'[v].who
    BY DEF OthersStay, Exists, Members
  <2>1. op'[v] = op[v] /\ Doing(v, "left") /\ op[v].group \in 0 .. (nextGroup - 1) /\ op[v].group # NoGroup
    BY Bystander DEF TxPcs
  <2>2. op[v].group # nextGroup
    BY <1>c, <2>1
  <2>3. op[v].group \in DOMAIN groups["guild"]
    BY <1>c, <2>1, <2>2 DEF FoundedBy
  <2>4. PICK x \in Chars : belongs["guild"][x] = op[v].group /\ x # op[v].who
    BY <2>1, <2>3 DEF Peopled, OthersStay, Exists, Members
  <2> QED BY <1>c, <1>d, <2>1, <2>4
<1> QED BY <1>1, <1>2, <1>3, <1>4, <1>5, <1>6 DEF Peopled

LEMMA PeopledJoined ==
    ASSUME TypeInv, Peopled, OnlyBreaks', NEW w \in Workers, op[w] # Idle, Advance(w),
           Commit(w), Return(w), JoinedBy(w)
    PROVE  Peopled'
<1> DEFINE k == op[w].part
           c == op[w].who
<1>a. GroupJob(op[w], nextGroup) /\ k \in Kinds /\ c \in Chars /\ op[w].tx = "join" /\ groups' = groups
  BY AdvanceCases DEF GroupJob, JoinedBy, Txs
<1>b. belongs[k][c] = NoGroup
  BY DEF Peopled, Newcomers, Doing, JoinedBy
<1>c. /\ "party" \in Kinds /\ "guild" \in Kinds
      /\ \A j \in Kinds : \A g \in DOMAIN groups[j] : g # NoGroup
  BY DEF TypeInv, GroupTypes, Tables, Kinds, NoGroup
<1>d. \A j \in Kinds, x \in Chars : belongs[j][x] # NoGroup => belongs'[j][x] = belongs[j][x]
  BY <1>b DEF JoinedBy
<1>e. \A j \in Kinds, x \in Chars : ~(j = k /\ x = c) => belongs'[j][x] = belongs[j][x]
  BY DEF JoinedBy
<1>f. ASSUME NEW v \in Workers, NEW pc \in TxPcs \ {"break"}, Doing(v, pc)', op[v].part = k PROVE op[v].who # c
  <2>1. op[v].tx # "break" /\ (op[v].who = c => {op[w].tx, op[v].tx} \in raced')
    BY <1>f, Bystander DEF TxPcs
  <2>2. \A s, t : {s, t} \in raced' => s = "break" \/ t = "break"
    BY RacesBreak DEF OnlyBreaks
  <2> QED BY <1>a, <2>1, <2>2
<1>1. LeadersIn'
  <2> SUFFICES ASSUME NEW g \in DOMAIN groups["party"] PROVE belongs'["party"][groups["party"][g].leader] = g
    BY <1>a DEF LeadersIn
  <2>2. groups["party"][g].leader \in Chars
    BY <1>c DEF TypeInv, GroupTypes, Tables, Rows
  <2>3. belongs["party"][groups["party"][g].leader] = g /\ g # NoGroup
    BY <1>c DEF Peopled, LeadersIn
  <2> QED BY <1>c, <1>d, <2>2, <2>3
<1>2. GuildsPeopled'
  <2> SUFFICES ASSUME NEW g \in DOMAIN groups["guild"] PROVE \E x \in Chars : belongs'["guild"][x] = g
    BY <1>a DEF GuildsPeopled, Members
  <2>2. PICK x \in Chars : belongs["guild"][x] = g
    BY DEF Peopled, GuildsPeopled, Members
  <2> QED BY <1>c, <1>d, <2>2
<1>3. Newcomers'
  <2> SUFFICES ASSUME NEW v \in Workers, NEW pc \in {"join", "create"}, Doing(v, pc)'
               PROVE  belongs'[op'[v].part][op'[v].who] = NoGroup
    BY DEF Newcomers
  <2>1. op'[v] = op[v] /\ Doing(v, pc) /\ op[v].part \in Kinds /\ op[v].who \in Chars
    BY Bystander DEF TxPcs
  <2>2. ~(op[v].part = k /\ op[v].who = c)
    BY <1>f DEF TxPcs
  <2> QED BY <1>e, <2>1, <2>2 DEF Peopled, Newcomers
<1>4. Leavers'
  <2> SUFFICES ASSUME NEW v \in Workers, NEW pc \in {"leave", "left"}, Doing(v, pc)'
               PROVE  belongs'[op'[v].part][op'[v].who] \in {op'[v].group, NoGroup}
    BY DEF Leavers
  <2>1. op'[v] = op[v] /\ Doing(v, pc) /\ op[v].part \in Kinds /\ op[v].who \in Chars
    BY Bystander DEF TxPcs
  <2>2. ~(op[v].part = k /\ op[v].who = c)
    BY <1>f DEF TxPcs
  <2> QED BY <1>e, <2>1, <2>2 DEF Peopled, Leavers
<1>5. NotLeading'
  <2>1. \A v \in Workers : Doing(v, "leave")' => op'[v] = op[v] /\ Doing(v, "leave")
    BY Bystander DEF TxPcs
  <2> QED BY <1>a, <2>1 DEF Peopled, NotLeading
<1>6. OthersStay'
  <2> SUFFICES ASSUME NEW v \in Workers, Doing(v, "left")', ~op'[v].flag, op'[v].group \in DOMAIN groups["guild"]
               PROVE  \E x \in Chars : belongs'["guild"][x] = op'[v].group /\ x # op'[v].who
    BY <1>a DEF OthersStay, Exists, Members
  <2>1. op'[v] = op[v] /\ Doing(v, "left") /\ op[v].group # NoGroup
    BY Bystander DEF TxPcs
  <2>4. PICK x \in Chars : belongs["guild"][x] = op[v].group /\ x # op[v].who
    BY <2>1 DEF Peopled, OthersStay, Exists, Members
  <2> QED BY <1>c, <1>d, <2>1, <2>4
<1> QED BY <1>1, <1>2, <1>3, <1>4, <1>5, <1>6 DEF Peopled

LEMMA PeopledGone ==
    ASSUME TypeInv, Peopled, OnlyBreaks', NEW w \in Workers, op[w] # Idle, Advance(w),
           Commit(w), Return(w), NEW cs \in SUBSET Chars, NEW del \in BOOLEAN, GoneBy(w, cs, del)
    PROVE  Peopled'
<1> DEFINE k == op[w].part
           c == op[w].who
           g == op[w].group
<1>a. GroupJob(op[w], nextGroup) /\ k \in Kinds /\ c \in Chars /\ g # NoGroup
  BY AdvanceCases DEF GroupJob, GoneBy
<1>c. /\ "party" \in Kinds /\ "guild" \in Kinds
      /\ \A j \in Kinds : \A i \in DOMAIN groups[j] : i # NoGroup
  BY DEF TypeInv, GroupTypes, Tables, Kinds, NoGroup
<1>d. \A j \in Kinds, x \in Chars : ~(j = k /\ x \in cs) => belongs'[j][x] = belongs[j][x]
  BY DEF GoneBy
<1>e. \A j \in Kinds, x \in Chars : belongs'[j][x] \in {belongs[j][x], NoGroup}
  BY DEF GoneBy
<1>f. \A j \in Kinds : \A i \in DOMAIN groups'[j] :
          i \in DOMAIN groups[j] /\ groups'[j][i] = groups[j][i] /\ ~(j = k /\ del /\ i = g)
  BY DEF GoneBy
<1>1. LeadersIn'
  <2> SUFFICES ASSUME NEW i \in DOMAIN groups'["party"] PROVE belongs'["party"][groups'["party"][i].leader] = i
    BY DEF LeadersIn
  <2>1. PICK l \in Chars : l = groups["party"][i].leader
    BY <1>c, <1>f DEF TypeInv, GroupTypes, Tables, Rows
  <2>2. i \in DOMAIN groups["party"] /\ groups'["party"][i].leader = l /\ belongs["party"][l] = i
    BY <1>c, <1>f, <2>1 DEF Peopled, LeadersIn
  <2>3. ~(k = "party" /\ l \in cs)
    <3> SUFFICES ASSUME k = "party", l \in cs PROVE FALSE
      OBVIOUS
    <3>1. op[w].pc = "leave" /\ del = op[w].flag
      BY DEF GoneBy
    <3>2. CASE del
      <4>1. l \in Members("party", g)
        BY <3>1, <3>2 DEF GoneBy
      <4> QED BY <1>c, <1>f, <2>2, <3>2, <4>1 DEF Members
    <3>3. CASE ~del
      <4>1. l = c
        BY <3>3 DEF GoneBy
      <4> QED BY <2>1, <2>2, <3>1, <3>3, <4>1 DEF Peopled, NotLeading, Doing
    <3> QED BY <3>2, <3>3
  <2> QED BY <1>c, <1>d, <2>2, <2>3
<1>2. GuildsPeopled'
  <2> SUFFICES ASSUME NEW i \in DOMAIN groups'["guild"] PROVE \E x \in Chars : belongs'["guild"][x] = i
    BY DEF GuildsPeopled, Members
  <2>1. i \in DOMAIN groups["guild"] /\ i # NoGroup
    BY <1>c, <1>f
  <2>2. PICK x \in Chars : belongs["guild"][x] = i
    BY <2>1 DEF Peopled, GuildsPeopled, Members
  <2>3. CASE k = "guild" /\ cs = {c} /\ i = g /\ ~del
    <3>1. op[w].pc = "left" /\ ~op[w].flag
      BY <2>3 DEF GoneBy
    <3>2. PICK y \in Chars : belongs["guild"][y] = g /\ y # c
      BY <2>1, <2>3, <3>1 DEF Peopled, OthersStay, Doing, Exists, Members
    <3> QED BY <1>c, <1>d, <2>3, <3>2
  <2>4. CASE k = "guild" /\ cs = {c} /\ ~(i = g /\ ~del)
    <3>1. i # g
      BY <1>c, <1>f, <2>4
    <3>2. op[w].pc = "left" \/ cs = Members("guild", g)
      BY <2>4 DEF GoneBy
    <3>3. x \notin cs
      <4>1. CASE op[w].pc = "left"
        <5>1. belongs["guild"][c] \in {g, NoGroup}
          BY <2>4, <4>1 DEF Peopled, Leavers, Doing
        <5> QED BY <2>1, <2>2, <2>4, <3>1, <5>1
      <4> QED BY <2>2, <3>1, <3>2, <4>1 DEF Members
    <3> QED BY <1>c, <1>d, <2>2, <3>3
  <2>5. CASE k = "guild" /\ cs # {c}
    <3>1. del /\ cs = Members("guild", g)
      BY <2>5 DEF GoneBy
    <3>2. i # g
      BY <1>c, <1>f, <2>5, <3>1
    <3>3. x \notin cs
      BY <2>2, <3>1, <3>2 DEF Members
    <3> QED BY <1>c, <1>d, <2>2, <3>3
  <2>6. CASE k # "guild"
    BY <1>c, <1>d, <2>2, <2>6
  <2> QED BY <2>3, <2>4, <2>5, <2>6
<1>3. Newcomers'
  <2> SUFFICES ASSUME NEW v \in Workers, NEW pc \in {"join", "create"}, Doing(v, pc)'
               PROVE  belongs'[op'[v].part][op'[v].who] = NoGroup
    BY DEF Newcomers
  <2>1. op'[v] = op[v] /\ Doing(v, pc) /\ op[v].part \in Kinds /\ op[v].who \in Chars
    BY Bystander DEF TxPcs
  <2> QED BY <1>e, <2>1 DEF Peopled, Newcomers
<1>4. Leavers'
  <2> SUFFICES ASSUME NEW v \in Workers, NEW pc \in {"leave", "left"}, Doing(v, pc)'
               PROVE  belongs'[op'[v].part][op'[v].who] \in {op'[v].group, NoGroup}
    BY DEF Leavers
  <2>1. op'[v] = op[v] /\ Doing(v, pc) /\ op[v].part \in Kinds /\ op[v].who \in Chars
    BY Bystander DEF TxPcs
  <2> QED BY <1>e, <2>1 DEF Peopled, Leavers
<1>5. NotLeading'
  <2>1. \A v \in Workers : Doing(v, "leave")' => op'[v] = op[v] /\ Doing(v, "leave")
    BY Bystander DEF TxPcs
  <2> QED BY <1>c, <1>f, <2>1 DEF Peopled, NotLeading
<1>6. OthersStay'
  <2> SUFFICES ASSUME NEW v \in Workers, Doing(v, "left")', ~op'[v].flag, op'[v].group \in DOMAIN groups'["guild"]
               PROVE  \E x \in Chars : belongs'["guild"][x] = op'[v].group /\ x # op'[v].who
    BY DEF OthersStay, Exists, Members
  <2>1. /\ op'[v] = op[v] /\ Doing(v, "left") /\ op[v].group # NoGroup /\ op[v].tx = "leave"
        /\ GroupJob(op[v], nextGroup)
        /\ op[v].part = k /\ op[v].group = g => {op[w].tx, op[v].tx} \in raced'
    BY <1>a, Bystander DEF TxPcs
  <2>2. op[v].part = "guild"
    BY <2>1 DEF GroupJob, Doing
  <2>3. op[v].group \in DOMAIN groups["guild"] /\ ~(k = "guild" /\ del /\ op[v].group = g)
    BY <1>c, <1>f, <2>1
  <2>4. PICK x \in Chars : belongs["guild"][x] = op[v].group /\ x # op[v].who
    BY <2>1, <2>3 DEF Peopled, OthersStay, Exists, Members
  <2>5. ~(k = "guild" /\ x \in cs)
    <3> SUFFICES ASSUME k = "guild", x \in cs PROVE FALSE
      OBVIOUS
    <3>1. CASE cs = Members("guild", g) /\ del
      BY <2>3, <2>4, <3>1 DEF Members
    <3>2. CASE ~(cs = Members("guild", g) /\ del)
      <4>1. op[w].pc = "left" /\ x = c
        BY <3>2 DEF GoneBy
      <4>2. belongs["guild"][c] \in {g, NoGroup}
        BY <4>1 DEF Peopled, Leavers, Doing
      <4>3. op[v].group = g /\ op[w].tx = "leave"
        BY <1>a, <2>1, <2>4, <4>1, <4>2 DEF GroupJob
      <4>4. {"leave", "leave"} \in raced'
        BY <2>1, <2>2, <4>3
      <4> QED BY <4>4 DEF OnlyBreaks
    <3> QED BY <3>1, <3>2
  <2> QED BY <1>c, <1>d, <2>1, <2>4, <2>5
<1> QED BY <1>1, <1>2, <1>3, <1>4, <1>5, <1>6 DEF Peopled

LEMMA PeopledStep == TypeInv /\ PeopledInv /\ [SocietyNext]_societyVars => PeopledInv'
<1> SUFFICES ASSUME TypeInv, PeopledInv, [SocietyNext]_societyVars, OnlyBreaks' PROVE Peopled'
  BY DEF PeopledInv
<1>1. CASE Quiet
  BY <1>1, PeopledQuiet DEF PeopledInv, OnlyBreaks, Quiet
<1>2. ASSUME NEW w \in Workers, op[w] # Idle, Advance(w) PROVE Peopled'
  <2>1. CASE GuildCountLeft(w)
    <3>1. Peopled
      BY <2>1 DEF PeopledInv, OnlyBreaks, GuildCountLeft, groupVars
    <3> QED BY <1>2, <2>1, <3>1, PeopledCounted
  <2>2. ASSUME Commit(w), Return(w) PROVE Peopled
    BY <2>2, Commits DEF PeopledInv, OnlyBreaks
  <2> QED BY <1>2, <2>1, <2>2, AdvanceCases, PeopledFounded, PeopledJoined, PeopledGone
<1> QED BY <1>1, <1>2, TableCases

-----------------------------------------------------------------------------
\* RosterBounded.  An acceptance past its check relies on the place it has counted.

Sized == \A k \in Kinds, g \in 1 .. (nextGroup - 1) : Cardinality(Members(k, g)) <= MaxSize
JoinsFit == \A v \in Workers : Doing(v, "join") => Cardinality(Members(op[v].part, op[v].group)) < MaxSize
RosterInv == {"join"} \notin raced => Sized /\ JoinsFit

LEMMA Shrinks ==
    ASSUME NEW S \in SUBSET Chars, NEW T \in SUBSET S
    PROVE  Cardinality(T) \in Nat /\ Cardinality(S) \in Nat /\ Cardinality(T) <= Cardinality(S)
<1>1. IsFiniteSet(S)
  BY ConnectionsAssumption, FS_Subset
<1> QED BY <1>1, FS_Subset, FS_CardinalityType

LEMMA RosterStep == TypeInv /\ RosterInv /\ [SocietyNext]_societyVars => RosterInv'
<1> SUFFICES ASSUME TypeInv, RosterInv, [SocietyNext]_societyVars, {"join"} \notin raced' PROVE Sized' /\ JoinsFit'
  BY DEF RosterInv
<1>a. \A k, g : Members(k, g) \in SUBSET Chars /\ Members(k, g)' \in SUBSET Chars
  BY DEF Members
<1>b. MaxSize \in Nat \ {0} /\ nextGroup \in Nat \ {0}
  BY GroupsAssumption DEF TypeInv, GroupTypes
<1>c. ASSUME NEW S \in SUBSET Chars, NEW T \in SUBSET S
      PROVE  /\ Cardinality(S) <= MaxSize => Cardinality(T) <= MaxSize
             /\ Cardinality(S) < MaxSize => Cardinality(T) < MaxSize
  <2>1. Cardinality(T) \in Nat /\ Cardinality(S) \in Nat /\ Cardinality(T) <= Cardinality(S)
    BY Shrinks
  <2> QED BY <1>b, <2>1
<1>1. CASE Quiet
  <2>1. Sized /\ JoinsFit
    BY <1>1 DEF RosterInv, Quiet
  <2>2. \A k, g : Members(k, g)' = Members(k, g)
    BY <1>1 DEF Quiet, Members
  <2>3. Sized'
    BY <1>1, <2>1, <2>2 DEF Sized, Quiet
  <2>4. JoinsFit'
    BY <1>1, <2>1, <2>2 DEF JoinsFit, Quiet, Doing, TxPcs, Enters, HasRoom
  <2> QED BY <2>3, <2>4
<1>2. ASSUME NEW w \in Workers, op[w] # Idle, Advance(w) PROVE Sized' /\ JoinsFit'
  <2> DEFINE k == op[w].part
             c == op[w].who
             g == op[w].group
  <2>a. GroupJob(op[w], nextGroup) /\ k \in Kinds /\ c \in Chars /\ g \in 0 .. (nextGroup - 1)
    BY <1>2, AdvanceCases
  <2>1. CASE GuildCountLeft(w)
    <3>1. UNCHANGED groupVars /\ Doing(w, "left")' /\ \A v \in Workers \ {w} : op'[v] = op[v]
      BY <1>2, <2>1, Counted
    <3>2. Sized /\ JoinsFit
      BY <3>1 DEF RosterInv, groupVars
    <3>3. \A j, i : Members(j, i)' = Members(j, i)
      BY <3>1 DEF Members, groupVars
    <3> QED BY <3>1, <3>2, <3>3 DEF Sized, JoinsFit, Doing, groupVars
  <2>2. ASSUME Commit(w), Return(w) PROVE Sized /\ JoinsFit
    BY <2>2, Commits DEF RosterInv
  <2>3. CASE Commit(w) /\ Return(w) /\ FoundedBy(w)
    <3>1. \A j \in Kinds, i \in 1 .. (nextGroup - 1) : Members(j, i)' \subseteq Members(j, i)
      BY <2>3, <2>a, <1>b DEF FoundedBy, Members
    <3>2. Sized'
      <4> SUFFICES ASSUME NEW j \in Kinds, NEW i \in 1 .. (nextGroup' - 1) PROVE Cardinality(Members(j, i)') <= MaxSize
        BY DEF Sized
      <4>1. CASE i \in 1 .. (nextGroup - 1)
        <5>1. Cardinality(Members(j, i)) <= MaxSize
          BY <2>2, <2>3, <4>1 DEF Sized
        <5> QED BY <1>a, <1>c, <3>1, <4>1, <5>1
      <4>2. CASE i = nextGroup
        <5>1. \A x \in Chars : belongs[j][x] # nextGroup
          BY <1>b DEF TypeInv, GroupTypes
        <5>2. Members(j, i)' \subseteq {c}
          BY <2>3, <2>a, <4>2, <5>1 DEF Members, FoundedBy
        <5>3. Cardinality({c}) = 1 /\ {c} \in SUBSET Chars
          BY <2>a, FS_Singleton
        <5>4. Cardinality({c}) <= MaxSize
          BY <1>b, <5>3
        <5> QED BY <1>c, <5>2, <5>3, <5>4
      <4>3. nextGroup' = nextGroup + 1
        BY <2>3 DEF FoundedBy
      <4> QED BY <1>b, <4>1, <4>2, <4>3
    <3>3. JoinsFit'
      <4> SUFFICES ASSUME NEW v \in Workers, Doing(v, "join")' PROVE Cardinality(Members(op[v].part, op[v].group)') < MaxSize
        BY DEF JoinsFit
      <4>1. op'[v] = op[v] /\ Doing(v, "join") /\ op[v].part \in Kinds /\ op[v].group \in 0 .. (nextGroup - 1) /\ op[v].group # NoGroup
        BY <2>3, Bystander DEF TxPcs
      <4>2. op[v].group \in 1 .. (nextGroup - 1)
        BY <1>b, <4>1 DEF NoGroup
      <4>3. Members(op[v].part, op[v].group)' \subseteq Members(op[v].part, op[v].group)
        BY <3>1, <4>1, <4>2 DEF Members
      <4>4. Cardinality(Members(op[v].part, op[v].group)) < MaxSize
        BY <2>2, <2>3, <4>1 DEF JoinsFit
      <4> QED BY <1>a, <1>c, <4>3, <4>4
    <3> QED BY <3>2, <3>3
  <2>4. CASE Commit(w) /\ Return(w) /\ JoinedBy(w)
    <3>0. op[w].tx = "join" /\ Doing(w, "join") /\ g # NoGroup /\ nextGroup' = nextGroup
      BY <1>2, <2>4, <2>a DEF JoinedBy, GroupJob, Txs, Doing
    <3>1. \A j \in Kinds, i \in 1 .. (nextGroup - 1) : ~(j = k /\ i = g) => Members(j, i)' \subseteq Members(j, i)
      BY <2>4, <2>a DEF JoinedBy, Members
    <3>2. Sized'
      <4> SUFFICES ASSUME NEW j \in Kinds, NEW i \in 1 .. (nextGroup - 1) PROVE Cardinality(Members(j, i)') <= MaxSize
        BY <3>0 DEF Sized
      <4>1. CASE ~(j = k /\ i = g)
        <5>1. Cardinality(Members(j, i)) <= MaxSize
          BY <2>2, <2>4 DEF Sized
        <5> QED BY <1>a, <1>c, <3>1, <4>1, <5>1
      <4>2. CASE j = k /\ i = g
        <5>1. PICK S \in SUBSET Chars : S = Members(j, i)
          BY <1>a
        <5>2. Members(j, i)' \subseteq S \cup {c} /\ S \cup {c} \in SUBSET Chars
          BY <2>4, <2>a, <4>2, <5>1 DEF JoinedBy, Members
        <5>3. Cardinality(S) < MaxSize
          BY <2>2, <2>4, <3>0, <4>2, <5>1 DEF JoinsFit
        <5>4. IsFiniteSet(S) /\ Cardinality(S) \in Nat
          BY ConnectionsAssumption, FS_Subset, FS_CardinalityType
        <5>5. Cardinality(S \cup {c}) = IF c \in S THEN Cardinality(S) ELSE Cardinality(S) + 1
          BY <5>4, FS_AddElement
        <5>6. Cardinality(S \cup {c}) <= MaxSize
          BY <1>b, <5>3, <5>4, <5>5
        <5> QED BY <1>c, <5>2, <5>6
      <4> QED BY <4>1, <4>2
    <3>3. JoinsFit'
      <4> SUFFICES ASSUME NEW v \in Workers, Doing(v, "join")' PROVE Cardinality(Members(op[v].part, op[v].group)') < MaxSize
        BY DEF JoinsFit
      <4>1. /\ op'[v] = op[v] /\ Doing(v, "join") /\ op[v].part \in Kinds /\ op[v].tx = "join"
            /\ op[v].group \in 0 .. (nextGroup - 1) /\ op[v].group # NoGroup
            /\ op[v].part = k /\ op[v].group = g => {op[w].tx, op[v].tx} \in raced'
        BY <2>4, <3>0, Bystander DEF TxPcs
      <4>2. op[v].group \in 1 .. (nextGroup - 1)
        BY <1>b, <4>1 DEF NoGroup
      <4>3. ~(op[v].part = k /\ op[v].group = g)
        BY <3>0, <4>1
      <4>4. Members(op[v].part, op[v].group)' \subseteq Members(op[v].part, op[v].group)
        BY <3>1, <4>1, <4>2, <4>3 DEF Members
      <4>5. Cardinality(Members(op[v].part, op[v].group)) < MaxSize
        BY <2>2, <2>4, <4>1 DEF JoinsFit
      <4> QED BY <1>a, <1>c, <4>4, <4>5
    <3> QED BY <3>2, <3>3
  <2>5. ASSUME Commit(w), Return(w), NEW cs \in SUBSET Chars, NEW del \in BOOLEAN, GoneBy(w, cs, del)
        PROVE  Sized' /\ JoinsFit'
    <3>1. \A j \in Kinds, i \in 1 .. (nextGroup - 1) : Members(j, i)' \subseteq Members(j, i)
      BY <2>5 DEF GoneBy, Members, NoGroup
    <3>2. Sized'
      <4> SUFFICES ASSUME NEW j \in Kinds, NEW i \in 1 .. (nextGroup - 1) PROVE Cardinality(Members(j, i)') <= MaxSize
        BY <2>5 DEF Sized, GoneBy
      <4>1. Cardinality(Members(j, i)) <= MaxSize
        BY <2>2, <2>5 DEF Sized
      <4> QED BY <1>a, <1>c, <3>1, <4>1
    <3>3. JoinsFit'
      <4> SUFFICES ASSUME NEW v \in Workers, Doing(v, "join")' PROVE Cardinality(Members(op[v].part, op[v].group)') < MaxSize
        BY DEF JoinsFit
      <4>1. op'[v] = op[v] /\ Doing(v, "join") /\ op[v].part \in Kinds /\ op[v].group \in 0 .. (nextGroup - 1) /\ op[v].group # NoGroup
        BY <2>5, Bystander DEF TxPcs
      <4>2. op[v].group \in 1 .. (nextGroup - 1)
        BY <1>b, <4>1 DEF NoGroup
      <4>3. Members(op[v].part, op[v].group)' \subseteq Members(op[v].part, op[v].group)
        BY <3>1, <4>1, <4>2 DEF Members
      <4>4. Cardinality(Members(op[v].part, op[v].group)) < MaxSize
        BY <2>2, <2>5, <4>1 DEF JoinsFit
      <4> QED BY <1>a, <1>c, <4>3, <4>4
    <3> QED BY <3>2, <3>3
  <2> QED BY <1>2, <2>1, <2>3, <2>4, <2>5, AdvanceCases
<1> QED BY <1>1, <1>2, TableCases

-----------------------------------------------------------------------------
\* NobodyUninvited.  A pending invitation, and an answer past it, are of someone entitled.

InvitesEntitled ==
    \A k \in Kinds, c \in Chars :
        invites[k][c] # NoInvite => <<k, invites[k][c].group, c>> \in entitled
AnswersEntitled ==
    \A v \in Workers :
        Doing(v, "answer") \/ Doing(v, "join") => <<op[v].part, op[v].group, op[v].who>> \in entitled
InvitedInv == NobodyUninvited /\ InvitesEntitled /\ AnswersEntitled

LEMMA AdvanceEntitles ==
    ASSUME NEW w, Advance(w)
    PROVE  /\ invites' = invites /\ entitled \subseteq entitled'
           /\ op[w].pc = "create" => <<op[w].part, nextGroup, op[w].who>> \in entitled'
BY DEF Advance, PartyCreate, GuildCreate, Founded, AddMember, PartyRemoveMember, GuildCountLeft,
       GuildRemoveMember, Break, At, groupVars

LEMMA InvitedStep == TypeInv /\ InvitedInv /\ [SocietyNext]_societyVars => InvitedInv'
<1> SUFFICES ASSUME TypeInv, InvitedInv, [SocietyNext]_societyVars PROVE InvitedInv'
  OBVIOUS
<1>a. op = [v \in Workers |-> op[v]]
  BY DEF TypeInv, OpTypes
\* A step that leaves the tables alone.
<1>b. ASSUME belongs' = belongs, entitled \subseteq entitled' PROVE NobodyUninvited'
  BY <1>b DEF InvitedInv, NobodyUninvited
<1>c. ASSUME \A k \in Kinds, c \in Chars : invites'[k][c] \in {invites[k][c], NoInvite}, entitled \subseteq entitled'
      PROVE  InvitesEntitled'
  BY <1>c DEF InvitedInv, InvitesEntitled
<1>d. ASSUME NEW v \in Workers, op'[v] = op[v], Doing(v, "answer")' \/ Doing(v, "join")', entitled \subseteq entitled'
      PROVE  <<op'[v].part, op'[v].group, op'[v].who>> \in entitled'
  BY <1>d DEF InvitedInv, AnswersEntitled, Doing
<1>1. ASSUME Beside, UNCHANGED <<belongs, groups, nextGroup, entitled, raced>>,
             \A k \in Kinds, c \in Chars : invites'[k][c] \in {invites[k][c], NoInvite}
      PROVE  InvitedInv'
  <2>1. AnswersEntitled'
    BY <1>1, <1>d DEF AnswersEntitled, Beside, Doing, GroupPcs
  <2> QED BY <1>1, <1>b, <1>c, <2>1 DEF InvitedInv
<1>2. ASSUME NEW w \in Workers, NEW o \in GroupOps, Frames(w, o) PROVE InvitedInv'
  <2>1. UNCHANGED <<belongs, invites, entitled>>
    BY <1>2 DEF Frames, groupVars
  <2>2. op'[w] = o /\ \A v \in Workers \ {w} : op'[v] = op[v]
    BY <1>a, <1>2 DEF Frames
  <2>3. o.pc # "join" /\ (o.pc = "answer" => <<o.part, o.group, o.who>> \in entitled)
    BY <1>2 DEF Frames, Begins, InvitedInv, InvitesEntitled, GroupOps
  <2>4. AnswersEntitled'
    BY <1>d, <2>1, <2>2, <2>3 DEF AnswersEntitled, Doing
  <2>5. NobodyUninvited' /\ InvitesEntitled'
    BY <1>b, <1>c, <2>1
  <2> QED BY <2>4, <2>5 DEF InvitedInv
<1>3. ASSUME NEW w \in Workers, op[w] # Idle, SetInvite(w) PROVE InvitedInv'
  <2>1. GroupJob(op[w], nextGroup) /\ op[w].part \in Kinds /\ op[w].who \in Chars
    BY <1>3, JobAt DEF SetInvite, At, GroupPcs
  <2>2. belongs' = belongs /\ entitled \subseteq entitled' /\ <<op[w].part, op[w].group, op[w].who>> \in entitled'
    BY <1>3 DEF SetInvite
  <2>3. op'[w] = Idle /\ \A v \in Workers \ {w} : op'[v] = op[v]
    BY <1>a, <1>3 DEF SetInvite, Return
  <2>4. AnswersEntitled'
    BY <1>d, <2>2, <2>3 DEF AnswersEntitled, Doing
  <2>5. PICK i : i = [group |-> op[w].group, by |-> op[w].char, late |-> op[w].flag]
    OBVIOUS
  <2>6. i.group = op[w].group
    BY <2>5
  <2>7. invites' = [invites EXCEPT ![op[w].part][op[w].who] = i]
    BY <1>3, <2>5 DEF SetInvite
  <2>8. \A k \in Kinds, c \in Chars : invites'[k][c] = IF k = op[w].part /\ c = op[w].who THEN i ELSE invites[k][c]
    BY <2>1, <2>7 DEF TypeInv, InviteTypes
  <2>9. InvitesEntitled'
    BY <2>2, <2>6, <2>8 DEF InvitesEntitled, InvitedInv
  <2> QED BY <1>b, <2>2, <2>4, <2>9 DEF InvitedInv
<1>4. ASSUME NEW w \in Workers, op[w] # Idle, TakeInvite(w) PROVE InvitedInv'
  <2>1. GroupJob(op[w], nextGroup) /\ op[w].part \in Kinds /\ op[w].who \in Chars /\ Doing(w, "answer")
    BY <1>4, JobAt DEF TakeInvite, At, GroupPcs, Doing
  <2>2. belongs' = belongs /\ entitled' = entitled
    BY <1>4 DEF TakeInvite
  <2>3. PICK o : o = GroupOp(op[w].part, "join", op[w].who, op[w].who, op[w].group, FALSE)
    OBVIOUS
  <2>4. o.part = op[w].part /\ o.group = op[w].group /\ o.who = op[w].who
    BY <2>3 DEF GroupOp
  <2>5. op' = [op EXCEPT ![w] = o] \/ op' = [op EXCEPT ![w] = Idle]
    BY <1>4, <2>3 DEF TakeInvite, Start, Return
  <2>6. op'[w] \in {o, Idle} /\ \A v \in Workers \ {w} : op'[v] = op[v]
    BY <1>a, <2>5
  <2>7. AnswersEntitled'
    BY <1>d, <2>1, <2>2, <2>4, <2>6 DEF AnswersEntitled, InvitedInv, Doing
  <2>8. \A k \in Kinds, c \in Chars : invites'[k][c] \in {invites[k][c], NoInvite}
    BY <1>4, <2>1 DEF TakeInvite, TypeInv, InviteTypes
  <2> QED BY <1>b, <1>c, <2>2, <2>7, <2>8 DEF InvitedInv
<1>5. ASSUME NEW w \in Workers, op[w] # Idle, SetOptions(w) PROVE InvitedInv'
  <2>1. op'[w] = Idle /\ (\A v \in Workers \ {w} : op'[v] = op[v]) /\ UNCHANGED <<belongs, invites, entitled>>
    BY <1>a, <1>5 DEF SetOptions, Return
  <2>2. AnswersEntitled'
    BY <1>d, <2>1 DEF AnswersEntitled, Doing
  <2>3. NobodyUninvited' /\ InvitesEntitled'
    BY <1>b, <1>c, <2>1
  <2> QED BY <2>2, <2>3 DEF InvitedInv
<1>6. ASSUME NEW w \in Workers, op[w] # Idle, Advance(w) PROVE InvitedInv'
  <2>1. /\ GroupJob(op[w], nextGroup) /\ op[w].part \in Kinds /\ op[w].who \in Chars
        /\ invites' = invites /\ entitled \subseteq entitled'
    BY <1>6, AdvanceCases, AdvanceEntitles
  <2>2. InvitesEntitled'
    BY <1>c, <2>1
  <2>3. CASE GuildCountLeft(w)
    <3>1. UNCHANGED groupVars /\ Doing(w, "left")' /\ \A v \in Workers \ {w} : op'[v] = op[v]
      BY <1>6, <2>3, Counted
    <3>2. AnswersEntitled'
      BY <1>d, <2>1, <3>1 DEF AnswersEntitled, Doing
    <3> QED BY <1>b, <2>1, <2>2, <3>1, <3>2 DEF InvitedInv, groupVars
  <2>4. ASSUME Commit(w), Return(w) PROVE AnswersEntitled'
    BY <1>d, <2>1, <2>4, Commits DEF AnswersEntitled, Doing
  <2>5. CASE Commit(w) /\ Return(w) /\ FoundedBy(w)
    <3>1. NobodyUninvited'
      BY <1>6, <2>1, <2>5, AdvanceEntitles DEF NobodyUninvited, InvitedInv, FoundedBy
    <3> QED BY <2>2, <2>4, <2>5, <3>1 DEF InvitedInv
  <2>6. CASE Commit(w) /\ Return(w) /\ JoinedBy(w)
    <3>1. <<op[w].part, op[w].group, op[w].who>> \in entitled'
      BY <1>6, <2>1, <2>6 DEF JoinedBy, Doing, InvitedInv, AnswersEntitled
    <3>2. NobodyUninvited'
      BY <2>1, <2>6, <3>1 DEF NobodyUninvited, InvitedInv, JoinedBy
    <3> QED BY <2>2, <2>4, <2>6, <3>2 DEF InvitedInv
  <2>7. ASSUME Commit(w), Return(w), NEW cs \in SUBSET Chars, NEW del \in BOOLEAN, GoneBy(w, cs, del) PROVE InvitedInv'
    <3>1. NobodyUninvited'
      BY <2>1, <2>7 DEF NobodyUninvited, InvitedInv, GoneBy
    <3> QED BY <2>2, <2>4, <2>7, <3>1 DEF InvitedInv
  <2> QED BY <1>6, <2>3, <2>5, <2>6, <2>7, AdvanceCases
<1> QED BY <1>1, <1>2, <1>3, <1>4, <1>5, <1>6, GroupCases

-----------------------------------------------------------------------------
\* What a step does to the operations of Contacts.

\* What runs beside the contacts: their operations stay, but for the mark of a close.
Apart ==
    /\ UNCHANGED <<friends, ignores, ignoreAll, crossed>>
    /\ \A v \in Workers :
          \/ op'[v] = op[v]
          \/ op'[v] # Idle => op'[v].pc \notin ContactPcs
          \/ op[v] # Idle /\ op[v].pc = "ask" /\ op'[v].pc = "ask" /\ op'[v].flag

LEMMA GroupsApart ==
    ASSUME TypeInv, GroupNext
    PROVE  Apart /\ live' = live /\ requests' = requests
<1>1. PICK w \in Workers : /\ (\E c \in Chars : GroupFrame(w, c)) \/ (op[w] # Idle /\ GroupStep(w))
                           /\ UNCHANGED contactVars
  BY DEF GroupNext
<1>a. op = [v \in Workers |-> op[v]]
  BY DEF TypeInv, OpTypes
<1>b. ASSUME NEW o, op' = [op EXCEPT ![w] = o], o # Idle => o.pc \notin ContactPcs PROVE Apart
  BY <1>a, <1>b, <1>1 DEF Apart, contactVars
<1>2. ASSUME NEW c \in Chars, GroupFrame(w, c) PROVE Apart /\ live' = live
  <2>1. PICK o \in GroupOps : Frames(w, o)
    BY <1>2, GroupFrames
  <2>2. o.pc \notin ContactPcs
    BY DEF GroupOps, GroupPcs, ContactPcs
  <2> QED BY <1>b, <2>1, <2>2 DEF Frames
<1>3. ASSUME op[w] # Idle, GroupStep(w) PROVE Apart /\ live' = live
  <2>1. CASE Return(w)
    <3>1. Apart
      BY <1>b, <2>1 DEF Return
    <3> QED BY <1>3, <3>1 DEF GroupStep, PartyCreate, GuildCreate, Founded, SetInvite, TakeInvite, AddMember,
               PartyRemoveMember, GuildCountLeft, GuildRemoveMember, Break, SetOptions
  <2>2. CASE TakeInvite(w)
    <3>1. PICK o : o = GroupOp(op[w].part, "join", op[w].who, op[w].who, op[w].group, FALSE)
      OBVIOUS
    <3>2. o.pc \notin ContactPcs
      BY <3>1 DEF GroupOp, ContactPcs
    <3>3. op' = [op EXCEPT ![w] = o] \/ Return(w)
      BY <2>2, <3>1 DEF TakeInvite, Start
    <3> QED BY <1>b, <2>1, <2>2, <3>2, <3>3 DEF TakeInvite
  <2>3. CASE GuildCountLeft(w)
    <3>1. Doing(w, "left")' /\ \A v \in Workers \ {w} : op'[v] = op[v]
      BY <1>3, <2>3, Counted
    <3> QED BY <1>1, <2>3, <3>1 DEF Apart, Doing, ContactPcs, contactVars, GuildCountLeft
  <2> QED BY <1>3, <2>1, <2>2, <2>3 DEF GroupStep, PartyCreate, GuildCreate, Founded, SetInvite, AddMember,
             PartyRemoveMember, GuildRemoveMember, Break, SetOptions
<1> QED BY <1>1, <1>2, <1>3 DEF contactVars

LEMMA ContactCases ==
    ASSUME TypeInv, [SocietyNext]_societyVars
    PROVE  Apart \/ \E w \in Workers : (\E c \in Chars : ContactFrame(w, c)) \/ (op[w] # Idle /\ ContactStep(w))
<1>1. CASE GroupNext
  BY <1>1, GroupsApart
<1>2. CASE ContactNext
  BY <1>2 DEF ContactNext
<1>3. CASE Elsewhere
  BY <1>3 DEF Elsewhere, Other, Apart, contactVars, ContactPcs
<1>4. ASSUME NEW c \in Chars, unregisterConn(c) PROVE Apart
  BY <1>4, OvertakenOps DEF unregisterConn, Apart, ContactPcs
<1>5. CASE UNCHANGED <<op, contactVars>>
  BY <1>5 DEF Apart, contactVars
<1>6. ASSUME NEW c \in Chars, registerConn(c) PROVE UNCHANGED <<op, contactVars>>
  BY <1>6 DEF registerConn
<1>7. CASE UNCHANGED societyVars
  BY <1>5, <1>7 DEF societyVars
<1> QED BY <1>1, <1>2, <1>3, <1>4, <1>5, <1>6, <1>7 DEF SocietyNext

\* A step that starts one operation or ends it.
LEMMA OneMoves ==
    ASSUME TypeInv, NEW w \in Workers, NEW o, Start(w, o)
    PROVE  op'[w] = o /\ \A v \in Workers \ {w} : op'[v] = op[v]
BY DEF TypeInv, OpTypes, Start
LEMMA OneReturns ==
    ASSUME TypeInv, NEW w \in Workers, Return(w)
    PROVE  op'[w] = Idle /\ \A v \in Workers \ {w} : op'[v] = op[v]
BY DEF TypeInv, OpTypes, Return

\* A change of c's filter and what it does to the whispers under way.
LEMMA AdmitsOps ==
    ASSUME TypeInv, NEW c, NEW names, NEW all, Admits(c, names, all), NEW v \in Workers
    PROVE  \/ op'[v] = op[v] /\ ~(op[v] # Idle /\ op[v].part = "chat" /\ op[v].who = c /\ ~all /\ op[v].char \notin names)
           \/ /\ op[v] # Idle /\ op'[v] # Idle /\ op[v] \in ContactOps /\ op'[v] \in ContactOps
              /\ op[v].pc \in {"gate", "deliver"} /\ op'[v].pc = op[v].pc /\ ~op'[v].flag
<1>1. CASE op[v] # Idle /\ op[v].part = "chat" /\ op[v].who = c /\ ~all /\ op[v].char \notin names
  <2>1. op'[v] = [op[v] EXCEPT !.flag = FALSE]
    BY <1>1 DEF Admits
  <2>2. op[v] \in ContactOps
    BY <1>1 DEF TypeInv, OpTypes, JobOK, GroupJob, GroupOps, Kinds, Foreign
  <2>3. op[v].pc \in {"gate", "deliver"} /\ op'[v].pc = op[v].pc /\ ~op'[v].flag /\ op'[v] \in ContactOps
    BY <1>1, <2>1, <2>2 DEF ContactOps
  <2> QED BY <1>1, <2>2, <2>3 DEF Idle
<1>2. CASE ~(op[v] # Idle /\ op[v].part = "chat" /\ op[v].who = c /\ ~all /\ op[v].char \notin names)
  BY <1>2 DEF Admits
<1> QED BY <1>1, <1>2

-----------------------------------------------------------------------------
\* WhisperFiltered.  What is said to have been denied all along is denied now.

GatesDeny == \A v \in Workers : Doing(v, "gate") /\ op[v].flag => Denied(op[v].who, op[v].char)
FilterInv == WhisperFiltered /\ GatesDeny

LEMMA FilterStep == TypeInv /\ FilterInv /\ [SocietyNext]_societyVars => FilterInv'
<1> SUFFICES ASSUME TypeInv, FilterInv, [SocietyNext]_societyVars PROVE FilterInv'
  OBVIOUS
<1> DEFINE Fine(v) == /\ Doing(v, "deliver")' => ~op'[v].flag
                      /\ Doing(v, "gate")' /\ op'[v].flag => Denied(op[v].who, op[v].char)'
<1>a. ASSUME \A v \in Workers : Fine(v) PROVE FilterInv'
  BY <1>a DEF FilterInv, WhisperFiltered, GatesDeny, Doing, At
<1>b. ASSUME NEW v \in Workers, op'[v] = op[v], UNCHANGED <<ignores, ignoreAll>> PROVE Fine(v)
  BY <1>b DEF FilterInv, WhisperFiltered, GatesDeny, Doing, At, Denied
<1>c. ASSUME NEW v \in Workers, op'[v] # Idle => op'[v].pc \notin {"gate", "deliver"} PROVE Fine(v)
  BY <1>c DEF Doing
<1> HIDE DEF Fine
\* One operation starts or ends.
<1>d. ASSUME NEW w \in Workers, NEW o, Start(w, o), o # Idle => o.pc \notin {"gate", "deliver"}, UNCHANGED <<ignores, ignoreAll>>
      PROVE  FilterInv'
  BY <1>a, <1>b, <1>c, <1>d, OneMoves
<1>e. ASSUME NEW w \in Workers, Return(w), UNCHANGED <<ignores, ignoreAll>> PROVE FilterInv'
  BY <1>a, <1>b, <1>c, <1>e, OneReturns
<1>1. CASE Apart
  <2> SUFFICES ASSUME NEW v \in Workers PROVE Fine(v)
    BY <1>a
  <2>1. op'[v] = op[v] \/ (op'[v] # Idle => op'[v].pc \notin {"gate", "deliver"})
    BY <1>1 DEF Apart, ContactPcs
  <2> QED BY <1>1, <1>b, <1>c, <2>1 DEF Apart
<1>2. ASSUME NEW w \in Workers, NEW c \in Chars, ContactFrame(w, c) PROVE FilterInv'
  <2>1. ASSUME NEW t \in Chars, handleFriendsAdd(w, c, t) PROVE FilterInv'
    <3>1. ContactOp("friend", "ask", c, t, FALSE).pc = "ask"
      BY DEF ContactOp
    <3> QED BY <1>d, <2>1, <3>1 DEF handleFriendsAdd, contactVars
  <2>2. ASSUME NEW t \in Chars, handleFriendsRemove(w, c, t) PROVE FilterInv'
    <3>1. ContactOp("friend", "unfriend", c, t, FALSE).pc = "unfriend"
      BY DEF ContactOp
    <3> QED BY <1>d, <2>2, <3>1 DEF handleFriendsRemove, contactVars
  <2>3. ASSUME NEW t \in Chars, NEW accept \in BOOLEAN, handleFriendsReply(w, c, t, accept) PROVE FilterInv'
    <3>1. ContactOp("friend", "befriend", t, c, FALSE).pc = "befriend"
      BY DEF ContactOp
    <3>2. UNCHANGED <<ignores, ignoreAll>>
      BY <2>3 DEF handleFriendsReply
    <3>3. CASE UNCHANGED op
      BY <1>a, <1>b, <3>2, <3>3
    <3> QED BY <1>d, <2>3, <3>1, <3>2, <3>3 DEF handleFriendsReply
  <2>4. ASSUME NEW t \in Chars, handleWhisper(w, c, t) PROVE FilterInv'
    <3>1. PICK o : o = ContactOp("chat", "gate", c, t, ignoreAll[t] \/ c \in ignores[t])
      OBVIOUS
    <3>2. o.pc = "gate" /\ o.who = t /\ o.char = c /\ (o.flag <=> ignoreAll[t] \/ c \in ignores[t])
      BY <3>1 DEF ContactOp
    <3>3. op'[w] = o /\ (\A v \in Workers \ {w} : op'[v] = op[v]) /\ UNCHANGED <<ignores, ignoreAll>>
      BY <2>4, <3>1, OneMoves DEF handleWhisper, contactVars
    <3>4. Fine(w)
      BY <3>2, <3>3 DEF Fine, Doing, Denied
    <3> QED BY <1>a, <1>b, <3>3, <3>4
  <2>5. ASSUME NEW names, NEW all, Admits(c, names, all), ignores'[c] = names, ignoreAll'[c] = all,
               \A t \in Chars \ {c} : ignores'[t] = ignores[t] /\ ignoreAll'[t] = ignoreAll[t]
        PROVE  FilterInv'
    <3> SUFFICES ASSUME NEW v \in Workers PROVE Fine(v)
      BY <1>a
    <3>1. CASE op'[v] # op[v]
      <4>1. ~op'[v].flag
        BY <2>5, <3>1, AdmitsOps
      <4> QED BY <4>1 DEF Fine
    <3>2. CASE op'[v] = op[v]
      <4>1. Doing(v, "deliver")' => ~op'[v].flag
        BY <3>2 DEF FilterInv, WhisperFiltered, Doing, At
      <4>2. ASSUME Doing(v, "gate")', op'[v].flag PROVE Denied(op[v].who, op[v].char)'
        <5>1. Doing(v, "gate") /\ op[v].flag /\ Denied(op[v].who, op[v].char)
          BY <3>2, <4>2 DEF FilterInv, GatesDeny, Doing
        <5>2. op[v] \in ContactOps /\ op[v].who \in Chars /\ op[v].part = "chat"
          BY <5>1, JobAt DEF Doing, ContactOps, ContactPcs
        <5>3. CASE op[v].who = c
          <6>1. all \/ op[v].char \in names
            <7>1. \/ /\ op'[v] = op[v]
                     /\ ~(op[v] # Idle /\ op[v].part = "chat" /\ op[v].who = c /\ ~all /\ op[v].char \notin names)
                  \/ ~op'[v].flag
              BY <2>5, AdmitsOps
            <7> QED BY <4>2, <5>1, <5>2, <5>3, <7>1 DEF Doing
          <6> QED BY <2>5, <3>2, <5>3, <6>1 DEF Denied
        <5>4. CASE op[v].who # c
          BY <2>5, <3>2, <5>1, <5>2, <5>4 DEF Denied
        <5> QED BY <5>3, <5>4
      <4> QED BY <4>1, <4>2 DEF Fine
    <3> QED BY <3>1, <3>2
  <2>6. ASSUME NEW t \in Chars, NEW block \in BOOLEAN, handlePMIgnore(w, c, t, block) PROVE FilterInv'
    <3>1. PICK names : /\ Admits(c, names, ignoreAll[c])
                       /\ ignores' = [ignores EXCEPT ![c] = names] /\ ignoreAll' = ignoreAll
      BY <2>6 DEF handlePMIgnore
    <3>2. ignores'[c] = names /\ \A x \in Chars \ {c} : ignores'[x] = ignores[x]
      BY <3>1 DEF TypeInv, ContactTypes
    <3> QED BY <2>5, <3>1, <3>2
  <2>7. ASSUME NEW deny \in BOOLEAN, handleSettingWhisperState(w, c, deny) PROVE FilterInv'
    <3>1. /\ Admits(c, ignores'[c], deny)
          /\ ignoreAll' = [ignoreAll EXCEPT ![c] = deny]
          /\ ignores' = ignores \/ ignores' = [ignores EXCEPT ![c] = {}]
      BY <2>7 DEF handleSettingWhisperState
    <3>2. ignoreAll'[c] = deny /\ \A x \in Chars \ {c} : ignores'[x] = ignores[x] /\ ignoreAll'[x] = ignoreAll[x]
      BY <3>1 DEF TypeInv, ContactTypes
    <3>3. PICK names : names = ignores'[c]
      OBVIOUS
    <3> QED BY <2>5, <3>1, <3>2, <3>3
  <2> QED BY <1>2, <2>1, <2>2, <2>3, <2>4, <2>6, <2>7 DEF ContactFrame
<1>3. ASSUME NEW w \in Workers, op[w] # Idle, ContactStep(w) PROVE FilterInv'
  <2>1. CASE Return(w)
    <3>1. UNCHANGED <<ignores, ignoreAll>>
      BY <1>3 DEF ContactStep, setFriendReq, Add, Remove, Gate, Deliver, contactVars
    <3> QED BY <1>e, <2>1, <3>1
  <2>2. CASE Gate(w) /\ ~Return(w)
    <3>1. op[w] \in ContactOps /\ Doing(w, "gate")
      BY <1>3, <2>2, JobAt DEF Gate, At, ContactPcs, Doing
    <3>2. ~Denied(op[w].who, op[w].char) /\ UNCHANGED <<ignores, ignoreAll>>
      BY <2>2 DEF Gate, contactVars
    <3>3. PICK o : o = [op[w] EXCEPT !.pc = "deliver"]
      OBVIOUS
    <3>4. Start(w, o)
      BY <2>2, <3>3 DEF Gate, Goto, Start
    <3>5. o.pc = "deliver" /\ o.flag = op[w].flag
      BY <3>1, <3>3 DEF ContactOps
    <3>6. ~op[w].flag
      BY <3>1, <3>2 DEF FilterInv, GatesDeny
    <3>7. op'[w] = o /\ \A v \in Workers \ {w} : op'[v] = op[v]
      BY <3>4, OneMoves
    <3>8. Fine(w)
      BY <3>5, <3>6, <3>7 DEF Fine, Doing
    <3> QED BY <1>a, <1>b, <3>2, <3>7, <3>8
  <2> QED BY <1>3, <2>1, <2>2 DEF ContactStep, setFriendReq, Add, Remove, Deliver
<1> QED BY <1>1, <1>2, <1>3, ContactCases

-----------------------------------------------------------------------------
\* Friend lists.

LEMMA FriendsMoves ==
    ASSUME TypeInv, [SocietyNext]_societyVars
    PROVE  UNCHANGED friends \/ \E w \in Workers : op[w] # Idle /\ (Add(w) \/ Remove(w))
<1>1. ASSUME NEW w, NEW c, ContactFrame(w, c) PROVE UNCHANGED friends
  BY <1>1 DEF ContactFrame, handleFriendsAdd, handleFriendsRemove, handleFriendsReply, handleWhisper,
              handlePMIgnore, handleSettingWhisperState, contactVars
<1>2. ASSUME NEW w, ContactStep(w) PROVE UNCHANGED friends \/ Add(w) \/ Remove(w)
  BY <1>2 DEF ContactStep, setFriendReq, Gate, Deliver, contactVars
<1> QED BY <1>1, <1>2, ContactCases DEF Apart

LEMMA MutualStep == TypeInv /\ FriendsMutual /\ [SocietyNext]_societyVars => FriendsMutual'
<1> SUFFICES ASSUME TypeInv, FriendsMutual, [SocietyNext]_societyVars PROVE FriendsMutual'
  OBVIOUS
<1>1. ASSUME NEW w \in Workers, Add(w) \/ Remove(w) PROVE FriendsMutual'
  <2>1. PICK a, b : a = op[w].char /\ b = op[w].who
    OBVIOUS
  <2>2. friends' \in {friends, friends \cup {<<a, b>>, <<b, a>>}, friends \ {<<a, b>>, <<b, a>>}}
    BY <1>1, <2>1 DEF Add, Remove, Pair
  <2>3. \A p \in friends : p = <<p[1], p[2]>>
    BY DEF TypeInv, ContactTypes
  <2>4. CASE friends' = friends
    BY <2>4 DEF FriendsMutual
  <2>5. CASE friends' = friends \cup {<<a, b>>, <<b, a>>}
    <3> SUFFICES ASSUME NEW p \in friends' PROVE <<p[2], p[1]>> \in friends'
      BY DEF FriendsMutual
    <3>1. CASE p \in friends
      BY <2>5, <3>1 DEF FriendsMutual
    <3>2. CASE p = <<a, b>>
      BY <2>5, <3>2
    <3>3. CASE p = <<b, a>>
      BY <2>5, <3>3
    <3> QED BY <2>5, <3>1, <3>2, <3>3
  <2>6. CASE friends' = friends \ {<<a, b>>, <<b, a>>}
    <3> SUFFICES ASSUME NEW p \in friends' PROVE <<p[2], p[1]>> \in friends'
      BY DEF FriendsMutual
    <3>1. PICK x, y : p = <<x, y>>
      BY <2>3, <2>6
    <3>2. <<y, x>> \in friends /\ <<x, y>> \notin {<<a, b>>, <<b, a>>}
      BY <2>6, <3>1 DEF FriendsMutual
    <3>3. <<y, x>> \notin {<<a, b>>, <<b, a>>}
      BY <3>2
    <3> QED BY <2>6, <3>1, <3>2, <3>3
  <2> QED BY <2>2, <2>4, <2>5, <2>6
<1> QED BY <1>1, FriendsMoves DEF FriendsMutual

\* An acceptance past its check relies on the two places it has counted.
ListsFit == \A c \in Chars : Cardinality(List(c)) <= MaxFriends
AddsFit == \A v \in Workers : Doing(v, "befriend") => ~Full(op[v].char) /\ ~Full(op[v].who)
FriendsInv == ~crossed => ListsFit /\ AddsFit

LEMMA ListsFinite ==
    ASSUME NEW c PROVE List(c) \in SUBSET Chars /\ IsFiniteSet(List(c)) /\ Cardinality(List(c)) \in Nat
<1>1. List(c) \in SUBSET Chars
  BY DEF List
<1> QED BY <1>1, ConnectionsAssumption, FS_Subset, FS_CardinalityType

LEMMA FriendsStep == TypeInv /\ FriendsInv /\ [SocietyNext]_societyVars => FriendsInv'
<1> SUFFICES ASSUME TypeInv, FriendsInv, [SocietyNext]_societyVars, ~crossed' PROVE ListsFit' /\ AddsFit'
  BY DEF FriendsInv
<1>a. MaxFriends \in Nat
  BY ContactsAssumption
<1>b. ASSUME UNCHANGED <<friends, crossed>>, \A v \in Workers : Doing(v, "befriend")' =>
                 (op'[v] = op[v] \/ (~Full(op'[v].char) /\ ~Full(op'[v].who)))
      PROVE  ListsFit' /\ AddsFit'
  <2>1. ListsFit /\ AddsFit
    BY <1>b DEF FriendsInv
  <2>2. \A c : List(c)' = List(c)
    BY <1>b DEF List
  <2>3. ListsFit'
    BY <2>1, <2>2 DEF ListsFit
  <2>4. AddsFit'
    BY <1>b, <2>1, <2>2 DEF AddsFit, Doing, Full
  <2> QED BY <2>3, <2>4
\* One operation starts or ends.
<1>c. ASSUME NEW w \in Workers, NEW o, Start(w, o), UNCHANGED <<friends, crossed>>,
             o # Idle => (o.pc # "befriend" \/ (~Full(o.char) /\ ~Full(o.who)))
      PROVE  ListsFit' /\ AddsFit'
  BY <1>b, <1>c, OneMoves DEF Doing
<1>d. ASSUME NEW w \in Workers, Return(w), UNCHANGED <<friends, crossed>> PROVE ListsFit' /\ AddsFit'
  BY <1>b, <1>d, OneReturns DEF Doing
<1>e. ASSUME NEW c, NEW names, NEW all, Admits(c, names, all), UNCHANGED <<friends, crossed>> PROVE ListsFit' /\ AddsFit'
  BY <1>b, <1>e, AdmitsOps DEF Doing
<1>1. CASE Apart
  <2>1. \A v \in Workers : Doing(v, "befriend")' => op'[v] = op[v]
    BY <1>1 DEF Apart, Doing, ContactPcs
  <2> QED BY <1>1, <1>b, <2>1 DEF Apart
<1>2. ASSUME NEW w \in Workers, NEW c \in Chars, ContactFrame(w, c) PROVE ListsFit' /\ AddsFit'
  <2>1. ASSUME NEW t \in Chars, handleFriendsAdd(w, c, t) PROVE ListsFit' /\ AddsFit'
    <3>1. ContactOp("friend", "ask", c, t, FALSE).pc = "ask"
      BY DEF ContactOp
    <3> QED BY <1>c, <2>1, <3>1 DEF handleFriendsAdd, contactVars
  <2>2. ASSUME NEW t \in Chars, handleFriendsRemove(w, c, t) PROVE ListsFit' /\ AddsFit'
    <3>1. ContactOp("friend", "unfriend", c, t, FALSE).pc = "unfriend"
      BY DEF ContactOp
    <3> QED BY <1>c, <2>2, <3>1 DEF handleFriendsRemove, contactVars
  <2>3. ASSUME NEW t \in Chars, NEW accept \in BOOLEAN, handleFriendsReply(w, c, t, accept) PROVE ListsFit' /\ AddsFit'
    <3>1. UNCHANGED <<friends, crossed>>
      BY <2>3 DEF handleFriendsReply
    <3>2. CASE UNCHANGED op
      BY <1>b, <3>1, <3>2
    <3>3. CASE ~UNCHANGED op
      <4>1. PICK o : o = ContactOp("friend", "befriend", t, c, FALSE)
        OBVIOUS
      <4>2. Start(w, o) /\ MayBefriend(t, c)
        BY <2>3, <3>3, <4>1 DEF handleFriendsReply
      <4>3. ~Full(o.char) /\ ~Full(o.who)
        BY <4>1, <4>2 DEF ContactOp, MayBefriend
      <4> QED BY <1>c, <3>1, <4>2, <4>3
    <3> QED BY <3>2, <3>3
  <2>4. ASSUME NEW t \in Chars, handleWhisper(w, c, t) PROVE ListsFit' /\ AddsFit'
    <3>1. PICK o : o = ContactOp("chat", "gate", c, t, ignoreAll[t] \/ c \in ignores[t])
      OBVIOUS
    <3>2. o.pc = "gate"
      BY <3>1 DEF ContactOp
    <3> QED BY <1>c, <2>4, <3>1, <3>2 DEF handleWhisper, contactVars
  <2>5. ASSUME NEW t \in Chars, NEW block \in BOOLEAN, handlePMIgnore(w, c, t, block) PROVE ListsFit' /\ AddsFit'
    BY <1>e, <2>5 DEF handlePMIgnore
  <2>6. ASSUME NEW deny \in BOOLEAN, handleSettingWhisperState(w, c, deny) PROVE ListsFit' /\ AddsFit'
    BY <1>e, <2>6 DEF handleSettingWhisperState
  <2> QED BY <1>2, <2>1, <2>2, <2>3, <2>4, <2>5, <2>6 DEF ContactFrame
<1>3. ASSUME NEW w \in Workers, op[w] # Idle, Add(w) PROVE ListsFit' /\ AddsFit'
  <2>1. PICK a, b : a = op[w].char /\ b = op[w].who
    OBVIOUS
  <2>2. a \in Chars /\ b \in Chars /\ Doing(w, "befriend")
    BY <1>3, <2>1, JobAt DEF Add, At, ContactPcs, Doing
  <2>3. friends' \subseteq friends \cup {<<a, b>>, <<b, a>>}
    BY <1>3, <2>1 DEF Add, Pair
  <2>4. ~crossed
    BY <1>3 DEF Add
  <2>5. ListsFit /\ AddsFit
    BY <2>4 DEF FriendsInv
  <2>6. ~Full(a) /\ ~Full(b)
    BY <2>1, <2>2, <2>5 DEF AddsFit
  <2>7. op'[w] = Idle /\ \A v \in Workers \ {w} : op'[v] = op[v]
    BY <1>3, OneReturns DEF Add
  <2>8. \A c : c \notin {a, b} => List(c)' \subseteq List(c)
    BY <2>3 DEF List
  <2>9. ASSUME NEW c, NEW x \in Chars, ~Full(c), List(c)' \subseteq List(c) \cup {x} PROVE Cardinality(List(c)') <= MaxFriends
    <3>1. PICK S : S = List(c)
      OBVIOUS
    <3>2. S \in SUBSET Chars /\ IsFiniteSet(S) /\ Cardinality(S) \in Nat /\ Cardinality(S) < MaxFriends
      BY <1>a, <2>9, <3>1, ListsFinite DEF Full
    <3>3. Cardinality(S \cup {x}) \in Nat /\ Cardinality(S \cup {x}) <= MaxFriends /\ S \cup {x} \in SUBSET Chars
      <4>1. Cardinality(S \cup {x}) = IF x \in S THEN Cardinality(S) ELSE Cardinality(S) + 1
        BY <3>2, FS_AddElement
      <4>2. S \cup {x} \in SUBSET Chars
        BY <3>2
      <4> QED BY <1>a, <3>2, <4>1, <4>2
    <3>4. Cardinality(List(c)') \in Nat /\ Cardinality(List(c)') <= Cardinality(S \cup {x})
      BY <2>9, <3>1, <3>3, Shrinks
    <3> QED BY <1>a, <3>3, <3>4
  <2>10. ASSUME NEW c, List(c)' \subseteq List(c)
         PROVE  /\ Cardinality(List(c)) <= MaxFriends => Cardinality(List(c)') <= MaxFriends
                /\ ~Full(c) => ~Full(c)'
    <3>1. Cardinality(List(c)) \in Nat /\ Cardinality(List(c)') \in Nat /\ Cardinality(List(c)') <= Cardinality(List(c))
      BY <2>10, ListsFinite, Shrinks
    <3> QED BY <1>a, <3>1 DEF Full
  <2>11. ListsFit'
    <3> SUFFICES ASSUME NEW c \in Chars PROVE Cardinality(List(c)') <= MaxFriends
      BY DEF ListsFit
    <3>1. CASE c = a
      <4>1. List(c)' \subseteq List(c) \cup {b}
        BY <2>3, <3>1 DEF List
      <4> QED BY <2>2, <2>6, <2>9, <3>1, <4>1
    <3>2. CASE c = b
      <4>1. List(c)' \subseteq List(c) \cup {a}
        BY <2>3, <3>2 DEF List
      <4> QED BY <2>2, <2>6, <2>9, <3>2, <4>1
    <3>3. CASE c \notin {a, b}
      BY <2>5, <2>8, <2>10, <3>3 DEF ListsFit
    <3> QED BY <3>1, <3>2, <3>3
  <2>12. AddsFit'
    <3> SUFFICES ASSUME NEW v \in Workers, Doing(v, "befriend")' PROVE ~Full(op[v].char)' /\ ~Full(op[v].who)'
      BY DEF AddsFit
    <3>1. v # w /\ op'[v] = op[v] /\ Doing(v, "befriend")
      BY <2>7 DEF Doing
    <3>2. {op[v].char, op[v].who} \cap {a, b} = {}
      BY <1>3, <2>1, <3>1 DEF Add, Doing
    <3>3. PICK x, y : x = op[v].char /\ y = op[v].who
      OBVIOUS
    <3>4. ~Full(x)' /\ ~Full(y)'
      BY <2>5, <2>8, <2>10, <3>1, <3>2, <3>3 DEF AddsFit
    <3> QED BY <3>1, <3>3, <3>4 DEF Full, List
  <2> QED BY <2>11, <2>12
<1>4. ASSUME NEW w \in Workers, op[w] # Idle, Remove(w) PROVE ListsFit' /\ AddsFit'
  <2>1. friends' \subseteq friends /\ crossed' = crossed
    BY <1>4 DEF Remove
  <2>2. ListsFit /\ AddsFit
    BY <2>1 DEF FriendsInv
  <2>3. ASSUME NEW c
        PROVE  /\ Cardinality(List(c)) <= MaxFriends => Cardinality(List(c)') <= MaxFriends
               /\ ~Full(c) => ~Full(c)'
    <3>1. List(c)' \subseteq List(c)
      BY <2>1 DEF List
    <3>2. Cardinality(List(c)) \in Nat /\ Cardinality(List(c)') \in Nat /\ Cardinality(List(c)') <= Cardinality(List(c))
      BY <3>1, ListsFinite, Shrinks
    <3> QED BY <1>a, <3>2 DEF Full
  <2>4. ListsFit'
    BY <2>2, <2>3 DEF ListsFit
  <2>5. AddsFit'
    <3> SUFFICES ASSUME NEW v \in Workers, Doing(v, "befriend")' PROVE ~Full(op[v].char)' /\ ~Full(op[v].who)'
      BY DEF AddsFit
    <3>1. op'[v] = op[v] /\ Doing(v, "befriend")
      BY <1>4, OneReturns DEF Doing, Remove
    <3>2. PICK x, y : x = op[v].char /\ y = op[v].who
      OBVIOUS
    <3>3. ~Full(x)' /\ ~Full(y)'
      BY <2>2, <2>3, <3>1, <3>2 DEF AddsFit
    <3> QED BY <3>1, <3>2, <3>3 DEF Full, List
  <2> QED BY <2>4, <2>5
<1>5. ASSUME NEW w \in Workers, op[w] # Idle, ContactStep(w), ~Add(w), ~Remove(w) PROVE ListsFit' /\ AddsFit'
  <2>1. UNCHANGED <<friends, crossed>>
    BY <1>5 DEF ContactStep, setFriendReq, Gate, Deliver, contactVars
  <2>2. CASE Return(w)
    BY <1>d, <2>1, <2>2
  <2>3. CASE ~Return(w)
    <3>1. op[w] \in ContactOps /\ Goto(w, "deliver")
      BY <1>5, <2>3, JobAt DEF ContactStep, setFriendReq, Deliver, Gate, At, ContactPcs
    <3>2. PICK o : o = [op[w] EXCEPT !.pc = "deliver"]
      OBVIOUS
    <3>3. Start(w, o) /\ o.pc = "deliver"
      BY <3>1, <3>2 DEF Goto, Start, ContactOps
    <3> QED BY <1>c, <2>1, <3>3
  <2> QED BY <2>2, <2>3
<1> QED BY <1>1, <1>2, <1>3, <1>4, <1>5, ContactCases

-----------------------------------------------------------------------------
\* NothingStale.  An invitation or a request that no close has overtaken is between
\* connected characters while its handler is on the way to the slot.

PendingFresh ==
    \A v \in Workers :
        (Doing(v, "invite") \/ Doing(v, "ask")) /\ ~op[v].flag => {op[v].char, op[v].who} \subseteq live
FreshInv == InvitesFresh /\ RequestsFresh /\ PendingFresh

LEMMA FreshStep == TypeInv /\ FreshInv /\ [SocietyNext]_societyVars => FreshInv'
<1> SUFFICES ASSUME TypeInv, FreshInv, [SocietyNext]_societyVars PROVE FreshInv'
  OBVIOUS
<1> DEFINE Fine(v) == (Doing(v, "invite")' \/ Doing(v, "ask")') /\ ~op'[v].flag => {op'[v].char, op'[v].who} \subseteq live'
           Pends(o) == o # Idle /\ o.pc \in {"invite", "ask"}
<1>a. ASSUME \A v \in Workers : Fine(v) PROVE PendingFresh'
  BY <1>a DEF PendingFresh
<1>b. ASSUME NEW v \in Workers, op'[v] = op[v], live \subseteq live' PROVE Fine(v)
  BY <1>b DEF FreshInv, PendingFresh, Doing
<1>c. ASSUME NEW v \in Workers, ~Pends(op'[v]) PROVE Fine(v)
  BY <1>c DEF Doing
<1>d. ASSUME live \subseteq live', \A k \in Kinds, c \in Chars : invites'[k][c] \in {invites[k][c], NoInvite}
      PROVE  InvitesFresh'
  BY <1>d DEF FreshInv, InvitesFresh
<1>e. ASSUME live \subseteq live', \A c \in Chars : requests'[c] \in {requests[c], NoRequest} PROVE RequestsFresh'
  BY <1>e DEF FreshInv, RequestsFresh
<1> HIDE DEF Fine
\* One operation starts or ends.
<1>f. ASSUME NEW w \in Workers, NEW o, Start(w, o), ~Pends(o) \/ {o.char, o.who} \subseteq live', live \subseteq live'
      PROVE  PendingFresh'
  <2>1. op'[w] = o /\ \A v \in Workers \ {w} : op'[v] = op[v]
    BY <1>f, OneMoves
  <2>2. Fine(w)
    BY <1>f, <2>1 DEF Fine, Doing
  <2> QED BY <1>a, <1>b, <1>f, <2>1, <2>2
<1>g. ASSUME NEW w \in Workers, Return(w), live \subseteq live' PROVE PendingFresh'
  <2>1. op'[w] = Idle /\ \A v \in Workers \ {w} : op'[v] = op[v]
    BY <1>g, OneReturns
  <2> QED BY <1>a, <1>b, <1>c, <1>g, <2>1
<1>1. CASE GroupNext
  <2>1. live' = live /\ requests' = requests
    BY <1>1, GroupsApart
  <2>2. RequestsFresh'
    BY <1>e, <2>1
  <2>3. PICK w \in Workers : (\E c \in Chars : GroupFrame(w, c)) \/ (op[w] # Idle /\ GroupStep(w))
    BY <1>1 DEF GroupNext
  <2>4. ASSUME NEW c \in Chars, GroupFrame(w, c) PROVE FreshInv'
    <3>1. PICK o \in GroupOps : Frames(w, o)
      BY <2>4, GroupFrames
    <3>2. Start(w, o) /\ invites' = invites
      BY <3>1 DEF Frames, Start, groupVars
    <3>3. ~Pends(o) \/ {o.char, o.who} \subseteq live
      BY <3>1 DEF Frames, Begins, GroupOps, GroupPcs
    <3> QED BY <1>d, <1>f, <2>1, <2>2, <3>2, <3>3 DEF FreshInv
  <2>5. ASSUME op[w] # Idle, SetInvite(w) PROVE FreshInv'
    <3>1. op[w].part \in Kinds /\ op[w].who \in Chars /\ Doing(w, "invite")
      BY <2>5, JobAt DEF SetInvite, At, GroupPcs, Doing
    <3>2. PICK i : i = [group |-> op[w].group, by |-> op[w].char, late |-> op[w].flag]
      OBVIOUS
    <3>3. i.late = op[w].flag /\ i.by = op[w].char
      BY <3>2
    <3>4. invites' = [invites EXCEPT ![op[w].part][op[w].who] = i]
      BY <2>5, <3>2 DEF SetInvite
    <3>5. \A k \in Kinds, c \in Chars : invites'[k][c] = IF k = op[w].part /\ c = op[w].who THEN i ELSE invites[k][c]
      BY <3>1, <3>4 DEF TypeInv, InviteTypes
    <3>6. ~i.late => {op[w].who, i.by} \subseteq live
      BY <3>1, <3>3 DEF FreshInv, PendingFresh
    <3>7. InvitesFresh'
      BY <2>1, <3>5, <3>6 DEF FreshInv, InvitesFresh
    <3>8. Return(w)
      BY <2>5 DEF SetInvite
    <3> QED BY <1>g, <2>1, <2>2, <3>7, <3>8 DEF FreshInv
  <2>6. ASSUME op[w] # Idle, TakeInvite(w) PROVE FreshInv'
    <3>1. op[w].part \in Kinds /\ op[w].who \in Chars
      BY <2>6, JobAt DEF TakeInvite, At, GroupPcs
    <3>2. \A k \in Kinds, c \in Chars : invites'[k][c] \in {invites[k][c], NoInvite}
      BY <2>6, <3>1 DEF TakeInvite, TypeInv, InviteTypes
    <3>3. PICK o : o = GroupOp(op[w].part, "join", op[w].who, op[w].who, op[w].group, FALSE)
      OBVIOUS
    <3>4. o.pc = "join"
      BY <3>3 DEF GroupOp
    <3>5. Start(w, o) \/ Return(w)
      BY <2>6, <3>3 DEF TakeInvite
    <3>6. PendingFresh'
      BY <1>f, <1>g, <2>1, <3>4, <3>5
    <3> QED BY <1>d, <2>1, <2>2, <3>2, <3>6 DEF FreshInv
  <2>7. ASSUME op[w] # Idle, GuildCountLeft(w) PROVE FreshInv'
    <3>1. Doing(w, "left")' /\ (\A v \in Workers \ {w} : op'[v] = op[v]) /\ invites' = invites
      BY <2>7, Counted DEF groupVars
    <3>2. PendingFresh'
      BY <1>a, <1>b, <1>c, <2>1, <3>1 DEF Doing
    <3> QED BY <1>d, <2>1, <2>2, <3>1, <3>2 DEF FreshInv
  <2>8. ASSUME GroupStep(w), ~SetInvite(w), ~TakeInvite(w), ~GuildCountLeft(w) PROVE FreshInv'
    <3>1. Return(w) /\ invites' = invites
      BY <2>8 DEF GroupStep, PartyCreate, GuildCreate, Founded, AddMember, PartyRemoveMember, GuildRemoveMember,
                  Break, SetOptions
    <3> QED BY <1>d, <1>g, <2>1, <2>2, <3>1 DEF FreshInv
  <2> QED BY <2>3, <2>4, <2>5, <2>6, <2>7, <2>8
<1>2. CASE ContactNext
  <2>1. PICK w \in Workers : /\ (\E c \in Chars : ContactFrame(w, c)) \/ (op[w] # Idle /\ ContactStep(w))
                             /\ UNCHANGED groupVars
    BY <1>2 DEF ContactNext
  <2>2. live' = live /\ invites' = invites
    BY <2>1 DEF ContactFrame, handleFriendsAdd, handleFriendsRemove, handleFriendsReply, handleWhisper, handlePMIgnore,
            handleSettingWhisperState, ContactStep, setFriendReq, Add, Remove, Gate, Deliver, groupVars
  <2>3. InvitesFresh'
    BY <1>d, <2>2
  <2>4. ASSUME NEW c \in Chars, ContactFrame(w, c) PROVE FreshInv'
    <3>1. \A t \in Chars : requests'[t] \in {requests[t], NoRequest}
      BY <2>4 DEF ContactFrame, handleFriendsAdd, handleFriendsRemove, handleFriendsReply, handleWhisper,
              handlePMIgnore, handleSettingWhisperState, contactVars, TypeInv, ContactTypes
    <3>2. RequestsFresh'
      BY <1>e, <2>2, <3>1
    <3>3. ASSUME NEW t \in Chars, handleFriendsAdd(w, c, t) PROVE PendingFresh'
      <4>1. PICK o : o = ContactOp("friend", "ask", c, t, FALSE)
        OBVIOUS
      <4>2. o.char = c /\ o.who = t
        BY <4>1 DEF ContactOp
      <4> QED BY <1>f, <2>2, <3>3, <4>1, <4>2 DEF handleFriendsAdd, Frame, connFor
    <3>4. ASSUME NEW part, NEW pc \in {"befriend", "unfriend", "gate"}, NEW a, NEW b, NEW f, Start(w, ContactOp(part, pc, a, b, f))
          PROVE  PendingFresh'
      <4>1. ContactOp(part, pc, a, b, f).pc = pc
        BY DEF ContactOp
      <4> QED BY <1>f, <2>2, <3>4, <4>1
    <3>5. ASSUME NEW names, NEW all, Admits(c, names, all) PROVE PendingFresh'
      BY <1>a, <1>b, <1>c, <2>2, <3>5, AdmitsOps
    <3>6. ASSUME UNCHANGED op PROVE PendingFresh'
      BY <1>a, <1>b, <2>2, <3>6
    <3>7. PendingFresh'
      <4>1. ASSUME NEW t \in Chars, handleFriendsRemove(w, c, t) PROVE PendingFresh'
        BY <3>4, <4>1 DEF handleFriendsRemove
      <4>2. ASSUME NEW t \in Chars, NEW accept \in BOOLEAN, handleFriendsReply(w, c, t, accept) PROVE PendingFresh'
        BY <3>4, <3>6, <4>2 DEF handleFriendsReply
      <4>3. ASSUME NEW t \in Chars, handleWhisper(w, c, t) PROVE PendingFresh'
        BY <3>4, <4>3 DEF handleWhisper
      <4>4. ASSUME NEW t \in Chars, NEW block \in BOOLEAN, handlePMIgnore(w, c, t, block) PROVE PendingFresh'
        BY <3>5, <4>4 DEF handlePMIgnore
      <4>5. ASSUME NEW deny \in BOOLEAN, handleSettingWhisperState(w, c, deny) PROVE PendingFresh'
        BY <3>5, <4>5 DEF handleSettingWhisperState
      <4> QED BY <2>4, <3>3, <4>1, <4>2, <4>3, <4>4, <4>5 DEF ContactFrame
    <3> QED BY <2>3, <3>2, <3>7 DEF FreshInv
  <2>5. ASSUME op[w] # Idle, setFriendReq(w) PROVE FreshInv'
    <3>1. op[w].who \in Chars /\ Doing(w, "ask")
      BY <2>5, JobAt DEF setFriendReq, At, ContactPcs, Doing
    <3>2. PICK r : r = [from |-> {op[w].char}, late |-> op[w].flag]
      OBVIOUS
    <3>3. r.late = op[w].flag /\ r.from = {op[w].char}
      BY <3>2
    <3>4. requests' = [requests EXCEPT ![op[w].who] = r]
      BY <2>5, <3>2 DEF setFriendReq
    <3>5. \A c \in Chars : requests'[c] = IF c = op[w].who THEN r ELSE requests[c]
      BY <3>1, <3>4 DEF TypeInv, ContactTypes
    <3>6. ~r.late => {op[w].who} \cup r.from \subseteq live
      BY <3>1, <3>3 DEF FreshInv, PendingFresh
    <3>7. RequestsFresh'
      BY <2>2, <3>5, <3>6 DEF FreshInv, RequestsFresh
    <3>8. Return(w)
      BY <2>5 DEF setFriendReq
    <3> QED BY <1>g, <2>2, <2>3, <3>7, <3>8 DEF FreshInv
  <2>6. ASSUME op[w] # Idle, ContactStep(w), ~setFriendReq(w) PROVE FreshInv'
    <3>1. requests' = requests
      BY <2>6 DEF ContactStep, Add, Remove, Gate, Deliver, contactVars
    <3>2. RequestsFresh'
      BY <1>e, <2>2, <3>1
    <3>3. CASE Return(w)
      BY <1>g, <2>2, <2>3, <3>2, <3>3 DEF FreshInv
    <3>4. CASE ~Return(w)
      <4>1. op[w] \in ContactOps /\ Goto(w, "deliver")
        BY <2>6, <3>4, JobAt DEF ContactStep, Add, Remove, Deliver, Gate, At, ContactPcs
      <4>2. PICK o : o = [op[w] EXCEPT !.pc = "deliver"]
        OBVIOUS
      <4>3. Start(w, o) /\ o.pc = "deliver"
        BY <4>1, <4>2 DEF Goto, Start, ContactOps
      <4> QED BY <1>f, <2>2, <2>3, <3>2, <4>3 DEF FreshInv
    <3> QED BY <3>3, <3>4
  <2> QED BY <2>1, <2>4, <2>5, <2>6
<1>3. CASE Elsewhere
  <2>1. live' = live /\ invites' = invites /\ requests' = requests
    BY <1>3 DEF Elsewhere, groupVars, contactVars
  <2>2. \A v \in Workers : op'[v] = op[v] \/ ~Pends(op'[v])
    BY <1>3 DEF Elsewhere, Other
  <2>3. PendingFresh'
    BY <1>a, <1>b, <1>c, <2>1, <2>2
  <2> QED BY <1>d, <1>e, <2>1, <2>3 DEF FreshInv
<1>4. ASSUME NEW c \in Chars, unregisterConn(c) PROVE FreshInv'
  <2>1. InvitesFresh'
    BY <1>4 DEF unregisterConn, clearInvitesFor, FreshInv, InvitesFresh
  <2>2. RequestsFresh'
    BY <1>4 DEF unregisterConn, clearFriendReqsFor, FreshInv, RequestsFresh
  <2>3. ASSUME NEW v \in Workers PROVE Fine(v)
    <3>1. CASE op'[v] # op[v]
      BY <1>4, <3>1, OvertakenOps DEF unregisterConn, Fine
    <3>2. CASE op'[v] = op[v]
      <4>1. Pends(op[v]) /\ c \in {op[v].char, op[v].who} => op'[v].flag
        BY <1>4, OvertakenOps DEF unregisterConn
      <4> QED BY <1>4, <3>2, <4>1 DEF unregisterConn, Fine, Doing, FreshInv, PendingFresh
    <3> QED BY <3>1, <3>2
  <2> QED BY <1>a, <2>1, <2>2, <2>3 DEF FreshInv
<1>5. ASSUME live \subseteq live', UNCHANGED <<op, invites, requests>> PROVE FreshInv'
  <2>1. PendingFresh'
    BY <1>a, <1>b, <1>5
  <2> QED BY <1>d, <1>e, <1>5, <2>1 DEF FreshInv
<1>6. ASSUME NEW c \in Chars, registerConn(c) PROVE FreshInv'
  BY <1>5, <1>6 DEF registerConn, groupVars, contactVars
<1>7. CASE UNCHANGED societyVars
  BY <1>5, <1>7 DEF societyVars, groupVars, contactVars
<1> QED BY <1>1, <1>2, <1>3, <1>4, <1>6, <1>7 DEF SocietyNext

-----------------------------------------------------------------------------
\* The theorems.

(***************************************************************************)
(* What the tables say of who belongs to what is consistent, and every      *)
(* piece of state has its type, whatever the number of goroutines: nobody   *)
(* has the id of a group that is gone unless an AddMember overlapped the     *)
(* group's going, no party is without its leader and no guild empty unless  *)
(* other transactions than a Break overlapped, and friendship is mutual.    *)
(***************************************************************************)
THEOREM MembershipCorrect == SocietySpec => []MembershipConsistent
<1> DEFINE IInv == TypeInv /\ DanglingInv /\ PeopledInv /\ FriendsMutual
<1>1. SocietyInit => IInv
  <2> SUFFICES ASSUME SocietyInit PROVE IInv
    OBVIOUS
  <2>1. TypeInv
    BY InitTypes
  <2>2. \A v \in Workers : op[v] = Idle
    BY DEF SocietyInit, ConnInit
  <2>3. DanglingInv
    BY <2>2 DEF SocietyInit, GroupInit, DanglingInv, BelongExist, JoinsExist, CountHolds, Doing
  <2>4. Peopled
    BY <2>2 DEF SocietyInit, GroupInit, Peopled, LeadersIn, GuildsPeopled, Newcomers, Leavers, NotLeading,
                OthersStay, Doing, Kinds
  <2> QED BY <2>1, <2>3, <2>4 DEF PeopledInv, SocietyInit, ContactInit, FriendsMutual
<1>2. IInv /\ [SocietyNext]_societyVars => IInv'
  BY NextTypes, DanglingStep, PeopledStep, MutualStep
<1>3. IInv => MembershipConsistent
  <2> SUFFICES ASSUME IInv PROVE MembershipConsistent
    OBVIOUS
  <2>1. SocietyTypeOK
    <3>1. GroupTypeOK
      <4>1. \A k \in Kinds, c \in Chars : invites[k][c].group \in 0 .. (nextGroup - 1)
        <5> SUFFICES ASSUME NEW k \in Kinds, NEW c \in Chars PROVE invites[k][c].group \in 0 .. (nextGroup - 1)
          OBVIOUS
        <5>1. nextGroup \in Nat \ {0} /\ invites[k][c] \in Invites(nextGroup) \cup {NoInvite}
          BY DEF TypeInv, GroupTypes, InviteTypes
        <5> QED BY <5>1 DEF Invites, NoInvite, NoGroup
      <4> QED BY <4>1 DEF TypeInv, GroupTypes, Tables, GroupTypeOK
    <3>2. ContactTypeOK
      BY DEF TypeInv, ContactTypes, Requests, NoRequest, ContactTypeOK
    <3> QED BY <3>1, <3>2 DEF SocietyTypeOK, TypeInv, ConnTypes
  <2>2. NoDanglingMember
    BY DEF DanglingInv, NoJoinRace, BelongExist, NoDanglingMember
  <2>3. GroupPeopled
    BY DEF PeopledInv, OnlyBreaks, Peopled, LeadersIn, GuildsPeopled, GroupPeopled
  <2> QED BY <2>1, <2>2, <2>3 DEF MembershipConsistent
<1> QED BY <1>1, <1>2, <1>3, PTL DEF SocietySpec

(***************************************************************************)
(* No roster and no friend list exceeds its cap, which a statement before   *)
(* the insert counts, until two acceptances overlap on a group or on a      *)
(* character.                                                               *)
(***************************************************************************)
THEOREM CapsCorrect == SocietySpec => []CapsHold
<1> DEFINE IInv == TypeInv /\ RosterInv /\ FriendsInv
<1>1. SocietyInit => IInv
  <2> SUFFICES ASSUME SocietyInit PROVE IInv
    OBVIOUS
  <2>1. TypeInv
    BY InitTypes
  <2>2. \A v \in Workers : op[v] = Idle
    BY DEF SocietyInit, ConnInit
  <2>3. JoinsFit /\ AddsFit
    BY <2>2 DEF JoinsFit, AddsFit, Doing
  <2>4. Sized
    BY DEF Sized, SocietyInit, GroupInit
  <2>5. ListsFit
    <3> SUFFICES ASSUME NEW c \in Chars PROVE Cardinality(List(c)) <= MaxFriends
      BY DEF ListsFit
    <3>1. List(c) = {}
      BY DEF List, SocietyInit, ContactInit
    <3> QED BY <3>1, ContactsAssumption, FS_EmptySet
  <2> QED BY <2>1, <2>3, <2>4, <2>5 DEF RosterInv, FriendsInv
<1>2. IInv /\ [SocietyNext]_societyVars => IInv'
  BY NextTypes, RosterStep, FriendsStep
<1>3. IInv => CapsHold
  <2> SUFFICES ASSUME IInv PROVE CapsHold
    OBVIOUS
  <2>1. RosterBounded
    BY DEF RosterInv, Sized, RosterBounded, TypeInv, GroupTypes, Tables
  <2>2. FriendsBounded
    BY DEF FriendsInv, ListsFit, FriendsBounded
  <2> QED BY <2>1, <2>2 DEF CapsHold
<1> QED BY <1>1, <1>2, <1>3, PTL DEF SocietySpec

\* Whoever belongs to a group founded it or was invited to it, however late the answer
\* and whatever invitation has replaced the one it answers.
THEOREM InvitedCorrect == SocietySpec => []NobodyUninvited
<1> DEFINE IInv == TypeInv /\ InvitedInv
<1>1. SocietyInit => IInv
  <2> SUFFICES ASSUME SocietyInit PROVE InvitedInv
    BY InitTypes
  <2>1. \A v \in Workers : op[v] = Idle
    BY DEF SocietyInit, ConnInit
  <2> QED BY <2>1 DEF SocietyInit, GroupInit, InvitedInv, NobodyUninvited, InvitesEntitled, AnswersEntitled, Doing
<1>2. IInv /\ [SocietyNext]_societyVars => IInv'
  BY NextTypes, InvitedStep
<1>3. IInv => NobodyUninvited
  BY DEF InvitedInv
<1> QED BY <1>1, <1>2, <1>3, PTL DEF SocietySpec

\* A whisper is not delivered to a character that denied its sender from the moment it
\* arrived until it is written, whatever the filter's commands do meanwhile.
THEOREM FilterCorrect == SocietySpec => []WhisperFiltered
<1> DEFINE IInv == TypeInv /\ FilterInv
<1>1. SocietyInit => IInv
  <2> SUFFICES ASSUME SocietyInit PROVE FilterInv
    BY InitTypes
  <2>1. \A v \in Workers : op[v] = Idle
    BY DEF SocietyInit, ConnInit
  <2> QED BY <2>1 DEF FilterInv, WhisperFiltered, GatesDeny, Doing
<1>2. IInv /\ [SocietyNext]_societyVars => IInv'
  BY NextTypes, FilterStep
<1>3. IInv => WhisperFiltered
  BY DEF FilterInv
<1> QED BY <1>1, <1>2, <1>3, PTL DEF SocietySpec

\* No invitation and no friend request outlives a connection it was made over, but for
\* the one whose handler a close overtook on its way to the slot.
THEOREM FreshCorrect == SocietySpec => []NothingStale
<1> DEFINE IInv == TypeInv /\ FreshInv
<1>1. SocietyInit => IInv
  <2> SUFFICES ASSUME SocietyInit PROVE FreshInv
    BY InitTypes
  <2>1. \A v \in Workers : op[v] = Idle
    BY DEF SocietyInit, ConnInit
  <2> QED BY <2>1 DEF SocietyInit, GroupInit, ContactInit, FreshInv, InvitesFresh, RequestsFresh, PendingFresh, Doing
<1>2. IInv /\ [SocietyNext]_societyVars => IInv'
  BY NextTypes, FreshStep
<1>3. IInv => NothingStale
  BY DEF FreshInv, NothingStale
<1> QED BY <1>1, <1>2, <1>3, PTL DEF SocietySpec

-----------------------------------------------------------------------------
\* Dialogs: what the goroutines and the engine hold.

Talking(o) == o # Idle /\ o.part = "dialog"

\* A dialog as the engine holds it, whatever its machine is.
DialogRow(r) ==
    /\ r = [char |-> r.char, prog |-> r.prog, vm |-> r.vm, box |-> r.box, asked |-> r.asked,
            got |-> r.got, writer |-> r.writer, over |-> r.over]
    /\ r.char \in Chars /\ r.asked \in Nat /\ r.over \in BOOLEAN
    /\ r.over => r.vm.st \in {"end", "panic"}
DialogRows ==
    /\ dialog \in Seq({dialog[d] : d \in DOMAIN dialog})
    /\ \A d \in DOMAIN dialog : DialogRow(dialog[d])
TalkOK(o) ==
    /\ o.char \in Chars
    /\ o.pc = "send" => o.to \in DOMAIN dialog /\ dialog[o.to].char = o.char
TalkOps == \A w \in Workers : Talking(op[w]) => TalkOK(op[w])
Registered ==
    /\ sessions \in [Chars -> 0 .. Len(dialog)]
    /\ \A c \in Chars : sessions[c] # NoDialog =>
          dialog[sessions[c]].char = c /\ ~dialog[sessions[c]].over
    /\ \A d \in DOMAIN dialog :
          ~dialog[d].over /\ dialog[d].char \notin twice => sessions[dialog[d].char] = d
HeardInv == DialogRows /\ TalkOps /\ Registered /\ rash \subseteq Chars /\ twice \subseteq Chars

\* What lies about of the prompts of c: shown and not answered, on its way to a
\* channel, in a channel.
Sending(c, w) == Talking(op[w]) /\ op[w].pc = "send" /\ op[w].char = c
Boxed(c, d) == dialog[d].char = c /\ dialog[d].box # NoSignal
NoneSent(c) == \A w \in Workers : ~Sending(c, w)
NoneBoxed(c) == \A d \in DOMAIN dialog : ~Boxed(c, d)
\* Prompt p is the one that a dialog of c waits in.
Current(c, p) == \E d \in DOMAIN dialog :
    dialog[d].char = c /\ Waiting(d) /\ p = <<d, dialog[d].asked>>
TurnOf(c) ==
    /\ seen[c] # NoPrompt => Current(c, seen[c]) /\ NoneSent(c) /\ NoneBoxed(c)
    /\ \A w \in Workers : Sending(c, w) =>
          /\ op[w].sig.to[1] = op[w].to /\ Current(c, op[w].sig.to)
          /\ \A v \in Workers : Sending(c, v) => v = w
          /\ NoneBoxed(c)
    /\ \A d \in DOMAIN dialog : Boxed(c, d) =>
          /\ dialog[d].box.to[1] = d /\ Current(c, dialog[d].box.to)
          /\ \A e \in DOMAIN dialog : Boxed(c, e) => e = d
TurnInv ==
    /\ seen = [c \in Chars |-> seen[c]]
    /\ \A c \in Chars : c \notin rash \cup twice => TurnOf(c)

\* A step leaves alone what other parts do in the goroutines, or touches nothing of dialogs there.
Aside == \A v \in Workers :
    op'[v] = op[v] \/ (~Talking(op[v]) /\ ~Talking(op'[v]))

LEMMA GroupsAside ==
    ASSUME TypeInv, GroupNext
    PROVE  Aside
<1>1. PICK w \in Workers : /\ (\E c \in Chars : GroupFrame(w, c)) \/ (op[w] # Idle /\ GroupStep(w))
                           /\ UNCHANGED contactVars
  BY DEF GroupNext
<1>a. op = [v \in Workers |-> op[v]]
  BY DEF TypeInv, OpTypes
<1>b. ASSUME NEW o, op' = [op EXCEPT ![w] = o], ~Talking(o), ~Talking(op[w]) PROVE Aside
  BY <1>a, <1>b DEF Aside
<1>2. ASSUME NEW c \in Chars, GroupFrame(w, c) PROVE Aside
  <2>1. PICK o \in GroupOps : Frames(w, o)
    BY <1>2, GroupFrames
  <2>2. ~Talking(o) /\ ~Talking(op[w])
    BY <2>1 DEF GroupOps, Kinds, Talking, Frames
  <2> QED BY <1>b, <2>1, <2>2 DEF Frames
<1>3. ASSUME op[w] # Idle, GroupStep(w) PROVE Aside
  <2>1. GroupJob(op[w], nextGroup)
    <3>1. op[w].pc \in GroupPcs
      BY <1>3 DEF GroupStep, PartyCreate, GuildCreate, SetInvite, TakeInvite, AddMember, PartyRemoveMember,
           GuildCountLeft, GuildRemoveMember, Break, SetOptions, At, GroupPcs
    <3> QED BY <1>3, <3>1, JobAt
  <2>2. ~Talking(op[w]) /\ ~Talking(Idle)
    BY <2>1 DEF GroupJob, GroupOps, Kinds, Talking
  <2>3. CASE Return(w)
    BY <1>b, <2>2, <2>3 DEF Return
  <2>4. CASE TakeInvite(w)
    <3>1. PICK o : o = GroupOp(op[w].part, "join", op[w].who, op[w].who, op[w].group, FALSE)
      OBVIOUS
    <3>2. ~Talking(o)
      BY <2>1, <3>1 DEF GroupOp, GroupJob, GroupOps, Kinds, Talking
    <3>3. op' = [op EXCEPT ![w] = o] \/ Return(w)
      BY <2>4, <3>1 DEF TakeInvite, Start
    <3> QED BY <1>b, <2>2, <2>3, <3>2, <3>3
  <2>5. CASE GuildCountLeft(w)
    <3>1. Doing(w, "left")' /\ op'[w].part = "guild" /\ \A v \in Workers \ {w} : op'[v] = op[v]
      BY <1>3, <2>5, Counted
    <3> QED BY <2>2, <3>1 DEF Aside, Talking
  <2> QED BY <1>3, <2>3, <2>4, <2>5 DEF GroupStep, PartyCreate, GuildCreate, Founded, SetInvite, AddMember,
             PartyRemoveMember, GuildRemoveMember, Break, SetOptions
<1> QED BY <1>1, <1>2, <1>3

LEMMA ContactsAside ==
    ASSUME TypeInv, ContactNext
    PROVE  Aside
<1>1. PICK w \in Workers : /\ (\E c \in Chars : ContactFrame(w, c)) \/ (op[w] # Idle /\ ContactStep(w))
                           /\ UNCHANGED groupVars
  BY DEF ContactNext
<1>a. op = [v \in Workers |-> op[v]]
  BY DEF TypeInv, OpTypes
<1>b. ASSUME NEW o, op' = [op EXCEPT ![w] = o], ~Talking(o), ~Talking(op[w]) PROVE Aside
  BY <1>a, <1>b DEF Aside
<1>c. ASSUME NEW part \in {"friend", "chat"}, NEW pc, NEW a, NEW b, NEW f, op[w] = Idle,
             Start(w, ContactOp(part, pc, a, b, f)) PROVE Aside
  <2>1. ~Talking(ContactOp(part, pc, a, b, f)) /\ ~Talking(op[w])
    BY <1>c DEF ContactOp, Talking
  <2> QED BY <1>b, <1>c, <2>1 DEF Start
<1>d. ASSUME NEW t \in Chars, NEW names, NEW all, Admits(t, names, all) PROVE Aside
  <2>1. ASSUME NEW v \in Workers, op'[v] # op[v] PROVE ~Talking(op[v]) /\ ~Talking(op'[v])
    <3>1. op[v] \in ContactOps /\ op'[v] \in ContactOps
      BY <1>d, <2>1, AdmitsOps
    <3> QED BY <3>1 DEF ContactOps, Talking
  <2> QED BY <2>1 DEF Aside
<1>2. ASSUME NEW c \in Chars, ContactFrame(w, c) PROVE Aside
  <2>1. ASSUME NEW t \in Chars, handleFriendsAdd(w, c, t) PROVE Aside
    BY <1>c, <2>1 DEF handleFriendsAdd, Frame
  <2>2. ASSUME NEW t \in Chars, handleFriendsRemove(w, c, t) PROVE Aside
    BY <1>c, <2>2 DEF handleFriendsRemove, Frame
  <2>3. ASSUME NEW t \in Chars, NEW accept \in BOOLEAN, handleFriendsReply(w, c, t, accept) PROVE Aside
    <3>1. CASE UNCHANGED op
      BY <3>1 DEF Aside
    <3> QED BY <1>c, <2>3, <3>1 DEF handleFriendsReply, Frame
  <2>4. ASSUME NEW t \in Chars, handleWhisper(w, c, t) PROVE Aside
    BY <1>c, <2>4 DEF handleWhisper, Frame
  <2>5. ASSUME NEW t \in Chars, NEW block \in BOOLEAN, handlePMIgnore(w, c, t, block) PROVE Aside
    BY <1>d, <2>5 DEF handlePMIgnore
  <2>6. ASSUME NEW deny \in BOOLEAN, handleSettingWhisperState(w, c, deny) PROVE Aside
    BY <1>d, <2>6 DEF handleSettingWhisperState
  <2> QED BY <1>2, <2>1, <2>2, <2>3, <2>4, <2>5, <2>6 DEF ContactFrame
<1>3. ASSUME op[w] # Idle, ContactStep(w) PROVE Aside
  <2>1. op[w] \in ContactOps
    <3>1. op[w].pc \in ContactPcs
      BY <1>3 DEF ContactStep, setFriendReq, Add, Remove, Gate, Deliver, At, ContactPcs
    <3> QED BY <1>3, <3>1, JobAt
  <2>2. ~Talking(op[w]) /\ ~Talking(Idle)
    BY <2>1 DEF ContactOps, Talking
  <2>3. CASE Return(w)
    BY <1>b, <2>2, <2>3 DEF Return
  <2>4. CASE Goto(w, "deliver")
    <3>1. PICK o : o = [op[w] EXCEPT !.pc = "deliver"]
      OBVIOUS
    <3>2. ~Talking(o)
      BY <2>1, <3>1 DEF ContactOps, Talking
    <3> QED BY <1>b, <2>2, <2>4, <3>1, <3>2 DEF Goto
  <2> QED BY <1>3, <2>3, <2>4 DEF ContactStep, setFriendReq, Add, Remove, Gate, Deliver
<1> QED BY <1>1, <1>2, <1>3

LEMMA CloseAside ==
    ASSUME TypeInv, NEW c \in Chars, unregisterConn(c)
    PROVE  Aside
<1>1. nextGroup' = nextGroup /\ Overtaken(c)
  BY DEF unregisterConn
<1>2. ASSUME NEW v \in Workers, op'[v] # op[v] PROVE ~Talking(op[v]) /\ ~Talking(op'[v])
  <2>1. JobOK(op[v], nextGroup)
    BY DEF TypeInv, OpTypes
  <2>2. JobOK(op'[v], nextGroup) /\ op[v].pc \in {"invite", "ask"} /\ op'[v].pc \in {"invite", "ask"}
    BY <1>1, <1>2, OvertakenOps
  <2> QED BY <2>1, <2>2 DEF JobOK, GroupJob, GroupOps, Kinds, ContactOps, Foreign, Talking
<1> QED BY <1>2 DEF Aside
-----------------------------------------------------------------------------
\* What the steps of dialogs do.

LEMMA SeqInto ==
    ASSUME NEW n \in Nat, NEW S, NEW f \in [1 .. n -> S]
    PROVE  f \in Seq(S) /\ Len(f) = n
OBVIOUS
LEMMA SeqTight ==
    ASSUME NEW n \in Nat, NEW f, f = [e \in 1 .. n |-> f[e]]
    PROVE  f \in Seq({f[x] : x \in DOMAIN f}) /\ Len(f) = n
<1>1. DOMAIN f = 1 .. n
  OBVIOUS
<1>2. f \in [1 .. n -> {f[x] : x \in DOMAIN f}]
  BY <1>1
<1> QED BY <1>2, SeqInto
LEMMA DialogsAre ==
    ASSUME DialogRows
    PROVE  Len(dialog) \in Nat /\ DOMAIN dialog = 1 .. Len(dialog) /\ dialog = [d \in 1 .. Len(dialog) |-> dialog[d]]
BY DEF DialogRows

\* A dialog is changed.
LEMMA RowChanges ==
    ASSUME DialogRows, NEW d \in DOMAIN dialog, NEW r, dialog' = [dialog EXCEPT ![d] = r]
    PROVE  /\ DOMAIN dialog' = DOMAIN dialog /\ Len(dialog') = Len(dialog)
           /\ dialog'[d] = r /\ \A e \in DOMAIN dialog \ {d} : dialog'[e] = dialog[e]
           /\ DialogRow(r) => DialogRows'
<1>1. /\ DOMAIN dialog' = DOMAIN dialog
      /\ dialog'[d] = r /\ \A e \in DOMAIN dialog \ {d} : dialog'[e] = dialog[e]
  BY DialogsAre
<1>2. PICK n \in Nat : n = Len(dialog)
  BY DialogsAre
<1>3. DOMAIN dialog' = 1 .. n /\ dialog' = [e \in 1 .. n |-> dialog'[e]]
  BY <1>1, <1>2, DialogsAre
<1>6. dialog' \in Seq({dialog'[x] : x \in DOMAIN dialog'}) /\ Len(dialog') = n
  <2>1. PICK D : D = dialog'
    OBVIOUS
  <2>2. D = [e \in 1 .. n |-> D[e]] /\ n \in Nat
    BY <1>2, <1>3, <2>1, DialogsAre
  <2>3. D \in Seq({D[x] : x \in DOMAIN D}) /\ Len(D) = n
    BY <2>2, SeqTight
  <2> QED BY <2>1, <2>3
<1>7. DialogRow(r) => \A e \in DOMAIN dialog' : DialogRow(dialog'[e])
  BY <1>1 DEF DialogRows
<1> QED BY <1>1, <1>2, <1>6, <1>7 DEF DialogRows

\* A dialog is added.
LEMMA RowAdded ==
    ASSUME DialogRows, NEW r, dialog' = Append(dialog, r)
    PROVE  /\ DOMAIN dialog' = DOMAIN dialog \cup {Len(dialog) + 1} /\ Len(dialog') = Len(dialog) + 1
           /\ Len(dialog) + 1 \notin DOMAIN dialog
           /\ dialog'[Len(dialog) + 1] = r /\ \A e \in DOMAIN dialog : dialog'[e] = dialog[e]
           /\ DialogRow(r) => DialogRows'
<1> DEFINE S == {dialog[x] : x \in DOMAIN dialog} \cup {r}
<1>1. PICK n \in Nat : n = Len(dialog) /\ DOMAIN dialog = 1 .. n
  BY DialogsAre
<1>2. dialog \in Seq(S) /\ r \in S
  <2>1. \A e \in 1 .. n : dialog[e] \in S
    BY <1>1
  <2>2. dialog \in [1 .. n -> S]
    BY <1>1, <2>1, DialogsAre
  <2>3. r \in S
    OBVIOUS
  <2> HIDE DEF S
  <2> QED BY <1>1, <2>2, <2>3, SeqInto
<1> HIDE DEF S
<1>3. /\ dialog' \in Seq(S) /\ Len(dialog') = n + 1
      /\ dialog'[n + 1] = r /\ \A e \in 1 .. n : dialog'[e] = dialog[e]
  BY <1>1, <1>2, AppendProperties
<1>4. DOMAIN dialog' = 1 .. (n + 1) /\ dialog' = [e \in 1 .. (n + 1) |-> dialog'[e]]
  BY <1>3, LenProperties
<1>5. DOMAIN dialog' = DOMAIN dialog \cup {n + 1} /\ n + 1 \notin DOMAIN dialog
  BY <1>1, <1>4
<1>6. dialog' \in Seq({dialog'[x] : x \in DOMAIN dialog'})
  BY <1>1, <1>4, DialogsAre, SeqTight
<1>7. DialogRow(r) => \A e \in DOMAIN dialog' : DialogRow(dialog'[e])
  BY <1>1, <1>3, <1>5 DEF DialogRows
<1> QED BY <1>1, <1>3, <1>5, <1>6, <1>7 DEF DialogRows

\* A dialog that has not ended goes on, to another prompt or not.
LEMMA Came ==
    ASSUME DialogRows, NEW d \in DOMAIN dialog, NEW a, NEW box, Answered(d, a, box), ~dialog[d].over
    PROVE  /\ DOMAIN dialog' = DOMAIN dialog /\ Len(dialog') = Len(dialog)
           /\ \A e \in DOMAIN dialog \ {d} : dialog'[e] = dialog[e]
           /\ dialog'[d].char = dialog[d].char /\ dialog'[d].box = box /\ ~dialog'[d].over
           /\ \/ seen' = seen
              \/ Waiting(d)' /\ seen' = [seen EXCEPT ![dialog[d].char] = <<d, dialog'[d].asked>>]
           /\ DialogRows'
<1>1. DialogRow(dialog[d])
  BY DEF DialogRows
<1> DEFINE vm == Resumed(dialog[d].vm, dialog[d].prog, a.v, a.ends)
           r0 == [dialog[d] EXCEPT !.box = box]
           got == Append(dialog[d].got, a)
           asked == IF vm.st \in Prompts THEN r0.asked + 1 ELSE r0.asked
           r == [r0 EXCEPT !.vm = vm, !.got = got, !.asked = asked]
<1>2. dialog' = [dialog EXCEPT ![d] = r]
  BY DEF Answered, Comes
<1>3. seen' = IF vm.st \in Prompts /\ r0.writer THEN [seen EXCEPT ![r0.char] = <<d, asked>>] ELSE seen
  BY DEF Answered, Comes
<1>4. r0 = [char |-> dialog[d].char, prog |-> dialog[d].prog, vm |-> dialog[d].vm, box |-> box,
            asked |-> dialog[d].asked, got |-> dialog[d].got, writer |-> dialog[d].writer, over |-> dialog[d].over]
  BY <1>1 DEF DialogRow
<1>5. asked \in Nat
  BY <1>1, <1>4 DEF DialogRow
<1> HIDE DEF vm, got, asked, r0
<1>6. r = [char |-> dialog[d].char, prog |-> dialog[d].prog, vm |-> vm, box |-> box,
            asked |-> asked, got |-> got, writer |-> dialog[d].writer, over |-> dialog[d].over]
  <2>1. PICK r1 : r1 = [r0 EXCEPT !.vm = vm]
    OBVIOUS
  <2>2. r1 = [char |-> dialog[d].char, prog |-> dialog[d].prog, vm |-> vm, box |-> box, asked |-> dialog[d].asked,
              got |-> dialog[d].got, writer |-> dialog[d].writer, over |-> dialog[d].over]
    BY <1>4, <1>5, <2>1
  <2>3. PICK r2 : r2 = [r1 EXCEPT !.got = got]
    OBVIOUS
  <2>4. r2 = [char |-> dialog[d].char, prog |-> dialog[d].prog, vm |-> vm, box |-> box, asked |-> dialog[d].asked,
              got |-> got, writer |-> dialog[d].writer, over |-> dialog[d].over]
    BY <2>2, <2>3
  <2>5. [r2 EXCEPT !.asked = asked]
        = [char |-> dialog[d].char, prog |-> dialog[d].prog, vm |-> vm, box |-> box, asked |-> asked,
              got |-> got, writer |-> dialog[d].writer, over |-> dialog[d].over]
    BY <2>4
  <2> QED BY <2>1, <2>3, <2>5 DEF r
<1> HIDE DEF r
<1>7. /\ r.char = dialog[d].char /\ r.prog = dialog[d].prog /\ r.vm = vm /\ r.box = box /\ r.asked = asked
      /\ r.got = got /\ r.writer = dialog[d].writer /\ r.over = dialog[d].over
  BY <1>6
<1>8. DialogRow(r)
  BY <1>1, <1>5, <1>6, <1>7 DEF DialogRow
<1>9. /\ DOMAIN dialog' = DOMAIN dialog /\ Len(dialog') = Len(dialog)
      /\ dialog'[d] = r /\ \A e \in DOMAIN dialog \ {d} : dialog'[e] = dialog[e]
      /\ DialogRows'
  BY <1>2, <1>8, RowChanges
<1>10. Waiting(d)' <=> vm.st \in Prompts
  BY <1>7, <1>9 DEF Waiting
<1>11. r0.char = dialog[d].char
  BY <1>4
<1>12. \/ seen' = seen
       \/ Waiting(d)' /\ seen' = [seen EXCEPT ![dialog[d].char] = <<d, dialog'[d].asked>>]
  BY <1>3, <1>7, <1>9, <1>10, <1>11
<1> QED BY <1>7, <1>9, <1>12
\* A step of a dialog handler that started at w.
LEMMA HandlerMoves ==
    ASSUME TypeInv, NEW w \in Workers, op[w] # Idle, DialogStep(w), Elsewhere
    PROVE  /\ Talking(op[w]) /\ op'[w] = Idle
           /\ \A v \in Workers \ {w} : op'[v] = op[v]
<1>1. Return(w)
  BY DEF DialogStep, put, Send
<1>2. op'[w] = Idle /\ \A v \in Workers \ {w} : op'[v] = op[v]
  BY <1>1, OneReturns
<1>3. Other(op[w])
  BY <1>2 DEF Elsewhere
<1> QED BY <1>2, <1>3 DEF Other, Talking

\* Which steps there are, beside those that leave dialogs alone.
LEMMA DialogCases ==
    ASSUME TypeInv, [Next]_vars
    PROVE  \/ Aside /\ UNCHANGED dialogVars
           \/ \E w \in Workers, c \in Chars : DialogFrame(w, c)
           \/ \E w \in Workers : op[w] # Idle /\ DialogStep(w) /\ Elsewhere
           \/ \E d \in DOMAIN dialog : VMStep(d)
           \/ \E c \in Chars : Aside /\ CloseDialogs(c)
<1>1. CASE (GroupNext \/ ContactNext) /\ UNCHANGED dialogVars
  BY <1>1, GroupsAside, ContactsAside
<1>2. CASE DialogNext
  BY <1>2 DEF DialogNext
<1>3. ASSUME NEW c \in Chars, OnClose(c) PROVE Aside /\ CloseDialogs(c)
  BY <1>3, CloseAside DEF OnClose
<1>4. ASSUME NEW c \in Chars, registerConn(c), UNCHANGED dialogVars PROVE Aside
  BY <1>4 DEF registerConn, Aside
<1>5. CASE UNCHANGED vars
  BY <1>5 DEF vars, societyVars, Aside
<1> QED BY <1>1, <1>2, <1>3, <1>4, <1>5 DEF Next

-----------------------------------------------------------------------------
\* DialogHeard.

LEMMA HeardAside ==
    ASSUME HeardInv, Aside, UNCHANGED dialogVars
    PROVE  HeardInv'
<1>1. DialogRows' /\ Registered' /\ rash' \subseteq Chars /\ twice' \subseteq Chars
  BY DEF HeardInv, dialogVars, DialogRows, Registered
<1>2. TalkOps'
  BY DEF HeardInv, Aside, TalkOps, TalkOK, dialogVars
<1> QED BY <1>1, <1>2 DEF HeardInv

LEMMA HeardFrame ==
    ASSUME TypeInv, HeardInv, NEW w \in Workers, NEW c \in Chars, DialogFrame(w, c)
    PROVE  HeardInv'
<1>1. ASSUME NEW part, NEW scripts, handleContactNPC(w, c, part, scripts) PROVE HeardInv'
  <2>1. PICK o : o.char = c /\ o.pc = "put" /\ Start(w, o)
    BY <1>1 DEF handleContactNPC
  <2>2. op'[w] = o /\ \A v \in Workers \ {w} : op'[v] = op[v]
    BY <2>1, OneMoves
  <2>3. UNCHANGED dialogVars
    BY <1>1 DEF handleContactNPC
  <2>4. TalkOps'
    BY <2>1, <2>2, <2>3 DEF HeardInv, TalkOps, TalkOK, dialogVars
  <2> QED BY <2>3, <2>4 DEF HeardInv, dialogVars, DialogRows, Registered
<1>2. CASE Signal(w, c)
  <2>1. PICK o : o.char = c /\ o.to = sessions[c] /\ Start(w, o)
    BY <1>2 DEF Signal
  <2>2. op'[w] = o /\ \A v \in Workers \ {w} : op'[v] = op[v]
    BY <2>1, OneMoves
  <2>3. /\ UNCHANGED <<sessions, dialog, twice>> /\ rash' \subseteq Chars
        /\ sessions[c] # NoDialog
    BY <1>2 DEF Signal, HeardInv
  <2>4. o.to \in DOMAIN dialog /\ dialog[o.to].char = c
    BY <2>1, <2>3, DialogsAre DEF HeardInv, Registered, NoDialog
  <2>5. TalkOps'
    BY <2>1, <2>2, <2>3, <2>4 DEF HeardInv, TalkOps, TalkOK
  <2> QED BY <2>3, <2>5 DEF HeardInv, DialogRows, Registered
<1> QED BY <1>1, <1>2 DEF DialogFrame

\* A dialog that is none the less neither over nor another's.
LEMMA HeardChanged ==
    ASSUME HeardInv, NEW d \in DOMAIN dialog, DialogRows', DOMAIN dialog' = DOMAIN dialog, Len(dialog') = Len(dialog),
           \A e \in DOMAIN dialog : dialog'[e].char = dialog[e].char /\ dialog'[e].over = dialog[e].over,
           \A v \in Workers : op'[v] = op[v] \/ ~Talking(op'[v]),
           UNCHANGED <<sessions, twice>>, rash' \subseteq Chars
    PROVE  HeardInv'
<1>1. Registered'
  <2>1. sessions' \in [Chars -> 0 .. Len(dialog')]
    BY DEF HeardInv, Registered
  <2>2. ASSUME NEW c \in Chars, sessions'[c] # NoDialog PROVE dialog'[sessions'[c]].char = c /\ ~dialog'[sessions'[c]].over
    <3>1. sessions[c] \in DOMAIN dialog
      BY <2>2, DialogsAre DEF HeardInv, Registered, NoDialog
    <3> QED BY <2>2, <3>1 DEF HeardInv, Registered
  <2> QED BY <2>1, <2>2 DEF HeardInv, Registered
<1>2. TalkOps'
  BY DEF HeardInv, TalkOps, TalkOK
<1> QED BY <1>1, <1>2 DEF HeardInv
\* A dialog that begins: it comes after the others.
LEMMA Began ==
    ASSUME HeardInv, NEW w \in Workers, put(w), Talking(op[w]),
           NEW d, d = Len(dialog) + 1
    PROVE  /\ DOMAIN dialog' = DOMAIN dialog \cup {d} /\ Len(dialog') = Len(dialog) + 1 /\ d \notin DOMAIN dialog
           /\ d \in Nat \ {0}
           /\ \A e \in DOMAIN dialog : dialog'[e] = dialog[e]
           /\ dialog'[d].char = op[w].char /\ dialog'[d].box = NoSignal /\ ~dialog'[d].over
           /\ \/ seen' = seen
              \/ Waiting(d)' /\ seen' = [seen EXCEPT ![op[w].char] = <<d, dialog'[d].asked>>]
           /\ DialogRows' /\ op[w].char \in Chars
<1>1. PICK c \in Chars : c = op[w].char
  BY DEF HeardInv, TalkOps, TalkOK
<1> DEFINE p == op[w].prog
           vm == Started(p)
           wr == c \in live
           r0 == NewDialog(c, p)
           asked == IF vm.st \in Prompts THEN r0.asked + 1 ELSE r0.asked
           r == [r0 EXCEPT !.vm = vm, !.got = <<>>, !.asked = asked]
<1>2. d \notin DOMAIN dialog /\ d \in Nat \ {0}
  BY DialogsAre DEF HeardInv
<1>3. dialog' = Append(dialog, r)
  BY <1>1, <1>2 DEF put, Comes
<1>4. seen' = IF vm.st \in Prompts /\ r0.writer THEN [seen EXCEPT ![r0.char] = <<d, asked>>] ELSE seen
  BY <1>1, <1>2 DEF put, Comes
<1>z. PICK zero, none, no : zero = 0 /\ none = <<>> /\ no = FALSE
  OBVIOUS
<1>5. r0 = [char |-> c, prog |-> p, vm |-> vm, box |-> NoSignal, asked |-> zero,
            got |-> none, writer |-> wr, over |-> no]
  BY <1>z DEF NewDialog
<1>6. asked \in Nat
  BY <1>5, <1>z
<1> HIDE DEF p, vm, wr, asked, r0
<1>7. r = [char |-> c, prog |-> p, vm |-> vm, box |-> NoSignal, asked |-> asked,
           got |-> none, writer |-> wr, over |-> no]
  <2>1. PICK r1 : r1 = [r0 EXCEPT !.vm = vm]
    OBVIOUS
  <2>2. r1 = [char |-> c, prog |-> p, vm |-> vm, box |-> NoSignal, asked |-> zero,
              got |-> none, writer |-> wr, over |-> no]
    BY <1>4, <1>5, <2>1
  <2>3. PICK r2 : r2 = [r1 EXCEPT !.got = none]
    OBVIOUS
  <2>4. r2 = [char |-> c, prog |-> p, vm |-> vm, box |-> NoSignal, asked |-> zero,
              got |-> none, writer |-> wr, over |-> no]
    BY <2>2, <2>3
  <2>5. PICK k : k = asked
    OBVIOUS
  <2>6. [r2 EXCEPT !.asked = k]
        = [char |-> c, prog |-> p, vm |-> vm, box |-> NoSignal, asked |-> k,
           got |-> none, writer |-> wr, over |-> no]
    BY <2>4
  <2> QED BY <2>1, <2>3, <2>5, <2>6, <1>z DEF r
<1> HIDE DEF r
<1>8. /\ r.char = c /\ r.prog = p /\ r.vm = vm /\ r.box = NoSignal /\ r.asked = asked
      /\ r.got = none /\ r.writer = wr /\ r.over = FALSE
  BY <1>7, <1>z
<1>9. DialogRow(r)
  BY <1>6, <1>7, <1>8, <1>z DEF DialogRow
<1>10. /\ DOMAIN dialog' = DOMAIN dialog \cup {d} /\ Len(dialog') = Len(dialog) + 1
       /\ dialog'[d] = r /\ \A e \in DOMAIN dialog : dialog'[e] = dialog[e]
       /\ DialogRows'
  BY <1>3, <1>9, RowAdded DEF HeardInv
<1>11. Waiting(d)' <=> vm.st \in Prompts
  BY <1>8, <1>10 DEF Waiting
<1>12. r0.char = c
  BY <1>5
<1>13. \/ seen' = seen
       \/ Waiting(d)' /\ seen' = [seen EXCEPT ![op[w].char] = <<d, dialog'[d].asked>>]
  BY <1>1, <1>4, <1>8, <1>10, <1>11, <1>12
<1> QED BY <1>1, <1>2, <1>8, <1>10, <1>13

LEMMA HeardPut ==
    ASSUME TypeInv, HeardInv, NEW w \in Workers, op[w] # Idle, put(w), Elsewhere
    PROVE  HeardInv'
<1>1. /\ Talking(op[w]) /\ op'[w] = Idle
      /\ \A v \in Workers \ {w} : op'[v] = op[v]
  BY HandlerMoves DEF DialogStep
<1>2. PICK d : d = Len(dialog) + 1
  OBVIOUS
<1>3. PICK c \in Chars : c = op[w].char
  BY <1>1 DEF HeardInv, TalkOps, TalkOK
<1>4. /\ DOMAIN dialog' = DOMAIN dialog \cup {d} /\ Len(dialog') = Len(dialog) + 1 /\ d \notin DOMAIN dialog
      /\ d \in Nat \ {0}
      /\ \A e \in DOMAIN dialog : dialog'[e] = dialog[e]
      /\ dialog'[d].char = c /\ ~dialog'[d].over
      /\ DialogRows'
  BY <1>1, <1>2, <1>3, Began
<1>5. /\ sessions' = [sessions EXCEPT ![c] = d]
      /\ twice' = IF sessions[c] # NoDialog THEN twice \cup {c} ELSE twice
      /\ rash' = rash
  BY <1>2, <1>3 DEF put, active
<1>6. Registered'
  <2>1. sessions' \in [Chars -> 0 .. Len(dialog')]
    BY <1>2, <1>4, <1>5, DialogsAre DEF HeardInv, Registered
  <2>2. ASSUME NEW b \in Chars, sessions'[b] # NoDialog PROVE dialog'[sessions'[b]].char = b /\ ~dialog'[sessions'[b]].over
    <3>1. CASE b = c
      BY <1>4, <1>5, <3>1 DEF HeardInv, Registered
    <3>2. CASE b # c
      <4>1. sessions'[b] = sessions[b] /\ sessions[b] \in DOMAIN dialog
        BY <1>5, <2>2, <3>2, DialogsAre DEF HeardInv, Registered, NoDialog
      <4> QED BY <1>4, <2>2, <4>1 DEF HeardInv, Registered
    <3> QED BY <3>1, <3>2
  <2>3. ASSUME NEW e \in DOMAIN dialog', ~dialog'[e].over, dialog'[e].char \notin twice'
        PROVE  sessions'[dialog'[e].char] = e
    <3>1. CASE e = d
      BY <1>4, <1>5, <3>1 DEF HeardInv, Registered
    <3>2. CASE e # d
      <4>1. e \in DOMAIN dialog /\ dialog'[e] = dialog[e]
        BY <1>4, <2>3, <3>2
      <4>2. sessions[dialog[e].char] = e /\ dialog[e].char \in Chars
        BY <1>5, <2>3, <4>1 DEF HeardInv, Registered, DialogRows, DialogRow
      <4>3. e # 0
        BY <4>1, DialogsAre DEF HeardInv
      <4>4. dialog[e].char # c
        BY <1>5, <2>3, <4>1, <4>2, <4>3 DEF NoDialog
      <4> QED BY <1>5, <4>1, <4>2, <4>4 DEF HeardInv, Registered
    <3> QED BY <3>1, <3>2
  <2> QED BY <2>1, <2>2, <2>3 DEF Registered
<1>7. TalkOps'
  BY <1>1, <1>4 DEF HeardInv, TalkOps, TalkOK, Talking
<1>8. twice' \subseteq Chars
  BY <1>5 DEF HeardInv
<1> QED BY <1>4, <1>5, <1>6, <1>7, <1>8 DEF HeardInv

\* What is known of a dialog whose channel or machine is written.
LEMMA BoxSet ==
    ASSUME DialogRows, NEW d \in DOMAIN dialog, NEW sig, dialog' = [dialog EXCEPT ![d].box = sig]
    PROVE  /\ DialogRows' /\ DOMAIN dialog' = DOMAIN dialog /\ Len(dialog') = Len(dialog)
           /\ \A e \in DOMAIN dialog \ {d} : dialog'[e] = dialog[e]
           /\ dialog'[d].char = dialog[d].char /\ dialog'[d].over = dialog[d].over /\ dialog'[d].vm = dialog[d].vm
           /\ dialog'[d].asked = dialog[d].asked /\ dialog'[d].box = sig
<1>1. PICK r : r = [dialog[d] EXCEPT !.box = sig]
  OBVIOUS
<1>2. dialog' = [dialog EXCEPT ![d] = r]
  BY <1>1, DialogsAre
<1>3. DialogRow(dialog[d])
  BY DEF DialogRows
<1>4. r = [char |-> dialog[d].char, prog |-> dialog[d].prog, vm |-> dialog[d].vm, box |-> sig, asked |-> dialog[d].asked,
           got |-> dialog[d].got, writer |-> dialog[d].writer, over |-> dialog[d].over]
  BY <1>1, <1>3 DEF DialogRow
<1>5. /\ r.char = dialog[d].char /\ r.over = dialog[d].over /\ r.vm = dialog[d].vm /\ r.asked = dialog[d].asked
      /\ r.box = sig /\ r.prog = dialog[d].prog /\ r.got = dialog[d].got /\ r.writer = dialog[d].writer
  BY <1>4
<1>6. DialogRow(r)
  BY <1>3, <1>4, <1>5 DEF DialogRow
<1> QED BY <1>2, <1>5, <1>6, RowChanges

LEMMA HeardSend ==
    ASSUME TypeInv, HeardInv, NEW w \in Workers, op[w] # Idle, Send(w), Elsewhere
    PROVE  HeardInv'
<1>1. /\ Talking(op[w]) /\ op'[w] = Idle
      /\ \A v \in Workers \ {w} : op'[v] = op[v]
  BY HandlerMoves DEF DialogStep
<1>2. PICK d \in DOMAIN dialog : d = op[w].to
  BY <1>1 DEF HeardInv, TalkOps, TalkOK, Send, At
<1>3. dialog' = dialog \/ dialog' = [dialog EXCEPT ![d].box = op[w].sig]
  BY <1>2 DEF Send
<1>4. UNCHANGED <<sessions, twice>> /\ rash' \subseteq Chars
  BY DEF Send, HeardInv
<1>5. /\ DialogRows' /\ DOMAIN dialog' = DOMAIN dialog /\ Len(dialog') = Len(dialog)
      /\ \A e \in DOMAIN dialog : dialog'[e].char = dialog[e].char /\ dialog'[e].over = dialog[e].over
  <2>1. CASE dialog' = dialog
    BY <2>1 DEF HeardInv, DialogRows
  <2>2. CASE dialog' = [dialog EXCEPT ![d].box = op[w].sig]
    BY <2>2, BoxSet DEF HeardInv
  <2> QED BY <1>3, <2>1, <2>2
<1>6. \A v \in Workers : op'[v] = op[v] \/ ~Talking(op'[v])
  BY <1>1 DEF Talking
<1> QED BY <1>4, <1>5, <1>6, HeardChanged

\* A step of a machine is one of a dialog that is not over.
LEMMA MachineSteps ==
    ASSUME HeardInv, NEW d \in DOMAIN dialog, Take(d) \/ Timeout(d) \/ Quest(d)
    PROVE  /\ ~dialog[d].over /\ UNCHANGED <<op, sessions, twice>> /\ rash' \subseteq Chars
           /\ \E a, box : Answered(d, a, box)
<1>1. DialogRow(dialog[d])
  BY DEF HeardInv, DialogRows
<1>2. dialog[d].vm.st \notin {"end", "panic"}
  BY DEF Take, Timeout, Quest, Waiting, Prompts
<1>3. UNCHANGED <<op, sessions, twice>> /\ rash' \subseteq Chars
  BY <1>1 DEF Take, Timeout, Quest, HeardInv, DialogRow
<1>4. \E a, box : Answered(d, a, box)
  BY DEF Take, Timeout, Quest
<1> QED BY <1>1, <1>2, <1>3, <1>4 DEF DialogRow

LEMMA HeardMachine ==
    ASSUME HeardInv, NEW d \in DOMAIN dialog, Take(d) \/ Timeout(d) \/ Quest(d)
    PROVE  HeardInv'
<1>1. PICK a, box : Answered(d, a, box)
  BY MachineSteps
<1>2. /\ DOMAIN dialog' = DOMAIN dialog /\ Len(dialog') = Len(dialog)
      /\ \A e \in DOMAIN dialog \ {d} : dialog'[e] = dialog[e]
      /\ dialog'[d].char = dialog[d].char /\ ~dialog'[d].over
      /\ DialogRows'
  BY <1>1, MachineSteps, Came DEF HeardInv
<1>3. \A e \in DOMAIN dialog : dialog'[e].char = dialog[e].char /\ dialog'[e].over = dialog[e].over
  <2>1. dialog[d].over \in BOOLEAN /\ dialog'[d].over \in BOOLEAN
    BY <1>2 DEF HeardInv, DialogRows, DialogRow
  <2>2. dialog'[d].over = dialog[d].over
    BY <1>2, <2>1, MachineSteps
  <2> QED BY <1>2, <2>2
<1> QED BY <1>2, <1>3, MachineSteps, HeardChanged
\* The end of a dialog.
LEMMA Ended ==
    ASSUME DialogRows, NEW d \in DOMAIN dialog, end(d)
    PROVE  /\ DialogRows' /\ DOMAIN dialog' = DOMAIN dialog /\ Len(dialog') = Len(dialog)
           /\ \A e \in DOMAIN dialog \ {d} : dialog'[e] = dialog[e]
           /\ dialog'[d].char = dialog[d].char /\ dialog'[d].over /\ dialog'[d].vm = dialog[d].vm
           /\ dialog'[d].asked = dialog[d].asked /\ dialog'[d].box = dialog[d].box
<1>0. PICK o : o = TRUE
  OBVIOUS
<1>1. PICK r : r = [dialog[d] EXCEPT !.over = o]
  OBVIOUS
<1>2. dialog' = [dialog EXCEPT ![d] = r]
  BY <1>0, <1>1, DialogsAre DEF end
<1>3. DialogRow(dialog[d])
  BY DEF DialogRows
<1>4. r = [char |-> dialog[d].char, prog |-> dialog[d].prog, vm |-> dialog[d].vm, box |-> dialog[d].box,
           asked |-> dialog[d].asked, got |-> dialog[d].got, writer |-> dialog[d].writer, over |-> o]
  BY <1>1, <1>3 DEF DialogRow
<1>5. /\ r.char = dialog[d].char /\ r.over = o /\ r.vm = dialog[d].vm /\ r.asked = dialog[d].asked
      /\ r.box = dialog[d].box /\ r.prog = dialog[d].prog /\ r.got = dialog[d].got /\ r.writer = dialog[d].writer
  BY <1>4
<1>6. dialog[d].vm.st \in {"end", "panic"}
  BY DEF end
<1>7. DialogRow(r)
  BY <1>0, <1>3, <1>4, <1>5, <1>6 DEF DialogRow
<1> QED BY <1>0, <1>2, <1>5, <1>7, RowChanges

LEMMA HeardEnd ==
    ASSUME HeardInv, NEW d \in DOMAIN dialog, end(d)
    PROVE  HeardInv'
<1>1. PICK c \in Chars : c = dialog[d].char
  BY DEF HeardInv, DialogRows, DialogRow
<1>2. sessions' = [sessions EXCEPT ![c] = NoDialog] /\ UNCHANGED <<op, rash, twice>> /\ ~dialog[d].over
  BY <1>1 DEF end
<1>3. /\ DialogRows' /\ DOMAIN dialog' = DOMAIN dialog /\ Len(dialog') = Len(dialog)
      /\ \A e \in DOMAIN dialog \ {d} : dialog'[e] = dialog[e]
      /\ dialog'[d].char = c /\ dialog'[d].over
  BY <1>1, Ended DEF HeardInv
<1>4. Registered'
  <2>1. sessions' \in [Chars -> 0 .. Len(dialog')]
    BY <1>2, <1>3, DialogsAre DEF HeardInv, Registered, NoDialog
  <2>2. ASSUME NEW b \in Chars, sessions'[b] # NoDialog PROVE dialog'[sessions'[b]].char = b /\ ~dialog'[sessions'[b]].over
    <3>1. b # c /\ sessions'[b] = sessions[b]
      BY <1>2, <2>2 DEF HeardInv, Registered
    <3>2. sessions[b] \in DOMAIN dialog
      BY <2>2, <3>1, DialogsAre DEF HeardInv, Registered, NoDialog
    <3>3. dialog[sessions[b]].char = b /\ ~dialog[sessions[b]].over
      BY <2>2, <3>1 DEF HeardInv, Registered
    <3>4. sessions[b] # d
      BY <1>1, <3>1, <3>3
    <3> QED BY <1>3, <3>1, <3>2, <3>3, <3>4
  <2>3. ASSUME NEW e \in DOMAIN dialog', ~dialog'[e].over, dialog'[e].char \notin twice'
        PROVE  sessions'[dialog'[e].char] = e
    <3>1. e # d /\ e \in DOMAIN dialog /\ dialog'[e] = dialog[e]
      BY <1>3, <2>3
    <3>2. sessions[dialog[e].char] = e /\ dialog[e].char \in Chars
      BY <1>2, <2>3, <3>1 DEF HeardInv, Registered, DialogRows, DialogRow
    <3>3. dialog[e].char # c
      <4>1. SUFFICES ASSUME dialog[e].char = c PROVE FALSE
        OBVIOUS
      <4>2. sessions[c] = d
        BY <1>1, <1>2, <2>3, <3>1, <4>1 DEF HeardInv, Registered
      <4> QED BY <3>1, <3>2, <4>1, <4>2
    <3> QED BY <1>2, <3>1, <3>2, <3>3 DEF HeardInv, Registered
  <2> QED BY <2>1, <2>2, <2>3 DEF Registered
<1>5. TalkOps'
  BY <1>1, <1>2, <1>3 DEF HeardInv, TalkOps, TalkOK
<1> QED BY <1>2, <1>3, <1>4, <1>5 DEF HeardInv

\* A close changes of a dialog only whom it writes to.
LEMMA Muted ==
    ASSUME DialogRows, NEW c, CloseDialogs(c)
    PROVE  /\ DialogRows' /\ DOMAIN dialog' = DOMAIN dialog /\ Len(dialog') = Len(dialog)
           /\ \A e \in DOMAIN dialog :
                 /\ dialog'[e].char = dialog[e].char /\ dialog'[e].over = dialog[e].over
                 /\ dialog'[e].vm = dialog[e].vm /\ dialog'[e].asked = dialog[e].asked /\ dialog'[e].box = dialog[e].box
<1>1. PICK n \in Nat : n = Len(dialog) /\ DOMAIN dialog = 1 .. n
  BY DialogsAre
<1>2. PICK no : no = FALSE
  OBVIOUS
<1>3. dialog' = [e \in 1 .. n |-> IF dialog[e].char = c THEN [dialog[e] EXCEPT !.writer = no] ELSE dialog[e]]
  BY <1>1, <1>2 DEF CloseDialogs
<1>4. PICK D : D = dialog'
  OBVIOUS
<1>5. D = [e \in 1 .. n |-> D[e]] /\ DOMAIN D = 1 .. n
  BY <1>3, <1>4
<1>6. D \in Seq({D[x] : x \in DOMAIN D}) /\ Len(D) = n
  BY <1>5, SeqTight
<1>7. ASSUME NEW e \in DOMAIN dialog
      PROVE  /\ D[e].char = dialog[e].char /\ D[e].over = dialog[e].over
             /\ D[e].vm = dialog[e].vm /\ D[e].asked = dialog[e].asked /\ D[e].box = dialog[e].box
             /\ DialogRow(D[e])
  <2>1. DialogRow(dialog[e])
    BY DEF DialogRows
  <2>2. CASE dialog[e].char = c
    <3>1. D[e] = [dialog[e] EXCEPT !.writer = no]
      BY <1>1, <1>3, <1>4, <2>2
    <3>2. D[e] = [char |-> dialog[e].char, prog |-> dialog[e].prog, vm |-> dialog[e].vm, box |-> dialog[e].box,
                  asked |-> dialog[e].asked, got |-> dialog[e].got, writer |-> no, over |-> dialog[e].over]
      BY <2>1, <3>1 DEF DialogRow
    <3>3. /\ D[e].char = dialog[e].char /\ D[e].over = dialog[e].over /\ D[e].prog = dialog[e].prog
          /\ D[e].vm = dialog[e].vm /\ D[e].asked = dialog[e].asked /\ D[e].box = dialog[e].box
          /\ D[e].got = dialog[e].got /\ D[e].writer = no
      BY <3>2
    <3> QED BY <2>1, <3>2, <3>3 DEF DialogRow
  <2>3. CASE dialog[e].char # c
    <3>1. D[e] = dialog[e]
      BY <1>1, <1>3, <1>4, <2>3
    <3> QED BY <2>1, <3>1
  <2> QED BY <2>2, <2>3
<1>8. DialogRows'
  BY <1>1, <1>4, <1>5, <1>6, <1>7 DEF DialogRows
<1> QED BY <1>1, <1>4, <1>5, <1>6, <1>7, <1>8

LEMMA HeardClose ==
    ASSUME HeardInv, NEW c \in Chars, Aside, CloseDialogs(c)
    PROVE  HeardInv'
<1>1. /\ DialogRows' /\ DOMAIN dialog' = DOMAIN dialog /\ Len(dialog') = Len(dialog)
      /\ \A e \in DOMAIN dialog : dialog'[e].char = dialog[e].char /\ dialog'[e].over = dialog[e].over
  BY Muted DEF HeardInv
<1>2. UNCHANGED <<sessions, twice>> /\ rash' \subseteq Chars
  BY DEF CloseDialogs, HeardInv
<1>3. CASE DOMAIN dialog = {}
  <2>1. Registered'
    BY <1>1, <1>2, <1>3, DialogsAre DEF HeardInv, Registered, NoDialog
  <2>2. TalkOps'
    BY <1>1 DEF HeardInv, TalkOps, TalkOK, Aside
  <2> QED BY <1>1, <1>2, <2>1, <2>2 DEF HeardInv
<1>4. CASE DOMAIN dialog # {}
  <2>1. PICK d \in DOMAIN dialog : TRUE
    BY <1>4
  <2> QED BY <1>1, <1>2, <2>1, HeardChanged DEF Aside
<1> QED BY <1>3, <1>4

LEMMA HeardStep == TypeInv /\ HeardInv /\ [Next]_vars => HeardInv'
<1> SUFFICES ASSUME TypeInv, HeardInv, [Next]_vars PROVE HeardInv'
  OBVIOUS
<1>1. CASE Aside /\ UNCHANGED dialogVars
  BY <1>1, HeardAside
<1>2. CASE \E w \in Workers, c \in Chars : DialogFrame(w, c)
  BY <1>2, HeardFrame
<1>3. CASE \E w \in Workers : op[w] # Idle /\ DialogStep(w) /\ Elsewhere
  BY <1>3, HeardPut, HeardSend DEF DialogStep
<1>4. CASE \E d \in DOMAIN dialog : VMStep(d)
  BY <1>4, HeardMachine, HeardEnd DEF VMStep
<1>5. CASE \E c \in Chars : Aside /\ CloseDialogs(c)
  BY <1>5, HeardClose
<1> QED BY <1>1, <1>2, <1>3, <1>4, <1>5, DialogCases

-----------------------------------------------------------------------------
\* AnsweredInTurn.

\* A dialog that waits is not over, and a character has one that is not.
LEMMA OneDialog ==
    ASSUME HeardInv, NEW c \in Chars, c \notin twice, NEW d \in DOMAIN dialog, NEW e \in DOMAIN dialog,
           dialog[d].char = c, dialog[e].char = c, ~dialog[d].over, Waiting(e)
    PROVE  d = e
<1>1. ~dialog[e].over
  BY DEF HeardInv, DialogRows, DialogRow, Waiting, Prompts
<1> QED BY <1>1 DEF HeardInv, Registered

\* Nothing lies about while no dialog of c waits.
LEMMA NothingAbout ==
    ASSUME NEW c, TurnOf(c), \A e \in DOMAIN dialog : dialog[e].char = c => ~Waiting(e)
    PROVE  seen[c] = NoPrompt /\ NoneSent(c) /\ NoneBoxed(c)
BY DEF TurnOf, Current, NoneSent, NoneBoxed

\* What a step does to others than c.
LEMMA TurnStays ==
    ASSUME NEW c \in Chars, TurnOf(c), seen'[c] \in {seen[c], NoPrompt},
           \A w \in Workers : op'[w] = op[w] \/ (~Sending(c, w) /\ ~Sending(c, w)'),
           \A e \in DOMAIN dialog : dialog[e].char = c =>
              /\ e \in DOMAIN dialog' /\ dialog'[e].char = c /\ dialog'[e].box = dialog[e].box
              /\ dialog'[e].asked = dialog[e].asked /\ dialog'[e].vm = dialog[e].vm,
           \A e \in DOMAIN dialog' : dialog'[e].char = c => e \in DOMAIN dialog /\ dialog[e].char = c
    PROVE  TurnOf(c)'
<1>1. \A p : Current(c, p) => Current(c, p)'
  BY DEF Current, Waiting
<1>2. \A e \in DOMAIN dialog' : Boxed(c, e)' => e \in DOMAIN dialog /\ Boxed(c, e)
  BY DEF Boxed
<1>3. \A w \in Workers : Sending(c, w)' => Sending(c, w) /\ op'[w] = op[w]
  BY DEF Sending
<1>4. (NoneSent(c) => NoneSent(c)') /\ (NoneBoxed(c) => NoneBoxed(c)')
  BY <1>2, <1>3 DEF NoneSent, NoneBoxed
<1>5. seen'[c] # NoPrompt => Current(c, seen[c])' /\ NoneSent(c)' /\ NoneBoxed(c)'
  <2>1. SUFFICES ASSUME seen'[c] # NoPrompt PROVE Current(c, seen[c])' /\ NoneSent(c)' /\ NoneBoxed(c)'
    OBVIOUS
  <2>2. PICK p : p = seen[c]
    OBVIOUS
  <2>3. seen'[c] = p /\ Current(c, p) /\ NoneSent(c) /\ NoneBoxed(c)
    BY <2>1, <2>2 DEF TurnOf
  <2>4. Current(c, p)'
    BY <1>1, <2>3
  <2>5. Current(c, seen[c])'
    BY <2>3, <2>4 DEF Current
  <2> QED BY <1>4, <2>3, <2>5
<1>6. ASSUME NEW w \in Workers, Sending(c, w)'
      PROVE  /\ op'[w].sig.to[1] = op'[w].to /\ Current(c, op[w].sig.to)'
             /\ \A v \in Workers : Sending(c, v)' => v = w
             /\ NoneBoxed(c)'
  <2>1. PICK p : p = op[w].sig.to
    OBVIOUS
  <2>2. Sending(c, w) /\ op'[w] = op[w]
    BY <1>3, <1>6
  <2>3. /\ p[1] = op[w].to /\ Current(c, p) /\ NoneBoxed(c)
        /\ \A v \in Workers : Sending(c, v) => v = w
    BY <2>1, <2>2 DEF TurnOf
  <2>4. Current(c, p)'
    BY <1>1, <2>3
  <2>5. Current(c, op[w].sig.to)'
    BY <2>1, <2>2, <2>4 DEF Current
  <2> QED BY <1>3, <1>4, <2>1, <2>2, <2>3, <2>5
<1>7. ASSUME NEW d \in DOMAIN dialog', Boxed(c, d)'
      PROVE  /\ dialog'[d].box.to[1] = d /\ Current(c, dialog[d].box.to)'
             /\ \A e \in DOMAIN dialog' : Boxed(c, e)' => e = d
  <2>1. d \in DOMAIN dialog /\ Boxed(c, d) /\ dialog'[d].box = dialog[d].box
    BY <1>2, <1>7 DEF Boxed
  <2>2. PICK p : p = dialog[d].box.to
    OBVIOUS
  <2>3. p[1] = d /\ Current(c, p) /\ \A e \in DOMAIN dialog : Boxed(c, e) => e = d
    BY <2>1, <2>2 DEF TurnOf
  <2>4. Current(c, p)'
    BY <1>1, <2>3
  <2>5. Current(c, dialog[d].box.to)'
    BY <2>1, <2>2, <2>4 DEF Current
  <2> QED BY <1>2, <2>1, <2>2, <2>3, <2>5
<1> QED BY <1>5, <1>6, <1>7 DEF TurnOf

\* Nothing lies about but for a prompt that has just been shown.
LEMMA TurnFresh ==
    ASSUME NEW c, NoneSent(c)', NoneBoxed(c)', seen'[c] = NoPrompt \/ Current(c, seen[c])'
    PROVE  TurnOf(c)'
BY DEF TurnOf, NoneSent, NoneBoxed

LEMMA TurnAside ==
    ASSUME HeardInv, TurnInv, Aside, UNCHANGED dialogVars
    PROVE  TurnInv'
<1>1. ASSUME NEW c \in Chars, c \notin rash \cup twice PROVE TurnOf(c)'
  <2>1. \A w \in Workers : op'[w] = op[w] \/ (~Sending(c, w) /\ ~Sending(c, w)')
    BY DEF Aside, Sending
  <2>2. UNCHANGED <<dialog, seen>>
    BY DEF dialogVars
  <2>3. TurnOf(c)
    BY <1>1 DEF TurnInv
  <2> QED BY <2>1, <2>2, <2>3, TurnStays
<1> QED BY <1>1 DEF TurnInv, dialogVars

LEMMA TurnFrame ==
    ASSUME TypeInv, HeardInv, TurnInv, NEW w \in Workers, NEW c \in Chars, DialogFrame(w, c)
    PROVE  TurnInv'
<1>1. ASSUME NEW part, NEW scripts, handleContactNPC(w, c, part, scripts) PROVE TurnInv'
  <2>1. PICK o : o.pc = "put" /\ Start(w, o)
    BY <1>1 DEF handleContactNPC
  <2>2. op'[w] = o /\ op[w] = Idle /\ \A v \in Workers \ {w} : op'[v] = op[v]
    BY <1>1, <2>1, OneMoves DEF handleContactNPC, Frame
  <2>3. UNCHANGED <<dialog, seen, rash, twice>>
    BY <1>1 DEF handleContactNPC, dialogVars
  <2>4. ASSUME NEW b \in Chars, b \notin rash \cup twice PROVE TurnOf(b)'
    <3>1. \A v \in Workers : op'[v] = op[v] \/ (~Sending(b, v) /\ ~Sending(b, v)')
      BY <2>1, <2>2 DEF Sending, Talking
    <3>2. TurnOf(b)
      BY <2>4 DEF TurnInv
    <3> QED BY <2>3, <3>1, <3>2, TurnStays
  <2> QED BY <2>3, <2>4 DEF TurnInv
<1>2. CASE Signal(w, c)
  <2>1. PICK o : /\ o.part = "dialog" /\ o.pc = "send" /\ o.char = c /\ o.to = sessions[c] /\ o.sig.to = seen[c]
                 /\ Start(w, o)
    <3>1. PICK sig \in Signals :
              Start(w, [part |-> "dialog", pc |-> "send", char |-> c, to |-> sessions[c],
                        sig |-> [kind |-> sig.kind, n |-> sig.n, to |-> seen[c]]])
      BY <1>2 DEF Signal
    <3> QED BY <3>1
  <2>2. op'[w] = o /\ op[w] = Idle /\ \A v \in Workers \ {w} : op'[v] = op[v]
    BY <1>2, <2>1, OneMoves DEF Signal, Frame
  <2>3. /\ UNCHANGED <<sessions, dialog, twice>> /\ seen' = [seen EXCEPT ![c] = NoPrompt]
        /\ rash' = IF seen[c] = NoPrompt THEN rash \cup {c} ELSE rash
    BY <1>2 DEF Signal
  <2>4. ASSUME NEW b \in Chars, b \notin rash' \cup twice', b # c PROVE TurnOf(b)'
    <3>1. \A v \in Workers : op'[v] = op[v] \/ (~Sending(b, v) /\ ~Sending(b, v)')
      BY <2>1, <2>2, <2>4 DEF Sending, Talking
    <3>2. TurnOf(b) /\ seen'[b] = seen[b]
      BY <2>3, <2>4 DEF TurnInv
    <3> QED BY <2>3, <3>1, <3>2, TurnStays
  <2>5. ASSUME c \notin rash' \cup twice' PROVE TurnOf(c)'
    <3>1. seen[c] # NoPrompt /\ c \notin twice /\ TurnOf(c) /\ seen'[c] = NoPrompt
      BY <2>3, <2>5 DEF TurnInv
    <3>2. Current(c, seen[c]) /\ NoneSent(c) /\ NoneBoxed(c)
      BY <3>1 DEF TurnOf
    <3>3. PICK d \in DOMAIN dialog : dialog[d].char = c /\ Waiting(d) /\ seen[c] = <<d, dialog[d].asked>>
      BY <3>2 DEF Current
    <3>4. ~dialog[d].over
      BY <3>3 DEF HeardInv, DialogRows, DialogRow, Waiting, Prompts
    <3>5. sessions[c] = d
      BY <3>1, <3>3, <3>4 DEF HeardInv, Registered
    <3>6. op'[w].sig.to[1] = op'[w].to
      BY <2>1, <2>2, <3>3, <3>5
    <3>7. Current(c, op[w].sig.to)' /\ NoneBoxed(c)'
      BY <2>1, <2>2, <2>3, <3>2 DEF Current, Waiting, NoneBoxed, Boxed
    <3>8. \A v \in Workers : Sending(c, v)' => v = w
      BY <2>2, <3>2 DEF NoneSent, Sending
    <3> QED BY <3>1, <3>6, <3>7, <3>8 DEF TurnOf, NoneBoxed
  <2>6. seen' = [b \in Chars |-> seen'[b]]
    BY <2>3 DEF TurnInv
  <2> QED BY <2>4, <2>5, <2>6 DEF TurnInv
<1> QED BY <1>1, <1>2 DEF DialogFrame

LEMMA TurnPut ==
    ASSUME TypeInv, HeardInv, TurnInv, NEW w \in Workers, op[w] # Idle, put(w), Elsewhere
    PROVE  TurnInv'
<1>1. /\ Talking(op[w]) /\ op[w].pc = "put" /\ op'[w] = Idle
      /\ \A v \in Workers \ {w} : op'[v] = op[v]
  BY HandlerMoves DEF DialogStep, put, At
<1>2. PICK d : d = Len(dialog) + 1
  OBVIOUS
<1>3. PICK c \in Chars : c = op[w].char
  BY <1>1 DEF HeardInv, TalkOps, TalkOK
<1>4. /\ DOMAIN dialog' = DOMAIN dialog \cup {d} /\ d \notin DOMAIN dialog
      /\ \A e \in DOMAIN dialog : dialog'[e] = dialog[e]
      /\ dialog'[d].char = c /\ dialog'[d].box = NoSignal
      /\ \/ seen' = seen
         \/ Waiting(d)' /\ seen' = [seen EXCEPT ![c] = <<d, dialog'[d].asked>>]
  BY <1>1, <1>2, <1>3, Began
<1>5. /\ twice' = IF sessions[c] # NoDialog THEN twice \cup {c} ELSE twice
      /\ rash' = rash
  BY <1>3 DEF put, active
<1>6. \A b \in Chars, v \in Workers : op'[v] = op[v] \/ (~Sending(b, v) /\ ~Sending(b, v)')
  BY <1>1 DEF Sending, Talking
<1>7. ASSUME NEW b \in Chars, b \notin rash' \cup twice', b # c PROVE TurnOf(b)'
  <2>1. TurnOf(b) /\ seen'[b] = seen[b]
    BY <1>4, <1>5, <1>7 DEF TurnInv
  <2> QED BY <1>4, <1>6, <1>7, <2>1, TurnStays
<1>8. ASSUME c \notin rash' \cup twice' PROVE TurnOf(c)'
  <2>1. sessions[c] = NoDialog /\ c \notin twice /\ TurnOf(c)
    BY <1>5, <1>8 DEF TurnInv
  <2>2. ASSUME NEW e \in DOMAIN dialog, dialog[e].char = c PROVE ~Waiting(e)
    <3>1. dialog[e].over
      BY <2>1, <2>2, DialogsAre DEF HeardInv, Registered, NoDialog
    <3> QED BY <3>1 DEF HeardInv, DialogRows, DialogRow, Waiting, Prompts
  <2>3. seen[c] = NoPrompt /\ NoneSent(c) /\ NoneBoxed(c)
    BY <2>1, <2>2, NothingAbout
  <2>4. NoneSent(c)'
    BY <1>6, <2>3 DEF NoneSent, Sending
  <2>5. NoneBoxed(c)'
    BY <1>4, <2>3 DEF NoneBoxed, Boxed
  <2>6. seen'[c] = NoPrompt \/ Current(c, seen[c])'
    BY <1>4, <2>3 DEF Current, TurnInv
  <2> QED BY <2>4, <2>5, <2>6, TurnFresh
<1>9. seen' = [b \in Chars |-> seen'[b]]
  BY <1>4 DEF TurnInv
<1> QED BY <1>7, <1>8, <1>9 DEF TurnInv

LEMMA TurnSend ==
    ASSUME TypeInv, HeardInv, TurnInv, NEW w \in Workers, op[w] # Idle, Send(w), Elsewhere
    PROVE  TurnInv'
<1>1. /\ Talking(op[w]) /\ op[w].pc = "send" /\ op'[w] = Idle
      /\ \A v \in Workers \ {w} : op'[v] = op[v]
  BY HandlerMoves DEF DialogStep, Send, At
<1>2. PICK d \in DOMAIN dialog : d = op[w].to
  BY <1>1 DEF HeardInv, TalkOps, TalkOK
<1>3. PICK c \in Chars : c = op[w].char /\ dialog[d].char = c
  BY <1>1, <1>2 DEF HeardInv, TalkOps, TalkOK
<1>4. /\ dialog' = IF dialog[d].box = NoSignal THEN [dialog EXCEPT ![d].box = op[w].sig] ELSE dialog
      /\ UNCHANGED <<seen, rash, twice>>
  BY <1>2 DEF Send
<1>5. /\ DOMAIN dialog' = DOMAIN dialog /\ \A e \in DOMAIN dialog \ {d} : dialog'[e] = dialog[e]
      /\ dialog'[d].char = c /\ dialog'[d].vm = dialog[d].vm /\ dialog'[d].asked = dialog[d].asked
      /\ dialog[d].box = NoSignal => dialog'[d].box = op[w].sig
  <2>1. CASE dialog' = dialog /\ dialog[d].box # NoSignal
    BY <1>3, <2>1
  <2>2. CASE dialog[d].box = NoSignal
    BY <1>3, <1>4, <2>2, BoxSet DEF HeardInv
  <2> QED BY <1>4, <2>1, <2>2
<1>6. ASSUME NEW b \in Chars, b \notin rash' \cup twice', b # c PROVE TurnOf(b)'
  <2>1. TurnOf(b)
    BY <1>4, <1>6 DEF TurnInv
  <2>2. \A v \in Workers : op'[v] = op[v] \/ (~Sending(b, v) /\ ~Sending(b, v)')
    BY <1>1, <1>3, <1>6 DEF Sending, Talking
  <2> QED BY <1>3, <1>4, <1>5, <1>6, <2>1, <2>2, TurnStays
<1>7. ASSUME c \notin rash' \cup twice' PROVE TurnOf(c)'
  <2>1. TurnOf(c) /\ Sending(c, w)
    BY <1>1, <1>3, <1>4, <1>7 DEF TurnInv, Sending
  <2>2. PICK p : p = op[w].sig.to
    OBVIOUS
  <2>3. /\ p[1] = d /\ Current(c, p) /\ NoneBoxed(c)
        /\ \A v \in Workers : Sending(c, v) => v = w
    BY <1>2, <2>1, <2>2 DEF TurnOf
  <2>4. seen[c] = NoPrompt
    BY <2>1 DEF TurnOf, NoneSent
  <2>5. dialog'[d].box = op[w].sig
    BY <1>3, <1>5, <2>3 DEF NoneBoxed, Boxed
  <2>6. NoneSent(c)'
    BY <1>1, <2>3 DEF NoneSent, Sending, Talking
  <2>7. \A e \in DOMAIN dialog' : Boxed(c, e)' => e = d
    BY <1>5, <2>3 DEF NoneBoxed, Boxed
  <2>8. Current(c, p)'
    BY <1>3, <1>5, <2>3 DEF Current, Waiting
  <2>9. dialog'[d].box.to = p
    BY <2>2, <2>5
  <2>10. ASSUME NEW e \in DOMAIN dialog', Boxed(c, e)'
         PROVE  dialog'[e].box.to[1] = e /\ Current(c, dialog[e].box.to)'
    <3>1. e = d
      BY <2>7, <2>10
    <3> QED BY <2>3, <2>8, <2>9, <3>1 DEF Current
  <2>11. seen'[c] = NoPrompt
    BY <1>4, <2>4
  <2> QED BY <2>6, <2>7, <2>10, <2>11 DEF TurnOf, NoneSent
<1> QED BY <1>4, <1>6, <1>7 DEF TurnInv

\* A machine goes on after an answer a, which leaves box in the channel.
LEMMA TurnCame ==
    ASSUME HeardInv, TurnInv, NEW d \in DOMAIN dialog, ~dialog[d].over, NEW a, NEW box, Answered(d, a, box),
           NEW c \in Chars, c = dialog[d].char, UNCHANGED <<op, twice>>, rash \subseteq rash',
           c \notin rash' \cup twice => box = NoSignal /\ seen[c] = NoPrompt /\ NoneSent(c)
                                        /\ \A e \in DOMAIN dialog \ {d} : ~Boxed(c, e)
    PROVE  TurnInv'
<1>1. /\ DOMAIN dialog' = DOMAIN dialog
      /\ \A e \in DOMAIN dialog \ {d} : dialog'[e] = dialog[e]
      /\ dialog'[d].char = c /\ dialog'[d].box = box
      /\ \/ seen' = seen
         \/ Waiting(d)' /\ seen' = [seen EXCEPT ![c] = <<d, dialog'[d].asked>>]
  BY Came DEF HeardInv
<1>2. ASSUME NEW b \in Chars, b \notin rash' \cup twice', b # c PROVE TurnOf(b)'
  <2>1. TurnOf(b) /\ seen'[b] = seen[b]
    BY <1>1, <1>2 DEF TurnInv
  <2> QED BY <1>1, <1>2, <2>1, TurnStays
<1>3. ASSUME c \notin rash' \cup twice' PROVE TurnOf(c)'
  <2>1. NoneSent(c)'
    BY <1>3 DEF NoneSent, Sending
  <2>2. NoneBoxed(c)'
    BY <1>1, <1>3 DEF NoneBoxed, Boxed
  <2>3. seen'[c] = NoPrompt \/ Current(c, seen[c])'
    BY <1>1, <1>3 DEF Current, TurnInv
  <2> QED BY <2>1, <2>2, <2>3, TurnFresh
<1>4. seen' = [b \in Chars |-> seen'[b]]
  BY <1>1 DEF TurnInv
<1> QED BY <1>2, <1>3, <1>4 DEF TurnInv

LEMMA TurnMachine ==
    ASSUME HeardInv, TurnInv, NEW d \in DOMAIN dialog, Take(d) \/ Timeout(d) \/ Quest(d)
    PROVE  TurnInv'
<1>1. PICK c \in Chars : c = dialog[d].char
  BY DEF HeardInv, DialogRows, DialogRow
<1>2. ~dialog[d].over /\ UNCHANGED <<op, twice>>
  BY MachineSteps
<1>3. CASE Take(d)
  <2>1. PICK a : Answered(d, a, NoSignal)
    BY <1>3 DEF Take
  <2>2. dialog[d].box # NoSignal /\ rash' = rash
    BY <1>3 DEF Take
  <2>3. ASSUME c \notin rash' \cup twice
        PROVE  seen[c] = NoPrompt /\ NoneSent(c) /\ \A e \in DOMAIN dialog \ {d} : ~Boxed(c, e)
    <3>1. TurnOf(c) /\ Boxed(c, d)
      BY <1>1, <2>2, <2>3 DEF TurnInv, Boxed
    <3> QED BY <3>1 DEF TurnOf, NoneBoxed, NoneSent
  <2> QED BY <1>1, <1>2, <2>1, <2>2, <2>3, TurnCame
<1>4. CASE Timeout(d)
  <2>1. PICK a, box : Answered(d, a, box)
    BY <1>4 DEF Timeout
  <2>2. rash' = rash \cup {c}
    BY <1>1, <1>4 DEF Timeout
  <2> QED BY <1>1, <1>2, <2>1, <2>2, TurnCame
<1>5. CASE Quest(d)
  <2>1. PICK a : Answered(d, a, dialog[d].box)
    BY <1>5 DEF Quest
  <2>2. rash' = rash /\ ~Waiting(d)
    BY <1>5 DEF Quest, Waiting, Prompts
  <2>3. ASSUME c \notin rash' \cup twice
        PROVE  seen[c] = NoPrompt /\ NoneSent(c) /\ NoneBoxed(c)
    <3>1. \A e \in DOMAIN dialog : dialog[e].char = c => ~Waiting(e)
      BY <1>1, <1>2, <2>2, <2>3, OneDialog
    <3>2. TurnOf(c)
      BY <2>2, <2>3 DEF TurnInv
    <3> QED BY <3>1, <3>2, NothingAbout
  <2>4. c \notin rash' \cup twice => dialog[d].box = NoSignal /\ \A e \in DOMAIN dialog : ~Boxed(c, e)
    BY <1>1, <2>3 DEF NoneBoxed, Boxed
  <2> QED BY <1>1, <1>2, <2>1, <2>2, <2>3, <2>4, TurnCame
<1> QED BY <1>3, <1>4, <1>5

LEMMA TurnEnd ==
    ASSUME HeardInv, TurnInv, NEW d \in DOMAIN dialog, end(d)
    PROVE  TurnInv'
<1>1. UNCHANGED <<op, seen, rash, twice>>
  BY DEF end
<1>2. /\ DOMAIN dialog' = DOMAIN dialog
      /\ \A e \in DOMAIN dialog :
            /\ dialog'[e].char = dialog[e].char /\ dialog'[e].vm = dialog[e].vm
            /\ dialog'[e].asked = dialog[e].asked /\ dialog'[e].box = dialog[e].box
  BY Ended DEF HeardInv
<1>3. ASSUME NEW c \in Chars, c \notin rash \cup twice PROVE TurnOf(c)'
  <2>1. TurnOf(c)
    BY <1>3 DEF TurnInv
  <2> QED BY <1>1, <1>2, <2>1, TurnStays
<1> QED BY <1>1, <1>3 DEF TurnInv

LEMMA TurnClose ==
    ASSUME HeardInv, TurnInv, NEW b \in Chars, Aside, CloseDialogs(b)
    PROVE  TurnInv'
<1>1. UNCHANGED <<rash, twice>> /\ seen' = [seen EXCEPT ![b] = NoPrompt]
  BY DEF CloseDialogs
<1>2. /\ DOMAIN dialog' = DOMAIN dialog
      /\ \A e \in DOMAIN dialog :
            /\ dialog'[e].char = dialog[e].char /\ dialog'[e].vm = dialog[e].vm
            /\ dialog'[e].asked = dialog[e].asked /\ dialog'[e].box = dialog[e].box
  BY Muted DEF HeardInv
<1>3. ASSUME NEW c \in Chars, c \notin rash \cup twice PROVE TurnOf(c)'
  <2>1. TurnOf(c) /\ seen'[c] \in {seen[c], NoPrompt}
    BY <1>1, <1>3 DEF TurnInv
  <2>2. \A w \in Workers : op'[w] = op[w] \/ (~Sending(c, w) /\ ~Sending(c, w)')
    BY DEF Aside, Sending
  <2> QED BY <1>2, <2>1, <2>2, TurnStays
<1>4. seen' = [c \in Chars |-> seen'[c]]
  BY <1>1 DEF TurnInv
<1> QED BY <1>1, <1>3, <1>4 DEF TurnInv

LEMMA TurnStep == TypeInv /\ HeardInv /\ TurnInv /\ [Next]_vars => TurnInv'
<1> SUFFICES ASSUME TypeInv, HeardInv, TurnInv, [Next]_vars PROVE TurnInv'
  OBVIOUS
<1>1. CASE Aside /\ UNCHANGED dialogVars
  BY <1>1, TurnAside
<1>2. CASE \E w \in Workers, c \in Chars : DialogFrame(w, c)
  BY <1>2, TurnFrame
<1>3. CASE \E w \in Workers : op[w] # Idle /\ DialogStep(w) /\ Elsewhere
  BY <1>3, TurnPut, TurnSend DEF DialogStep
<1>4. CASE \E d \in DOMAIN dialog : VMStep(d)
  BY <1>4, TurnMachine, TurnEnd DEF VMStep
<1>5. CASE \E c \in Chars : Aside /\ CloseDialogs(c)
  BY <1>5, TurnClose
<1> QED BY <1>1, <1>2, <1>3, <1>4, <1>5, DialogCases

-----------------------------------------------------------------------------
\* With dialogs beside them, the groups and contacts do what Society says: what the
\* theorems above say of SocietySpec holds of Spec, which the runs check.
LEMMA SocietySteps == [Next]_vars => [SocietyNext]_societyVars
<1>1. CASE UNCHANGED vars
  BY <1>1 DEF vars
<1>2. CASE Next
  BY <1>2 DEF Next, SocietyNext, DialogNext, OnClose
<1> QED BY <1>1, <1>2
THEOREM SocietyRefined == Spec => SocietySpec
<1>1. Init => SocietyInit
  BY DEF Init
<1> QED BY <1>1, SocietySteps, PTL DEF Spec, SocietySpec

LEMMA DialogsInit == Init => HeardInv /\ TurnInv
<1> SUFFICES ASSUME Init PROVE HeardInv /\ TurnInv
  OBVIOUS
<1>1. \A w \in Workers : ~Talking(op[w])
  BY DEF Init, SocietyInit, ConnInit, Talking
<1>2. /\ dialog = <<>> /\ sessions = [c \in Chars |-> NoDialog] /\ seen = [c \in Chars |-> NoPrompt]
      /\ rash = {} /\ twice = {}
  BY DEF Init, DialogInit
<1>3. DOMAIN dialog = {} /\ Len(dialog) = 0
  BY <1>2
<1>4. DialogRows
  BY <1>2, <1>3 DEF DialogRows
<1>5. HeardInv
  BY <1>1, <1>2, <1>3, <1>4 DEF HeardInv, TalkOps, Registered, NoDialog
<1>6. TurnInv
  BY <1>1, <1>2, <1>3 DEF TurnInv, TurnOf, Sending
<1> QED BY <1>5, <1>6

\* A dialog that runs is the session of its character until it is over, and none that
\* is over is, whatever script it runs and however clicks, answers, time-outs and
\* closes interleave; two clicks at once are excepted.
THEOREM HeardCorrect == Spec => []DialogHeard
<1> DEFINE IInv == TypeInv /\ HeardInv
<1>1. Init => IInv
  BY InitTypes, DialogsInit DEF Init
<1>2. IInv /\ [Next]_vars => IInv'
  BY SocietySteps, NextTypes, HeardStep
<1>3. IInv => DialogHeard
  <2> SUFFICES ASSUME HeardInv PROVE DialogHeard
    OBVIOUS
  <2>1. DialogTypeOK
    BY DEF HeardInv, Registered, DialogTypeOK
  <2> QED BY <2>1 DEF HeardInv, Registered, DialogHeard
<1> QED BY <1>1, <1>2, <1>3, PTL DEF Spec

\* What lies in the channel of a dialog that waits answers the prompt it waits in,
\* unless its player answered unasked, twice or around a time-out, or has two dialogs.
THEOREM TurnCorrect == Spec => []AnsweredInTurn
<1> DEFINE IInv == TypeInv /\ HeardInv /\ TurnInv
<1>1. Init => IInv
  BY InitTypes, DialogsInit DEF Init
<1>2. IInv /\ [Next]_vars => IInv'
  BY SocietySteps, NextTypes, HeardStep, TurnStep
<1>3. IInv => AnsweredInTurn
  <2> SUFFICES ASSUME HeardInv, TurnInv, NEW d \in DOMAIN dialog, Waiting(d), dialog[d].box # NoSignal,
                      dialog[d].char \notin rash \cup twice
               PROVE  dialog[d].box.to = <<d, dialog[d].asked>>
    BY DEF AnsweredInTurn
  <2>1. PICK c \in Chars : c = dialog[d].char
    BY DEF HeardInv, DialogRows, DialogRow
  <2>2. TurnOf(c) /\ Boxed(c, d)
    BY <2>1 DEF TurnInv, Boxed
  <2>3. dialog[d].box.to[1] = d /\ Current(c, dialog[d].box.to)
    BY <2>2 DEF TurnOf
  <2>4. PICK e \in DOMAIN dialog : dialog[d].box.to = <<e, dialog[e].asked>>
    BY <2>3 DEF Current
  <2> QED BY <2>3, <2>4
<1> QED BY <1>1, <1>2, <1>3, PTL DEF Spec
=============================================================================
