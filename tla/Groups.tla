------------------------------- MODULE Groups -------------------------------
(***************************************************************************)
(* Parties and guilds: the invitations the map server holds                 *)
(* (gateway/app/party.go, guild.go) and the tables behind them              *)
(* (social/party and social/guild, app/service.go and infra/gorm.go).       *)
(*                                                                         *)
(* Membership is a column of the char row.  A repository call is a          *)
(* transaction at the default isolation: it reads committed rows without    *)
(* locking them, and what it writes appears at its commit, a later step.    *)
(***************************************************************************)
EXTENDS Connections

CONSTANT MaxSize   \* MaxPartySize, and the MaxMember of a guild row

ASSUME GroupsAssumption == MaxSize \in Nat \ {0}

VARIABLES
    belongs,      \* char.party_id and char.guild_id; 0 is none
    groups,       \* the party and guild tables
    nextGroup,    \* the next id
    invites,      \* MapServer.partyInvites and guildInvites
    entitled,     \* history: who founded or was invited to what
    raced         \* history: which transactions overlapped on a character or a group

groupVars == <<belongs, groups, nextGroup, invites, entitled, raced>>

Kinds == {"party", "guild"}
NoGroup == 0
NoInvite == [group |-> NoGroup]

GroupInit ==
    /\ belongs = [k \in Kinds |-> [c \in Chars |-> NoGroup]]
    /\ groups = [k \in Kinds |-> << >>]
    /\ nextGroup = 1
    /\ invites = [k \in Kinds |-> [c \in Chars |-> NoInvite]]
    /\ entitled = {} /\ raced = {}

-----------------------------------------------------------------------------
\* Reads.

Exists(k, g) == g \in DOMAIN groups[k]
Members(k, g) == {c \in Chars : belongs[k][c] = g}
\* GetByMember fails for a character whose group has vanished, as for one without.
GetByMember(k, c) == belongs[k][c] # NoGroup /\ Exists(k, belongs[k][c])
Leads(k, c) == GetByMember(k, c) /\ groups[k][belongs[k][c]].leader = c
HasRoom(k, g) == Cardinality(Members(k, g)) < MaxSize

-----------------------------------------------------------------------------
\* Operations, and the transactions they open: tx is the one an operation is in, "" before it.

Txs == {"create", "join", "leave", "break"}
GroupOp(k, pc, c, who, g, flag) ==
    [part |-> k, pc |-> pc, char |-> c, who |-> who, group |-> g,
     tx |-> IF pc \in Txs THEN pc ELSE "", flag |-> flag]

\* The transaction of w commits while others that touch the same character or group
\* are past their reads.
Commit(w) ==
    LET Open(v) == op[v] # Idle /\ op[v].part = op[w].part /\ op[v].tx # ""
        Touches(v) == op[v].who = op[w].who \/ (op[w].group # NoGroup /\ op[v].group = op[w].group)
    IN raced' = raced \cup {{op[w].tx, op[v].tx} :
                               v \in {u \in Workers \ {w} : Open(u) /\ Touches(u)}}

SetBelongs(k, cs, g) ==
    belongs' = [belongs EXCEPT ![k] = [c \in Chars |-> IF c \in cs THEN g ELSE @[c]]]
DeleteGroup(k, g) ==
    groups' = [groups EXCEPT ![k] = [i \in DOMAIN @ \ {g} |-> @[i]]]

\* Create inserts the row and joins its founder to it.
Founded(w, k, row) ==
    LET c == op[w].who IN
    /\ groups' = [groups EXCEPT ![k] = [i \in DOMAIN @ \cup {nextGroup} |->
                                           IF i = nextGroup THEN row ELSE @[i]]]
    /\ SetBelongs(k, {c}, nextGroup)
    /\ nextGroup' = nextGroup + 1
    /\ entitled' = entitled \cup {<<k, nextGroup, c>>}
    /\ Commit(w) /\ Return(w)
    /\ UNCHANGED <<live, invites, budget>>
PartyCreate(w) ==
    /\ At(w, "create") /\ op[w].part = "party"
    /\ Founded(w, "party", [leader |-> op[w].who, share |-> FALSE])
GuildCreate(w) ==
    /\ At(w, "create") /\ op[w].part = "guild"
    /\ Founded(w, "guild", [leader |-> op[w].who])

\* Mutant of PartyMayJoin: the size is not looked at.
PartyMayJoinUncounted(g, c) == Exists("party", g) /\ belongs["party"][c] = NoGroup

\* AddMember's checks: the group is there, the character in none, a place is free.
PartyMayJoin(g, c) ==
    Exists("party", g) /\ belongs["party"][c] = NoGroup /\ HasRoom("party", g)
GuildMayJoin(g, c) ==
    Exists("guild", g) /\ belongs["guild"][c] = NoGroup /\ HasRoom("guild", g)
AddMember(w) ==
    LET k == op[w].part IN
    /\ At(w, "join")
    /\ SetBelongs(k, {op[w].who}, op[w].group)
    /\ Commit(w) /\ Return(w)
    /\ UNCHANGED <<live, groups, nextGroup, invites, entitled, budget>>

\* Mutant of PartyRemoveMember: the leader goes alone and the row with it.
PartyRemoveMemberAlone(w) ==
    /\ At(w, "leave") /\ op[w].part = "party"
    /\ SetBelongs("party", {op[w].who}, NoGroup)
    /\ IF op[w].flag THEN DeleteGroup("party", op[w].group) ELSE UNCHANGED groups
    /\ Commit(w) /\ Return(w)
    /\ UNCHANGED <<live, nextGroup, invites, entitled, budget>>

\* RemoveMember of a party: the leader takes everybody along (flag).
PartyRemoveMember(w) ==
    LET g == op[w].group IN
    /\ At(w, "leave") /\ op[w].part = "party"
    /\ IF op[w].flag
       THEN SetBelongs("party", Members("party", g), NoGroup) /\ DeleteGroup("party", g)
       ELSE SetBelongs("party", {op[w].who}, NoGroup) /\ UNCHANGED groups
    /\ Commit(w) /\ Return(w)
    /\ UNCHANGED <<live, nextGroup, invites, entitled, budget>>

\* RemoveMember of a guild counts who is left, in its transaction, and deletes the
\* row after the last (flag).
GuildCountLeft(w) ==
    /\ At(w, "leave") /\ op[w].part = "guild"
    /\ op' = [op EXCEPT ![w].pc = "left",
                        ![w].flag = Members("guild", op[w].group) \subseteq {op[w].who}]
    /\ UNCHANGED <<live, budget, groupVars>>
GuildRemoveMember(w) ==
    /\ At(w, "left")
    /\ SetBelongs("guild", {op[w].who}, NoGroup)
    /\ IF op[w].flag THEN DeleteGroup("guild", op[w].group) ELSE UNCHANGED groups
    /\ Commit(w) /\ Return(w)
    /\ UNCHANGED <<live, nextGroup, invites, entitled, budget>>

Break(w) ==
    /\ At(w, "break")
    /\ SetBelongs("guild", Members("guild", op[w].group), NoGroup)
    /\ DeleteGroup("guild", op[w].group)
    /\ Commit(w) /\ Return(w)
    /\ UNCHANGED <<live, nextGroup, invites, entitled, budget>>

SetOptions(w) ==
    LET g == op[w].group IN
    /\ At(w, "options")
    /\ groups' = IF Exists("party", g) THEN [groups EXCEPT !["party"][g].share = op[w].flag]
                                       ELSE groups
    /\ Return(w)
    /\ UNCHANGED <<live, belongs, nextGroup, invites, entitled, raced, budget>>

-----------------------------------------------------------------------------
\* Handlers.  Each begins with its reads and refusals.

\* Creating, for a character of no group.  A blank or taken name changes nothing.
Create(w, c, k) ==
    /\ Frame(w, c, k)
    /\ belongs[k][c] = NoGroup
    /\ Start(w, GroupOp(k, "create", c, c, NoGroup, FALSE))
    /\ UNCHANGED <<live, groupVars>>
handleMakeGroup(w, c) == Create(w, c, "party")
handleCreateGuild(w, c) == Create(w, c, "guild")

\* The leader invites a connected character of no group while a place is free; the
\* invitation is stored later.
Invite(w, c, k, t) ==
    /\ Frame(w, c, k)
    /\ Leads(k, c)
    /\ connFor(t)
    /\ ~GetByMember(k, t)
    /\ HasRoom(k, belongs[k][c])
    /\ Start(w, GroupOp(k, "invite", c, t, belongs[k][c], FALSE))
    /\ UNCHANGED <<live, groupVars>>
handleReqJoinGroup(w, c, t) == Invite(w, c, "party", t)
handleGuildInvite(w, c, t) == Invite(w, c, "guild", t)

\* setPartyInvite, setGuildInvite: a later invitation replaces an earlier one.
SetInvite(w) ==
    LET k == op[w].part IN
    /\ At(w, "invite")
    /\ invites' = [invites EXCEPT ![k][op[w].who] =
                      [group |-> op[w].group, by |-> op[w].char, late |-> op[w].flag]]
    /\ entitled' = entitled \cup {<<k, op[w].group, op[w].who>>}
    /\ Return(w)
    /\ UNCHANGED <<live, belongs, groups, nextGroup, raced, budget>>

\* Mutant of Answers: any answer is taken for the pending invitation's.
AnswersAny(inv, g) == inv # NoInvite

\* The answer names the group of the pending invitation.
Answers(inv, g) == inv # NoInvite /\ inv.group = g
\* The slot is read under one lock and cleared under another.
Answer(w, c, k, g, accept) ==
    /\ Frame(w, c, k)
    /\ Answers(invites[k][c], g)
    /\ Start(w, GroupOp(k, "answer", c, c, g, accept))
    /\ UNCHANGED <<live, groupVars>>
handleJoinGroup(w, c, g, accept) == Answer(w, c, "party", g, accept)
handleGuildReplyInvite(w, c, g, accept) == Answer(w, c, "guild", g, accept)

\* The invitation is dropped; an acceptance goes on to AddMember, which does not look
\* at the inviter again.
TakeInvite(w) ==
    LET k == op[w].part
        c == op[w].who
        g == op[w].group
        may == IF k = "party" THEN PartyMayJoin(g, c) ELSE GuildMayJoin(g, c)
    IN
    /\ At(w, "answer")
    /\ invites' = [invites EXCEPT ![k][c] = NoInvite]
    /\ IF op[w].flag /\ may THEN Start(w, GroupOp(k, "join", c, c, g, FALSE)) ELSE Return(w)
    /\ UNCHANGED <<live, belongs, groups, nextGroup, entitled, raced, budget>>

handleLeaveGroup(w, c) ==
    /\ Frame(w, c, "party")
    /\ GetByMember("party", c)
    /\ Start(w, GroupOp("party", "leave", c, c, belongs["party"][c], Leads("party", c)))
    /\ UNCHANGED <<live, groupVars>>
handleGuildLeave(w, c) ==
    /\ Frame(w, c, "guild")
    /\ GetByMember("guild", c)
    /\ Start(w, GroupOp("guild", "leave", c, c, belongs["guild"][c], FALSE))
    /\ UNCHANGED <<live, groupVars>>

\* The leader expels a member; expelling itself disbands the party.
handleExpelGroupMember(w, c, t) ==
    /\ Frame(w, c, "party")
    /\ Leads("party", c)
    /\ belongs["party"][t] = belongs["party"][c]
    /\ Start(w, GroupOp("party", "leave", c, t, belongs["party"][c], t = c))
    /\ UNCHANGED <<live, groupVars>>
handleGuildBan(w, c, t) ==
    /\ Frame(w, c, "guild")
    /\ Leads("guild", c)
    /\ t # c
    /\ belongs["guild"][t] = belongs["guild"][c]
    /\ Start(w, GroupOp("guild", "leave", c, t, belongs["guild"][c], FALSE))
    /\ UNCHANGED <<live, groupVars>>

\* The master disbands a guild no other member of which is online.
handleGuildBreak(w, c) ==
    /\ Frame(w, c, "guild")
    /\ Leads("guild", c)
    /\ Members("guild", belongs["guild"][c]) \cap live \subseteq {c}
    /\ Start(w, GroupOp("guild", "break", c, c, belongs["guild"][c], FALSE))
    /\ UNCHANGED <<live, groupVars>>

handleChangeGroupExpOption(w, c, share) ==
    /\ Frame(w, c, "party")
    /\ Leads("party", c)
    /\ Start(w, GroupOp("party", "options", c, c, belongs["party"][c], share))
    /\ UNCHANGED <<live, groupVars>>

-----------------------------------------------------------------------------
\* Mutant of clearInvitesFor: invitations the character has sent stay.
clearInvitesForTarget(c) ==
    invites' = [k \in Kinds |-> [t \in Chars |-> IF t = c THEN NoInvite ELSE invites[k][t]]]

\* clearPartyInvitesFor, clearGuildInvitesFor: what c was sent and what c has sent.
clearInvitesFor(c) ==
    invites' = [k \in Kinds |-> [t \in Chars |->
                   IF invites[k][t] # NoInvite /\ c \in {t, invites[k][t].by}
                   THEN NoInvite ELSE invites[k][t]]]

GroupFrame(w, c) ==
    \/ handleMakeGroup(w, c) \/ handleCreateGuild(w, c)
    \/ handleLeaveGroup(w, c) \/ handleGuildLeave(w, c)
    \/ handleGuildBreak(w, c)
    \/ \E share \in BOOLEAN : handleChangeGroupExpOption(w, c, share)
    \/ \E t \in Chars :
           \/ handleReqJoinGroup(w, c, t) \/ handleGuildInvite(w, c, t)
           \/ handleExpelGroupMember(w, c, t) \/ handleGuildBan(w, c, t)
    \/ \E g \in 1 .. (nextGroup - 1), accept \in BOOLEAN :
           handleJoinGroup(w, c, g, accept) \/ handleGuildReplyInvite(w, c, g, accept)

GroupStep(w) ==
    \/ PartyCreate(w) \/ GuildCreate(w)
    \/ SetInvite(w) \/ TakeInvite(w) \/ AddMember(w)
    \/ PartyRemoveMember(w)
    \/ GuildCountLeft(w) \/ GuildRemoveMember(w)
    \/ Break(w) \/ SetOptions(w)

-----------------------------------------------------------------------------
GroupTypeOK ==
    /\ belongs \in [Kinds -> [Chars -> 0 .. (nextGroup - 1)]]
    /\ \A k \in Kinds : DOMAIN groups[k] \subseteq 1 .. (nextGroup - 1)
    /\ \A k \in Kinds, c \in Chars : invites[k][c].group \in 0 .. (nextGroup - 1)

(***************************************************************************)
(* Nobody is left with the id of a group that is gone, where it could       *)
(* neither leave nor join again: disbanding clears every member, whoever    *)
(* leaves, expels or accepts meanwhile.  The one way there is an AddMember  *)
(* past its check when the group goes.                                      *)
(***************************************************************************)
NoDanglingMember ==
    raced \cap {{"join", "leave"}, {"join", "break"}} = {} =>
        \A k \in Kinds, c \in Chars : belongs[k][c] # NoGroup => Exists(k, belongs[k][c])

(***************************************************************************)
(* A party has its leader among its members, a guild somebody: a leader's   *)
(* departure disbands the party and the last departure deletes the guild.   *)
(* Only transactions of one character that overlap, or two departures from  *)
(* a guild at once, get round that.                                         *)
(***************************************************************************)
GroupPeopled ==
    raced \subseteq {{"break"}, {"break", "join"}, {"break", "leave"}, {"break", "create"}} =>
        /\ \A g \in DOMAIN groups["party"] : belongs["party"][groups["party"][g].leader] = g
        /\ \A g \in DOMAIN groups["guild"] : Members("guild", g) # {}

\* No roster is larger than the cap, unless two acceptances overlapped.
RosterBounded ==
    {"join"} \notin raced =>
        \A k \in Kinds : \A g \in DOMAIN groups[k] : Cardinality(Members(k, g)) <= MaxSize

\* Everybody in a group founded it or was invited to it, however late the answer and
\* whatever invitation has replaced the one it answers.
NobodyUninvited ==
    \A k \in Kinds, c \in Chars :
        belongs[k][c] # NoGroup => <<k, belongs[k][c], c>> \in entitled

(***************************************************************************)
(* An invitation is pending only between connected characters, so that a    *)
(* stale one is not answered after a reconnect.  Exempt is the invitation   *)
(* whose handler was between its reads and the slot when the close came.    *)
(***************************************************************************)
InvitesFresh ==
    \A k \in Kinds, c \in Chars :
        LET inv == invites[k][c] IN
        (inv # NoInvite /\ ~inv.late) => {c, inv.by} \subseteq live
=============================================================================
