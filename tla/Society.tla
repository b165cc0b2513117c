------------------------------ MODULE Society ------------------------------
(***************************************************************************)
(* Parties, guilds, friends and whispers of one map server: Groups and      *)
(* Contacts over the same connections.  Closing a connection drops every    *)
(* pending invitation and request that touches its character                *)
(* (unregisterConn, gateway/app/map.go).                                    *)
(***************************************************************************)
EXTENDS Groups, Contacts

societyVars == <<live, op, budget, groupVars, contactVars>>

SocietyInit == ConnInit /\ GroupInit /\ ContactInit

\* What was read before the close and is stored after it.
Overtaken(c) ==
    op' = [w \in Workers |->
              IF op[w] # Idle /\ op[w].pc \in {"invite", "ask"} /\ c \in {op[w].char, op[w].who}
              THEN [op[w] EXCEPT !.flag = TRUE] ELSE op[w]]

unregisterConn(c) ==
    /\ c \in live
    /\ Spend("close")
    /\ live' = live \ {c}
    /\ clearInvitesFor(c)
    /\ clearFriendReqsFor(c)
    /\ Overtaken(c)
    /\ UNCHANGED <<belongs, groups, nextGroup, entitled, raced,
                   friends, ignores, ignoreAll, crossed>>

registerConn(c) ==
    /\ c \notin live
    /\ live' = live \cup {c}
    /\ UNCHANGED <<op, budget, groupVars, contactVars>>

GroupNext ==
    \E w \in Workers :
        /\ (\E c \in Chars : GroupFrame(w, c)) \/ (op[w] # Idle /\ GroupStep(w))
        /\ UNCHANGED contactVars
ContactNext ==
    \E w \in Workers :
        /\ (\E c \in Chars : ContactFrame(w, c)) \/ (op[w] # Idle /\ ContactStep(w))
        /\ UNCHANGED groupVars

\* The handlers of other parts run beside these, at statements of their own.
Other(o) == o # Idle => (o.part = "dialog" /\ o.pc \in {"put", "send"})
Elsewhere ==
    /\ budget' \in [Parts -> Nat]
    /\ op' = [w \in Workers |-> op'[w]]
    /\ \A w \in Workers : op'[w] # op[w] => Other(op[w]) /\ Other(op'[w])
    /\ UNCHANGED <<live, groupVars, contactVars>>

SocietyNext ==
    \/ GroupNext
    \/ ContactNext
    \/ Elsewhere
    \/ \E c \in Chars : unregisterConn(c) \/ registerConn(c)

SocietySpec == SocietyInit /\ [][SocietyNext]_societyVars

----------------------------------------------------------------------------
SocietyTypeOK ==
    /\ live \subseteq Chars
    /\ budget \in [Parts -> Nat]
    /\ GroupTypeOK /\ ContactTypeOK

\* What the tables say of who belongs to what is consistent in every interleaving:
\* no member of a group that is gone, no group without its people, no friendship
\* that only one side has.
MembershipConsistent == SocietyTypeOK /\ NoDanglingMember /\ GroupPeopled /\ FriendsMutual

\* Rosters and friend lists stay within their caps, which are counted by a statement
\* before the insert, until two acceptances overlap.
CapsHold == RosterBounded /\ FriendsBounded

\* Nothing that is pending outlives a connection it was made over.
NothingStale == InvitesFresh /\ RequestsFresh
=============================================================================
