------------------------------ MODULE Contacts ------------------------------
(***************************************************************************)
(* Friend lists and whispers: gateway/app/friend.go over social/friend      *)
(* (app/service.go, infra/gorm.go), and the whisper filters of              *)
(* gateway/app/chat.go.                                                     *)
(***************************************************************************)
EXTENDS Connections

CONSTANTS MaxFriends, MaxIgnore   \* maxIgnoreList

ASSUME ContactsAssumption == MaxFriends \in Nat /\ MaxIgnore \in Nat

VARIABLES
    friends,      \* the friends table: pairs <<owner, friend>>
    requests,     \* MapServer.friendReqs, by acceptor
    ignores, ignoreAll,   \* MapServer.ignores and ignoreAll
    crossed       \* history: two Adds overlapped on a character

contactVars == <<friends, requests, ignores, ignoreAll, crossed>>

NoRequest == [from |-> {}]

ContactInit ==
    /\ friends = {}
    /\ requests = [c \in Chars |-> NoRequest]
    /\ ignores = [c \in Chars |-> {}] /\ ignoreAll = [c \in Chars |-> FALSE]
    /\ crossed = FALSE

ContactOp(part, pc, c, who, flag) ==
    [part |-> part, pc |-> pc, char |-> c, who |-> who, flag |-> flag]

-----------------------------------------------------------------------------
\* Friends.

List(c) == {f \in Chars : <<c, f>> \in friends}
Full(c) == Cardinality(List(c)) >= MaxFriends
Pair(a, b) == {<<a, b>>, <<b, a>>}

\* The requester must have room and not have the friend; the acceptor is looked at
\* when it answers.  The request is stored later.
handleFriendsAdd(w, c, t) ==
    /\ Frame(w, c, "friend")
    /\ t # c /\ connFor(t)
    /\ t \notin List(c) /\ ~Full(c)
    /\ Start(w, ContactOp("friend", "ask", c, t, FALSE))
    /\ UNCHANGED <<live, contactVars>>
setFriendReq(w) ==
    /\ At(w, "ask")
    /\ requests' = [requests EXCEPT ![op[w].who] = [from |-> {op[w].char}, late |-> op[w].flag]]
    /\ Return(w)
    /\ UNCHANGED <<live, friends, ignores, ignoreAll, crossed, budget>>

\* Add's checks, of the requester a and the acceptor b.
MayBefriend(a, b) == <<a, b>> \notin friends /\ ~Full(a) /\ ~Full(b)

\* takeFriendReq pops the request whether or not the answer names its sender.
handleFriendsReply(w, c, a, accept) ==
    /\ Frame(w, c, "friend")
    /\ requests[c] # NoRequest
    /\ requests' = [requests EXCEPT ![c] = NoRequest]
    /\ IF requests[c].from = {a} /\ connFor(a) /\ accept /\ MayBefriend(a, c)
       THEN Start(w, ContactOp("friend", "befriend", a, c, FALSE))
       ELSE UNCHANGED op
    /\ UNCHANGED <<live, friends, ignores, ignoreAll, crossed>>

\* Add inserts both directions or, where a row is there already, neither.
Add(w) ==
    LET pair == Pair(op[w].char, op[w].who)
        Meets(v) == op[v] # Idle /\ op[v].pc = "befriend"
                    /\ {op[v].char, op[v].who} \cap {op[w].char, op[w].who} # {}
    IN
    /\ At(w, "befriend")
    /\ friends' = IF pair \cap friends = {} THEN friends \cup pair ELSE friends
    /\ crossed' = (crossed \/ \E v \in Workers \ {w} : Meets(v))
    /\ Return(w)
    /\ UNCHANGED <<live, requests, ignores, ignoreAll, budget>>

handleFriendsRemove(w, c, f) ==
    /\ Frame(w, c, "friend")
    /\ f \in List(c)
    /\ Start(w, ContactOp("friend", "unfriend", c, f, FALSE))
    /\ UNCHANGED <<live, contactVars>>

\* Remove deletes both directions, if the owner still has the pair.
Remove(w) ==
    LET pair == Pair(op[w].char, op[w].who) IN
    /\ At(w, "unfriend")
    /\ friends' = IF <<op[w].char, op[w].who>> \in friends THEN friends \ pair ELSE friends
    /\ Return(w)
    /\ UNCHANGED <<live, requests, ignores, ignoreAll, crossed, budget>>

clearFriendReqsFor(c) ==
    requests' = [t \in Chars |-> IF t = c \/ c \in requests[t].from THEN NoRequest
                                                                    ELSE requests[t]]

-----------------------------------------------------------------------------
\* Whispers.

\* Mutant of Denied: the names on the list are not looked up.
DeniedAll(t, c) == ignoreAll[t]

Denied(t, c) == ignoreAll[t] \/ c \in ignores[t]

\* The filter is read under the lock, the text written to the target's connection
\* afterwards; flag says whether the target denied the sender all along.
handleWhisper(w, c, t) ==
    /\ Frame(w, c, "chat")
    /\ connFor(t)
    /\ Start(w, ContactOp("chat", "gate", c, t, ignoreAll[t] \/ c \in ignores[t]))
    /\ UNCHANGED <<live, contactVars>>
Gate(w) ==
    /\ At(w, "gate")
    /\ IF Denied(op[w].who, op[w].char) THEN Return(w) ELSE Goto(w, "deliver")
    /\ UNCHANGED <<live, budget, contactVars>>
Deliver(w) ==
    /\ At(w, "deliver")
    /\ Return(w)
    /\ UNCHANGED <<live, budget, contactVars>>

\* A whisper under way to c is no longer denied all along once c admits its sender.
Admits(c, names, all) ==
    op' = [w \in Workers |->
              IF op[w] # Idle /\ op[w].part = "chat" /\ op[w].who = c
                 /\ ~all /\ op[w].char \notin names
              THEN [op[w] EXCEPT !.flag = FALSE] ELSE op[w]]

\* /ex and /in: one name is blocked, if the list has room, or admitted.
handlePMIgnore(w, c, t, block) ==
    LET names == IF block THEN ignores[c] \cup {t} ELSE ignores[c] \ {t} IN
    /\ Frame(w, c, "chat")
    /\ names # ignores[c]
    /\ block => Cardinality(ignores[c]) < MaxIgnore
    /\ ignores' = [ignores EXCEPT ![c] = names]
    /\ Admits(c, names, ignoreAll[c])
    /\ UNCHANGED <<live, friends, requests, ignoreAll, crossed>>

\* /exall denies everybody, /inall admits everybody and forgets the list.
handleSettingWhisperState(w, c, deny) ==
    /\ Frame(w, c, "chat")
    /\ IF deny THEN ~ignoreAll[c] ELSE ignoreAll[c] \/ ignores[c] # {}
    /\ ignoreAll' = [ignoreAll EXCEPT ![c] = deny]
    /\ ignores' = IF deny THEN ignores ELSE [ignores EXCEPT ![c] = {}]
    /\ Admits(c, ignores'[c], deny)
    /\ UNCHANGED <<live, friends, requests, crossed>>

ContactFrame(w, c) ==
    \/ \E t \in Chars :
           \/ handleFriendsAdd(w, c, t) \/ handleFriendsRemove(w, c, t)
           \/ \E accept \in BOOLEAN : handleFriendsReply(w, c, t, accept)
           \/ handleWhisper(w, c, t)
           \/ \E block \in BOOLEAN : handlePMIgnore(w, c, t, block)
    \/ \E deny \in BOOLEAN : handleSettingWhisperState(w, c, deny)

ContactStep(w) ==
    \/ setFriendReq(w) \/ Add(w) \/ Remove(w)
    \/ Gate(w) \/ Deliver(w)

-----------------------------------------------------------------------------
ContactTypeOK ==
    /\ friends \subseteq Chars \X Chars
    /\ \A c \in Chars : requests[c].from \subseteq Chars
    /\ ignores \in [Chars -> SUBSET Chars] /\ ignoreAll \in [Chars -> BOOLEAN]

\* Friendship is mutual in every interleaving of accepts and removals: the two rows of
\* a pair come and go together.
FriendsMutual == \A p \in friends : <<p[2], p[1]>> \in friends

\* No list is longer than its cap, unless two acceptances overlapped on a character.
FriendsBounded == ~crossed => \A c \in Chars : Cardinality(List(c)) <= MaxFriends

\* A friend request is pending only between connected characters, so that a stale one
\* is not answered after a reconnect; exempt is one whose handler the close overtook.
RequestsFresh ==
    \A c \in Chars :
        (requests[c] # NoRequest /\ ~requests[c].late) => {c} \cup requests[c].from \subseteq live

\* A whisper is not delivered to a character that denied its sender from the moment
\* it arrived until it is written.
WhisperFiltered ==
    \A w \in Workers : (op[w] # Idle /\ At(w, "deliver")) => ~op[w].flag
=============================================================================
