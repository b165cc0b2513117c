------------------------------ MODULE Handover ------------------------------
(***************************************************************************)
(* A client's way from the login server over the char server to the map     *)
(* server: gateway/app/login.go with its rate limiter, account, char.go,    *)
(* character, and the check of CZ_ENTER in map.go.                          *)
(*                                                                         *)
(* The servers share the session store, which forgets a session some time   *)
(* after the login, and the char table.  A client sends its next request    *)
(* when the last one is answered, and echoes what it was told; clients of   *)
(* one account act at the same time.                                        *)
(***************************************************************************)
EXTENDS Naturals, FiniteSets

CONSTANTS
    Clients, Accounts, AccountOf,
    Slots, Names,
    MaxSlots,
    Capacity, RefillPerTick,     \* of the rate limiter; all clients share an IP
    StartChars,                  \* the char table at first
    MaxLogins, MaxRequests, MaxTicks, MaxFaults   \* bounds

Character == [account : Accounts, slot : Slots, name : Names, reserved : BOOLEAN]

ASSUME HandoverAssumption ==
    /\ AccountOf \in [Clients -> Accounts]
    /\ MaxSlots \in Nat /\ Capacity \in Nat \ {0} /\ RefillPerTick \in Nat
    /\ {MaxLogins, MaxRequests, MaxTicks, MaxFaults} \subseteq Nat

\* The characters of the table at first are numbered from 1, and are what Create makes
\* of an empty table.
ASSUME StartAssumption ==
    LET Ids == DOMAIN StartChars IN
    /\ Ids = 1 .. Cardinality(Ids)
    /\ IsFiniteSet(Ids)
    /\ StartChars \in [Ids -> Character]
    /\ \A i, j \in Ids : StartChars[i].name = StartChars[j].name => i = j
    /\ \A a \in Accounts :
          LET Own == {i \in Ids : StartChars[i].account = a} IN
          /\ Cardinality(Own) <= MaxSlots
          /\ \A i, j \in Own : StartChars[i].slot = StartChars[j].slot => i = j

VARIABLES
    bucket,       \* LoginRateLimiter: the bucket of the clients' IP
    session,      \* SessionStore: the LoginID1 of each account; 0 is none
    chars, nextChar,
    client,       \* each client, and the handler that serves its request
    world,        \* the characters the map server has admitted
    admitted,     \* history: logins the limiter has let through
    crowded,      \* history: two creations overlapped on an account
    deleted,      \* history: what each deletion found
    count

handoverVars == <<bucket, session, chars, nextChar, client, world, admitted, crowded, deleted, count>>

NoToken == 0
NoChar == 0
NoBucket == [tokens |-> 0, last |-> 0, seen |-> FALSE]

\* The stages of a client.  In Waiting it is owed an answer whatever happens: it has logged
\* in, entered, asked for a new character or for the final delete.  A select, a
\* reservation and a cancel may also end in "ignored", without an answer, and a
\* login over the limit is "dropped".
Waiting == {"auth", "put", "enter", "list", "make", "name", "delete", "map"}
Answered == {"accepted", "choosing", "zone", "in", "refused"}
Stages == Waiting \cup Answered \cup {"out", "dropped", "ignored", "reserve", "cancel"}

HandoverInit ==
    /\ bucket = NoBucket
    /\ session = [a \in Accounts |-> NoToken]
    /\ chars = StartChars /\ nextChar = Cardinality(DOMAIN StartChars) + 1
    /\ client = [p \in Clients |-> [stage |-> "out", token |-> NoToken, char |-> NoChar,
                                    want |-> << >>, over |-> FALSE]]
    /\ world = {}
    /\ admitted = 0 /\ crowded = FALSE /\ deleted = {}
    /\ count = [logins |-> 0, requests |-> 0, now |-> 0, faults |-> 0]

-----------------------------------------------------------------------------
At(p, stage) == client[p].stage = stage
Goto(p, stage) == client' = [client EXCEPT ![p].stage = stage]
\* The client is back at the list of its characters.
Chooses(q) == [stage |-> "choosing", token |-> client[q].token, char |-> NoChar,
               want |-> << >>, over |-> FALSE]
ToList(p) == client' = [client EXCEPT ![p] = Chooses(p)]
Counted(what, max) == count[what] < max /\ count' = [count EXCEPT ![what] = @ + 1]
Fails == Counted("faults", MaxFaults)
Request(p) == At(p, "choosing") /\ Counted("requests", MaxRequests)
\* The first statement of a select, a reservation or a cancel fails: it is not answered.
Unanswered(p) ==
    /\ At(p, "choosing")
    /\ count.requests < MaxRequests /\ count.faults < MaxFaults
    /\ count' = [count EXCEPT !.requests = @ + 1, !.faults = @ + 1]
    /\ Goto(p, "ignored")
Of(p) == AccountOf[p]

limits == <<bucket, admitted>>
table == <<chars, nextChar, crowded, deleted>>

-----------------------------------------------------------------------------
\* The login server.

\* Mutant of Allow: the first attempt does not count.
AllowFirstFree ==
    LET refilled == bucket.tokens + (count.now - bucket.last) * RefillPerTick
        tokens == IF refilled > Capacity THEN Capacity ELSE refilled
    IN IF ~bucket.seen THEN [ok |-> TRUE, left |-> Capacity]
       ELSE IF tokens < 1 THEN [ok |-> FALSE, left |-> tokens]
       ELSE [ok |-> TRUE, left |-> tokens - 1]

\* Allow: the first attempt of an IP makes a full bucket; later ones refill it by the
\* time gone by, up to its capacity, and each takes a token.
Allow ==
    LET refilled == bucket.tokens + (count.now - bucket.last) * RefillPerTick
        tokens == IF refilled > Capacity THEN Capacity ELSE refilled
    IN IF ~bucket.seen THEN [ok |-> TRUE, left |-> Capacity - 1]
       ELSE IF tokens < 1 THEN [ok |-> FALSE, left |-> tokens]
       ELSE [ok |-> TRUE, left |-> tokens - 1]

\* OnTraffic with a CA_LOGIN: a frame over the limit is not answered.
Login(p) ==
    /\ At(p, "out")
    /\ Counted("logins", MaxLogins)
    /\ bucket' = [tokens |-> Allow.left, last |-> count.now, seen |-> TRUE]
    /\ admitted' = IF Allow.ok THEN admitted + 1 ELSE admitted
    /\ Goto(p, IF Allow.ok THEN "auth" ELSE "dropped")
    /\ UNCHANGED <<session, table, world>>

\* Authenticate: the password is right and the account not banned, and two new
\* random tokens are drawn; or the login is refused.
Authenticate(p) ==
    /\ At(p, "auth")
    /\ \/ client' = [client EXCEPT ![p].stage = "put", ![p].token = count.logins]
       \/ Goto(p, "refused")
    /\ UNCHANGED <<limits, session, table, world, count>>

\* Mutant of PutSession: a login whose session is not stored is not answered.
PutSessionOrSilence(p) ==
    /\ At(p, "put")
    /\ \/ /\ session' = [session EXCEPT ![Of(p)] = client[p].token]
          /\ Goto(p, "accepted")
          /\ UNCHANGED count
       \/ Fails /\ Goto(p, "ignored") /\ UNCHANGED session
    /\ UNCHANGED <<limits, table, world>>

\* PutSession replaces the account's session.  When it fails the client is accepted
\* all the same.
PutSession(p) ==
    /\ At(p, "put")
    /\ \/ session' = [session EXCEPT ![Of(p)] = client[p].token] /\ UNCHANGED count
       \/ Fails /\ UNCHANGED session
    /\ Goto(p, "accepted")
    /\ UNCHANGED <<limits, table, world>>

\* The store forgets a session, and time goes by.
Expire(a) ==
    /\ session[a] # NoToken
    /\ Counted("now", MaxTicks)
    /\ session' = [session EXCEPT ![a] = NoToken]
    /\ UNCHANGED <<limits, table, client, world>>
Tick ==
    /\ Counted("now", MaxTicks)
    /\ UNCHANGED <<limits, session, table, client, world>>

-----------------------------------------------------------------------------
\* The char server.

CharEnter(p) ==
    /\ At(p, "accepted")
    /\ Goto(p, "enter")
    /\ UNCHANGED <<limits, session, table, world, count>>

\* Authorize: the account has a session and the token is its own.
Authorize(p) == session[Of(p)] # NoToken /\ session[Of(p)] = client[p].token
handleEnter(p) ==
    /\ At(p, "enter")
    /\ Goto(p, IF Authorize(p) THEN "list" ELSE "refused")
    /\ UNCHANGED <<limits, session, table, world, count>>
ListChars(p) ==
    /\ At(p, "list")
    /\ \/ Goto(p, "choosing") /\ UNCHANGED count
       \/ Fails /\ Goto(p, "refused")
    /\ UNCHANGED <<limits, session, table, world>>

ListByAccount(a) == {i \in DOMAIN chars : chars[i].account = a}

\* A slot that has no character is not answered.
handleSelectChar(p, slot) ==
    LET found == {i \in ListByAccount(Of(p)) : chars[i].slot = slot} IN
    /\ \/ Unanswered(p)
       \/ Request(p) /\ found = {} /\ Goto(p, "ignored")
       \/ /\ Request(p)
          /\ \E i \in found : client' = [client EXCEPT ![p].stage = "zone", ![p].char = i]
    /\ UNCHANGED <<limits, session, table, world>>

\* Mutant of SlotFree: only the number of characters is looked at.
SlotFreeCounted(a, slot) == Cardinality(ListByAccount(a)) < MaxSlots

\* The checks of Create on what ListByAccount returned, on the name, and the insert,
\* which the unique index on the name may refuse.
SlotFree(a, slot) ==
    /\ Cardinality(ListByAccount(a)) < MaxSlots
    /\ \A i \in ListByAccount(a) : chars[i].slot # slot
handleMakeChar(p, slot, name) ==
    /\ Request(p)
    /\ SlotFree(Of(p), slot)
    /\ client' = [client EXCEPT ![p].stage = "make", ![p].want = <<slot, name>>]
    /\ UNCHANGED <<limits, session, table, world>>
NameExists(p) ==
    /\ At(p, "make")
    /\ IF \E i \in DOMAIN chars : chars[i].name = client[p].want[2]
       THEN ToList(p) ELSE Goto(p, "name")
    /\ UNCHANGED <<limits, session, table, world, count>>

UniqueName(name) == \A i \in DOMAIN chars : chars[i].name # name
Insert(p) ==
    LET row == [account |-> Of(p), slot |-> client[p].want[1], name |-> client[p].want[2],
                reserved |-> FALSE]
        Creating(q) == Of(q) = Of(p) /\ client[q].stage \in {"make", "name"}
    IN
    /\ At(p, "name")
    /\ IF UniqueName(row.name)
       THEN /\ chars' = [i \in DOMAIN chars \cup {nextChar} |->
                            IF i = nextChar THEN row ELSE chars[i]]
            /\ nextChar' = nextChar + 1
            /\ crowded' = (crowded \/ \E q \in Clients \ {p} : Creating(q))
       ELSE UNCHANGED <<chars, nextChar, crowded>>
    /\ ToList(p)
    /\ UNCHANGED <<limits, session, deleted, world, count>>

\* ReserveDelete, CancelDelete and the final delete read the row and then write it; a
\* row of another account, or gone, is answered as not found.
Own(p, i) == i \in ListByAccount(Of(p))
handleDeleteReserved(p, i) ==
    /\ \/ Unanswered(p)
       \/ /\ Request(p)
          /\ Own(p, i) /\ ~chars[i].reserved
          /\ client' = [client EXCEPT ![p].stage = "reserve", ![p].char = i]
    /\ UNCHANGED <<limits, session, table, world>>
handleDeleteCancel(p, i) ==
    /\ \/ Unanswered(p)
       \/ /\ Request(p)
          /\ Own(p, i) /\ chars[i].reserved
          /\ client' = [client EXCEPT ![p].stage = "cancel", ![p].char = i]
    /\ UNCHANGED <<limits, session, table, world>>

\* A deletion of i under way is overtaken by a cancel.
Overtake(p, i) ==
    client' = [q \in Clients |->
                  IF q = p THEN Chooses(q)
                  ELSE IF At(q, "delete") /\ client[q].char = i
                  THEN [client[q] EXCEPT !.over = TRUE] ELSE client[q]]
\* SetDeleteDate fails, or finds the row gone: an error, and the request is not answered.
SetDeleteDate(p) ==
    LET i == client[p].char IN
    /\ client[p].stage \in {"reserve", "cancel"}
    /\ \/ /\ Own(p, i)
          /\ chars' = [chars EXCEPT ![i].reserved = At(p, "reserve")]
          /\ IF At(p, "cancel") THEN Overtake(p, i) ELSE ToList(p)
          /\ UNCHANGED count
       \/ ~Own(p, i) /\ Goto(p, "ignored") /\ UNCHANGED <<chars, count>>
       \/ Fails /\ Goto(p, "ignored") /\ UNCHANGED chars
    /\ UNCHANGED <<limits, session, nextChar, crowded, deleted, world>>

\* Mutant of MayDelete: the reservation is not looked at.
MayDeleteUnreserved(p, i) == Own(p, i)

\* deleteResultFor: the character is the account's and reserved, and the birthdate is
\* the account's (a wrong one is answered and changes nothing).
MayDelete(p, i) == Own(p, i) /\ chars[i].reserved
handleDelete(p, i) ==
    /\ Request(p)
    /\ MayDelete(p, i)
    /\ client' = [client EXCEPT ![p].stage = "delete", ![p].char = i, ![p].over = FALSE]
    /\ UNCHANGED <<limits, session, table, world>>
Delete(p) ==
    LET i == client[p].char IN
    /\ At(p, "delete")
    /\ IF Own(p, i)
       THEN /\ chars' = [j \in DOMAIN chars \ {i} |-> chars[j]]
            /\ deleted' = deleted \cup {[reserved |-> chars[i].reserved, over |-> client[p].over]}
       ELSE UNCHANGED <<chars, deleted>>
    /\ ToList(p)
    /\ UNCHANGED <<limits, session, nextChar, crowded, world, count>>

-----------------------------------------------------------------------------
\* The map server: CZ_ENTER is checked against the same session, and EnterMap loads
\* the row of a character that is not there yet.

MapEnter(p) ==
    /\ At(p, "zone")
    /\ \/ Goto(p, IF Authorize(p) THEN "map" ELSE "refused") /\ UNCHANGED count
       \/ Fails /\ Goto(p, "refused")
    /\ UNCHANGED <<limits, session, table, world>>
EnterMap(p) ==
    LET i == client[p].char IN
    /\ At(p, "map")
    /\ IF i \in DOMAIN chars /\ i \notin world
       THEN world' = world \cup {i} /\ Goto(p, "in")
       ELSE Goto(p, "refused") /\ UNCHANGED world
    /\ UNCHANGED <<limits, session, table, count>>

\* A failing statement of CH_ENTER, of EnterMap, of Create or of the final delete refuses it.
StatementFails(p) ==
    /\ Fails
    /\ \/ client[p].stage \in {"enter", "map"} /\ Goto(p, "refused")
       \/ client[p].stage \in {"make", "name", "delete"} /\ ToList(p)
    /\ UNCHANGED <<limits, session, table, world>>

\* CZ_RESTART: the player leaves the map, and the client goes back to the char server
\* with the token it has.
Restart(p) ==
    /\ At(p, "in")
    /\ Counted("requests", MaxRequests)
    /\ world' = world \ {client[p].char}
    /\ Goto(p, "accepted")
    /\ UNCHANGED <<limits, session, table>>

\* A client that was refused, or never answered, closes and begins again.
Retry(p) ==
    /\ client[p].stage \in {"refused", "dropped", "ignored"}
    /\ client' = [client EXCEPT ![p] = [Chooses(p) EXCEPT !.stage = "out", !.token = NoToken]]
    /\ UNCHANGED <<limits, session, table, world, count>>

Ask(p) ==
    \/ Login(p) \/ CharEnter(p) \/ MapEnter(p) \/ Restart(p) \/ Retry(p)
    \/ \E slot \in Slots : handleSelectChar(p, slot)
                           \/ \E name \in Names : handleMakeChar(p, slot, name)
    \/ \E i \in DOMAIN chars :
           handleDeleteReserved(p, i) \/ handleDeleteCancel(p, i) \/ handleDelete(p, i)

Serve(p) ==
    \/ Authenticate(p) \/ PutSession(p) \/ handleEnter(p) \/ ListChars(p)
    \/ NameExists(p) \/ Insert(p) \/ SetDeleteDate(p) \/ Delete(p) \/ EnterMap(p)
    \/ StatementFails(p)

HandoverNext ==
    \/ \E p \in Clients : Ask(p) \/ Serve(p)
    \/ \E a \in Accounts : Expire(a)
    \/ Tick

HandoverSpec == HandoverInit /\ [][HandoverNext]_handoverVars /\ \A p \in Clients : WF_handoverVars(Serve(p))

-----------------------------------------------------------------------------
Wants == {<< >>} \cup (Slots \X Names)
ClientState == [stage : Stages, token : 0 .. MaxLogins, char : Nat, want : Wants,
                over : BOOLEAN]
HandoverTypeOK ==
    /\ bucket \in [tokens : 0 .. Capacity, last : Nat, seen : BOOLEAN]
    /\ session \in [Accounts -> 0 .. MaxLogins]
    /\ nextChar \in Nat \ {0}
    /\ DOMAIN chars \subseteq 1 .. (nextChar - 1)
    /\ chars \in [DOMAIN chars -> Character]
    /\ client \in [Clients -> ClientState]
    /\ \A p \in Clients :
          /\ client[p].char < nextChar
          /\ client[p].stage \in {"make", "name"} => client[p].want \in Slots \X Names
    /\ admitted \in Nat
    /\ crowded \in BOOLEAN
    /\ deleted \subseteq [reserved : BOOLEAN, over : BOOLEAN]
    /\ count \in [logins : 0 .. MaxLogins, requests : Nat, now : Nat, faults : Nat]

\* However the attempts are spread over time, the limiter lets through no more than a
\* full bucket and what has been refilled since.
BurstBounded == HandoverTypeOK /\ admitted <= Capacity + count.now * RefillPerTick

\* No two characters have one name, though Create looks for the name in a statement of
\* its own and any number of clients create at once.
NamesUnique == \A i, j \in DOMAIN chars : chars[i].name = chars[j].name => i = j

\* An account has at most one character in a slot and no more than it may have, unless
\* two of its clients created characters at once: nothing but Create's own reads
\* stands behind the slots.
SlotsDistinct ==
    ~crowded =>
        \A a \in Accounts :
            /\ Cardinality(ListByAccount(a)) <= MaxSlots
            /\ \A i, j \in ListByAccount(a) : chars[i].slot = chars[j].slot => i = j

\* Creating never gives away what is taken: neither a name, which the unique index
\* guards, nor a slot, which only Create's reads guard.
CharactersDistinct == NamesUnique /\ SlotsDistinct

\* A character is deleted only while its deletion is reserved; a cancel that is
\* acknowledged between the check and the delete comes too late.
DeletedWasReserved == \A d \in deleted : d.reserved \/ d.over

\* A login the limiter admits, CH_ENTER, CH_MAKE_CHAR, CH_DELETE_CHAR3 and CZ_ENTER are
\* answered, whatever statement fails and whoever acts on the account meanwhile.  A
\* reservation and a cancel end too, but an error leaves their client without an answer.
RequestsEnd ==
    \A p \in Clients :
        /\ client[p].stage \in Waiting ~> client[p].stage \in Answered
        /\ client[p].stage \in {"reserve", "cancel"} ~>
               client[p].stage \in Answered \cup {"ignored"}
=============================================================================
