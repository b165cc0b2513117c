-------------------------------- MODULE Wire --------------------------------
(***************************************************************************)
(* One connection of a gateway listener.  The client writes packets; TCP    *)
(* hands their bytes over in pieces; OnTraffic, on the event loop, cuts the *)
(* buffered bytes into frames and gives each frame to a goroutine of its    *)
(* own, which parses it.  CH_ENTER and CZ_ENTER give the connection its     *)
(* identity; the frames behind them are served only with it.                *)
(***************************************************************************)
EXTENDS PacketDB, PacketsIn, PacketsOut, Sequences

CONSTANTS
    MaxSent,       \* packets the client writes
    TextLengths,   \* lengths of the texts and lists it writes
    ShortSizes     \* sizes of the variable frames it cuts short

ASSUME WireAssumption ==
    /\ MaxSent \in Nat
    /\ TextLengths \subseteq Nat
    /\ ShortSizes \subseteq Nat
    /\ \A n \in ShortSizes : 4 <= n /\ n <= 65535

VARIABLES
    server,     \* the listener: "login", "char" or "map"
    sent,       \* the packets the client wrote, in order
    arrived,    \* bytes of them that reached the inbound buffer
    pos,        \* bytes OnTraffic has taken from it
    looping,    \* OnTraffic is running
    auth,       \* the identity cached on the connection is there
    running,    \* the frames handler goroutines hold
    accepted,   \* the client has seen the accept of its enter
    dropped,    \* packets whose handler returned for lack of identity
    closed,     \* a handler panicked and closeOnPanic closed the connection
    written     \* the frame the server wrote unprompted, or none

wireVars == <<server, sent, arrived, pos, looping, auth, running, accepted, dropped,
              closed, written>>

-----------------------------------------------------------------------------
\* The tables of each listener.
Servers == {"login", "char", "map"}
In == [login |-> LoginIn, char |-> CharIn, map |-> MapIn]
Out == [login |-> LoginOut, char |-> CharOut, map |-> MapOut]
Parsers == [login |-> LoginParsers, char |-> CharParsers, map |-> MapParsers]
db == [login |-> NewLoginServerDB, char |-> NewCharServerDB, map |-> NewMapServerDB]
handlers == [login |-> {}, char |-> charHandlers, map |-> mapHandlers]

\* No client writes more than its packet's length field can announce.
ASSUME TextAssumption ==
    \A s \in Servers : \A l \in In[s] : l.prefixed => \A n \in TextLengths : n <= l.most

Enters == {\h0064, \h0065, \h0072}
ParserOf == [s \in Servers |->
    [id \in Enters \cup {h[1] : h \in handlers[s]} |-> {p \in Parsers[s] : id \in p.ids}]]

(***************************************************************************)
(* What a client writes: an encoder's packet; a variable frame cut short; a *)
(* bare command nobody knows; a variable frame whose length field is        *)
(* smaller than its own header.  field is the 16 bits at offset 2, chars    *)
(* counts the entries or the bytes other than NUL behind its fields, late   *)
(* says the packet was written after the client had been accepted, and at   *)
(* is its place in the stream.                                              *)
(***************************************************************************)
Payload == 65535
Packet(id, size, field, chars) ==
    [id |-> id, size |-> size, field |-> field, chars |-> chars, late |-> FALSE, at |-> 0]
Encoded ==
    [s \in Servers |->
        {Packet(l.id, l.base, Payload, 0) : l \in {k \in In[s] : ~k.prefixed}}
        \cup {Packet(l.id, Size(l, n), LengthField(l, n), n) :
                 l \in {k \in In[s] : k.prefixed}, n \in TextLengths}]
Short ==
    {Packet(h[1], n, n, chars) :
        h \in {g \in mapHandlers : g[2] = VariableLength}, n \in ShortSizes, chars \in 0..1}
Unknown == Packet(\hffff, 2, Payload, 0)
Malformed == Packet(\h008c, 4, 3, 0)
Odd == [login |-> {}, char |-> {Unknown}, map |-> {Unknown, Malformed} \cup Short]
Packets == [s \in Servers |-> Encoded[s] \cup Odd[s]]

\* Bound: of two packets one is a login, an enter, a chat line or an unknown one.
Common == {\h0064, \h0065, \h0072, \h008c, \hffff}

Start(k) == sent[k].at
End(k) == Start(k) + sent[k].size
Total == IF sent = << >> THEN 0 ELSE End(Len(sent))

WireInit ==
    /\ server \in Servers
    /\ sent = << >>
    /\ arrived = 0
    /\ pos = 0
    /\ looping = FALSE
    /\ auth = FALSE
    /\ running = {}
    /\ accepted = FALSE
    /\ dropped = {}
    /\ closed = FALSE
    /\ written = None

Send(p) ==
    /\ Len(sent) < MaxSent
    /\ ~closed
    /\ written = None
    /\ sent # << >> => {p.id, sent[1].id} \cap Common # {}
    /\ sent' = Append(sent, [p EXCEPT !.late = accepted, !.at = Total])
    /\ UNCHANGED <<server, arrived, pos, looping, auth, running, accepted, dropped, closed,
                   written>>

\* TCP delivers bytes, and each arrival wakes OnTraffic.  Only the ends around a
\* packet's header and its last byte differ to code that counts bytes.
Edges ==
    UNION {{Start(k) + 1, Start(k) + 2, Start(k) + 3, Start(k) + 4, End(k) - 1, End(k)} :
               k \in DOMAIN sent}
Deliver(to) ==
    /\ ~closed
    /\ to \in arrived + 1..Total
    /\ arrived' = to
    /\ looping' = TRUE
    /\ UNCHANGED <<server, sent, pos, auth, running, accepted, dropped, closed, written>>

-----------------------------------------------------------------------------
\* The packet whose bytes begin the inbound buffer, and how far into it they are.
InboundBuffered == arrived - pos
Front == CHOOSE k \in DOMAIN sent : Start(k) <= pos /\ pos < End(k)
Offset == pos - Start(Front)

\* The 16 bits at the front of the buffer, and those two bytes further.
Opcode ==
    IF Offset = 0 THEN sent[Front].id
    ELSE IF Offset = 2 THEN sent[Front].field
    ELSE Payload
Field == IF Offset = 0 THEN sent[Front].field ELSE Payload

\* A length a table holds, resolved against the buffer: how many bytes to take,
\* or 0 while they are not all there.

variableFrameSize ==
    IF InboundBuffered < 4 THEN 0
    ELSE IF Field < 4 THEN 2
    ELSE IF InboundBuffered < Field THEN 0
    ELSE Field

\* Mutant of frameLen: a frame is complete only when a byte follows it.
frameLenOffByOne(length) ==
    IF length = VariableLength THEN variableFrameSize
    ELSE IF InboundBuffered <= length THEN 0
    ELSE length

frameLen(length) ==
    IF length = VariableLength THEN variableFrameSize
    ELSE IF InboundBuffered < length THEN 0
    ELSE length

\* Mutant of unhandledSkip: the database is not asked.
unhandledHeader == 2

unhandledSkip ==
    IF Has(db[server], Opcode) THEN frameLen(Length(db[server], Opcode)) ELSE 2

\* What one round of OnTraffic's loop takes from the buffer.
Handled == server = "login" \/ Has(handlers[server], Opcode)
Take ==
    IF server = "login" THEN frameLen(loginFrameSize)
    ELSE IF InboundBuffered < 2 THEN 0
    ELSE IF Handled THEN frameLen(Length(handlers[server], Opcode))
    ELSE unhandledSkip

Wait ==
    /\ looping
    /\ Take = 0
    /\ looping' = FALSE
    /\ UNCHANGED <<server, sent, arrived, pos, auth, running, accepted, dropped, closed,
                   written>>

\* The loop cuts a frame, reads the identity and starts the handler.
Dispatch ==
    /\ looping
    /\ Take > 0
    /\ Handled
    /\ pos' = pos + Take
    /\ running' = running \cup
           {[at |-> pos, id |-> Opcode, size |-> Take, auth |-> auth, step |-> "parse"]}
    /\ UNCHANGED <<server, sent, arrived, looping, auth, accepted, dropped, closed, written>>

\* The loop discards a frame nobody handles, and the login server one the rate
\* limiter denies.
Skip ==
    /\ looping
    /\ Take > 0
    /\ ~Handled \/ server = "login"
    /\ pos' = pos + Take
    /\ UNCHANGED <<server, sent, arrived, looping, auth, running, accepted, dropped, closed,
                   written>>

OnTraffic == Wait \/ Dispatch \/ Skip

-----------------------------------------------------------------------------
\* A handler.  The map server's frame carries the identity the loop read; the char
\* server's handler reads it itself.  An enter and a login need none.
Identity(f) == IF server = "map" THEN f.auth ELSE auth
MayRun(f) == f.id \in Enters \/ Identity(f)
Parser(f) == ParserOf[server][f.id]
Blank(f) == \E k \in DOMAIN sent : Start(k) = f.at /\ sent[k].chars = 0
Done(f) == running' = running \ {f}

\* The handler returns: nobody has entered on this connection.
Drop(f) ==
    /\ f.step = "parse"
    /\ ~MayRun(f)
    /\ Done(f)
    /\ dropped' = dropped \cup {f.at}
    /\ UNCHANGED <<server, sent, arrived, pos, looping, auth, accepted, closed, written>>

\* The parser refuses the frame, by its length or by what it reads in it, or panics
\* and closeOnPanic closes the connection, or hands the fields to the body of the
\* handler.
Refused(p, f) ==
    \/ Refuses(p, f.size)
    \/ ~Overruns(p, f.size) /\ Dislikes(p, f.size, Blank(f))
RefuseFrame(f) ==
    /\ f.step = "parse"
    /\ MayRun(f)
    /\ \E p \in Parser(f) : Refused(p, f)
    /\ Done(f)
    /\ UNCHANGED <<server, sent, arrived, pos, looping, auth, accepted, dropped, closed,
                   written>>
Parse(f) ==
    /\ f.step = "parse"
    /\ MayRun(f)
    /\ \A p \in Parser(f) : ~Refused(p, f)
    /\ LET panics == \E p \in Parser(f) : Overruns(p, f.size)
           body == IF f.id \in Enters /\ ~panics THEN {[f EXCEPT !.step = "verify"]} ELSE {}
       IN  /\ running' = (running \ {f}) \cup body
           /\ closed' = (closed \/ panics)
    /\ UNCHANGED <<server, sent, arrived, pos, looping, auth, accepted, dropped, written>>

(***************************************************************************)
(* handleLogin and handleEnter: the credentials or the session are refused, *)
(* or the connection gets its identity and then its accept.  The char       *)
(* server may still refuse between the two, when it cannot list the         *)
(* characters; the identity stays.                                          *)
(***************************************************************************)
Turned(f) ==
    /\ f.step = "verify" \/ (f.step = "accept" /\ server = "char")
    /\ Done(f)
    /\ UNCHANGED <<server, sent, arrived, pos, looping, auth, accepted, dropped, closed,
                   written>>

\* Mutant of Verified: the accept is written before the identity is kept.
VerifiedLate(f) ==
    /\ f.step = "verify"
    /\ running' = (running \ {f}) \cup {[f EXCEPT !.step = "accept"]}
    /\ accepted' = TRUE
    /\ UNCHANGED <<server, sent, arrived, pos, looping, auth, dropped, closed, written>>

Verified(f) ==
    /\ f.step = "verify"
    /\ running' = (running \ {f}) \cup {[f EXCEPT !.step = "accept"]}
    /\ auth' = (auth \/ server # "login")
    /\ UNCHANGED <<server, sent, arrived, pos, looping, accepted, dropped, closed, written>>
Accept(f) ==
    /\ f.step = "accept"
    /\ Done(f)
    /\ accepted' = TRUE
    /\ UNCHANGED <<server, sent, arrived, pos, looping, auth, dropped, closed, written>>

Handler(f) ==
    Drop(f) \/ RefuseFrame(f) \/ Parse(f) \/ Turned(f) \/ Verified(f) \/ Accept(f)

\* The server writes a frame.  Bound: to a client that has entered and then stopped.
Write(l, n) ==
    /\ accepted
    /\ running = {}
    /\ Len(sent) = 1
    /\ ~looping
    /\ written = None
    /\ n <= l.most
    /\ written' = [layout |-> l, n |-> n]
    /\ UNCHANGED <<server, sent, arrived, pos, looping, auth, running, accepted, dropped,
                   closed>>

WireNext ==
    \/ \E p \in Packets[server] : Send(p)
    \/ \E to \in Edges : Deliver(to)
    \/ OnTraffic
    \/ \E f \in running : Handler(f)
    \/ \E l \in Out[server] : \E n \in {0, 1, l.most} : Write(l, n)

WireSpec ==
    /\ WireInit
    /\ [][WireNext]_wireVars
    /\ WF_wireVars(\E to \in Edges : Deliver(to))
    /\ WF_wireVars(OnTraffic)

-----------------------------------------------------------------------------
WireTypeOK ==
    /\ server \in Servers
    /\ sent \in Seq([id : 0..65535, size : 2..65535, field : 0..65535, chars : Nat,
                    late : BOOLEAN, at : Nat])
    /\ arrived \in 0..Total
    /\ pos \in 0..arrived
    /\ looping \in BOOLEAN
    /\ auth \in BOOLEAN
    /\ \A f \in running : f.step \in {"parse", "verify", "accept"}
    /\ accepted \in BOOLEAN
    /\ dropped \subseteq 0..Total
    /\ closed \in BOOLEAN

(***************************************************************************)
(* However TCP cuts the stream, OnTraffic reads it at packet boundaries:    *)
(* the two tables of lengths agree with what the encoders write.  Only a    *)
(* frame whose length field is smaller than its header is taken in parts,   *)
(* the command alone and then the rest (resync over the header).            *)
(***************************************************************************)
Aligned ==
    /\ \/ pos = Total
       \/ \E k \in DOMAIN sent : \/ pos = Start(k)
                                 \/ pos = Start(k) + 2 /\ sent[k].field < 4
    /\ \A f \in running : \E k \in DOMAIN sent :
           /\ f.at = Start(k)
           /\ f.id = sent[k].id
           /\ f.size = sent[k].size \/ (f.size = 2 /\ sent[k].field < 4)

(***************************************************************************)
(* What a client's encoder writes, the handler's parser takes: it does not  *)
(* refuse it and finds every field where the encoder put it.  The three     *)
(* mailbox commands are apart: the tests' encoder puts no mailbox byte      *)
(* before the id, the parser reads one, and no handler uses the id.  So is  *)
(* the empty answer to a text prompt, which the parser turns away.          *)
(***************************************************************************)
MailboxIds == {\h09e8, \h09ee, \h09ef}
EmptyAnswer(f) == f.id = \h01d5 /\ Blank(f)
Understood ==
    \A f \in running : (f.id \notin MailboxIds /\ ~EmptyAnswer(f)) =>
        \A l \in In[server] : \A n \in TextLengths :
            (l.id = f.id /\ Size(l, n) = f.size) =>
                \A p \in Parser(f) : ~Refused(p, f) /\ Understands(p, l)

(***************************************************************************)
(* Whatever the client cuts short, a handler indexes past its frame's       *)
(* allocation, panics and has the connection closed for one packet only: a  *)
(* CZ_REQ_WRITE_MAIL2 of 62 to 64 bytes, which passes the check written for *)
(* the command without a character id.                                      *)
(***************************************************************************)
ShortLetter(p) == p.id = \h0a6e /\ p.size \in 62..64
Panics == closed => \E k \in DOMAIN sent : ShortLetter(sent[k])

\* The parsers agree with the frames they are given, whole or cut short: what a client
\* encodes is understood, and of what it truncates only a short letter is overrun.
ParsersAgree == WireTypeOK /\ Understood /\ Panics

\* A client that waited for its accept before it wrote on is never treated as one
\* that has not entered: the identity is there before the accept is on the wire.
AcceptedIsServed ==
    \A k \in DOMAIN sent : sent[k].late => Start(k) \notin dropped

(***************************************************************************)
(* A frame the server writes can be framed by a client that cuts by the     *)
(* packet database: its length is the registered one, or is in the length   *)
(* field where the registered length is variable; and no field overlaps     *)
(* another.  ZC_GROUP_LIST is registered with the length of an empty        *)
(* roster, and the guild window's ManageLand slot is wider than the place   *)
(* left for it, which the fields written later then fill.                   *)
(***************************************************************************)
GroupList == \h0ae5
GuildWindow == \h0b7b
WrittenFits ==
    written # None =>
        LET l == written.layout
            size == Size(l, written.n)
        IN  /\ (Has(db[server], l.id) /\ l.id # GroupList) =>
                   \/ Length(db[server], l.id) = size
                   \/ Length(db[server], l.id) = VariableLength /\ l.prefixed
            /\ l.prefixed => LengthField(l, written.n) = size
            /\ l.id # GuildWindow => WellLaid(l)

\* Every byte that arrives is taken from the buffer: the loop never waits for more
\* than its frame, so no packet is left behind for want of a next one.
EveryPacketTaken == []<>(pos = Total \/ closed)
=============================================================================
