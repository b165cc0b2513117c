------------------------------- MODULE Layout -------------------------------
(***************************************************************************)
(* The shapes a kRO packet has on the wire.  A layout is the 16-bit command *)
(* at bytes 0..1, the bytes each field occupies, and, for a packet whose    *)
(* length varies, the 16-bit total length at bytes 2..3 followed by a text  *)
(* or by entries of one width.  Only the places of the fields matter to     *)
(* framing and to the agreement of an encoder with a parser; what a field   *)
(* holds does not.                                                          *)
(***************************************************************************)
EXTENDS Integers, FiniteSets

\* The layout, or the entry, that has no field.
None == << >>

\* The most entries of a width that a 16-bit total length can announce.
Fits(base, unit) == (65535 - base) \div unit

\* size bytes, always.
Fixed(id, size, fields) ==
    [id |-> id, prefixed |-> FALSE, base |-> size, fields |-> fields,
     unit |-> 0, most |-> 0, entry |-> None]

\* size bytes, always, and the size again in the length field.
Prefixed(id, size, fields) == [Fixed(id, size, fields) EXCEPT !.prefixed = TRUE]

\* base bytes and then at most most entries of unit bytes.
List(id, base, fields, unit, most, entry) ==
    [id |-> id, prefixed |-> TRUE, base |-> base, fields |-> fields,
     unit |-> unit, most |-> most, entry |-> entry]

\* base bytes (the closing NUL among them, if the encoder writes one) and text.
Text(id, base, fields) == List(id, base, fields, 1, 65535 - base, None)

\* What Encode writes for n entries, and what it puts in the length field.
Size(l, n) == l.base + n * l.unit
LengthField(l, n) == Size(l, n) % 65536

Bytes(fields) == UNION {fields[f] : f \in DOMAIN fields}

\* Every field has bytes of its own, after the header and before the end.
Laid(fields, first, last) ==
    /\ Bytes(fields) \subseteq first..last
    /\ \A f, g \in DOMAIN fields : f # g => fields[f] \cap fields[g] = {}
WellLaid(l) ==
    /\ Laid(l.fields, IF l.prefixed THEN 4 ELSE 2, l.base - 1)
    /\ Laid(l.entry, 0, l.unit - 1)

(***************************************************************************)
(* A parser takes a frame of one of the commands ids, refuses it by its     *)
(* length (too short, or not exactly checked bytes, or not a whole number   *)
(* of entries after them), and reads the bytes of fields from it.  Then it  *)
(* may still refuse: a frame that ends before its strings begin, a text     *)
(* that holds nothing but NULs.                                             *)
(***************************************************************************)
Reads(ids, checked, fields) ==
    [ids |-> ids, checked |-> checked, exact |-> FALSE, unit |-> 0, fields |-> fields,
     entry |-> None, strings |-> 0, text |-> FALSE]
Exactly(ids, checked, fields) == [Reads(ids, checked, fields) EXCEPT !.exact = TRUE]
ReadsList(ids, checked, unit, entry) ==
    [Reads(ids, checked, None) EXCEPT !.unit = unit, !.entry = entry]
ReadsStrings(ids, checked, strings, fields) ==
    [Reads(ids, checked, fields) EXCEPT !.strings = strings]
ReadsText(ids, checked, fields) == [Reads(ids, checked, fields) EXCEPT !.text = TRUE]

Refuses(p, size) ==
    \/ size < p.checked
    \/ p.exact /\ size # p.checked
    \/ p.unit > 0 /\ (size - p.checked) % p.unit # 0
Dislikes(p, size, blank) == size < p.strings \/ (p.text /\ blank)

(***************************************************************************)
(* A handler's frame is a copy made by append, and append rounds what it    *)
(* allocates up to a size class of the Go runtime.  A slice expression may  *)
(* reach to the end of the allocation and finds zeros there; beyond it the  *)
(* goroutine panics.                                                        *)
(***************************************************************************)
SizeClasses == {8, 16, 24, 32, 48, 64, 80, 96, 112, 128}
Allocated(size) ==
    IF size > 128 THEN size
    ELSE CHOOSE c \in SizeClasses :
             size <= c /\ \A d \in SizeClasses : size <= d => c <= d
Overruns(p, size) ==
    ~Refuses(p, size) /\ ~(Bytes(p.fields) \subseteq 0..(Allocated(size) - 1))

(***************************************************************************)
(* Every field the parser knows is where the encoder put it.  A text may be *)
(* read wider than it was written, for the rest of its slot is zeros.       *)
(***************************************************************************)
First(bytes) == CHOOSE b \in bytes : \A c \in bytes : b <= c
SamePlace(written, read) ==
    \A f \in DOMAIN read \cap DOMAIN written :
        /\ written[f] \subseteq read[f]
        /\ First(written[f]) = First(read[f])
Understands(p, l) == SamePlace(l.fields, p.fields) /\ SamePlace(l.entry, p.entry)
=============================================================================
