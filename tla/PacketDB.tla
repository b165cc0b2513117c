------------------------------ MODULE PacketDB ------------------------------
(***************************************************************************)
(* The packet databases and the dispatch tables: two independent lists of   *)
(* frame lengths, as pairs of a command and its length in bytes.  The       *)
(* gateway cuts the stream by the dispatch table where it has a handler and *)
(* by the database where it has none.                                       *)
(***************************************************************************)
EXTENDS Integers

VariableLength == -1

\* Register overwrites: the last definition of a command stands.  No command is
\* registered twice, so the pairs of a database are a function of the command.
Has(db, cmd) == \E d \in db : d[1] = cmd
Length(db, cmd) == (CHOOSE d \in db : d[1] = cmd)[2]

NewLoginServerDB ==
    {<<\h0200, 26>>, <<\h0204, 18>>, <<\h0064, 55>>, <<\h0277, 84>>, <<\h02b0, 85>>,
     <<\h01dd, 47>>, <<\h01fa, 48>>, <<\h027c, 60>>, <<\h0825, -1>>, <<\h01db, 2>>,
     <<\h0acf, 68>>, <<\h0081, 3>>, <<\h01dc, -1>>, <<\h0069, -1>>, <<\h0ac4, -1>>,
     <<\h006a, 23>>, <<\h083e, 26>>}

NewCharServerDB ==
    {<<\h0065, 17>>, <<\h0066, 3>>, <<\h0a39, 36>>, <<\h006c, 3>>, <<\h006b, -1>>,
     <<\h0ac5, 156>>, <<\h0b6f, 177>>, <<\h006e, 3>>, <<\h0828, 14>>, <<\h082a, 10>>,
     <<\h082c, 10>>}

\* NewMapServerDB, in the order of its registrations.
MapRequests ==
    {<<\h0072, 19>>, <<\h0085, 5>>, <<\h007d, 2>>, <<\h007e, 6>>, <<\h0089, 7>>,
     <<\h008c, -1>>, <<\h009b, 5>>, <<\h00bf, 3>>, <<\h00cf, 27>>, <<\h00d0, 3>>,
     <<\h00d3, 2>>, <<\h00d1, 4>>, <<\h00d2, 4>>, <<\h00d4, -1>>, <<\h0094, 6>>,
     <<\h00b2, 3>>, <<\h0112, 4>>}
MapEnterReplies ==
    {<<\h0074, 3>>, <<\h02eb, 13>>, <<\h0091, 22>>, <<\h0087, 12>>, <<\h09fe, 107>>,
     <<\h099b, 8>>, <<\h007f, 6>>, <<\h00bd, 44>>, <<\h00b0, 8>>, <<\h00b1, 8>>,
     <<\h0acb, 12>>, <<\h0b08, 6>>, <<\h0b09, -1>>, <<\h0b39, -1>>, <<\h0b0b, 4>>,
     <<\h010f, -1>>, <<\h0b20, 271>>}
MapChatAndUnits ==
    {<<\h008d, -1>>, <<\h008b, 11>>, <<\h009c, 9>>, <<\h00c0, 7>>, <<\h01d7, 15>>,
     <<\h0095, 30>>, <<\h0a30, 106>>, <<\h0adf, 58>>, <<\h0096, -1>>, <<\h09de, -1>>,
     <<\h09df, 7>>, <<\h09ff, 107>>, <<\h09fd, 114>>}
MapDialogAndShop ==
    {<<\h0090, 7>>, <<\h00b9, 6>>, <<\h0146, 6>>, <<\h00b8, 7>>, <<\h0143, 10>>,
     <<\h01d5, -1>>, <<\h0142, 6>>, <<\h01d4, 6>>, <<\h0972, -1>>, <<\h0973, 7>>,
     <<\h00b6, 6>>, <<\h00b7, -1>>, <<\h00c5, 7>>, <<\h00c8, -1>>, <<\h00c4, 6>>,
     <<\h0b77, -1>>, <<\h00ca, 3>>, <<\h00c9, -1>>, <<\h00c7, -1>>, <<\h00cb, 3>>}
MapFightAndEquip ==
    {<<\h08c8, 34>>, <<\h0080, 7>>, <<\h009f, 6>>, <<\h0439, 8>>, <<\h0998, 8>>,
     <<\h00ab, 4>>, <<\h0999, 11>>, <<\h099a, 9>>, <<\h01c8, 13>>, <<\h00bb, 5>>,
     <<\h00bc, 6>>, <<\h019b, 10>>, <<\h0438, 10>>, <<\h01de, 33>>, <<\h0110, 14>>,
     <<\h0af4, 11>>, <<\h0117, 18>>}
MapTradeAndGround ==
    {<<\h00e4, 6>>, <<\h00e6, 3>>, <<\h00ed, 2>>, <<\h01f4, 32>>, <<\h01f5, 9>>,
     <<\h00ee, 2>>, <<\h00e8, 8>>, <<\h00eb, 2>>, <<\h0b42, 62>>, <<\h00ea, 5>>,
     <<\h00ec, 3>>, <<\h0add, 24>>, <<\h0363, 6>>, <<\h0885, 6>>, <<\h02c4, 6>>,
     <<\h0891, 6>>, <<\h089e, 6>>, <<\h0362, 6>>, <<\h009d, 19>>, <<\h00a1, 6>>,
     <<\h00af, 6>>, <<\h0b41, 70>>, <<\h07fa, 8>>}
MapPartyAndMail ==
    {<<\h00f9, 26>>, <<\h01e8, 28>>, <<\h00fc, 6>>, <<\h00ff, 10>>, <<\h0100, 2>>,
     <<\h0102, 6>>, <<\h0103, 30>>, <<\h00fa, 3>>, <<\h02c6, 30>>, <<\h02c5, 30>>,
     <<\h02c9, 3>>, <<\h0ae5, 28>>, <<\h0ae4, 89>>, <<\h0105, 31>>, <<\h09e8, 11>>,
     <<\h09ee, 11>>, <<\h09ef, 11>>, <<\h0ac0, 26>>, <<\h0ac1, 26>>, <<\h09e9, 2>>,
     <<\h09ea, 11>>, <<\h09f5, 11>>, <<\h09f1, 11>>, <<\h09f3, 11>>, <<\h0a03, 2>>,
     <<\h0a04, 6>>, <<\h0a06, 6>>, <<\h0a08, 26>>, <<\h0a13, 26>>, <<\h0b97, 27>>,
     <<\h09ec, -1>>, <<\h0a6e, -1>>, <<\h09e7, 3>>, <<\h09ed, 3>>, <<\h09f2, 12>>,
     <<\h09f4, 12>>, <<\h09f6, 11>>, <<\h0a07, 9>>, <<\h0a12, 27>>, <<\h0a51, 34>>,
     <<\h0b3f, 64>>}
NewMapServerDB ==
    MapRequests \cup MapEnterReplies \cup MapChatAndUnits
        \cup MapDialogAndShop \cup MapFightAndEquip
        \cup MapTradeAndGround \cup MapPartyAndMail

\* The dispatch tables.  The login server has no table: every frame is a CA_LOGIN.
loginFrameSize == 55
charHandlers ==
    {<<\h0065, 17>>, <<\h0066, 3>>, <<\h0a39, 36>>, <<\h0827, 6>>, <<\h0829, 12>>,
     <<\h082b, 6>>}
mapHandlers ==
    {<<\h0072, 19>>, <<\h007d, 2>>, <<\h0085, 5>>, <<\h0089, 7>>, <<\h0090, 7>>,
     <<\h00b2, 3>>, <<\h00bb, 5>>, <<\h00b8, 7>>, <<\h00b9, 6>>, <<\h0143, 10>>,
     <<\h01d5, -1>>, <<\h0146, 6>>, <<\h00c5, 7>>, <<\h00c8, -1>>, <<\h00c9, -1>>,
     <<\h0362, 6>>, <<\h0363, 6>>, <<\h0439, 8>>, <<\h0438, 10>>, <<\h0af4, 11>>,
     <<\h0112, 4>>, <<\h00e4, 6>>, <<\h00e6, 3>>, <<\h00e8, 8>>, <<\h00eb, 2>>,
     <<\h00ed, 2>>, <<\h0998, 8>>, <<\h00ab, 4>>, <<\h0096, -1>>, <<\h008c, -1>>,
     <<\h0094, 6>>, <<\h007e, 6>>, <<\h00bf, 3>>, <<\h009b, 5>>, <<\h00cf, 27>>,
     <<\h00d0, 3>>, <<\h00d3, 2>>, <<\h07e4, 26>>, <<\h07e5, 2>>, <<\h07e6, 8>>,
     <<\h07e7, 8>>, <<\h00f9, 26>>, <<\h01e8, 28>>, <<\h00fc, 6>>, <<\h00ff, 10>>,
     <<\h0100, 2>>, <<\h0102, 6>>, <<\h0103, 30>>, <<\h0202, 26>>, <<\h0203, 10>>,
     <<\h0208, 14>>, <<\h0165, 30>>, <<\h0168, 14>>, <<\h016b, 10>>, <<\h0159, 52>>,
     <<\h015b, 52>>, <<\h015d, 44>>, <<\h017e, -1>>, <<\h014d, 2>>, <<\h09e8, 11>>,
     <<\h09e9, 2>>, <<\h09ea, 11>>, <<\h09ee, 11>>, <<\h09ef, 11>>, <<\h09f1, 11>>,
     <<\h09f3, 11>>, <<\h09f5, 11>>, <<\h0a03, 2>>, <<\h0a04, 6>>, <<\h0a06, 6>>,
     <<\h0a08, 26>>, <<\h0a13, 26>>, <<\h09ec, -1>>, <<\h0a6e, -1>>, <<\h0ac0, 26>>,
     <<\h0ac1, 26>>, <<\h0b97, 27>>}
=============================================================================
