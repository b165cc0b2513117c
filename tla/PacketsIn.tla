----------------------------- MODULE PacketsIn ------------------------------
(***************************************************************************)
(* What the clients write and what the servers' parsers read.  The Encode   *)
(* methods of the request types are the client the end-to-end tests use.    *)
(***************************************************************************)
EXTENDS Layout

\* The encoders.
CHEnterRequest == Fixed(\h0065, 17,
    [AccountID |-> 2..5, LoginID1 |-> 6..9, LoginID2 |-> 10..13, Sex |-> 16..16])
CHSelectCharRequest == Fixed(\h0066, 3, [Slot |-> 2..2])
CHMakeCharRequest == Fixed(\h0a39, 36,
    [Name |-> 2..25, Slot |-> 26..26, HairColor |-> 27..28, HairStyle |-> 29..30,
     Job |-> 31..34, Sex |-> 35..35])
CZFriendsAdd == Fixed(\h0202, 26, [Name |-> 2..25])
CZFriendsDelete == Fixed(\h0203, 10, [AID |-> 2..5, CID |-> 6..9])
CZFriendsReply == Fixed(\h0208, 14, [AID |-> 2..5, CID |-> 6..9, Reply |-> 10..13])
CZCreateGuild == Fixed(\h0165, 30, [CharID |-> 2..5, Name |-> 6..29])
EncodeCZGuildBreak == Fixed(\h015d, 44, [Key |-> 2..25])
EncodeCZReqJoinGuild == Fixed(\h0168, 14,
    [AID |-> 2..5, InviterAID |-> 6..9, InviterCID |-> 10..13])
EncodeCZJoinGuild == Fixed(\h016b, 10, [GuildID |-> 2..5, Answer |-> 6..9])
EncodeCZGuildChat == Text(\h017e, 4, None)
CALoginRequest == Fixed(\h0064, 55,
    [Version |-> 2..5, Username |-> 6..29, Password |-> 30..53, ClientType |-> 54..54])
CZEnterRequest == Fixed(\h0072, 19,
    [AccountID |-> 2..5, CharID |-> 6..9, AuthCode |-> 10..13, ClientTime |-> 14..17,
     Sex |-> 18..18])
CZRequestMoveRequest == Fixed(\h0085, 5, [Dest |-> 2..4])
CZRequestTimeRequest == Fixed(\h007e, 6, [ClientTick |-> 2..5])
CZActionRequestRequest == Fixed(\h0089, 7, [TargetGID |-> 2..5, Action |-> 6..6])
CZGlobalMessageRequest == Text(\h008c, 5, None)
CZWhisperRequest == Text(\h0096, 29, [TargetNick |-> 4..27])
CZChangeDirRequest == Fixed(\h009b, 5, [HeadDir |-> 2..3, Dir |-> 4..4])
CZReqEmotionRequest == Fixed(\h00bf, 3, [EmotionType |-> 2..2])
CZGetCharNameRequestRequest == Fixed(\h0094, 6, [GID |-> 2..5])
CZRestartRequest == Fixed(\h00b2, 3, [Type |-> 2..2])
CZSkillUpRequest == Fixed(\h0112, 4, [SkillID |-> 2..3])
CZContactNPCRequest == Fixed(\h0090, 7, [AID |-> 2..5, Type |-> 6..6])
CZReqNextScriptRequest == Fixed(\h00b9, 6, [NpcID |-> 2..5])
CZCloseDialogRequest == Fixed(\h0146, 6, [GID |-> 2..5])
CZAckSelectDealTypeRequest == Fixed(\h00c5, 7, [NpcID |-> 2..5, Type |-> 6..6])
CZPCPurchaseItemListRequest == List(\h00c8, 4, None, 6, Fits(4, 6),
    [ItemID |-> 0..3, Amount |-> 4..5])
CZPCSellItemListRequest == List(\h00c9, 4, None, 4, Fits(4, 4),
    [Index |-> 0..1, Amount |-> 2..3])
CZStatusChangeRequest == Fixed(\h00bb, 5, [StatusID |-> 2..3, Amount |-> 4..4])
CZChooseMenuRequest == Fixed(\h00b8, 7, [NpcID |-> 2..5, Selected |-> 6..6])
CZInputEditDlgRequest == Fixed(\h0143, 10, [NpcID |-> 2..5, Value |-> 6..9])
CZInputEditDlgStrRequest == Text(\h01d5, 9, [NpcID |-> 4..7])
CZDropItemRequest == Fixed(\h0363, 6, [InventoryIndex |-> 2..3, Amount |-> 4..5])
CZUseItemRequest == Fixed(\h0439, 8, [Index |-> 2..3, AID |-> 4..7])
CZReqWearEquipRequest == Fixed(\h0998, 8, [Index |-> 2..3, Position |-> 4..7])
CZReqTakeoffEquipRequest == Fixed(\h00ab, 4, [Index |-> 2..3])
CZUseSkillToPos == Fixed(\h0af4, 11,
    [SkillLv |-> 2..3, SkillID |-> 4..5, X |-> 6..7, Y |-> 8..9])
CZUseSkill == Fixed(\h0438, 10, [SkillLv |-> 2..3, SkillID |-> 4..5, TargetID |-> 6..9])
CZMakeGroup == Fixed(\h00f9, 26, [Name |-> 2..25])
CZReqJoinGroup == Fixed(\h00fc, 6, [AID |-> 2..5])
CZJoinGroup == Fixed(\h00ff, 10, [PartyID |-> 2..5, Flag |-> 6..9])
EncodeCZReqLeaveGroup == Fixed(\h0100, 2, None)
CZReqOpenStore2 == Fixed(\h07e4, 26, [AccountName |-> 2..25])
CZMoveItemToStore2 == Fixed(\h07e6, 8, [Index |-> 2..3, Amount |-> 4..7])
CZMoveItemToBody2 == Fixed(\h07e7, 8, [Index |-> 2..3, Amount |-> 4..7])
EncodeCZCloseStore == Fixed(\h07e5, 2, None)
CZTradeRequest == Fixed(\h00e4, 6, [TargetGID |-> 2..5])
CZTradeAck == Fixed(\h00e6, 3, [Type |-> 2..2])
EncodeCZTradeCancel == Fixed(\h00ed, 2, None)
CZAddExchangeItem == Fixed(\h00e8, 8, [Index |-> 2..3, Amount |-> 4..7])
EncodeCZTradeOk == Fixed(\h00eb, 2, None)
EncodeCZGuildLeave == Fixed(\h0159, 52,
    [GuildID |-> 2..5, AID |-> 6..9, CID |-> 10..13, Message |-> 14..37])
EncodeCZGuildBan == [EncodeCZGuildLeave EXCEPT !.id = \h015b]
CZMailReq(op) ==
    IF op \in {\h0ac0, \h0ac1} THEN Fixed(op, 26, [MailID |-> 2..9])
    ELSE IF op \in {\h09ea, \h09f5} THEN Fixed(op, 11, [MailID |-> 3..10])
    ELSE Fixed(op, 11, [MailID |-> 2..9])
CZOpenWriteMail(op) == Fixed(op, IF op = \h0b97 THEN 27 ELSE 26, [Name |-> 2..25])
CZMailAttachItem(op) == Fixed(op, 6, [Index |-> 2..3, Count |-> 4..5])
CZItemPickupRequest == Fixed(\h009f, 6, [GroundID |-> 2..5])

LoginIn ==
    {CALoginRequest}
CharIn ==
    {CHEnterRequest, CHSelectCharRequest, CHMakeCharRequest}
MailIn ==
    {CZMailReq(op) : op \in {\h09e8, \h09ea, \h09ee, \h09ef, \h09f1, \h09f3, \h09f5,
                             \h0ac0, \h0ac1}}
    \cup {CZOpenWriteMail(op) : op \in {\h0a08, \h0a13, \h0b97}}
    \cup {CZMailAttachItem(op) : op \in {\h0a04, \h0a06}}
MapIn ==
    {CZFriendsAdd, CZFriendsDelete, CZFriendsReply, CZCreateGuild,
     EncodeCZGuildBreak, EncodeCZReqJoinGuild, EncodeCZJoinGuild, EncodeCZGuildChat,
     CZEnterRequest, CZRequestMoveRequest, CZRequestTimeRequest,
     CZActionRequestRequest, CZGlobalMessageRequest, CZWhisperRequest,
     CZChangeDirRequest, CZReqEmotionRequest, CZGetCharNameRequestRequest,
     CZRestartRequest, CZSkillUpRequest, CZContactNPCRequest, CZReqNextScriptRequest,
     CZCloseDialogRequest, CZAckSelectDealTypeRequest, CZPCPurchaseItemListRequest,
     CZPCSellItemListRequest, CZStatusChangeRequest, CZChooseMenuRequest,
     CZInputEditDlgRequest, CZInputEditDlgStrRequest, CZDropItemRequest,
     CZUseItemRequest, CZReqWearEquipRequest, CZReqTakeoffEquipRequest,
     CZUseSkillToPos, CZUseSkill, CZMakeGroup, CZReqJoinGroup, CZJoinGroup,
     EncodeCZReqLeaveGroup, CZReqOpenStore2, CZMoveItemToStore2, CZMoveItemToBody2,
     EncodeCZCloseStore, CZTradeRequest, CZTradeAck, EncodeCZTradeCancel,
     CZAddExchangeItem, EncodeCZTradeOk, EncodeCZGuildLeave, EncodeCZGuildBan,
     CZItemPickupRequest}
    \cup MailIn

\* The parsers.
ParseCHEnter == Exactly({\h0065}, 17,
    [AccountID |-> 2..5, LoginID1 |-> 6..9, LoginID2 |-> 10..13, Sex |-> 16..16])
ParseCHSelectChar == Exactly({\h0066}, 3, [Slot |-> 2..2])
ParseCHMakeChar == Exactly({\h0a39}, 36,
    [Name |-> 2..25, Slot |-> 26..26, HairColor |-> 27..28, HairStyle |-> 29..30,
     Job |-> 31..34, Sex |-> 35..35])
ParseCHDeleteChar3Reserved == Exactly({\h0827}, 6, [CID |-> 2..5])
ParseCHDeleteChar3 == Exactly({\h0829}, 12, [CID |-> 2..5, Birthdate |-> 6..11])
ParseCHDeleteChar3Cancel == Exactly({\h082b}, 6, [CID |-> 2..5])
ParseCZFriendsAdd == Reads({\h0202}, 26, [Name |-> 2..25])
ParseCZFriendsDelete == Reads({\h0203}, 10, [AID |-> 2..5, CID |-> 6..9])
ParseCZFriendsReply == Reads({\h0208}, 14,
    [AID |-> 2..5, CID |-> 6..9, Reply |-> 10..13])
ParseCZCreateGuild == Reads({\h0165}, 30, [CharID |-> 2..5, Name |-> 6..29])
guildLeaveFields ==
    [GuildID |-> 2..5, AID |-> 6..9, CID |-> 10..13, Message |-> 14..51]
ParseCZGuildLeave == Reads({\h0159}, 52, guildLeaveFields)
ParseCZGuildBan == Reads({\h015b}, 52, guildLeaveFields)
ParseCZGuildBreak == Reads({\h015d}, 44, [Key |-> 2..41])
ParseCZReqJoinGuild == Reads({\h0168}, 14,
    [AID |-> 2..5, InviterAID |-> 6..9, InviterCID |-> 10..13])
ParseCZJoinGuild == Reads({\h016b}, 10, [GuildID |-> 2..5, Answer |-> 6..9])
ParseCZGuildChat == Reads({\h017e}, 4, None)
ParseCALogin == Exactly({\h0064}, 55,
    [Version |-> 2..5, Username |-> 6..29, Password |-> 30..53, ClientType |-> 54..54])
ParseCZOpenMailbox == Reads({\h09e8, \h09ee, \h09ef}, 11, [MailID |-> 3..10])
ParseCZOpenMailbox2 == Reads({\h0ac0, \h0ac1}, 26, [MailID |-> 2..9])
ParseCZReadMail == Reads({\h09ea}, 11, [MailID |-> 3..10])
ParseCZDeleteMail == Reads({\h09f5}, 11, [MailID |-> 3..10])
ParseCZGetAttach == Reads({\h09f1, \h09f3}, 11, [MailID |-> 2..9])
ParseCZOpenWriteMail == Reads({\h0a08}, 26, [Name |-> 2..25])
ParseCZCheckReceiverName == Reads({\h0a13}, 26, [Name |-> 2..25])
ParseCZCheckName2 == Reads({\h0b97}, 27, [Name |-> 2..25])
ParseCZMailAddItem == Reads({\h0a04}, 6, [Index |-> 2..3, Count |-> 4..5])
ParseCZMailRemoveItem == Reads({\h0a06}, 6, [Index |-> 2..3, Count |-> 4..5])
ParseCZWriteMail == ReadsStrings({\h09ec}, 62, 64,
    [ReceiverName |-> 4..27, SenderName |-> 28..51, Zeny |-> 52..59,
     TitleLength |-> 60..61, TextLength |-> 62..63])
ParseCZWriteMail2 == ReadsStrings({\h0a6e}, 62, 68,
    [ReceiverName |-> 4..27, SenderName |-> 28..51, Zeny |-> 52..59,
     TitleLength |-> 60..61, TextLength |-> 62..63, ReceiverCharID |-> 64..67])
ParseCZEnter == Reads({\h0072}, 19,
    [AccountID |-> 2..5, CharID |-> 6..9, AuthCode |-> 10..13, ClientTime |-> 14..17,
     Sex |-> 18..18])
ParseCZRequestMove == Reads({\h0085}, 5, [Dest |-> 2..4])
ParseCZRequestTime == Reads({\h007e}, 6, [ClientTick |-> 2..5])
ParseCZGlobalMessage == Reads({\h008c}, 5, None)
ParseCZActionRequest == Reads({\h0089}, 7, [TargetGID |-> 2..5, Action |-> 6..6])

\* Mutant of ParseCZWhisper: only the header is checked.
ParseCZWhisperShort == Reads({\h0096}, 4, [TargetNick |-> 4..27])

ParseCZWhisper == Reads({\h0096}, 29, [TargetNick |-> 4..27])
ParseCZChangeDir == Reads({\h009b}, 5, [HeadDir |-> 2..3, Dir |-> 4..4])
ParseCZReqEmotion == Reads({\h00bf}, 3, [EmotionType |-> 2..2])
ParseCZGetCharNameRequest == Reads({\h0094}, 6, [GID |-> 2..5])
ParseCZRestart == Reads({\h00b2}, 3, [Type |-> 2..2])
ParseCZSkillUp == Exactly({\h0112}, 4, [SkillID |-> 2..3])
ParseCZContactNPC == Reads({\h0090}, 7, [AID |-> 2..5, Type |-> 6..6])
ParseCZReqNextScript == Reads({\h00b9}, 6, [NpcID |-> 2..5])
ParseCZCloseDialog == Reads({\h0146}, 6, [GID |-> 2..5])
ParseCZAckSelectDealType == Reads({\h00c5}, 7, [NpcID |-> 2..5, Type |-> 6..6])
ParseCZPCPurchaseItemList == ReadsList({\h00c8}, 4, 6, [ItemID |-> 0..3, Amount |-> 4..5])
ParseCZPCSellItemList == ReadsList({\h00c9}, 4, 4, [Index |-> 0..1, Amount |-> 2..3])
ParseCZStatusChange == Reads({\h00bb}, 5, [StatusID |-> 2..3, Amount |-> 4..4])
ParseCZChooseMenu == Reads({\h00b8}, 7, [NpcID |-> 2..5, Selected |-> 6..6])
ParseCZInputEditDlg == Reads({\h0143}, 10, [NpcID |-> 2..5, Value |-> 6..9])
ParseCZInputEditDlgStr == ReadsText({\h01d5}, 9, [NpcID |-> 4..7])
ParseCZDropItem == Exactly({\h0363, \h0885, \h02c4, \h0891, \h089e}, 6,
    [InventoryIndex |-> 2..3, Amount |-> 4..5])
ParseCZPMIgnore == Exactly({\h00cf}, 27, [Name |-> 2..25, Type |-> 26..26])
ParseCZSettingWhisperState == Exactly({\h00d0}, 3, [Type |-> 2..2])
ParseCZUseItem == Reads({\h0439}, 8, [Index |-> 2..3, AID |-> 4..7])
ParseCZReqWearEquip == Reads({\h0998}, 8, [Index |-> 2..3, Position |-> 4..7])
ParseCZReqTakeoffEquip == Reads({\h00ab}, 4, [Index |-> 2..3])
ParseCZItemPickup == Reads({\h009f, \h0362}, 6, [GroundID |-> 2..5])
ParseCZUseSkillToPos == Reads({\h0af4}, 11,
    [SkillLv |-> 2..3, SkillID |-> 4..5, X |-> 6..7, Y |-> 8..9])

ParseCZUseSkill == Reads({\h0438}, 10,
    [SkillLv |-> 2..3, SkillID |-> 4..5, TargetID |-> 6..9])
ParseCZMakeGroup == Reads({\h00f9}, 26, [Name |-> 2..25])
ParseCZMakeGroup2 == Reads({\h01e8}, 28,
    [Name |-> 2..25, ItemPickup |-> 26..26, ItemShare |-> 27..27])
ParseCZReqJoinGroup == Reads({\h00fc}, 6, [AID |-> 2..5])
ParseCZJoinGroup == Reads({\h00ff}, 10, [PartyID |-> 2..5, Flag |-> 6..9])
ParseCZChangeGroupExpOption == Reads({\h0102}, 6, [ExpFlag |-> 2..5])
ParseCZReqExpelGroupMember == Reads({\h0103}, 30, [AID |-> 2..5, Name |-> 6..29])
ParseCZReqOpenStore2 == Reads({\h07e4}, 26, None)
ParseCZMoveItemToStore2 == Reads({\h07e6}, 8, [Index |-> 2..3, Amount |-> 4..7])
ParseCZMoveItemToBody2 == Reads({\h07e7}, 8, [Index |-> 2..3, Amount |-> 4..7])
ParseCZTradeRequest == Reads({\h00e4}, 6, [TargetGID |-> 2..5])
ParseCZTradeAck == Reads({\h00e6}, 3, [Type |-> 2..2])
ParseCZAddExchangeItem == Reads({\h00e8}, 8, [Index |-> 2..3, Amount |-> 4..7])

LoginParsers ==
    {ParseCALogin}
CharParsers ==
    {ParseCHEnter, ParseCHSelectChar, ParseCHMakeChar, ParseCHDeleteChar3Reserved,
     ParseCHDeleteChar3, ParseCHDeleteChar3Cancel}
MapParsers ==
    {ParseCZFriendsAdd, ParseCZFriendsDelete, ParseCZFriendsReply,
     ParseCZCreateGuild, ParseCZGuildLeave, ParseCZGuildBan, ParseCZGuildBreak,
     ParseCZReqJoinGuild, ParseCZJoinGuild, ParseCZGuildChat, ParseCZOpenMailbox,
     ParseCZOpenMailbox2, ParseCZReadMail, ParseCZDeleteMail, ParseCZGetAttach,
     ParseCZOpenWriteMail, ParseCZCheckReceiverName, ParseCZCheckName2,
     ParseCZMailAddItem, ParseCZMailRemoveItem, ParseCZWriteMail, ParseCZWriteMail2,
     ParseCZEnter, ParseCZRequestMove, ParseCZRequestTime, ParseCZGlobalMessage,
     ParseCZActionRequest, ParseCZWhisper, ParseCZChangeDir, ParseCZReqEmotion,
     ParseCZGetCharNameRequest, ParseCZRestart, ParseCZSkillUp, ParseCZContactNPC,
     ParseCZReqNextScript, ParseCZCloseDialog, ParseCZAckSelectDealType,
     ParseCZPCPurchaseItemList, ParseCZPCSellItemList, ParseCZStatusChange,
     ParseCZChooseMenu, ParseCZInputEditDlg, ParseCZInputEditDlgStr, ParseCZDropItem,
     ParseCZPMIgnore, ParseCZSettingWhisperState, ParseCZUseItem,
     ParseCZReqWearEquip, ParseCZReqTakeoffEquip, ParseCZItemPickup,
     ParseCZUseSkillToPos, ParseCZUseSkill, ParseCZMakeGroup, ParseCZMakeGroup2,
     ParseCZReqJoinGroup, ParseCZJoinGroup, ParseCZChangeGroupExpOption,
     ParseCZReqExpelGroupMember, ParseCZReqOpenStore2, ParseCZMoveItemToStore2,
     ParseCZMoveItemToBody2, ParseCZTradeRequest, ParseCZTradeAck,
     ParseCZAddExchangeItem}
=============================================================================
