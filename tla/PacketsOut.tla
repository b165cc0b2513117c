----------------------------- MODULE PacketsOut -----------------------------
(***************************************************************************)
(* What the servers write: one layout per Encode method, with the places    *)
(* its PutUint and copy calls write to and the size of the buffer it makes. *)
(***************************************************************************)
EXTENDS Layout

\* Bounds of the lists, from the code that fills them.
MaxFriends == 40
maxIgnoreList == 20
MaxInbox == 30
MaxItems == 5

\* The longest title and body a letter is stored with, in bytes of UTF-8.
TitleBytes == 4 * 40
BodyBytes == 4 * 500

\* Login server (encode.go) and char server (char_encode.go, char_info.go).
CharacterInfo ==
    [GID |-> 0..3, Exp |-> 4..11, Money |-> 12..15, JobExp |-> 16..23,
     JobLevel |-> 24..27, BodyState |-> 28..31, HealthState |-> 32..35,
     EffectState |-> 36..39, Virtue |-> 40..43, Honor |-> 44..47, JobPoint |-> 48..49,
     HP |-> 50..57, MaxHP |-> 58..65, SP |-> 66..73, MaxSP |-> 74..81,
     Speed |-> 82..83, Job |-> 84..85, Head |-> 86..87, Body |-> 88..89,
     Weapon |-> 90..91, Level |-> 92..93, SPPoint |-> 94..95, Accessory |-> 96..97,
     Shield |-> 98..99, Accessory2 |-> 100..101, Accessory3 |-> 102..103,
     HeadPalette |-> 104..105, BodyPalette |-> 106..107, Name |-> 108..131,
     Str |-> 132..132, Agi |-> 133..133, Vit |-> 134..134, Int |-> 135..135,
     Dex |-> 136..136, Luk |-> 137..137, CharNum |-> 138..138, HairColor |-> 139..139,
     IsChangedCharName |-> 140..141, MapName |-> 142..157, DelRevDate |-> 158..161,
     RobePalette |-> 162..165, ChrSlotChangeCnt |-> 166..169,
     ChrNameChangeCnt |-> 170..173, Sex |-> 174..174]
RefuseEnterResponse == Fixed(\h006c, 3, [Error |-> 2..2])
RefuseMakeCharResponse == Fixed(\h006e, 3, [Error |-> 2..2])
AcceptMakeCharResponse == Fixed(\h0b6f, 177, [Character |-> 2..176])
NotifyZoneServerResponse == Fixed(\h0ac5, 156,
    [CID |-> 2..5, MapName |-> 6..21, IP |-> 22..25, Port |-> 26..27,
     Domain |-> 28..155])
CharDeleteReservedResponse == Fixed(\h0828, 14,
    [CID |-> 2..5, Result |-> 6..9, Date |-> 10..13])
CharDeleteResponse == Fixed(\h082a, 10, [CID |-> 2..5, Result |-> 6..9])
CharDeleteCancelResponse == Fixed(\h082c, 10, [CID |-> 2..5, Result |-> 6..9])
AcceptEnterResponse == List(\h006b, 27,
    [Total |-> 4..4, PremiumStart |-> 5..5, PremiumEnd |-> 6..6, Extension |-> 7..26],
    175, Fits(27, 175), CharacterInfo)
AcceptLoginResponse == List(\h0ac4, 64,
    [LoginID1 |-> 4..7, AID |-> 8..11, LoginID2 |-> 12..15, LastIP |-> 16..19,
     LastLogin |-> 20..45, Sex |-> 46..46, Token |-> 47..63], 160, Fits(64, 160),
    [IP |-> 0..3, Port |-> 4..5, Name |-> 6..25, Users |-> 26..27, Type |-> 28..29,
     New |-> 30..31])
RefuseLoginResponse == Fixed(\h083e, 26, [Error |-> 2..5, UnblockTime |-> 6..25])

\* Friends (friend.go) and guild (guild.go).
FriendsStateResponse == Fixed(\h0206, 35,
    [AID |-> 2..5, CID |-> 6..9, Offline |-> 10..10, Name |-> 11..34])
FriendsReqAddResponse == Fixed(\h0207, 34,
    [AID |-> 2..5, CID |-> 6..9, Name |-> 10..33])
FriendsAddResponse == Fixed(\h0209, 36,
    [Result |-> 2..3, AID |-> 4..7, CID |-> 8..11, Name |-> 12..35])
FriendsDeleteResponse == Fixed(\h020a, 10, [AID |-> 2..5, CID |-> 6..9])
FriendsListResponse == List(\h0201, 4, None, 8, MaxFriends,
    [AID |-> 0..3, CID |-> 4..7])
ResultMakeGuildResponse == Fixed(\h0167, 3, [Result |-> 2..2])
ReqJoinGuildResponse == Fixed(\h016a, 30, [GuildID |-> 2..5, GuildName |-> 6..29])
AckReqJoinGuildResponse == Fixed(\h0169, 3, [Result |-> 2..2])
UpdateGDIDResponse == Fixed(\h02f7, 47,
    [GuildID |-> 2..5, EmblemVersion |-> 6..9, Mode |-> 10..13, IsMaster |-> 14..14,
     InterSid |-> 15..18, GuildName |-> 19..42, MasterGID |-> 43..46])
UpdateCharStatResponse == Fixed(\h016d, 14,
    [AID |-> 2..5, CID |-> 6..9, Status |-> 10..13])
AckLeaveGuildResponse == Fixed(\h015a, 46, [GID |-> 2..5, Reason |-> 6..29])
AckBanGuildResponse == Fixed(\h015c, 46, [Reason |-> 2..25, GID |-> 42..45])
AckDisorganizeGuildResponse == Fixed(\h015e, 6, [Result |-> 2..5])
GuildChatResponse == Text(\h017f, 5, None)
GuildInfoResponse == Fixed(\h0b7b, 118,
    [GuildID |-> 2..5, Level |-> 6..9, UserNum |-> 10..13, MaxUserNum |-> 14..17,
     AvgLevel |-> 18..21, Exp |-> 22..25, MaxExp |-> 26..29, Point |-> 30..33,
     Honor |-> 34..37, Virtue |-> 38..41, EmblemVersion |-> 42..45,
     GuildName |-> 46..69, ManageLand |-> 70..93, Zeny |-> 86..89,
     MasterGID |-> 90..93, MasterName |-> 94..117])
MemberMgrInfoResponse == List(\h0b7d, 4, None, 58, 16,
    [AID |-> 0..3, GID |-> 4..7, Head |-> 8..9, HeadPalette |-> 10..11,
     Sex |-> 12..13, Job |-> 14..15, Level |-> 16..17, Contribution |-> 18..21,
     State |-> 22..25, Position |-> 26..29, LastLogin |-> 30..33, CharName |-> 34..57])
AckMenuInterfaceResponse == Fixed(\h014e, 6, [IsMaster |-> 2..5])

\* Mail (mail.go): an inbox row carries its title, a letter its body.
EncodeZCNotifyUnreadMail == Fixed(\h09e7, 3, [Unread |-> 2..2])
EncodeZCAckOpenWriteMail == Fixed(\h0a12, 27, [ReceiverName |-> 2..25, Ok |-> 26..26])
EncodeZCCheckName == Fixed(\h0a51, 34,
    [CharID |-> 2..5, Class |-> 6..7, BaseLevel |-> 8..9, Name |-> 10..33])
EncodeZCAckWriteMail == Fixed(\h09ed, 3, [Result |-> 2..2])
EncodeZCAckRemoveItemMail == Fixed(\h0a07, 9,
    [Ok |-> 2..2, Index |-> 3..4, Count |-> 5..6, Weight |-> 7..8])
EncodeZCAckDeleteMail == Fixed(\h09f6, 11, [OpenType |-> 2..2, MailID |-> 3..10])
EncodeZCAckMailList == List(\h0ac2, 5, [One |-> 4..4], 41 + TitleBytes + 1, MaxInbox,
    [Type |-> 0..0, MailID |-> 1..8, Read |-> 9..9, Flags |-> 10..10,
     Sender |-> 11..34, Expires |-> 35..38, TitleLength |-> 39..40,
     Title |-> 41..(41 + TitleBytes)])
EncodeZCAckReadRodex == List(\h0b63, 24 + BodyBytes + 1,
    [OpenType |-> 4..4, MailID |-> 5..12, TextLength |-> 13..14, Zeny |-> 15..22,
     ItemCnt |-> 23..23, Body |-> 24..(24 + BodyBytes)], 60, MaxItems,
    [Count |-> 0..1, ITID |-> 2..5, Identified |-> 6..6, Damaged |-> 7..7,
     Card |-> 8..23, Location |-> 24..27, Type |-> 28..28, View |-> 29..30,
     Bind |-> 31..32, Refine |-> 58..58])
EncodeZCAckAddItemRodex == Fixed(\h0b3f, 64,
    [Result |-> 2..2, Index |-> 3..4, Count |-> 5..6, ITID |-> 7..10, Type |-> 11..11,
     Identified |-> 12..12, Damaged |-> 13..13, Card |-> 14..29, Weight |-> 55..56,
     Favorite |-> 57..57, Location |-> 58..61, Refine |-> 62..62])
CollectFields == [MailID |-> 2..9, OpenType |-> 10..10, Result |-> 11..11]
EncodeZCAckZenyFromMail == Fixed(\h09f2, 12, CollectFields)
EncodeZCAckItemFromMail == Fixed(\h09f4, 12, CollectFields)

\* Map server: entering, walking and seeing (map_encode.go).
MapAcceptEnterResponse == Fixed(\h02eb, 13,
    [StartTime |-> 2..5, Pos |-> 6..8, XSize |-> 9..9, YSize |-> 10..10,
     Font |-> 11..12])
MapRefuseEnterResponse == Fixed(\h0074, 3, [Error |-> 2..2])
MapMoveResponse == Fixed(\h0091, 22, [MapName |-> 2..17, X |-> 18..19, Y |-> 20..21])
MapNotifyPlayerMoveResponse == Fixed(\h0087, 12,
    [MoveStartTime |-> 2..5, Src |-> 6..8, Dest |-> 9..11])
UnitFields ==
    [ObjectType |-> 4..4, AID |-> 5..8, GID |-> 9..12, Speed |-> 13..14,
     BodyState |-> 15..16, HealthState |-> 17..18, EffectState |-> 19..22,
     Job |-> 23..24, Head |-> 25..26, Weapon |-> 27..30, Shield |-> 31..34,
     Accessory |-> 35..36, Accessory2 |-> 37..38, Accessory3 |-> 39..40,
     HeadPalette |-> 41..42, BodyPalette |-> 43..44, HeadDir |-> 45..46,
     Robe |-> 47..48, GUID |-> 49..52, GEmblemVer |-> 53..54, Honor |-> 55..56,
     Virtue |-> 57..60, IsPKModeON |-> 61..61, Sex |-> 62..62, Pos |-> 63..65,
     XSize |-> 66..66, YSize |-> 67..67, CLevel |-> 68..69, Font |-> 70..71,
     MaxHP |-> 72..75, HP |-> 76..79, IsBoss |-> 80..80, Body |-> 81..82,
     Name |-> 83..106]
SpawnUnitResponse == Prefixed(\h09fe, 107, UnitFields)
SetUnitIdleResponse == Prefixed(\h09ff, 107, UnitFields)
UnitWalkingResponse == Prefixed(\h09fd, 114,
    [ObjectType |-> 4..4, AID |-> 5..8, GID |-> 9..12, Speed |-> 13..14,
     BodyState |-> 15..16, HealthState |-> 17..18, EffectState |-> 19..22,
     Job |-> 23..24, Head |-> 25..26, Weapon |-> 27..30, Shield |-> 31..34,
     Accessory |-> 35..36, MoveStartTime |-> 37..40, Accessory2 |-> 41..42,
     Accessory3 |-> 43..44, HeadPalette |-> 45..46, BodyPalette |-> 47..48,
     HeadDir |-> 49..50, Robe |-> 51..52, GUID |-> 53..56, GEmblemVer |-> 57..58,
     Honor |-> 59..60, Virtue |-> 61..64, IsPKModeON |-> 65..65, Sex |-> 66..66,
     Src |-> 67..69, Dest |-> 70..72, XSize |-> 73..73, YSize |-> 74..74,
     CLevel |-> 75..76, Font |-> 77..78, MaxHP |-> 79..82, HP |-> 83..86,
     IsBoss |-> 87..87, Body |-> 88..89, Name |-> 90..113])
MapPropertyResponse == Fixed(\h099b, 8, [PropertyType |-> 2..3, Flags |-> 4..7])
NotifyTimeResponse == Fixed(\h007f, 6, [Time |-> 2..5])
RestartAckResponse == Fixed(\h00b3, 3, [Type |-> 2..2])
StatusResponse == Fixed(\h00bd, 44,
    [StatusPoint |-> 2..3, Str |-> 4..4, NeedStr |-> 5..5, Agi |-> 6..6,
     NeedAgi |-> 7..7, Vit |-> 8..8, NeedVit |-> 9..9, Int |-> 10..10,
     NeedInt |-> 11..11, Dex |-> 12..12, NeedDex |-> 13..13, Luk |-> 14..14,
     NeedLuk |-> 15..15, Atk1 |-> 16..17, Atk2 |-> 18..19, MatkMax |-> 20..21,
     MatkMin |-> 22..23, Def1 |-> 24..25, Def2 |-> 26..27, Mdef1 |-> 28..29,
     Mdef2 |-> 30..31, Hit |-> 32..33, Flee |-> 34..35, Flee2 |-> 36..37,
     Critical |-> 38..39, ASPD |-> 40..41, PlusASPD |-> 42..43])
ParChangeResponse == Fixed(\h00b0, 8, [VarID |-> 2..3, Count |-> 4..7])
LongParChangeResponse == Fixed(\h00b1, 8, [VarID |-> 2..3, Amount |-> 4..7])
LongLongParChangeResponse == Fixed(\h0acb, 12, [VarID |-> 2..3, Amount |-> 4..11])
NotifyChatResponse == Text(\h008d, 9, [GID |-> 4..7])
ZCWhisperResponse == Text(\h09de, 34,
    [SenderGID |-> 4..7, SenderName |-> 8..31, IsAdmin |-> 32..32])
ZCAckWhisperResponse == Fixed(\h09df, 7, [Result |-> 2..2, CID |-> 3..6])
ZCStatusChangeAck == Fixed(\h00bc, 6,
    [StatusID |-> 2..3, Result |-> 4..4, Value |-> 5..5])
ZCNotifyEffect == Fixed(\h019b, 10, [AID |-> 2..5, EffectID |-> 6..9])
ActionResponse == Fixed(\h008b, 11,
    [GID |-> 2..5, Action |-> 6..6, TargetGID |-> 7..10])
ChangeDirResponse == Fixed(\h009c, 9, [SrcID |-> 2..5, HeadDir |-> 6..7, Dir |-> 8..8])
EmotionResponse == Fixed(\h00c0, 7, [GID |-> 2..5, Type |-> 6..6])
SpriteChangeResponse == Fixed(\h01d7, 15,
    [GID |-> 2..5, Type |-> 6..6, Val |-> 7..10, Val2 |-> 11..14])
AckReqNameResponse == Fixed(\h0095, 30, [GID |-> 2..5, Name |-> 6..29])
ReqNameAll2Response == Fixed(\h0a30, 106,
    [GID |-> 2..5, Name |-> 6..29, PartyName |-> 30..53, GuildName |-> 54..77,
     PositionName |-> 78..101, TitleID |-> 102..105])
ReqNameAllNPCResponse == Fixed(\h0adf, 58,
    [GID |-> 2..5, GroupID |-> 6..9, Name |-> 10..33, Title |-> 34..57])
SayDialog2Response == Text(\h0972, 10, [NpcID |-> 4..7, Type |-> 8..8])
WaitDialog2Response == Fixed(\h0973, 7, [NpcID |-> 2..5, Type |-> 6..6])
MenuListResponse == Text(\h00b7, 9, [NpcID |-> 4..7])
CloseDialogResponse == Fixed(\h00b6, 6, [NpcID |-> 2..5])
OpenEditDlgResponse == Fixed(\h0142, 6, [NpcID |-> 2..5])
OpenEditDlgStrResponse == Fixed(\h01d4, 6, [NpcID |-> 2..5])
SelectDealtypeResponse == Fixed(\h00c4, 6, [NpcID |-> 2..5])
PurchaseItemListResponse == List(\h0b77, 4, None, 19, Fits(4, 19),
    [ItemID |-> 0..3, Price |-> 4..7, DiscountPrice |-> 8..11, ItemType |-> 12..12,
     ViewSprite |-> 13..14, Location |-> 15..18])
PurchaseResultResponse == Fixed(\h00ca, 3, [Result |-> 2..2])
NotifyActResponse == Fixed(\h08c8, 34,
    [SrcID |-> 2..5, TargetID |-> 6..9, ServerTick |-> 10..13, SrcSpeed |-> 14..17,
     DmgSpeed |-> 18..21, Damage |-> 22..25, IsSPDamage |-> 26..26, Div |-> 27..28,
     Type |-> 29..29, Damage2 |-> 30..33])

\* Mutant of NotifyVanishResponse: the type is left out.
NotifyVanishShort == Fixed(\h0080, 6, [GID |-> 2..5])

NotifyVanishResponse == Fixed(\h0080, 7, [GID |-> 2..5, Type |-> 6..6])
SellItemListResponse == List(\h00c7, 4, None, 10, Fits(4, 10),
    [Index |-> 0..1, Price |-> 2..5, Overcharge |-> 6..9])
SellResultResponse == Fixed(\h00cb, 3, [Result |-> 2..2])
ZCSettingWhisperPCResponse == Fixed(\h00d1, 4, [Type |-> 2..2, Result |-> 3..3])
ZCSettingWhisperStateResponse == Fixed(\h00d2, 4, [Type |-> 2..2, Result |-> 3..3])
ZCWhisperListResponse == List(\h00d4, 4, None, 24, maxIgnoreList, [Name |-> 0..23])
EncodeEmptyHotkeyList == Fixed(\h0b20, 271, [Rotate |-> 2..2, Tab |-> 3..4, Slots |-> 5..270])
EncodeInventoryStart == Prefixed(\h0b08, 6, [InvType |-> 4..4, Name |-> 5..5])
EncodeInventoryEnd == Fixed(\h0b0b, 4, [InvType |-> 2..2, Flag |-> 3..3])

\* Inventory, equipment, skills and items on the ground.
InventoryNormalItem ==
    [Index |-> 0..1, ITID |-> 2..3, Type |-> 4..4, Count |-> 5..6,
     WearState |-> 7..10, Card |-> 11..18, HireExpireDate |-> 19..22,
     BindOnEquipType |-> 23..24, Flag |-> 25..25]
InventoryEquipItem ==
    [Index |-> 0..1, ITID |-> 2..3, Type |-> 4..4, Location |-> 5..8,
     WearState |-> 9..12, RefiningLevel |-> 13..13, Card |-> 14..21,
     HireExpireDate |-> 22..25, BindOnEquipType |-> 26..27,
     ItemSpriteNumber |-> 28..29, OptionCount |-> 30..30, OptionData |-> 31..55,
     Flag |-> 56..56]
InventoryListNormalResponse ==
    List(\h0b09, 5, [InvType |-> 4..4], 26, Fits(5, 26), InventoryNormalItem)
InventoryListEquipResponse ==
    List(\h0b39, 5, [InvType |-> 4..4], 57, Fits(5, 57), InventoryEquipItem)
SkillInfoListResponse == List(\h010f, 4, None, 37, Fits(4, 37),
    [ID |-> 0..1, Inf |-> 2..5, Level |-> 6..7, SP |-> 8..9, Range2 |-> 10..11,
     Name |-> 12..35, UpFlag |-> 36..36])
ReqWearEquipAckResponse == Fixed(\h0999, 11,
    [Index |-> 2..3, WearLocation |-> 4..7, ItemSpriteNumber |-> 8..9,
     Result |-> 10..10])
ReqTakeoffEquipAckResponse == Fixed(\h099a, 9,
    [Index |-> 2..3, WearLocation |-> 4..7, Flag |-> 8..8])
UseItemAck2Response == Fixed(\h01c8, 13,
    [Index |-> 2..3, ItemID |-> 4..5, AID |-> 6..9, Amount |-> 10..11,
     Result |-> 12..12])
SkillInfoUpdateResponse == Fixed(\h010e, 11,
    [SkillID |-> 2..3, Level |-> 4..5, SP |-> 6..7, Range2 |-> 8..9,
     UpgradableFlag |-> 10..10])
DeleteItemFromBodyResponse == Fixed(\h07fa, 8,
    [DeleteType |-> 2..3, Index |-> 4..5, Count |-> 6..7])
ItemFallEntryResponse == Fixed(\h0add, 24,
    [ID |-> 2..5, NameID |-> 6..9, Type |-> 10..11, Identified |-> 12..12,
     X |-> 13..14, Y |-> 15..16, SubX |-> 17..17, SubY |-> 18..18, Amount |-> 19..20,
     ShowDropEffect |-> 21..21, DropEffectMode |-> 22..23])
ItemEntryResponse == Fixed(\h009d, 19,
    [AID |-> 2..5, NameID |-> 6..9, Identified |-> 10..10, X |-> 11..12, Y |-> 13..14,
     Amount |-> 15..16, SubX |-> 17..17, SubY |-> 18..18])
ItemDisappearResponse == Fixed(\h00a1, 6, [AID |-> 2..5])
ItemThrowAckResponse == Fixed(\h00af, 6, [Index |-> 2..3, Count |-> 4..5])
GroundSkillPoseEffect == Fixed(\h0117, 18,
    [SKID |-> 2..3, AID |-> 4..7, Level |-> 8..9, XPos |-> 10..11, YPos |-> 12..13,
     StartTime |-> 14..17])
NotifySkillResponse == Fixed(\h01de, 33,
    [SKID |-> 2..3, AID |-> 4..7, TargetID |-> 8..11, StartTime |-> 12..15,
     AttackMT |-> 16..19, AttackedMT |-> 20..23, Damage |-> 24..27, Level |-> 28..29,
     Count |-> 30..31, Action |-> 32..32])
AckUseSkillResponse == Fixed(\h0110, 14,
    [SkillID |-> 2..3, BType |-> 4..7, ItemID |-> 8..11, Flag |-> 12..12,
     Cause |-> 13..13])
ItemPickupAckResponse == Fixed(\h0b41, 70,
    [Index |-> 2..3, Count |-> 4..5, NameID |-> 6..9, IsIdentified |-> 10..10,
     IsDamaged |-> 11..11, Slot |-> 12..27, Location |-> 28..31, Type |-> 32..32,
     Result |-> 33..33, HireExpireDate |-> 34..37, BindOnEquipType |-> 38..39,
     Option |-> 40..64, Favorite |-> 65..65, Look |-> 66..67,
     RefiningLevel |-> 68..68, Grade |-> 69..69])

\* Party, storage and trade.
PartyConfigResponse == Fixed(\h02c9, 3, [Deny |-> 2..2])
AckMakeGroupResponse == Fixed(\h00fa, 3, [Result |-> 2..2])
PartyJoinReqResponse == Fixed(\h02c6, 30, [PartyID |-> 2..5, PartyName |-> 6..29])
PartyJoinReqAckResponse == Fixed(\h02c5, 30,
    [CharacterName |-> 2..25, Result |-> 26..29])
DeleteMemberFromGroupResponse == Fixed(\h0105, 31,
    [AID |-> 2..5, CharacterName |-> 6..29, Result |-> 30..30])
AddMemberToGroupResponse == Fixed(\h0ae4, 89,
    [AID |-> 2..5, GID |-> 6..9, Leader |-> 10..13, Class |-> 14..15,
     BaseLevel |-> 16..17, X |-> 18..19, Y |-> 20..21, Online |-> 22..22,
     PartyName |-> 23..46, PlayerName |-> 47..70, MapName |-> 71..86,
     SharePickup |-> 87..87, ShareLoot |-> 88..88])
GroupListResponse == List(\h0ae5, 28, [PartyName |-> 4..27], 54, 12,
    [AID |-> 0..3, GID |-> 4..7, PlayerName |-> 8..31, MapName |-> 32..47,
     Leader |-> 48..48, Online |-> 49..49, Class |-> 50..51, BaseLevel |-> 52..53])
StorageItemListResult == Prefixed(\h07eb, 6, [Result |-> 4..5])
TradeRequestResponse == Fixed(\h01f4, 32,
    [RequesterName |-> 2..25, TargetID |-> 26..29, TargetLv |-> 30..31])
TradeAckResponse == Fixed(\h01f5, 9,
    [Result |-> 2..2, TargetID |-> 3..6, TargetLv |-> 7..8])
CancelExchangeResponse == Fixed(\h00ee, 2, None)
AckAddExchangeItem == Fixed(\h00ea, 5, [Index |-> 2..3, Result |-> 4..4])
ConcludeExchangeItem == Fixed(\h00ec, 3, [Who |-> 2..2])
StorageListNormalResponse == List(\h07e9, 4, None, 26, Fits(4, 26), InventoryNormalItem)
StorageListEquipResponse == List(\h07ea, 4, None, 57, Fits(4, 57), InventoryEquipItem)
ZCAddExchangeItem == Fixed(\h0b42, 62,
    [ItemID |-> 2..5, ItemType |-> 6..6, Amount |-> 7..10, Identified |-> 11..11,
     Damaged |-> 12..12, Cards |-> 13..28, Options |-> 29..53, Location |-> 54..57,
     Look |-> 58..59, Refine |-> 60..60, Grade |-> 61..61])

LoginOut ==
    {AcceptLoginResponse, RefuseLoginResponse}
CharOut ==
    {RefuseEnterResponse, RefuseMakeCharResponse, AcceptMakeCharResponse,
     NotifyZoneServerResponse, CharDeleteReservedResponse, CharDeleteResponse,
     CharDeleteCancelResponse, AcceptEnterResponse}
MapOut ==
    {FriendsStateResponse, FriendsReqAddResponse, FriendsAddResponse,
     FriendsDeleteResponse, FriendsListResponse, ResultMakeGuildResponse,
     ReqJoinGuildResponse, AckReqJoinGuildResponse, UpdateGDIDResponse,
     UpdateCharStatResponse, AckLeaveGuildResponse, AckBanGuildResponse,
     AckDisorganizeGuildResponse, GuildChatResponse, GuildInfoResponse,
     MemberMgrInfoResponse, AckMenuInterfaceResponse, EncodeZCNotifyUnreadMail,
     EncodeZCAckOpenWriteMail, EncodeZCCheckName, EncodeZCAckWriteMail,
     EncodeZCAckRemoveItemMail, EncodeZCAckDeleteMail, EncodeZCAckMailList,
     EncodeZCAckReadRodex, EncodeZCAckAddItemRodex, EncodeZCAckZenyFromMail,
     EncodeZCAckItemFromMail, MapAcceptEnterResponse, MapRefuseEnterResponse,
     MapMoveResponse, MapNotifyPlayerMoveResponse, SpawnUnitResponse,
     SetUnitIdleResponse, UnitWalkingResponse, MapPropertyResponse,
     NotifyTimeResponse, RestartAckResponse, StatusResponse, ParChangeResponse,
     LongParChangeResponse, LongLongParChangeResponse, NotifyChatResponse,
     ZCWhisperResponse, ZCAckWhisperResponse, ZCStatusChangeAck, ZCNotifyEffect,
     ActionResponse, ChangeDirResponse, EmotionResponse, SpriteChangeResponse,
     AckReqNameResponse, ReqNameAll2Response, ReqNameAllNPCResponse,
     SayDialog2Response, WaitDialog2Response, MenuListResponse, CloseDialogResponse,
     OpenEditDlgResponse, OpenEditDlgStrResponse, SelectDealtypeResponse,
     PurchaseItemListResponse, PurchaseResultResponse, NotifyActResponse,
     NotifyVanishResponse, SellItemListResponse, SellResultResponse,
     ZCSettingWhisperPCResponse, ZCSettingWhisperStateResponse,
     ZCWhisperListResponse, EncodeEmptyHotkeyList, EncodeInventoryStart,
     EncodeInventoryEnd, InventoryListNormalResponse, InventoryListEquipResponse,
     SkillInfoListResponse, ReqWearEquipAckResponse, ReqTakeoffEquipAckResponse,
     UseItemAck2Response, SkillInfoUpdateResponse, DeleteItemFromBodyResponse,
     ItemFallEntryResponse, ItemEntryResponse, ItemDisappearResponse,
     ItemThrowAckResponse, GroundSkillPoseEffect, NotifySkillResponse,
     AckUseSkillResponse, ItemPickupAckResponse, PartyConfigResponse,
     AckMakeGroupResponse, PartyJoinReqResponse, PartyJoinReqAckResponse,
     DeleteMemberFromGroupResponse, AddMemberToGroupResponse, GroupListResponse,
     StorageItemListResult, TradeRequestResponse, TradeAckResponse,
     CancelExchangeResponse, AckAddExchangeItem, ConcludeExchangeItem,
     StorageListNormalResponse, StorageListEquipResponse, ZCAddExchangeItem}
=============================================================================
