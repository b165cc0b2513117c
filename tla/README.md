# A TLA+ verification project for goAthena

goAthena is a Ragnarok Online emulator in Go: a login server, a char server and a
map server in one process, over PostgreSQL or MySQL (through gorm) and Valkey.
This directory holds TLA+ models of its handlers, services, timers and wire
formats, above all where concurrency and partial failure decide whether players
keep what they own, the TLC configurations that check them on small instances,
and TLAPS proofs of the properties that hold for instances of any size.

Paths below are relative to the repository, and `M/` stands for
`internal/modules/`. Line numbers are those of the commit the models were
written from; `PROJECT.json` maps every definition to its lines.

## 1. The system

### 1.1 How it runs

* The map gateway (`M/gateway/app/map.go`) reads frames on an event loop and
  runs **the handler of every frame on a goroutine of its own**
  (`OnTraffic`, 549-591). Two frames of the same client are therefore handled
  concurrently. `OnClose` runs on the event loop.
* Further goroutines: the 50 Hz world tick (mobs, regeneration), the checkpoint
  ticker (5 minutes by default), one timer per killed player, one timer per
  killed mob, one goroutine per NPC dialog.
* Locks: `WorldService.mu` (registry), the locks inside an AOI grid,
  `TradeService.mu` (held by a whole conclude, database statements included),
  and a lock per character in the mail service. **No lock is held across two
  database statements of the economy, inventory, storage, shop or session
  code, and no handler runs in a database transaction.** Hence the unit of
  interleaving in the models: one database statement, or one critical section. (`Goods`
  alone takes a movement of zeny as one step, see section 2.)
* A statement may fail. Errors are returned, logged or ignored, and each
  handler's reaction (early return, compensation, going on) is part of its
  action.
* Shutdown: the tick stops, the listeners stop (each close runs `LeaveMap`),
  `SaveAll` writes whoever is left, the database is closed.

### 1.2 Components

| component | state | operations | what is hard | what makes it correct |
|---|---|---|---|---|
| economy `M/economy` | `char.zeny`, the append-only `zeny_ledger` | deduct, credit | read-modify-write without a lock; ledger and balance are two statements; int32 | the ledger explains the balance; balances stay in range |
| inventory `M/inventory` | the `inventory` table | add, remove, equip | remove reads, then writes an absolute amount | units are neither lost nor made |
| trade `M/world/app/trade.go` | in-memory sessions in pairs, staged offers, locks | request, ack, add item, add zeny, ok, cancel, conclude | conclude is up to a dozen statements with a compensation stack | a trade happens completely or not at all; sessions stay in pairs |
| sessions `M/world/app/world.go`, `M/gateway/app/map.go` | entity in the registry, char row, identity cached on the connection | CZ_ENTER, CZ_RESTART, close, checkpoint, SaveAll | the same session ends from two places; the client is back early; crash | a logout that nothing crosses loses nothing; three ways to an entity without an owner |
| registry and AOI `M/world/app/world.go`, `pkg/ro/aoi` | registry, per-map sets, grids | add, remove, move, relocate, respawn | the grid is updated after the mutex is released | registry and grids agree between calls |
| death and respawn `M/world/app/world.go` | hit points, a timer slot per player | kill, arm, cancel, respawn | timer and button race for one token | whoever dies is revived, timers can be cancelled |
| combat, mob AI, spawns `M/world/app` | entities, aggro, floor items, mob respawn timers | attack, chase, drop, pick up | tick against handlers, two killing blows | one death is one reward, one corpse, one respawn |
| leveling and skills `M/world/app` | experience, levels, points, learned skills | grant, level up, learn, cast | LearnSkill persists off the lock | points pay for levels, experience is not minted |
| shop, storage `M/commerce` | storage rows (600 slots) | buy, sell, store, retrieve | two services, no undo | money and goods move together |
| mail `M/social/mail`, `M/gateway/app/mail.go` | mail rows, attachments, compose windows | send, read, collect, delete | compensation and retry | an attachment is delivered once |
| party, guild, friends `M/social`, `M/gateway/app` | membership rows, pending invitations in memory | found, invite, answer, leave, expel, break | invitations go stale, roster rows race | nobody is in a group that is not there, or uninvited |
| chat `M/gateway/app/chat.go` | ignore lists in memory | whisper, ignore | list changed under a delivery | an ignored sender is not heard |
| content `M/content`, `pkg/ro/script` | a script machine and a session per dialog | click, answer, close | a dialog is suspended between frames; control flow is compiled to jumps | one dialog at a time, answers in turn, scripts as written |
| account, character, login and char servers | accounts, characters, session tickets in Valkey, login buckets | login, select, create, reserve, delete | hand-over between servers, tickets expire | names and slots are unique; a login, an enter, a creation and a final delete are answered |
| wire `M/gateway/app`, `pkg/ro/packet` | inbound buffer and identity of a connection; tables of lengths, encoders, parsers | cut, dispatch, skip, parse | TCP cuts anywhere; lengths are written down in three places | the stream stays aligned; one truncated packet makes a handler panic, no other |
| transit, composition root, configuration, database set-up | little | | | |
| RO kernel: formulas, game data, path finding | none | | algorithms | against a reference definition |

### 1.3 How they interact

The gateway handlers call the services; the trade, shop, storage and mail
services call the economy and inventory services, which write the rows of the
character that owns them; the world service is shared by the handlers, the tick
and the timers. Nothing but those rows and the registry is shared, so the
composition that matters is through them: `Trade`, `Goods` and `Mail` are composed
with `Inventory` and `Zeny`, `Economy` with `Zeny`; `Battle` is composed with `Growth`
and `Respawn` over the same entities, `Society` puts `Groups` and `Contacts` on the same
connections, `Social` adds `Dialog` to them, and `Engine` gives `Dialog` the scripts of `Script` to run.

## 2. The modules

| module | models | used by |
|---|---|---|
| `Zeny` | the Zeny value type: int32 arithmetic and its guards (`M/economy/domain/zeny.go`) | `Economy`, `Trade`, `Goods`, `Mail` |
| `Sums` | sums over a finite set, and the units of an item among some rows of a table | `Inventory`, `Battle`, `SumProofs` |
| `Economy` | `EconomyService` deductions and credits, statement by statement | `MCEconomy`, `ServiceProofs` |
| `Inventory` | the inventory repository: rows, add, the two halves of remove, equip | `Trade`, `Goods`, `Mail` |
| `AtomicTrade` | abstract: offers are negotiated and exchanged in one step or not at all | `Trade` (refinement) |
| `Trade` | `TradeService`, its sessions, conclude and the compensation stack; the handlers that race with it | `MCTrade`, `TradeProofs` |
| `Goods` | the handlers that buy, sell, use, drop, pick up, store, retrieve and wear | `MCGoods`, `GoodsProofs` |
| `Presence` | `EnterMap`, `LeaveMap`, `Checkpoint`, `SaveAll`, `OnClose`, CZ_RESTART, warps, crash | `MCPresence`, `PresenceProofs` |
| `WorldIndex` | the registry, the per-map sets and the grids of `WorldService` | `MCWorldIndex`, `ServiceProofs` |
| `Respawn` | `ArmRespawn`, `CancelRespawn`, `RespawnPlayer`, the button | `Growth`, `Battle` |
| `Growth` | experience, levels, spell points, regeneration and heals, `LearnSkill` | `Battle` |
| `Battle` | blows of players and mobs, deaths, rewards, mob respawn timers, the tick | `MCBattle`, `BattleProofs` |
| `Layout` | what a packet is: fields, where they lie, fixed or prefixed by a length | the packet modules |
| `PacketsIn`, `PacketsOut` | every parser and its client's encoder; every encoder of the servers | `Wire` |
| `PacketDB` | the tables of lengths and of handlers of the three servers | `Wire` |
| `Wire` | one connection: TCP, `OnTraffic`, the handlers' identity and parsers, the accept | itself, `ServiceProofs` |
| `Mail` | the compose window, `MailService` and its tables | `MCMail`, `MailProofs` |
| `Connections` | open connections, handler goroutines, budgets of frames | `Groups`, `Contacts`, `Dialog` |
| `Groups` | parties and guilds: handlers, invitations, repositories | `Society` |
| `Contacts` | friends, ignore lists and whispers | `Society` |
| `Society` | the two together, with disconnects | `Social` |
| `Script` | compiler and machine of the script language, and what a syntax tree means | `Engine` |
| `Dialog` | the dialog engine: sessions, prompts, answers, time-outs | `Social` |
| `Social` | `Society` and `Dialog` together | `Engine`, `SocietyProofs` |
| `Engine` | `Social`, where dialogs run the scripts and the machine of `Script` | `MCSocial` |
| `Handover` | login with the rate limiter, char server, admission to the map | `MCHandover`, `ServiceProofs` |
| `TradeProofs`, `GoodsProofs`, `PresenceProofs`, `BattleProofs`, `SocietyProofs`, `MailProofs` | invariants, lemmas and theorems about the module they are named after | |
| `ServiceProofs` | the same for `Economy`, `WorldIndex` and `Handover` | |
| `SumProofs` | what the sums of `Sums` become when a set or a value changes | the proofs of `Trade`, `Goods`, `Battle`, `Mail` |

`ServiceProofs` extends three modules, which is why they keep their names apart: the
specification of `WorldIndex` is `IndexSpec`, that of `Handover` is `HandoverSpec`.

Variables and actions follow one scheme. A table or a map of the program is a
function; a goroutine that is inside a handler has a program counter (`pc`,
`enter[k].pc`, `leave[l].pc`, `flush.pc`, `timer[t].pc`, `button[c].pc`) or, where
the rest of its work is a straight list of operations, that list (`prog` and
`undo` of `Trade`, `job` of `WorldIndex`); every action is one statement or one
critical section. Variables marked *history* do not influence any action; they
say what happened before, so that a property can make its exceptions explicit
instead of the model leaving behaviour out.

**Economy.** `Enter`, `Load`, `AppendLedger`, `WriteBalance` are the four steps of
`DeductZenyFor` and `CreditZenyFor` (83-140); `Refuse`, `AppendFails`, `WriteFails` their error
returns. The ledger is its row count and its sum (`SumByChar`). `Half` stands for
2^31, so `Balances == 0 .. Half` has the one value too many that the code admits.

**Inventory / Trade.** A row has an owner, an item, an amount and the equip
column. `conclude` becomes `prog`: verify both sides, remove both offers, grant
both, move zeny both ways. `Done` pushes an undo, `Failed` replaces `prog` by the
undos in reverse order and sets `rolling`; in that phase a refused or failed
operation is skipped, as the code ignores its error. `pair # <<>>` is the trade
mutex held by `conclude`; every other service call is one critical section and
needs it free. `Others` are goroutines that
drop, sell or use items without that mutex: `ForeignLoad` and `ForeignWrite` are
the two statements of `Remove`. `Travel` is a character that changes map or goes
away, which `Request` and `AddItem` look at.

**Goods.** A handler is a `job`. `TakeFromBag`, `TakeFromStore`, `Buy`, `Equip` and
`Unequip` load the rows and validate the request, `BagLoad`/`BagWrite` and
`StoreLoad`/`StoreWrite` are the two statements of the two removals, `BagAdd`,
`DropItem`, `Credit` and `StoreMerge`/`StoreKeep` put down what was taken, and `Fault`
is a failing statement. A buy or sell request with several entries is several
jobs that were validated together. A zeny movement is one step here, since its
statements are the subject of `Economy`. One equipment slot is modelled.

**Presence.** `row` and `online` are the char row, `ent` the registry. A connection's
CZ_ENTER goes load, skills, add, online, bind; a connection may have several of them
under way (`Slots` bounds how many) and the last to bind is the one its context
remembers. A LeaveMap goes get, remove, offline, state, skills, and can run from the
close and from the CZ_RESTART of one connection at once. Neither clients nor
checkpoints are restricted: a client comes back whenever it likes. `last` is what the entity was when it was removed;
`raced` marks the removals that `Crossed` names, `early` the CZ_ENTERs that loaded before
LeaveMap had written, `stray` the entities nobody will remove. In-game changes are the ones a session has to save: vitals, a
walk, a respawn, an allocated stat point, a portal (`Relocate`, `RelocateWrite`)
and the script warp.

**WorldIndex.** Each call changes the registry under the mutex and leaves the grid
operations to be executed by the goroutine outside it (`job`).

**Respawn / Growth / Battle.** A death arms a timer goroutine whose token lies in
`slot`. The select of the goroutine may take either branch when both are ready.
`grow` is the growth of an entity and `row` what the tables have; the map of learned
skills is an object of its own because `LearnSkill` works on a copy of the entity
that shares it (`skills`, `grow[c].map`). A learn goes snapshot, raise, `SaveSkills`,
`SaveState`, apply. A blow goes `Attack` (both looked up), `trySpendSP` for a cast,
`HitMob` or `HitPlayer` (`applyDamage`), and for the killer of a mob `Bury`, `Remove`,
`scheduleRespawn`, `grantMobExp`, and for each sharer `Grant`, `LevelUp`, `JobLevelUp`. The
tick collects its attacks under the read lock (`resolve`) and makes them one after
the other off it (`Swing`). Positions are left out: anyone may be in range.

**Layout / PacketsIn / PacketsOut / PacketDB / Wire.** A packet is a layout, a
sequence of widths; an encoder is the layout it writes, a parser the least frame it
accepts and the fields it reads. `Wire` has one connection of one server. The
client sends packets, `Deliver` hands over bytes up to any boundary that matters
(inside the header, one short of the end), `Take` is what a round of `OnTraffic`
takes, `Dispatch` starts a handler with the identity of that moment, `Skip`
discards. A handler is `Drop`, `RefuseFrame` or `Parse`, and for an enter `Verified`, `Accept`
or `Turned`. `Write` is any frame a server may send, of its least and greatest
length.

**Mail.** A verb is an `op`: `charge`, `Deduct`/`Pay`, `lift`/`Take`, `CreateCount`, `CreateInsert`
and, when a statement fails, `Refund`/`Repay` and `ReturnItem`; `ClearZeny`, `CollectCredit`/`Collect`,
`SetZeny`; `CollectAdd`, `ClearItems`. The pairs are the load and the absolute write of a balance or of a
row, `read` is what was loaded. `lockMailOps` is the lock per character. Other handlers do not take it:
`Spend`, `Earn` and `Lose` load the same purse and rows, `MoveZeny`, `MoveUnits` write them, `MoveFails` is
their failing statement. `overwritten` counts what the write of an older balance undid, `doubled` the
units that overlapping removals of a row both took. The ledger rows are `Economy`'s.

**Connections / Groups / Contacts / Society / Social.** A frame is a goroutine (`op`). What it
read before it writes is kept in `op`, and each statement or critical section is a
step. Parties and guilds share their actions and differ where the repositories do
(`PartyRemoveMember`, `GuildRemoveMember`, `GuildCountLeft`, `Break`). `unregisterConn`
is what a close does to them, `OnClose` adds the dialog of the client. A dialog's handler is, for `Society`, a
step `Elsewhere`, which touches neither tables nor invitations; every step of `Social` is
one of `Society`.

**Script / Dialog / Engine.** `compileFile` turns a syntax tree into instructions, label by
label as the compiler does, and `Exec` and `Run` are the machine up to the next call
that leaves it. `Meaning` is the reference: what the tree does, by structure, given
the answers. `Dialog` starts machines, keeps `Engine.sessions` and the one-place
channel (`box`), and takes or times out answers. `seen` is what the client shows. What a
script does between two calls of the host is a parameter of `Dialog` (`Started`, `Resumed`,
`Stored`), to which `Engine` and the run give the compiled scripts and the machine of
`Script`: `Dialog` is proved about with the parameter, and run with the machine.

**Handover.** A client is at a stage of its way; a request is several steps of the
server that serves it, and the session store may forget the ticket between any
two (`Expire`). `Unanswered` is a select, a reservation or a cancel whose first statement fails,
`StatementFails` a later failure that is answered. `Tick` is time for the limiter.

## 3. The runs

Passing runs (times with two workers):

| run | bounds | checks | states |
|---|---|---|---|
| `economy_movements` | 2 characters, 2 goroutines, amounts 0..2, `Half` 3, 2 ledger rows each | `Reconciled`, `BalanceInRange`, `CapIsAbsorbing` | 1.5 M, 40 s |
| `trade_swap` | 3 characters, stacks of 2 and 1, zeny 2, `Half` 4, up to 2 offers, 1 database failure | `SessionsPaired`, `SwapIsAtomic`, `MutexReleased` | 269 k, 65 s |
| `trade_interference` | 2 characters, stacks of 2, 1 foreign handler, 2 foreign steps, 1 database failure | `ItemsNeverLost` | 790 k, 20 s |
| `goods` | 2 characters, 2 goroutines, 2 items, a warehouse of 1 slot, amounts 1 and 2, 3 requests, 1 failure | `UnitsAccounted`, `StorageBounded`, `OneWorn` | 81 k, 30 s |
| `presence_saved` | 1 character, 2 connections, 2 maps, 1 cell, 2 CZ_ENTERs, 1 CZ_RESTART, 1 in-game change, 1 checkpoint or SaveAll, 1 failure, 1 crash, at most 2 of the last four | `SessionSaved`, `ResumesWhereLeft` | 1.2 M, 60 s |
| `presence_ghosts` | 2 characters, 2 connections with 2 CZ_ENTERs at once, 2 cells (one off the canvas), 2 CZ_ENTERs, 2 CZ_RESTARTs, 1 failure or crash | `NoGhost`, `DisconnectDespawns` | 150 k, 45 s |
| `world_grids` | 2 entities, 2 goroutines, 2 maps (one without a grid at first), 1 cell off the canvas, 3 calls | `GridsAgree` | 60 k, 5 s |
| `battle` | 2 players (one knows the skill), 2 handler goroutines, 1 mob with 1 hit point, damages 0 and 2, reward 2, 3 levels, up to 3 deaths; 7 budgets of events | `NoLostTimer`, `MobLivesOnce`, `ExpNeverMinted`, `PointsPayForLevels`, `KilledRevives`, `MobComesBack` | 229 k, 135 s |
| `wire` | each server, every packet it knows, an unknown and a malformed one, and variable ones cut to 4, 30, 62 or 65 bytes; 2 packets, one of them an enter, a chat line or odd; texts of 0 and 12 | `Aligned`, `ParsersAgree`, `AcceptedIsServed`, `WrittenFits`, `EveryPacketTaken` | 170 k, 65 s |
| `mail` | 2 characters, 2 goroutines and 1 of another handler, 2 stacks, an inbox of 1, 2 attachments, a balance cap within reach of a letter, 6 requests, 1 failure | `ZenyConserved`, `AttachmentsConserved` | 676 k, 110 s |
| `social` | 3 characters, 2 goroutines, groups of 2, friend and ignore lists of 1; 7 budgets: 5 party, 6 guild, 6 friend or 4 chat frames with a close; 82 scripts with 2 answers and a failure; 2 clicks with 2 answers and a close or a time-out | `MembershipConsistent`, `CapsHold`, `NobodyUninvited`, `NothingStale`, `WhisperFiltered`, `RunsAsWritten`, `DialogHeard`, `AnsweredInTurn` | 349 k, 70 s |
| `handover` | 2 clients of one account behind one address, 2 names, 2 slots, 3 logins, 3 requests, bursts of 2, 1 tick, 1 failure | `BurstBounded`, `CharactersDistinct`, `DeletedWasReserved`, `RequestsEnd` | 273 k, 110 s |

Why the bounds are enough. A race of the economy needs two calls and at most
one completed one before; `Half` 3 makes the cap reachable from every endowment.
A failed conclude has to be seen failing after each of its operations, which one
failure anywhere does, and with both sides offering; the third character is the
one a torn-down session could wrongly point at. A dropped item is picked up
twice, or a stack stored twice and retrieved, in three requests, and one slot is
enough for the warehouse to be full. Two connections are the old and
the new one of a player, each with its close; one CZ_RESTART is enough to end a session from
two places. Two CZ_ENTERs are a
session and the next one, or two characters on one connection. What can go wrong
there takes at most two incidents: a change and the checkpoint that overtakes it, or a failure and
the change it loses. Three deaths
let a timer outlive the slot of a later one, which is the case `NoLostTimer` is
about. Two handlers are two killing blows, two learns or two casts at once; a mob
with one hit point dies of each, and three levels let experience and points be
earned, spent and lost. In `wire` a frame can only be hurt by the one before it, so
two packets suffice, and of a text only the shortest and one longer matter to code
that counts bytes. The sizes of cut frames are around the checks of the parsers: a bare header, one
short of the longest other check, the 62 that the letter's parser asks for, and the
first size at which a letter with a character id fits the memory of its frame. One slot, one letter and one friend make every limit reachable;
three characters are a group of two and a third who wants in. The 82 scripts are
seven written ones, with each kind of statement, and loops of each kind with every
choice of up to two statements from output, an addition, a conditional `break` and a
conditional `continue` in the body. A new bucket and one refilled after a pause are the two
cases of the limiter. `battle` and `social` run several instances that each give
their events to a part of the handlers: the initial states choose the budget.
Deadlock is not checked because every bounded counter ends.

What they show. Each module has one type invariant; those of `Economy` and `Trade` are
only proved (section 6), the others are conjuncts of the invariant about the same
variables (`UnitsAccounted`, `SessionSaved`, `GridsAgree`, `MobLivesOnce`, `ParsersAgree`,
`AttachmentsConserved`, `MembershipConsistent`, `BurstBounded`).

* `Reconciled`: endowment plus ledger sum is the balance, corrected for movements
  whose balance write failed, at every statement, **until two calls overlap on
  that character**. `CapIsAbsorbing`: a balance of exactly 2^31 can never be moved.
* `SessionsPaired` (`SessionSymmetry` and `LockDiscipline`): the two halves of a trade
  agree, and both are locked exactly while conclude runs. `MutexReleased`: conclude
  ends. `SwapIsAtomic`: `Trade` implements `AtomicTrade` under the mapping that adds to a
  bag or purse what the pending undos would put back. It is a refinement:
  conclude commits in the step that ends its last operation. The one exception is an undo
  that fails (`UndoFails`): the database fails it, or a purse of exactly 2^31 refuses it.
* `ItemsNeverLost`: the races of section 4, and failures of the statements of a trade,
  duplicate items. They never destroy one; only a failure of an undo does.
* `UnitsAccounted` is `GoodsConserved` and `GoodsNeverLost`. `GoodsConserved`: units are neither made nor lost, except by a failing statement
  (or a full warehouse) that loses what its handler carries, **until two handlers
  overlap between the read and the write of one row** (`raced`). `GoodsNeverLost`: a
  race on a bag row only duplicates; one on a warehouse row can lose units.
  `StorageBounded` and `OneWorn` say the same of the slots of the warehouse and of
  the equipment slot: only two overlapping inserts, or two overlapping equips,
  break them.
* `SessionSaved`: when LeaveMap is done, whichever of close and CZ_RESTART called it, the row is what the
  entity was when it was removed. Excepted are a LeaveMap that failed itself, a crash, and
  the removals something crossed (`raced`): a change between Get and RemoveEntity, an
  older snapshot still in the hands of a checkpoint, another LeaveMap that had not
  finished, a CZ_ENTER that had still to mark the character online. The next session
  that nothing crosses is saved again. `ResumesWhereLeft`: an enter brings that back,
  but for one that loaded the row before LeaveMap had written it (`early`).
* `NoGhost`, `DisconnectDespawns`: no entity is left without someone to remove it,
  in any interleaving, except in the three ways of section 4 (`stray`).
* `GridsAgree`: grids and registry agree after any sequence of calls, as long as no
  two goroutines work on the same entity (`raced`) and nobody is relocated to a
  map without a grid (`astray`).
* `NoLostTimer`, `KilledRevives`, `MobComesBack`: see section 5 for the fairness.
* `MobLivesOnce`: of all blows that strike at once one is the death, so one handler
  buries, one reward is paid, one timer is armed. `ExpNeverMinted`: what players have
  and what their levels cost is no more than was killed for. `PointsPayForLevels`:
  levels learned and points left are what job levels brought, **until a learn
  overlaps with another learn, a job level or a logout, or fails** (`tangled`).
* `Aligned`, `EveryPacketTaken`: however TCP cuts the stream, it is read at packet
  boundaries, and every complete packet is taken. `ParsersAgree` is `Understood`: each parser takes
  what its encoder writes and finds every field where it was put, except the three mailbox
  commands and the empty answer to a text prompt; and `Panics`: of the frames a client cuts
  short only a `CZ_REQ_WRITE_MAIL2` of 62 to 64 bytes makes a handler panic and lose its connection. `AcceptedIsServed`: what a client
  sends after it saw its accept is not dropped for lack of identity. `WrittenFits`:
  what the servers write has the length their tables say, where they have one.
* `ZenyConserved`: a send or a collection that fails at any statement loses and makes no zeny,
  unless its recovery fails too. What the write of an older balance did to another
  movement of the purse is counted apart (`overwritten`), and nothing else is missing.
  `AttachmentsKept` of `AttachmentsConserved`: the same of units, which overlapping
  removals never lose. `DeliveredOnce` of `AttachmentsConserved`: only a
  collection whose own statement failed can deliver again, and only units that
  two removals read before either wrote are there twice (`doubled`).
* `MembershipConsistent` is `NoDanglingMember` and `GroupPeopled`, rosters and groups agree
  except where two transactions named in them overlapped (`raced`), and `FriendsMutual`,
  friendship is mutual without exception. `CapsHold`: rosters (`RosterBounded`) and
  friend lists (`FriendsBounded`) keep their limits, unless two acceptances overlapped
  (`raced`, `crossed`). `NobodyUninvited`: whoever is in a group founded it or was invited
  to it. `NothingStale` (`InvitesFresh`, `RequestsFresh`): no invitation or request
  survives the close of a connection it touches, unless its handler was under way at
  the close. `WhisperFiltered`: a whisper is not delivered to someone who denied its
  sender from its arrival on.
* `RunsAsWritten`: every script of the instance ends with the effects
  its tree means and an empty stack, for every sequence of answers, except for
  the statements of section 4. `DialogHeard`: a running dialog is its player's
  session, unless two clicks started two. `AnsweredInTurn`: an answer goes to the
  prompt it was given to, unless the player answers unasked, twice or late.
* `BurstBounded`: no more logins pass than the bucket's capacity and its refill.
  `CharactersDistinct`: no name is given twice (`NamesUnique`), no slot unless two creations
  overlap (`SlotsDistinct`, `crowded`). `DeletedWasReserved`: nobody is deleted unreserved,
  unless a cancel was acknowledged between the check and the delete.
  `RequestsEnd`: an admitted login, CH_ENTER, CH_MAKE_CHAR, CH_DELETE_CHAR3 and CZ_ENTER are
  answered whatever fails. Reservations and cancels end, but like selects they may
  leave the client without an answer.

## 4. Where the code and its comments disagree

Met while modelling. Each is a behaviour of the models; where a property would be
violated by it, the property names the exception (a history variable such as
`raced`, `shared`, `tangled`, `twice`, `overwritten`), and without the exception TLC finds it.

Money, goods and sessions:

* `M/economy/app/service.go:102`: two calls that load the same balance lose one
  movement; `ledger.go:5` says the ledger sums to the balance (`shared` in `Reconciled`).
* `M/world/app/trade.go:482`: the first zeny leg of a two-way trade can bring the
  recipient to 2^31; both the second leg and the undo are then refused, the payer
  is refunded, and the zeny is there twice; `trade.go:17` says a failed conclude
  duplicates nothing (`UndoFails` in `SwapIsAtomic`).
* `M/world/app/world.go:660`: a checkpoint that took its snapshot before a disconnect
  writes it, and `online = true`, after LeaveMap; `map.go:488` says a disconnect leaves
  no stale-online row (`raced` in `SessionSaved`).
* `world.go:217`: MoveEntity reseats in the grid it looked up before releasing the
  mutex; a respawn or a portal in between leaves the player in two grids, which
  `world.go:821` excludes (`raced` in `GridsAgree`).
* `M/economy/domain/zeny.go:40` admits a credit to exactly 1<<31, whose `Amount` is
  negative, where the comment says "capped at INT32_MAX" (`CapIsAbsorbing` states
  the consequence).
* `M/world/app/trade.go:170`: `Ack` does not tell the two pending sides apart, so the
  requester can accept its own request. `trade.go:394`: conclude does not look at
  the equip column again, so an item equipped after it was staged is traded.
* `M/inventory/infra/gorm.go:50`: Remove writes an amount computed from an earlier
  read, so a drop between its two statements does not fail a swap, as `trade.go:25`
  says it does; the item is dropped and traded (the `"bag"` race of `Goods`).
  `gorm.go:36`: Add always inserts a row, where its comment says that stackable
  items stack.
* `M/commerce/storage/infra/gorm.go:40`: the transaction of Add locks nothing it reads,
  so at the databases' default isolation two parallel deposits do both find no
  row, and can pass the 600 slots, which the comment excludes; two parallel merges
  lose units.
* `M/world/app/storage.go:19` promises that a failed move changes neither side; when
  the warehouse is full or a statement fails, the units have left the bag (a
  comment at line 105 knows).
* `M/commerce/shop/app/service.go:64`: Sell removes the goods and then credits; a
  refused credit keeps both.
* `M/gateway/app/dispatch.go:1044`, `M/world/app/itemuse.go:83`: dropping and using do not
  look at the equip column.
* `M/world/app/world.go:536`: LeaveMap removes the entity before it writes the row;
  a client that is back in between loads the old row (`early` in `ResumesWhereLeft`). It
  writes the entity it looked up before: what changed in between is lost (`raced`).
* `world.go:654`: the snapshots of Checkpoint and SaveAll have no max_hp and max_sp,
  and write zeros. After a crash the player enters with a maximum of zero.
* `M/world/infra/gorm.go:144`: SaveState writes the status points left, not the stats
  they bought.
* `world.go:539`, `gorm.go:112`: SetOnline writes the cell and not the map. A script
  warp is therefore overwritten by the LeaveMap of the reconnect, and a player
  who respawned on another map is next found on the map of the death.
* `M/gateway/app/map.go:473`: a close during the connection's own CZ_ENTER leaves an
  entity nobody removes; `world.go:158`: AddEntity keeps in the registry an entity
  that the grid refused, which locks out a player whose saved cell is off the
  canvas. `map.go:637`: handleEnter takes a second CZ_ENTER, for any character of the account, on
  a connection that has entered, and overwrites its identity (673); at the close only the
  last character leaves. These are the three exceptions of `NoGhost`.
* `map.go:492`: the late close of an old connection ends the session of the new one.
* `world.go:735`: RelocatePlayer does not touch `byMap`; `world.go:737`: on a map nobody
  has entered yet it finds no grid (`astray`). `world.go:218`: a MoveEntity past its
  lookup seats an entity that RemoveEntity has just removed (`raced`).
* `world.go:876`: a timer goroutine that has left its select does not look at its
  context again, so the button and the timer may both respawn the player.
* `world.go:887`: a player who disconnects while dead is loaded dead and no timer is
  armed again (`dropped` in `KilledRevives`).
* `pkg/ro/aoi/grid.go:238`: `GridManager.MoveEntity` takes the entity out of the tower
  with the lower id, which need not be the old one. WorldService does not call it.

Battle and growth:

* `M/world/app/skill.go:233`: "no gate races a concurrent learn", and a failure spends
  and persists nothing. The copy shares the skills map with the entity, so the
  level is raised outside the lock and before anything is written; a failed
  statement leaves it raised and no point spent. Step 10 sets the points of the
  snapshot less one: two learns spend one point, a job level in between is lost,
  and the SaveState of a learn that is under way at a logout overwrites the row
  (`tangled`). Two unsynchronised writes to the map would also stop the process.
* `M/gateway/app/dispatch.go:1324`: a player killed by another player gets no respawn
  timer. `combat.go:123`: Attack does not ask whether the attacker is alive. A level-up, a
  potion or a script heal revives a dead player in place while the timer runs on.
* `dispatch.go:1385`: "a party failure can never cost EXP", but a share whose
  sharers are all dead pays nobody.

Mail:

* The lock of the mail verbs (`M/gateway/app/mail.go:109`) does not cover purchases, sales, drops
  and trades of the same character, so the two races above reach mail: a movement
  written between the load and the write of a charge, a refund or a collection is undone or
  repeated (`overwritten`), and a row dropped while it is lifted is sent and dropped (`doubled`).
* `M/social/mail/app/service.go:311`: CollectItems adds to the bag before it clears the
  letter, so a failed clear delivers again on retry; CollectZeny claims first.
* `M/gateway/app/mail.go:31`: the compose window is written back by a handler that was
  under way when the connection closed, and is there at the next login.
  `mail.go:391`: a merge into a staged stack does not look at the weight cap again.

Parties, guilds, friends and chat:

* `M/social/party/infra/gorm.go:49` says "a concurrent join cannot slip between the
  read and the write"; at the databases' default isolation it can, and leaves a
  member of a party that is gone.
* `M/gateway/app/guild.go:59` says a stale invitation cannot survive a disconnect; one
  that a handler stores after the close does.
* `M/gateway/app/friend.go`: `switch err` compares wrapped errors, so the answers for
  full lists are never sent. `party.go`: handleLeaveGroup tells each remaining member
  that it has left itself. `chat.go`: handleWhisper reads `ignoreAll` again after the
  unlock, and may answer 2 where it refused with 3.

Scripts and dialogs:

* `pkg/ro/script/compiler.go:464`: `continue` in a for loop jumps to the condition, past the
  post statement, and may loop for ever. `compiler.go:295`: the comment of compileInput
  expects a pop that compileStmt does not emit, so `input` leaves a value on the
  stack, and so do the arguments of `callsub`.
* `pkg/ro/script/vm.go` says of SetQuestVar that the machine stops on a write failure;
  builtinSetQuestVar goes on.
* `M/content/app/engine.go:68`: StartDialog looks and registers in two critical sections,
  so two clicks start two machines, and the first to end unregisters the other,
  which is deaf until its time-out. `engine.go:98`: an answer that lies in the
  channel answers the next prompt: a Next clicked twice chooses option 0 of the
  menu that follows, a late answer goes to the prompt after. `engine.go:103`: EndDialog ("e.g. on
  disconnect") is called by tests only; after a reconnect clicks are ignored
  until the time-out, and answers go to the dialog of the dead connection.
* `M/world/app/scriptinv.go:83`: DelItem is not all-or-nothing when a later removal fails.

Login, characters and wire:

* `M/character/infra/valkey_session.go:70`: DeleteSession "called once char/map has
  consumed it" is never called. `M/gateway/app/map.go:669`: the GID bound to the
  connection is the packet's, not the session's.
* No unique index on account and slot: two creations at once share a slot
  (`crowded`). `M/gateway/app/char.go`: selecting an empty slot (347), reserving or cancelling
  for a row that is gone meanwhile, and any failing statement of the three (331, 378, 473) are
  not answered (`ignored`). A deletion does not look whether the character is in the world.
* `char.go`: the identity is kept before the list is read, so a refused enter leaves an
  identified connection; the `auth` map is never pruned. `ratelimit.go` speaks of idle
  eviction; there is none.
* `map.go:572`: only the event loop changes the connection's context, says the comment;
  handleEnter does so from its goroutine. Packets pipelined behind a CZ_ENTER are
  dropped.
* Frames the map server sends and its table does not know: 0x00b3, 0x010e and the
  guild, friend and storage frames. `pkg/ro/packet/mail.go`: ParseCZWriteMail accepts 62 bytes and
  reads up to 68. Slices reach to the end of the memory append has allocated, 64 bytes
  for frames up to that size and 80 for the next, so it is the command with the character id
  that panics, at 62 to 64 bytes (`Panics`); the others are then refused because their title does
  not fit. The mailbox commands read their id one byte further than the
  tests' encoder puts it; EncodeZCAckReadRodex ("42-byte") writes 60,
  EncodeZCAckAddItemRodex ("46B") 64. `guild.go`: the text of a leave is 40 wide, and
  24 bytes of it are written.

## 5. Fairness

Only what the Go scheduler gives is assumed: a goroutine that can take its next
step eventually does. `Trade` assumes weak fairness of the steps of a conclude,
`Presence` of each CZ_ENTER and each LeaveMap, `Battle` of the tick's notification, of
each player's and mob's timer, of a pressed button and of each handler, `Handover`
of the server's steps for a request, `Wire` of `OnTraffic` and of TCP, which delivers what
was sent. Players are under no obligation to do anything, with one exception: in
`Battle` a client that dropped out comes back. Neither failures nor crashes nor
time-outs are fair.

## 6. The proofs

All theorems are about the specifications TLC checks, and hold for any sets of
characters, goroutines, items, maps and amounts, any limits (slots, roster sizes, a
bucket's capacity, the int32 cap `Half`) and any bounds. The assumptions are the ASSUMEs
of the modules, which TLC evaluates on every run. Most give a constant its type. The
others are:

* `HalfAssumption`: `Half` is positive. `StakesAssumption`: staged amounts are positive,
  which the handlers check.
* `NobodyAssumption` of `Trade`, `AbsentAssumption` of `Presence` and `WorldIndex`: the value that
  stands for nil is not one of the things it is the absence of.
* `GoodsStart`: at the start a character wears at most one item in the slot.
  `StartAssumption` of `Handover`: at the start the character table is one that creations
  can have made.
* `GrowthConstants`: `Chars` and `Workers` are finite, since a new map of learned skills is
  one that nobody has yet. `ConnectionsAssumption`: `Chars` is finite, since rosters are counted.
* `TextAssumption` of `Wire`: no client writes a text or a list longer than its packet's 16-bit length
  field can announce. `WireAssumption`: a frame cut short has at least its header.
* `CharsAssumption` of `Trade`, `GoodsWorkers`, `MailAssumption`: what is summed over is finite.

An invariant is proved from a stronger one that every step preserves. Those were
checked by TLC on the runs' instances before they were proved. Where a property makes
an exception for something that happened (a history variable), so does its invariant: the proof
shows that the named overlap is the *only* way to lose it.

**Sums** (`SumProofs`). A sum over a finite set is a fold, whose value the prover cannot
find by induction. It is unfolded element by element at a least counterexample instead: a smallest
set, or a shortest list, for which a law fails. The laws are the type of a sum, its change when one
value or one member changes (`SumUpdate`, `SumRemove`), monotony, the sum as a sum
of the sums of each owner, and the sum over two lists joined; `UnitsShift` says what the
units in a table become when one row does. All the other proofs about quantities are built on them.

**Economy.** (`ServiceProofs`)
* `TypeCorrect`, by induction on its own.
* `RangeCorrect`: `BalanceInRange` is not inductive, since a write puts
  down what was computed earlier. The invariant adds `NextInRange`: every goroutine
  past its check carries a balance in range. The step is the lemma `MoveStaysInRange`.
* `ReconciledCorrect`: the invariant is `OneCallPerChar /\ NextIsFresh /\
  Reconciled`. For a character on which calls never overlapped there is one call at
  a time, and what it will write is the present balance plus its movement; a
  lost update is exactly a `NextIsFresh` that has gone stale.
* `CapCorrect`: an action property, from `CapIsNegative` (2^31 is read
  as a negative int32, so `NewZeny` refuses it).

**Trade.**
* `TypeCorrect`: the type invariant says when the compensation stack is
  empty and that a half-done removal has loaded at least what it removes; the
  lemmas about `Swap`, `Done` and `Failed` carry it.
* `SessionsCorrect`: `SessionsPaired`. `SessionSymmetry` and `LockDiscipline`
  together, with the type invariant and `PairTrades` (the pair conclude runs for is in a
  trade), are inductive, neither is alone: a conclude tears down the pair it runs for, and
  it is symmetric only because the pair is locked on both sides.
* `NeverLostCorrect`: `ItemsNeverLost`. The bags at one moment say nothing, since a foreign
  handler that has loaded a row may write back less than is there by then. The invariant
  `FloorInv` therefore claims a table that is certain (`Floor`): no row of it holds
  more than the bag has, nor more than any removal under way has loaded, so that no write
  brings the bag below it. That table, what the handlers took out, and what the
  statements still to come will put in or take out (`Backed`) are together at least what there was. Each
  step exhibits the next such table. With it go `Balanced` (the undos are worth what is left of the
  trade, so that a failure at any statement changes nothing in that sum) and `NamesInv`
  (a removal still knows the name of its row, although the row may have changed or gone).

**Goods.** What a handler found out about a row by reading it has to stay true until it
writes, while other handlers change the tables.
* `TypeCorrect`: no removal writes back a negative amount.
* `OneWornCorrect`: `WornInv` says that at most one equip request of a character is past its
  read, and that it knows of everything the character wears; `OwnerInv` that the row it
  is going to wear still belongs to that character, because ids are not given twice.
* `StorageCorrect`: `InsertInv`, one insert at a time, into a slot that is still free and for a
  name that has no stack yet, and `StackInv`, the same for the row a merge has found.
* `UnitsCorrect`: `UnitsAccounted`. Until a race, what a handler loaded is what the row still
  holds (`BagInv`, `WarehouseInv`), and bags, warehouses, floor and hands add up (`EvenInv`). After a
  race on a bag row they need not; then `LowInv` claims low estimates of the rows, below what
  is there and below what any handler has loaded, which still account for every unit.

**Presence.**
* `TypeCorrect`: with the types, `CallsOK`, what each call knows about itself at each
  statement.
* `NoGhostCorrect`: the invariant `GhostInv` adds that the close of an open connection is still to
  come. Every step that takes an identity away (a close, another CZ_ENTER that binds, a LeaveMap
  that is done) then leaves the character removed, claimed by somebody else, or a stray.
* `SavedCorrect` and the action property `ResumeCorrect`: `SavedInv` says of each character that is out, that
  nothing crossed and whose LeaveMap did not fail, where its row comes from (`Awaited`):
  a LeaveMap that writes has in its hands what was removed, and how far it got is what the
  row shows (`WriteSafe`); if none does, the row is that already (`Kept`); and a CZ_ENTER that is not
  early carries what the row holds (`EnterSafe`).

**WorldIndex.** (`ServiceProofs`) `GridsCorrect`: `GridsAgree` speaks of moments without pending work. The
invariant `Tracked` says at every moment what the pending grid operations of the one goroutine
at work on an entity will make of the grids (`Completes`), and `Orderly` which lists of
operations the calls produce.

**Battle, Growth and Respawn.**
* `NoLostTimerCorrect`: a token is dropped from a slot only by who took it; the invariant ties
  each slot to a timer of its own character that has not finished.
* `MobLivesOnceCorrect`: with the types of the whole composition (`TypeInv`: the operations of a
  handler by kind, spell points never below zero), `OnceInv` says that a mob is being buried
  by one handler, and only while it is dead and has no timer.
* `PointsCorrect`: `PayInv` is `Apart`, no two characters share a map of learned skills, not even
  through the copy of a learn under way, and `Pay`, the account of one character at every
  statement of its learn, in the world and in the tables.
* `ExpCorrect`: `ExpNeverMinted`. What a character has may go down and up again, for a
  learn saves a copy that is older than the entity and a logout need not come before it. `MintInv` therefore
  gives each character a height that covers what it has and every copy of it a handler holds;
  the heights and the shares that are yet to be granted are no more than what the mobs
  killed are worth.

**Society and Social.** The first theorems are about `SocietySpec`, groups and contacts beside anything
that leaves their state alone. `SocietyRefined` shows that every step of `Social`, which the run
checks, is one of `Society`, so that they hold of it.
* `MembershipCorrect`. For `NoDanglingMember`: the group a join is about to enter exists
  (`JoinsExist`), and a count taken by a leave still holds (`CountHolds`). For `GroupPeopled`: a
  character about to enter a group is in none (`Newcomers`), one about to leave is
  in that group or already in none (`Leavers`), does not lead a party it merely leaves (`NotLeading`), and leaves
  somebody behind where it has counted somebody (`OthersStay`). Neither holds when the
  transactions named in the property have overlapped. `FriendsMutual` is inductive with the
  types.
* `CapsCorrect`: a join or an acceptance past its count still has room (`JoinsFit`, `AddsFit`).
* `InvitedCorrect`: pending invitations and answers under way entitle whom they name
  (`InvitesEntitled`, `AnswersEntitled`).
* `FilterCorrect`: a whisper on its way that is on record as denied ever since it arrived is
  denied now (`GatesDeny`).
* `FreshCorrect`: an invitation that is yet to be stored names open connections, or is marked
  as overtaken by the close (`PendingFresh`).
* `HeardCorrect`: `DialogHeard`, whatever machine runs the scripts. `HeardInv` adds that the session of a
  character is a dialog of that character, that a handler on its way to a channel has the session
  of its own character, and that the machine of a dialog that is over has stopped, so that no late
  answer moves it.
* `TurnCorrect`: `AnsweredInTurn`. Of the prompt that a dialog waits in there is one copy at most: shown to the
  client, or with the goroutine that carries its answer, or in the channel; and where there is
  one, the character has no answer to anything else about (`TurnInv`). A click looked up twice, an
  answer without a prompt and a time-out are what breaks that, and what the property excepts.

**Mail.**
* `TypeCorrect`: with the types, what each verb carries at each statement, and that a list with one
  attachment taken out is still one of known attachments (`WithoutFacts`).
* `ZenyCorrect`: `Money`, the sum of purses, letters, what verbs carry and what was spent, where a purse
  is taken together with what older balances did to it (`overwritten`), is changed by
  no statement, unless a recovery fails. This needs `Serial` (one verb of a character at a
  time, which is what `lockMailOps` is for), `LetterInv` (a collection finds its letter as it
  read it, or with the column it cleared itself) and `LoadInv`: what a verb or another handler has
  loaded gives a balance in range when it is moved, or a removal that is `Sound`, of a row that
  holds no more than was loaded and what is already recorded as taken twice.
* `AttachmentsCorrect`: likewise for units of each item, with `NameInv`: an attachment still has the name
  of the row it is to be taken from. `Balance` is the units less those taken twice (`Doubled`), and
  counts what a collection has put in the bag and not yet taken off the letter once, so a
  failing collection is the one way to more, and an undo that fails the one way to less.

**Handover.** (`ServiceProofs`)
* `HandoverTyped`, `BurstCorrect`: what the limiter has let through and the tokens it holds are
  covered by a full bucket and the refills up to its last use.
* `DistinctCorrect`: the slot a creation was checked for stays free until it inserts
  (`SlotsInv`), unless two creations overlapped; names need only the unique index.
* `DeletedCorrect`: a deletion under way finds its row reserved or has been overtaken by a
  cancel (`DeleteInv`).

**Wire.** (`ServiceProofs`) The constant part comes first: `Framed` says of every packet that a
client of any of the three servers may write that the tables cut it at its end, by its registered
length or by its length field, and `OddCut` what they make of a command nobody handles and of the
length field of the malformed frame, when it is read as a command. It compares each of the
encoders with the dispatch table, or with the packet database where that is silent.
* `AlignedCorrect`: `Aligned`. `Stream` says that the packets lie end to end and apart, `Position`
  that the loop stands where one begins or behind the command of the malformed one, and
  `TakeAt` what a round takes from there, with however few bytes in the buffer; `Frames` that a handler
  holds what one packet was.
* `ServedCorrect`: `AcceptedIsServed`, from `Identified`: an accept that is out or about to go
  out means that the identity is kept, so does a packet written after it, and the frame of such a
  packet carries it, whichever goroutine runs first.

Model-checked only:

* the liveness properties (`MutexReleased`, `DisconnectDespawns`, `KilledRevives`, `MobComesBack`,
  `EveryPacketTaken`, `RequestsEnd`), which are out of the prover's reach;
* `RunsAsWritten`: compiler, machine and meaning are recursive, and what they compute is a matter of
  induction over syntax trees;
* the refinement `SwapIsAtomic`, whose mapping folds over the compensation stack;
* `WrittenFits`, which compares constants only, field by field; and `ParsersAgree`, which compares
  the parsers with the encoders in the same way.

## 7. What is not modelled

Map chat (a stateless relay), transit (called by tests only), start-up seeding, the wiring and
configuration, database set-up and migrations, ciphers and text encodings, the
lexer and the parser of the script language, strings and arrays in scripts, the YAML
loaders and the damage and stat formulas, path finding, the commands. Names and
log lines are left out everywhere; a character or an item is a model value, and of
a packet only the layout counts. In the modelled parts: positions, ranges and chase
steps in `Battle`, skill prerequisites, several equipment slots at once, view-range
computations inside a grid, what a script does to bag, vitals and position
(recorded as an effect only), the map of one player per account in `Dialog`.

## 8. Plan

1. Done: money, trades, goods, sessions, the index; battle, growth and respawns;
   wire; mail; parties, guilds, friends, whispers, dialogs and scripts; hand-over.
2. Done: proofs of every safety invariant, the sums included, except `WrittenFits` and `ParsersAgree` of
   `Wire` and `RunsAsWritten` of `Engine`.
3. Proofs that are left: the steps of `Trade` outside a conclude as steps of `AtomicTrade`;
   `WrittenFits`, layout by layout.
4. Algorithms against reference definitions: stat costs, regeneration, size and
   element tables, path finding.
