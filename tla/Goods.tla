------------------------------- MODULE Goods -------------------------------
(***************************************************************************)
(* What the map server's handlers do with the goods of one account's       *)
(* characters: buying and selling (commerce/shop), the warehouse           *)
(* (world/app/storage.go, commerce/storage), using (world/app/itemuse.go), *)
(* dropping and picking up (gateway/app/dispatch.go, world/app/spawn.go)   *)
(* and wearing (world/app/equip.go).                                       *)
(*                                                                         *)
(* Each handler is a goroutine.  It looks the row up and validates the     *)
(* request, takes the units from one place and puts them down in another;  *)
(* the statements in between interleave, and none is undone when a later   *)
(* one fails.  A movement of zeny is one step here; its own statements are *)
(* the subject of Economy.                                                 *)
(***************************************************************************)
EXTENDS Inventory, Zeny, Sequences, FiniteSets

CONSTANTS
    Workers,        \* goroutines
    Usable, Gear,   \* the items that can be used up, and worn in the one slot modelled
    Price, SellPrice, \* of the shop's catalog, which has every item
    Amounts,        \* amounts in requests
    StartRows,      \* the inventory table
    StartZeny,
    MaxStorage,     \* the rows a warehouse may have
    MaxRequests,    \* bound: requests
    MaxFaults       \* bound: failing statements

ASSUME CatalogAssumption == Price \in Nat /\ SellPrice \in Nat
ASSUME ItemsAssumption == Usable \subseteq Names /\ Gear \subseteq Names
ASSUME GoodsStart ==
    /\ StartRows \in Seq(Row) /\ StartZeny \in [Chars -> Balances]
    /\ \A i, j \in DOMAIN StartRows :
          StartRows[i].owner = StartRows[j].owner /\ StartRows[i].equip /\ StartRows[j].equip
              => i = j
ASSUME GoodsWorkers == IsFiniteSet(Workers)
ASSUME GoodsBounds ==
    /\ Amounts \subseteq Nat \ {0} /\ MaxStorage \in Nat
    /\ MaxRequests \in Nat /\ MaxFaults \in Nat

VARIABLES
    rows,       \* the inventory table
    store,      \* the storage table of the account
    floor,      \* the floor items
    zeny,       \* the balances
    nextId,     \* the next id of either table and of a floor item
    job,        \* the request each goroutine is handling
    gone,       \* history: units that were used up, sold or lost, less those bought
    raced,      \* history: the kinds of overlap there have been
    count       \* the bounded counters

vars == <<rows, store, floor, zeny, nextId, job, gone, raced, count>>

Stack == [name : Names, amount : Nat]

\* Which place a request takes units from, and the statement that puts them down.
Kinds == {"buy", "sell", "use", "drop", "store", "retrieve", "pickup", "equip", "unequip"}
Sink == [buy |-> "bag", retrieve |-> "bag", pickup |-> "bag", sell |-> "credit",
         use |-> "done", drop |-> "floor", store |-> "merge"]

NoRow == 0
NoJob == [pc |-> "idle"]
Busy(w) == job[w] # NoJob
\* w has read row id of the table and has still to write it.
Holds(w, pcs, id) == job[w].pc \in pcs /\ job[w].id = id

Put(table, id, s) == [i \in DOMAIN table \cup {id} |-> IF i = id THEN s ELSE table[i]]
Without(table, id) == [i \in DOMAIN table \ {id} |-> table[i]]

Init ==
    /\ rows = StartRows
    /\ store = <<>> /\ floor = <<>>
    /\ zeny = StartZeny
    /\ nextId = Len(StartRows) + 1
    /\ job = [w \in Workers |-> NoJob]
    /\ gone = [n \in Names |-> 0]
    /\ raced = {}
    /\ count = [requests |-> 0, faults |-> 0]

----------------------------------------------------------------------------
\* Control.

Goto(w, pc) == job' = [job EXCEPT ![w].pc = pc]
Return(w) == job' = [job EXCEPT ![w] = NoJob]
Then(w, pc) == IF pc = "done" THEN Return(w) ELSE Goto(w, pc)
\* k units of w's item left the world, or came into it if k is negative.
Leaves(w, k) == gone' = [gone EXCEPT ![job[w].name] = @ + k]
Race(kind, when) == raced' = IF when THEN raced \cup {kind} ELSE raced

Request(w, r) ==
    /\ ~Busy(w) /\ count.requests < MaxRequests
    /\ count' = [count EXCEPT !.requests = @ + 1]
    /\ job' = [job EXCEPT ![w] = r]

Job(kind, c, pc, id, n, k) ==
    [kind |-> kind, char |-> c, pc |-> pc, id |-> id, name |-> n, amount |-> k,
     loaded |-> 0, others |-> {}]

\* What each handler checks on the bag it has just loaded.  Dropping and using look
\* at no equip column; selling leaves the amount to Remove.
MaySell(row) == ~row.equip
MayUse(row, k) == row.name \in Usable /\ k = 1
MayDrop(row, k) == row.amount >= k
MayStore(row, k) == ~row.equip /\ row.amount >= k
MayTake(kind, row, k) ==
    \/ kind = "sell" /\ MaySell(row)
    \/ kind = "use" /\ MayUse(row, k)
    \/ kind = "drop" /\ MayDrop(row, k)
    \/ kind = "store" /\ MayStore(row, k)

\* Sell, use, drop and store: LoadByChar and the checks on the row.
TakeFromBag(w, kind, c, id, k) ==
    /\ id \in Owned(rows, c) /\ MayTake(kind, rows[id], k)
    /\ Request(w, Job(kind, c, "load", id, rows[id].name, k))
    /\ UNCHANGED <<rows, store, floor, zeny, nextId, gone, raced>>

\* MoveFromStorage: LoadByAccount and the checks on the row.
TakeFromStore(w, c, id, k) ==
    /\ id \in DOMAIN store /\ store[id].amount >= k
    /\ Request(w, Job("retrieve", c, "sload", id, store[id].name, k))
    /\ UNCHANGED <<rows, store, floor, zeny, nextId, gone, raced>>

\* Buy finds the item in the catalog.
Buy(w, c, n, k) ==
    /\ Request(w, Job("buy", c, "pay", NoRow, n, k))
    /\ UNCHANGED <<rows, store, floor, zeny, nextId, gone, raced>>

\* Mutant of PickupFloorItem: the item is not taken off the floor.
PickupCopies(w, c, id) ==
    /\ id \in DOMAIN floor
    /\ Request(w, Job("pickup", c, "bag", NoRow, floor[id].name, floor[id].amount))
    /\ UNCHANGED <<rows, store, floor, zeny, nextId, gone, raced>>

\* PickupFloorItem, under the mutex of the floor.
PickupFloorItem(w, c, id) ==
    /\ id \in DOMAIN floor
    /\ Request(w, Job("pickup", c, "bag", NoRow, floor[id].name, floor[id].amount))
    /\ floor' = Without(floor, id)
    /\ UNCHANGED <<rows, store, zeny, nextId, gone, raced>>

----------------------------------------------------------------------------
\* Taking.

\* Remove's read, of a row that another Remove may be about to write.
BagLoad(w) ==
    LET id == job[w].id IN
    /\ job[w].pc = "load" /\ RemoveOk(rows, id, job[w].amount)
    /\ job' = [job EXCEPT ![w].pc = "write", ![w].loaded = rows[id].amount]
    /\ Race("bag", \E v \in Workers : Holds(v, {"write"}, id))
    /\ UNCHANGED <<rows, store, floor, zeny, nextId, gone, count>>

\* Remove's write.
BagWrite(w) ==
    /\ job[w].pc = "write"
    /\ rows' = RemoveWrite(rows, job[w].id, job[w].loaded, job[w].amount)
    /\ Then(w, Sink[job[w].kind])
    /\ IF job[w].kind \in {"use", "sell"} THEN Leaves(w, job[w].amount) ELSE UNCHANGED gone
    /\ UNCHANGED <<store, floor, zeny, nextId, raced, count>>

\* The same two statements of the storage repository.
StoreLoad(w) ==
    LET id == job[w].id IN
    /\ job[w].pc = "sload" /\ id \in DOMAIN store /\ store[id].amount >= job[w].amount
    /\ job' = [job EXCEPT ![w].pc = "swrite", ![w].loaded = store[id].amount]
    /\ Race("store", \E v \in Workers : Holds(v, {"swrite", "keep"}, id))
    /\ UNCHANGED <<rows, store, floor, zeny, nextId, gone, count>>

StoreWrite(w) ==
    LET id == job[w].id IN
    /\ job[w].pc = "swrite"
    /\ store' = IF job[w].loaded = job[w].amount THEN Without(store, id)
                ELSE [i \in DOMAIN store |->
                        IF i = id THEN [store[i] EXCEPT !.amount = job[w].loaded - job[w].amount]
                                  ELSE store[i]]
    /\ Goto(w, "bag")
    /\ UNCHANGED <<rows, floor, zeny, nextId, gone, raced, count>>

\* DeductZeny of the price of the whole purchase.
Pay(w) ==
    LET total == Price * job[w].amount IN
    /\ job[w].pc = "pay"
    /\ total > 0 /\ MoveOk("deduct", zeny[job[w].char], total)
    /\ zeny' = [zeny EXCEPT ![job[w].char] = @ - total]
    /\ Goto(w, "bag")
    /\ UNCHANGED <<rows, store, floor, nextId, gone, raced, count>>

\* Nothing was taken: the row is gone or too small, the player cannot pay.
Refused(w) ==
    /\ \/ job[w].pc = "load" /\ ~RemoveOk(rows, job[w].id, job[w].amount)
       \/ /\ job[w].pc = "sload"
          /\ job[w].id \in DOMAIN store => store[job[w].id].amount < job[w].amount
       \/ /\ job[w].pc = "pay"
          /\ \/ Price = 0
             \/ ~MoveOk("deduct", zeny[job[w].char], Price * job[w].amount)
       \/ job[w].pc = "clear" /\ job[w].others = {} /\ job[w].id \notin DOMAIN rows
    /\ Return(w)
    /\ UNCHANGED <<rows, store, floor, zeny, nextId, gone, raced, count>>

----------------------------------------------------------------------------
\* Putting down.

\* Inventory Add; what was bought comes from the shop.
BagAdd(w) ==
    /\ job[w].pc = "bag"
    /\ rows' = AddRow(rows, nextId, job[w].char, job[w].name, job[w].amount)
    /\ nextId' = nextId + 1
    /\ IF job[w].kind = "buy" THEN Leaves(w, -job[w].amount) ELSE UNCHANGED gone
    /\ Return(w)
    /\ UNCHANGED <<store, floor, zeny, raced, count>>

\* DropItem, under the mutex of the floor.
DropItem(w) ==
    /\ job[w].pc = "floor"
    /\ floor' = Put(floor, nextId, [name |-> job[w].name, amount |-> job[w].amount])
    /\ nextId' = nextId + 1
    /\ Return(w)
    /\ UNCHANGED <<rows, store, zeny, gone, raced, count>>

\* CreditZeny of the proceeds; a refusal comes after the goods are gone.
Credit(w) ==
    LET total == SellPrice * job[w].amount
        c == job[w].char
    IN
    /\ job[w].pc = "credit"
    /\ zeny' = IF total > 0 /\ MoveOk("credit", zeny[c], total)
               THEN [zeny EXCEPT ![c] = @ + total] ELSE zeny
    /\ Return(w)
    /\ UNCHANGED <<rows, store, floor, nextId, gone, raced, count>>

\* The stack an item is merged into: the first one of its name.
Stacks(n) == {i \in DOMAIN store : store[i].name = n}
StackOf(n) == IF Stacks(n) = {} THEN NoRow ELSE Min(Stacks(n))

\* Mutant of HasRoom: the last slot is filled twice.
HasRoomOffByOne == Cardinality(DOMAIN store) <= MaxStorage
HasRoom == Cardinality(DOMAIN store) < MaxStorage

\* Storage Add reads the stack or counts the rows.  The transaction around the two
\* statements takes no lock on what it reads.
StoreMerge(w) ==
    LET id == StackOf(job[w].name) IN
    /\ job[w].pc = "merge" /\ (id # NoRow \/ HasRoom)
    /\ job' = [job EXCEPT ![w].pc = "keep", ![w].id = id,
                          ![w].loaded = IF id = NoRow THEN 0 ELSE store[id].amount]
    /\ Race(IF id = NoRow THEN "insert" ELSE "store",
            \E v \in Workers : Holds(v, {"swrite", "keep"}, id))
    /\ UNCHANGED <<rows, store, floor, zeny, nextId, gone, count>>

\* It updates the stack, or inserts one.
StoreKeep(w) ==
    LET id == IF job[w].id = NoRow THEN nextId ELSE job[w].id
        s == [name |-> job[w].name, amount |-> job[w].loaded + job[w].amount]
    IN
    /\ job[w].pc = "keep"
    /\ store' = IF job[w].id = NoRow \/ id \in DOMAIN store THEN Put(store, id, s) ELSE store
    /\ nextId' = IF job[w].id = NoRow THEN nextId + 1 ELSE nextId
    /\ Return(w)
    /\ UNCHANGED <<rows, floor, zeny, gone, raced, count>>

\* The warehouse is full: the units removed from the bag are lost.
StoreFull(w) ==
    /\ job[w].pc = "merge" /\ StackOf(job[w].name) = NoRow /\ ~HasRoom
    /\ Leaves(w, job[w].amount)
    /\ Return(w)
    /\ UNCHANGED <<rows, store, floor, zeny, nextId, raced, count>>

\* Units of n that w has taken and not put down yet.
Carries(w, n) ==
    IF /\ job[w].pc \in {"bag", "floor", "merge", "keep"}
       /\ job[w].kind # "buy" /\ job[w].name = n
    THEN job[w].amount ELSE 0

\* A statement fails and the handler returns; what it carries is lost.
Fault(w) ==
    /\ Busy(w) /\ job[w].pc # "floor"
    /\ count.faults < MaxFaults
    /\ count' = [count EXCEPT !.faults = @ + 1]
    /\ Leaves(w, Carries(w, job[w].name))
    /\ Return(w)
    /\ UNCHANGED <<rows, store, floor, zeny, nextId, raced>>

----------------------------------------------------------------------------
\* Wearing.

Worn(c) == {i \in Owned(rows, c) : rows[i].equip}

\* Equip: the bag as loaded says what else is in the slot.
Equip(w, c, id) ==
    /\ id \in Owned(rows, c) /\ rows[id].name \in Gear
    /\ Request(w, [Job("equip", c, "clear", id, rows[id].name, 0)
                      EXCEPT !.others = Worn(c) \ {id}])
    /\ Race("worn", \E v \in Workers :
                       job[v].pc = "clear" /\ job[v].char = c)
    /\ UNCHANGED <<rows, store, floor, zeny, nextId, gone>>

\* SetEquip of each other item to 0, in id order.  A row that vanished ends it,
\* and in MySQL, which counts the rows that changed, so does one cleared already.
EquipClear(w) ==
    LET id == Min(job[w].others) IN
    /\ job[w].pc = "clear" /\ job[w].others # {}
    /\ \/ /\ id \in DOMAIN rows
          /\ rows' = SetEquip(rows, id, FALSE)
          /\ job' = [job EXCEPT ![w].others = @ \ {id}]
       \/ /\ id \in DOMAIN rows => ~rows[id].equip
          /\ rows' = rows
          /\ Return(w)
    /\ UNCHANGED <<store, floor, zeny, nextId, gone, raced, count>>

\* Mutant of EquipWear: the slot is taken before it is cleared.
EquipWearFirst(w) ==
    /\ job[w].pc = "clear" /\ job[w].id \in DOMAIN rows
    /\ rows' = SetEquip(rows, job[w].id, TRUE)
    /\ Return(w)
    /\ UNCHANGED <<store, floor, zeny, nextId, gone, raced, count>>

\* SetEquip of the item itself.
EquipWear(w) ==
    /\ job[w].pc = "clear" /\ job[w].others = {} /\ job[w].id \in DOMAIN rows
    /\ rows' = SetEquip(rows, job[w].id, TRUE)
    /\ Return(w)
    /\ UNCHANGED <<store, floor, zeny, nextId, gone, raced, count>>

\* Unequip loads the bag and clears the column.
Unequip(w, c, id) ==
    /\ id \in Owned(rows, c)
    /\ Request(w, Job("unequip", c, "unwear", id, rows[id].name, 0))
    /\ UNCHANGED <<rows, store, floor, zeny, nextId, gone, raced>>

UnequipWrite(w) ==
    /\ job[w].pc = "unwear"
    /\ rows' = IF job[w].id \in DOMAIN rows THEN SetEquip(rows, job[w].id, FALSE) ELSE rows
    /\ Return(w)
    /\ UNCHANGED <<store, floor, zeny, nextId, gone, raced, count>>

----------------------------------------------------------------------------
Arrive(w, c) ==
    \/ \E kind \in {"sell", "use", "drop", "store"}, id \in DOMAIN rows, k \in Amounts :
          TakeFromBag(w, kind, c, id, k)
    \/ \E id \in DOMAIN store, k \in Amounts : TakeFromStore(w, c, id, k)
    \/ \E n \in Names, k \in Amounts : Buy(w, c, n, k)
    \/ \E id \in DOMAIN floor : PickupFloorItem(w, c, id)
    \/ \E id \in DOMAIN rows : Equip(w, c, id) \/ Unequip(w, c, id)

Step(w) ==
    \/ BagLoad(w) \/ BagWrite(w) \/ StoreLoad(w) \/ StoreWrite(w) \/ Pay(w) \/ Refused(w)
    \/ BagAdd(w) \/ DropItem(w) \/ Credit(w) \/ StoreMerge(w) \/ StoreKeep(w) \/ StoreFull(w)
    \/ Fault(w)
    \/ EquipClear(w) \/ EquipWear(w) \/ UnequipWrite(w)

Next == \E w \in Workers : Step(w) \/ \E c \in Chars : Arrive(w, c)

Spec == Init /\ [][Next]_vars

----------------------------------------------------------------------------
Jobs == [kind : Kinds, char : Chars, name : Names, id : Nat, amount : Nat, loaded : Nat,
         others : SUBSET Nat,
         pc : {"load", "write", "sload", "swrite", "pay", "bag", "floor", "credit",
               "merge", "keep", "clear", "unwear"}]
IsTable(t, T) == DOMAIN t \subseteq 1 .. nextId - 1 /\ \A i \in DOMAIN t : t[i] \in T

\* The variables hold values of their types; in particular no handler that writes
\* back a row is going to write less than nothing into it.
TypeOK ==
    /\ IsTable(rows, Row) /\ IsTable(store, Stack) /\ IsTable(floor, Stack)
    /\ zeny \in [Chars -> Balances]
    /\ nextId \in Nat \ {0}
    /\ job \in [Workers -> Jobs \cup {NoJob}]
    /\ \A w \in Workers : job[w].pc \in {"write", "swrite"} => job[w].loaded >= job[w].amount
    /\ gone \in [Names -> Int]
    /\ raced \subseteq {"bag", "store", "insert", "worn"}
    /\ count \in [requests : Nat, faults : Nat]

Units(table, n) == UnitsIn(table, DOMAIN table, n)

\* Units of n that there are, in a bag, in the warehouse, on the floor or in the
\* hands of a handler, and that there no longer are.
Total(n) ==
    Units(rows, n) + Units(store, n) + Units(floor, n) + gone[n]
        + SumOver([w \in Workers |-> Carries(w, n)], Workers)

\* However requests of the characters of an account interleave, and whichever
\* statement fails, units are neither made nor lost but by the failure itself,
\* and no floor item is picked up twice; until two handlers overlap between the
\* read and the write of the same row.
GoodsConserved ==
    raced \cap {"bag", "store"} = {} =>
        \A n \in Names : Total(n) = Units(StartRows, n)

\* Overlaps on the rows of a bag can duplicate units; only those on a warehouse
\* row can lose one.
GoodsNeverLost ==
    "store" \notin raced => \A n \in Names : Total(n) >= Units(StartRows, n)

\* Every unit is accounted for: in well-typed tables, none is lost and none is made
\* by the failures and overlaps that cannot.
UnitsAccounted == TypeOK /\ GoodsConserved /\ GoodsNeverLost

\* The warehouse stays within its slots, with one stack per item, until two
\* deposits that found no stack overlap.
StorageBounded ==
    "insert" \notin raced =>
        /\ Cardinality(DOMAIN store) <= MaxStorage
        /\ \A i, j \in DOMAIN store : store[i].name = store[j].name => i = j

\* A slot holds one item, although it is emptied and filled by separate
\* statements which may fail, and the items may be dropped in between; until two
\* equip requests of one character overlap.
OneWorn == "worn" \notin raced => \A c \in Chars : Cardinality(Worn(c)) <= 1

=============================================================================
