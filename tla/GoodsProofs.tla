---------------------------- MODULE GoodsProofs ----------------------------
(***************************************************************************)
(* Proofs about Goods, for any number of goroutines, characters, items,    *)
(* requests and failing statements.                                        *)
(***************************************************************************)
EXTENDS Goods, SumProofs

\* w has loaded the bag and is on its way to wear an item of c.
Wears(w, c) == job[w].pc = "clear" /\ job[w].char = c
\* w has found no stack of its item and is going to insert one.
Inserts(w) == job[w].pc = "keep" /\ job[w].id = NoRow

\* A row never changes its owner, and no id is given twice: what Equip found out about
\* the row it is going to wear stays true of it.
OwnerInv ==
    \A w \in Workers : job[w].pc = "clear" =>
        /\ job[w].id < nextId
        /\ job[w].id \in DOMAIN rows => rows[job[w].id].owner = job[w].char

\* One equip request of a character at a time: whatever is worn, it knows of.
WornInv ==
    "worn" \notin raced =>
        /\ \A c \in Chars : \A i, j \in Worn(c) : i = j
        /\ \A v, w \in Workers, c \in Chars : Wears(v, c) /\ Wears(w, c) => v = w
        /\ \A w \in Workers, c \in Chars : Wears(w, c) => Worn(c) \subseteq job[w].others \cup {job[w].id}

\* A stack never changes its name, and no id is given twice.
StackInv ==
    \A w \in Workers : job[w].pc = "keep" /\ job[w].id # NoRow =>
        /\ job[w].id < nextId
        /\ job[w].id \in DOMAIN store => store[job[w].id].name = job[w].name

\* One insert at a time, into a slot that stays free.
InsertInv ==
    "insert" \notin raced =>
        /\ Cardinality(DOMAIN store) <= MaxStorage
        /\ \A i, j \in DOMAIN store : store[i].name = store[j].name => i = j
        /\ \A v, w \in Workers : Inserts(v) /\ Inserts(w) => v = w
        /\ \A w \in Workers : Inserts(w) =>
              Cardinality(DOMAIN store) < MaxStorage /\ Stacks(job[w].name) = {}

\* The requests that go through Remove.
KindInv == \A w \in Workers : job[w].pc \in {"load", "write"} =>
               job[w].kind \in {"sell", "use", "drop", "store"}
TypeInv == TypeOK /\ KindInv

-----------------------------------------------------------------------------
\* What the statements do to a table.

\* Every row that is left was there before, with its owner, and nothing is newly worn.
Fades(r, s) ==
    \A i \in DOMAIN s : /\ i \in DOMAIN r /\ s[i] \in Row /\ s[i].owner = r[i].owner
                        /\ s[i].equip => r[i].equip

\* Every stack that is left was there before, with its name.
Lasts(r, s) ==
    \A i \in DOMAIN s : i \in DOMAIN r /\ s[i] \in Stack /\ s[i].name = r[i].name

LEMMA RemoveWriteFades ==
    ASSUME NEW r, \A i \in DOMAIN r : r[i] \in Row,
           NEW id, NEW loaded \in Nat, NEW k \in Nat, loaded >= k
    PROVE  Fades(r, RemoveWrite(r, id, loaded, k))
<1>1. loaded - k \in Nat
  OBVIOUS
<1>2. ASSUME NEW i \in DOMAIN r, NEW n \in Nat
      PROVE  LET e == [r[i] EXCEPT !.amount = n]
             IN e \in Row /\ e.owner = r[i].owner /\ e.equip = r[i].equip
  BY DEF Row
<1>3. CASE loaded = k
  <2>1. RemoveWrite(r, id, loaded, k) = [i \in DOMAIN r \ {id} |-> r[i]]
    BY <1>3 DEF RemoveWrite
  <2> QED BY <2>1 DEF Fades
<1>4. CASE loaded # k
  <2> DEFINE n == loaded - k
  <2>1. RemoveWrite(r, id, loaded, k) =
           [i \in DOMAIN r |-> IF i = id THEN [r[i] EXCEPT !.amount = n] ELSE r[i]]
    BY <1>4 DEF RemoveWrite
  <2>2. n \in Nat
    BY <1>1
  <2> HIDE DEF n
  <2>3. \A i \in DOMAIN r : LET e == [r[i] EXCEPT !.amount = n]
                            IN e \in Row /\ e.owner = r[i].owner /\ e.equip = r[i].equip
    BY <1>2, <2>2
  <2> QED BY <2>1, <2>3 DEF Fades
<1> QED BY <1>3, <1>4

LEMMA SetEquipRows ==
    ASSUME NEW r, \A i \in DOMAIN r : r[i] \in Row, NEW id \in DOMAIN r, NEW worn \in BOOLEAN
    PROVE  /\ DOMAIN SetEquip(r, id, worn) = DOMAIN r
           /\ \A i \in DOMAIN r : /\ SetEquip(r, id, worn)[i] \in Row
                                  /\ SetEquip(r, id, worn)[i].owner = r[i].owner
                                  /\ i # id => SetEquip(r, id, worn)[i] = r[i]
           /\ SetEquip(r, id, worn)[id].equip = worn
<1> DEFINE e == [r[id] EXCEPT !.equip = worn]
<1>1. e \in Row /\ e.owner = r[id].owner /\ e.equip = worn
  BY DEF Row
<1>2. SetEquip(r, id, worn) = [r EXCEPT ![id] = e]
  BY DEF SetEquip
<1> HIDE DEF e
<1> QED BY <1>1, <1>2

LEMMA ClearEquipFades ==
    ASSUME NEW r, \A i \in DOMAIN r : r[i] \in Row, NEW id \in DOMAIN r
    PROVE  Fades(r, SetEquip(r, id, FALSE)) /\ ~SetEquip(r, id, FALSE)[id].equip
<1> DEFINE e == [r[id] EXCEPT !.equip = FALSE]
<1>1. e \in Row /\ e.owner = r[id].owner /\ ~e.equip
  BY DEF Row
<1>2. SetEquip(r, id, FALSE) = [r EXCEPT ![id] = e]
  BY DEF SetEquip
<1> HIDE DEF e
<1> QED BY <1>1, <1>2 DEF Fades

-----------------------------------------------------------------------------
\* Control.

Pcs == {"load", "write", "sload", "swrite", "pay", "bag", "floor", "credit",
        "merge", "keep", "clear", "unwear"}
JobsOK == /\ job \in [Workers -> Jobs \cup {NoJob}]
          /\ \A w \in Workers : job[w].pc \in {"write", "swrite"} => job[w].loaded >= job[w].amount
          /\ KindInv
TablesOK == IsTable(rows, Row) /\ IsTable(store, Stack) /\ IsTable(floor, Stack)
MiscOK == /\ zeny \in [Chars -> Balances]
          /\ nextId \in Nat \ {0}
          /\ gone \in [Names -> Int]
          /\ raced \subseteq {"bag", "store", "insert", "worn"}
          /\ count \in [requests : Nat, faults : Nat]

LEMMA TypeParts ==
    /\ TypeInv <=> JobsOK /\ TablesOK /\ MiscOK
    /\ TypeInv' <=> JobsOK' /\ TablesOK' /\ MiscOK'
<1>1. TypeInv <=> JobsOK /\ TablesOK /\ MiscOK
  BY DEF TypeInv, TypeOK, JobsOK, TablesOK, MiscOK
<1>2. TypeInv' <=> JobsOK' /\ TablesOK' /\ MiscOK'
  BY DEF TypeInv, TypeOK, JobsOK, TablesOK, MiscOK
<1> QED BY <1>1, <1>2

\* A goroutine that is busy has a request.
LEMMA JobFields ==
    ASSUME JobsOK, NEW w \in Workers, job[w] # NoJob
    PROVE  /\ job[w] \in Jobs /\ job[w].pc \in Pcs /\ job[w].kind \in Kinds
           /\ job[w].char \in Chars /\ job[w].name \in Names /\ job[w].id \in Nat
           /\ job[w].amount \in Nat /\ job[w].loaded \in Nat /\ job[w].others \in SUBSET Nat
           /\ job[w].pc # "idle"
<1>1. job[w] \in Jobs
  BY DEF JobsOK
<1> QED BY <1>1 DEF Jobs, Pcs

LEMMA JobSet ==
    ASSUME JobsOK, NEW w \in Workers, NEW r \in Jobs \cup {NoJob}, job' = [job EXCEPT ![w] = r],
           r.pc \in {"write", "swrite"} => r.loaded >= r.amount,
           r.pc \in {"load", "write"} => r.kind \in {"sell", "use", "drop", "store"}
    PROVE  JobsOK' /\ job'[w] = r /\ \A v \in Workers : v # w => job'[v] = job[v]
BY DEF JobsOK, KindInv

LEMMA JobReturn ==
    ASSUME JobsOK, NEW w \in Workers, Return(w)
    PROVE  JobsOK' /\ job'[w] = NoJob /\ \A v \in Workers : v # w => job'[v] = job[v]
<1>1. NoJob.pc = "idle"
  BY DEF NoJob
<1> QED BY <1>1, JobSet DEF Return

LEMMA JobGoto ==
    ASSUME JobsOK, NEW w \in Workers, job[w] # NoJob, NEW pc \in Pcs \ {"load", "write", "swrite"},
           Goto(w, pc)
    PROVE  JobsOK' /\ job'[w] = [job[w] EXCEPT !.pc = pc] /\ \A v \in Workers : v # w => job'[v] = job[v]
<1> DEFINE r == [job[w] EXCEPT !.pc = pc]
<1>1. job[w] \in Jobs
  BY JobFields
<1>2. r \in Jobs /\ r.pc = pc
  BY <1>1 DEF Jobs, Pcs
<1>3. job' = [job EXCEPT ![w] = r]
  BY DEF Goto, JobsOK
<1> HIDE DEF r
<1>4. JobsOK' /\ job'[w] = r /\ \A v \in Workers : v # w => job'[v] = job[v]
  BY <1>2, <1>3, JobSet
<1> QED BY <1>4 DEF r

LEMMA JobRequest ==
    ASSUME TypeInv, NEW w \in Workers, NEW r \in Jobs, Request(w, r),
           r.pc \notin {"write", "swrite"},
           r.pc = "load" => r.kind \in {"sell", "use", "drop", "store"}
    PROVE  /\ JobsOK' /\ job'[w] = r /\ \A v \in Workers : v # w => job'[v] = job[v]
           /\ job[w] = NoJob /\ count' \in [requests : Nat, faults : Nat]
<1>1. JobsOK /\ MiscOK
  BY TypeParts
<1>2. count' \in [requests : Nat, faults : Nat]
  BY <1>1 DEF MiscOK, Request
<1> QED BY <1>1, <1>2, JobSet DEF Request, Busy

\* Rows go, change or are added under the next id.
LEMMA TablesMove ==
    ASSUME TypeInv, nextId' \in {nextId, nextId + 1},
           \A i \in DOMAIN rows' : rows'[i] \in Row /\ (i \in DOMAIN rows \/ (i = nextId /\ nextId' # nextId)),
           \A i \in DOMAIN store' : store'[i] \in Stack /\ (i \in DOMAIN store \/ (i = nextId /\ nextId' # nextId)),
           \A i \in DOMAIN floor' : floor'[i] \in Stack /\ (i \in DOMAIN floor \/ (i = nextId /\ nextId' # nextId))
    PROVE  TablesOK'
<1>1. TablesOK /\ nextId \in Nat \ {0}
  BY TypeParts DEF MiscOK
<1>2. nextId' \in Nat /\ nextId' >= nextId /\ (nextId' # nextId => nextId' = nextId + 1)
  BY <1>1
<1>3. nextId' # nextId => nextId \in 1 .. nextId' - 1
  BY <1>1, <1>2
<1>4. ASSUME NEW m \in Nat, NEW n \in Nat, n >= m, NEW i \in 1 .. m - 1 PROVE i \in 1 .. n - 1
  BY <1>4
<1>5. \A i \in 1 .. nextId - 1 : i \in 1 .. nextId' - 1
  BY <1>1, <1>2, <1>4
<1> QED BY <1>1, <1>3, <1>5 DEF TablesOK, IsTable

LEMMA TablesSame ==
    ASSUME TypeInv, UNCHANGED <<rows, store, floor, nextId>>
    PROVE  TablesOK'
BY TypeParts DEF TablesOK, IsTable

LEMMA TableTypes ==
    ASSUME TypeInv
    PROVE  /\ \A i \in DOMAIN rows : rows[i] \in Row /\ i \in Nat \ {0} /\ i < nextId
           /\ \A i \in DOMAIN store : store[i] \in Stack /\ i \in Nat \ {0} /\ i < nextId
           /\ \A i \in DOMAIN floor : floor[i] \in Stack /\ i \in Nat \ {0} /\ i < nextId
<1>1. TablesOK /\ nextId \in Nat \ {0}
  BY TypeParts DEF MiscOK
<1>2. \A i \in 1 .. nextId - 1 : i \in Nat \ {0} /\ i < nextId
  BY <1>1
<1> QED BY <1>1, <1>2 DEF TablesOK, IsTable

LEMMA LeavesType ==
    ASSUME TypeInv, NEW w \in Workers, job[w] # NoJob, NEW k \in Int, Leaves(w, k)
    PROVE  gone' \in [Names -> Int]
<1>1. JobsOK /\ gone \in [Names -> Int]
  BY TypeParts DEF MiscOK
<1>2. job[w].name \in Names
  BY <1>1, JobFields
<1> QED BY <1>1, <1>2 DEF Leaves

LEMMA RaceType ==
    ASSUME TypeInv, NEW kind \in {"bag", "store", "insert", "worn"}, NEW when, Race(kind, when)
    PROVE  raced' \subseteq {"bag", "store", "insert", "worn"}
BY TypeParts DEF MiscOK, Race

\* A request that arrives.
LEMMA ArriveType ==
    ASSUME TypeInv, NEW w \in Workers, NEW c \in Chars, Arrive(w, c)
    PROVE  TypeInv'
<1>0. MiscOK /\ \A k \in Amounts : k \in Nat
  BY TypeParts, GoodsBounds
<1>1. /\ \A i \in DOMAIN rows : i \in Nat /\ rows[i].name \in Names
      /\ \A i \in DOMAIN store : i \in Nat /\ store[i].name \in Names
      /\ \A i \in DOMAIN floor : floor[i].name \in Names /\ floor[i].amount \in Nat
  BY TableTypes DEF Row, Stack
<1>2. ASSUME NEW r \in Jobs, Request(w, r), r.pc \notin {"write", "swrite"},
             r.pc = "load" => r.kind \in {"sell", "use", "drop", "store"},
             UNCHANGED <<rows, store, zeny, nextId, gone>>, floor' = floor \/ \E id : floor' = Without(floor, id),
             raced' \subseteq {"bag", "store", "insert", "worn"}
      PROVE  TypeInv'
  <2>1. JobsOK' /\ count' \in [requests : Nat, faults : Nat]
    BY <1>2, JobRequest
  <2>2. MiscOK'
    BY <1>0, <1>2, <2>1 DEF MiscOK
  <2>3. \A i \in DOMAIN floor' : i \in DOMAIN floor /\ floor'[i] = floor[i]
    BY <1>2 DEF Without
  <2>4. TablesOK'
    BY <1>2, <2>3, TablesMove, TableTypes
  <2> QED BY <2>1, <2>2, <2>4, TypeParts
<1>3. ASSUME NEW kind \in {"sell", "use", "drop", "store"}, NEW id \in DOMAIN rows, NEW k \in Amounts,
             TakeFromBag(w, kind, c, id, k)
      PROVE  TypeInv'
  <2> DEFINE r == Job(kind, c, "load", id, rows[id].name, k)
  <2>1. r \in Jobs /\ r.pc = "load" /\ r.kind = kind
    BY <1>0, <1>1 DEF Job, Jobs, Kinds
  <2>2. Request(w, r) /\ UNCHANGED <<rows, store, floor, zeny, nextId, gone, raced>>
    BY <1>3 DEF TakeFromBag
  <2> HIDE DEF r
  <2> QED BY <1>0, <1>2, <2>1, <2>2 DEF MiscOK
<1>4. ASSUME NEW id \in DOMAIN store, NEW k \in Amounts, TakeFromStore(w, c, id, k)
      PROVE  TypeInv'
  <2> DEFINE r == Job("retrieve", c, "sload", id, store[id].name, k)
  <2>1. r \in Jobs /\ r.pc = "sload"
    BY <1>0, <1>1 DEF Job, Jobs, Kinds
  <2>2. Request(w, r) /\ UNCHANGED <<rows, store, floor, zeny, nextId, gone, raced>>
    BY <1>4 DEF TakeFromStore
  <2> HIDE DEF r
  <2> QED BY <1>0, <1>2, <2>1, <2>2 DEF MiscOK
<1>5. ASSUME NEW n \in Names, NEW k \in Amounts, Buy(w, c, n, k)
      PROVE  TypeInv'
  <2> DEFINE r == Job("buy", c, "pay", NoRow, n, k)
  <2>1. r \in Jobs /\ r.pc = "pay"
    BY <1>0 DEF Job, Jobs, Kinds, NoRow
  <2>2. Request(w, r) /\ UNCHANGED <<rows, store, floor, zeny, nextId, gone, raced>>
    BY <1>5 DEF Buy
  <2> HIDE DEF r
  <2> QED BY <1>0, <1>2, <2>1, <2>2 DEF MiscOK
<1>6. ASSUME NEW id \in DOMAIN floor, PickupFloorItem(w, c, id)
      PROVE  TypeInv'
  <2> DEFINE r == Job("pickup", c, "bag", NoRow, floor[id].name, floor[id].amount)
  <2>1. r \in Jobs /\ r.pc = "bag"
    BY <1>1 DEF Job, Jobs, Kinds, NoRow
  <2>2. /\ Request(w, r) /\ UNCHANGED <<rows, store, zeny, nextId, gone, raced>>
        /\ floor' = Without(floor, id)
    BY <1>6 DEF PickupFloorItem
  <2> HIDE DEF r
  <2> QED BY <1>0, <1>2, <2>1, <2>2 DEF MiscOK
<1>7. ASSUME NEW id \in DOMAIN rows, Equip(w, c, id)
      PROVE  TypeInv'
  <2> DEFINE r == [Job("equip", c, "clear", id, rows[id].name, 0) EXCEPT !.others = Worn(c) \ {id}]
  <2>1. r \in Jobs /\ r.pc = "clear"
    <3>1. Worn(c) \ {id} \subseteq Nat
      BY <1>1 DEF Worn, Owned
    <3> QED BY <1>1, <3>1 DEF Job, Jobs, Kinds
  <2>2. Request(w, r) /\ UNCHANGED <<rows, store, floor, zeny, nextId, gone>>
    BY <1>7 DEF Equip
  <2>3. raced' \subseteq {"bag", "store", "insert", "worn"}
    BY <1>7, RaceType DEF Equip
  <2> HIDE DEF r
  <2> QED BY <1>0, <1>2, <2>1, <2>2, <2>3
<1>8. ASSUME NEW id \in DOMAIN rows, Unequip(w, c, id)
      PROVE  TypeInv'
  <2> DEFINE r == Job("unequip", c, "unwear", id, rows[id].name, 0)
  <2>1. r \in Jobs /\ r.pc = "unwear"
    BY <1>1 DEF Job, Jobs, Kinds
  <2>2. Request(w, r) /\ UNCHANGED <<rows, store, floor, zeny, nextId, gone, raced>>
    BY <1>8 DEF Unequip
  <2> HIDE DEF r
  <2> QED BY <1>0, <1>2, <2>1, <2>2 DEF MiscOK
<1> QED BY <1>3, <1>4, <1>5, <1>6, <1>7, <1>8 DEF Arrive

\* A goroutine that takes a step is busy.
LEMMA StepIsBusy ==
    ASSUME TypeInv, NEW w \in Workers, Step(w)
    PROVE  job[w] # NoJob
<1>1. NoJob.pc = "idle"
  BY DEF NoJob
<1> QED BY <1>1 DEF Step, BagLoad, BagWrite, StoreLoad, StoreWrite, Pay, Refused, BagAdd, DropItem,
               Credit, StoreMerge, StoreKeep, StoreFull, Fault, Busy, EquipClear, EquipWear,
               UnequipWrite

\* What a bag's rows become in a step of w.
LEMMA StepRows ==
    ASSUME TypeInv, NEW w \in Workers, Step(w), ~BagAdd(w), ~EquipWear(w)
    PROVE  Fades(rows, rows')
<1>0. JobsOK /\ job[w] # NoJob
  BY TypeParts, StepIsBusy
<1>1. /\ \A i \in DOMAIN rows : rows[i] \in Row
      /\ job[w].loaded \in Nat /\ job[w].amount \in Nat
  BY <1>0, TableTypes, JobFields
<1>2. CASE UNCHANGED rows
  BY <1>1, <1>2 DEF Fades
<1>3. CASE BagWrite(w)
  <2>1. job[w].loaded >= job[w].amount
    BY <1>0, <1>3 DEF BagWrite, JobsOK
  <2> QED BY <1>1, <1>3, <2>1, RemoveWriteFades DEF BagWrite
<1>4. CASE EquipClear(w) \/ UnequipWrite(w)
  <2>1. rows' = rows \/ \E id \in DOMAIN rows : rows' = SetEquip(rows, id, FALSE)
    BY <1>4 DEF EquipClear, UnequipWrite
  <2> QED BY <1>1, <1>2, <2>1, ClearEquipFades
<1>5. ASSUME ~BagWrite(w), ~EquipClear(w), ~UnequipWrite(w) PROVE UNCHANGED rows
  BY <1>5 DEF Step, BagLoad, StoreLoad, StoreWrite, Pay, Refused, DropItem, Credit, StoreMerge,
              StoreKeep, StoreFull, Fault
<1> QED BY <1>2, <1>3, <1>4, <1>5

\* What the warehouse becomes in a step of w, but for the deposits.
LEMMA StepStore ==
    ASSUME TypeInv, NEW w \in Workers, Step(w), ~StoreKeep(w)
    PROVE  Lasts(store, store')
<1>0. JobsOK /\ job[w] # NoJob
  BY TypeParts, StepIsBusy
<1>1. \A i \in DOMAIN store : store[i] \in Stack
  BY TableTypes
<1>2. CASE UNCHANGED store
  BY <1>1, <1>2 DEF Lasts
<1>3. CASE StoreWrite(w)
  <2> DEFINE n == job[w].loaded - job[w].amount
  <2>1. n \in Nat
    <3>1. job[w].loaded >= job[w].amount /\ job[w].loaded \in Nat /\ job[w].amount \in Nat
      BY <1>0, <1>3, JobFields DEF StoreWrite, JobsOK
    <3> QED BY <3>1
  <2>2. \/ store' = Without(store, job[w].id)
        \/ store' = [i \in DOMAIN store |-> IF i = job[w].id THEN [store[i] EXCEPT !.amount = n]
                                                              ELSE store[i]]
    BY <1>3 DEF StoreWrite
  <2> HIDE DEF n
  <2>3. \A i \in DOMAIN store : LET e == [store[i] EXCEPT !.amount = n]
                                IN e \in Stack /\ e.name = store[i].name
    BY <1>1, <2>1 DEF Stack
  <2> QED BY <1>1, <2>2, <2>3 DEF Lasts, Without
<1>4. ASSUME ~StoreWrite(w) PROVE UNCHANGED store
  BY <1>4 DEF Step, BagLoad, BagWrite, StoreLoad, Pay, Refused, BagAdd, DropItem, Credit, StoreMerge,
              StoreFull, Fault, EquipClear, EquipWear, UnequipWrite
<1> QED BY <1>2, <1>3, <1>4

LEMMA StackIdType ==
    ASSUME TypeInv, NEW n
    PROVE  /\ StackOf(n) \in Nat
           /\ StackOf(n) = NoRow <=> Stacks(n) = {}
           /\ StackOf(n) # NoRow => StackOf(n) \in DOMAIN store /\ store[StackOf(n)].name = n
<1>1. Stacks(n) \subseteq Nat \ {0}
  BY TableTypes DEF Stacks
<1>2. CASE Stacks(n) = {}
  BY <1>2 DEF StackOf, NoRow
<1>3. CASE Stacks(n) # {}
  <2>1. \E x \in Stacks(n) : \A y \in Stacks(n) : x <= y
    <3> DEFINE R == {p \in Nat \X Nat : p[1] < p[2]}
    <3>1. IsWellFoundedOn(R, Nat)
      BY NatLessThanWellFounded, Zenon DEF OpToRel
    <3>2. PICK x \in Stacks(n) : \A y \in Stacks(n) : <<y, x>> \notin R
      <4> HIDE DEF R
      <4> QED BY <1>1, <1>3, <3>1, WFMin
    <3>3. \A y \in Stacks(n) : ~(y < x)
      BY <1>1, <3>2
    <3> QED BY <1>1, <3>3
  <2>2. Min(Stacks(n)) \in Stacks(n)
    BY <2>1 DEF Min
  <2>3. StackOf(n) = Min(Stacks(n))
    BY <1>3 DEF StackOf
  <2> QED BY <1>1, <1>3, <2>2, <2>3 DEF Stacks, NoRow
<1> QED BY <1>2, <1>3

\* A step of a handler.
LEMMA StepType ==
    ASSUME TypeInv, NEW w \in Workers, Step(w)
    PROVE  TypeInv'
<1>0. JobsOK /\ TablesOK /\ MiscOK /\ job[w] # NoJob
  BY TypeParts, StepIsBusy
<1>1. /\ job[w] \in Jobs /\ job[w].kind \in Kinds /\ job[w].char \in Chars /\ job[w].name \in Names
      /\ job[w].id \in Nat /\ job[w].amount \in Nat /\ job[w].loaded \in Nat /\ job[w].others \in SUBSET Nat
  BY <1>0, JobFields
<1>2. /\ \A i \in DOMAIN rows : rows[i] \in Row
      /\ \A i \in DOMAIN store : store[i] \in Stack
      /\ \A i \in DOMAIN floor : floor[i] \in Stack
  BY TableTypes
<1>a. UNCHANGED gone => gone' \in [Names -> Int]
  BY <1>0 DEF MiscOK
<1>b. UNCHANGED raced => raced' \subseteq {"bag", "store", "insert", "worn"}
  BY <1>0 DEF MiscOK
<1>c. ASSUME zeny' \in [Chars -> Balances], nextId' \in {nextId, nextId + 1}, gone' \in [Names -> Int],
             raced' \subseteq {"bag", "store", "insert", "worn"}, count' \in [requests : Nat, faults : Nat]
      PROVE  MiscOK'
  BY <1>0, <1>c DEF MiscOK
<1>d. zeny \in [Chars -> Balances] /\ count \in [requests : Nat, faults : Nat]
  BY <1>0 DEF MiscOK
<1>3. ASSUME BagLoad(w) PROVE TypeInv'
  <2> DEFINE r == [job[w] EXCEPT !.pc = "write", !.loaded = rows[job[w].id].amount]
  <2>1. rows[job[w].id].amount \in Nat /\ rows[job[w].id].amount >= job[w].amount
    BY <1>2, <1>3 DEF BagLoad, RemoveOk, Row
  <2>2. r \in Jobs /\ r.pc = "write" /\ r.loaded >= r.amount /\ r.kind = job[w].kind
    BY <1>1, <2>1 DEF Jobs
  <2>3. /\ job' = [job EXCEPT ![w] = r] /\ job[w].pc = "load"
        /\ UNCHANGED <<rows, store, floor, zeny, nextId, gone, count>>
    BY <1>0, <1>3 DEF BagLoad, JobsOK
  <2>4. raced' \subseteq {"bag", "store", "insert", "worn"}
    BY <1>3, RaceType DEF BagLoad
  <2> HIDE DEF r
  <2>5. JobsOK'
    BY <1>0, <2>2, <2>3, JobSet DEF JobsOK, KindInv
  <2> QED BY <1>a, <1>c, <1>d, <2>3, <2>4, <2>5, TablesSame, TypeParts
<1>4. ASSUME BagWrite(w) PROVE TypeInv'
  <2>1. UNCHANGED <<store, floor, zeny, nextId, raced, count>> /\ job[w].pc = "write"
    BY <1>4 DEF BagWrite
  <2>2. gone' \in [Names -> Int]
    BY <1>0, <1>1, <1>4, <1>a, LeavesType DEF BagWrite
  <2>3. JobsOK'
    <3>1. job[w].kind \in {"sell", "use", "drop", "store"}
      BY <1>0, <2>1 DEF JobsOK, KindInv
    <3>2. Sink[job[w].kind] \in {"credit", "done", "floor", "merge"}
      BY <3>1 DEF Sink
    <3>3. Return(w) \/ \E pc \in {"credit", "floor", "merge"} : Goto(w, pc)
      BY <1>4, <3>2 DEF BagWrite, Then
    <3> QED BY <1>0, <3>3, JobReturn, JobGoto DEF Pcs
  <2>4. Fades(rows, rows')
    <3>1. ~BagAdd(w) /\ ~EquipWear(w)
      BY <2>1 DEF BagAdd, EquipWear
    <3> QED BY <3>1, StepRows
  <2>5. TablesOK'
    BY <1>2, <2>1, <2>4, TablesMove DEF Fades
  <2> QED BY <1>b, <1>c, <1>d, <2>1, <2>2, <2>3, <2>5, TypeParts
<1>5. ASSUME StoreLoad(w) PROVE TypeInv'
  <2> DEFINE r == [job[w] EXCEPT !.pc = "swrite", !.loaded = store[job[w].id].amount]
  <2>1. store[job[w].id].amount \in Nat /\ store[job[w].id].amount >= job[w].amount
    BY <1>2, <1>5 DEF StoreLoad, Stack
  <2>2. r \in Jobs /\ r.pc = "swrite" /\ r.loaded >= r.amount
    BY <1>1, <2>1 DEF Jobs
  <2>3. /\ job' = [job EXCEPT ![w] = r]
        /\ UNCHANGED <<rows, store, floor, zeny, nextId, gone, count>>
    BY <1>0, <1>5 DEF StoreLoad, JobsOK
  <2>4. raced' \subseteq {"bag", "store", "insert", "worn"}
    BY <1>5, RaceType DEF StoreLoad
  <2> HIDE DEF r
  <2>5. JobsOK'
    BY <1>0, <2>2, <2>3, JobSet
  <2> QED BY <1>a, <1>c, <1>d, <2>3, <2>4, <2>5, TablesSame, TypeParts
<1>6. ASSUME StoreWrite(w) PROVE TypeInv'
  <2>1. UNCHANGED <<rows, floor, zeny, nextId, gone, raced, count>> /\ Goto(w, "bag") /\ job[w].pc = "swrite"
    BY <1>6 DEF StoreWrite
  <2>2. JobsOK'
    BY <1>0, <2>1, JobGoto DEF Pcs
  <2>3. Lasts(store, store')
    <3>1. ~StoreKeep(w)
      BY <2>1 DEF StoreKeep
    <3> QED BY <3>1, StepStore
  <2>4. TablesOK'
    BY <1>2, <2>1, <2>3, TablesMove DEF Lasts
  <2> QED BY <1>a, <1>b, <1>c, <1>d, <2>1, <2>2, <2>4, TypeParts
<1>7. ASSUME Pay(w) PROVE TypeInv'
  <2> DEFINE total == Price * job[w].amount
             z == zeny[job[w].char]
  <2>1. /\ total > 0 /\ MoveOk("deduct", z, total) /\ Goto(w, "bag")
        /\ zeny' = [zeny EXCEPT ![job[w].char] = @ - total]
        /\ UNCHANGED <<rows, store, floor, nextId, gone, raced, count>>
    BY <1>7 DEF Pay
  <2>2. total \in Nat
    BY <1>1, CatalogAssumption
  <2>3. z \in 0 .. Half
    BY <1>1, <1>d DEF Balances
  <2> HIDE DEF total, z
  <2>4. z - total \in 0 .. Half
    BY <2>1, <2>2, <2>3, HalfAssumption DEF MoveOk, DeductOk, Int32
  <2>5. zeny' \in [Chars -> Balances]
    BY <1>1, <1>d, <2>1, <2>4 DEF Balances, z
  <2>6. JobsOK'
    BY <1>0, <2>1, JobGoto DEF Pcs
  <2> QED BY <1>a, <1>b, <1>c, <1>d, <2>1, <2>5, <2>6, TablesSame, TypeParts
<1>8. ASSUME Refused(w) PROVE TypeInv'
  <2>1. UNCHANGED <<rows, store, floor, zeny, nextId, gone, raced, count>> /\ Return(w)
    BY <1>8 DEF Refused
  <2> QED BY <1>0, <1>a, <1>b, <1>c, <1>d, <2>1, JobReturn, TablesSame, TypeParts
<1>9. ASSUME BagAdd(w) PROVE TypeInv'
  <2>1. /\ rows' = AddRow(rows, nextId, job[w].char, job[w].name, job[w].amount)
        /\ nextId' = nextId + 1 /\ Return(w) /\ UNCHANGED <<store, floor, zeny, raced, count>>
    BY <1>9 DEF BagAdd
  <2>2. gone' \in [Names -> Int]
    <3>1. -job[w].amount \in Int
      BY <1>1
    <3> QED BY <1>0, <1>9, <1>a, <3>1, LeavesType DEF BagAdd
  <2>3. \A i \in DOMAIN rows' : rows'[i] \in Row /\ (i \in DOMAIN rows \/ i = nextId)
    <3>1. /\ DOMAIN rows' = DOMAIN rows \cup {nextId} /\ rows'[nextId] \in Row
          /\ \A i \in DOMAIN rows : i # nextId => rows'[i] = rows[i]
      <4>1. PICK c \in Chars, n \in Names, k \in Nat : rows' = AddRow(rows, nextId, c, n, k)
        BY <1>1, <2>1
      <4>2. [owner |-> c, name |-> n, amount |-> k, equip |-> FALSE] \in Row
        BY DEF Row
      <4> QED BY <4>1, <4>2 DEF AddRow
    <3> QED BY <1>2, <3>1
  <2>4. nextId + 1 # nextId
    BY <1>0 DEF MiscOK
  <2>5. TablesOK'
    BY <1>2, <2>1, <2>3, <2>4, TablesMove
  <2> QED BY <1>0, <1>b, <1>c, <1>d, <2>1, <2>2, <2>5, JobReturn, TypeParts
<1>10. ASSUME DropItem(w) PROVE TypeInv'
  <2> DEFINE s == [name |-> job[w].name, amount |-> job[w].amount]
  <2>1. /\ floor' = Put(floor, nextId, s)
        /\ nextId' = nextId + 1 /\ Return(w) /\ UNCHANGED <<rows, store, zeny, gone, raced, count>>
    BY <1>10 DEF DropItem
  <2>2. s \in Stack
    BY <1>1 DEF Stack
  <2> HIDE DEF s
  <2>3. \A i \in DOMAIN floor' : floor'[i] \in Stack /\ (i \in DOMAIN floor \/ i = nextId)
    BY <1>2, <2>1, <2>2 DEF Put
  <2>4. nextId + 1 # nextId
    BY <1>0 DEF MiscOK
  <2>5. TablesOK'
    BY <1>2, <2>1, <2>3, <2>4, TablesMove
  <2> QED BY <1>0, <1>a, <1>b, <1>c, <1>d, <2>1, <2>5, JobReturn, TypeParts
<1>11. ASSUME Credit(w) PROVE TypeInv'
  <2> DEFINE total == SellPrice * job[w].amount
             z == zeny[job[w].char]
  <2>1. /\ Return(w)
        /\ zeny' = IF total > 0 /\ MoveOk("credit", z, total)
                   THEN [zeny EXCEPT ![job[w].char] = @ + total] ELSE zeny
        /\ UNCHANGED <<rows, store, floor, nextId, gone, raced, count>>
    BY <1>11 DEF Credit
  <2>2. total \in Nat
    BY <1>1, CatalogAssumption
  <2>3. z \in 0 .. Half
    BY <1>1, <1>d DEF Balances
  <2> HIDE DEF total, z
  <2>4. MoveOk("credit", z, total) => z + total \in 0 .. Half
    BY <2>2, <2>3, HalfAssumption DEF MoveOk, CreditOk
  <2>5. zeny' \in [Chars -> Balances]
    BY <1>1, <1>d, <2>1, <2>4 DEF Balances, z
  <2> QED BY <1>0, <1>a, <1>b, <1>c, <1>d, <2>1, <2>5, JobReturn, TablesSame, TypeParts
<1>12. ASSUME StoreMerge(w) PROVE TypeInv'
  <2> DEFINE id == StackOf(job[w].name)
             n == IF id = NoRow THEN 0 ELSE store[id].amount
             r == [job[w] EXCEPT !.pc = "keep", !.id = id, !.loaded = n]
  <2>1. id \in Nat /\ n \in Nat
    <3>1. id \in Nat /\ (id # NoRow => id \in DOMAIN store)
      BY StackIdType
    <3> QED BY <1>2, <3>1 DEF Stack
  <2>2. /\ job' = [job EXCEPT ![w] = r] /\ UNCHANGED <<rows, store, floor, zeny, nextId, gone, count>>
    BY <1>0, <1>12 DEF StoreMerge, JobsOK
  <2>3. raced' \subseteq {"bag", "store", "insert", "worn"}
    BY <1>12, RaceType DEF StoreMerge
  <2> HIDE DEF id, n
  <2>4. r \in Jobs /\ r.pc = "keep"
    BY <1>1, <2>1 DEF Jobs
  <2> HIDE DEF r
  <2>5. JobsOK'
    BY <1>0, <2>2, <2>4, JobSet
  <2> QED BY <1>a, <1>c, <1>d, <2>2, <2>3, <2>5, TablesSame, TypeParts
<1>13. ASSUME StoreKeep(w) PROVE TypeInv'
  <2> DEFINE id == IF job[w].id = NoRow THEN nextId ELSE job[w].id
             n == job[w].loaded + job[w].amount
             s == [name |-> job[w].name, amount |-> n]
  <2>1. /\ store' = IF job[w].id = NoRow \/ id \in DOMAIN store THEN Put(store, id, s) ELSE store
        /\ nextId' = IF job[w].id = NoRow THEN nextId + 1 ELSE nextId
        /\ Return(w) /\ UNCHANGED <<rows, floor, zeny, gone, raced, count>>
    BY <1>13 DEF StoreKeep
  <2>2. n \in Nat
    BY <1>1
  <2> HIDE DEF n
  <2>3. s \in Stack
    BY <1>1, <2>2 DEF Stack
  <2> HIDE DEF s
  <2>4. nextId + 1 # nextId
    BY <1>0 DEF MiscOK
  <2>5. \A i \in DOMAIN store' : store'[i] \in Stack /\ (i \in DOMAIN store \/ (i = nextId /\ nextId' # nextId))
    <3>1. CASE store' = Put(store, id, s)
      BY <1>2, <2>1, <2>3, <2>4, <3>1 DEF Put
    <3>2. CASE store' = store
      BY <1>2, <3>2
    <3> QED BY <2>1, <3>1, <3>2
  <2>6. TablesOK'
    BY <1>2, <2>1, <2>5, TablesMove
  <2> QED BY <1>0, <1>a, <1>b, <1>c, <1>d, <2>1, <2>6, JobReturn, TypeParts
<1>14. ASSUME StoreFull(w) PROVE TypeInv'
  <2>1. UNCHANGED <<rows, store, floor, zeny, nextId, raced, count>> /\ Return(w)
        /\ Leaves(w, job[w].amount)
    BY <1>14 DEF StoreFull
  <2>2. gone' \in [Names -> Int]
    BY <1>0, <1>1, <2>1, LeavesType
  <2> QED BY <1>0, <1>b, <1>c, <1>d, <2>1, <2>2, JobReturn, TablesSame, TypeParts
<1>15. ASSUME Fault(w) PROVE TypeInv'
  <2>1. /\ UNCHANGED <<rows, store, floor, zeny, nextId, raced>> /\ Return(w)
        /\ Leaves(w, Carries(w, job[w].name)) /\ count' = [count EXCEPT !.faults = @ + 1]
    BY <1>15 DEF Fault
  <2>2. Carries(w, job[w].name) \in Int
    BY <1>1 DEF Carries
  <2>3. gone' \in [Names -> Int]
    BY <1>0, <2>1, <2>2, LeavesType
  <2>4. count' \in [requests : Nat, faults : Nat]
    BY <1>d, <2>1
  <2> QED BY <1>0, <1>b, <1>c, <1>d, <2>1, <2>3, <2>4, JobReturn, TablesSame, TypeParts
<1>16. ASSUME EquipClear(w) PROVE TypeInv'
  <2>1. /\ UNCHANGED <<store, floor, zeny, nextId, gone, raced, count>> /\ job[w].pc = "clear"
        /\ Return(w) \/ job' = [job EXCEPT ![w].others = @ \ {Min(job[w].others)}]
    BY <1>16 DEF EquipClear
  <2>2. JobsOK'
    <3>1. CASE Return(w)
      BY <1>0, <3>1, JobReturn
    <3>2. CASE job' = [job EXCEPT ![w].others = @ \ {Min(job[w].others)}]
      <4> DEFINE r == [job[w] EXCEPT !.others = @ \ {Min(job[w].others)}]
      <4>1. r \in Jobs /\ r.pc = "clear"
        BY <1>1, <2>1 DEF Jobs
      <4>2. job' = [job EXCEPT ![w] = r]
        BY <1>0, <3>2 DEF JobsOK
      <4> HIDE DEF r
      <4> QED BY <1>0, <4>1, <4>2, JobSet
    <3> QED BY <2>1, <3>1, <3>2
  <2>4. Fades(rows, rows')
    <3>1. ~BagAdd(w) /\ ~EquipWear(w)
      BY <1>16 DEF EquipClear, BagAdd, EquipWear
    <3> QED BY <3>1, StepRows
  <2>5. TablesOK'
    BY <1>2, <2>1, <2>4, TablesMove DEF Fades
  <2> QED BY <1>a, <1>b, <1>c, <1>d, <2>1, <2>2, <2>5, TypeParts
<1>17. ASSUME EquipWear(w) PROVE TypeInv'
  <2>1. /\ UNCHANGED <<store, floor, zeny, nextId, gone, raced, count>> /\ Return(w)
        /\ job[w].id \in DOMAIN rows /\ rows' = SetEquip(rows, job[w].id, TRUE)
    BY <1>17 DEF EquipWear
  <2>2. DOMAIN rows' = DOMAIN rows /\ \A i \in DOMAIN rows : rows'[i] \in Row
    BY <1>2, <2>1, SetEquipRows
  <2>3. TablesOK'
    BY <1>2, <2>1, <2>2, TablesMove
  <2> QED BY <1>0, <1>a, <1>b, <1>c, <1>d, <2>1, <2>3, JobReturn, TypeParts
<1>18. ASSUME UnequipWrite(w) PROVE TypeInv'
  <2>1. /\ UNCHANGED <<store, floor, zeny, nextId, gone, raced, count>> /\ Return(w)
        /\ rows' = IF job[w].id \in DOMAIN rows THEN SetEquip(rows, job[w].id, FALSE) ELSE rows
    BY <1>18 DEF UnequipWrite
  <2>2. Fades(rows, rows')
    <3>1. ~BagAdd(w) /\ ~EquipWear(w)
      BY <1>18 DEF UnequipWrite, BagAdd, EquipWear
    <3> QED BY <3>1, StepRows
  <2>3. TablesOK'
    BY <1>2, <2>1, <2>2, TablesMove DEF Fades
  <2> QED BY <1>0, <1>a, <1>b, <1>c, <1>d, <2>1, <2>3, JobReturn, TypeParts
<1> QED BY <1>3, <1>4, <1>5, <1>6, <1>7, <1>8, <1>9, <1>10, <1>11, <1>12, <1>13, <1>14, <1>15,
           <1>16, <1>17, <1>18 DEF Step

LEMMA TypeStep ==
    ASSUME TypeInv, [Next]_vars
    PROVE  TypeInv'
<1>1. CASE UNCHANGED vars
  <2>1. UNCHANGED <<rows, store, floor, zeny, nextId, job, gone, raced, count>>
    BY <1>1 DEF vars
  <2> QED BY <2>1 DEF TypeInv, TypeOK, KindInv, IsTable
<1> QED BY <1>1, StepType, ArriveType DEF Next

-----------------------------------------------------------------------------
\* Which statement comes next, as far as wearing and depositing are concerned.

LEMMA StepJob ==
    ASSUME TypeInv, NEW w \in Workers, Step(w)
    PROVE  /\ \A v \in Workers : v # w => job'[v] = job[v]
           /\ job'[w].pc = "keep" => StoreMerge(w)
           /\ job'[w].pc = "clear" => EquipClear(w) /\ job'[w] # NoJob
           /\ raced \subseteq raced' /\ nextId' >= nextId
<1> DEFINE Good == /\ \A v \in Workers : v # w => job'[v] = job[v]
                   /\ job'[w].pc = "keep" => StoreMerge(w)
                   /\ job'[w].pc = "clear" => EquipClear(w) /\ job'[w] # NoJob
                   /\ raced \subseteq raced' /\ nextId' >= nextId
<1>0. JobsOK /\ MiscOK /\ job[w] # NoJob /\ NoJob.pc = "idle"
  BY TypeParts, StepIsBusy DEF NoJob
<1>1. job[w] \in Jobs /\ nextId \in Nat
  BY <1>0, JobFields DEF MiscOK
<1>2. nextId' \in {nextId, nextId + 1} => nextId' >= nextId
  BY <1>1
<1>3. ASSUME Return(w), UNCHANGED raced, nextId' \in {nextId, nextId + 1} PROVE Good
  BY <1>0, <1>2, <1>3, JobReturn
<1>4. ASSUME NEW pc \in {"bag", "credit", "floor", "merge"}, Goto(w, pc), UNCHANGED <<raced, nextId>>
      PROVE  Good
  <2>1. job'[w] = [job[w] EXCEPT !.pc = pc] /\ \A v \in Workers : v # w => job'[v] = job[v]
    BY <1>0, <1>4, JobGoto DEF Pcs
  <2>2. job'[w].pc = pc
    BY <1>1, <2>1 DEF Jobs
  <2> QED BY <1>2, <1>4, <2>1, <2>2
<1>5. CASE BagLoad(w)
  <2>1. /\ job' = [job EXCEPT ![w].pc = "write", ![w].loaded = rows[job[w].id].amount]
        /\ raced \subseteq raced' /\ nextId' = nextId
    BY <1>5 DEF BagLoad, Race
  <2>2. job'[w].pc = "write" /\ \A v \in Workers : v # w => job'[v] = job[v]
    BY <1>0, <1>1, <2>1 DEF JobsOK, Jobs
  <2> QED BY <1>2, <2>1, <2>2
<1>6. CASE BagWrite(w)
  <2>1. job[w].kind \in {"sell", "use", "drop", "store"}
    BY <1>0, <1>6 DEF BagWrite, JobsOK, KindInv
  <2>2. Sink[job[w].kind] \in {"credit", "done", "floor", "merge"}
    BY <2>1 DEF Sink
  <2>3. Return(w) \/ \E pc \in {"credit", "floor", "merge"} : Goto(w, pc)
    BY <1>6, <2>2 DEF BagWrite, Then
  <2>4. UNCHANGED <<raced, nextId>>
    BY <1>6 DEF BagWrite
  <2> QED BY <1>3, <1>4, <2>3, <2>4
<1>7. CASE StoreLoad(w)
  <2>1. /\ job' = [job EXCEPT ![w].pc = "swrite", ![w].loaded = store[job[w].id].amount]
        /\ raced \subseteq raced' /\ nextId' = nextId
    BY <1>7 DEF StoreLoad, Race
  <2>2. job'[w].pc = "swrite" /\ \A v \in Workers : v # w => job'[v] = job[v]
    BY <1>0, <1>1, <2>1 DEF JobsOK, Jobs
  <2> QED BY <1>2, <2>1, <2>2
<1>8. CASE StoreWrite(w) \/ Pay(w)
  BY <1>4, <1>8 DEF StoreWrite, Pay
<1>9. CASE Refused(w) \/ BagAdd(w) \/ DropItem(w) \/ Credit(w) \/ StoreKeep(w) \/ StoreFull(w) \/ Fault(w)
           \/ EquipWear(w) \/ UnequipWrite(w)
  <2>1. Return(w) /\ UNCHANGED raced /\ nextId' \in {nextId, nextId + 1}
    BY <1>9 DEF Refused, BagAdd, DropItem, Credit, StoreKeep, StoreFull, Fault, EquipWear, UnequipWrite
  <2> QED BY <1>3, <2>1
<1>10. CASE StoreMerge(w)
  <2>1. /\ \E id, n : job' = [job EXCEPT ![w].pc = "keep", ![w].id = id, ![w].loaded = n]
        /\ raced \subseteq raced' /\ nextId' = nextId
    BY <1>10 DEF StoreMerge, Race
  <2>2. job'[w].pc = "keep" /\ \A v \in Workers : v # w => job'[v] = job[v]
    BY <1>0, <1>1, <2>1 DEF JobsOK, Jobs
  <2> QED BY <1>2, <1>10, <2>1, <2>2
<1>11. CASE EquipClear(w)
  <2>1. UNCHANGED <<raced, nextId>> /\ job[w].pc = "clear"
    BY <1>11 DEF EquipClear
  <2>2. CASE Return(w)
    BY <1>3, <2>1, <2>2
  <2>3. CASE job' = [job EXCEPT ![w].others = @ \ {Min(job[w].others)}]
    <3>1. job'[w].pc = "clear" /\ \A v \in Workers : v # w => job'[v] = job[v]
      BY <1>0, <1>1, <2>1, <2>3 DEF JobsOK, Jobs
    <3> QED BY <1>0, <1>2, <1>11, <2>1, <3>1
  <2> QED BY <1>11, <2>2, <2>3 DEF EquipClear
<1> QED BY <1>5, <1>6, <1>7, <1>8, <1>9, <1>10, <1>11 DEF Step

LEMMA ArriveJob ==
    ASSUME TypeInv, NEW w \in Workers, NEW c \in Chars, Arrive(w, c)
    PROVE  /\ \A v \in Workers : v # w => job'[v] = job[v]
           /\ job[w] = NoJob /\ job'[w].pc # "keep"
           /\ job'[w].pc = "clear" => \E id \in DOMAIN rows : Equip(w, c, id)
           /\ raced \subseteq raced' /\ UNCHANGED <<rows, store, nextId>>
<1>0. JobsOK
  BY TypeParts
<1>1. ASSUME NEW r, Request(w, r)
      PROVE  job[w] = NoJob /\ job'[w] = r /\ \A v \in Workers : v # w => job'[v] = job[v]
  BY <1>0, <1>1 DEF Request, Busy, JobsOK
<1>2. \A kind, b, pc, id, n, k : Job(kind, b, pc, id, n, k).pc = pc
  BY DEF Job
<1>3. ASSUME NEW id \in DOMAIN rows, Equip(w, c, id)
      PROVE  /\ \A v \in Workers : v # w => job'[v] = job[v]
             /\ job[w] = NoJob /\ job'[w].pc = "clear"
             /\ raced \subseteq raced' /\ UNCHANGED <<rows, store, nextId>>
  <2> DEFINE r == [Job("equip", c, "clear", id, rows[id].name, 0) EXCEPT !.others = Worn(c) \ {id}]
  <2>1. r.pc = "clear"
    BY DEF Job
  <2>2. Request(w, r) /\ raced \subseteq raced' /\ UNCHANGED <<rows, store, nextId>>
    BY <1>3 DEF Equip, Race
  <2> HIDE DEF r
  <2> QED BY <1>1, <2>1, <2>2
<1>4. ASSUME NEW kind, NEW b, NEW pc \in {"load", "sload", "pay", "bag", "unwear"}, NEW id, NEW n, NEW k,
             Request(w, Job(kind, b, pc, id, n, k)), UNCHANGED <<rows, store, nextId, raced>>
      PROVE  /\ \A v \in Workers : v # w => job'[v] = job[v]
             /\ job[w] = NoJob /\ job'[w].pc \notin {"keep", "clear"}
             /\ raced \subseteq raced' /\ UNCHANGED <<rows, store, nextId>>
  BY <1>1, <1>2, <1>4
<1>5. ASSUME NEW kind, NEW id, NEW k, TakeFromBag(w, kind, c, id, k)
      PROVE  /\ Request(w, Job(kind, c, "load", id, rows[id].name, k))
             /\ UNCHANGED <<rows, store, nextId, raced>>
  BY <1>5 DEF TakeFromBag
<1>6. ASSUME NEW id, NEW k, TakeFromStore(w, c, id, k)
      PROVE  /\ Request(w, Job("retrieve", c, "sload", id, store[id].name, k))
             /\ UNCHANGED <<rows, store, nextId, raced>>
  BY <1>6 DEF TakeFromStore
<1>7. ASSUME NEW n, NEW k, Buy(w, c, n, k)
      PROVE  Request(w, Job("buy", c, "pay", NoRow, n, k)) /\ UNCHANGED <<rows, store, nextId, raced>>
  BY <1>7 DEF Buy
<1>8. ASSUME NEW id, PickupFloorItem(w, c, id)
      PROVE  /\ Request(w, Job("pickup", c, "bag", NoRow, floor[id].name, floor[id].amount))
             /\ UNCHANGED <<rows, store, nextId, raced>>
  BY <1>8 DEF PickupFloorItem
<1>9. ASSUME NEW id, Unequip(w, c, id)
      PROVE  /\ Request(w, Job("unequip", c, "unwear", id, rows[id].name, 0))
             /\ UNCHANGED <<rows, store, nextId, raced>>
  BY <1>9 DEF Unequip
<1>10. CASE \E id \in DOMAIN rows : Equip(w, c, id)
  BY <1>3, <1>10
<1>11. CASE ~\E id \in DOMAIN rows : Equip(w, c, id)
  <2>1. \E kind, pc, id, n, k : /\ pc \in {"load", "sload", "pay", "bag", "unwear"}
                                /\ Request(w, Job(kind, c, pc, id, n, k))
                                /\ UNCHANGED <<rows, store, nextId, raced>>
    BY <1>5, <1>6, <1>7, <1>8, <1>9, <1>11 DEF Arrive
  <2> QED BY <1>4, <2>1
<1> QED BY <1>10, <1>11

-----------------------------------------------------------------------------
\* Wearing.

\* A row under the next id is new and not worn; any other was there before, with its
\* owner, and it is newly worn only by EquipWear.
LEMMA RowEffect ==
    ASSUME TypeInv, NEW w \in Workers, Step(w) \/ \E c \in Chars : Arrive(w, c),
           NEW i \in DOMAIN rows'
    PROVE  /\ i = nextId => ~rows'[i].equip
           /\ i # nextId => /\ i \in DOMAIN rows /\ rows'[i].owner = rows[i].owner
                            /\ rows'[i].equip => rows[i].equip \/ (EquipWear(w) /\ i = job[w].id)
<1>0. nextId \notin DOMAIN rows /\ \A j \in DOMAIN rows : rows[j] \in Row
  <2>1. nextId \in Nat /\ \A j \in DOMAIN rows : rows[j] \in Row /\ j \in Nat /\ j < nextId
    BY TypeParts, TableTypes DEF MiscOK
  <2>2. ~(nextId < nextId)
    BY <2>1
  <2> QED BY <2>1, <2>2
<1>1. CASE Fades(rows, rows')
  BY <1>0, <1>1 DEF Fades
<1>2. CASE \E c \in Chars : Arrive(w, c)
  <2>1. UNCHANGED rows
    BY <1>2, ArriveJob
  <2> QED BY <1>0, <2>1
<1>3. CASE BagAdd(w)
  <2>1. PICK e : e = [owner |-> job[w].char, name |-> job[w].name, amount |-> job[w].amount, equip |-> FALSE]
    OBVIOUS
  <2>2. rows' = [j \in DOMAIN rows \cup {nextId} |-> IF j = nextId THEN e ELSE rows[j]]
    BY <1>3, <2>1 DEF BagAdd, AddRow
  <2>3. ~e.equip
    BY <2>1
  <2> QED BY <2>2, <2>3
<1>4. CASE EquipWear(w)
  <2>1. job[w].id \in DOMAIN rows /\ rows' = SetEquip(rows, job[w].id, TRUE)
    BY <1>4 DEF EquipWear
  <2>2. /\ DOMAIN rows' = DOMAIN rows
        /\ \A j \in DOMAIN rows : rows'[j].owner = rows[j].owner /\ (j # job[w].id => rows'[j] = rows[j])
    <3> DEFINE e == [rows[job[w].id] EXCEPT !.equip = TRUE]
    <3>1. e.owner = rows[job[w].id].owner
      BY <1>0, <2>1 DEF Row
    <3>2. rows' = [rows EXCEPT ![job[w].id] = e]
      BY <2>1 DEF SetEquip
    <3> HIDE DEF e
    <3> QED BY <2>1, <3>1, <3>2
  <2> QED BY <1>0, <1>4, <2>2
<1> QED BY <1>1, <1>2, <1>3, <1>4, StepRows

LEMMA OwnerStep ==
    ASSUME TypeInv, OwnerInv, [Next]_vars
    PROVE  OwnerInv'
<1>1. CASE UNCHANGED vars
  BY <1>1 DEF OwnerInv, vars
<1>2. ASSUME NEW w \in Workers, Step(w) \/ \E c \in Chars : Arrive(w, c),
             NEW v \in Workers, job'[v].pc = "clear"
      PROVE  /\ job'[v].id < nextId'
             /\ job'[v].id \in DOMAIN rows' => rows'[job'[v].id].owner = job'[v].char
  <2>0. /\ \A u \in Workers : u # w => job'[u] = job[u]
        /\ nextId \in Nat /\ nextId' \in Nat /\ nextId' >= nextId
    <3>1. TypeInv'
      BY <1>2, TypeStep DEF Next
    <3>2. nextId \in Nat /\ nextId' \in Nat
      BY <3>1, TypeParts DEF MiscOK
    <3> QED BY <1>2, <3>2, StepJob, ArriveJob
  <2>1. ASSUME job[v].pc = "clear", job'[v].id = job[v].id, job'[v].char = job[v].char
        PROVE  /\ job'[v].id < nextId'
               /\ job'[v].id \in DOMAIN rows' => rows'[job'[v].id].owner = job'[v].char
    <3>1. job[v].id < nextId /\ (job[v].id \in DOMAIN rows => rows[job[v].id].owner = job[v].char)
      BY <2>1 DEF OwnerInv
    <3>2. job[v].id \in Nat
      <4>1. job[v] # NoJob
        BY <2>1 DEF NoJob
      <4> QED BY <4>1, TypeParts, JobFields
    <3>3. job[v].id < nextId' /\ job[v].id # nextId
      BY <2>0, <3>1, <3>2
    <3> QED BY <1>2, <2>1, <3>1, <3>3, RowEffect
  <2>2. CASE v # w
    BY <1>2, <2>0, <2>1, <2>2
  <2>3. CASE v = w /\ Step(w)
    <3>1. EquipClear(w) /\ job'[w] # NoJob
      BY <1>2, <2>3, StepJob
    <3>2. JobsOK
      BY TypeParts
    <3>3. job[w].pc = "clear" /\ job' = [job EXCEPT ![w].others = @ \ {Min(job[w].others)}]
      BY <3>1, <3>2 DEF EquipClear, Return, JobsOK
    <3>4. job[w] \in Jobs
      BY <3>2, <3>3 DEF JobsOK, NoJob
    <3>5. job'[w].id = job[w].id /\ job'[w].char = job[w].char
      BY <3>2, <3>3, <3>4 DEF JobsOK, Jobs
    <3> QED BY <2>1, <2>3, <3>3, <3>5
  <2>4. CASE v = w /\ \E c \in Chars : Arrive(w, c)
    <3>1. PICK c \in Chars : Arrive(w, c)
      BY <2>4
    <3>2. PICK id \in DOMAIN rows : Equip(w, c, id)
      BY <1>2, <2>4, <3>1, ArriveJob
    <3>3. UNCHANGED <<rows, nextId>> /\ id < nextId /\ rows[id].owner = c
      BY <3>2, TableTypes DEF Equip, Owned
    <3>4. job'[w].id = id /\ job'[w].char = c
      <4>1. JobsOK
        BY TypeParts
      <4>2. job'[w] = [Job("equip", c, "clear", id, rows[id].name, 0) EXCEPT !.others = Worn(c) \ {id}]
        BY <3>2, <4>1 DEF Equip, Request, JobsOK
      <4> QED BY <4>2 DEF Job
    <3> QED BY <2>4, <3>3, <3>4
  <2> QED BY <1>2, <2>2, <2>3, <2>4
<1> QED BY <1>1, <1>2 DEF Next, OwnerInv

LEMMA WornStep ==
    ASSUME TypeInv, OwnerInv, WornInv, [Next]_vars
    PROVE  WornInv'
<1>1. CASE UNCHANGED vars
  BY <1>1 DEF WornInv, Worn, Owned, Wears, vars
<1>2. ASSUME NEW w \in Workers, Step(w) \/ \E c \in Chars : Arrive(w, c), "worn" \notin raced'
      PROVE  WornInv'
  <2>0. /\ \A u \in Workers : u # w => job'[u] = job[u]
        /\ "worn" \notin raced /\ JobsOK
    BY <1>2, StepJob, ArriveJob, TypeParts
  <2>1. /\ \A c \in Chars : \A i, j \in Worn(c) : i = j
        /\ \A u, v \in Workers, c \in Chars : Wears(u, c) /\ Wears(v, c) => u = v
        /\ \A v \in Workers, c \in Chars : Wears(v, c) => Worn(c) \subseteq job[v].others \cup {job[v].id}
    BY <2>0 DEF WornInv
  <2>2. ASSUME NEW c \in Chars, NEW i \in Worn(c)', i \notin Worn(c)
        PROVE  EquipWear(w) /\ i = job[w].id /\ Wears(w, c)
    <3>1. i \in DOMAIN rows' /\ rows'[i].owner = c /\ rows'[i].equip
      BY <2>2 DEF Worn, Owned
    <3>2. EquipWear(w) /\ i = job[w].id /\ i \in DOMAIN rows /\ rows[i].owner = c
      BY <1>2, <2>2, <3>1, RowEffect DEF Worn, Owned
    <3>3. job[w].pc = "clear" /\ rows[job[w].id].owner = job[w].char
      BY <3>2 DEF EquipWear, OwnerInv
    <3> QED BY <3>2, <3>3 DEF Wears
  <2>3. CASE EquipWear(w)
    <3>1. job[w].pc = "clear" /\ job[w].others = {} /\ Return(w)
      BY <2>3 DEF EquipWear
    <3>2. job'[w].pc = "idle"
      BY <2>0, <3>1, JobReturn DEF NoJob
    <3>3. \A c \in Chars : Wears(w, c) => Worn(c)' \subseteq {job[w].id}
      BY <2>1, <2>2, <3>1
    <3>4. \A c \in Chars : ~Wears(w, c) => Worn(c)' \subseteq Worn(c)
      BY <2>2
    <3>5. \A v \in Workers, c \in Chars : Wears(v, c)' => v # w /\ Wears(v, c) /\ job'[v] = job[v]
      BY <2>0, <3>2 DEF Wears
    <3>6. \A c \in Chars : \A i, j \in Worn(c)' : i = j
      BY <2>1, <3>3, <3>4
    <3>7. \A u, v \in Workers, c \in Chars : Wears(u, c)' /\ Wears(v, c)' => u = v
      BY <2>1, <3>5
    <3>8. ASSUME NEW v \in Workers, NEW c \in Chars, Wears(v, c)'
          PROVE  Worn(c)' \subseteq job'[v].others \cup {job'[v].id}
      BY <2>1, <3>4, <3>5, <3>8
    <3> QED BY <3>6, <3>7, <3>8 DEF WornInv
  <2>4. CASE ~EquipWear(w)
    <3>1. \A c \in Chars : Worn(c)' \subseteq Worn(c)
      BY <2>2, <2>4
    <3>2. \A v \in Workers, c \in Chars : v # w => (Wears(v, c)' <=> Wears(v, c))
      BY <2>0 DEF Wears
    <3>3. ASSUME NEW c \in Chars, Wears(w, c)'
          PROVE  /\ \A v \in Workers : v # w => ~Wears(v, c)
                 /\ Worn(c)' \subseteq job'[w].others \cup {job'[w].id}
      <4>1. CASE Step(w)
        <5>1. EquipClear(w) /\ job'[w] # NoJob
          BY <3>3, <4>1, StepJob DEF Wears
        <5> DEFINE m == Min(job[w].others)
        <5>2. /\ job[w].pc = "clear" /\ job' = [job EXCEPT ![w].others = @ \ {m}]
              /\ m \in DOMAIN rows /\ rows' = SetEquip(rows, m, FALSE)
          BY <2>0, <5>1 DEF EquipClear, Return, JobsOK
        <5> HIDE DEF m
        <5>3. job[w] \in Jobs
          BY <2>0, <5>2 DEF JobsOK, NoJob
        <5>4. job'[w].id = job[w].id /\ job'[w].char = job[w].char /\ job'[w].others = job[w].others \ {m}
          BY <2>0, <5>2, <5>3 DEF JobsOK, Jobs
        <5>5. Wears(w, c)
          BY <3>3, <5>2, <5>4 DEF Wears
        <5>6. m \notin Worn(c)'
          <6>1. ~rows'[m].equip
            BY <5>2, TableTypes, ClearEquipFades
          <6> QED BY <6>1 DEF Worn
        <5> QED BY <2>1, <3>1, <5>4, <5>5, <5>6
      <4>2. CASE \E b \in Chars : Arrive(w, b)
        <5>1. PICK b \in Chars, id \in DOMAIN rows : Equip(w, b, id)
          BY <3>3, <4>2, ArriveJob DEF Wears
        <5>2. job'[w] = [Job("equip", b, "clear", id, rows[id].name, 0) EXCEPT !.others = Worn(b) \ {id}]
          BY <2>0, <5>1 DEF Equip, Request, JobsOK
        <5>3. job'[w].id = id /\ job'[w].char = b /\ job'[w].others = Worn(b) \ {id}
          BY <5>2 DEF Job
        <5>4. b = c
          BY <3>3, <5>3 DEF Wears
        <5>5. \A v \in Workers : ~(job[v].pc = "clear" /\ job[v].char = c)
          BY <1>2, <5>1, <5>4 DEF Equip, Race
        <5> QED BY <3>1, <5>3, <5>4, <5>5 DEF Wears
      <4> QED BY <1>2, <4>1, <4>2
    <3>4. \A c \in Chars : \A i, j \in Worn(c)' : i = j
      BY <2>1, <3>1
    <3>5. \A u, v \in Workers, c \in Chars : Wears(u, c)' /\ Wears(v, c)' => u = v
      BY <2>1, <3>2, <3>3
    <3>6. ASSUME NEW v \in Workers, NEW c \in Chars, Wears(v, c)'
          PROVE  Worn(c)' \subseteq job'[v].others \cup {job'[v].id}
      <4>1. CASE v = w
        BY <3>3, <3>6, <4>1
      <4>2. CASE v # w
        BY <2>0, <2>1, <3>1, <3>2, <3>6, <4>2
      <4> QED BY <4>1, <4>2
    <3> QED BY <3>4, <3>5, <3>6 DEF WornInv
  <2> QED BY <2>3, <2>4
<1> QED BY <1>1, <1>2 DEF Next, WornInv

-----------------------------------------------------------------------------
\* The warehouse.

LEMMA StoreFinite ==
    ASSUME TypeInv
    PROVE  IsFiniteSet(DOMAIN store) /\ Cardinality(DOMAIN store) \in Nat /\ nextId \notin DOMAIN store
<1>1. nextId \in Nat \ {0} /\ DOMAIN store \subseteq 1 .. nextId - 1
  BY TypeParts DEF MiscOK, TablesOK, IsTable
<1>2. IsFiniteSet(1 .. nextId - 1)
  BY <1>1, FS_Interval
<1>3. IsFiniteSet(DOMAIN store)
  BY <1>1, <1>2, FS_Subset
<1>4. nextId \notin 1 .. nextId - 1
  BY <1>1
<1> QED BY <1>1, <1>3, <1>4, FS_CardinalityType

\* The only new stack there can be is the one an insert makes under the next id.
LEMMA StoreEffect ==
    ASSUME TypeInv, StackInv, NEW w \in Workers, Step(w) \/ \E c \in Chars : Arrive(w, c)
    PROVE  \/ Lasts(store, store')
           \/ /\ StoreKeep(w) /\ Inserts(w)
              /\ DOMAIN store' = DOMAIN store \cup {nextId}
              /\ store'[nextId].name = job[w].name
              /\ \A i \in DOMAIN store : store'[i] = store[i]
<1>1. CASE UNCHANGED store
  BY <1>1, TableTypes DEF Lasts
<1>2. CASE \E c \in Chars : Arrive(w, c)
  BY <1>1, <1>2, ArriveJob
<1>3. CASE StoreKeep(w)
  <2>1. PICK s : s = [name |-> job[w].name, amount |-> job[w].loaded + job[w].amount]
    OBVIOUS
  <2>2. job[w].pc = "keep" /\ job[w] # NoJob
    BY <1>3 DEF StoreKeep, NoJob
  <2>3. job[w].name \in Names /\ job[w].loaded \in Nat /\ job[w].amount \in Nat
    BY <2>2, TypeParts, JobFields
  <2>4. s \in Stack /\ s.name = job[w].name
    BY <2>1, <2>3 DEF Stack
  <2>5. CASE job[w].id = NoRow
    <3>1. store' = [i \in DOMAIN store \cup {nextId} |-> IF i = nextId THEN s ELSE store[i]]
      BY <1>3, <2>1, <2>5 DEF StoreKeep, Put
    <3>2. nextId \notin DOMAIN store
      BY StoreFinite
    <3>3. Inserts(w)
      BY <2>2, <2>5 DEF Inserts
    <3> QED BY <1>3, <2>4, <3>1, <3>2, <3>3
  <2>6. CASE job[w].id # NoRow /\ job[w].id \in DOMAIN store
    <3>1. store' = [i \in DOMAIN store \cup {job[w].id} |-> IF i = job[w].id THEN s ELSE store[i]]
      BY <1>3, <2>1, <2>6 DEF StoreKeep, Put
    <3>2. store[job[w].id].name = job[w].name
      BY <2>2, <2>6 DEF StackInv
    <3> QED BY <2>4, <2>6, <3>1, <3>2, TableTypes DEF Lasts
  <2>7. CASE job[w].id # NoRow /\ job[w].id \notin DOMAIN store
    <3>1. UNCHANGED store
      BY <1>3, <2>7 DEF StoreKeep
    <3> QED BY <1>1, <3>1
  <2> QED BY <2>5, <2>6, <2>7
<1> QED BY <1>2, <1>3, StepStore

\* What StoreMerge leaves in the request.
LEMMA MergeJob ==
    ASSUME TypeInv, NEW w \in Workers, StoreMerge(w)
    PROVE  /\ job'[w].pc = "keep" /\ job'[w].id = StackOf(job[w].name) /\ job'[w].name = job[w].name
           /\ job[w].pc = "merge" /\ UNCHANGED <<store, nextId>>
<1>1. PICK id, n : /\ id = StackOf(job[w].name)
                   /\ job' = [job EXCEPT ![w].pc = "keep", ![w].id = id, ![w].loaded = n]
  BY DEF StoreMerge
<1>2. job[w].pc = "merge" /\ UNCHANGED <<store, nextId>>
  BY DEF StoreMerge
<1>3. job \in [Workers -> Jobs \cup {NoJob}] /\ job[w] \in Jobs
  BY <1>2, TypeParts, JobFields DEF JobsOK, NoJob
<1> QED BY <1>1, <1>2, <1>3 DEF Jobs

LEMMA StackStep ==
    ASSUME TypeInv, StackInv, [Next]_vars
    PROVE  StackInv'
<1>1. CASE UNCHANGED vars
  BY <1>1 DEF StackInv, vars
<1>2. ASSUME NEW w \in Workers, Step(w) \/ \E c \in Chars : Arrive(w, c),
             NEW v \in Workers, job'[v].pc = "keep", job'[v].id # NoRow
      PROVE  /\ job'[v].id < nextId'
             /\ job'[v].id \in DOMAIN store' => store'[job'[v].id].name = job'[v].name
  <2>0. /\ \A u \in Workers : u # w => job'[u] = job[u]
        /\ nextId \in Nat /\ nextId' \in Nat /\ nextId' >= nextId
    <3>1. TypeInv'
      BY <1>2, TypeStep DEF Next
    <3>2. nextId \in Nat /\ nextId' \in Nat
      BY <3>1, TypeParts DEF MiscOK
    <3> QED BY <1>2, <3>2, StepJob, ArriveJob
  <2>1. CASE v # w
    <3>1. job'[v] = job[v]
      BY <2>0, <2>1
    <3>2. job[v].id < nextId /\ (job[v].id \in DOMAIN store => store[job[v].id].name = job[v].name)
      BY <1>2, <3>1 DEF StackInv
    <3>3. job[v].id \in Nat
      <4>1. job[v] # NoJob
        BY <1>2, <3>1 DEF NoJob
      <4> QED BY <4>1, TypeParts, JobFields
    <3>4. job[v].id < nextId' /\ job[v].id # nextId
      BY <2>0, <3>2, <3>3
    <3>5. ASSUME job[v].id \in DOMAIN store' PROVE store'[job[v].id].name = job[v].name
      BY <1>2, <3>2, <3>4, <3>5, StoreEffect DEF Lasts
    <3> QED BY <3>1, <3>4, <3>5
  <2>2. CASE v = w
    <3>1. StoreMerge(w)
      BY <1>2, <2>2, StepJob, ArriveJob
    <3>2. /\ job'[w].id = StackOf(job[w].name) /\ job'[w].name = job[w].name
          /\ UNCHANGED <<store, nextId>>
      BY <3>1, MergeJob
    <3>3. StackOf(job[w].name) \in DOMAIN store /\ store[StackOf(job[w].name)].name = job[w].name
      BY <1>2, <2>2, <3>2, StackIdType
    <3> QED BY <2>2, <3>2, <3>3, TableTypes
  <2> QED BY <2>1, <2>2
<1> QED BY <1>1, <1>2 DEF Next, StackInv

LEMMA InsertStep ==
    ASSUME TypeInv, StackInv, InsertInv, [Next]_vars
    PROVE  InsertInv'
<1>1. CASE UNCHANGED vars
  BY <1>1 DEF InsertInv, Inserts, Stacks, vars
<1>2. ASSUME NEW w \in Workers, Step(w) \/ \E c \in Chars : Arrive(w, c), "insert" \notin raced'
      PROVE  InsertInv'
  <2>0. /\ \A u \in Workers : u # w => job'[u] = job[u]
        /\ "insert" \notin raced /\ JobsOK /\ MaxStorage \in Nat
    BY <1>2, StepJob, ArriveJob, TypeParts, GoodsBounds
  <2>1. /\ Cardinality(DOMAIN store) <= MaxStorage
        /\ \A i, j \in DOMAIN store : store[i].name = store[j].name => i = j
        /\ \A u, v \in Workers : Inserts(u) /\ Inserts(v) => u = v
        /\ \A v \in Workers : Inserts(v) =>
              Cardinality(DOMAIN store) < MaxStorage /\ Stacks(job[v].name) = {}
    BY <2>0 DEF InsertInv
  <2>2. /\ IsFiniteSet(DOMAIN store) /\ Cardinality(DOMAIN store) \in Nat
        /\ nextId \notin DOMAIN store
    BY StoreFinite
  <2>3. \A v \in Workers : v # w => (Inserts(v)' <=> Inserts(v))
    BY <2>0 DEF Inserts
  <2>4. CASE /\ StoreKeep(w) /\ Inserts(w)
             /\ DOMAIN store' = DOMAIN store \cup {nextId}
             /\ store'[nextId].name = job[w].name
             /\ \A i \in DOMAIN store : store'[i] = store[i]
    <3>1. job'[w].pc = "idle"
      BY <2>0, <2>4, JobReturn DEF StoreKeep, NoJob
    <3>2. \A v \in Workers : ~Inserts(v)'
      <4>1. ~Inserts(w)'
        BY <3>1 DEF Inserts
      <4> QED BY <2>1, <2>3, <2>4, <4>1
    <3>3. Cardinality(DOMAIN store') = Cardinality(DOMAIN store) + 1
      BY <2>2, <2>4, FS_AddElement
    <3>4. Cardinality(DOMAIN store') <= MaxStorage
      BY <2>0, <2>1, <2>2, <2>4, <3>3
    <3>5. \A i \in DOMAIN store : store[i].name # job[w].name
      BY <2>1, <2>4 DEF Stacks
    <3>6. \A i, j \in DOMAIN store' : store'[i].name = store'[j].name => i = j
      BY <2>1, <2>4, <3>5
    <3> QED BY <3>2, <3>4, <3>6 DEF InsertInv
  <2>5. CASE Lasts(store, store')
    <3>1. DOMAIN store' \subseteq DOMAIN store /\ \A i \in DOMAIN store' : store'[i].name = store[i].name
      BY <2>5 DEF Lasts
    <3>2. Cardinality(DOMAIN store') \in Nat /\ Cardinality(DOMAIN store') <= Cardinality(DOMAIN store)
      <4>1. IsFiniteSet(DOMAIN store')
        BY <2>2, <3>1, FS_Subset
      <4> QED BY <2>2, <3>1, <4>1, FS_Subset, FS_CardinalityType
    <3>3. ASSUME Inserts(w)'
          PROVE  /\ \A v \in Workers : v # w => ~Inserts(v)
                 /\ Cardinality(DOMAIN store') < MaxStorage /\ Stacks(job[w].name)' = {}
      <4>1. StoreMerge(w)
        BY <1>2, <3>3, StepJob, ArriveJob DEF Inserts
      <4>2. /\ job'[w].id = StackOf(job[w].name) /\ job'[w].name = job[w].name
            /\ UNCHANGED store
        BY <4>1, MergeJob
      <4>3. StackOf(job[w].name) = NoRow
        BY <3>3, <4>2 DEF Inserts
      <4>4. Stacks(job[w].name) = {}
        BY <4>3, StackIdType
      <4>5. Cardinality(DOMAIN store) < MaxStorage
        BY <4>1, <4>3 DEF StoreMerge, HasRoom
      <4>6. ~\E v \in Workers : Holds(v, {"swrite", "keep"}, NoRow)
        BY <1>2, <4>1, <4>3 DEF StoreMerge, Race
      <4>7. \A v \in Workers : ~Inserts(v)
        BY <4>6 DEF Holds, Inserts
      <4>8. Stacks(job[w].name)' = {}
        BY <4>2, <4>4 DEF Stacks
      <4> QED BY <4>2, <4>5, <4>7, <4>8
    <3>4. Cardinality(DOMAIN store') <= MaxStorage
      BY <2>0, <2>1, <2>2, <3>2
    <3>5. \A i, j \in DOMAIN store' : store'[i].name = store'[j].name => i = j
      BY <2>1, <3>1
    <3>6. \A u, v \in Workers : Inserts(u)' /\ Inserts(v)' => u = v
      BY <2>1, <2>3, <3>3
    <3>7. ASSUME NEW v \in Workers, Inserts(v)'
          PROVE  Cardinality(DOMAIN store') < MaxStorage /\ Stacks(job[v].name)' = {}
      <4>1. CASE v = w
        BY <3>3, <3>7, <4>1
      <4>2. CASE v # w
        <5>1. Cardinality(DOMAIN store) < MaxStorage /\ Stacks(job[v].name) = {} /\ job'[v] = job[v]
          BY <2>0, <2>1, <2>3, <3>7, <4>2
        <5>2. Stacks(job[v].name)' = {}
          BY <3>1, <5>1 DEF Stacks
        <5> QED BY <2>0, <2>2, <3>2, <5>1, <5>2
      <4> QED BY <4>1, <4>2
    <3> QED BY <3>4, <3>5, <3>6, <3>7 DEF InsertInv
  <2> QED BY <1>2, <2>4, <2>5, StoreEffect
<1> QED BY <1>1, <1>2 DEF Next, InsertInv

-----------------------------------------------------------------------------
\* Units.  What a request carries through its statements, and what is left of each
\* place while it does.

SameGoods(w) == /\ job'[w].kind = job[w].kind /\ job'[w].name = job[w].name
                /\ job'[w].amount = job[w].amount

\* A statement after which the handler goes on.
LEMMA StepGoods ==
    ASSUME TypeInv, NEW w \in Workers, Step(w), ~Return(w)
    PROVE  /\ SameGoods(w) /\ job'[w].pc # "idle" /\ ~BagAdd(w)
           /\ \/ /\ BagLoad(w) /\ job'[w].pc = "write"
                 /\ job'[w].id = job[w].id /\ job'[w].loaded = rows[job[w].id].amount
              \/ BagWrite(w) /\ job'[w].pc = Sink[job[w].kind] /\ Sink[job[w].kind] # "done"
              \/ /\ StoreLoad(w) /\ job'[w].pc = "swrite"
                 /\ job'[w].id = job[w].id /\ job'[w].loaded = store[job[w].id].amount
              \/ (StoreWrite(w) \/ Pay(w)) /\ job'[w].pc = "bag"
              \/ /\ StoreMerge(w) /\ job'[w].pc = "keep" /\ job'[w].id = StackOf(job[w].name)
                 /\ job'[w].loaded = IF StackOf(job[w].name) = NoRow THEN 0
                                     ELSE store[StackOf(job[w].name)].amount
              \/ EquipClear(w) /\ job'[w].pc = "clear"
<1>0. job \in [Workers -> Jobs \cup {NoJob}] /\ job[w] \in Jobs
  BY TypeParts, StepIsBusy, JobFields DEF JobsOK
<1>1. ASSUME NEW pc \in {"bag", "credit", "floor", "merge"}, Goto(w, pc)
      PROVE  SameGoods(w) /\ job'[w].pc = pc /\ pc # "idle"
  BY <1>0, <1>1 DEF Goto, Jobs, SameGoods
<1>2. ASSUME NEW pc \in {"write", "swrite"}, NEW n,
             job' = [job EXCEPT ![w].pc = pc, ![w].loaded = n]
      PROVE  SameGoods(w) /\ job'[w].pc = pc /\ job'[w].id = job[w].id /\ job'[w].loaded = n
  BY <1>0, <1>2 DEF Jobs, SameGoods
<1>3. CASE BagLoad(w)
  <2>1. job' = [job EXCEPT ![w].pc = "write", ![w].loaded = rows[job[w].id].amount] /\ job[w].pc = "load"
    BY <1>3 DEF BagLoad
  <2> QED BY <1>2, <1>3, <2>1 DEF BagAdd
<1>4. CASE BagWrite(w)
  <2>0. job[w].pc = "write"
    BY <1>4 DEF BagWrite
  <2>1. job[w].kind \in {"sell", "use", "drop", "store"}
    BY <2>0, TypeParts DEF JobsOK, KindInv
  <2>2. Sink[job[w].kind] \in {"credit", "done", "floor", "merge"}
    BY <2>1 DEF Sink
  <2>3. Sink[job[w].kind] # "done" /\ Goto(w, Sink[job[w].kind])
    BY <1>4 DEF BagWrite, Then
  <2> QED BY <1>1, <1>4, <2>0, <2>2, <2>3 DEF BagAdd
<1>5. CASE StoreLoad(w)
  <2>1. job' = [job EXCEPT ![w].pc = "swrite", ![w].loaded = store[job[w].id].amount] /\ job[w].pc = "sload"
    BY <1>5 DEF StoreLoad
  <2> QED BY <1>2, <1>5, <2>1 DEF BagAdd
<1>6. CASE StoreWrite(w) \/ Pay(w)
  <2>1. Goto(w, "bag") /\ job[w].pc \in {"swrite", "pay"}
    BY <1>6 DEF StoreWrite, Pay
  <2> QED BY <1>1, <1>6, <2>1 DEF BagAdd
<1>7. CASE StoreMerge(w)
  <2>1. PICK id, n : /\ id = StackOf(job[w].name)
                     /\ n = IF StackOf(job[w].name) = NoRow THEN 0 ELSE store[StackOf(job[w].name)].amount
                     /\ job' = [job EXCEPT ![w].pc = "keep", ![w].id = id, ![w].loaded = n]
    BY <1>7 DEF StoreMerge
  <2>2. SameGoods(w) /\ job'[w].pc = "keep" /\ job'[w].id = id /\ job'[w].loaded = n
    BY <1>0, <2>1 DEF Jobs, SameGoods
  <2>3. job[w].pc = "merge"
    BY <1>7 DEF StoreMerge
  <2> QED BY <1>7, <2>1, <2>2, <2>3 DEF BagAdd
<1>8. CASE EquipClear(w)
  <2>1. PICK s : job' = [job EXCEPT ![w].others = s]
    BY <1>8 DEF EquipClear
  <2>2. job[w].pc = "clear"
    BY <1>8 DEF EquipClear
  <2>3. SameGoods(w) /\ job'[w].pc = "clear"
    BY <1>0, <2>1, <2>2 DEF Jobs, SameGoods
  <2> QED BY <1>8, <2>2, <2>3 DEF BagAdd
<1> QED BY <1>3, <1>4, <1>5, <1>6, <1>7, <1>8 DEF Step, Refused, BagAdd, DropItem, Credit, StoreKeep,
           StoreFull, Fault, EquipWear, UnequipWrite

\* A request that arrives knows its item from the row it found.
LEMMA ArriveGoods ==
    ASSUME TypeInv, NEW w \in Workers, NEW c \in Chars, Arrive(w, c)
    PROVE  /\ UNCHANGED <<rows, store, nextId, gone>> /\ job[w] = NoJob
           /\ \/ /\ job'[w].pc = "load" /\ job'[w].id \in DOMAIN rows
                 /\ job'[w].name = rows[job'[w].id].name /\ UNCHANGED floor
              \/ /\ job'[w].pc = "sload" /\ job'[w].id \in DOMAIN store /\ job'[w].kind = "retrieve"
                 /\ job'[w].name = store[job'[w].id].name /\ UNCHANGED floor
              \/ job'[w].pc = "pay" /\ job'[w].kind = "buy" /\ UNCHANGED floor
              \/ job'[w].pc \in {"clear", "unwear"} /\ UNCHANGED floor
              \/ \E id \in DOMAIN floor :
                    /\ job'[w].pc = "bag" /\ job'[w].kind = "pickup"
                    /\ job'[w].name = floor[id].name /\ job'[w].amount = floor[id].amount
                    /\ floor' = Without(floor, id)
<1>0. UNCHANGED <<rows, store, nextId>> /\ job[w] = NoJob /\ JobsOK
  BY ArriveJob, TypeParts
<1>1. ASSUME NEW r, Request(w, r) PROVE job'[w] = r
  BY <1>0, <1>1 DEF Request, JobsOK
<1>2. ASSUME NEW kind, NEW b, NEW pc, NEW id, NEW n, NEW k
      PROVE  LET r == Job(kind, b, pc, id, n, k)
             IN r.kind = kind /\ r.pc = pc /\ r.id = id /\ r.name = n /\ r.amount = k
  BY DEF Job
<1>3. ASSUME NEW kind \in {"sell", "use", "drop", "store"}, NEW id, NEW k, TakeFromBag(w, kind, c, id, k)
      PROVE  /\ job'[w].pc = "load" /\ job'[w].id \in DOMAIN rows
             /\ job'[w].name = rows[job'[w].id].name /\ UNCHANGED <<gone, floor>>
  BY <1>1, <1>2, <1>3 DEF TakeFromBag, Owned
<1>4. ASSUME NEW id \in DOMAIN store, NEW k, TakeFromStore(w, c, id, k)
      PROVE  /\ job'[w].pc = "sload" /\ job'[w].id \in DOMAIN store /\ job'[w].kind = "retrieve"
             /\ job'[w].name = store[job'[w].id].name /\ UNCHANGED <<gone, floor>>
  BY <1>1, <1>2, <1>4 DEF TakeFromStore
<1>5. ASSUME NEW n, NEW k, Buy(w, c, n, k)
      PROVE  job'[w].pc = "pay" /\ job'[w].kind = "buy" /\ UNCHANGED <<gone, floor>>
  BY <1>1, <1>2, <1>5 DEF Buy
<1>6. ASSUME NEW id \in DOMAIN floor, PickupFloorItem(w, c, id)
      PROVE  /\ job'[w].pc = "bag" /\ job'[w].kind = "pickup"
             /\ job'[w].name = floor[id].name /\ job'[w].amount = floor[id].amount
             /\ floor' = Without(floor, id) /\ UNCHANGED gone
  BY <1>1, <1>2, <1>6 DEF PickupFloorItem
<1>7. ASSUME NEW id, Equip(w, c, id) PROVE job'[w].pc = "clear" /\ UNCHANGED <<gone, floor>>
  <2>1. PICK r : r = Job("equip", c, "clear", id, rows[id].name, 0) /\ r.pc = "clear"
    BY <1>2
  <2>2. PICK q : q = [Job("equip", c, "clear", id, rows[id].name, 0) EXCEPT !.others = Worn(c) \ {id}]
    OBVIOUS
  <2>3. q.pc = "clear"
    BY <2>2 DEF Job
  <2>4. Request(w, q) /\ UNCHANGED <<gone, floor>>
    BY <1>7, <2>2 DEF Equip
  <2> QED BY <1>1, <2>3, <2>4
<1>8. ASSUME NEW id, Unequip(w, c, id) PROVE job'[w].pc = "unwear" /\ UNCHANGED <<gone, floor>>
  BY <1>1, <1>2, <1>8 DEF Unequip
<1> QED BY <1>0, <1>3, <1>4, <1>5, <1>6, <1>7, <1>8 DEF Arrive

\* k units were taken from row id of r, by a Remove that had read an amount of loaded.
Taken(r, s, id, loaded, k) ==
    /\ DOMAIN s \subseteq DOMAIN r /\ DOMAIN r \ {id} \subseteq DOMAIN s
    /\ \A i \in DOMAIN s : s[i].name = r[i].name /\ (i # id => s[i].amount = r[i].amount)
    /\ id \in DOMAIN s => s[id].amount = loaded - k
    /\ id \in DOMAIN r /\ id \notin DOMAIN s => loaded = k
\* k units of n were added under the new id.
Added(r, s, id, n, k) ==
    /\ id \notin DOMAIN r /\ DOMAIN s = DOMAIN r \cup {id}
    /\ s[id].name = n /\ s[id].amount = k
    /\ \A i \in DOMAIN r : s[i].name = r[i].name /\ s[i].amount = r[i].amount
SameUnits(r, s) ==
    DOMAIN s = DOMAIN r /\ \A i \in DOMAIN r : s[i].name = r[i].name /\ s[i].amount = r[i].amount

LEMMA RemoveWriteTakes ==
    ASSUME NEW r, NEW id, NEW loaded, NEW k, \A i \in DOMAIN r : r[i] \in Row
    PROVE  Taken(r, RemoveWrite(r, id, loaded, k), id, loaded, k)
<1>1. CASE loaded = k
  <2>1. RemoveWrite(r, id, loaded, k) = [i \in DOMAIN r \ {id} |-> r[i]]
    BY <1>1 DEF RemoveWrite
  <2> QED BY <1>1, <2>1 DEF Taken
<1>2. CASE loaded # k
  <2> DEFINE n == loaded - k
  <2>1. RemoveWrite(r, id, loaded, k) =
           [i \in DOMAIN r |-> IF i = id THEN [r[i] EXCEPT !.amount = n] ELSE r[i]]
    BY <1>2 DEF RemoveWrite
  <2>2. \A i \in DOMAIN r : LET e == [r[i] EXCEPT !.amount = n] IN e.name = r[i].name /\ e.amount = n
    BY DEF Row
  <2> QED BY <2>1, <2>2 DEF Taken
<1> QED BY <1>1, <1>2

LEMMA SetEquipUnits ==
    ASSUME NEW r, NEW id \in DOMAIN r, NEW worn \in BOOLEAN, \A i \in DOMAIN r : r[i] \in Row
    PROVE  SameUnits(r, SetEquip(r, id, worn))
<1>1. PICK e : e = [r[id] EXCEPT !.equip = worn]
  OBVIOUS
<1>2. e.name = r[id].name /\ e.amount = r[id].amount
  BY <1>1 DEF Row
<1>3. SetEquip(r, id, worn) = [r EXCEPT ![id] = e]
  BY <1>1 DEF SetEquip
<1> QED BY <1>2, <1>3 DEF SameUnits

\* The bag's rows.
LEMMA RowUnits ==
    ASSUME TypeInv, NEW w \in Workers, Step(w) \/ \E c \in Chars : Arrive(w, c)
    PROVE  \/ SameUnits(rows, rows') /\ ~BagAdd(w) /\ ~BagWrite(w)
           \/ /\ BagAdd(w)
              /\ Added(rows, rows', nextId, job[w].name, job[w].amount)
           \/ /\ BagWrite(w)
              /\ Taken(rows, rows', job[w].id, job[w].loaded, job[w].amount)
<1>0. nextId \notin DOMAIN rows /\ \A j \in DOMAIN rows : rows[j] \in Row
  <2>1. nextId \in Nat /\ \A j \in DOMAIN rows : rows[j] \in Row /\ j \in Nat /\ j < nextId
    BY TypeParts, TableTypes DEF MiscOK
  <2>2. ~(nextId < nextId)
    BY <2>1
  <2> QED BY <2>1, <2>2
<1>1. CASE BagWrite(w)
  <2>1. rows' = RemoveWrite(rows, job[w].id, job[w].loaded, job[w].amount)
    BY <1>1 DEF BagWrite
  <2> QED BY <1>0, <1>1, <2>1, RemoveWriteTakes
<1>2. CASE BagAdd(w)
  <2>1. PICK e : e = [owner |-> job[w].char, name |-> job[w].name, amount |-> job[w].amount, equip |-> FALSE]
    OBVIOUS
  <2>2. rows' = [j \in DOMAIN rows \cup {nextId} |-> IF j = nextId THEN e ELSE rows[j]]
    BY <1>2, <2>1 DEF BagAdd, AddRow
  <2>3. e.name = job[w].name /\ e.amount = job[w].amount
    BY <2>1
  <2> QED BY <1>0, <1>2, <2>2, <2>3 DEF Added
<1>3. CASE ~BagWrite(w) /\ ~BagAdd(w)
  <2>1. rows' = rows \/ \E id \in DOMAIN rows, b \in BOOLEAN : rows' = SetEquip(rows, id, b)
    <3>1. CASE EquipClear(w) \/ UnequipWrite(w) \/ EquipWear(w)
      BY <3>1 DEF EquipClear, UnequipWrite, EquipWear
    <3>2. CASE \E c \in Chars : Arrive(w, c)
      BY <3>2, ArriveJob
    <3> QED BY <1>3, <3>1, <3>2 DEF Step, BagLoad, StoreLoad, StoreWrite, Pay, Refused, DropItem,
               Credit, StoreMerge, StoreKeep, StoreFull, Fault
  <2>2. SameUnits(rows, rows)
    BY DEF SameUnits
  <2> QED BY <1>0, <1>3, <2>1, <2>2, SetEquipUnits
<1> QED BY <1>1, <1>2, <1>3

\* The warehouse.
LEMMA StoreUnits ==
    ASSUME TypeInv, NEW w \in Workers, Step(w) \/ \E c \in Chars : Arrive(w, c)
    PROVE  \/ UNCHANGED store /\ ~StoreWrite(w) /\ (StoreKeep(w) => job[w].id # NoRow /\ job[w].id \notin DOMAIN store)
           \/ StoreWrite(w) /\ Taken(store, store', job[w].id, job[w].loaded, job[w].amount)
           \/ /\ StoreKeep(w) /\ job[w].id = NoRow
              /\ Added(store, store', nextId, job[w].name, job[w].loaded + job[w].amount)
           \/ /\ StoreKeep(w) /\ job[w].id # NoRow /\ job[w].id \in DOMAIN store
              /\ DOMAIN store' = DOMAIN store
              /\ store'[job[w].id].name = job[w].name
              /\ store'[job[w].id].amount = job[w].loaded + job[w].amount
              /\ \A i \in DOMAIN store \ {job[w].id} : store'[i] = store[i]
<1>0. nextId \notin DOMAIN store /\ \A j \in DOMAIN store : store[j] \in Stack
  BY StoreFinite, TableTypes
<1>1. CASE StoreWrite(w)
  <2> DEFINE n == job[w].loaded - job[w].amount
  <2>1. store' = IF job[w].loaded = job[w].amount THEN [i \in DOMAIN store \ {job[w].id} |-> store[i]]
                 ELSE [i \in DOMAIN store |-> IF i = job[w].id THEN [store[i] EXCEPT !.amount = n]
                                                               ELSE store[i]]
    BY <1>1 DEF StoreWrite, Without
  <2>2. \A i \in DOMAIN store : LET e == [store[i] EXCEPT !.amount = n]
                                IN e.name = store[i].name /\ e.amount = n
    BY <1>0 DEF Stack
  <2>3. CASE job[w].loaded = job[w].amount
    <3>1. store' = [i \in DOMAIN store \ {job[w].id} |-> store[i]]
      BY <2>1, <2>3
    <3> QED BY <1>1, <2>3, <3>1 DEF Taken
  <2>4. CASE job[w].loaded # job[w].amount
    <3>1. store' = [i \in DOMAIN store |-> IF i = job[w].id THEN [store[i] EXCEPT !.amount = n]
                                                             ELSE store[i]]
      BY <2>1, <2>4
    <3> QED BY <1>1, <2>2, <2>4, <3>1 DEF Taken
  <2> QED BY <2>3, <2>4
<1>2. CASE StoreKeep(w)
  <2>0. ~StoreWrite(w)
    BY <1>2 DEF StoreKeep, StoreWrite
  <2>1. PICK s : s = [name |-> job[w].name, amount |-> job[w].loaded + job[w].amount]
    OBVIOUS
  <2>2. s.name = job[w].name /\ s.amount = job[w].loaded + job[w].amount
    BY <2>1
  <2>3. CASE job[w].id = NoRow
    <3>1. store' = [i \in DOMAIN store \cup {nextId} |-> IF i = nextId THEN s ELSE store[i]]
      BY <1>2, <2>1, <2>3 DEF StoreKeep, Put
    <3> QED BY <1>0, <1>2, <2>2, <2>3, <3>1 DEF Added
  <2>4. CASE job[w].id # NoRow /\ job[w].id \in DOMAIN store
    <3>1. store' = [i \in DOMAIN store \cup {job[w].id} |-> IF i = job[w].id THEN s ELSE store[i]]
      BY <1>2, <2>1, <2>4 DEF StoreKeep, Put
    <3>2. DOMAIN store \cup {job[w].id} = DOMAIN store
      BY <2>4
    <3> QED BY <1>2, <2>2, <2>4, <3>1, <3>2
  <2>5. CASE job[w].id # NoRow /\ job[w].id \notin DOMAIN store
    <3>1. UNCHANGED store
      BY <1>2, <2>5 DEF StoreKeep
    <3> QED BY <2>0, <2>5, <3>1
  <2> QED BY <2>3, <2>4, <2>5
<1>3. CASE ~StoreWrite(w) /\ ~StoreKeep(w)
  <2>1. CASE \E c \in Chars : Arrive(w, c)
    BY <1>3, <2>1, ArriveJob
  <2> QED BY <1>3, <2>1 DEF Step, BagLoad, BagWrite, StoreLoad, Pay, Refused, BagAdd, DropItem, Credit,
             StoreMerge, StoreFull, Fault, EquipClear, EquipWear, UnequipWrite
<1> QED BY <1>1, <1>2, <1>3

\* Only what was bought came from the shop, and an insert adds to nothing.
PhaseInv ==
    \A w \in Workers :
        /\ job[w].pc \in {"sload", "swrite", "floor", "credit", "merge", "keep"} => job[w].kind # "buy"
        /\ job[w].pc = "pay" => job[w].kind = "buy"
        /\ job[w].pc = "keep" /\ job[w].id = NoRow => job[w].loaded = 0

\* A row has the name it had when the request was checked.
NameInv ==
    \A w \in Workers :
        /\ job[w].pc \in {"load", "write"} =>
              /\ job[w].id < nextId
              /\ job[w].id \in DOMAIN rows => rows[job[w].id].name = job[w].name
        /\ job[w].pc \in {"sload", "swrite"} =>
              /\ job[w].id < nextId /\ job[w].id # NoRow
              /\ job[w].id \in DOMAIN store => store[job[w].id].name = job[w].name

\* Until two handlers overlap on a row of a bag, the row a Remove has read is as it
\* was, and nobody else has read it.
BagInv ==
    "bag" \notin raced => \A w \in Workers : job[w].pc = "write" =>
        /\ job[w].id \in DOMAIN rows /\ rows[job[w].id].amount = job[w].loaded
        /\ \A v \in Workers : Holds(v, {"write"}, job[w].id) => v = w

\* The same for the rows of the warehouse.
Holding(w) == job[w].pc \in {"swrite", "keep"} /\ job[w].id # NoRow
WarehouseInv ==
    "store" \notin raced => \A w \in Workers : Holding(w) =>
        /\ job[w].id \in DOMAIN store /\ store[job[w].id].amount = job[w].loaded
        /\ \A v \in Workers : Holds(v, {"swrite", "keep"}, job[w].id) => v = w

LEMMA PhaseStep ==
    ASSUME TypeInv, PhaseInv, [Next]_vars
    PROVE  PhaseInv'
<1>1. CASE UNCHANGED vars
  BY <1>1 DEF PhaseInv, vars
<1>2. ASSUME NEW w \in Workers, Step(w) \/ \E c \in Chars : Arrive(w, c), NEW v \in Workers
      PROVE  /\ job'[v].pc \in {"sload", "swrite", "floor", "credit", "merge", "keep"} => job'[v].kind # "buy"
             /\ job'[v].pc = "pay" => job'[v].kind = "buy"
             /\ job'[v].pc = "keep" /\ job'[v].id = NoRow => job'[v].loaded = 0
  <2>0. (\A u \in Workers : u # w => job'[u] = job[u]) /\ JobsOK
    BY <1>2, StepJob, ArriveJob, TypeParts
  <2>1. CASE v # w
    BY <2>0, <2>1 DEF PhaseInv
  <2>2. CASE v = w /\ \E c \in Chars : Arrive(w, c)
    BY <2>2, ArriveGoods
  <2>3. CASE v = w /\ Step(w) /\ Return(w)
    <3>1. job'[w].pc = "idle"
      BY <2>0, <2>3, JobReturn DEF NoJob
    <3> QED BY <2>3, <3>1
  <2>4. CASE v = w /\ Step(w) /\ ~Return(w)
    <3>1. CASE BagWrite(w)
      <4>1. job[w].kind \in {"sell", "use", "drop", "store"}
        BY <2>0, <3>1 DEF BagWrite, JobsOK, KindInv
      <4>2. job'[w].kind = job[w].kind /\ job'[w].pc \in {"credit", "floor", "merge"}
        <5>1. Sink[job[w].kind] \in {"credit", "done", "floor", "merge"}
          BY <4>1 DEF Sink
        <5>2. ~BagLoad(w) /\ ~StoreLoad(w) /\ ~StoreWrite(w) /\ ~Pay(w) /\ ~StoreMerge(w) /\ ~EquipClear(w)
          BY <3>1 DEF BagWrite, BagLoad, StoreLoad, StoreWrite, Pay, StoreMerge, EquipClear
        <5> QED BY <2>4, <5>1, <5>2, StepGoods DEF SameGoods
      <4> QED BY <2>4, <4>1, <4>2
    <3>2. CASE ~BagWrite(w)
      <4>1. (StoreLoad(w) => job[w].pc = "sload") /\ (StoreMerge(w) => job[w].pc = "merge")
        BY DEF StoreLoad, StoreMerge
      <4>2. job'[w].kind = job[w].kind
        BY <2>4, StepGoods DEF SameGoods
      <4>3. \/ job'[w].pc \in {"write", "bag", "clear"}
            \/ StoreLoad(w) /\ job'[w].pc = "swrite"
            \/ StoreMerge(w) /\ job'[w].pc = "keep" /\ (job'[w].id = NoRow => job'[w].loaded = 0)
        BY <2>4, <3>2, StepGoods
      <4>4. job[w].pc \in {"sload", "merge"} => job[w].kind # "buy"
        BY DEF PhaseInv
      <4> QED BY <2>4, <4>1, <4>2, <4>3, <4>4
    <3> QED BY <3>1, <3>2
  <2> QED BY <1>2, <2>1, <2>2, <2>3, <2>4
<1> QED BY <1>1, <1>2 DEF Next, PhaseInv

\* Ids are not reused, and a row keeps its name.
LEMMA NamesLast ==
    ASSUME TypeInv, StackInv, NEW w \in Workers, Step(w) \/ \E c \in Chars : Arrive(w, c),
           NEW id \in Nat, id < nextId
    PROVE  /\ id < nextId'
           /\ id \in DOMAIN rows' => id \in DOMAIN rows /\ rows'[id].name = rows[id].name
           /\ id \in DOMAIN store' => id \in DOMAIN store /\ store'[id].name = store[id].name
<1>1. nextId \in Nat /\ nextId' \in Nat /\ nextId' >= nextId
  <2>1. TypeInv'
    BY TypeStep DEF Next
  <2>2. nextId \in Nat /\ nextId' \in Nat
    BY <2>1, TypeParts DEF MiscOK
  <2> QED BY <2>2, StepJob, ArriveJob
<1>2. id # nextId /\ id < nextId'
  BY <1>1
<1>3. id \in DOMAIN rows' => id \in DOMAIN rows /\ rows'[id].name = rows[id].name
  BY <1>2, RowUnits DEF SameUnits, Added, Taken
<1>4. id \in DOMAIN store' => id \in DOMAIN store /\ store'[id].name = store[id].name
  <2>1. StoreKeep(w) /\ job[w].id # NoRow /\ job[w].id \in DOMAIN store => store[job[w].id].name = job[w].name
    BY DEF StoreKeep, StackInv
  <2> QED BY <1>2, <2>1, StoreUnits DEF Added, Taken
<1> QED BY <1>2, <1>3, <1>4

LEMMA NameStep ==
    ASSUME TypeInv, StackInv, NameInv, [Next]_vars
    PROVE  NameInv'
<1>1. CASE UNCHANGED vars
  BY <1>1 DEF NameInv, vars
<1>2. ASSUME NEW w \in Workers, Step(w) \/ \E c \in Chars : Arrive(w, c), NEW v \in Workers
      PROVE  /\ job'[v].pc \in {"load", "write"} =>
                    /\ job'[v].id < nextId'
                    /\ job'[v].id \in DOMAIN rows' => rows'[job'[v].id].name = job'[v].name
             /\ job'[v].pc \in {"sload", "swrite"} =>
                    /\ job'[v].id < nextId' /\ job'[v].id # NoRow
                    /\ job'[v].id \in DOMAIN store' => store'[job'[v].id].name = job'[v].name
  <2>0. (\A u \in Workers : u # w => job'[u] = job[u]) /\ JobsOK /\ TypeInv'
    BY <1>2, StepJob, ArriveJob, TypeParts, TypeStep DEF Next
  <2>1. ASSUME job[v] # NoJob, job'[v].id = job[v].id, job'[v].name = job[v].name,
               job'[v].pc \in {"load", "write"} => job[v].pc \in {"load", "write"},
               job'[v].pc \in {"sload", "swrite"} => job[v].pc \in {"sload", "swrite"}
        PROVE  /\ job'[v].pc \in {"load", "write"} =>
                    /\ job'[v].id < nextId'
                    /\ job'[v].id \in DOMAIN rows' => rows'[job'[v].id].name = job'[v].name
               /\ job'[v].pc \in {"sload", "swrite"} =>
                    /\ job'[v].id < nextId' /\ job'[v].id # NoRow
                    /\ job'[v].id \in DOMAIN store' => store'[job'[v].id].name = job'[v].name
    <3>1. job[v].id \in Nat
      BY <2>0, <2>1, JobFields
    <3>2. job[v].pc \in {"load", "write", "sload", "swrite"} => job[v].id < nextId
      BY DEF NameInv
    <3>3. job[v].id < nextId =>
             /\ job[v].id < nextId'
             /\ job[v].id \in DOMAIN rows' => job[v].id \in DOMAIN rows /\ rows'[job[v].id].name = rows[job[v].id].name
             /\ job[v].id \in DOMAIN store' => job[v].id \in DOMAIN store /\ store'[job[v].id].name = store[job[v].id].name
      BY <1>2, <3>1, NamesLast
    <3> QED BY <2>1, <3>2, <3>3 DEF NameInv
  <2>2. CASE v # w
    <3>1. CASE job[v] = NoJob
      <4>1. job'[v].pc = "idle"
        BY <2>0, <2>2, <3>1 DEF NoJob
      <4> QED BY <4>1
    <3> QED BY <2>0, <2>1, <2>2, <3>1
  <2>3. CASE v = w /\ \E c \in Chars : Arrive(w, c)
    <3>1. UNCHANGED <<rows, store, nextId>>
      BY <2>3, ArriveGoods
    <3>2. job'[w].pc = "load" => job'[w].id \in DOMAIN rows /\ job'[w].name = rows[job'[w].id].name
      BY <2>3, ArriveGoods
    <3>3. job'[w].pc = "sload" => job'[w].id \in DOMAIN store /\ job'[w].name = store[job'[w].id].name
      BY <2>3, ArriveGoods
    <3>4. job'[w].pc \notin {"write", "swrite"}
      BY <2>3, ArriveGoods
    <3> QED BY <2>3, <3>1, <3>2, <3>3, <3>4, TableTypes DEF NoRow
  <2>4. CASE v = w /\ Step(w) /\ Return(w)
    <3>1. job'[w].pc = "idle"
      BY <2>0, <2>4, JobReturn DEF NoJob
    <3> QED BY <2>4, <3>1
  <2>5. CASE v = w /\ Step(w) /\ ~Return(w)
    <3>0. job[w] # NoJob /\ job'[w].name = job[w].name
      BY <2>5, StepIsBusy, StepGoods DEF SameGoods
    <3>1. BagWrite(w) => Sink[job[w].kind] \in {"credit", "done", "floor", "merge"}
      <4>1. BagWrite(w) => job[w].kind \in {"sell", "use", "drop", "store"}
        BY <2>0 DEF BagWrite, JobsOK, KindInv
      <4> QED BY <4>1 DEF Sink
    <3>2. (BagLoad(w) => job[w].pc = "load") /\ (StoreLoad(w) => job[w].pc = "sload")
      BY DEF BagLoad, StoreLoad
    <3>3. \/ job'[w].pc \in {"credit", "floor", "merge", "bag", "keep", "clear"}
          \/ job[w].pc = "load" /\ job'[w].pc = "write" /\ job'[w].id = job[w].id
          \/ job[w].pc = "sload" /\ job'[w].pc = "swrite" /\ job'[w].id = job[w].id
      BY <2>5, <3>1, <3>2, StepGoods
    <3> QED BY <2>1, <2>5, <3>0, <3>3
  <2> QED BY <1>2, <2>2, <2>3, <2>4, <2>5
<1> QED BY <1>1, <1>2 DEF Next, NameInv

\* Who has read the row it is going to write.
LEMMA WriteJob ==
    ASSUME TypeInv, NEW w \in Workers, Step(w) \/ \E c \in Chars : Arrive(w, c), job'[w].pc = "write"
    PROVE  BagLoad(w) /\ job'[w].id = job[w].id /\ job'[w].loaded = rows[job[w].id].amount
<1>1. CASE \E c \in Chars : Arrive(w, c)
  BY <1>1, ArriveGoods
<1>2. CASE Step(w) /\ Return(w)
  <2>1. job'[w].pc = "idle"
    BY <1>2, TypeParts, JobReturn DEF NoJob
  <2> QED BY <2>1
<1>3. CASE Step(w) /\ ~Return(w)
  <2>1. BagWrite(w) => Sink[job[w].kind] \in {"credit", "done", "floor", "merge"}
    <3>1. BagWrite(w) => job[w].kind \in {"sell", "use", "drop", "store"}
      BY TypeParts DEF BagWrite, JobsOK, KindInv
    <3> QED BY <3>1 DEF Sink
  <2> QED BY <1>3, <2>1, StepGoods
<1> QED BY <1>1, <1>2, <1>3

LEMMA BagStep ==
    ASSUME TypeInv, BagInv, [Next]_vars
    PROVE  BagInv'
<1>1. CASE UNCHANGED vars
  BY <1>1 DEF BagInv, Holds, vars
<1>2. ASSUME NEW w \in Workers, Step(w) \/ \E c \in Chars : Arrive(w, c), "bag" \notin raced',
             NEW v \in Workers, job'[v].pc = "write"
      PROVE  /\ job'[v].id \in DOMAIN rows' /\ rows'[job'[v].id].amount = job'[v].loaded
             /\ \A u \in Workers : job'[u].pc = "write" /\ job'[u].id = job'[v].id => u = v
  <2>0. (\A u \in Workers : u # w => job'[u] = job[u]) /\ "bag" \notin raced
    BY <1>2, StepJob, ArriveJob
  <2>1. job'[w].pc = "write" => /\ BagLoad(w) /\ job'[w].id = job[w].id
                                /\ job'[w].loaded = rows[job[w].id].amount
    BY <1>2, WriteJob
  <2>2. BagLoad(w) => /\ UNCHANGED rows /\ job[w].id \in DOMAIN rows
                      /\ \A u \in Workers : ~Holds(u, {"write"}, job[w].id)
    BY <1>2 DEF BagLoad, RemoveOk, Race
  <2>3. CASE v = w
    BY <1>2, <2>0, <2>1, <2>2, <2>3 DEF Holds
  <2>4. CASE v # w
    <3>1. job'[v] = job[v] /\ job[v].pc = "write"
      BY <1>2, <2>0, <2>4
    <3>2. /\ job[v].id \in DOMAIN rows /\ rows[job[v].id].amount = job[v].loaded
          /\ \A u \in Workers : Holds(u, {"write"}, job[v].id) => u = v
      BY <2>0, <3>1 DEF BagInv
    <3>3. job[v].id \in DOMAIN rows' /\ rows'[job[v].id].amount = rows[job[v].id].amount
      <4>1. BagWrite(w) => job[w].id # job[v].id
        BY <2>4, <3>2 DEF BagWrite, Holds
      <4> QED BY <1>2, <3>2, <4>1, RowUnits DEF SameUnits, Added, Taken
    <3>4. ~(job'[w].pc = "write" /\ job'[w].id = job[v].id)
      BY <2>1, <2>2, <3>1 DEF Holds
    <3> QED BY <2>0, <3>1, <3>2, <3>3, <3>4 DEF Holds
  <2> QED BY <2>3, <2>4
<1> QED BY <1>1, <1>2 DEF Next, BagInv, Holds

LEMMA WarehouseStep ==
    ASSUME TypeInv, NameInv, WarehouseInv, [Next]_vars
    PROVE  WarehouseInv'
<1>1. CASE UNCHANGED vars
  BY <1>1 DEF WarehouseInv, Holds, Holding, vars
<1>2. ASSUME NEW w \in Workers, Step(w) \/ \E c \in Chars : Arrive(w, c), "store" \notin raced',
             NEW v \in Workers, Holding(v)'
      PROVE  /\ job'[v].id \in DOMAIN store' /\ store'[job'[v].id].amount = job'[v].loaded
             /\ \A u \in Workers : job'[u].pc \in {"swrite", "keep"} /\ job'[u].id = job'[v].id => u = v
  <2>0. (\A u \in Workers : u # w => job'[u] = job[u]) /\ "store" \notin raced
    BY <1>2, StepJob, ArriveJob
  <2>1. job'[w].pc \in {"swrite", "keep"} =>
           \/ StoreLoad(w) /\ job'[w].id = job[w].id /\ job'[w].loaded = store[job[w].id].amount
           \/ /\ StoreMerge(w) /\ job'[w].id = StackOf(job[w].name)
              /\ job'[w].id # NoRow => job'[w].loaded = store[job'[w].id].amount
    <3>1. CASE \E c \in Chars : Arrive(w, c)
      BY <3>1, ArriveGoods
    <3>2. CASE Step(w) /\ Return(w)
      <4>1. job'[w].pc = "idle"
        BY <3>2, TypeParts, JobReturn DEF NoJob
      <4> QED BY <4>1
    <3>3. CASE Step(w) /\ ~Return(w)
      <4>1. BagWrite(w) => Sink[job[w].kind] \in {"credit", "done", "floor", "merge"}
        <5>1. BagWrite(w) => job[w].kind \in {"sell", "use", "drop", "store"}
          BY TypeParts DEF BagWrite, JobsOK, KindInv
        <5> QED BY <5>1 DEF Sink
      <4> QED BY <3>3, <4>1, StepGoods
    <3> QED BY <1>2, <3>1, <3>2, <3>3
  <2>2. /\ StoreLoad(w) => UNCHANGED store /\ job[w].id \in DOMAIN store
        /\ StoreMerge(w) => UNCHANGED store
    BY DEF StoreLoad, StoreMerge
  <2>3. job'[w].pc \in {"swrite", "keep"} /\ job'[w].id # NoRow =>
            \A u \in Workers : ~Holds(u, {"swrite", "keep"}, job'[w].id)
    BY <1>2, <2>1 DEF StoreLoad, StoreMerge, Race
  <2>4. StackOf(job[w].name) # NoRow => StackOf(job[w].name) \in DOMAIN store
    BY StackIdType
  <2>5. CASE v = w
    <3>1. job'[w].id \in DOMAIN store' /\ store'[job'[w].id].amount = job'[w].loaded
      BY <1>2, <2>1, <2>2, <2>4, <2>5 DEF Holding
    <3> QED BY <1>2, <2>0, <2>3, <2>5, <3>1 DEF Holds, Holding
  <2>6. CASE v # w
    <3>1. job'[v] = job[v] /\ Holding(v) /\ job[v].id # NoRow
      BY <1>2, <2>0, <2>6 DEF Holding
    <3>2. /\ job[v].id \in DOMAIN store /\ store[job[v].id].amount = job[v].loaded
          /\ \A u \in Workers : Holds(u, {"swrite", "keep"}, job[v].id) => u = v
      BY <2>0, <3>1 DEF WarehouseInv
    <3>3. job[v].id \in DOMAIN store' /\ store'[job[v].id].amount = store[job[v].id].amount
      <4>1. StoreWrite(w) \/ StoreKeep(w) => job[w].id # job[v].id
        BY <2>6, <3>2 DEF StoreWrite, StoreKeep, Holds
      <4> QED BY <1>2, <3>2, <4>1, StoreUnits DEF Added, Taken
    <3>4. ~(job'[w].pc \in {"swrite", "keep"} /\ job'[w].id = job[v].id)
      <4> SUFFICES ASSUME job'[w].pc \in {"swrite", "keep"}, job'[w].id = job[v].id PROVE FALSE
        OBVIOUS
      <4>2. ~Holds(v, {"swrite", "keep"}, job[v].id)
        BY <2>3, <3>1
      <4> QED BY <3>1, <4>2 DEF Holds, Holding
    <3> QED BY <2>0, <3>1, <3>2, <3>3, <3>4 DEF Holds
  <2> QED BY <2>5, <2>6
<1> QED BY <1>1, <1>2 DEF Next, WarehouseInv, Holding, Holds

\* Units of n in w's request.
Asked(w, n) == IF job[w].name = n THEN job[w].amount ELSE 0
Hands(n) == SumOver([w \in Workers |-> Carries(w, n)], Workers)
\* What there is outside the bags.
Rest(n) == Units(store, n) + Units(floor, n) + gone[n] + Hands(n)

LEMMA TablesFinite ==
    ASSUME TypeInv
    PROVE  /\ IsFiniteSet(DOMAIN rows) /\ IsFiniteSet(DOMAIN store) /\ IsFiniteSet(DOMAIN floor)
           /\ \A i \in DOMAIN rows : rows[i].amount \in Nat
           /\ \A i \in DOMAIN store : store[i].amount \in Nat
           /\ \A i \in DOMAIN floor : floor[i].amount \in Nat
<1>1. /\ nextId \in Nat /\ DOMAIN rows \subseteq 1 .. nextId - 1
      /\ DOMAIN store \subseteq 1 .. nextId - 1 /\ DOMAIN floor \subseteq 1 .. nextId - 1
  BY TypeParts DEF MiscOK, TablesOK, IsTable
<1>2. IsFiniteSet(1 .. nextId - 1)
  BY <1>1, FS_Interval
<1> QED BY <1>1, <1>2, FS_Subset, TableTypes DEF Row, Stack

LEMMA CarriesType ==
    ASSUME TypeInv, NEW w \in Workers, NEW n
    PROVE  /\ Carries(w, n) \in Nat
           /\ job[w] # NoJob => Asked(w, n) \in Nat
           /\ job[w] = NoJob => Carries(w, n) = 0
<1>1. CASE job[w] = NoJob
  BY <1>1 DEF NoJob, Carries
<1>2. CASE job[w] # NoJob
  <2>1. job[w].amount \in Nat
    BY <1>2, TypeParts, JobFields
  <2> QED BY <1>2, <2>1 DEF Carries, Asked
<1> QED BY <1>1, <1>2

LEMMA HandsShift ==
    ASSUME TypeInv, TypeInv', NEW w \in Workers, \A v \in Workers : v # w => job'[v] = job[v], NEW n
    PROVE  /\ Hands(n) \in Int /\ Hands(n)' \in Int
           /\ Hands(n)' = Hands(n) - Carries(w, n) + Carries(w, n)'
           /\ Carries(w, n) \in Nat /\ Carries(w, n)' \in Nat
<1>1. PICK f : f = [v \in Workers |-> Carries(v, n)]
  OBVIOUS
<1>2. PICK g : g = [v \in Workers |-> Carries(v, n)']
  OBVIOUS
<1>3. \A v \in Workers : Carries(v, n) \in Nat
  BY CarriesType
<1>4. \A v \in Workers : Carries(v, n)' \in Nat
  <2> TAKE v \in Workers
  <2>1. CASE job'[v] = NoJob
    BY <2>1 DEF NoJob, Carries
  <2>2. CASE job'[v] # NoJob
    <3>1. job'[v] \in Jobs
      BY <2>2, TypeParts DEF JobsOK
    <3> QED BY <3>1 DEF Carries, Jobs
  <2> QED BY <2>1, <2>2
<1>5. \A v \in Workers \ {w} : Carries(v, n)' = Carries(v, n)
  BY DEF Carries
<1>6. \A v \in Workers : f[v] \in Int /\ g[v] \in Int
  BY <1>1, <1>2, <1>3, <1>4
<1>7. \A v \in Workers \ {w} : g[v] = f[v]
  BY <1>1, <1>2, <1>5
<1>8. IsFiniteSet(Workers)
  BY GoodsWorkers
<1>9. SumOver(g, Workers) = SumOver(f, Workers) - f[w] + g[w]
  BY <1>6, <1>7, <1>8, SumUpdate
<1>10. SumOver(g, Workers) \in Int /\ SumOver(f, Workers) \in Int
  BY <1>6, <1>8, SumType
<1>11. Hands(n) = SumOver(f, Workers) /\ Hands(n)' = SumOver(g, Workers)
  BY <1>1, <1>2 DEF Hands
<1> QED BY <1>1, <1>2, <1>3, <1>4, <1>9, <1>10, <1>11

\* The warehouse, by its repository's writes.
LEMMA StoreShift ==
    ASSUME TypeInv, TypeInv', PhaseInv, NameInv, StackInv, WarehouseInv, "store" \notin raced,
           NEW w \in Workers, Step(w) \/ \E c \in Chars : Arrive(w, c), NEW n
    PROVE  /\ Units(store, n) \in Int /\ Units(store, n)' \in Int
           /\ Units(store, n)' = Units(store, n) + IF StoreWrite(w) THEN -Asked(w, n)
                                                   ELSE IF StoreKeep(w) THEN Asked(w, n) ELSE 0
<1>1. /\ IsFiniteSet(DOMAIN store) /\ \A i \in DOMAIN store : store[i].amount \in Int
      /\ IsFiniteSet(DOMAIN store') /\ \A i \in DOMAIN store' : store'[i].amount \in Int
  <2>1. IsFiniteSet(DOMAIN store) /\ \A i \in DOMAIN store : store[i].amount \in Nat
    BY TablesFinite
  <2>2. IsFiniteSet(DOMAIN store') /\ \A i \in DOMAIN store' : store'[i].amount \in Nat
    <3>1. /\ nextId' \in Nat /\ DOMAIN store' \subseteq 1 .. nextId' - 1
          /\ \A i \in DOMAIN store' : store'[i] \in Stack
      BY TypeParts DEF MiscOK, TablesOK, IsTable
    <3>2. IsFiniteSet(1 .. nextId' - 1)
      BY <3>1, FS_Interval
    <3> QED BY <3>1, <3>2, FS_Subset DEF Stack
  <2> QED BY <2>1, <2>2
<1> DEFINE P(id) == Part(store, DOMAIN store, n, id)
           Q(id) == Part(store', DOMAIN store', n, id)
<1>2. ASSUME NEW id, DOMAIN store' \ {id} = DOMAIN store \ {id},
             \A i \in DOMAIN store \ {id} : store'[i].name = store[i].name /\ store'[i].amount = store[i].amount
      PROVE  /\ UnitsIn(store, DOMAIN store, n) \in Int /\ UnitsIn(store', DOMAIN store', n) \in Int
             /\ UnitsIn(store', DOMAIN store', n) = UnitsIn(store, DOMAIN store, n) - P(id) + Q(id)
  <2>1. /\ UnitsIn(store, DOMAIN store, n) \in Int
        /\ UnitsIn(store', DOMAIN store', n) \in Int
    BY <1>1, <1>2, UnitsShift
  <2>2. UnitsIn(store', DOMAIN store', n) = UnitsIn(store, DOMAIN store, n) - P(id) + Q(id)
    BY <1>1, <1>2, UnitsShift
  <2> QED BY <2>1, <2>2
<1>3. Units(store, n) = UnitsIn(store, DOMAIN store, n) /\ Units(store, n)' = UnitsIn(store', DOMAIN store', n)
  BY DEF Units
<1>4. CASE UNCHANGED store /\ ~StoreWrite(w) /\ ~StoreKeep(w)
  <2>1. UnitsIn(store, DOMAIN store, n) \in Int
    BY <1>2, <1>4
  <2> QED BY <1>3, <1>4, <2>1
<1>5. CASE StoreWrite(w)
  <2>0. /\ job[w].pc = "swrite" /\ ~StoreKeep(w) /\ Holding(w)
        /\ job[w].id \in DOMAIN store => store[job[w].id].name = job[w].name
    BY <1>5 DEF StoreWrite, StoreKeep, Holding, NameInv
  <2>1. /\ job[w].id \in DOMAIN store /\ store[job[w].id].amount = job[w].loaded
        /\ store[job[w].id].name = job[w].name
    BY <2>0 DEF WarehouseInv
  <2>2. Taken(store, store', job[w].id, job[w].loaded, job[w].amount)
    BY <1>5, <2>0, StoreUnits
  <2>3. job[w].amount \in Nat /\ job[w].loaded \in Nat
    <3>1. job[w] # NoJob
      BY <2>0 DEF NoJob
    <3> QED BY <3>1, TypeParts, JobFields
  <2>4. /\ UnitsIn(store, DOMAIN store, n) \in Int /\ UnitsIn(store', DOMAIN store', n) \in Int
        /\ UnitsIn(store', DOMAIN store', n) = UnitsIn(store, DOMAIN store, n) - P(job[w].id) + Q(job[w].id)
    BY <1>2, <2>2 DEF Taken
  <2>5. P(job[w].id) = IF job[w].name = n THEN job[w].loaded ELSE 0
    BY <2>1 DEF Part
  <2>6. Q(job[w].id) = IF job[w].name = n THEN job[w].loaded - job[w].amount ELSE 0
    <3>1. CASE job[w].id \in DOMAIN store'
      BY <2>1, <2>2, <3>1 DEF Part, Taken
    <3>2. CASE job[w].id \notin DOMAIN store'
      BY <2>1, <2>2, <2>3, <3>2 DEF Part, Taken
    <3> QED BY <3>1, <3>2
  <2> HIDE DEF P, Q
  <2> QED BY <1>3, <1>5, <2>3, <2>4, <2>5, <2>6 DEF Asked
<1>6. CASE StoreKeep(w)
  <2>0. job[w].pc = "keep" /\ ~StoreWrite(w)
    BY <1>6 DEF StoreWrite, StoreKeep
  <2>1. job[w].id # NoRow => /\ job[w].id \in DOMAIN store /\ store[job[w].id].amount = job[w].loaded
                             /\ store[job[w].id].name = job[w].name
    BY <2>0 DEF WarehouseInv, StackInv, Holding
  <2>2. job[w].amount \in Nat /\ job[w].loaded \in Nat
    <3>1. job[w] # NoJob
      BY <2>0 DEF NoJob
    <3> QED BY <3>1, TypeParts, JobFields
  <2>3. CASE job[w].id = NoRow
    <3>1. Added(store, store', nextId, job[w].name, job[w].loaded + job[w].amount) /\ job[w].loaded = 0
      BY <1>6, <2>0, <2>3, StoreUnits DEF PhaseInv
    <3>2. /\ UnitsIn(store, DOMAIN store, n) \in Int /\ UnitsIn(store', DOMAIN store', n) \in Int
          /\ UnitsIn(store', DOMAIN store', n) = UnitsIn(store, DOMAIN store, n) - P(nextId) + Q(nextId)
      BY <1>2, <3>1 DEF Added
    <3>3. P(nextId) = 0 /\ Q(nextId) = IF job[w].name = n THEN job[w].amount ELSE 0
      BY <2>2, <3>1 DEF Added, Part
    <3> HIDE DEF P, Q
    <3> QED BY <1>3, <1>6, <2>0, <2>2, <3>2, <3>3 DEF Asked
  <2>4. CASE job[w].id # NoRow
    <3>1. /\ DOMAIN store' = DOMAIN store /\ store'[job[w].id].name = job[w].name
          /\ store'[job[w].id].amount = job[w].loaded + job[w].amount
          /\ \A i \in DOMAIN store \ {job[w].id} : store'[i] = store[i]
      BY <1>6, <2>0, <2>1, <2>4, StoreUnits
    <3>2. /\ UnitsIn(store, DOMAIN store, n) \in Int /\ UnitsIn(store', DOMAIN store', n) \in Int
          /\ UnitsIn(store', DOMAIN store', n) = UnitsIn(store, DOMAIN store, n) - P(job[w].id) + Q(job[w].id)
      BY <1>2, <3>1
    <3>3. /\ P(job[w].id) = IF job[w].name = n THEN job[w].loaded ELSE 0
          /\ Q(job[w].id) = IF job[w].name = n THEN job[w].loaded + job[w].amount ELSE 0
      BY <2>1, <2>4, <3>1 DEF Part
    <3> HIDE DEF P, Q
    <3> QED BY <1>3, <1>6, <2>0, <2>2, <3>2, <3>3 DEF Asked
  <2> QED BY <2>3, <2>4
<1> QED BY <1>4, <1>5, <1>6, StoreUnits

\* The floor.
LEMMA FloorShift ==
    ASSUME TypeInv, TypeInv', PhaseInv, NEW w \in Workers, Step(w) \/ \E c \in Chars : Arrive(w, c), NEW n
    PROVE  /\ Units(floor, n) \in Int /\ Units(floor, n)' \in Int
           /\ Step(w) => Units(floor, n)' = Units(floor, n) + IF DropItem(w) THEN Asked(w, n) ELSE 0
           /\ ~Step(w) => Units(floor, n)' = Units(floor, n) - Carries(w, n)'
<1>1. /\ IsFiniteSet(DOMAIN floor) /\ \A i \in DOMAIN floor : floor[i].amount \in Int
      /\ IsFiniteSet(DOMAIN floor') /\ \A i \in DOMAIN floor' : floor'[i].amount \in Int
  <2>1. IsFiniteSet(DOMAIN floor) /\ \A i \in DOMAIN floor : floor[i].amount \in Nat
    BY TablesFinite
  <2>2. IsFiniteSet(DOMAIN floor') /\ \A i \in DOMAIN floor' : floor'[i].amount \in Nat
    <3>1. /\ nextId' \in Nat /\ DOMAIN floor' \subseteq 1 .. nextId' - 1
          /\ \A i \in DOMAIN floor' : floor'[i] \in Stack
      BY TypeParts DEF MiscOK, TablesOK, IsTable
    <3>2. IsFiniteSet(1 .. nextId' - 1)
      BY <3>1, FS_Interval
    <3> QED BY <3>1, <3>2, FS_Subset DEF Stack
  <2> QED BY <2>1, <2>2
<1>2. ASSUME NEW id, DOMAIN floor' \ {id} = DOMAIN floor \ {id},
             \A i \in DOMAIN floor \ {id} : floor'[i].name = floor[i].name /\ floor'[i].amount = floor[i].amount
      PROVE  /\ UnitsIn(floor, DOMAIN floor, n) \in Int /\ UnitsIn(floor', DOMAIN floor', n) \in Int
             /\ UnitsIn(floor', DOMAIN floor', n) = UnitsIn(floor, DOMAIN floor, n)
                   - Part(floor, DOMAIN floor, n, id) + Part(floor', DOMAIN floor', n, id)
  <2>1. /\ UnitsIn(floor, DOMAIN floor, n) \in Int
        /\ UnitsIn(floor', DOMAIN floor', n) \in Int
    BY <1>1, <1>2, UnitsShift
  <2>2. UnitsIn(floor', DOMAIN floor', n) = UnitsIn(floor, DOMAIN floor, n)
                   - Part(floor, DOMAIN floor, n, id) + Part(floor', DOMAIN floor', n, id)
    BY <1>1, <1>2, UnitsShift
  <2> QED BY <2>1, <2>2
<1>3. Units(floor, n) = UnitsIn(floor, DOMAIN floor, n) /\ Units(floor, n)' = UnitsIn(floor', DOMAIN floor', n)
  BY DEF Units
<1>4. UNCHANGED floor => /\ Units(floor, n) \in Int /\ Units(floor, n)' \in Int
                         /\ Units(floor, n)' = Units(floor, n)
  <2>1. UNCHANGED floor => UnitsIn(floor, DOMAIN floor, n) \in Int
    BY <1>2
  <2> QED BY <1>3, <2>1
<1>5. CASE Step(w) /\ ~DropItem(w)
  <2>1. UNCHANGED floor
    BY <1>5 DEF Step, BagLoad, BagWrite, StoreLoad, StoreWrite, Pay, Refused, BagAdd, Credit, StoreMerge,
                StoreKeep, StoreFull, Fault, EquipClear, EquipWear, UnequipWrite
  <2> QED BY <1>4, <1>5, <2>1
<1>6. CASE Step(w) /\ DropItem(w)
  <2>1. nextId \notin DOMAIN floor
    <3>1. nextId \in Nat /\ \A i \in DOMAIN floor : i \in Nat /\ i < nextId
      BY TypeParts, TableTypes DEF MiscOK
    <3> QED BY <3>1
  <2>2. PICK s : s = [name |-> job[w].name, amount |-> job[w].amount]
    OBVIOUS
  <2>3. s.name = job[w].name /\ s.amount = job[w].amount
    BY <2>2
  <2>4. floor' = [i \in DOMAIN floor \cup {nextId} |-> IF i = nextId THEN s ELSE floor[i]]
    BY <1>6, <2>2 DEF DropItem, Put
  <2>5. /\ UnitsIn(floor, DOMAIN floor, n) \in Int /\ UnitsIn(floor', DOMAIN floor', n) \in Int
        /\ UnitsIn(floor', DOMAIN floor', n) = UnitsIn(floor, DOMAIN floor, n)
              - Part(floor, DOMAIN floor, n, nextId) + Part(floor', DOMAIN floor', n, nextId)
    BY <1>2, <2>1, <2>4
  <2>6. Part(floor, DOMAIN floor, n, nextId) = 0
    BY <2>1 DEF Part
  <2>7. Part(floor', DOMAIN floor', n, nextId) = Asked(w, n)
    BY <2>3, <2>4 DEF Part, Asked
  <2>8. Asked(w, n) \in Nat
    BY <1>6, StepIsBusy, CarriesType
  <2> QED BY <1>3, <1>6, <2>5, <2>6, <2>7, <2>8
<1>7. CASE \E c \in Chars : Arrive(w, c)
  <2>1. job[w] = NoJob /\ ~Step(w)
    BY <1>7, ArriveGoods, StepIsBusy
  <2>2. CASE UNCHANGED floor /\ job'[w].pc \in {"load", "sload", "pay", "clear", "unwear"}
    <3>1. Carries(w, n)' = 0
      BY <2>2 DEF Carries
    <3> QED BY <1>4, <2>1, <2>2, <3>1
  <2>3. ASSUME NEW id \in DOMAIN floor, job'[w].pc = "bag", job'[w].kind = "pickup",
               job'[w].name = floor[id].name, job'[w].amount = floor[id].amount, floor' = Without(floor, id)
        PROVE  /\ Units(floor, n) \in Int /\ Units(floor, n)' \in Int
               /\ Units(floor, n)' = Units(floor, n) - Carries(w, n)'
    <3>1. floor' = [i \in DOMAIN floor \ {id} |-> floor[i]]
      BY <2>3 DEF Without
    <3>2. /\ UnitsIn(floor, DOMAIN floor, n) \in Int /\ UnitsIn(floor', DOMAIN floor', n) \in Int
          /\ UnitsIn(floor', DOMAIN floor', n) = UnitsIn(floor, DOMAIN floor, n)
                - Part(floor, DOMAIN floor, n, id) + Part(floor', DOMAIN floor', n, id)
      BY <1>2, <3>1
    <3>3. Part(floor', DOMAIN floor', n, id) = 0
      BY <3>1 DEF Part
    <3>4. Part(floor, DOMAIN floor, n, id) = Carries(w, n)'
      BY <2>3 DEF Part, Carries
    <3>5. Part(floor, DOMAIN floor, n, id) \in Int
      BY <1>1, <2>3 DEF Part
    <3> QED BY <1>3, <3>2, <3>3, <3>4, <3>5
  <2> QED BY <1>7, <2>1, <2>2, <2>3, ArriveGoods
<1> QED BY <1>5, <1>6, <1>7

\* What a handler takes up and puts down.
LEMMA CarriesShift ==
    ASSUME TypeInv, TypeInv', PhaseInv, NEW w \in Workers, Step(w), NEW n \in Names
    PROVE  /\ gone[n] \in Int /\ gone'[n] \in Int
           /\ gone'[n] + Carries(w, n)' = gone[n] + Carries(w, n)
                + IF StoreWrite(w) \/ BagWrite(w) THEN Asked(w, n)
                  ELSE IF StoreKeep(w) \/ DropItem(w) \/ BagAdd(w) THEN -Asked(w, n) ELSE 0
<1>0. /\ JobsOK /\ job[w] # NoJob /\ gone \in [Names -> Int] /\ gone' \in [Names -> Int]
      /\ Carries(w, n) \in Nat /\ Asked(w, n) \in Nat
  BY TypeParts, StepIsBusy, CarriesType DEF MiscOK
<1>1. job[w].name \in Names /\ job[w].amount \in Nat /\ gone[n] \in Int /\ gone'[n] \in Int
  BY <1>0, JobFields
<1>2. ASSUME Leaves(w, 0) \/ UNCHANGED gone PROVE gone'[n] = gone[n]
  BY <1>0, <1>1, <1>2 DEF Leaves
<1>3. Leaves(w, job[w].amount) => gone'[n] = gone[n] + Asked(w, n)
  BY <1>0, <1>1 DEF Leaves, Asked
<1>4. Leaves(w, -job[w].amount) => gone'[n] = gone[n] - Asked(w, n)
  BY <1>0, <1>1 DEF Leaves, Asked
<1>5. Return(w) => Carries(w, n)' = 0
  <2>1. Return(w) => job'[w].pc = "idle"
    BY <1>0, JobReturn DEF NoJob
  <2> QED BY <2>1 DEF Carries
<1>6. CASE BagWrite(w)
  <2>1. job[w].kind \in {"sell", "use", "drop", "store"} /\ job[w].pc = "write"
    BY <1>0, <1>6 DEF BagWrite, JobsOK, KindInv
  <2>2. Carries(w, n) = 0
    BY <2>1 DEF Carries
  <2>3. CASE job[w].kind \in {"sell", "use"}
    <3>1. gone'[n] = gone[n] + Asked(w, n)
      BY <1>3, <1>6, <2>3 DEF BagWrite
    <3>2. Return(w) \/ job'[w].pc = "credit"
      <4>1. Sink[job[w].kind] \in {"done", "credit"}
        BY <2>3 DEF Sink
      <4>2. Sink[job[w].kind] = "credit" => Goto(w, "credit")
        BY <1>6 DEF BagWrite, Then
      <4>3. Goto(w, "credit") => job'[w].pc = "credit"
        <5>1. job[w] \in Jobs /\ job \in [Workers -> Jobs \cup {NoJob}]
          BY <1>0, JobFields DEF JobsOK
        <5> QED BY <5>1 DEF Goto, Jobs
      <4>4. Sink[job[w].kind] = "done" => Return(w)
        BY <1>6 DEF BagWrite, Then
      <4> QED BY <4>1, <4>2, <4>3, <4>4
    <3>3. Carries(w, n)' = 0
      BY <1>5, <3>2 DEF Carries
    <3> QED BY <1>0, <1>1, <1>6, <2>2, <3>1, <3>3
  <2>4. CASE job[w].kind \in {"drop", "store"}
    <3>1. gone'[n] = gone[n]
      BY <1>2, <1>6, <2>4 DEF BagWrite
    <3>2. Goto(w, Sink[job[w].kind]) /\ Sink[job[w].kind] \in {"floor", "merge"}
      BY <1>6, <2>4 DEF BagWrite, Then, Sink
    <3>3. job'[w].pc \in {"floor", "merge"} /\ SameGoods(w)
      <4>1. job[w] \in Jobs /\ job \in [Workers -> Jobs \cup {NoJob}]
        BY <1>0, JobFields DEF JobsOK
      <4> QED BY <3>2, <4>1 DEF Goto, Jobs, SameGoods
    <3>4. Carries(w, n)' = Asked(w, n)
      BY <2>4, <3>3 DEF SameGoods, Carries, Asked
    <3> QED BY <1>0, <1>1, <1>6, <2>2, <3>1, <3>4
  <2> QED BY <2>1, <2>3, <2>4
<1>7. CASE StoreWrite(w) \/ Pay(w)
  <2>1. /\ UNCHANGED gone /\ Goto(w, "bag") /\ job[w].pc \in {"swrite", "pay"} /\ ~BagWrite(w)
        /\ ~StoreKeep(w) /\ ~DropItem(w) /\ ~BagAdd(w)
        /\ StoreWrite(w) <=> job[w].pc = "swrite"
    BY <1>7 DEF StoreWrite, Pay, BagWrite, StoreKeep, DropItem, BagAdd
  <2>2. job'[w].pc = "bag" /\ SameGoods(w)
    <3>1. job[w] \in Jobs /\ job \in [Workers -> Jobs \cup {NoJob}]
      BY <1>0, JobFields DEF JobsOK
    <3> QED BY <2>1, <3>1 DEF Goto, Jobs, SameGoods
  <2>3. Carries(w, n) = 0
    BY <2>1 DEF Carries
  <2>4. Carries(w, n)' = IF job[w].pc = "swrite" THEN Asked(w, n) ELSE 0
    BY <2>1, <2>2 DEF SameGoods, Carries, Asked, PhaseInv
  <2> QED BY <1>0, <1>1, <1>2, <2>1, <2>3, <2>4
<1>8. CASE StoreKeep(w) \/ DropItem(w)
  <2>1. UNCHANGED gone /\ Return(w) /\ job[w].pc \in {"keep", "floor"} /\ ~BagWrite(w) /\ ~StoreWrite(w)
    BY <1>8 DEF StoreWrite, BagWrite, StoreKeep, DropItem
  <2>2. Carries(w, n) = Asked(w, n)
    BY <2>1 DEF Carries, Asked, PhaseInv
  <2> QED BY <1>0, <1>1, <1>2, <1>5, <1>8, <2>1, <2>2
<1>9. CASE BagAdd(w)
  <2>1. /\ Return(w) /\ job[w].pc = "bag" /\ ~BagWrite(w) /\ ~StoreWrite(w)
        /\ IF job[w].kind = "buy" THEN Leaves(w, -job[w].amount) ELSE UNCHANGED gone
    BY <1>9 DEF StoreWrite, BagWrite, BagAdd
  <2>2. Carries(w, n) = IF job[w].kind = "buy" THEN 0 ELSE Asked(w, n)
    BY <2>1 DEF Carries, Asked
  <2> QED BY <1>0, <1>1, <1>2, <1>4, <1>5, <1>9, <2>1, <2>2
<1>10. CASE StoreFull(w)
  <2>1. /\ Return(w) /\ job[w].pc = "merge" /\ Leaves(w, job[w].amount) /\ ~BagWrite(w) /\ ~StoreWrite(w)
        /\ ~StoreKeep(w) /\ ~DropItem(w) /\ ~BagAdd(w)
    BY <1>10 DEF StoreFull, StoreWrite, BagWrite, StoreKeep, DropItem, BagAdd
  <2>2. Carries(w, n) = Asked(w, n)
    BY <2>1 DEF Carries, Asked, PhaseInv
  <2> QED BY <1>0, <1>1, <1>3, <1>5, <2>1, <2>2
<1>11. CASE Fault(w) /\ ~BagWrite(w) /\ ~StoreWrite(w) /\ ~StoreKeep(w) /\ ~DropItem(w) /\ ~BagAdd(w)
  <2>1. Return(w) /\ Leaves(w, Carries(w, job[w].name))
    BY <1>11 DEF Fault
  <2>2. gone'[n] = gone[n] + Carries(w, n)
    <3>1. Carries(w, job[w].name) \in Nat /\ (n # job[w].name => Carries(w, n) = 0)
      BY <1>1 DEF Carries
    <3> QED BY <1>0, <1>1, <2>1, <3>1 DEF Leaves
  <2> QED BY <1>0, <1>1, <1>5, <1>11, <2>1, <2>2
<1>12. CASE /\ BagLoad(w) \/ StoreLoad(w) \/ Refused(w) \/ Credit(w) \/ EquipClear(w) \/ EquipWear(w) \/ UnequipWrite(w)
            /\ ~BagWrite(w) /\ ~StoreWrite(w) /\ ~StoreKeep(w) /\ ~DropItem(w) /\ ~BagAdd(w)
  <2>1. UNCHANGED gone /\ job[w].pc \in {"load", "sload", "pay", "credit", "clear", "unwear"}
    BY <1>12 DEF BagLoad, StoreLoad, Refused, Credit, EquipClear, EquipWear, UnequipWrite
  <2>2. Carries(w, n) = 0
    BY <2>1 DEF Carries
  <2>3. Carries(w, n)' = 0
    <3>1. CASE Return(w)
      BY <1>5, <3>1
    <3>2. CASE ~Return(w)
      <4>1. ~Pay(w) /\ ~StoreMerge(w)
        BY <1>12, <3>2 DEF BagLoad, StoreLoad, Refused, Credit, EquipClear, EquipWear, UnequipWrite, Pay, StoreMerge, Return
      <4>2. job'[w].pc \in {"write", "swrite", "clear"}
        BY <1>12, <3>2, <4>1, StepGoods
      <4> QED BY <4>2 DEF Carries
    <3> QED BY <3>1, <3>2
  <2> QED BY <1>0, <1>1, <1>2, <1>12, <2>1, <2>2, <2>3
<1>13. CASE StoreMerge(w)
  <2>1. /\ UNCHANGED gone /\ job[w].pc = "merge" /\ ~BagWrite(w) /\ ~StoreWrite(w)
        /\ ~StoreKeep(w) /\ ~DropItem(w) /\ ~BagAdd(w)
    BY <1>13 DEF StoreMerge, StoreWrite, BagWrite, StoreKeep, DropItem, BagAdd
  <2>2. job'[w].pc = "keep" /\ SameGoods(w)
    <3>1. PICK id, k : job' = [job EXCEPT ![w].pc = "keep", ![w].id = id, ![w].loaded = k]
      BY <1>13 DEF StoreMerge
    <3>2. job[w] \in Jobs /\ job \in [Workers -> Jobs \cup {NoJob}]
      BY <1>0, JobFields DEF JobsOK
    <3> QED BY <3>1, <3>2 DEF Jobs, SameGoods
  <2>3. Carries(w, n)' = Carries(w, n)
    BY <2>1, <2>2 DEF Carries, SameGoods
  <2> QED BY <1>0, <1>1, <1>2, <2>1, <2>3
<1> QED BY <1>6, <1>7, <1>8, <1>9, <1>10, <1>11, <1>12, <1>13 DEF Step

\* Only a bag's own writes change what there is outside the bags.
LEMMA RestShift ==
    ASSUME TypeInv, PhaseInv, NameInv, StackInv, WarehouseInv, "store" \notin raced,
           NEW w \in Workers, Step(w) \/ \E c \in Chars : Arrive(w, c), NEW n \in Names
    PROVE  /\ Rest(n) \in Int /\ Rest(n)' \in Int
           /\ Rest(n)' = Rest(n) + IF BagWrite(w) THEN Asked(w, n)
                                   ELSE IF BagAdd(w) THEN -Asked(w, n) ELSE 0
<1>1. TypeInv' /\ \A v \in Workers : v # w => job'[v] = job[v]
  BY StepJob, ArriveJob, TypeStep DEF Next
<1>2. /\ Units(store, n) \in Int /\ Units(store, n)' \in Int
      /\ Units(store, n)' = Units(store, n) + IF StoreWrite(w) THEN -Asked(w, n)
                                              ELSE IF StoreKeep(w) THEN Asked(w, n) ELSE 0
  BY <1>1, StoreShift
<1>3. /\ Units(floor, n) \in Int /\ Units(floor, n)' \in Int
      /\ Step(w) => Units(floor, n)' = Units(floor, n) + IF DropItem(w) THEN Asked(w, n) ELSE 0
      /\ ~Step(w) => Units(floor, n)' = Units(floor, n) - Carries(w, n)'
  BY <1>1, FloorShift
<1>4. /\ Hands(n) \in Int /\ Hands(n)' \in Int
      /\ Hands(n)' = Hands(n) - Carries(w, n) + Carries(w, n)'
      /\ Carries(w, n) \in Nat /\ Carries(w, n)' \in Nat
  BY <1>1, HandsShift
<1>5. /\ Rest(n) = Units(store, n) + Units(floor, n) + gone[n] + Hands(n)
      /\ Rest(n)' = Units(store, n)' + Units(floor, n)' + gone'[n] + Hands(n)'
  BY DEF Rest
<1>6. CASE Step(w)
  <2>1. /\ gone[n] \in Int /\ gone'[n] \in Int
        /\ gone'[n] + Carries(w, n)' = gone[n] + Carries(w, n)
             + IF StoreWrite(w) \/ BagWrite(w) THEN Asked(w, n)
               ELSE IF StoreKeep(w) \/ DropItem(w) \/ BagAdd(w) THEN -Asked(w, n) ELSE 0
    BY <1>1, <1>6, CarriesShift
  <2>2. Asked(w, n) \in Nat
    BY <1>6, StepIsBusy, CarriesType
  <2>3. /\ BagWrite(w) => ~StoreWrite(w) /\ ~StoreKeep(w) /\ ~DropItem(w) /\ ~BagAdd(w)
        /\ StoreWrite(w) => ~StoreKeep(w) /\ ~DropItem(w) /\ ~BagAdd(w)
        /\ StoreKeep(w) => ~DropItem(w) /\ ~BagAdd(w)
        /\ DropItem(w) => ~BagAdd(w)
    BY DEF BagWrite, BagAdd, StoreWrite, StoreKeep, DropItem
  <2>4. CASE BagWrite(w)
    BY <1>2, <1>3, <1>4, <1>5, <1>6, <2>1, <2>2, <2>3, <2>4
  <2>5. CASE StoreWrite(w)
    BY <1>2, <1>3, <1>4, <1>5, <1>6, <2>1, <2>2, <2>3, <2>5
  <2>6. CASE StoreKeep(w)
    BY <1>2, <1>3, <1>4, <1>5, <1>6, <2>1, <2>2, <2>3, <2>6
  <2>7. CASE DropItem(w)
    BY <1>2, <1>3, <1>4, <1>5, <1>6, <2>1, <2>2, <2>3, <2>7
  <2>8. CASE BagAdd(w)
    BY <1>2, <1>3, <1>4, <1>5, <1>6, <2>1, <2>2, <2>3, <2>8
  <2>9. CASE ~BagWrite(w) /\ ~StoreWrite(w) /\ ~StoreKeep(w) /\ ~DropItem(w) /\ ~BagAdd(w)
    BY <1>2, <1>3, <1>4, <1>5, <1>6, <2>1, <2>2, <2>9
  <2> QED BY <2>4, <2>5, <2>6, <2>7, <2>8, <2>9
<1>7. CASE ~Step(w)
  <2>1. job[w] = NoJob /\ gone' = gone
    BY <1>7, ArriveGoods
  <2>2. Carries(w, n) = 0 /\ gone[n] \in Int
    BY <2>1, CarriesType, TypeParts DEF MiscOK
  <2>3. ~StoreWrite(w) /\ ~StoreKeep(w) /\ ~BagWrite(w) /\ ~BagAdd(w)
    BY <1>7 DEF Step
  <2> QED BY <1>2, <1>3, <1>4, <1>5, <1>7, <2>1, <2>2, <2>3
<1> QED BY <1>6, <1>7

\* A bag's own writes, when nobody else has read the row.
LEMMA RowsShift ==
    ASSUME TypeInv, TypeInv', NameInv, BagInv, "bag" \notin raced,
           NEW w \in Workers, Step(w) \/ \E c \in Chars : Arrive(w, c), NEW n
    PROVE  /\ Units(rows, n) \in Int /\ Units(rows, n)' \in Int
           /\ Units(rows, n)' = Units(rows, n) + IF BagWrite(w) THEN -Asked(w, n)
                                                 ELSE IF BagAdd(w) THEN Asked(w, n) ELSE 0
<1>1. /\ IsFiniteSet(DOMAIN rows) /\ \A i \in DOMAIN rows : rows[i].amount \in Int
      /\ IsFiniteSet(DOMAIN rows') /\ \A i \in DOMAIN rows' : rows'[i].amount \in Int
  <2>1. IsFiniteSet(DOMAIN rows) /\ \A i \in DOMAIN rows : rows[i].amount \in Nat
    BY TablesFinite
  <2>2. IsFiniteSet(DOMAIN rows') /\ \A i \in DOMAIN rows' : rows'[i].amount \in Nat
    <3>1. /\ nextId' \in Nat /\ DOMAIN rows' \subseteq 1 .. nextId' - 1
          /\ \A i \in DOMAIN rows' : rows'[i] \in Row
      BY TypeParts DEF MiscOK, TablesOK, IsTable
    <3>2. IsFiniteSet(1 .. nextId' - 1)
      BY <3>1, FS_Interval
    <3> QED BY <3>1, <3>2, FS_Subset DEF Row
  <2> QED BY <2>1, <2>2
<1> DEFINE P(id) == Part(rows, DOMAIN rows, n, id)
           Q(id) == Part(rows', DOMAIN rows', n, id)
<1>2. ASSUME NEW id, DOMAIN rows' \ {id} = DOMAIN rows \ {id},
             \A i \in DOMAIN rows \ {id} : rows'[i].name = rows[i].name /\ rows'[i].amount = rows[i].amount
      PROVE  /\ UnitsIn(rows, DOMAIN rows, n) \in Int /\ UnitsIn(rows', DOMAIN rows', n) \in Int
             /\ UnitsIn(rows', DOMAIN rows', n) = UnitsIn(rows, DOMAIN rows, n) - P(id) + Q(id)
  <2>1. /\ UnitsIn(rows, DOMAIN rows, n) \in Int
        /\ UnitsIn(rows', DOMAIN rows', n) \in Int
    BY <1>1, <1>2, UnitsShift
  <2>2. UnitsIn(rows', DOMAIN rows', n) = UnitsIn(rows, DOMAIN rows, n) - P(id) + Q(id)
    BY <1>1, <1>2, UnitsShift
  <2> QED BY <2>1, <2>2
<1>3. Units(rows, n) = UnitsIn(rows, DOMAIN rows, n) /\ Units(rows, n)' = UnitsIn(rows', DOMAIN rows', n)
  BY DEF Units
<1>4. BagWrite(w) \/ BagAdd(w) => job[w].amount \in Nat /\ job[w].loaded \in Nat
  <2>1. BagWrite(w) \/ BagAdd(w) => job[w] # NoJob
    BY DEF BagWrite, BagAdd, NoJob
  <2> QED BY <2>1, TypeParts, JobFields
<1>5. CASE SameUnits(rows, rows') /\ ~BagAdd(w) /\ ~BagWrite(w)
  <2>1. UnitsIn(rows', DOMAIN rows, n) = UnitsIn(rows, DOMAIN rows, n) /\ DOMAIN rows' = DOMAIN rows
    BY <1>5, UnitsSame DEF SameUnits
  <2>2. UnitsIn(rows, DOMAIN rows, n) \in Int
    BY <1>2, <1>5 DEF SameUnits
  <2> QED BY <1>3, <1>5, <2>1, <2>2
<1>6. CASE BagAdd(w)
  <2>1. Added(rows, rows', nextId, job[w].name, job[w].amount) /\ ~BagWrite(w)
    BY <1>6, RowUnits DEF BagWrite, BagAdd
  <2>2. /\ UnitsIn(rows, DOMAIN rows, n) \in Int /\ UnitsIn(rows', DOMAIN rows', n) \in Int
        /\ UnitsIn(rows', DOMAIN rows', n) = UnitsIn(rows, DOMAIN rows, n) - P(nextId) + Q(nextId)
    BY <1>2, <2>1 DEF Added
  <2>3. P(nextId) = 0 /\ Q(nextId) = Asked(w, n)
    BY <2>1 DEF Added, Part, Asked
  <2>4. Asked(w, n) \in Nat
    BY <1>4, <1>6 DEF Asked
  <2> HIDE DEF P, Q
  <2> QED BY <1>3, <1>6, <2>1, <2>2, <2>3, <2>4
<1>7. CASE BagWrite(w)
  <2>1. Taken(rows, rows', job[w].id, job[w].loaded, job[w].amount)
    BY <1>7, RowUnits DEF BagWrite, BagAdd
  <2>2. /\ job[w].id \in DOMAIN rows /\ rows[job[w].id].amount = job[w].loaded
        /\ rows[job[w].id].name = job[w].name
    BY <1>7 DEF BagWrite, BagInv, NameInv
  <2>3. /\ UnitsIn(rows, DOMAIN rows, n) \in Int /\ UnitsIn(rows', DOMAIN rows', n) \in Int
        /\ UnitsIn(rows', DOMAIN rows', n) = UnitsIn(rows, DOMAIN rows, n) - P(job[w].id) + Q(job[w].id)
    BY <1>2, <2>1 DEF Taken
  <2>4. P(job[w].id) = IF job[w].name = n THEN job[w].loaded ELSE 0
    BY <2>2 DEF Part
  <2>5. Q(job[w].id) = IF job[w].name = n THEN job[w].loaded - job[w].amount ELSE 0
    <3>1. CASE job[w].id \in DOMAIN rows'
      BY <2>1, <2>2, <3>1 DEF Part, Taken
    <3>2. CASE job[w].id \notin DOMAIN rows'
      BY <1>4, <1>7, <2>1, <2>2, <3>2 DEF Part, Taken
    <3> QED BY <3>1, <3>2
  <2> HIDE DEF P, Q
  <2> QED BY <1>3, <1>4, <1>7, <2>3, <2>4, <2>5 DEF Asked
<1> QED BY <1>5, <1>6, <1>7, RowUnits

\* Until two handlers overlap, every unit of the start is somewhere.
EvenInv ==
    raced \cap {"bag", "store"} = {} =>
        \A n \in Names : Units(rows, n) + Rest(n) = Units(StartRows, n)

LEMMA EvenStep ==
    ASSUME TypeInv, PhaseInv, NameInv, StackInv, BagInv, WarehouseInv, EvenInv, [Next]_vars
    PROVE  EvenInv'
<1>1. CASE UNCHANGED vars
  <2>1. \A n : Rest(n)' = Rest(n) /\ Units(rows, n)' = Units(rows, n)
    BY <1>1 DEF vars, Rest, Hands, Carries, Units
  <2> QED BY <1>1, <2>1 DEF EvenInv, vars, Units
<1>2. ASSUME NEW w \in Workers, Step(w) \/ \E c \in Chars : Arrive(w, c),
             raced' \cap {"bag", "store"} = {}, NEW n \in Names
      PROVE  Units(rows, n)' + Rest(n)' = Units(StartRows, n)
  <2>1. raced \cap {"bag", "store"} = {} /\ TypeInv'
    <3>1. raced \subseteq raced'
      BY <1>2, StepJob, ArriveJob
    <3> QED BY <1>2, <3>1, TypeStep DEF Next
  <2>2. Units(rows, n) + Rest(n) = Units(StartRows, n)
    BY <2>1 DEF EvenInv
  <2>3. /\ Rest(n) \in Int /\ Rest(n)' \in Int
        /\ Rest(n)' = Rest(n) + IF BagWrite(w) THEN Asked(w, n)
                                ELSE IF BagAdd(w) THEN -Asked(w, n) ELSE 0
    BY <1>2, <2>1, RestShift
  <2>4. /\ Units(rows, n) \in Int /\ Units(rows, n)' \in Int
        /\ Units(rows, n)' = Units(rows, n) + IF BagWrite(w) THEN -Asked(w, n)
                                              ELSE IF BagAdd(w) THEN Asked(w, n) ELSE 0
    BY <1>2, <2>1, RowsShift
  <2>5. BagWrite(w) \/ BagAdd(w) => Asked(w, n) \in Nat
    <3>1. BagWrite(w) \/ BagAdd(w) => job[w] # NoJob
      BY DEF BagWrite, BagAdd, NoJob
    <3> QED BY <3>1, CarriesType
  <2> QED BY <2>2, <2>3, <2>4, <2>5
<1> QED BY <1>1, <1>2 DEF Next, EvenInv, Units

\* Overlaps on the rows of a bag.  A low estimate of each row is below its amount and
\* below what any Remove has read of it and is going to compute from, so that every
\* Remove takes from the estimate no more than it puts down elsewhere.
Named(t, n) == {i \in DOMAIN t : t[i].name = n}
Low(t, j, low) ==
    /\ low \in [DOMAIN t -> Int]
    /\ \A i \in DOMAIN t : low[i] <= t[i].amount
    /\ \A v \in Workers : j[v].pc = "write" /\ j[v].id \in DOMAIN t => low[j[v].id] <= j[v].loaded
LowInv ==
    "store" \notin raced => \A n \in Names : \E low :
        Low(rows, job, low) /\ Units(StartRows, n) <= SumOver(low, Named(rows, n)) + Rest(n)

\* w changes row id, of which k is a low estimate from then on.
Estimated(w, id, k) ==
    /\ DOMAIN rows' \ {id} = DOMAIN rows \ {id}
    /\ \A i \in DOMAIN rows \ {id} : rows'[i].name = rows[i].name /\ rows'[i].amount = rows[i].amount
    /\ id \in DOMAIN rows' => k <= rows'[id].amount
    /\ \A v \in Workers : v # w /\ job[v].pc = "write" /\ job[v].id = id /\ id \in DOMAIN rows' =>
          k <= job[v].loaded
    /\ BagLoad(w) /\ job[w].id = id /\ id \in DOMAIN rows => k <= rows[id].amount

LEMMA LowShift ==
    ASSUME TypeInv, NEW w \in Workers, NEW low, NEW n, NEW id, NEW k \in Int,
           Step(w) \/ \E c \in Chars : Arrive(w, c), Low(rows, job, low), Estimated(w, id, k)
    PROVE  \E lo : /\ Low(rows', job', lo) /\ SumOver(low, Named(rows, n)) \in Int /\ SumOver(lo, Named(rows', n)) \in Int
                   /\ SumOver(lo, Named(rows', n)) = SumOver(low, Named(rows, n)) - Share(low, Named(rows, n), id)
                         + IF id \in DOMAIN rows' /\ rows'[id].name = n THEN k ELSE 0
<1>0. /\ \A i \in DOMAIN rows : rows[i].amount \in Nat /\ low[i] \in Int
      /\ IsFiniteSet(DOMAIN rows) /\ \A u \in Workers : u # w => job'[u] = job[u]
  BY TablesFinite, StepJob, ArriveJob DEF Low
<1>1. PICK lo : lo = [i \in DOMAIN rows' |-> IF i = id THEN k ELSE low[i]]
  OBVIOUS
<1>2. \A i \in DOMAIN rows' : (i = id => lo[i] = k) /\ (i # id => i \in DOMAIN rows /\ lo[i] = low[i])
  BY <1>1 DEF Estimated
<1>3. \A i \in DOMAIN rows' : lo[i] \in Int
  BY <1>0, <1>2
<1>4. Low(rows', job', lo)
  <2>1. lo \in [DOMAIN rows' -> Int]
    BY <1>1, <1>3
  <2>2. \A i \in DOMAIN rows' : lo[i] <= rows'[i].amount
    BY <1>2 DEF Low, Estimated
  <2>3. ASSUME NEW v \in Workers, job'[v].pc = "write", job'[v].id \in DOMAIN rows'
        PROVE  lo[job'[v].id] <= job'[v].loaded
    <3>1. CASE v # w
      BY <1>0, <1>2, <2>3, <3>1 DEF Low, Estimated
    <3>2. CASE v = w
      <4>1. BagLoad(w) /\ job'[w].id = job[w].id /\ job'[w].loaded = rows[job[w].id].amount
        BY <2>3, <3>2, WriteJob
      <4>2. UNCHANGED rows
        BY <4>1 DEF BagLoad
      <4> QED BY <1>2, <2>3, <3>2, <4>1, <4>2 DEF Low, Estimated
    <3> QED BY <3>1, <3>2
  <2> QED BY <2>1, <2>2, <2>3 DEF Low
<1>5. IsFiniteSet(Named(rows, n)) /\ \A i \in Named(rows, n) : low[i] \in Int
  BY <1>0, FS_Subset DEF Named
<1>6. /\ Named(rows', n) \ {id} = Named(rows, n) \ {id} /\ \A i \in Named(rows', n) : lo[i] \in Int
      /\ \A i \in Named(rows, n) \ {id} : lo[i] = low[i]
  BY <1>2, <1>3 DEF Named, Estimated
<1>7. IsFiniteSet(Named(rows', n))
  <2>1. Named(rows', n) \subseteq Named(rows, n) \cup {id}
    BY <1>6
  <2> QED BY <1>5, <2>1, FS_AddElement, FS_Subset
<1>8. SumOver(lo, Named(rows', n)) = SumOver(low, Named(rows, n)) - Share(low, Named(rows, n), id) + Share(lo, Named(rows', n), id)
  BY <1>5, <1>6, SumShift
<1>9. SumOver(low, Named(rows, n)) \in Int /\ SumOver(lo, Named(rows', n)) \in Int
  BY <1>5, <1>6, <1>7, SumType
<1>10. Share(lo, Named(rows', n), id) = IF id \in DOMAIN rows' /\ rows'[id].name = n THEN k ELSE 0
  BY <1>2 DEF Share, Named
<1> QED BY <1>4, <1>8, <1>9, <1>10

LEMMA StartUnits == \A n : Units(StartRows, n) \in Int
<1>1. StartRows \in Seq(Row) /\ Len(StartRows) \in Nat /\ DOMAIN StartRows = 1 .. Len(StartRows)
  BY GoodsStart
<1>2. IsFiniteSet(1 .. Len(StartRows))
  BY <1>1, FS_Interval
<1>3. \A i \in DOMAIN StartRows : StartRows[i] \in Row
  BY <1>1
<1>4. IsFiniteSet(DOMAIN StartRows) /\ \A i \in DOMAIN StartRows : StartRows[i].amount \in Nat
  BY <1>1, <1>2, <1>3 DEF Row
<1> QED BY <1>4, UnitsType DEF Units

LEMMA LowStep ==
    ASSUME TypeInv, PhaseInv, NameInv, StackInv, WarehouseInv, LowInv, [Next]_vars
    PROVE  LowInv'
<1>1. CASE UNCHANGED vars
  <2>1. \A n : Rest(n)' = Rest(n) /\ Named(rows', n) = Named(rows, n)
    BY <1>1 DEF vars, Rest, Hands, Carries, Units, Named
  <2>2. \A low : Low(rows', job', low) <=> Low(rows, job, low)
    BY <1>1 DEF Low, vars
  <2> QED BY <1>1, <2>1, <2>2 DEF LowInv, vars, Units
<1>2. ASSUME NEW w \in Workers, Step(w) \/ \E c \in Chars : Arrive(w, c),
             "store" \notin raced', NEW n \in Names
      PROVE  \E low : Low(rows', job', low) /\ Units(StartRows, n) <= SumOver(low, Named(rows', n)) + Rest(n)'
  <2>1. "store" \notin raced /\ TypeInv'
    <3>1. raced \subseteq raced'
      BY <1>2, StepJob, ArriveJob
    <3> QED BY <1>2, <3>1, TypeStep DEF Next
  <2>2. PICK low : Low(rows, job, low) /\ Units(StartRows, n) <= SumOver(low, Named(rows, n)) + Rest(n)
    BY <2>1 DEF LowInv
  <2>3. /\ Rest(n) \in Int /\ Rest(n)' \in Int
        /\ Rest(n)' = Rest(n) + IF BagWrite(w) THEN Asked(w, n)
                                ELSE IF BagAdd(w) THEN -Asked(w, n) ELSE 0
    BY <1>2, <2>1, RestShift
  <2>4. Units(StartRows, n) \in Int
    BY StartUnits
  <2>5. nextId \notin DOMAIN rows /\ \A i \in DOMAIN rows : rows[i].amount \in Nat /\ low[i] \in Int
    <3>1. nextId \in Nat /\ \A j \in DOMAIN rows : j \in Nat /\ j < nextId
      BY TypeParts, TableTypes DEF MiscOK
    <3>2. ~(nextId < nextId)
      BY <3>1
    <3> QED BY <2>2, <3>1, <3>2, TablesFinite DEF Low
  <2>6. CASE SameUnits(rows, rows') /\ ~BagAdd(w) /\ ~BagWrite(w)
    <3>1. PICK id, k : id \notin DOMAIN rows /\ k = 0
      BY <2>5
    <3>2. PICK lo : /\ Low(rows', job', lo) /\ SumOver(low, Named(rows, n)) \in Int /\ SumOver(lo, Named(rows', n)) \in Int
                    /\ SumOver(lo, Named(rows', n)) = SumOver(low, Named(rows, n)) - Share(low, Named(rows, n), id)
                          + IF id \in DOMAIN rows' /\ rows'[id].name = n THEN k ELSE 0
      <4>1. /\ DOMAIN rows' \ {id} = DOMAIN rows \ {id} /\ id \notin DOMAIN rows' /\ k \in Int
            /\ \A i \in DOMAIN rows \ {id} : rows'[i].name = rows[i].name /\ rows'[i].amount = rows[i].amount
        BY <2>6, <3>1 DEF SameUnits
      <4>2. /\ id \in DOMAIN rows' => k <= rows'[id].amount
            /\ \A v \in Workers : v # w /\ job[v].pc = "write" /\ job[v].id = id /\ id \in DOMAIN rows' =>
                  k <= job[v].loaded
            /\ BagLoad(w) /\ job[w].id = id /\ id \in DOMAIN rows => k <= rows[id].amount
        BY <3>1, <4>1
      <4>3. Estimated(w, id, k)
        BY <4>1, <4>2 DEF Estimated
      <4> QED BY <1>2, <2>2, <4>1, <4>3, LowShift
    <3>3. Share(low, Named(rows, n), id) = 0
      BY <3>1 DEF Share, Named
    <3>4. Rest(n)' = Rest(n)
      BY <2>3, <2>6
    <3> QED BY <2>2, <2>3, <2>4, <3>1, <3>2, <3>3, <3>4
  <2>7. CASE BagAdd(w)
    <3>0. job[w] # NoJob /\ ~BagWrite(w) /\ ~BagLoad(w)
      BY <2>7 DEF BagAdd, BagWrite, BagLoad, NoJob
    <3>1. Added(rows, rows', nextId, job[w].name, job[w].amount) /\ job[w].amount \in Nat
      BY <1>2, <2>7, <3>0, RowUnits, TypeParts, JobFields
    <3>2. \A v \in Workers : job[v].pc = "write" => job[v].id # nextId
      <4>1. \A v \in Workers : job[v].pc = "write" => job[v].id \in Nat /\ job[v].id < nextId
        <5>1. \A v \in Workers : job[v].pc = "write" => job[v] # NoJob
          BY DEF NoJob
        <5> QED BY <5>1, TypeParts, JobFields DEF NameInv
      <4> QED BY <4>1
    <3>6. PICK id, k : id = nextId /\ k = job[w].amount
      OBVIOUS
    <3>3. PICK lo : /\ Low(rows', job', lo) /\ SumOver(low, Named(rows, n)) \in Int /\ SumOver(lo, Named(rows', n)) \in Int
                    /\ SumOver(lo, Named(rows', n)) = SumOver(low, Named(rows, n)) - Share(low, Named(rows, n), id)
                          + IF id \in DOMAIN rows' /\ rows'[id].name = n THEN k ELSE 0
      <4>1. /\ DOMAIN rows' \ {id} = DOMAIN rows \ {id} /\ k <= rows'[id].amount
            /\ \A i \in DOMAIN rows \ {id} : rows'[i].name = rows[i].name /\ rows'[i].amount = rows[i].amount
            /\ k \in Int
        BY <3>1, <3>6 DEF Added
      <4>2. /\ id \in DOMAIN rows' => k <= rows'[id].amount
            /\ \A v \in Workers : v # w /\ job[v].pc = "write" /\ job[v].id = id /\ id \in DOMAIN rows' =>
                  k <= job[v].loaded
            /\ BagLoad(w) /\ job[w].id = id /\ id \in DOMAIN rows => k <= rows[id].amount
        BY <2>5, <3>2, <3>6, <4>1
      <4>3. Estimated(w, id, k)
        BY <4>1, <4>2 DEF Estimated
      <4>4. k \in Int
        BY <4>1
      <4>5. Low(rows, job, low)
        BY <2>2
      <4> QED BY ONLY TypeInv, w \in Workers, <1>2, <4>3, <4>4, <4>5, LowShift
    <3>4. Share(low, Named(rows, n), id) = 0 /\ id \in DOMAIN rows' /\ rows'[id].name = job[w].name
      BY <2>5, <3>1, <3>6 DEF Share, Named, Added
    <3>5. Rest(n)' = Rest(n) - Asked(w, n) /\ Asked(w, n) = IF job[w].name = n THEN job[w].amount ELSE 0
      BY <2>3, <2>7, <3>0, <3>1 DEF Asked
    <3> QED BY <2>2, <2>3, <2>4, <3>1, <3>3, <3>4, <3>5, <3>6
  <2>8. CASE BagWrite(w)
    <3>0. job[w] # NoJob /\ ~BagAdd(w) /\ ~BagLoad(w) /\ job[w].pc = "write"
      BY <2>8 DEF BagAdd, BagWrite, BagLoad, NoJob
    <3>1. /\ Taken(rows, rows', job[w].id, job[w].loaded, job[w].amount)
          /\ job[w].amount \in Nat /\ job[w].loaded \in Nat
      BY <1>2, <2>8, <3>0, RowUnits, TypeParts, JobFields
    <3>2. PICK id, k : id = job[w].id /\ k = IF id \in DOMAIN rows THEN low[id] - job[w].amount ELSE 0
      OBVIOUS
    <3>3. /\ DOMAIN rows' \ {id} = DOMAIN rows \ {id} /\ (id \in DOMAIN rows' => id \in DOMAIN rows)
          /\ \A i \in DOMAIN rows \ {id} : rows'[i].name = rows[i].name /\ rows'[i].amount = rows[i].amount
          /\ k \in Int
      BY <2>5, <3>1, <3>2 DEF Taken
    <3>4. id \in DOMAIN rows => low[id] \in Int /\ low[id] <= job[w].loaded /\ rows[id].name = job[w].name
      BY <2>2, <2>5, <3>0, <3>2 DEF Low, NameInv
    <3>5. id \in DOMAIN rows' => k <= rows'[id].amount /\ rows'[id].name = rows[id].name
      BY <3>1, <3>2, <3>3, <3>4 DEF Taken
    <3>6. ASSUME NEW v \in Workers, job[v].pc = "write", job[v].id = id, id \in DOMAIN rows
          PROVE  k <= job[v].loaded
      <4>1. job[v].loaded \in Nat
        <5>1. job[v] # NoJob
          BY <3>6 DEF NoJob
        <5> QED BY <5>1, TypeParts, JobFields
      <4>2. low[id] <= job[v].loaded
        BY <2>2, <3>6 DEF Low
      <4> QED BY <3>1, <3>2, <3>4, <3>6, <4>1, <4>2
    <3>7. PICK lo : /\ Low(rows', job', lo) /\ SumOver(low, Named(rows, n)) \in Int /\ SumOver(lo, Named(rows', n)) \in Int
                    /\ SumOver(lo, Named(rows', n)) = SumOver(low, Named(rows, n)) - Share(low, Named(rows, n), id)
                          + IF id \in DOMAIN rows' /\ rows'[id].name = n THEN k ELSE 0
      <4>1. /\ id \in DOMAIN rows' => k <= rows'[id].amount
            /\ \A v \in Workers : v # w /\ job[v].pc = "write" /\ job[v].id = id /\ id \in DOMAIN rows' =>
                  k <= job[v].loaded
            /\ BagLoad(w) /\ job[w].id = id /\ id \in DOMAIN rows => k <= rows[id].amount
        BY <3>0, <3>3, <3>5, <3>6
      <4>2. Estimated(w, id, k)
        BY <3>3, <4>1 DEF Estimated
      <4> QED BY <1>2, <2>2, <3>3, <4>2, LowShift
    <3>8. Rest(n)' = Rest(n) + Asked(w, n) /\ Asked(w, n) = IF job[w].name = n THEN job[w].amount ELSE 0
      BY <2>3, <2>8, <3>1 DEF Asked
    <3>9. Share(low, Named(rows, n), id) = IF id \in DOMAIN rows /\ job[w].name = n THEN low[id] ELSE 0
      BY <3>4 DEF Share, Named
    <3>10. id \in DOMAIN rows /\ id \notin DOMAIN rows' => low[id] <= job[w].amount
      BY <3>1, <3>2, <3>4 DEF Taken
    <3>11. SumOver(low, Named(rows, n)) - Asked(w, n) <= SumOver(lo, Named(rows', n))
      <4>1. CASE id \in DOMAIN rows'
        BY <3>1, <3>2, <3>3, <3>4, <3>5, <3>7, <3>8, <3>9, <4>1
      <4>2. CASE id \notin DOMAIN rows'
        BY <3>1, <3>4, <3>7, <3>8, <3>9, <3>10, <4>2
      <4> QED BY <4>1, <4>2
    <3>12. Asked(w, n) \in Int
      BY <3>1, <3>8
    <3> QED BY <2>2, <2>3, <2>4, <3>7, <3>8, <3>11, <3>12
  <2> QED BY <1>2, <2>6, <2>7, <2>8, RowUnits
<1> QED BY <1>1, <1>2 DEF Next, LowInv, Units

-----------------------------------------------------------------------------
\* The theorems.

LEMMA InitInv ==
    ASSUME Init
    PROVE  /\ TypeInv /\ OwnerInv /\ WornInv /\ StackInv /\ InsertInv
           /\ PhaseInv /\ NameInv /\ BagInv /\ WarehouseInv /\ EvenInv /\ LowInv
<1>1. /\ StartRows \in Seq(Row) /\ Len(StartRows) \in Nat
      /\ DOMAIN StartRows = 1 .. Len(StartRows) /\ \A i \in DOMAIN StartRows : StartRows[i] \in Row
  BY GoodsStart
<1>2. \A w \in Workers : job[w] = NoJob /\ job[w].pc = "idle"
  BY DEF Init, NoJob
<1>3. DOMAIN store = {} /\ DOMAIN floor = {}
  BY DEF Init
<1>4. JobsOK
  BY <1>2 DEF Init, JobsOK, KindInv
<1>5. TablesOK
  <2>1. nextId - 1 = Len(StartRows)
    BY <1>1 DEF Init
  <2> QED BY <1>1, <1>3, <2>1 DEF Init, TablesOK, IsTable
<1>6. MiscOK
  BY <1>1, GoodsStart DEF Init, MiscOK
<1>7. OwnerInv /\ StackInv
  BY <1>2 DEF OwnerInv, StackInv
<1>8. WornInv
  <2>1. \A c \in Chars : \A i, j \in Worn(c) : i = j
    BY GoodsStart DEF Init, Worn, Owned
  <2> QED BY <1>2, <2>1 DEF WornInv, Wears
<1>9. InsertInv
  <2>1. Cardinality(DOMAIN store) = 0 /\ MaxStorage \in Nat
    BY <1>3, FS_EmptySet, GoodsBounds
  <2> QED BY <1>2, <1>3, <2>1 DEF InsertInv, Inserts
<1>10. TypeInv
  BY <1>4, <1>5, <1>6, TypeParts
<1>11. PhaseInv /\ NameInv /\ BagInv /\ WarehouseInv
  BY <1>2 DEF PhaseInv, NameInv, BagInv, WarehouseInv, Holding
<1>12. ASSUME NEW n \in Names
       PROVE  /\ Units(rows, n) = Units(StartRows, n) /\ Units(rows, n) \in Int
              /\ Units(rows, n) + Rest(n) = Units(StartRows, n)
  <2>1. Units(store, n) = 0 /\ Units(floor, n) = 0
    <3>1. \A t : DOMAIN t = {} => {i \in DOMAIN t : t[i].name = n} = {}
      OBVIOUS
    <3> QED BY <1>3, <3>1, SumEmpty DEF Units, UnitsIn
  <2>2. gone[n] = 0
    BY DEF Init
  <2>3. Hands(n) = 0
    <3>1. PICK f : f = [w \in Workers |-> Carries(w, n)]
      OBVIOUS
    <3>2. \A w \in Workers : f[w] = 0
      BY <1>2, <3>1 DEF Carries
    <3>3. \A w \in Workers : f[w] \in Int /\ f[w] = f[w] + f[w]
      BY <3>2
    <3>4. SumOver(f, Workers) = SumOver(f, Workers) + SumOver(f, Workers)
      BY <3>3, GoodsWorkers, SumPlus
    <3>5. SumOver(f, Workers) \in Int
      BY <3>3, GoodsWorkers, SumType
    <3>6. PICK x : x = SumOver(f, Workers)
      OBVIOUS
    <3>7. x \in Int /\ x = x + x
      BY <3>4, <3>5, <3>6
    <3>8. x = 0
      BY <3>7
    <3> QED BY <3>1, <3>6, <3>8 DEF Hands
  <2>4. Units(rows, n) \in Int
    BY <1>10, TablesFinite, UnitsType DEF Units
  <2> QED BY <2>1, <2>2, <2>3, <2>4 DEF Rest, Init
<1>13. EvenInv
  BY <1>12 DEF EvenInv
<1>14. LowInv
  <2> SUFFICES ASSUME NEW n \in Names
               PROVE  \E low : /\ Low(rows, job, low)
                               /\ Units(StartRows, n) <= SumOver(low, Named(rows, n)) + Rest(n)
    BY DEF LowInv
  <2>1. PICK low : low = [i \in DOMAIN rows |-> rows[i].amount]
    OBVIOUS
  <2>2. Low(rows, job, low)
    <3>1. \A i \in DOMAIN rows : rows[i].amount \in Nat
      BY <1>10, TablesFinite
    <3> QED BY <1>2, <2>1, <3>1 DEF Low
  <2>3. SumOver(low, Named(rows, n)) = Units(rows, n)
    BY <2>1 DEF Units, UnitsIn, Named
  <2>4. Units(rows, n) + Rest(n) = Units(rows, n) /\ Units(StartRows, n) = Units(rows, n) /\ Units(rows, n) \in Int
    BY <1>12
  <2> QED BY <2>2, <2>3, <2>4
<1> QED BY <1>7, <1>8, <1>9, <1>10, <1>11, <1>13, <1>14

\* The tables and the requests in flight stay well-typed: in particular no Remove, of
\* the bag or of the warehouse, writes back a negative amount, whatever has happened
\* to the row between its read and its write.
THEOREM TypeCorrect == Spec => []TypeOK
<1>1. Init => TypeInv
  BY InitInv
<1>2. TypeInv /\ [Next]_vars => TypeInv'
  BY TypeStep
<1>3. TypeInv => TypeOK
  BY DEF TypeInv
<1> QED BY <1>1, <1>2, <1>3, PTL DEF Spec

\* However equipping (equip.go), dropping, storing and failing statements interleave, a
\* character wears one item in a slot, unless two of its equip requests overlap.
THEOREM OneWornCorrect == Spec => []OneWorn
<1> DEFINE I == TypeInv /\ OwnerInv /\ WornInv
<1>1. Init => I
  BY InitInv
<1>2. I /\ [Next]_vars => I'
  BY TypeStep, OwnerStep, WornStep
<1>3. I => OneWorn
  <2> SUFFICES ASSUME I, "worn" \notin raced, NEW c \in Chars
               PROVE  Cardinality(Worn(c)) <= 1
    BY DEF OneWorn
  <2>1. \A i, j \in Worn(c) : i = j
    BY DEF WornInv
  <2>2. Worn(c) = {} \/ \E i : Worn(c) = {i}
    BY <2>1
  <2>3. Cardinality(Worn(c)) = 0 \/ Cardinality(Worn(c)) = 1
    BY <2>2, FS_EmptySet, FS_Singleton
  <2> QED BY <2>3
<1> QED BY <1>1, <1>2, <1>3, PTL DEF Spec

\* Storage Add counts and inserts in two statements that nothing locks; still the
\* warehouse keeps to its slots and to one stack of an item, unless two deposits that
\* found no stack overlap.
THEOREM StorageCorrect == Spec => []StorageBounded
<1> DEFINE I == TypeInv /\ StackInv /\ InsertInv
<1>1. Init => I
  BY InitInv
<1>2. I /\ [Next]_vars => I'
  BY TypeStep, StackStep, InsertStep
<1>3. I => StorageBounded
  BY DEF InsertInv, StorageBounded
<1> QED BY <1>1, <1>2, <1>3, PTL DEF Spec

\* However requests to buy, sell, use, drop, store, take out and pick up interleave, and
\* whichever statement of them fails, every unit is accounted for: none is made and none
\* is lost until two handlers overlap between the read and the write of one row (Remove in
\* inventory/infra/gorm.go, Add and Remove of the warehouse), and overlaps on the rows of
\* a bag can only make units.
THEOREM UnitsCorrect == Spec => []UnitsAccounted
<1> DEFINE I == /\ TypeInv /\ PhaseInv /\ NameInv /\ StackInv /\ BagInv /\ WarehouseInv
                /\ EvenInv /\ LowInv
<1>1. Init => I
  BY InitInv
<1>2. I /\ [Next]_vars => I'
  BY TypeStep, PhaseStep, NameStep, StackStep, BagStep, WarehouseStep, EvenStep, LowStep
<1>3. I => UnitsAccounted
  <2> SUFFICES ASSUME I PROVE UnitsAccounted
    OBVIOUS
  <2>1. ASSUME NEW n \in Names, "store" \notin raced
        PROVE  Total(n) = Units(rows, n) + Rest(n) /\ Units(rows, n) \in Int /\ Rest(n) \in Int
    <3>1. Units(rows, n) \in Int /\ Units(store, n) \in Int /\ Units(floor, n) \in Int
      BY TablesFinite, UnitsType DEF Units
    <3>2. gone[n] \in Int
      BY TypeParts DEF MiscOK
    <3>3. Hands(n) \in Int
      <4>1. PICK f : f = [w \in Workers |-> Carries(w, n)]
        OBVIOUS
      <4>2. \A w \in Workers : f[w] \in Int
        BY <4>1, CarriesType
      <4> QED BY <4>1, <4>2, GoodsWorkers, SumType DEF Hands
    <3>4. Total(n) = Units(rows, n) + Units(store, n) + Units(floor, n) + gone[n] + Hands(n)
      BY DEF Total, Hands
    <3> QED BY <3>1, <3>2, <3>3, <3>4 DEF Rest
  <2>2. GoodsConserved
    BY <2>1 DEF EvenInv, GoodsConserved
  <2>3. ASSUME NEW n \in Names, "store" \notin raced PROVE Total(n) >= Units(StartRows, n)
    <3>1. PICK low : Low(rows, job, low) /\ Units(StartRows, n) <= SumOver(low, Named(rows, n)) + Rest(n)
      BY <2>3 DEF LowInv
    <3>2. PICK f : f = [i \in DOMAIN rows |-> rows[i].amount]
      OBVIOUS
    <3>3. IsFiniteSet(Named(rows, n)) /\ \A i \in Named(rows, n) : low[i] \in Int /\ f[i] \in Int /\ low[i] <= f[i]
      BY <3>1, <3>2, TablesFinite, FS_Subset DEF Named, Low
    <3>4. SumOver(low, Named(rows, n)) <= SumOver(f, Named(rows, n)) /\ SumOver(low, Named(rows, n)) \in Int
      BY <3>3, SumMonotone, SumType
    <3>5. SumOver(f, Named(rows, n)) = Units(rows, n)
      BY <3>2 DEF Units, UnitsIn, Named
    <3>6. Units(StartRows, n) \in Int
      BY StartUnits
    <3> QED BY <2>1, <2>3, <3>1, <3>4, <3>5, <3>6
  <2> QED BY <2>2, <2>3 DEF TypeInv, UnitsAccounted, GoodsNeverLost
<1> QED BY <1>1, <1>2, <1>3, PTL DEF Spec

=============================================================================
