----------------------------- MODULE WorldIndex -----------------------------
(***************************************************************************)
(* The three indexes of WorldService (world/app/world.go) over the live    *)
(* entities: the registry (entities), the per-map sets (byMap) and one AOI *)
(* grid per map (pkg/ro/aoi/grid.go).                                      *)
(*                                                                         *)
(* The registry and the sets change under the world mutex, the grids after *)
(* it is released: a call is one step under the mutex followed by a        *)
(* program of grid operations that the calls of other goroutines           *)
(* interleave with.                                                        *)
(***************************************************************************)
EXTENDS Integers, Sequences

CONSTANTS
    Ids,        \* entities: players, mobs, NPCs
    Maps,
    Cells,
    OffMap,     \* the cells outside the 512 x 512 canvas of a grid
    Seeded,     \* maps that have a grid from the start (the corpus put NPCs there)
    Absent,     \* not there
    Workers,    \* goroutines: handlers, closes, the tick loop, timers
    MaxCalls    \* bound: calls

ASSUME IndexAssumption == OffMap \subseteq Cells /\ Seeded \subseteq Maps
Places == [map : Maps, cell : Cells]
ASSUME AbsentAssumption == Absent \notin Maps \cup Cells \cup Places
ASSUME IndexBounds == MaxCalls \in Nat

VARIABLES
    at,         \* the registry: the map and cell of each entity, Absent if none
    save,       \* the save point of each entity
    byMap,      \* the entities listed under each map
    grids,      \* the maps that have a grid
    seat,       \* the cell at which each grid tracks each entity
    job,        \* the grid operations each goroutine has still to execute
    raced,      \* history: entities two goroutines have worked on at once
    astray,     \* history: entities relocated to a map that had no grid
    calls       \* calls so far

indexVars == <<at, save, byMap, grids, seat, job, raced, astray, calls>>

Live(e) == at[e] # Absent

\* Some entities are in the world already, on seeded maps.
IndexInit ==
    /\ at \in [Ids -> [map : Seeded, cell : Cells \ OffMap] \cup {Absent}]
    /\ save \in [Ids -> [map : Maps, cell : Cells \ OffMap]]
    /\ byMap = [m \in Maps |-> {e \in Ids : Live(e) /\ at[e].map = m}]
    /\ grids = Seeded
    /\ seat = [m \in Maps |-> [e \in Ids |->
                  IF Live(e) /\ at[e].map = m THEN at[e].cell ELSE Absent]]
    /\ job = [w \in Workers |-> <<>>]
    /\ raced = {}
    /\ astray = {}
    /\ calls = 0

----------------------------------------------------------------------------
\* Grid operations.

Op(op, m, e, p) == [op |-> op, map |-> m, id |-> e, cell |-> p]

\* gm.RemoveEntity, whose error every caller ignores.
Unseat(m, e) == IF m \in grids THEN <<Op("unseat", m, e, Absent)>> ELSE <<>>
\* gm.AddEntity: refused for an id the grid tracks already and off the map.
Seat(m, e, p) == <<Op("seat", m, e, p)>>

\* The part of a call that runs under the mutex, leaving prog to be executed.
Call(w, e, prog) ==
    /\ job[w] = <<>>
    /\ raced' = IF \E v \in Workers : job[v] # <<>> /\ Head(job[v]).id = e
                THEN raced \cup {e} ELSE raced
    /\ calls < MaxCalls
    /\ calls' = calls + 1
    /\ job' = [job EXCEPT ![w] = prog]

----------------------------------------------------------------------------
\* The calls, up to the release of the mutex.

\* AddEntity: ensureGrid, the grid, and then the per-map set.
AddEntity(w, e, pl) ==
    /\ ~Live(e)
    /\ Call(w, e, <<Op("ensure", pl.map, e, Absent)>> \o Seat(pl.map, e, pl.cell)
               \o <<Op("list", pl.map, e, Absent)>>)
    /\ at' = [at EXCEPT ![e] = pl]
    /\ UNCHANGED <<save, byMap, grids, seat, astray>>

RemoveEntity(w, e) ==
    /\ Live(e)
    /\ Call(w, e, Unseat(at[e].map, e))
    /\ at' = [at EXCEPT ![e] = Absent]
    /\ byMap' = [byMap EXCEPT ![at[e].map] = @ \ {e}]
    /\ UNCHANGED <<save, grids, seat, astray>>

\* Mutant of Reseat: the entity is seated without having been unseated.
SeatAgain(m, e, p) == IF m \in grids THEN Seat(m, e, p) ELSE <<>>

\* The grid work of MoveEntity: out and in again, if the map has a grid.
Reseat(m, e, p) == IF m \in grids THEN Unseat(m, e) \o Seat(m, e, p) ELSE <<>>

MoveEntity(w, e, p) ==
    /\ Live(e)
    /\ Call(w, e, Reseat(at[e].map, e, p))
    /\ at' = [at EXCEPT ![e].cell = p]
    /\ UNCHANGED <<save, byMap, grids, seat, astray>>

\* RelocatePlayer: the per-map sets are not touched, and a map that has no grid
\* yet does not get one.
RelocatePlayer(w, e, pl) ==
    /\ Live(e)
    /\ Call(w, e, Unseat(at[e].map, e)
               \o (IF pl.map \in grids THEN Seat(pl.map, e, pl.cell) ELSE <<>>))
    /\ at' = [at EXCEPT ![e] = pl]
    /\ astray' = IF pl.map \in grids THEN astray ELSE astray \cup {e}
    /\ UNCHANGED <<save, byMap, grids, seat>>

\* RespawnPlayer, to the save point; ensureGridLocked has made its grid.
RespawnPlayer(w, e) ==
    LET to == save[e]
        from == at[e].map
    IN
    /\ Live(e)
    /\ Call(w, e, Unseat(from, e) \o <<Op("unseat", to.map, e, Absent)>>
               \o Seat(to.map, e, to.cell))
    /\ at' = [at EXCEPT ![e] = to]
    /\ grids' = grids \cup {to.map}
    /\ byMap' = [m \in Maps |-> IF m = to.map THEN byMap[m] \cup {e}
                                ELSE IF m = from THEN byMap[m] \ {e} ELSE byMap[m]]
    /\ UNCHANGED <<save, seat, astray>>

----------------------------------------------------------------------------
\* Executing the grid operations.

Now(w) == Head(job[w])
Advance(w) == job' = [job EXCEPT ![w] = Tail(@)]

ExecUnseat(w) ==
    /\ job[w] # <<>> /\ Now(w).op = "unseat"
    /\ seat' = [seat EXCEPT ![Now(w).map][Now(w).id] = Absent]
    /\ Advance(w)
    /\ UNCHANGED <<at, save, byMap, grids, raced, astray, calls>>

ExecSeat(w) ==
    /\ job[w] # <<>> /\ Now(w).op = "seat"
    /\ seat[Now(w).map][Now(w).id] = Absent /\ Now(w).cell \notin OffMap
    /\ seat' = [seat EXCEPT ![Now(w).map][Now(w).id] = Now(w).cell]
    /\ Advance(w)
    /\ UNCHANGED <<at, save, byMap, grids, raced, astray, calls>>

\* The grid refuses; AddEntity returns without listing the entity, and for the
\* other calls it was the last operation.
ExecSeatRefused(w) ==
    /\ job[w] # <<>> /\ Now(w).op = "seat"
    /\ seat[Now(w).map][Now(w).id] # Absent \/ Now(w).cell \in OffMap
    /\ job' = [job EXCEPT ![w] = <<>>]
    /\ UNCHANGED <<at, save, byMap, grids, seat, raced, astray, calls>>

\* ensureGrid, and the section of AddEntity that lists the entity.
ExecEnsure(w) ==
    /\ job[w] # <<>> /\ Now(w).op = "ensure"
    /\ grids' = grids \cup {Now(w).map}
    /\ Advance(w)
    /\ UNCHANGED <<at, save, byMap, seat, raced, astray, calls>>

ExecList(w) ==
    /\ job[w] # <<>> /\ Now(w).op = "list"
    /\ byMap' = [byMap EXCEPT ![Now(w).map] = @ \cup {Now(w).id}]
    /\ Advance(w)
    /\ UNCHANGED <<at, save, grids, seat, raced, astray, calls>>

Exec(w) ==
    ExecUnseat(w) \/ ExecSeat(w) \/ ExecSeatRefused(w) \/ ExecEnsure(w) \/ ExecList(w)

IndexNext ==
    \E w \in Workers :
        \/ Exec(w)
        \/ \E e \in Ids :
              \/ RemoveEntity(w, e)
              \/ RespawnPlayer(w, e)
              \/ \E p \in Cells : MoveEntity(w, e, p)
              \/ \E pl \in Places : AddEntity(w, e, pl) \/ RelocatePlayer(w, e, pl)

IndexSpec == IndexInit /\ [][IndexNext]_indexVars /\ \A w \in Workers : WF_indexVars(Exec(w))

----------------------------------------------------------------------------
Ops == [op : {"ensure", "unseat", "seat", "list"}, map : Maps, id : Ids,
        cell : Cells \cup {Absent}]

IndexTypeOK ==
    /\ at \in [Ids -> Places \cup {Absent}]
    /\ save \in [Ids -> Places]
    /\ byMap \in [Maps -> SUBSET Ids]
    /\ grids \in SUBSET Maps
    /\ seat \in [Maps -> [Ids -> Cells \cup {Absent}]]
    /\ job \in [Workers -> Seq(Ops)]
    /\ raced \subseteq Ids /\ astray \subseteq Ids
    /\ calls \in Nat

Idle == \A w \in Workers : job[w] = <<>>

\* Between calls the grids track each live entity on its own map, at its own
\* cell if that is on the canvas, and nothing else: what a player sees is what
\* is there, and AddEntity of an entity that left is never refused.  It holds for
\* an entity until two goroutines work on it at once, or RelocatePlayer takes it
\* to a map without a grid.  During the calls, nobody uses the grid or the set of a
\* map that has none, which would be a nil dereference.
GridsAgree ==
    /\ IndexTypeOK
    /\ \A w \in Workers : job[w] # <<>> /\ Now(w).op # "ensure" => Now(w).map \in grids
    /\ Idle => \A e \in Ids \ (raced \cup astray), m \in Maps :
          seat[m][e] = IF Live(e) /\ at[e].map = m /\ at[e].cell \notin OffMap
                       THEN at[e].cell ELSE Absent

=============================================================================
