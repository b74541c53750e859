----------------------------- MODULE NodeStore -----------------------------
(***************************************************************************)
(* `NodeCoords::build` (osm/reader/memory_coords.rs): the coordinate       *)
(* records, collected in any order, are permuted in place into the slots a *)
(* minimal perfect hash gives their ids.  The walk follows one cycle of    *)
(* the permutation at a time, and carries one record and one `shared` bit, *)
(* which live in two arrays.  A second claim on a slot panics: an id that  *)
(* was collected twice must not corrupt the table silently.                *)
(*                                                                         *)
(* The hash is a library's.  It is any function that separates the ids it  *)
(* was built for; to an id it never saw it answers with any slot, or with  *)
(* none (here: a number that is no slot).                                  *)
(***************************************************************************)
EXTENDS Naturals, FiniteSets

CONSTANTS
    Id,     \* node ids
    Loads   \* [count, records: slot -> [id, at], shared: slot -> BOOLEAN, hash: id -> Nat]

SlotsOf(l)  == 0 .. (l.count - 1)
IsPlain(l)  == \A i, j \in SlotsOf(l) : l.records[i].id = l.records[j].id => i = j

ASSUME LoadsAssumption ==
    \A l \in Loads :
        /\ l.count \in Nat
        /\ DOMAIN l.records = SlotsOf(l)
        /\ l.shared \in [SlotsOf(l) -> BOOLEAN]
        /\ l.hash \in [Id -> Nat]
        /\ \A i \in SlotsOf(l) : l.records[i].id \in Id
        /\ \A i \in SlotsOf(l) : l.hash[l.records[i].id] \in SlotsOf(l)
        /\ IsPlain(l) => \A i, j \in SlotsOf(l) :
             l.hash[l.records[i].id] = l.hash[l.records[j].id] => i = j

VARIABLES
    load,     \* what was collected, and the hash built over it
    records,  \* slot -> record
    shared,   \* slot -> the `shared` bit
    placed,   \* slots that hold the record they were made for
    start,    \* the outer loop's slot, where the walk of a cycle began
    item,     \* the record in hand
    carry,    \* its `shared` bit
    steps,    \* displacements in this cycle
    phase     \* "scan", "walk", "built" or "panicked"

storeVars == <<load, records, shared, placed, start, item, carry, steps, phase>>

Slots   == SlotsOf(load)
Dest(r) == load.hash[r.id]

\* `NodeCoordsBuilder`: the arrays as they were collected.
StoreInit ==
    /\ load \in Loads
    /\ records = load.records
    /\ shared = load.shared
    /\ placed = {}
    /\ start = 0
    /\ item = <<>>
    /\ carry = FALSE
    /\ steps = 0
    /\ phase = IF load.count = 0 THEN "built" ELSE "scan"

\* The outer loop goes on to the next slot, or ends.
Advance ==
    /\ start' = start + 1
    /\ phase' = IF start + 1 < load.count THEN "scan" ELSE "built"

SkipPlaced ==
    /\ phase = "scan"
    /\ start \in placed
    /\ Advance
    /\ UNCHANGED <<load, records, shared, placed, item, carry, steps>>

Lift ==
    /\ phase = "scan"
    /\ start \notin placed
    /\ item' = records[start]
    /\ carry' = shared[start]
    /\ steps' = 0
    /\ phase' = "walk"
    /\ UNCHANGED <<load, records, shared, placed, start>>

\* The record in hand belongs where the cycle began.
Close ==
    /\ phase = "walk"
    /\ Dest(item) = start
    /\ records' = [records EXCEPT ![start] = item]
    /\ shared' = [shared EXCEPT ![start] = carry]
    /\ placed' = placed \cup {start}
    /\ Advance
    /\ UNCHANGED <<load, item, carry, steps>>

\* Seeded fault: the bit in hand is not exchanged with the record.
DisplaceRecordOnly ==
    /\ phase = "walk"
    /\ Dest(item) # start
    /\ Dest(item) \notin placed
    /\ placed' = placed \cup {Dest(item)}
    /\ records' = [records EXCEPT ![Dest(item)] = item]
    /\ item' = records[Dest(item)]
    /\ shared' = [shared EXCEPT ![Dest(item)] = carry]
    /\ steps' = steps + 1
    /\ phase' = IF steps + 1 <= load.count THEN "walk" ELSE "panicked"
    /\ UNCHANGED <<load, start, carry>>

\* Put the record in its slot, and take up the one that was there.  The
\* second assertion of the loop (`steps <= len`) is checked after the swap.
Displace ==
    /\ phase = "walk"
    /\ Dest(item) # start
    /\ Dest(item) \notin placed
    /\ placed' = placed \cup {Dest(item)}
    /\ records' = [records EXCEPT ![Dest(item)] = item]
    /\ item' = records[Dest(item)]
    /\ shared' = [shared EXCEPT ![Dest(item)] = carry]
    /\ carry' = shared[Dest(item)]
    /\ steps' = steps + 1
    /\ phase' = IF steps + 1 <= load.count THEN "walk" ELSE "panicked"
    /\ UNCHANGED <<load, start>>

\* Seeded fault: a claimed slot is taken for the end of the cycle.
ClaimIsClose ==
    /\ phase = "walk"
    /\ Dest(item) # start
    /\ Dest(item) \in placed
    /\ placed' = placed \cup {start}
    /\ Advance
    /\ UNCHANGED <<load, records, shared, item, carry, steps>>

\* The first assertion: the slot is taken.
ClaimedTwice ==
    /\ phase = "walk"
    /\ Dest(item) # start
    /\ Dest(item) \in placed
    /\ phase' = "panicked"
    /\ UNCHANGED <<load, records, shared, placed, start, item, carry, steps>>

BuildStep == SkipPlaced \/ Lift \/ Close \/ Displace \/ ClaimedTwice

StoreSpec == StoreInit /\ [][BuildStep]_storeVars

\* Seeded fault: the id of the record found is not compared.
LookupBySlot(id) ==
    IF load.hash[id] \in Slots
    THEN {[at |-> records[load.hash[id]].at, shared |-> shared[load.hash[id]]]}
    ELSE {}

\* `get`: the empty set stands for None.
Lookup(id) ==
    IF load.hash[id] \in Slots /\ records[load.hash[id]].id = id
    THEN {[at |-> records[load.hash[id]].at, shared |-> shared[load.hash[id]]]}
    ELSE {}

(***************************************************************************)
(* Properties.                                                             *)
(***************************************************************************)
\* What `get` must answer, read off the records as they were collected.
Collected(id) ==
    {[at |-> load.records[i].at, shared |-> load.shared[i]] :
        i \in {j \in Slots : load.records[j].id = id}}

\* Once the table is built, every id finds its own coordinates and its own
\* shared bit, and an id that was never collected finds nothing, whatever
\* slot the hash answers with.
LookupsAreExact ==
    phase = "built" => \A id \in Id : Lookup(id) = Collected(id)

\* The build panics on an id that was collected twice, and on nothing else.
PanicsIffDuplicate ==
    /\ phase = "panicked" => ~IsPlain(load)
    /\ phase = "built" => IsPlain(load)
=============================================================================
