------------------------------- MODULE Stores -------------------------------
(***************************************************************************)
(* The stores the select phase leaves behind, read the way the materialize *)
(* phase reads them: the coordinates (NodeStore), and the arenas of ways   *)
(* and relations (RefCodec).  A way's refs come out of its byte string one *)
(* by one and each is looked up among the coordinates, as                  *)
(* `resolve_geometry` does; ids the coordinates lack are dropped.          *)
(***************************************************************************)
EXTENDS NodeStore, RefCodec

CONSTANTS
    WayId,      \* ids of ways and relations the arenas may be asked for
    WayLists,   \* the selections: id -> [refs, mask, raw]
    Relations   \* the selections: id -> [members, mask]

VARIABLES
    ways, rels,   \* what was selected
    wayArena,     \* the finished arenas
    relArena,
    reading,      \* the ways being resolved: at most one
    it,           \* the iterator over its byte string
    line          \* the points found so far

readVars == <<ways, rels, wayArena, relArena, reading, it, line>>
storesVars == <<storeVars, readVars>>

NoArena == Arena(<<>>, <<>>)

\* The sorted reader keeps the differences the file has, the fallback makes
\* its own.
RawDeltas(ids) == [i \in DOMAIN ids |-> Delta(ids, i)]
StoredRefs(w) ==
    [bytes |-> IF w.raw THEN FromDeltas(RawDeltas(w.refs)) ELSE EncodeRefs(w.refs),
     mask  |-> w.mask]
StoredMembers(r) == [bytes |-> EncodeMembers(r.members), mask |-> r.mask]

StoresInit ==
    /\ StoreInit
    /\ ways \in WayLists
    /\ rels \in Relations
    /\ wayArena = NoArena
    /\ relArena = NoArena
    /\ reading = {}
    /\ it = Fresh
    /\ line = <<>>

BuildCoords == BuildStep /\ UNCHANGED readVars

\* `MphfArena::build`: any order of the ids may be the hash's.
LayOut ==
    /\ phase = "built"
    /\ wayArena = NoArena
    /\ \E ws \in SetToSeqs(DOMAIN ways), rs \in SetToSeqs(DOMAIN rels) :
         /\ wayArena' = Arena([w \in DOMAIN ways |-> StoredRefs(ways[w])], ws)
         /\ relArena' = Arena([r \in DOMAIN rels |-> StoredMembers(rels[r])], rs)
    /\ UNCHANGED <<storeVars, ways, rels, reading, it, line>>

\* Any slot may answer for an id the arena does not hold.
SlotAnswers(arena, id) ==
    IF id \in Range(arena.ids) THEN {i \in DOMAIN arena.ids : arena.ids[i] = id}
    ELSE 0..Len(arena.ids)

Open ==
    /\ wayArena # NoArena
    /\ reading = {}
    /\ \E w \in WayId : \E idx \in SlotAnswers(wayArena, w) :
         reading' = {[id |-> w, bytes |-> r.bytes] : r \in ArenaGet(wayArena, w, idx)}
    /\ UNCHANGED <<storeVars, ways, rels, wayArena, relArena, it, line>>

\* The next ref, and the point it stands for, if there is one.
ReadRef ==
    /\ \E r \in reading :
         /\ it.pos <= Len(r.bytes)
         /\ it' = NextRef(r.bytes, it)
    /\ line' = line \o SetToSeq({[id |-> it'.prev, point |-> p] : p \in Lookup(it'.prev)})
    /\ UNCHANGED <<storeVars, ways, rels, wayArena, relArena, reading>>

CloseWay ==
    /\ \E r \in reading : it.pos > Len(r.bytes)
    /\ reading' = {}
    /\ it' = Fresh
    /\ line' = <<>>
    /\ UNCHANGED <<storeVars, ways, rels, wayArena, relArena>>

StoresNext == BuildCoords \/ LayOut \/ Open \/ ReadRef \/ CloseWay

StoresSpec == StoresInit /\ [][StoresNext]_storesVars

\* Seeded fault: the walk for the last id starts over at the sum zero.
ArenaEndpointsRestarted(arena) ==
    UNION {LET buf   == Slice(arena, idx)
               first == NextRef(buf, Fresh)
           IN  {first.prev, LastRef(buf, [first EXCEPT !.prev = 0])} :
              idx \in {i \in DOMAIN arena.ids : arena.mask[i] # {} /\ Slice(arena, i) # <<>>}}

\* `endpoints`: the first and the last ref of every way some topic keeps.
ArenaEndpoints(arena) ==
    UNION {LET buf   == Slice(arena, idx)
               first == NextRef(buf, Fresh)
           IN  {first.prev, LastRef(buf, first)} :
              idx \in {i \in DOMAIN arena.ids : arena.mask[i] # {} /\ Slice(arena, i) # <<>>}}

\* `requests_all`: the relations in the order of their slots.
Requests(arena) ==
    [idx \in DOMAIN arena.ids |->
        [id |-> arena.ids[idx], members |-> DecodeMembers(Slice(arena, idx)), mask |-> arena.mask[idx]]]

(***************************************************************************)
(* Properties.                                                             *)
(***************************************************************************)
Points(refs) ==
    FlattenSeq([i \in DOMAIN refs |->
        SetToSeq({[id |-> refs[i], point |-> p] : p \in Collected(refs[i])})])

\* What is read is what was stored: while a way is resolved its line is that
\* of a first part of its refs, of all of them when the bytes are used up,
\* and a way that was never stored is not found.
LinesAreReadBack ==
    \A r \in reading :
        /\ r.id \in DOMAIN ways
        /\ \E k \in 0..Len(ways[r.id].refs) :
             /\ line = Points(SubSeq(ways[r.id].refs, 1, k))
             /\ it.pos > Len(r.bytes) => k = Len(ways[r.id].refs)

\* The graph's end nodes are those of the ways some topic keeps, and every
\* relation is asked for with its own members in their order and roles.
ArenasAreReadBack ==
    wayArena # NoArena =>
        /\ ArenaEndpoints(wayArena) =
             UNION {{Head(ways[w].refs), Last(ways[w].refs)} :
                 w \in {v \in DOMAIN ways : ways[v].mask # {} /\ ways[v].refs # <<>>}}
        /\ Range(Requests(relArena)) =
             {[id |-> r, members |-> rels[r].members, mask |-> rels[r].mask] : r \in DOMAIN rels}
=============================================================================
