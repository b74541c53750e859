------------------------------ MODULE MCStores ------------------------------
(***************************************************************************)
(* Ids of four bits, varints of two bits per byte: an id takes one or two  *)
(* bytes, the ids at the edges make the differences wrap.                  *)
(***************************************************************************)
EXTENDS Stores

MCId == {-8, -1, 3, 7}

Record(id, i) == [id |-> id, at |-> i]

\* The hashes a list of ids may get: one to one if the ids are.
Hashes(n, ids) ==
    {h \in [MCId -> 0..n] :
        /\ \A i \in 0..(n - 1) : h[ids[i + 1]] < n
        /\ IsInjective(ids) => \A i, j \in 1..n : h[ids[i]] = h[ids[j]] => i = j}

LoadsOf(ids) ==
    LET n == Len(ids)
    IN  {[count |-> n, records |-> [i \in 0..(n - 1) |-> Record(ids[i + 1], i)],
          shared |-> s, hash |-> h] :
            s \in [0..(n - 1) -> BOOLEAN], h \in Hashes(n, ids)}

MCLoads ==
    UNION {LoadsOf(ids) : ids \in {<<>>, <<7>>, <<-1, -1>>, <<3, 7, 3>>}}
    \cup {l \in LoadsOf(<<-8, 3, 7>>) : Cardinality({i \in 0..2 : l.shared[i]}) = 1}
    \cup {l \in LoadsOf(<<-1, 7, 3, -8>>) : {i \in 0..3 : l.shared[i]} \in {{0, 2}, {1, 2}}}

StoredWay(refs, mask, raw) == [refs |-> refs, mask |-> mask, raw |-> raw]

MCWayLists ==
    {[w \in {1, 2, 3} |->
        CASE w = 1 -> StoredWay(refs, {"t"}, raw)
          [] w = 2 -> StoredWay(<<3>>, {}, FALSE)
          [] w = 3 -> StoredWay(<<7, -8, -8>>, {"t"}, ~raw)] :
        refs \in {<<>>, <<-8, 7, -1, 3>>}, raw \in BOOLEAN}

Member(id, role) == [id |-> id, role |-> role]

MCRelations ==
    {[r \in {1} |-> [members |-> <<>>, mask |-> {"t"}]],
     [r \in {1, 2} |->
        IF r = 1 THEN [members |-> <<Member(7, "inner"), Member(-8, "outer"), Member(-8, "unknown")>>, mask |-> {}]
        ELSE [members |-> <<Member(2, "outer")>>, mask |-> {"t"}]]}
=============================================================================
