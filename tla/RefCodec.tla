------------------------------ MODULE RefCodec ------------------------------
(***************************************************************************)
(* How the selection keeps lists (osm/reader/way_refs.rs, rel_members.rs,  *)
(* store.rs): a way's node ids and a relation's members as zigzag varints  *)
(* of wrapping differences, one byte string behind the other in an arena   *)
(* that is indexed by offsets.  The code has 64-bit ids, 7 bits per byte   *)
(* and 32-bit offsets; the widths are constants here, the arithmetic is    *)
(* that of two's complement at the width.                                  *)
(***************************************************************************)
EXTENDS Integers, SequencesExt, FiniteSetsExt

CONSTANTS
    Width,        \* bits of an id: 64 in the code
    Group,        \* bits of a varint's byte: 7 in the code
    OffsetWidth   \* bits of an offset: 32 in the code

ASSUME WidthAssumption ==
    /\ Width \in Nat /\ Width >= 2
    /\ Group \in Nat \ {0}
    /\ OffsetWidth \in Nat

\* An integer as the signed number of that width it wraps to.
Signed(x) == ((x + 2^(Width - 1)) % 2^Width) - 2^(Width - 1)

\* `(n << 1) ^ (n >> 63)`: the sign moves to the lowest bit.
ZigzagEncode(n) == IF n >= 0 THEN 2 * n ELSE -2 * n - 1

\* `(u >> 1) ^ -(u & 1)`.
ZigzagDecode(u) == IF u % 2 = 0 THEN u \div 2 ELSE -(u \div 2) - 1

\* Set on every byte of a varint but its last.
More == 2^Group

WriteVarint[v \in 0..(2^Width - 1)] ==
    IF v < More THEN <<v>> ELSE <<(v % More) + More>> \o WriteVarint[v \div More]

\* The value that starts at `pos`, and the position after it.
ReadVarint(buf, pos) ==
    LET last == Min({q \in pos..Len(buf) : buf[q] < More})
        value[q \in pos..last] ==
            (buf[q] % More) + (IF q = last THEN 0 ELSE More * value[q + 1])
    IN  [value |-> value[pos], next |-> last + 1]

\* The difference to the element before.
Delta(ids, i) == Signed(ids[i] - (IF i = 1 THEN 0 ELSE ids[i - 1]))

\* `EncodedRefs::encode`.
EncodeRefs(ids) ==
    FlattenSeq([i \in DOMAIN ids |-> WriteVarint[ZigzagEncode(Delta(ids, i))]])

\* `EncodedRefs::from_deltas`: the differences as the file has them.
FromDeltas(deltas) ==
    FlattenSeq([i \in DOMAIN deltas |-> WriteVarint[ZigzagEncode(deltas[i])]])

\* `RefsIter`: `prev` is the running sum, and the last id given.
Fresh == [pos |-> 1, prev |-> 0]

NextRef(buf, it) ==
    LET v == ReadVarint(buf, it.pos)
    IN  [pos |-> v.next, prev |-> Signed(it.prev + ZigzagDecode(v.value))]

\* The last id the iterator gives from here on; `prev` when there is none.
RECURSIVE LastRef(_, _)
LastRef(buf, it) ==
    IF it.pos > Len(buf) THEN it.prev ELSE LastRef(buf, NextRef(buf, it))

\* `EncodedMembers`: a byte for the role follows each varint.
RoleByte(role) == CASE role = "outer" -> 0 [] role = "inner" -> 1 [] role = "unknown" -> 2
RoleOf(byte)   == CASE byte = 0 -> "outer" [] byte = 1 -> "inner" [] OTHER -> "unknown"

EncodeMembers(ms) ==
    LET ids == [i \in DOMAIN ms |-> ms[i].id]
    IN  FlattenSeq([i \in DOMAIN ms |->
            Append(WriteVarint[ZigzagEncode(Delta(ids, i))], RoleByte(ms[i].role))])

RECURSIVE MembersFrom(_, _)
MembersFrom(buf, it) ==
    IF it.pos > Len(buf) THEN <<>>
    ELSE LET n == NextRef(buf, it)
         IN  <<[id |-> n.prev, role |-> RoleOf(buf[n.pos])]>>
                \o MembersFrom(buf, [n EXCEPT !.pos = n.pos + 1])

DecodeMembers(buf) == MembersFrom(buf, Fresh)

(***************************************************************************)
(* `MphfArena`: the byte strings in the order of their slots, and where    *)
(* each ends.  `stored` is a function id -> [bytes, mask]; `slots` the     *)
(* sequence of its ids in the order of the hash.                           *)
(***************************************************************************)
\* Seeded fault: an offset is noted before its string is laid down.
LateOffsets(stored, slots) ==
    [i \in 0..Len(slots) |->
        FoldLeft(LAMBDA sum, id : sum + Len(stored[id].bytes), 0, SubSeq(slots, 1, i - 1))
            % 2^OffsetWidth]

\* `as u32`: an offset past the width wraps silently.
Offsets(stored, slots) ==
    [i \in 0..Len(slots) |->
        FoldLeft(LAMBDA sum, id : sum + Len(stored[id].bytes), 0, SubSeq(slots, 1, i))
            % 2^OffsetWidth]

Arena(stored, slots) ==
    [ids     |-> slots,
     offsets |-> Offsets(stored, slots),
     bytes   |-> FlattenSeq([i \in DOMAIN slots |-> stored[slots[i]].bytes]),
     mask    |-> [i \in DOMAIN slots |-> stored[slots[i]].mask]]

\* `slot`: the bytes between two offsets.
Slice(arena, idx) == SubSeq(arena.bytes, arena.offsets[idx - 1] + 1, arena.offsets[idx])

\* `get` at the slot the hash answers with: a set of at most one record.
ArenaGet(arena, id, idx) ==
    IF idx \in DOMAIN arena.ids /\ arena.ids[idx] = id
    THEN {[bytes |-> Slice(arena, idx), mask |-> arena.mask[idx]]}
    ELSE {}
=============================================================================
