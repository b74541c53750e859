--------------------------- MODULE ExportProofs ---------------------------
(***************************************************************************)
(* Theorems about Shard for every number of producers, calls and writers,  *)
(* every batch size and channel capacity, and every set of failing         *)
(* writers: type correctness, the inductive invariant, the safety          *)
(* properties it implies, and the refinement of TablePromise.              *)
(* Then theorems about the staged export for every list of calls and every *)
(* pair of files: which row may be staged ahead of which, and what the     *)
(* forward cursors give each tag row, in step with the fold or not.        *)
(***************************************************************************)
EXTENDS OrderedExport, SequenceLemmas

-----------------------------------------------------------------------------
(* Facts about ranges and unions.                                          *)

\* The empty sequence holds no row.
LEMMA RangeEmpty == Range(<<>>) = {}
BY DEF Range

\* Replacing one member of a family of sets replaces its share of the union.
LEMMA UnionReplace ==
  ASSUME NEW D, NEW f, NEW g, NEW d \in D,
         \A x \in D \ {d} : g[x] = f[x]
  PROVE  (UNION {g[x] : x \in D}) \cup f[d] = (UNION {f[x] : x \in D}) \cup g[d]
OBVIOUS

\* Appending a batch to a channel adds the batch's rows to the channel's.
LEMMA AppendRows ==
  ASSUME NEW S, NEW q \in Seq(Seq(S)), NEW b \in Seq(S)
  PROVE  RowsOf(Append(q, b)) = RowsOf(q) \cup Range(b)
<1>1. /\ DOMAIN q = 1..Len(q)
      /\ DOMAIN Append(q, b) = 1..(Len(q) + 1)
      /\ Len(q) \in Nat
      /\ \A i \in 1..Len(q) : Append(q, b)[i] = q[i]
      /\ Append(q, b)[Len(q) + 1] = b
  OBVIOUS
<1>2. 1..(Len(q) + 1) = (1..Len(q)) \cup {Len(q) + 1}
  BY <1>1
<1>. QED BY <1>1, <1>2 DEF RowsOf

\* Receiving a batch takes exactly the head's rows out of a channel.
LEMMA TailRows ==
  ASSUME NEW S, NEW q \in Seq(Seq(S)), q # <<>>
  PROVE  /\ Head(q) \in Seq(S)
         /\ RowsOf(q) = Range(Head(q)) \cup RowsOf(Tail(q))
<1>1. /\ Len(q) \in Nat \ {0}
      /\ Head(q) = q[1]
      /\ DOMAIN q = 1..Len(q)
      /\ DOMAIN Tail(q) = 1..(Len(q) - 1)
      /\ \A i \in 1..(Len(q) - 1) : Tail(q)[i] = q[i + 1]
  OBVIOUS
<1>2. \A i \in 1..Len(q) : i = 1 \/ (i - 1 \in 1..(Len(q) - 1) /\ q[i] = Tail(q)[i - 1])
  BY <1>1
<1>3. \A i \in 1..(Len(q) - 1) : i + 1 \in 1..Len(q) /\ Tail(q)[i] = q[i + 1]
  BY <1>1
<1>4. Head(q) \in Seq(S) /\ 1 \in 1..Len(q)
  BY <1>1
<1>5. ASSUME NEW r \in RowsOf(q) PROVE r \in Range(Head(q)) \cup RowsOf(Tail(q))
  <2>1. PICK i \in 1..Len(q) : r \in Range(q[i])
    BY <1>1, <1>5 DEF RowsOf
  <2>. QED BY <1>1, <1>2, <2>1 DEF RowsOf
<1>6. Range(Head(q)) \subseteq RowsOf(q)
  BY <1>1, <1>4 DEF RowsOf
<1>7. ASSUME NEW r \in RowsOf(Tail(q)) PROVE r \in RowsOf(q)
  <2>1. PICK i \in 1..(Len(q) - 1) : r \in Range(Tail(q)[i])
    BY <1>1, <1>7 DEF RowsOf
  <2>. QED BY <1>1, <1>3, <2>1 DEF RowsOf
<1>. QED BY <1>4, <1>5, <1>6, <1>7

-----------------------------------------------------------------------------
(* Type correctness.                                                       *)

\* The batch of a call is a sequence of the run's rows.
LEMMA BatchType ==
  ASSUME NEW p \in Producers, NEW i \in 1..Len(Sizes[p])
  PROVE  /\ Batch(p, i) \in Seq(Rows)
         /\ Range(Batch(p, i)) \subseteq Rows
<1>1. Sizes[p] \in Seq(Nat) /\ Sizes[p][i] \in Nat /\ Len(Sizes[p]) \in Nat
  BY ShardAssumption
<1>2. Range(Batch(p, i)) \subseteq RowsBefore(p, Len(Sizes[p]) + 1)
  BY <1>1 DEF RowsBefore
<1>3. Range(Batch(p, i)) \subseteq Rows
  BY <1>2 DEF Rows
<1>4. \A j \in 1..Sizes[p][i] : <<p, i, j>> \in Rows
  BY <1>1, <1>3 DEF Range, Batch
<1>5. Batch(p, i) \in [1..Sizes[p][i] -> Rows]
  BY <1>4 DEF Batch
<1>. QED BY <1>1, <1>3, <1>5, SeqDef

\* The lengths of the calls, and the shard of the owner's loop.
LEMMA Parameters ==
  /\ W \in Nat \ {0} /\ SendBatch \in Nat \ {0} /\ ChanCap \in Nat \ {0}
  /\ \A p \in Producers : Sizes[p] \in Seq(Nat) /\ Len(Sizes[p]) \in Nat
  /\ 0 \in Shards
BY ShardAssumption DEF Shards

\* A batch that enters a channel or is lost keeps both well typed.
LEMMA DeliverType ==
  ASSUME TypeOK, NEW k \in Shards, NEW b \in Seq(Rows), Deliver(k, b)
  PROVE  chan' \in [Shards -> Seq(Seq(Rows))] /\ lost' \subseteq Rows
<1>1. CASE writer[k] = "run" /\ chan' = [chan EXCEPT ![k] = Append(@, b)] /\ UNCHANGED lost
  <2>1. Append(chan[k], b) \in Seq(Seq(Rows))
    BY AppendProperties DEF TypeOK
  <2>. QED BY <1>1, <2>1 DEF TypeOK
<1>2. CASE lost' = lost \cup Range(b) /\ UNCHANGED chan
  BY <1>2, RangeOfSeq DEF TypeOK
<1>. QED BY <1>1, <1>2 DEF Deliver

\* Every variable keeps its type; in particular the round-robin counter always names
\* a shard that exists (sinks.rs, `fetch_add % w`).
THEOREM TypeCorrect == Spec => []TypeOK
<1>1. Init => TypeOK
  <2>. SUFFICES ASSUME Init PROVE TypeOK
    OBVIOUS
  <2>1. <<>> \in Seq(Rows) /\ <<>> \in Seq(Seq(Rows))
    BY EmptySeq
  <2>. QED BY <2>1, Parameters DEF Init, TypeOK
<1>2. TypeOK /\ [Next]_vars => TypeOK'
  <2>. SUFFICES ASSUME TypeOK, [Next]_vars PROVE TypeOK'
    OBVIOUS
  <2>e. <<>> \in Seq(Rows)
    BY EmptySeq
  <2>1. ASSUME NEW p \in Producers, Pick(p) PROVE TypeOK'
    <3>1. next[p] \in 1..Len(Sizes[p])
      BY <2>1, Parameters DEF Pick, TypeOK
    <3>2. Batch(p, next[p]) \in Seq(Rows)
      BY <3>1, BatchType
    <3>3. rr % W \in Shards
      BY Parameters DEF TypeOK, Shards
    <3>4. rr' \in Nat /\ target' \in [Producers -> Shards]
      BY <2>1, <3>3 DEF Pick, TypeOK
    <3>5. next' \in [Producers -> Nat \ {0}]
      BY <2>1 DEF Pick, TypeOK
    <3>6. held' \in [Producers -> Seq(Rows)]
      BY <2>1, <3>2 DEF Pick, TypeOK
    <3>7. pc' \in [Producers -> {"idle", "buffer", "send"}]
      BY <2>1 DEF Pick, TypeOK
    <3>8. UNCHANGED <<buf, chan, written, writer, lost, stage, cursor, count>>
      BY <2>1 DEF Pick, owner
    <3>. QED BY <3>4, <3>5, <3>6, <3>7, <3>8 DEF TypeOK
  <2>2. ASSUME NEW p \in Producers, Buffer(p) PROVE TypeOK'
    <3>1. target[p] \in Shards /\ buf[target[p]] \o held[p] \in Seq(Rows)
      BY ConcatProperties DEF TypeOK
    <3>. QED BY <2>2, <3>1, <2>e DEF Buffer, TypeOK, owner
  <2>3. ASSUME NEW p \in Producers, Send(p) PROVE TypeOK'
    <3>1. chan' \in [Shards -> Seq(Seq(Rows))] /\ lost' \subseteq Rows
      BY <2>3, DeliverType DEF Send, TypeOK
    <3>. QED BY <2>3, <3>1, <2>e DEF Send, TypeOK, owner
  <2>4. ASSUME NEW k \in Shards, Write(k) PROVE TypeOK'
    <3>1. Head(chan[k]) \in Seq(Rows) /\ Tail(chan[k]) \in Seq(Seq(Rows))
      BY <2>4, HeadTailProperties DEF Write, TypeOK
    <3>2. written[k] \o Head(chan[k]) \in Seq(Rows)
      BY <3>1, ConcatProperties DEF TypeOK
    <3>. QED BY <2>4, <3>1, <3>2 DEF Write, TypeOK, owner, sending
  <2>5. ASSUME NEW k \in Shards, EndOfRows(k) PROVE TypeOK'
    BY <2>5 DEF EndOfRows, TypeOK, owner, sending
  <2>6. ASSUME NEW k \in Shards, Fail(k) PROVE TypeOK'
    <3>1. ChanRows(k) \subseteq Rows
      <4>1. \A i \in DOMAIN chan[k] : chan[k][i] \in Seq(Rows)
        BY ElementOfSeq, LenProperties DEF TypeOK
      <4>. QED BY <4>1, RangeOfSeq DEF ChanRows, RowsOf
    <3>2. <<>> \in Seq(Seq(Rows))
      BY EmptySeq
    <3>. QED BY <2>6, <3>1, <3>2 DEF Fail, TypeOK, owner, sending
  <2>7. CASE BeginFinish
    BY <2>7, Parameters DEF BeginFinish, TypeOK, sending
  <2>8. CASE Flush
    <3>1. cursor \in Shards /\ cursor + 1 \in 0..W
      BY <2>8, Parameters DEF Flush, TypeOK, Shards
    <3>2. chan' \in [Shards -> Seq(Seq(Rows))] /\ lost' \subseteq Rows
      BY <2>8, <3>1, DeliverType DEF Flush, TypeOK
    <3>. QED BY <2>8, <3>1, <3>2, <2>e DEF Flush, TypeOK, sending
  <2>9. CASE DropSenders
    BY <2>9, Parameters DEF DropSenders, TypeOK, sending
  <2>10. CASE Await
    <3>1. cursor \in Shards /\ cursor + 1 \in 0..W
      BY <2>10, Parameters DEF Await, TypeOK, Shards
    <3>2. Len(written[cursor]) \in Nat
      BY <3>1, LenProperties DEF TypeOK
    <3>. QED BY <2>10, <3>1, <3>2 DEF Await, TypeOK, sending
  <2>11. CASE Succeed
    BY <2>11 DEF Succeed, TypeOK, sending
  <2>12. CASE Stopped \/ UNCHANGED vars
    BY <2>12 DEF Stopped, TypeOK, vars
  <2>. QED BY <2>1, <2>2, <2>3, <2>4, <2>5, <2>6, <2>7, <2>8, <2>9, <2>10, <2>11, <2>12 DEF Next
<1>. QED BY <1>1, <1>2, PTL DEF Spec

-----------------------------------------------------------------------------
(* The inductive invariant.                                                *)

\* A producer outside `send` carries nothing and has made a prefix of its calls.
Resting ==
  \A p \in Producers :
    /\ pc[p] = "idle" => held[p] = <<>>
    /\ next[p] <= Len(Sizes[p]) + 1

\* `finish` owns the table: nobody sends behind it, and what it has flushed stays empty.
Owned ==
  /\ stage # "routing" => Returned
  /\ \A k \in Shards :
       Closed \/ (stage = "flushing" /\ k < cursor) => buf[k] = <<>>

\* A writer that returned Ok had its channel closed and drained, and an awaited handle
\* is one of those.
Settled ==
  \A k \in Shards :
    /\ writer[k] = "done" => Closed /\ chan[k] = <<>>
    /\ stage = "ok" \/ (stage = "awaiting" /\ k < cursor) => writer[k] = "done"

\* Only a failed writer loses rows.
LossHasCause == lost # {} => \E k \in Shards : writer[k] = "failed"

Phases == TypeOK /\ Resting /\ Owned /\ Settled /\ LossHasCause /\ Bounded

IInv == Phases /\ Conserved

\* A delivered batch goes to a living writer's channel, within its capacity, or is lost
\* to a failed one.
LEMMA DeliverPhases ==
  ASSUME Phases, NEW k \in Shards, NEW b \in Seq(Rows), Deliver(k, b)
  PROVE  /\ \A m \in Shards : chan'[m] = chan[m] \/ writer[m] = "run"
         /\ \A m \in Shards : Len(chan'[m]) <= ChanCap
         /\ lost' # {} => \E m \in Shards : writer[m] = "failed"
<1>1. CASE /\ writer[k] = "run" /\ Len(chan[k]) < ChanCap
           /\ chan' = [chan EXCEPT ![k] = Append(@, b)] /\ UNCHANGED lost
  <2>1. Len(Append(chan[k], b)) = Len(chan[k]) + 1 /\ Len(chan[k]) \in Nat
    BY AppendProperties, LenProperties DEF Phases, TypeOK
  <2>. QED BY <1>1, <2>1, Parameters DEF Phases, TypeOK, Bounded, LossHasCause
<1>2. CASE writer[k] = "failed" /\ UNCHANGED chan
  BY <1>2 DEF Phases, Bounded
<1>. QED BY <1>1, <1>2 DEF Deliver

LEMMA PhasesInit == Init => Phases
<1>. SUFFICES ASSUME Init PROVE Phases
  OBVIOUS
<1>1. TypeOK
  <2>1. <<>> \in Seq(Rows) /\ <<>> \in Seq(Seq(Rows))
    BY EmptySeq
  <2>. QED BY <2>1, Parameters DEF Init, TypeOK
<1>2. Resting
  BY Parameters DEF Init, Resting
<1>3. Owned /\ Settled /\ LossHasCause
  BY DEF Init, Owned, Settled, LossHasCause, Closed
<1>4. Bounded
  BY Parameters DEF Init, Bounded
<1>. QED BY <1>1, <1>2, <1>3, <1>4 DEF Phases

\* Every step of the table keeps the phases in order.
LEMMA PhasesStep == Phases /\ TypeOK' /\ [Next]_vars => Phases'
<1>. SUFFICES ASSUME Phases, TypeOK', [Next]_vars PROVE Phases'
  OBVIOUS
<1>. USE DEF Phases
<1>0. \A p \in Producers : pc[p] # "idle" \/ next[p] <= Len(Sizes[p]) => stage = "routing"
  <2>. SUFFICES ASSUME NEW p \in Producers, pc[p] # "idle" \/ next[p] <= Len(Sizes[p])
                PROVE  stage = "routing"
    OBVIOUS
  <2>1. next[p] \in Nat /\ Len(Sizes[p]) \in Nat
    BY Parameters DEF TypeOK
  <2>. QED BY <2>1 DEF Owned, Returned
<1>1. ASSUME NEW p \in Producers, Pick(p) PROVE Phases'
  <2>1. stage = "routing"
    BY <1>0, <1>1 DEF Pick
  <2>2. Resting'
    <3>1. next[p] \in Nat /\ Len(Sizes[p]) \in Nat
      BY Parameters DEF TypeOK
    <3>2. pc'[p] # "idle" /\ next'[p] = next[p] + 1 /\ next[p] <= Len(Sizes[p])
      BY <1>1 DEF Pick, TypeOK
    <3>3. \A q \in Producers \ {p} : pc'[q] = pc[q] /\ next'[q] = next[q] /\ held'[q] = held[q]
      BY <1>1 DEF Pick, TypeOK
    <3>. QED BY <3>1, <3>2, <3>3 DEF Resting
  <2>. QED BY <1>1, <2>1, <2>2
          DEF Pick, Owned, Settled, LossHasCause, Bounded, Closed, owner
<1>2. ASSUME NEW p \in Producers, Buffer(p) PROVE Phases'
  <2>1. stage = "routing" /\ target[p] \in Shards
    BY <1>0, <1>2 DEF Buffer, TypeOK
  <2>2. Resting'
    BY <1>2 DEF Buffer, Resting, TypeOK
  <2>3. Bounded'
    <3>1. Len(buf[target[p]] \o held[p]) \in Nat
      BY <2>1, ConcatProperties, LenProperties DEF TypeOK
    <3>. QED BY <1>2, <2>1, <3>1, Parameters DEF Buffer, Bounded, TypeOK
  <2>. QED BY <1>2, <2>1, <2>2, <2>3
          DEF Buffer, Owned, Settled, LossHasCause, Closed, owner
<1>3. ASSUME NEW p \in Producers, Send(p) PROVE Phases'
  <2>1. stage = "routing" /\ target[p] \in Shards /\ held[p] \in Seq(Rows)
    BY <1>0, <1>3 DEF Send, TypeOK
  <2>2. /\ \A m \in Shards : chan'[m] = chan[m] \/ writer[m] = "run"
        /\ \A m \in Shards : Len(chan'[m]) <= ChanCap
        /\ lost' # {} => \E m \in Shards : writer[m] = "failed"
    BY <1>3, <2>1, DeliverPhases DEF Send
  <2>3. Resting'
    BY <1>3 DEF Send, Resting, TypeOK
  <2>. QED BY <1>3, <2>1, <2>2, <2>3
          DEF Send, Owned, Settled, LossHasCause, Bounded, Closed, owner
<1>4. ASSUME NEW k \in Shards, Write(k) PROVE Phases'
  <2>1. Len(Tail(chan[k])) <= ChanCap
    <3>1. Len(Tail(chan[k])) = Len(chan[k]) - 1 /\ Len(chan[k]) \in Nat
      BY <1>4, HeadTailProperties, LenProperties DEF Write, TypeOK
    <3>. QED BY <3>1, Parameters DEF Bounded
  <2>. QED BY <1>4, <2>1
          DEF Write, TypeOK, Resting, Owned, Returned, Settled, LossHasCause, Bounded, Closed,
              owner, sending
<1>5. ASSUME NEW k \in Shards, EndOfRows(k) PROVE Phases'
  <2>1. LossHasCause'
    BY <1>5 DEF EndOfRows, TypeOK, LossHasCause
  <2>2. Settled'
    BY <1>5 DEF EndOfRows, TypeOK, Settled, Closed, owner
  <2>. QED BY <1>5, <2>1, <2>2
          DEF EndOfRows, Resting, Owned, Returned, Bounded, Closed, owner, sending
<1>6. ASSUME NEW k \in Shards, Fail(k) PROVE Phases'
  <2>1. LossHasCause'
    BY <1>6 DEF Fail, TypeOK, LossHasCause
  <2>2. Bounded'
    BY <1>6, Parameters DEF Fail, TypeOK, Bounded
  <2>. QED BY <1>6, <2>1, <2>2
          DEF Fail, TypeOK, Resting, Owned, Returned, Settled, Closed, owner, sending
<1>7. CASE BeginFinish
  BY <1>7 DEF BeginFinish, Resting, Owned, Returned, Settled, LossHasCause, Bounded, Closed,
              sending, Shards
<1>8. CASE Flush
  <2>1. cursor \in Shards /\ cursor \in Nat
    BY <1>8 DEF Flush, TypeOK, Shards
  <2>2. /\ \A m \in Shards : chan'[m] = chan[m] \/ writer[m] = "run"
        /\ \A m \in Shards : Len(chan'[m]) <= ChanCap
        /\ lost' # {} => \E m \in Shards : writer[m] = "failed"
    <3>1. CASE buf[cursor] = <<>>
      BY <1>8, <3>1 DEF Flush, Bounded, LossHasCause
    <3>2. CASE buf[cursor] # <<>>
      BY <1>8, <2>1, <3>2, DeliverPhases DEF Flush, TypeOK
    <3>. QED BY <3>1, <3>2
  <2>3. \A k \in Shards : k < cursor + 1 => k < cursor \/ k = cursor
    BY <2>1 DEF Shards
  <2>4. \A k \in Shards : buf'[k] = buf[k] \/ buf'[k] = <<>>
    BY <1>8, <2>1 DEF Flush, TypeOK
  <2>5. buf'[cursor] = <<>>
    BY <1>8, <2>1 DEF Flush, TypeOK
  <2>6. Owned'
    BY <1>8, <2>3, <2>4, <2>5 DEF Flush, Owned, Returned, Closed, sending
  <2>7. Bounded'
    BY <2>2, <2>4, Parameters DEF Bounded
  <2>8. Resting' /\ Settled' /\ LossHasCause'
    BY <1>8, <2>2 DEF Flush, Resting, Settled, LossHasCause, Closed, sending
  <2>. QED BY <2>6, <2>7, <2>8
<1>9. CASE DropSenders
  <2>1. \A k \in Shards : k < W /\ ~(k < 0)
    BY Parameters DEF Shards
  <2>. QED BY <1>9, <2>1
          DEF DropSenders, Resting, Owned, Returned, Settled, LossHasCause, Bounded, Closed, sending
<1>10. CASE Await
  <2>1. \A k \in Shards : cursor \in Nat /\ (k < cursor + 1 => k < cursor \/ k = cursor)
    BY DEF Shards, TypeOK
  <2>. QED BY <1>10, <2>1
          DEF Await, Resting, Owned, Returned, Settled, LossHasCause, Bounded, Closed, sending
<1>11. CASE Succeed
  <2>1. \A k \in Shards : k < W
    BY Parameters DEF Shards
  <2>. QED BY <1>11, <2>1
          DEF Succeed, Resting, Owned, Returned, Settled, LossHasCause, Bounded, Closed, sending
<1>12. CASE Stopped \/ UNCHANGED vars
  BY <1>12 DEF Stopped, Resting, Owned, Returned, Settled, LossHasCause, Bounded, Closed, vars
<1>. QED BY <1>1, <1>2, <1>3, <1>4, <1>5, <1>6, <1>7, <1>8, <1>9, <1>10, <1>11, <1>12 DEF Next

-----------------------------------------------------------------------------
(* Where the rows are, step by step.                                       *)

\* The effect of one assignment on the rows of each place.
LEMMA HeldReplaced ==
  ASSUME TypeOK, NEW p \in Producers, NEW v, held' = [held EXCEPT ![p] = v]
  PROVE  Held' \cup Range(held[p]) = Held \cup Range(v)
<1>. DEFINE f == [q \in Producers |-> Range(held[q])]
            g == [q \in Producers |-> Range(held'[q])]
<1>1. g[p] = Range(v) /\ \A q \in Producers \ {p} : g[q] = f[q]
  BY DEF TypeOK
<1>2. Held = UNION {f[q] : q \in Producers} /\ Held' = UNION {g[q] : q \in Producers}
  BY DEF Held
<1>3. (UNION {g[q] : q \in Producers}) \cup f[p] = (UNION {f[q] : q \in Producers}) \cup g[p]
  <2>. HIDE DEF f, g
  <2>. QED BY <1>1, UnionReplace
<1>. QED BY <1>1, <1>2, <1>3

LEMMA BufferReplaced ==
  ASSUME TypeOK, NEW k \in Shards, NEW v, buf' = [buf EXCEPT ![k] = v]
  PROVE  Buffered' \cup Range(buf[k]) = Buffered \cup Range(v)
<1>. DEFINE f == [m \in Shards |-> Range(buf[m])]
            g == [m \in Shards |-> Range(buf'[m])]
<1>1. g[k] = Range(v) /\ \A m \in Shards \ {k} : g[m] = f[m]
  BY DEF TypeOK
<1>2. Buffered = UNION {f[m] : m \in Shards} /\ Buffered' = UNION {g[m] : m \in Shards}
  BY DEF Buffered
<1>3. (UNION {g[m] : m \in Shards}) \cup f[k] = (UNION {f[m] : m \in Shards}) \cup g[k]
  <2>. HIDE DEF f, g
  <2>. QED BY <1>1, UnionReplace
<1>. QED BY <1>1, <1>2, <1>3

LEMMA WrittenReplaced ==
  ASSUME TypeOK, NEW k \in Shards, NEW v, written' = [written EXCEPT ![k] = v]
  PROVE  Written' \cup Range(written[k]) = Written \cup Range(v)
<1>. DEFINE f == [m \in Shards |-> Range(written[m])]
            g == [m \in Shards |-> Range(written'[m])]
<1>1. g[k] = Range(v) /\ \A m \in Shards \ {k} : g[m] = f[m]
  BY DEF TypeOK
<1>2. Written = UNION {f[m] : m \in Shards} /\ Written' = UNION {g[m] : m \in Shards}
  BY DEF Written
<1>3. (UNION {g[m] : m \in Shards}) \cup f[k] = (UNION {f[m] : m \in Shards}) \cup g[k]
  <2>. HIDE DEF f, g
  <2>. QED BY <1>1, UnionReplace
<1>. QED BY <1>1, <1>2, <1>3

LEMMA ChanReplaced ==
  ASSUME TypeOK, NEW k \in Shards, NEW v, chan' = [chan EXCEPT ![k] = v]
  PROVE  Queued' \cup ChanRows(k) = Queued \cup RowsOf(v)
<1>. DEFINE f == [m \in Shards |-> ChanRows(m)]
            g == [m \in Shards |-> ChanRows(m)']
<1>1. chan'[k] = v /\ \A m \in Shards \ {k} : chan'[m] = chan[m]
  BY DEF TypeOK
<1>2. g[k] = RowsOf(v) /\ \A m \in Shards \ {k} : g[m] = f[m]
  BY <1>1 DEF ChanRows
<1>3. Queued = UNION {f[m] : m \in Shards} /\ Queued' = UNION {g[m] : m \in Shards}
  BY DEF Queued
<1>4. (UNION {g[m] : m \in Shards}) \cup f[k] = (UNION {f[m] : m \in Shards}) \cup g[k]
  <2>. HIDE DEF f, g
  <2>. QED BY <1>2, UnionReplace
<1>. QED BY <1>2, <1>3, <1>4

\* A delivery moves exactly its batch into the queues or the loss.
LEMMA DeliverMoves ==
  ASSUME TypeOK, NEW k \in Shards, NEW b \in Seq(Rows), Deliver(k, b)
  PROVE  Queued' \cup lost' = Queued \cup lost \cup Range(b)
<1>1. CASE writer[k] = "run" /\ chan' = [chan EXCEPT ![k] = Append(@, b)] /\ UNCHANGED lost
  <2>1. Queued' \cup ChanRows(k) = Queued \cup ChanRows(k) \cup Range(b)
    <3>1. chan[k] \in Seq(Seq(Rows))
      BY DEF TypeOK
    <3>2. RowsOf(Append(chan[k], b)) = ChanRows(k) \cup Range(b)
      BY <3>1, AppendRows DEF ChanRows
    <3>. QED BY <1>1, <3>2, ChanReplaced
  <2>2. ChanRows(k) \subseteq Queued
    BY DEF Queued
  <2>3. ChanRows(k) \subseteq Queued'
    <3>1. \A i \in DOMAIN chan[k] : i \in DOMAIN chan'[k] /\ chan'[k][i] = chan[k][i]
      BY <1>1, AppendProperties, LenProperties DEF TypeOK
    <3>. QED BY <3>1 DEF ChanRows, RowsOf, Queued
  <2>. QED BY <1>1, <2>1, <2>2, <2>3
<1>2. CASE lost' = lost \cup Range(b) /\ UNCHANGED chan
  BY <1>2 DEF Queued, ChanRows
<1>. QED BY <1>1, <1>2 DEF Deliver

-----------------------------------------------------------------------------
(* Conservation of rows.                                                   *)

\* A call adds its batch to what has been sent.
LEMMA SentByPick ==
  ASSUME Phases, NEW p \in Producers, Pick(p)
  PROVE  Sent' = Sent \cup Range(Batch(p, next[p]))
<1>1. next[p] \in Nat \ {0} /\ next' = [next EXCEPT ![p] = next[p] + 1]
  BY DEF Phases, TypeOK, Pick
<1>2. 1..(next[p] + 1 - 1) = (1..(next[p] - 1)) \cup {next[p]}
  BY <1>1
<1>3. RowsBefore(p, next[p] + 1) = RowsBefore(p, next[p]) \cup Range(Batch(p, next[p]))
  BY <1>2 DEF RowsBefore
<1>. DEFINE f == [q \in Producers |-> RowsBefore(q, next[q])]
            g == [q \in Producers |-> RowsBefore(q, next'[q])]
<1>4. g[p] = f[p] \cup Range(Batch(p, next[p])) /\ \A q \in Producers \ {p} : g[q] = f[q]
  BY <1>1, <1>3 DEF Phases, TypeOK
<1>5. Sent = UNION {f[q] : q \in Producers} /\ Sent' = UNION {g[q] : q \in Producers}
  BY DEF Sent, RowsBefore, Batch
<1>6. UNION {g[q] : q \in Producers}
        = (UNION {f[q] : q \in Producers}) \cup Range(Batch(p, next[p]))
  <2>. HIDE DEF f, g
  <2>. QED BY <1>4
<1>. QED BY <1>5, <1>6

\* In the initial state nothing is anywhere.
LEMMA ConservedInit == Init => Conserved
<1>. SUFFICES ASSUME Init PROVE Conserved
  OBVIOUS
<1>1. Sent = {}
  BY DEF Init, Sent, RowsBefore
<1>2. Held = {} /\ Buffered = {} /\ Queued = {} /\ Written = {} /\ lost = {}
  BY DEF Init, Held, Buffered, Queued, ChanRows, RowsOf, Written, Range
<1>. QED BY <1>1, <1>2 DEF Conserved

\* No step makes a routed row disappear from, or an unrouted one appear in, the places
\* a row can be.
LEMMA ConservedStep == Phases /\ Conserved /\ [Next]_vars => Conserved'
<1>. SUFFICES ASSUME Phases, Conserved, [Next]_vars PROVE Conserved'
  OBVIOUS
<1>. USE DEF Phases
<1>a. UNCHANGED next => Sent' = Sent
  BY DEF Sent, RowsBefore, Batch
<1>b. UNCHANGED held => Held' = Held
  BY DEF Held
<1>c. UNCHANGED buf => Buffered' = Buffered
  BY DEF Buffered
<1>d. UNCHANGED chan => Queued' = Queued
  BY DEF Queued, ChanRows, RowsOf
<1>e. UNCHANGED written => Written' = Written
  BY DEF Written
<1>1. ASSUME NEW p \in Producers, Pick(p) PROVE Conserved'
  <2>1. Held' = Held \cup Range(Batch(p, next[p]))
    <3>1. held[p] = <<>> /\ held' = [held EXCEPT ![p] = Batch(p, next[p])]
      BY <1>1 DEF Pick, Resting
    <3>. QED BY <3>1, HeldReplaced, RangeEmpty
  <2>2. Sent' = Sent \cup Range(Batch(p, next[p]))
    BY <1>1, SentByPick
  <2>. QED BY <1>1, <2>1, <2>2, <1>c, <1>d, <1>e DEF Pick, Conserved
<1>2. ASSUME NEW p \in Producers, Buffer(p) PROVE Conserved'
  <2>. DEFINE k == target[p]
              b == buf[k] \o held[p]
  <2>1. k \in Shards /\ Range(b) = Range(buf[k]) \cup Range(held[p])
    BY RangeConcatenation DEF TypeOK
  <2>2. Range(held[p]) \subseteq Held /\ Range(buf[k]) \subseteq Buffered
    BY <2>1 DEF Held, Buffered
  <2>3. CASE buf' = [buf EXCEPT ![k] = <<>>] /\ held' = [held EXCEPT ![p] = b]
    <3>1. Held' \cup Range(held[p]) = Held \cup Range(b) /\ Range(held'[p]) \subseteq Held'
      BY <2>3, HeldReplaced DEF Held
    <3>2. Range(b) \subseteq Held'
      BY <2>3, <3>1 DEF TypeOK
    <3>3. Buffered' \cup Range(buf[k]) = Buffered
      BY <2>1, <2>3, BufferReplaced, RangeEmpty
    <3>4. Held' \cup Buffered' = Held \cup Buffered
      BY <2>1, <2>2, <3>1, <3>2, <3>3
    <3>. QED BY <1>2, <3>4, <1>a, <1>d, <1>e DEF Buffer, Conserved
  <2>4. CASE buf' = [buf EXCEPT ![k] = b] /\ held' = [held EXCEPT ![p] = <<>>]
    <3>1. Held' \cup Range(held[p]) = Held
      BY <2>4, HeldReplaced, RangeEmpty
    <3>2. Buffered' \cup Range(buf[k]) = Buffered \cup Range(b)
      BY <2>1, <2>4, BufferReplaced
    <3>3. Range(b) \subseteq Buffered'
      BY <2>1, <2>4 DEF Buffered, TypeOK
    <3>4. Held' \cup Buffered' = Held \cup Buffered
      BY <2>1, <2>2, <3>1, <3>2, <3>3
    <3>. QED BY <1>2, <3>4, <1>a, <1>d, <1>e DEF Buffer, Conserved
  <2>. QED BY <1>2, <2>3, <2>4 DEF Buffer
<1>3. ASSUME NEW p \in Producers, Send(p) PROVE Conserved'
  <2>1. target[p] \in Shards /\ held[p] \in Seq(Rows)
    BY DEF TypeOK
  <2>2. Queued' \cup lost' = Queued \cup lost \cup Range(held[p])
    BY <1>3, <2>1, DeliverMoves DEF Send
  <2>3. Held' \cup Range(held[p]) = Held
    BY <1>3, HeldReplaced, RangeEmpty DEF Send
  <2>. QED BY <1>3, <2>2, <2>3, <1>a, <1>c, <1>e DEF Send, Conserved
<1>4. ASSUME NEW k \in Shards, Write(k) PROVE Conserved'
  <2>1. chan[k] \in Seq(Seq(Rows)) /\ chan[k] # <<>> /\ written[k] \in Seq(Rows)
    BY <1>4 DEF Write, TypeOK
  <2>2. /\ Head(chan[k]) \in Seq(Rows)
        /\ ChanRows(k) = Range(Head(chan[k])) \cup RowsOf(Tail(chan[k]))
    BY <2>1, TailRows DEF ChanRows
  <2>3. Queued' \cup ChanRows(k) = Queued \cup RowsOf(Tail(chan[k])) /\ ChanRows(k) \subseteq Queued
    BY <1>4, ChanReplaced DEF Write, Queued
  <2>4. RowsOf(Tail(chan[k])) \subseteq Queued'
    <3>1. chan'[k] = Tail(chan[k])
      BY <1>4 DEF Write, TypeOK
    <3>. QED BY <3>1 DEF Queued, ChanRows
  <2>5. Range(written[k] \o Head(chan[k])) = Range(written[k]) \cup Range(Head(chan[k]))
    BY <2>1, <2>2, RangeConcatenation
  <2>6. /\ Written' \cup Range(written[k]) = Written \cup Range(written[k]) \cup Range(Head(chan[k]))
        /\ Range(written[k]) \subseteq Written
    BY <1>4, <2>5, WrittenReplaced DEF Write, Written
  <2>7. Range(written[k]) \cup Range(Head(chan[k])) \subseteq Written'
    BY <1>4, <2>5 DEF Write, TypeOK, Written
  <2>8. Queued' \cup Written' = Queued \cup Written
    BY <2>2, <2>3, <2>4, <2>6, <2>7
  <2>. QED BY <1>4, <2>8, <1>a, <1>b, <1>c DEF Write, Conserved, sending
<1>5. ASSUME NEW k \in Shards, EndOfRows(k) PROVE Conserved'
  BY <1>5, <1>a, <1>b, <1>c, <1>d, <1>e DEF EndOfRows, Conserved, sending
<1>6. ASSUME NEW k \in Shards, Fail(k) PROVE Conserved'
  <2>1. RowsOf(<<>>) = {}
    BY DEF RowsOf
  <2>2. Queued' \cup ChanRows(k) = Queued
    BY <1>6, <2>1, ChanReplaced DEF Fail
  <2>. QED BY <1>6, <2>2, <1>a, <1>b, <1>c, <1>e DEF Fail, Conserved, sending
<1>7. CASE BeginFinish
  BY <1>7, <1>a, <1>b, <1>c, <1>d, <1>e DEF BeginFinish, Conserved, sending
<1>8. CASE Flush
  <2>1. cursor \in Shards /\ buf[cursor] \in Seq(Rows)
    <3>1. cursor \in Shards
      BY <1>8, Parameters DEF Flush, TypeOK, Shards
    <3>. QED BY <3>1 DEF TypeOK
  <2>2. Buffered' \cup Range(buf[cursor]) = Buffered
    BY <1>8, <2>1, BufferReplaced, RangeEmpty DEF Flush
  <2>3. Queued' \cup lost' = Queued \cup lost \cup Range(buf[cursor])
    <3>1. CASE buf[cursor] = <<>>
      BY <1>8, <3>1, <1>d, RangeEmpty DEF Flush
    <3>2. CASE buf[cursor] # <<>>
      BY <1>8, <2>1, <3>2, DeliverMoves DEF Flush
    <3>. QED BY <3>1, <3>2
  <2>. QED BY <1>8, <2>2, <2>3, <1>a, <1>b, <1>e DEF Flush, Conserved, sending
<1>9. CASE DropSenders
  BY <1>9, <1>a, <1>b, <1>c, <1>d, <1>e DEF DropSenders, Conserved, sending
<1>10. CASE Await
  BY <1>10, <1>a, <1>b, <1>c, <1>d, <1>e DEF Await, Conserved, sending
<1>11. CASE Succeed
  BY <1>11, <1>a, <1>b, <1>c, <1>d, <1>e DEF Succeed, Conserved, sending
<1>12. CASE Stopped \/ UNCHANGED vars
  BY <1>12, <1>a, <1>b, <1>c, <1>d, <1>e DEF Stopped, Conserved, vars
<1>. QED BY <1>1, <1>2, <1>3, <1>4, <1>5, <1>6, <1>7, <1>8, <1>9, <1>10, <1>11, <1>12 DEF Next

-----------------------------------------------------------------------------
(* Every row is in one place, once.                                        *)

\* A family of sequences that repeats no item, within a sequence or across two.
Once(D, f) ==
  \A d, e \in D : \A i \in DOMAIN f[d], j \in DOMAIN f[e] : f[d][i] = f[e][j] => d = e /\ i = j

\* The same of the batches of all channels.
QueuedOnce ==
  \A k, m \in Shards : \A i \in DOMAIN chan[k], j \in DOMAIN chan[m] :
    \A a \in DOMAIN chan[k][i], b \in DOMAIN chan[m][j] :
      chan[k][i][a] = chan[m][j][b] => k = m /\ i = j /\ a = b

\* No row is in two places, or twice in one.
Apart ==
  /\ Once(Producers, held) /\ Once(Shards, buf) /\ Once(Shards, written) /\ QueuedOnce
  /\ Held \cap Buffered = {} /\ Held \cap Queued = {} /\ Held \cap Written = {}
  /\ Buffered \cap Queued = {} /\ Buffered \cap Written = {} /\ Queued \cap Written = {}

\* The rows of the writers whose handle has been awaited, and their number.
AwaitedRows == UNION {Range(written[k]) : k \in 0..(cursor - 1)}

\* Until it awaits one, the owner has counted nothing.
Counted ==
  /\ stage \in {"routing", "flushing"} => count = 0
  /\ stage \in {"awaiting", "ok"} => IsFiniteSet(AwaitedRows) /\ count = Cardinality(AwaitedRows)
  /\ stage = "ok" => cursor = W

\* A member of such a family is injective.
LEMMA OnceInjective ==
  ASSUME NEW D, NEW f, NEW d \in D, Once(D, f)
  PROVE  IsInjective(f[d])
BY DEF Once, IsInjective

\* Replacing a member by a sequence of items the others do not hold changes exactly that
\* member's share of the union.
LEMMA OnceReplaced ==
  ASSUME NEW D, NEW f, NEW g, NEW d \in D, NEW U, NEW V,
         Once(D, f), \A x \in D \ {d} : g[x] = f[x],
         U = UNION {Range(f[x]) : x \in D}, V = UNION {Range(g[x]) : x \in D},
         IsInjective(g[d]), Range(g[d]) \cap U \subseteq Range(f[d])
  PROVE  Once(D, g) /\ V = (U \ Range(f[d])) \cup Range(g[d])
<1>1. \A x \in D \ {d} : Range(f[x]) \cap Range(f[d]) = {}
  BY DEF Once, Range
<1>2. \A x \in D \ {d} : Range(g[x]) = Range(f[x]) /\ Range(g[x]) \cap Range(g[d]) = {}
  BY <1>1
<1>3. V = (U \ Range(f[d])) \cup Range(g[d])
  BY <1>1, <1>2
<1>4. ASSUME NEW a \in D, NEW b \in D, NEW i \in DOMAIN g[a], NEW j \in DOMAIN g[b], g[a][i] = g[b][j]
      PROVE  a = b /\ i = j
  <2>1. g[a][i] \in Range(g[a]) /\ g[b][j] \in Range(g[b])
    BY DEF Range
  <2>2. CASE a = d /\ b = d
    BY <1>4, <2>2 DEF IsInjective
  <2>3. CASE a # d /\ b # d
    BY <1>4, <2>3 DEF Once
  <2>4. CASE (a = d /\ b # d) \/ (a # d /\ b = d)
    BY <1>2, <1>4, <2>1, <2>4
  <2>. QED BY <2>2, <2>3, <2>4
<1>. QED BY <1>3, <1>4 DEF Once

\* The concatenation of two disjoint injective sequences is injective.
LEMMA ConcatInjective ==
  ASSUME NEW S, NEW s \in Seq(S), NEW t \in Seq(S), IsInjective(s), IsInjective(t),
         Range(s) \cap Range(t) = {}
  PROVE  IsInjective(s \o t)
<1>1. /\ Len(s) \in Nat /\ Len(t) \in Nat /\ DOMAIN s = 1..Len(s) /\ DOMAIN t = 1..Len(t)
      /\ DOMAIN (s \o t) = 1..(Len(s) + Len(t))
      /\ \A i \in 1..(Len(s) + Len(t)) : (s \o t)[i] = IF i <= Len(s) THEN s[i] ELSE t[i - Len(s)]
  BY ConcatProperties, LenProperties
<1>2. ASSUME NEW i \in 1..(Len(s) + Len(t)), NEW j \in 1..(Len(s) + Len(t)), (s \o t)[i] = (s \o t)[j]
      PROVE  i = j
  <2>1. CASE i <= Len(s) /\ j <= Len(s)
    BY <1>1, <1>2, <2>1 DEF IsInjective
  <2>2. CASE i > Len(s) /\ j > Len(s)
    <3>1. i - Len(s) \in 1..Len(t) /\ j - Len(s) \in 1..Len(t)
      BY <1>1, <2>2
    <3>2. t[i - Len(s)] = t[j - Len(s)]
      BY <1>1, <1>2, <2>2
    <3>. QED BY <1>1, <3>1, <3>2 DEF IsInjective
  <2>3. CASE i <= Len(s) /\ j > Len(s)
    <3>1. i \in 1..Len(s) /\ j - Len(s) \in 1..Len(t) /\ s[i] = t[j - Len(s)]
      BY <1>1, <1>2, <2>3
    <3>. QED BY <1>1, <3>1 DEF Range
  <2>4. CASE i > Len(s) /\ j <= Len(s)
    <3>1. j \in 1..Len(s) /\ i - Len(s) \in 1..Len(t) /\ s[j] = t[i - Len(s)]
      BY <1>1, <1>2, <2>4
    <3>. QED BY <1>1, <3>1 DEF Range
  <2>. QED BY <1>1, <2>1, <2>2, <2>3, <2>4
<1>. QED BY <1>1, <1>2 DEF IsInjective

\* A sequence that repeats nothing has as many items as positions.
LEMMA InjectiveCount ==
  ASSUME NEW S, NEW s \in Seq(S), IsInjective(s)
  PROVE  IsFiniteSet(Range(s)) /\ Cardinality(Range(s)) = Len(s)
<1>1. Len(s) \in Nat /\ DOMAIN s = 1..Len(s) /\ s \in [1..Len(s) -> Range(s)]
  BY LenProperties DEF Range
<1>2. s \in Bijection(1..Len(s), Range(s))
  BY <1>1 DEF Bijection, Injection, Surjection, IsInjective, Range
<1>3. ExistsBijection(1..Len(s), Range(s))
  BY <1>2 DEF ExistsBijection
<1>. QED BY <1>1, <1>3, FS_CountingElements, FS_NatBijection

\* What each assignment does to the rows of its place.
LEMMA HeldMoves ==
  ASSUME TypeOK, Apart, NEW p \in Producers, NEW v, held' = [held EXCEPT ![p] = v],
         IsInjective(v), Range(v) \cap Held \subseteq Range(held[p])
  PROVE  Once(Producers, held') /\ Held' = (Held \ Range(held[p])) \cup Range(v)
<1>1. held'[p] = v /\ \A q \in Producers \ {p} : held'[q] = held[q]
  BY DEF TypeOK
<1>2. Held = UNION {Range(held[q]) : q \in Producers} /\ Held' = UNION {Range(held'[q]) : q \in Producers}
  BY DEF Held
<1>3. Once(Producers, held) /\ IsInjective(held'[p]) /\ Range(held'[p]) \cap Held \subseteq Range(held[p])
  BY <1>1 DEF Apart
<1>4. Once(Producers, held') /\ Held' = (Held \ Range(held[p])) \cup Range(held'[p])
  BY ONLY <1>1, <1>2, <1>3, p \in Producers, OnceReplaced
<1>. QED BY <1>1, <1>4

LEMMA BufferMoves ==
  ASSUME TypeOK, Apart, NEW k \in Shards, NEW v, buf' = [buf EXCEPT ![k] = v],
         IsInjective(v), Range(v) \cap Buffered \subseteq Range(buf[k])
  PROVE  Once(Shards, buf') /\ Buffered' = (Buffered \ Range(buf[k])) \cup Range(v)
<1>1. buf'[k] = v /\ \A m \in Shards \ {k} : buf'[m] = buf[m]
  BY DEF TypeOK
<1>2. Buffered = UNION {Range(buf[m]) : m \in Shards} /\ Buffered' = UNION {Range(buf'[m]) : m \in Shards}
  BY DEF Buffered
<1>3. Once(Shards, buf) /\ IsInjective(buf'[k]) /\ Range(buf'[k]) \cap Buffered \subseteq Range(buf[k])
  BY <1>1 DEF Apart
<1>4. Once(Shards, buf') /\ Buffered' = (Buffered \ Range(buf[k])) \cup Range(buf'[k])
  BY ONLY <1>1, <1>2, <1>3, k \in Shards, OnceReplaced
<1>. QED BY <1>1, <1>4

LEMMA WrittenMoves ==
  ASSUME TypeOK, Apart, NEW k \in Shards, NEW v, written' = [written EXCEPT ![k] = v],
         IsInjective(v), Range(v) \cap Written \subseteq Range(written[k])
  PROVE  Once(Shards, written') /\ Written' = (Written \ Range(written[k])) \cup Range(v)
<1>1. written'[k] = v /\ \A m \in Shards \ {k} : written'[m] = written[m]
  BY DEF TypeOK
<1>2. /\ Written = UNION {Range(written[m]) : m \in Shards}
      /\ Written' = UNION {Range(written'[m]) : m \in Shards}
  BY DEF Written
<1>3. Once(Shards, written) /\ IsInjective(written'[k]) /\ Range(written'[k]) \cap Written \subseteq Range(written[k])
  BY <1>1 DEF Apart
<1>4. Once(Shards, written') /\ Written' = (Written \ Range(written[k])) \cup Range(written'[k])
  BY ONLY <1>1, <1>2, <1>3, k \in Shards, OnceReplaced
<1>. QED BY <1>1, <1>4

\* A batch none of whose rows is queued enters a channel.
LEMMA ChannelGains ==
  ASSUME TypeOK, QueuedOnce, NEW k \in Shards, NEW b \in Seq(Rows), IsInjective(b),
         Range(b) \cap Queued = {}, chan' = [chan EXCEPT ![k] = Append(@, b)]
  PROVE  QueuedOnce' /\ Queued' = Queued \cup Range(b)
<1>1. /\ Len(chan[k]) \in Nat /\ DOMAIN chan[k] = 1..Len(chan[k])
      /\ DOMAIN chan'[k] = 1..(Len(chan[k]) + 1)
      /\ \A i \in 1..Len(chan[k]) : chan'[k][i] = chan[k][i]
      /\ chan'[k][Len(chan[k]) + 1] = b
      /\ \A m \in Shards \ {k} : chan'[m] = chan[m]
  BY AppendProperties, LenProperties DEF TypeOK
<1>2. \A m \in Shards : \A i \in DOMAIN chan'[m] :
        \/ i \in DOMAIN chan[m] /\ chan'[m][i] = chan[m][i]
        \/ m = k /\ i = Len(chan[k]) + 1 /\ chan'[m][i] = b
  BY <1>1
<1>3. \A m \in Shards : \A i \in DOMAIN chan[m] : \A a \in DOMAIN chan[m][i] : chan[m][i][a] \in Queued
  BY DEF Queued, ChanRows, RowsOf, Range
<1>4. \A a \in DOMAIN b : b[a] \notin Queued
  BY DEF Range
<1>5. QueuedOnce'
  <2>. SUFFICES ASSUME NEW m \in Shards, NEW n \in Shards,
                       NEW i \in DOMAIN chan'[m], NEW j \in DOMAIN chan'[n],
                       NEW x \in DOMAIN chan'[m][i], NEW y \in DOMAIN chan'[n][j],
                       chan'[m][i][x] = chan'[n][j][y]
                PROVE  m = n /\ i = j /\ x = y
    BY DEF QueuedOnce
  <2>1. CASE i \in DOMAIN chan[m] /\ chan'[m][i] = chan[m][i] /\ j \in DOMAIN chan[n] /\ chan'[n][j] = chan[n][j]
    BY <2>1 DEF QueuedOnce
  <2>2. CASE m = k /\ i = Len(chan[k]) + 1 /\ chan'[m][i] = b /\ n = k /\ j = Len(chan[k]) + 1 /\ chan'[n][j] = b
    BY <2>2 DEF IsInjective
  <2>3. CASE i \in DOMAIN chan[m] /\ chan'[m][i] = chan[m][i] /\ chan'[n][j] = b
    BY <1>3, <1>4, <2>3
  <2>4. CASE chan'[m][i] = b /\ j \in DOMAIN chan[n] /\ chan'[n][j] = chan[n][j]
    BY <1>3, <1>4, <2>4
  <2>. QED BY <1>2, <2>1, <2>2, <2>3, <2>4
<1>6. Queued' = Queued \cup Range(b)
  <2>1. RowsOf(Append(chan[k], b)) = ChanRows(k) \cup Range(b)
    BY AppendRows DEF ChanRows, TypeOK
  <2>2. Queued' \cup ChanRows(k) = Queued \cup ChanRows(k) \cup Range(b)
    BY <2>1, ChanReplaced
  <2>3. ChanRows(k) \subseteq Queued
    BY DEF Queued
  <2>4. ChanRows(k) \subseteq Queued'
    BY <1>1 DEF ChanRows, RowsOf, Queued
  <2>. QED BY <2>2, <2>3, <2>4
<1>. QED BY <1>5, <1>6

\* A channel's first batch leaves it, with its rows.
LEMMA ChannelLoses ==
  ASSUME TypeOK, QueuedOnce, NEW k \in Shards, chan[k] # <<>>, chan' = [chan EXCEPT ![k] = Tail(@)]
  PROVE  /\ QueuedOnce' /\ Queued' = Queued \ Range(Head(chan[k]))
         /\ Range(Head(chan[k])) \subseteq Queued /\ IsInjective(Head(chan[k]))
<1>1. /\ Len(chan[k]) \in Nat \ {0} /\ DOMAIN chan[k] = 1..Len(chan[k]) /\ Head(chan[k]) = chan[k][1]
      /\ DOMAIN chan'[k] = 1..(Len(chan[k]) - 1)
      /\ \A i \in 1..(Len(chan[k]) - 1) : chan'[k][i] = chan[k][i + 1]
      /\ \A m \in Shards \ {k} : chan'[m] = chan[m]
  BY HeadTailProperties, LenProperties, EmptySeq DEF TypeOK
<1>2. 1 \in DOMAIN chan[k]
  BY <1>1
<1>3. \A i \in DOMAIN chan'[k] : i + 1 \in DOMAIN chan[k] /\ i + 1 # 1 /\ chan'[k][i] = chan[k][i + 1] /\ i \in Nat
  BY <1>1
<1>4. \A i \in DOMAIN chan[k] \ {1} : i - 1 \in DOMAIN chan'[k] /\ chan'[k][i - 1] = chan[k][i]
  BY <1>1
<1>5. Range(Head(chan[k])) \subseteq Queued /\ IsInjective(Head(chan[k]))
  BY <1>1, <1>2 DEF Queued, ChanRows, RowsOf, QueuedOnce, IsInjective
<1>6. QueuedOnce'
  <2>. SUFFICES ASSUME NEW m \in Shards, NEW n \in Shards,
                       NEW i \in DOMAIN chan'[m], NEW j \in DOMAIN chan'[n],
                       NEW x \in DOMAIN chan'[m][i], NEW y \in DOMAIN chan'[n][j],
                       chan'[m][i][x] = chan'[n][j][y]
                PROVE  m = n /\ i = j /\ x = y
    BY DEF QueuedOnce
  <2>1. CASE m # k /\ n # k
    BY <1>1, <2>1 DEF QueuedOnce
  <2>2. CASE m = k /\ n # k
    BY <1>1, <1>3, <2>2 DEF QueuedOnce
  <2>3. CASE m # k /\ n = k
    BY <1>1, <1>3, <2>3 DEF QueuedOnce
  <2>4. CASE m = k /\ n = k
    <3>1. i + 1 = j + 1 /\ x = y
      BY <1>3, <2>4 DEF QueuedOnce
    <3>. QED BY <1>3, <2>4, <3>1
  <2>. QED BY <2>1, <2>2, <2>3, <2>4
<1>7. ASSUME NEW r \in Queued' PROVE r \in Queued \ Range(Head(chan[k]))
  <2>1. PICK m \in Shards : \E i \in DOMAIN chan'[m] : r \in Range(chan'[m][i])
    BY <1>7 DEF Queued, ChanRows, RowsOf
  <2>a. PICK i \in DOMAIN chan'[m] : \E x \in DOMAIN chan'[m][i] : r = chan'[m][i][x]
    BY <2>1 DEF Range
  <2>b. PICK x \in DOMAIN chan'[m][i] : r = chan'[m][i][x]
    BY <2>a
  <2>2. PICK j \in DOMAIN chan[m] : chan[m][j] = chan'[m][i] /\ ~(m = k /\ j = 1)
    BY <1>1, <1>3
  <2>3. r = chan[m][j][x] /\ x \in DOMAIN chan[m][j]
    BY <2>b, <2>2
  <2>4. r \in Queued
    BY <2>3 DEF Queued, ChanRows, RowsOf, Range
  <2>5. r \notin Range(chan[k][1])
    BY <1>2, <2>2, <2>3 DEF QueuedOnce, Range
  <2>. QED BY <1>1, <2>4, <2>5
<1>8. ASSUME NEW r \in Queued \ Range(Head(chan[k])) PROVE r \in Queued'
  <2>a. PICK m \in Shards : \E i \in DOMAIN chan[m] : r \in Range(chan[m][i])
    BY <1>8 DEF Queued, ChanRows, RowsOf
  <2>1. PICK i \in DOMAIN chan[m] : r \in Range(chan[m][i])
    BY <2>a
  <2>2. ~(m = k /\ i = 1)
    BY <1>1, <1>8, <2>1
  <2>3. PICK j \in DOMAIN chan'[m] : chan'[m][j] = chan[m][i]
    BY <1>1, <1>4, <2>2
  <2>. QED BY <2>1, <2>3 DEF Queued, ChanRows, RowsOf
<1>. QED BY <1>5, <1>6, <1>7, <1>8

\* A batch that is nowhere else is delivered, or lost.
LEMMA DeliverApart ==
  ASSUME TypeOK, QueuedOnce, NEW k \in Shards, NEW b \in Seq(Rows), IsInjective(b),
         Range(b) \cap Queued = {}, Deliver(k, b)
  PROVE  QueuedOnce' /\ Queued' \subseteq Queued \cup Range(b)
<1>1. CASE chan' = [chan EXCEPT ![k] = Append(@, b)]
  BY <1>1, ChannelGains
<1>2. CASE UNCHANGED chan
  BY <1>2 DEF QueuedOnce, Queued, ChanRows, RowsOf
<1>. QED BY <1>1, <1>2 DEF Deliver

\* A call's rows are none of those sent before it.
LEMMA BatchIsNew ==
  ASSUME Phases, NEW p \in Producers
  PROVE  IsInjective(Batch(p, next[p])) /\ Range(Batch(p, next[p])) \cap Sent = {}
<1>1. IsInjective(Batch(p, next[p]))
  BY DEF IsInjective, Batch
<1>2. ASSUME NEW r \in Range(Batch(p, next[p])), r \in Sent PROVE FALSE
  <2>1. PICK j : r = <<p, next[p], j>>
    BY DEF Range, Batch
  <2>2. PICK q \in Producers : r \in RowsBefore(q, next[q])
    BY <1>2 DEF Sent
  <2>3. PICK i \in 1..(next[q] - 1) : r \in Range(Batch(q, i))
    BY <2>2 DEF RowsBefore
  <2>4. PICK m : r = <<q, i, m>>
    BY <2>3 DEF Range, Batch
  <2>. QED BY <2>1, <2>3, <2>4 DEF Phases, TypeOK
<1>. QED BY <1>1, <1>2

LEMMA ApartInit == Init => Apart /\ Counted
<1>. SUFFICES ASSUME Init PROVE Apart /\ Counted
  OBVIOUS
<1>1. Held = {} /\ Buffered = {} /\ Queued = {} /\ Written = {}
  BY DEF Init, Held, Buffered, Queued, ChanRows, RowsOf, Written, Range
<1>2. Once(Producers, held) /\ Once(Shards, buf) /\ Once(Shards, written) /\ QueuedOnce
  BY DEF Init, Once, QueuedOnce
<1>. QED BY <1>1, <1>2 DEF Apart, Counted, Init

\* No step puts a row in a second place.
LEMMA ApartStep == Phases /\ Conserved /\ Apart /\ [Next]_vars => Apart'
<1>. SUFFICES ASSUME Phases, Conserved, Apart, [Next]_vars PROVE Apart'
  OBVIOUS
<1>. USE DEF Phases
<1>a. UNCHANGED held => Held' = Held /\ Once(Producers, held')
  BY DEF Held, Apart
<1>b. UNCHANGED buf => Buffered' = Buffered /\ Once(Shards, buf')
  BY DEF Buffered, Apart
<1>c. UNCHANGED chan => Queued' = Queued /\ QueuedOnce'
  BY DEF Queued, ChanRows, RowsOf, QueuedOnce, Apart
<1>d. UNCHANGED written => Written' = Written /\ Once(Shards, written')
  BY DEF Written, Apart
<1>e. IsInjective(<<>>) /\ Range(<<>>) = {}
  BY DEF IsInjective, Range
<1>f. Apart' <=>
        /\ Once(Producers, held') /\ Once(Shards, buf') /\ Once(Shards, written') /\ QueuedOnce'
        /\ Held' \cap Buffered' = {} /\ Held' \cap Queued' = {} /\ Held' \cap Written' = {}
        /\ Buffered' \cap Queued' = {} /\ Buffered' \cap Written' = {} /\ Queued' \cap Written' = {}
  BY DEF Apart, Once
<1>1. ASSUME NEW p \in Producers, Pick(p) PROVE Apart'
  <2>1. IsInjective(Batch(p, next[p])) /\ Range(Batch(p, next[p])) \cap Sent = {}
    BY BatchIsNew
  <2>2. Range(held[p]) = {} /\ held' = [held EXCEPT ![p] = Batch(p, next[p])]
    BY <1>1, <1>e DEF Pick, Resting
  <2>3. Once(Producers, held') /\ Held' = Held \cup Range(Batch(p, next[p]))
    BY <2>1, <2>2, HeldMoves DEF Conserved
  <2>. QED BY <1>1, <2>1, <2>3, <1>b, <1>c, <1>d, <1>f DEF Pick, Apart, Conserved
<1>2. ASSUME NEW p \in Producers, Buffer(p) PROVE Apart'
  <2>. DEFINE k == target[p]
              b == buf[k] \o held[p]
  <2>1. k \in Shards /\ buf[k] \in Seq(Rows) /\ held[p] \in Seq(Rows)
    BY DEF TypeOK
  <2>2. Range(b) = Range(buf[k]) \cup Range(held[p])
    BY <2>1, RangeConcatenation
  <2>3. Range(held[p]) \subseteq Held /\ Range(buf[k]) \subseteq Buffered
    BY <2>1 DEF Held, Buffered
  <2>4. IsInjective(b)
    BY <2>1, <2>3, ConcatInjective, OnceInjective DEF Apart
  <2>5. CASE buf' = [buf EXCEPT ![k] = <<>>] /\ held' = [held EXCEPT ![p] = b]
    <3>1. Once(Shards, buf') /\ Buffered' = Buffered \ Range(buf[k])
      BY <2>1, <2>5, <1>e, BufferMoves
    <3>2. Once(Producers, held') /\ Held' = (Held \ Range(held[p])) \cup Range(b)
      BY <2>2, <2>3, <2>4, <2>5, HeldMoves DEF Apart
    <3>. QED BY <1>2, <2>2, <2>3, <3>1, <3>2, <1>c, <1>d, <1>f DEF Buffer, Apart
  <2>6. CASE buf' = [buf EXCEPT ![k] = b] /\ held' = [held EXCEPT ![p] = <<>>]
    <3>1. Once(Shards, buf') /\ Buffered' = (Buffered \ Range(buf[k])) \cup Range(b)
      BY <2>1, <2>2, <2>3, <2>4, <2>6, BufferMoves DEF Apart
    <3>2. Once(Producers, held') /\ Held' = Held \ Range(held[p])
      BY <2>6, <1>e, HeldMoves
    <3>. QED BY <1>2, <2>2, <2>3, <3>1, <3>2, <1>c, <1>d, <1>f DEF Buffer, Apart
  <2>. QED BY <1>2, <2>5, <2>6 DEF Buffer
<1>3. ASSUME NEW p \in Producers, Send(p) PROVE Apart'
  <2>1. target[p] \in Shards /\ held[p] \in Seq(Rows) /\ Range(held[p]) \subseteq Held
    BY DEF TypeOK, Held
  <2>2. IsInjective(held[p])
    BY OnceInjective DEF Apart
  <2>3. QueuedOnce' /\ Queued' \subseteq Queued \cup Range(held[p])
    BY <1>3, <2>1, <2>2, DeliverApart DEF Send, Apart
  <2>4. Once(Producers, held') /\ Held' = Held \ Range(held[p])
    BY <1>3, <1>e, HeldMoves DEF Send
  <2>. QED BY <1>3, <2>1, <2>3, <2>4, <1>b, <1>d, <1>f DEF Send, Apart
<1>4. ASSUME NEW k \in Shards, Write(k) PROVE Apart'
  <2>1. /\ QueuedOnce' /\ Queued' = Queued \ Range(Head(chan[k]))
        /\ Range(Head(chan[k])) \subseteq Queued /\ IsInjective(Head(chan[k]))
    BY <1>4, ChannelLoses DEF Write, Apart
  <2>2. written[k] \in Seq(Rows) /\ Head(chan[k]) \in Seq(Rows) /\ Range(written[k]) \subseteq Written
    BY <1>4, HeadTailProperties DEF Write, TypeOK, Written
  <2>3. Range(written[k] \o Head(chan[k])) = Range(written[k]) \cup Range(Head(chan[k]))
    BY <2>2, RangeConcatenation
  <2>4. IsInjective(written[k] \o Head(chan[k]))
    BY <2>1, <2>2, ConcatInjective, OnceInjective DEF Apart
  <2>5. written' = [written EXCEPT ![k] = written[k] \o Head(chan[k])]
    BY <1>4 DEF Write
  <2>6. /\ Once(Shards, written')
        /\ Written' = (Written \ Range(written[k])) \cup Range(written[k]) \cup Range(Head(chan[k]))
    BY <2>1, <2>2, <2>3, <2>4, <2>5, WrittenMoves DEF Apart
  <2>. QED BY <1>4, <2>1, <2>2, <2>6, <1>a, <1>b, <1>f DEF Write, Apart, sending
<1>5. ASSUME NEW k \in Shards, EndOfRows(k) PROVE Apart'
  BY <1>5, <1>a, <1>b, <1>c, <1>d, <1>f DEF EndOfRows, Apart, sending
<1>6. ASSUME NEW k \in Shards, Fail(k) PROVE Apart'
  <2>1. chan'[k] = <<>> /\ \A m \in Shards \ {k} : chan'[m] = chan[m]
    BY <1>6 DEF Fail, TypeOK
  <2>2. QueuedOnce'
    BY <2>1 DEF QueuedOnce, Apart
  <2>3. Queued' \subseteq Queued
    BY <2>1 DEF Queued, ChanRows, RowsOf
  <2>. QED BY <1>6, <2>2, <2>3, <1>a, <1>b, <1>d, <1>f DEF Fail, Apart, sending
<1>7. CASE Flush
  <2>1. cursor \in Shards /\ buf[cursor] \in Seq(Rows) /\ Range(buf[cursor]) \subseteq Buffered
    <3>1. cursor \in Shards
      BY <1>7, Parameters DEF Flush, TypeOK, Shards
    <3>. QED BY <3>1 DEF TypeOK, Buffered
  <2>2. IsInjective(buf[cursor])
    BY <2>1, OnceInjective DEF Apart
  <2>3. QueuedOnce' /\ Queued' \subseteq Queued \cup Range(buf[cursor])
    <3>1. CASE UNCHANGED chan
      BY <3>1, <1>c
    <3>2. CASE Deliver(cursor, buf[cursor])
      BY <2>1, <2>2, <3>2, DeliverApart DEF Apart
    <3>. QED BY <1>7, <3>1, <3>2 DEF Flush
  <2>4. Once(Shards, buf') /\ Buffered' = Buffered \ Range(buf[cursor])
    BY <1>7, <2>1, <1>e, BufferMoves DEF Flush
  <2>. QED BY <1>7, <2>1, <2>3, <2>4, <1>a, <1>d, <1>f DEF Flush, Apart, sending
<1>8. CASE BeginFinish \/ DropSenders \/ Await \/ Succeed \/ Stopped \/ UNCHANGED vars
  <2>1. UNCHANGED <<held, buf, chan, written>>
    BY <1>8 DEF BeginFinish, DropSenders, Await, Succeed, Stopped, sending, vars
  <2>. QED BY <2>1, <1>a, <1>b, <1>c, <1>d, <1>f DEF Apart
<1>. QED BY <1>1, <1>2, <1>3, <1>4, <1>5, <1>6, <1>7, <1>8 DEF Next

\* The owner's sum is the number of rows of the writers it has awaited.
LEMMA CountedStep == Phases /\ Apart /\ Counted /\ [Next]_vars => Counted'
<1>. SUFFICES ASSUME Phases, Apart, Counted, [Next]_vars PROVE Counted'
  OBVIOUS
<1>. USE DEF Phases
<1>1. cursor \in 0..W /\ \A k \in 0..(cursor - 1) : k \in Shards /\ k < cursor
  BY Parameters DEF TypeOK, Shards
<1>2. CASE UNCHANGED <<stage, cursor, count, written>>
  BY <1>2 DEF Counted, AwaitedRows
<1>3. ASSUME NEW k \in Shards, Write(k) PROVE Counted'
  <2>1. stage # "ok" /\ ~(stage = "awaiting" /\ k < cursor)
    BY <1>3 DEF Write, Settled
  <2>2. stage = "awaiting" => \A m \in 0..(cursor - 1) : written'[m] = written[m]
    BY <1>1, <1>3, <2>1 DEF Write, TypeOK
  <2>3. stage = "awaiting" => AwaitedRows' = AwaitedRows
    BY <1>3, <2>2 DEF Write, AwaitedRows, owner
  <2>. QED BY <1>3, <2>1, <2>3 DEF Write, Counted, owner
<1>4. CASE Await
  <2>1. CASE stage' = "err"
    BY <2>1 DEF Counted
  <2>2. CASE count' = count + Len(written[cursor]) /\ cursor' = cursor + 1 /\ UNCHANGED stage
    <3>1. cursor \in Shards /\ written[cursor] \in Seq(Rows) /\ UNCHANGED written /\ stage = "awaiting"
      BY <1>4, Parameters DEF Await, TypeOK, Shards
    <3>2. IsInjective(written[cursor])
      BY <3>1, OnceInjective DEF Apart
    <3>3. IsFiniteSet(Range(written[cursor])) /\ Cardinality(Range(written[cursor])) = Len(written[cursor])
      BY <3>1, <3>2, InjectiveCount
    <3>4. 0..(cursor + 1 - 1) = (0..(cursor - 1)) \cup {cursor}
      BY <1>1
    <3>5. AwaitedRows' = AwaitedRows \cup Range(written[cursor])
      <4>1. AwaitedRows' = UNION {Range(written'[k]) : k \in 0..(cursor' - 1)}
        BY DEF AwaitedRows
      <4>a. cursor' = cursor + 1
        BY <2>2
      <4>b. written' = written
        BY <3>1
      <4>c. cursor' - 1 = cursor + 1 - 1
        BY <1>1, <4>a
      <4>2. UNION {Range(written[k]) : k \in (0..(cursor - 1)) \cup {cursor}}
              = AwaitedRows \cup Range(written[cursor])
        BY DEF AwaitedRows
      <4>. QED BY <3>4, <4>1, <4>b, <4>c, <4>2
    <3>6. AwaitedRows \cap Range(written[cursor]) = {}
      BY <1>1, <3>1 DEF Apart, Once, AwaitedRows, Range
    <3>7. IsFiniteSet(AwaitedRows) /\ count = Cardinality(AwaitedRows)
      BY <3>1 DEF Counted
    <3>8. /\ IsFiniteSet(AwaitedRows \cup Range(written[cursor]))
          /\ Cardinality(AwaitedRows \cup Range(written[cursor]))
               = Cardinality(AwaitedRows) + Cardinality(Range(written[cursor])) - Cardinality({})
      BY <3>3, <3>6, <3>7, FS_Union
    <3>9. count' = Cardinality(AwaitedRows')
      BY <2>2, <3>3, <3>5, <3>7, <3>8, FS_EmptySet, FS_CardinalityType
    <3>. QED BY <2>2, <3>1, <3>5, <3>8, <3>9 DEF Counted
  <2>. QED BY <1>4, <2>1, <2>2 DEF Await
<1>5. CASE DropSenders
  <2>1. AwaitedRows' = {} /\ count' = count /\ stage' # "ok"
    BY <1>5 DEF DropSenders, AwaitedRows
  <2>2. count = 0
    BY <1>5 DEF DropSenders, Counted
  <2>. QED BY <2>1, <2>2, FS_EmptySet DEF Counted
<1>6. CASE Succeed
  <2>1. AwaitedRows' = AwaitedRows
    BY <1>6 DEF Succeed, AwaitedRows
  <2>. QED BY <1>6, <2>1 DEF Succeed, Counted
<1>7. CASE BeginFinish \/ Flush
  BY <1>7 DEF BeginFinish, Flush, Counted
<1>8. ASSUME NEW p \in Producers, Pick(p) \/ Buffer(p) \/ Send(p) PROVE UNCHANGED <<stage, cursor, count, written>>
  BY <1>8 DEF Pick, Buffer, Send, owner
<1>9. ASSUME NEW k \in Shards, EndOfRows(k) \/ Fail(k) PROVE UNCHANGED <<stage, cursor, count, written>>
  BY <1>9 DEF EndOfRows, Fail, owner
<1>10. ASSUME Stopped \/ UNCHANGED vars PROVE UNCHANGED <<stage, cursor, count, written>>
  BY <1>10 DEF Stopped, vars
<1>. QED BY <1>2, <1>3, <1>4, <1>5, <1>6, <1>7, <1>8, <1>9, <1>10 DEF Next

-----------------------------------------------------------------------------
(* The theorems.                                                           *)

\* The inductive invariant holds of every reachable state.
THEOREM Invariance == Spec => []IInv
<1>1. Init => IInv
  BY PhasesInit, ConservedInit DEF IInv
<1>2. TypeOK' /\ IInv /\ [Next]_vars => IInv'
  BY PhasesStep, ConservedStep DEF IInv
<1>. QED BY <1>1, <1>2, TypeCorrect, PTL DEF Spec

\* `Shard::send` and `finish` conserve rows: a row that was routed is in some thread's
\* hands, in a buffer, in a channel, written, or swallowed by a failed writer.
THEOREM RowsAreConserved == Spec => []Conserved
<1>1. IInv => Conserved
  BY DEF IInv
<1>. QED BY <1>1, Invariance, PTL

\* However many producers race on a shard, its buffer stays below SEND_BATCH rows and its
\* channel within WRITER_CHAN_CAP batches.
THEOREM MemoryIsBounded == Spec => []Bounded
<1>1. IInv => Bounded
  BY DEF IInv, Phases
<1>. QED BY <1>1, Invariance, PTL

\* The errors `send` ignores still surface: a run that lost a row has a failed writer and
\* does not succeed.
THEOREM LossSurfaces == Spec => []LossIsReported
<1>1. IInv => LossIsReported
  BY DEF IInv, Phases, LossHasCause, Settled, LossIsReported
<1>. QED BY <1>1, Invariance, PTL

\* When every producer has returned, everything it had to route has been sent.
LEMMA ReturnedSentAll == Phases /\ Returned => Sent = Rows
<1>. SUFFICES ASSUME Phases, Returned PROVE Sent = Rows
  OBVIOUS
<1>1. \A p \in Producers : next[p] = Len(Sizes[p]) + 1
  <2>. SUFFICES ASSUME NEW p \in Producers PROVE next[p] = Len(Sizes[p]) + 1
    OBVIOUS
  <2>1. next[p] \in Nat /\ Len(Sizes[p]) \in Nat
    BY Parameters DEF Phases, TypeOK
  <2>2. next[p] > Len(Sizes[p]) /\ next[p] <= Len(Sizes[p]) + 1
    BY DEF Returned, Phases, Resting
  <2>. QED BY <2>1, <2>2
<1>. QED BY <1>1 DEF Sent, Rows

\* A `finish` that returns Ok has stored every row of the run.
LEMMA OkIsComplete == IInv /\ stage \in {"awaiting", "ok"} /\ (stage = "awaiting" => cursor = W)
                        => Written = Rows
<1>. SUFFICES ASSUME IInv, stage \in {"awaiting", "ok"}, stage = "awaiting" => cursor = W
              PROVE  Written = Rows
  OBVIOUS
<1>. USE DEF IInv, Phases
<1>1. \A k \in Shards : k < W
  BY Parameters DEF Shards
<1>2. \A k \in Shards : writer[k] = "done" /\ chan[k] = <<>> /\ buf[k] = <<>>
  BY <1>1 DEF Settled, Owned, Closed
<1>3. Returned
  BY DEF Owned
<1>4. Held = {}
  BY <1>3, RangeEmpty DEF Returned, Resting, Held
<1>5. Buffered = {}
  BY <1>2, RangeEmpty DEF Buffered
<1>6. Queued = {}
  BY <1>2 DEF Queued, ChanRows, RowsOf
<1>7. lost = {}
  BY <1>2 DEF LossHasCause
<1>. QED BY <1>3, <1>4, <1>5, <1>6, <1>7, ReturnedSentAll DEF Conserved

\* Every table keeps its promise: `finish` reports success only with every routed row
\* stored, nothing is stored before it is routed, and an error is final.
THEOREM Refinement == Spec => ImplementsPromise
<1>1. Init => Promise!Init
  BY ConservedInit DEF Init, Promise!Init, Conserved, Sent, RowsBefore, Written, Range, Outcome
<1>2. IInv /\ IInv' /\ [Next]_vars => [Promise!Next]_(Promise!vars)
  <2>. SUFFICES ASSUME IInv, IInv', [Next]_vars PROVE [Promise!Next]_(Promise!vars)
    OBVIOUS
  <2>. USE DEF IInv, Phases
  <2>s. Written' \subseteq Sent' /\ Sent' \subseteq Rows
    <3>1. Written' \subseteq Sent'
      BY DEF Conserved
    <3>2. \A p \in Producers : next'[p] \in Nat /\ next'[p] <= Len(Sizes[p]) + 1 /\ Len(Sizes[p]) \in Nat
      BY Parameters DEF Resting, TypeOK
    <3>3. \A p \in Producers : 1..(next'[p] - 1) \subseteq 1..(Len(Sizes[p]) + 1 - 1)
      BY <3>2
    <3>4. \A p \in Producers : RowsBefore(p, next'[p]) \subseteq RowsBefore(p, Len(Sizes[p]) + 1)
      BY <3>3 DEF RowsBefore
    <3>5. Sent' = UNION {RowsBefore(p, next'[p]) : p \in Producers}
      BY DEF Sent, RowsBefore, Batch
    <3>. QED BY <3>1, <3>4, <3>5 DEF Rows
  <2>a. UNCHANGED next => Sent' = Sent
    BY DEF Sent, RowsBefore, Batch
  <2>b. UNCHANGED written => Written' = Written
    BY DEF Written
  <2>c. stage' = stage => Outcome' = Outcome
    BY DEF Outcome
  <2>1. ASSUME NEW p \in Producers, Pick(p) PROVE Promise!Route
    <3>1. stage = "routing"
      <4>1. next[p] \in Nat /\ Len(Sizes[p]) \in Nat
        BY Parameters DEF TypeOK
      <4>. QED BY <2>1, <4>1 DEF Pick, Owned, Returned
    <3>2. Sent' = Sent \cup Range(Batch(p, next[p]))
      BY <2>1, SentByPick
    <3>. QED BY <2>1, <2>s, <2>b, <2>c, <3>1, <3>2 DEF Pick, owner, Promise!Route, Outcome
  <2>2. ASSUME NEW k \in Shards, Write(k) PROVE Promise!Store
    <3>1. stage # "ok"
      BY <2>2 DEF Write, Settled
    <3>2. Range(written[k]) \subseteq Range(written'[k])
      <4>1. Head(chan[k]) \in Seq(Rows)
        BY <2>2, HeadTailProperties DEF Write, TypeOK
      <4>. QED BY <2>2, <4>1, RangeConcatenation DEF Write, TypeOK
    <3>3. \A m \in Shards \ {k} : written'[m] = written[m]
      BY <2>2 DEF Write, TypeOK
    <3>4. Written \subseteq Written'
      BY <3>2, <3>3 DEF Written
    <3>5. UNCHANGED next /\ stage' = stage
      BY <2>2 DEF Write, sending, owner
    <3>. QED BY <2>s, <2>a, <2>c, <3>1, <3>4, <3>5 DEF Promise!Store, Outcome
  <2>3. CASE Succeed
    <3>1. Written = Rows
      BY <2>3, OkIsComplete DEF Succeed
    <3>. QED BY <2>3, <3>1, <2>a, <2>b DEF Succeed, sending, Outcome, Promise!Succeed, Promise!Next
  <2>4. CASE Await
    <3>1. UNCHANGED next /\ UNCHANGED written /\ stage = "awaiting" /\ stage' \in {stage, "err"}
      BY <2>4 DEF Await, sending
    <3>2. CASE stage' = "err"
      BY <3>1, <3>2, <2>a, <2>b DEF Outcome, Promise!Fail, Promise!Next
    <3>3. CASE stage' = stage
      BY <3>1, <3>3, <2>a, <2>b, <2>c DEF Promise!vars
    <3>. QED BY <3>1, <3>2, <3>3
  <2>5. CASE UNCHANGED <<next, written, Outcome>>
    BY <2>5, <2>a, <2>b DEF Promise!vars
  <2>6. ASSUME NEW p \in Producers, Buffer(p) \/ Send(p) PROVE UNCHANGED <<next, written, Outcome>>
    BY <2>6 DEF Buffer, Send, owner, Outcome
  <2>7. ASSUME NEW k \in Shards, EndOfRows(k) \/ Fail(k) PROVE UNCHANGED <<next, written, Outcome>>
    BY <2>7 DEF EndOfRows, Fail, sending, owner, Outcome
  <2>8. ASSUME BeginFinish \/ Flush \/ DropSenders \/ Stopped \/ UNCHANGED vars
        PROVE  UNCHANGED <<next, written, Outcome>>
    BY <2>8 DEF BeginFinish, Flush, DropSenders, Stopped, vars, sending, Outcome
  <2>. QED BY <2>1, <2>2, <2>3, <2>4, <2>5, <2>6, <2>7, <2>8 DEF Next, Promise!Next
<1>. QED BY <1>1, <1>2, Invariance, PTL DEF Spec, ImplementsPromise, Promise!Spec

\* Every row is in one place at a time, and the owner's sum counts the awaited rows.
THEOREM EveryRowIsInOnePlace == Spec => [](Apart /\ Counted)
<1>1. Init => Apart /\ Counted
  BY ApartInit
<1>2. IInv /\ Apart /\ Counted /\ [Next]_vars => (Apart /\ Counted)'
  BY ApartStep, CountedStep DEF IInv
<1>. QED BY <1>1, <1>2, Invariance, PTL DEF Spec

\* `finish` returns the number of rows routed: none was lost, and none written twice, on
\* the way through buffers, swaps, channels and flushes.
THEOREM CountIsRows == Spec => []CountIsExact
<1>1. IInv /\ Apart /\ Counted => CountIsExact
  <2>. SUFFICES ASSUME IInv, Counted, stage = "ok" PROVE count = Cardinality(Rows)
    BY DEF CountIsExact
  <2>1. Written = Rows
    BY OkIsComplete
  <2>2. 0..(cursor - 1) = Shards
    BY DEF Counted, Shards
  <2>3. AwaitedRows = Written
    BY <2>2 DEF AwaitedRows, Written
  <2>. QED BY <2>1, <2>3 DEF Counted
<1>. QED BY <1>1, Invariance, EveryRowIsInOnePlace, PTL

\* Nothing is stored twice: what the writers have encoded holds each routed row at most once.
COROLLARY StoredOnce == Spec => []Once(Shards, written)
<1>1. Apart => Once(Shards, written)
  BY DEF Apart
<1>. QED BY <1>1, EveryRowIsInOnePlace, PTL

-----------------------------------------------------------------------------
(* Rows in the order they were routed in.                                  *)

\* A row may be staged ahead of another if it was routed before it, or passes it in the buffer.
Ahead(r, x) == Before(r, x) \/ (Direct(r) /\ ~Direct(x))

InOrder(s) == \A i, j \in DOMAIN s : i < j => Ahead(s[i], s[j])

Precede(s, t) == \A r \in Range(s) : \A x \in Range(t) : Ahead(r, x)

\* The batches of a channel, one after the other.
ChainInOrder(q) ==
  /\ \A a \in DOMAIN q : InOrder(q[a])
  /\ \A a, b \in DOMAIN q : a < b => Precede(q[a], q[b])

\* What is written, queued, buffered and held may be staged in this order, except that a
\* batch-sized call on its way to the channel goes ahead of the buffer; the buffer holds
\* rows of smaller calls only.
PipeInOrder ==
  /\ InOrder(written[0]) /\ ChainInOrder(chan[0]) /\ InOrder(buf[0]) /\ InOrder(held[Fold])
  /\ Precede(written[0], buf[0]) /\ Precede(written[0], held[Fold])
  /\ \A a \in DOMAIN chan[0] : /\ Precede(written[0], chan[0][a])
                               /\ Precede(chan[0][a], buf[0]) /\ Precede(chan[0][a], held[Fold])
  /\ IF pc[Fold] = "send" THEN Precede(held[Fold], buf[0]) ELSE Precede(buf[0], held[Fold])
  /\ \A r \in Range(buf[0]) : ~Direct(r)
  /\ pc[Fold] = "buffer" => \A r \in Range(held[Fold]) : ~Direct(r)

\* An empty sequence is in order and precedes, and follows, everything.
LEMMA EmptyInOrder ==
  /\ InOrder(<<>>) /\ ChainInOrder(<<>>) /\ \A s : Precede(s, <<>>) /\ Precede(<<>>, s)
BY DEF InOrder, ChainInOrder, Precede, Range

\* Concatenation.
LEMMA ConcatInOrder ==
  ASSUME NEW S, NEW s \in Seq(S), NEW t \in Seq(S), InOrder(s), InOrder(t), Precede(s, t)
  PROVE  /\ InOrder(s \o t)
         /\ \A u : Precede(s, u) /\ Precede(t, u) => Precede(s \o t, u)
         /\ \A u : Precede(u, s) /\ Precede(u, t) => Precede(u, s \o t)
<1>. DEFINE c == s \o t
<1>1. /\ Len(s) \in Nat /\ Len(t) \in Nat /\ DOMAIN c = 1..(Len(s) + Len(t))
      /\ DOMAIN s = 1..Len(s) /\ DOMAIN t = 1..Len(t)
      /\ \A i \in 1..Len(s) : c[i] = s[i]
      /\ \A i \in 1..(Len(s) + Len(t)) : i > Len(s) => c[i] = t[i - Len(s)]
  BY ConcatProperties, LenProperties
<1>2. Range(c) = Range(s) \cup Range(t)
  BY RangeConcatenation
<1>. HIDE DEF c
<1>3. ASSUME NEW i \in DOMAIN c, NEW j \in DOMAIN c, i < j PROVE Ahead(c[i], c[j])
  <2>1. CASE j <= Len(s)
    <3>1. i \in DOMAIN s /\ j \in DOMAIN s /\ c[i] = s[i] /\ c[j] = s[j]
      BY <1>1, <1>3, <2>1
    <3>. QED BY <1>3, <3>1 DEF InOrder
  <2>2. CASE i <= Len(s) /\ j > Len(s)
    <3>1. i \in DOMAIN s /\ j - Len(s) \in DOMAIN t /\ c[i] = s[i] /\ c[j] = t[j - Len(s)]
      BY <1>1, <1>3, <2>2
    <3>. QED BY <3>1 DEF Precede, Range
  <2>3. CASE i > Len(s)
    <3>1. /\ i - Len(s) \in DOMAIN t /\ j - Len(s) \in DOMAIN t /\ i - Len(s) < j - Len(s)
          /\ c[i] = t[i - Len(s)] /\ c[j] = t[j - Len(s)]
      BY <1>1, <1>3, <2>3
    <3>. QED BY <3>1 DEF InOrder
  <2>. QED BY <1>1, <1>3, <2>1, <2>2, <2>3
<1>4. InOrder(c)
  BY <1>3 DEF InOrder
<1>. QED BY <1>2, <1>4 DEF Precede, c

\* A batch enters the channel behind the others.
LEMMA AppendInOrder ==
  ASSUME NEW S, NEW q \in Seq(Seq(S)), NEW b \in Seq(S), ChainInOrder(q), InOrder(b),
         \A a \in DOMAIN q : Precede(q[a], b)
  PROVE  /\ ChainInOrder(Append(q, b))
         /\ \A a \in DOMAIN Append(q, b) : (a \in DOMAIN q /\ Append(q, b)[a] = q[a]) \/ Append(q, b)[a] = b
<1>1. /\ DOMAIN q = 1..Len(q) /\ DOMAIN Append(q, b) = 1..(Len(q) + 1) /\ Len(q) \in Nat
      /\ \A i \in 1..Len(q) : Append(q, b)[i] = q[i]
      /\ Append(q, b)[Len(q) + 1] = b
  OBVIOUS
<1>2. \A a \in 1..(Len(q) + 1) : a \in 1..Len(q) \/ a = Len(q) + 1
  BY <1>1
<1>3. \A a \in DOMAIN Append(q, b) : (a \in DOMAIN q /\ Append(q, b)[a] = q[a]) \/ Append(q, b)[a] = b
  BY <1>1, <1>2
<1>4. \A a \in DOMAIN Append(q, b) : InOrder(Append(q, b)[a])
  BY <1>3 DEF ChainInOrder
<1>5. ASSUME NEW i \in DOMAIN Append(q, b), NEW j \in DOMAIN Append(q, b), i < j
      PROVE  Precede(Append(q, b)[i], Append(q, b)[j])
  <2>1. i \in DOMAIN q /\ Append(q, b)[i] = q[i]
    BY <1>1, <1>5
  <2>2. CASE j = Len(q) + 1
    BY <1>1, <2>1, <2>2
  <2>3. CASE j \in 1..Len(q)
    BY <1>1, <1>5, <2>1, <2>3 DEF ChainInOrder
  <2>. QED BY <1>1, <1>2, <2>2, <2>3
<1>. QED BY <1>3, <1>4, <1>5 DEF ChainInOrder

\* The writer takes the first batch.
LEMMA TailInOrder ==
  ASSUME NEW S, NEW q \in Seq(Seq(S)), q # <<>>, ChainInOrder(q)
  PROVE  /\ Head(q) \in Seq(S) /\ InOrder(Head(q)) /\ ChainInOrder(Tail(q))
         /\ \E a \in DOMAIN q : Head(q) = q[a]
         /\ \A a \in DOMAIN Tail(q) : /\ Precede(Head(q), Tail(q)[a])
                                      /\ \E b \in DOMAIN q : Tail(q)[a] = q[b]
<1>1. /\ Len(q) \in Nat \ {0} /\ Head(q) = q[1] /\ DOMAIN q = 1..Len(q)
      /\ DOMAIN Tail(q) = 1..(Len(q) - 1)
      /\ \A i \in 1..(Len(q) - 1) : Tail(q)[i] = q[i + 1]
  OBVIOUS
<1>2. 1 \in DOMAIN q /\ Head(q) \in Seq(S) /\ InOrder(Head(q))
  BY <1>1, ElementOfSeq DEF ChainInOrder
<1>3. \A i \in DOMAIN Tail(q) : i + 1 \in DOMAIN q /\ 1 < i + 1 /\ Tail(q)[i] = q[i + 1]
  BY <1>1
<1>4. \A i \in DOMAIN Tail(q) : InOrder(Tail(q)[i]) /\ Precede(Head(q), Tail(q)[i])
  BY <1>1, <1>2, <1>3 DEF ChainInOrder
<1>5. ASSUME NEW i \in DOMAIN Tail(q), NEW j \in DOMAIN Tail(q), i < j PROVE Precede(Tail(q)[i], Tail(q)[j])
  <2>1. i + 1 < j + 1
    BY <1>1, <1>5
  <2>. QED BY <1>3, <2>1 DEF ChainInOrder
<1>. QED BY <1>1, <1>2, <1>3, <1>4, <1>5 DEF ChainInOrder

-----------------------------------------------------------------------------
(* The pipe.                                                               *)

\* An ordered run has one shard and one producer.
LEMMA OneShard ==
  /\ Shards = {0} /\ 0 \in Shards /\ Producers = {Fold} /\ Fold \in Producers /\ W = 1
  /\ Calls \in Seq(Seq(Int)) /\ DOMAIN Calls = 1..Len(Calls) /\ Len(Calls) \in Nat
  /\ Len(Sizes[Fold]) = Len(Calls)
  /\ \A i \in DOMAIN Calls : Sizes[Fold][i] = Len(Calls[i]) /\ Len(Calls[i]) \in Nat
<1>1. Producers = {Fold} /\ W = 1 /\ Calls \in Seq(Seq(Int))
  BY OrderedAssumption
<1>2. Shards = {0}
  BY <1>1 DEF Shards
<1>3. DOMAIN Calls = 1..Len(Calls) /\ Len(Calls) \in Nat /\ \A i \in DOMAIN Calls : Calls[i] \in Seq(Int)
  BY <1>1, LenProperties, ElementOfSeq
<1>4. Sizes[Fold] = [i \in DOMAIN Calls |-> Len(Calls[i])]
  BY <1>1, OrderedAssumption
<1>5. Sizes[Fold] \in Seq(Nat)
  BY <1>1, ShardAssumption
<1>6. Len(Sizes[Fold]) = Len(Calls)
  <2>1. DOMAIN Sizes[Fold] = 1..Len(Sizes[Fold]) /\ Len(Sizes[Fold]) \in Nat
    BY <1>5, LenProperties
  <2>2. DOMAIN Sizes[Fold] = 1..Len(Calls)
    BY <1>3, <1>4
  <2>. QED BY <1>3, <2>1, <2>2
<1>7. \A i \in DOMAIN Calls : Sizes[Fold][i] = Len(Calls[i]) /\ Len(Calls[i]) \in Nat
  BY <1>3, <1>4, LenProperties
<1>. QED BY <1>1, <1>2, <1>3, <1>6, <1>7

\* What a row of the run is.
LEMMA RowIs ==
  ASSUME NEW r \in Rows
  PROVE  \E i \in DOMAIN Calls : \E j \in DOMAIN Calls[i] : r = <<Fold, i, j>>
<1>1. PICK i \in 1..(Len(Sizes[Fold]) + 1 - 1) : r \in Range(Batch(Fold, i))
  BY OneShard DEF Rows, RowsBefore
<1>2. i \in DOMAIN Calls
  BY <1>1, OneShard
<1>3. PICK j \in DOMAIN Batch(Fold, i) : r = Batch(Fold, i)[j]
  BY <1>1 DEF Range
<1>4. j \in 1..Sizes[Fold][i] /\ r = <<Fold, i, j>>
  BY <1>3 DEF Batch
<1>5. Calls[i] \in Seq(Int) /\ Sizes[Fold][i] = Len(Calls[i])
  BY <1>2, OneShard, ElementOfSeq
<1>6. j \in DOMAIN Calls[i]
  BY <1>4, <1>5, LenProperties
<1>. QED BY <1>2, <1>4, <1>6

\* The rows sent so far come before those of the next call.
LEMMA SentPrecedes ==
  ASSUME TypeOK, NEW r \in Sent, NEW x \in Range(Batch(Fold, next[Fold]))
  PROVE  Before(r, x) /\ Ahead(r, x)
<1>1. PICK i \in 1..(next[Fold] - 1) : r \in Range(Batch(Fold, i))
  BY OneShard DEF Sent, RowsBefore
<1>2. i < next[Fold]
  BY <1>1, OneShard DEF TypeOK
<1>3. r[2] = i
  <2>1. PICK j \in DOMAIN Batch(Fold, i) : r = Batch(Fold, i)[j]
    BY <1>1 DEF Range
  <2>2. r = <<Fold, i, j>>
    BY <2>1 DEF Batch
  <2>. QED BY <2>2
<1>4. x[2] = next[Fold]
  <2>1. PICK j \in DOMAIN Batch(Fold, next[Fold]) : x = Batch(Fold, next[Fold])[j]
    BY DEF Range
  <2>2. x = <<Fold, next[Fold], j>>
    BY <2>1 DEF Batch
  <2>. QED BY <2>2
<1>. QED BY <1>2, <1>3, <1>4 DEF Before, Ahead

\* A call's rows are in order, and go to the channel directly if it is as large as a batch.
LEMMA BatchInOrder ==
  ASSUME NEW i \in DOMAIN Calls
  PROVE  /\ InOrder(Batch(Fold, i))
         /\ \A r \in Range(Batch(Fold, i)) : Direct(r) <=> Sizes[Fold][i] >= SendBatch
<1>1. InOrder(Batch(Fold, i))
  BY DEF InOrder, Batch, Before, Ahead
<1>2. ASSUME NEW r \in Range(Batch(Fold, i)) PROVE Direct(r) <=> Sizes[Fold][i] >= SendBatch
  <2>1. PICK j \in DOMAIN Batch(Fold, i) : r = Batch(Fold, i)[j]
    BY <1>2 DEF Range
  <2>2. r = <<Fold, i, j>>
    BY <2>1 DEF Batch
  <2>. QED BY <2>2, OneShard DEF Direct
<1>. QED BY <1>1, <1>2

\* A delivered batch goes to the end of the channel, or nowhere.
LEMMA DeliverInOrder ==
  ASSUME TypeOK, ChainInOrder(chan[0]), NEW b \in Seq(Rows), InOrder(b), Deliver(0, b),
         \A a \in DOMAIN chan[0] : Precede(chan[0][a], b)
  PROVE  /\ ChainInOrder(chan'[0])
         /\ \A a \in DOMAIN chan'[0] :
              (a \in DOMAIN chan[0] /\ chan'[0][a] = chan[0][a]) \/ chan'[0][a] = b
<1>1. chan \in [Shards -> Seq(Seq(Rows))] /\ chan[0] \in Seq(Seq(Rows))
  BY OneShard DEF TypeOK
<1>2. chan'[0] = Append(chan[0], b) \/ chan' = chan
  BY <1>1, OneShard DEF Deliver
<1>3. CASE chan'[0] = Append(chan[0], b)
  BY <1>1, <1>3, AppendInOrder
<1>4. CASE chan' = chan
  BY <1>4
<1>. QED BY <1>2, <1>3, <1>4

\* Everything in the pipe has been sent.
LEMMA PipeIsSent ==
  ASSUME TypeOK, Conserved
  PROVE  /\ Range(written[0]) \subseteq Sent /\ Range(buf[0]) \subseteq Sent
         /\ \A a \in DOMAIN chan[0] : Range(chan[0][a]) \subseteq Sent
<1>1. Range(written[0]) \subseteq Written /\ Range(buf[0]) \subseteq Buffered
  BY OneShard DEF Written, Buffered
<1>2. \A a \in DOMAIN chan[0] : Range(chan[0][a]) \subseteq Queued
  BY OneShard DEF Queued, ChanRows, RowsOf
<1>. QED BY <1>1, <1>2 DEF Conserved

LEMMA PipeInit == Init => PipeInOrder
<1>. SUFFICES ASSUME Init PROVE PipeInOrder
  OBVIOUS
<1>1. written[0] = <<>> /\ chan[0] = <<>> /\ buf[0] = <<>> /\ held[Fold] = <<>> /\ DOMAIN <<>> = {}
  BY OneShard DEF Init
<1>2. pc[Fold] = "idle"
  BY OneShard DEF Init
<1>. QED BY <1>1, <1>2, EmptyInOrder, RangeEmpty DEF PipeInOrder

\* Every step of the table keeps the pipe in order.
LEMMA PipeStep ==
  ASSUME IInv, PipeInOrder, [Next]_vars
  PROVE  PipeInOrder'
<1>t. /\ TypeOK /\ Conserved /\ written[0] \in Seq(Rows) /\ buf[0] \in Seq(Rows)
      /\ held[Fold] \in Seq(Rows) /\ chan[0] \in Seq(Seq(Rows)) /\ target[Fold] = 0
      /\ buf \in [Shards -> Seq(Rows)] /\ chan \in [Shards -> Seq(Seq(Rows))]
      /\ written \in [Shards -> Seq(Rows)] /\ held \in [Producers -> Seq(Rows)]
      /\ pc \in [Producers -> {"idle", "buffer", "send"}]
  BY OneShard DEF IInv, Phases, TypeOK
<1>1. CASE Pick(Fold)
  <2>1. /\ held'[Fold] = Batch(Fold, next[Fold]) /\ UNCHANGED <<written, buf, chan>>
        /\ next[Fold] <= Len(Sizes[Fold]) /\ pc[Fold] = "idle"
        /\ pc'[Fold] = IF Sizes[Fold][next[Fold]] >= SendBatch THEN "send" ELSE "buffer"
    BY <1>1, <1>t, OneShard DEF Pick
  <2>2. next[Fold] \in DOMAIN Calls
    BY <2>1, <1>t, OneShard DEF TypeOK
  <2>3. /\ Precede(written[0], held'[Fold]) /\ Precede(buf[0], held'[Fold])
        /\ \A a \in DOMAIN chan[0] : Precede(chan[0][a], held'[Fold])
    BY <1>t, <2>1, PipeIsSent, SentPrecedes DEF Precede
  <2>4. /\ InOrder(held'[Fold])
        /\ \A r \in Range(held'[Fold]) : Direct(r) <=> Sizes[Fold][next[Fold]] >= SendBatch
    BY <2>1, <2>2, BatchInOrder
  <2>5. /\ IF pc'[Fold] = "send" THEN Precede(held'[Fold], buf[0]) ELSE Precede(buf[0], held'[Fold])
        /\ pc'[Fold] = "buffer" => \A r \in Range(held'[Fold]) : ~Direct(r)
    BY <2>1, <2>3, <2>4 DEF PipeInOrder, Precede, Ahead
  <2>. QED BY <2>1, <2>3, <2>4, <2>5 DEF PipeInOrder
<1>2. CASE Buffer(Fold)
  <2>. DEFINE b == buf[0] \o held[Fold]
  <2>1. /\ UNCHANGED <<written, chan>> /\ pc[Fold] = "buffer"
        /\ \/ buf'[0] = <<>> /\ held'[Fold] = b /\ pc'[Fold] = "send"
           \/ buf'[0] = b /\ held'[Fold] = <<>> /\ pc'[Fold] = "idle"
    BY <1>2, <1>t, OneShard DEF Buffer
  <2>2. /\ InOrder(b) /\ Precede(written[0], b)
        /\ \A a \in DOMAIN chan[0] : Precede(chan[0][a], b)
    BY <1>t, <2>1, ConcatInOrder DEF PipeInOrder
  <2>3. \A r \in Range(b) : ~Direct(r)
    <3>1. Range(b) = Range(buf[0]) \cup Range(held[Fold])
      BY <1>t, RangeConcatenation
    <3>. QED BY <2>1, <3>1 DEF PipeInOrder
  <2>4. Range(<<>>) = {}
    BY RangeEmpty
  <2>. HIDE DEF b
  <2>. QED BY <2>1, <2>2, <2>3, <2>4, EmptyInOrder DEF PipeInOrder
<1>3. CASE Send(Fold)
  <2>1. /\ Deliver(0, held[Fold]) /\ UNCHANGED <<written, buf>> /\ held'[Fold] = <<>>
        /\ pc[Fold] = "send" /\ pc'[Fold] = "idle" /\ Precede(held[Fold], buf[0])
    BY <1>3, <1>t, OneShard DEF Send, PipeInOrder
  <2>2. /\ ChainInOrder(chan'[0])
        /\ \A a \in DOMAIN chan'[0] :
             (a \in DOMAIN chan[0] /\ chan'[0][a] = chan[0][a]) \/ chan'[0][a] = held[Fold]
    BY <1>t, <2>1, DeliverInOrder DEF PipeInOrder
  <2>. QED BY <2>1, <2>2, EmptyInOrder DEF PipeInOrder
<1>4. CASE Write(0)
  <2>1. /\ chan[0] # <<>> /\ written'[0] = written[0] \o Head(chan[0]) /\ chan'[0] = Tail(chan[0])
        /\ UNCHANGED <<sending, buf>>
    BY <1>4, <1>t, OneShard DEF Write
  <2>2. /\ Head(chan[0]) \in Seq(Rows) /\ InOrder(Head(chan[0])) /\ ChainInOrder(chan'[0])
        /\ \E a \in DOMAIN chan[0] : Head(chan[0]) = chan[0][a]
        /\ \A a \in DOMAIN chan'[0] : /\ Precede(Head(chan[0]), chan'[0][a])
                                      /\ \E c \in DOMAIN chan[0] : chan'[0][a] = chan[0][c]
    <3>1. ChainInOrder(chan[0])
      BY DEF PipeInOrder
    <3>2. chan'[0] = Tail(chan[0])
      BY <2>1
    <3>3. /\ Head(chan[0]) \in Seq(Rows) /\ InOrder(Head(chan[0])) /\ ChainInOrder(Tail(chan[0]))
          /\ \E a \in DOMAIN chan[0] : Head(chan[0]) = chan[0][a]
          /\ \A a \in DOMAIN Tail(chan[0]) :
               /\ Precede(Head(chan[0]), Tail(chan[0])[a])
               /\ \E c \in DOMAIN chan[0] : Tail(chan[0])[a] = chan[0][c]
      BY ONLY <1>t, <2>1, <3>1, TailInOrder
    <3>. QED BY ONLY <3>2, <3>3
  <2>3. /\ Precede(written[0], Head(chan[0])) /\ Precede(Head(chan[0]), buf[0])
        /\ Precede(Head(chan[0]), held[Fold])
    BY <2>2 DEF PipeInOrder
  <2>4. /\ InOrder(written'[0])
        /\ \A u : Precede(written[0], u) /\ Precede(Head(chan[0]), u) => Precede(written'[0], u)
    BY <1>t, <2>1, <2>2, <2>3, ConcatInOrder DEF PipeInOrder
  <2>5. \A a \in DOMAIN chan'[0] : /\ Precede(written[0], chan'[0][a])
                                   /\ Precede(chan'[0][a], buf[0]) /\ Precede(chan'[0][a], held[Fold])
    BY <2>2 DEF PipeInOrder
  <2>. QED BY <2>1, <2>2, <2>3, <2>4, <2>5 DEF PipeInOrder, sending
<1>5. CASE Fail(0)
  <2>1. chan'[0] = <<>> /\ DOMAIN <<>> = {} /\ UNCHANGED <<sending, buf, written>>
    BY <1>5, <1>t, OneShard DEF Fail
  <2>. QED BY <2>1, EmptyInOrder DEF PipeInOrder, sending
<1>6. CASE Flush
  <2>1. cursor = 0 /\ pc[Fold] = "idle"
    <3>1. stage # "routing"
      BY <1>6 DEF Flush
    <3>2. Returned
      BY <3>1 DEF IInv, Phases, Owned
    <3>. QED BY <1>6, <1>t, <3>2, OneShard DEF Flush, TypeOK, Returned
  <2>2. buf'[0] = <<>> /\ UNCHANGED <<sending, written>>
    BY <1>6, <1>t, <2>1, OneShard DEF Flush
  <2>3. /\ ChainInOrder(chan'[0])
        /\ \A a \in DOMAIN chan'[0] :
             (a \in DOMAIN chan[0] /\ chan'[0][a] = chan[0][a]) \/ chan'[0][a] = buf[0]
    <3>1. CASE buf[0] = <<>>
      BY <1>6, <2>1, <3>1 DEF Flush, PipeInOrder
    <3>2. CASE buf[0] # <<>>
      <4>1. Deliver(0, buf[0])
        BY <1>6, <2>1, <3>2 DEF Flush
      <4>. QED BY <1>t, <4>1, DeliverInOrder DEF PipeInOrder
    <3>. QED BY <3>1, <3>2
  <2>4. held[Fold] = <<>> /\ held'[Fold] = <<>>
    BY <2>1, <2>2, OneShard DEF IInv, Phases, Resting, sending
  <2>. QED BY <2>1, <2>2, <2>3, <2>4, EmptyInOrder, RangeEmpty DEF PipeInOrder, sending
<1>7. CASE EndOfRows(0) \/ BeginFinish \/ DropSenders \/ Await \/ Succeed \/ Stopped \/ UNCHANGED vars
  <2>1. UNCHANGED <<sending, buf, chan, written>>
    BY <1>7 DEF EndOfRows, BeginFinish, DropSenders, Await, Succeed, Stopped, vars, sending
  <2>. QED BY <2>1 DEF PipeInOrder, sending
<1>. QED
  <2>1. \A p \in Producers : p = Fold
    BY OneShard
  <2>2. \A k \in Shards : k = 0
    BY OneShard
  <2>. QED BY <1>1, <1>2, <1>3, <1>4, <1>5, <1>6, <1>7, <2>1, <2>2 DEF Next

\* The ordered run is a run of the sharded table.
LEMMA TableRuns == OrderedSpec => Spec
<1>1. OrderedInit => Init
  BY DEF OrderedInit
<1>2. [OrderedNext]_all => [Next]_vars
  BY DEF OrderedNext, all, JoinRow
<1>. QED BY <1>1, <1>2, PTL DEF OrderedSpec, Spec

\* What is written, queued, buffered and held can reach the file in this order, whatever
\* the sizes of the calls: the inductive invariant of the staging order.
THEOREM OrderIsKept == OrderedSpec => []PipeInOrder
<1>1. Init => PipeInOrder
  BY PipeInit
<1>2. IInv /\ PipeInOrder /\ [Next]_vars => PipeInOrder'
  BY PipeStep
<1>. QED BY <1>1, <1>2, TableRuns, Invariance, PTL DEF Spec

\* The staged table lists the fold's rows in the order it routed them, but for rows of small
\* calls that a batch-sized call passed in the buffer (sinks.rs:93), whatever the calls are.
THEOREM StagedInOrder == OrderedSpec => []OnlyOvertaken
<1>1. PipeInOrder => OnlyOvertaken
  BY DEF PipeInOrder, InOrder, OnlyOvertaken, TagRows, Ahead
<1>. QED BY <1>1, OrderIsKept, PTL

\* Where no call is as large as a batch, the order is the fold's.
COROLLARY SmallCallsKeepOrder ==
  ASSUME \A i \in DOMAIN Calls : Len(Calls[i]) < SendBatch
  PROVE  OrderedSpec => []RoutedOrder
<1>1. ASSUME NEW r \in Rows PROVE ~Direct(r)
  <2>1. PICK i \in DOMAIN Calls : \E j \in DOMAIN Calls[i] : r = <<Fold, i, j>>
    BY <1>1, RowIs
  <2>2. Len(Calls[i]) < SendBatch /\ Len(Calls[i]) \in Nat
    BY OneShard
  <2>. QED BY <2>1, <2>2, Parameters DEF Direct
<1>2. TypeOK => TagRows \in Seq(Rows)
  BY OneShard DEF TypeOK, TagRows
<1>3. TypeOK /\ OnlyOvertaken => RoutedOrder
  <2>. SUFFICES ASSUME TypeOK, OnlyOvertaken, NEW i \in DOMAIN TagRows, NEW j \in DOMAIN TagRows, i < j
                PROVE  Before(TagRows[i], TagRows[j])
    BY DEF RoutedOrder
  <2>1. TagRows[i] \in Rows
    BY <1>2, ElementOfSeq, LenProperties
  <2>. QED BY <1>1, <2>1 DEF OnlyOvertaken
<1>. QED BY <1>3, StagedInOrder, TableRuns, TypeCorrect, PTL

-----------------------------------------------------------------------------
(* The geometry file.                                                      *)

GeomRecord == [of : Int, seg : Nat, empty : BOOLEAN]

\* A file in kept order lists the elements' records by element.
LEMMA KeptOrderFacts ==
  ASSUME NEW D, D \in SUBSET Int, IsFiniteSet(D), NEW f \in [D -> Seq(GeomRecord)],
         \A e \in D : \A i \in DOMAIN f[e] : f[e][i].of = e
  PROVE  /\ InKeptOrder(f) \in Seq(GeomRecord)
         /\ \A k \in DOMAIN InKeptOrder(f) : \E e \in D : \E i \in DOMAIN f[e] : InKeptOrder(f)[k] = f[e][i]
         /\ \A k, m \in DOMAIN InKeptOrder(f) : k < m => InKeptOrder(f)[k].of <= InKeptOrder(f)[m].of
         /\ (\A e \in D : Len(f[e]) <= 1) =>
              \A k, m \in DOMAIN InKeptOrder(f) : k < m => InKeptOrder(f)[k].of < InKeptOrder(f)[m].of
<1>. DEFINE A == Ascending(D)
            n == Cardinality(D)
            q == [i \in DOMAIN A |-> f[A[i]]]
            s == FlattenSeq(q)
<1>1. /\ n \in Nat /\ A \in [1..n -> D] /\ DOMAIN A = 1..n
      /\ \A i, j \in 1..n : i < j => A[i] < A[j]
  BY AscendingFacts
<1>2. DOMAIN f = D /\ InKeptOrder(f) = s
  BY DEF InKeptOrder
<1>. HIDE DEF A, n
<1>3. q \in [1..n -> Seq(GeomRecord)] /\ \A i \in 1..n : q[i] = f[A[i]]
  BY <1>1
<1>4. q \in Seq(Seq(GeomRecord)) /\ Len(q) = n
  BY <1>1, <1>3, SeqDef, LenProperties
<1>. HIDE DEF q
<1>5. s \in Seq(GeomRecord) /\ \E blk, off : Lists(s, q, n, blk, off)
  BY <1>4, FlattenLists
<1>6. PICK blk, off : Lists(s, q, n, blk, off)
  BY <1>5
<1>7. DOMAIN s = 1..Len(s) /\ Len(s) \in Nat
  BY <1>5, LenProperties
<1>. HIDE DEF s
<1>8. \A k \in DOMAIN s : /\ blk[k] \in 1..n /\ A[blk[k]] \in D /\ off[k] \in DOMAIN f[A[blk[k]]]
                          /\ s[k] = f[A[blk[k]]][off[k]] /\ s[k].of = A[blk[k]]
  <2>. SUFFICES ASSUME NEW k \in DOMAIN s
                PROVE  /\ blk[k] \in 1..n /\ A[blk[k]] \in D /\ off[k] \in DOMAIN f[A[blk[k]]]
                       /\ s[k] = f[A[blk[k]]][off[k]] /\ s[k].of = A[blk[k]]
    OBVIOUS
  <2>1. blk[k] \in 1..n /\ off[k] \in DOMAIN q[blk[k]] /\ s[k] = q[blk[k]][off[k]]
    BY <1>6, <1>7 DEF Lists
  <2>2. q[blk[k]] = f[A[blk[k]]] /\ A[blk[k]] \in D
    BY <1>1, <1>3, <2>1
  <2>3. off[k] \in DOMAIN f[A[blk[k]]] /\ s[k] = f[A[blk[k]]][off[k]]
    BY <2>1, <2>2
  <2>4. s[k].of = A[blk[k]]
    BY <2>2, <2>3
  <2>. QED BY <2>1, <2>2, <2>3, <2>4
<1>9. \A k, m \in DOMAIN s : k < m => blk[k] < blk[m] \/ (blk[k] = blk[m] /\ off[k] < off[m])
  BY <1>6, <1>7 DEF Lists
<1>10. \A k, m \in DOMAIN s : blk[k] < blk[m] => s[k].of < s[m].of
  BY <1>1, <1>8
<1>11. \A e \in D : f[e] \in Seq(GeomRecord) /\ DOMAIN f[e] = 1..Len(f[e]) /\ Len(f[e]) \in Nat
  BY LenProperties
<1>12. \A k, m \in DOMAIN s : k < m => s[k].of <= s[m].of
  <2>. SUFFICES ASSUME NEW k \in DOMAIN s, NEW m \in DOMAIN s, k < m PROVE s[k].of <= s[m].of
    OBVIOUS
  <2>1. s[k].of \in Int /\ s[m].of \in Int
    BY <1>8
  <2>2. CASE blk[k] < blk[m]
    BY <1>10, <2>1, <2>2
  <2>3. CASE blk[k] = blk[m]
    BY <1>8, <2>1, <2>3
  <2>. QED BY <1>9, <2>2, <2>3
<1>13. ASSUME \A e \in D : Len(f[e]) <= 1, NEW k \in DOMAIN s, NEW m \in DOMAIN s, k < m
       PROVE  s[k].of < s[m].of
  <2>1. ~(blk[k] = blk[m] /\ off[k] < off[m])
    <3>. SUFFICES ASSUME blk[k] = blk[m], off[k] < off[m] PROVE FALSE
      OBVIOUS
    <3>. DEFINE e == A[blk[k]]
    <3>1. e \in D /\ off[k] \in DOMAIN f[e] /\ off[m] \in DOMAIN f[e]
      BY <1>8
    <3>2. DOMAIN f[e] = 1..Len(f[e]) /\ Len(f[e]) \in Nat /\ Len(f[e]) <= 1
      BY <1>11, <1>13, <3>1
    <3>. HIDE DEF e
    <3>. QED BY <3>1, <3>2
  <2>. QED BY <1>9, <1>10, <1>13, <2>1
<1>14. \A k \in DOMAIN s : \E e \in D : \E i \in DOMAIN f[e] : s[k] = f[e][i]
  BY <1>8
<1>. QED BY ONLY <1>2, <1>5, <1>12, <1>13, <1>14

\* Finitely many elements are exported.
LEMMA ElementsFinite == Own \in SUBSET Int /\ IsFiniteSet(Own) /\ IsFiniteSet(Elements) /\ Elements \in SUBSET Int
<1>. DEFINE R == {Range(Calls[i]) : i \in DOMAIN Calls}
<1>1. \A i \in DOMAIN Calls : Calls[i] \in Seq(Int)
  BY OneShard, ElementOfSeq
<1>2. \A i \in DOMAIN Calls : IsFiniteSet(Range(Calls[i])) /\ Range(Calls[i]) \in SUBSET Int
  <2>. SUFFICES ASSUME NEW i \in DOMAIN Calls PROVE IsFiniteSet(Range(Calls[i])) /\ Range(Calls[i]) \in SUBSET Int
    OBVIOUS
  <2>. DEFINE c == Calls[i]
  <2>1. c \in Seq(Int) /\ Len(c) \in Nat /\ DOMAIN c = 1..Len(c)
    BY <1>1, LenProperties
  <2>2. IsFiniteSet(1..Len(c))
    BY <2>1, FS_Interval
  <2>3. Range(c) = {c[j] : j \in 1..Len(c)}
    BY <2>1 DEF Range
  <2>4. IsFiniteSet(Range(c))
    <3>1. c \in Surjection(1..Len(c), Range(c))
      BY <2>1, <2>3 DEF Surjection
    <3>. QED BY <2>2, <3>1, FS_Surjection
  <2>5. Range(c) \in SUBSET Int
    BY <2>1, <2>3
  <2>. QED BY <2>4, <2>5
<1>3. IsFiniteSet(R)
  <2>1. IsFiniteSet(DOMAIN Calls)
    BY OneShard, FS_Interval
  <2>2. [i \in DOMAIN Calls |-> Range(Calls[i])] \in Surjection(DOMAIN Calls, R)
    BY DEF Surjection
  <2>. QED BY <2>1, <2>2, FS_Surjection
<1>4. Own = UNION R
  BY DEF Own
<1>5. IsFiniteSet(Own)
  BY <1>2, <1>3, <1>4, FS_UNION
<1>6. Own \in SUBSET Int
  BY <1>2, <1>4
<1>7. IsFiniteSet(Own \cup Foreign)
  BY <1>5, OrderedAssumption, FS_Union
<1>. QED BY <1>5, <1>6, <1>7, OrderedAssumption DEF Elements

\* Both files are in kept order; the topic's own has one record per element and only its
\* own elements', `edges.bin` no record without a shape.
FilesInOrder ==
  /\ table \in Seq(GeomRecord) /\ edges \in Seq(GeomRecord)
  /\ \A k \in DOMAIN table : table[k].of \in Own
  /\ \A k, m \in DOMAIN table : k < m => table[k].of < table[m].of
  /\ \A k, m \in DOMAIN edges : k < m => edges[k].of <= edges[m].of
  /\ \A k \in DOMAIN edges : ~edges[k].empty

LEMMA FileInit ==
  ASSUME JoinInit
  PROVE  FilesInOrder
<1>1. \A e \in Int, b \in BOOLEAN, g \in {0, 1} :
        Record(e, g, b) \in GeomRecord /\ Record(e, g, b).of = e /\ Record(e, g, b).empty = b
  BY DEF Record, GeomRecord
<1>2. \A e \in Int : \A x \in TableRecords(e) :
        x \in Seq(GeomRecord) /\ Len(x) <= 1 /\ \A i \in DOMAIN x : x[i].of = e
  <2>. SUFFICES ASSUME NEW e \in Int, NEW x \in TableRecords(e)
                PROVE  x \in Seq(GeomRecord) /\ Len(x) <= 1 /\ \A i \in DOMAIN x : x[i].of = e
    OBVIOUS
  <2>1. CASE x = <<>>
    BY <2>1
  <2>2. CASE x # <<>>
    <3>1. PICK b \in BOOLEAN : x = <<Record(e, 0, b)>>
      BY <2>2 DEF TableRecords
    <3>2. Record(e, 0, b) \in GeomRecord /\ Record(e, 0, b).of = e
      BY <1>1
    <3>. QED BY <3>1, <3>2
  <2>. QED BY <2>1, <2>2
<1>3. \A e \in Int : \A x \in EdgeRecords(e) :
        x \in Seq(GeomRecord) /\ \A i \in DOMAIN x : x[i].of = e /\ ~x[i].empty
  <2>. SUFFICES ASSUME NEW e \in Int, NEW x \in EdgeRecords(e)
                PROVE  x \in Seq(GeomRecord) /\ \A i \in DOMAIN x : x[i].of = e /\ ~x[i].empty
    OBVIOUS
  <2>1. /\ Record(e, 0, FALSE) \in GeomRecord /\ Record(e, 0, FALSE).of = e /\ ~Record(e, 0, FALSE).empty
        /\ Record(e, 1, FALSE) \in GeomRecord /\ Record(e, 1, FALSE).of = e /\ ~Record(e, 1, FALSE).empty
    BY <1>1
  <2>. DEFINE a == Record(e, 0, FALSE)
              b == Record(e, 1, FALSE)
  <2>2. x = <<>> \/ x = <<a>> \/ x = <<a, b>>
    BY DEF EdgeRecords
  <2>. HIDE DEF a, b
  <2>3. /\ a \in GeomRecord /\ a.of = e /\ ~a.empty
        /\ b \in GeomRecord /\ b.of = e /\ ~b.empty
    BY <2>1 DEF a, b
  <2>4. CASE x = <<>>
    BY <2>4
  <2>5. CASE x = <<a>>
    BY <2>3, <2>5
  <2>6. CASE x = <<a, b>>
    <3>1. x \in Seq(GeomRecord) /\ DOMAIN x = {1, 2} /\ x[1] = a /\ x[2] = b
      BY <2>3, <2>6
    <3>. QED BY <2>3, <3>1
  <2>. QED BY <2>2, <2>4, <2>5, <2>6
<1>4. /\ table \in Seq(GeomRecord) /\ \A k \in DOMAIN table : table[k].of \in Own
      /\ \A k, m \in DOMAIN table : k < m => table[k].of < table[m].of
  <2>1. PICK f \in [Own -> UNION {TableRecords(e) : e \in Own}] :
          table = InKeptOrder(f) /\ \A e \in Own : f[e] \in TableRecords(e)
    BY DEF JoinInit
  <2>2. /\ f \in [Own -> Seq(GeomRecord)] /\ \A e \in Own : Len(f[e]) <= 1
        /\ \A e \in Own : \A i \in DOMAIN f[e] : f[e][i].of = e
    BY <1>2, <2>1, ElementsFinite
  <2>3. /\ table \in Seq(GeomRecord)
        /\ \A k \in DOMAIN table : \E e \in Own : \E i \in DOMAIN f[e] : table[k] = f[e][i]
        /\ \A k, m \in DOMAIN table : k < m => table[k].of < table[m].of
    <3>. DEFINE g == InKeptOrder(f)
    <3>1. /\ g \in Seq(GeomRecord)
          /\ \A k \in DOMAIN g : \E e \in Own : \E i \in DOMAIN f[e] : g[k] = f[e][i]
          /\ \A k, m \in DOMAIN g : k < m => g[k].of < g[m].of
      BY ONLY <2>2, ElementsFinite, KeptOrderFacts
    <3>2. table = g
      BY <2>1
    <3>. HIDE DEF g
    <3>. QED BY ONLY <3>1, <3>2
  <2>. QED BY <2>2, <2>3
<1>5. /\ edges \in Seq(GeomRecord) /\ \A k \in DOMAIN edges : ~edges[k].empty
      /\ \A k, m \in DOMAIN edges : k < m => edges[k].of <= edges[m].of
  <2>1. PICK f \in [Elements -> UNION {EdgeRecords(e) : e \in Elements}] :
          edges = InKeptOrder(f) /\ \A e \in Elements : f[e] \in EdgeRecords(e)
    BY DEF JoinInit
  <2>2. /\ f \in [Elements -> Seq(GeomRecord)]
        /\ \A e \in Elements : \A i \in DOMAIN f[e] : f[e][i].of = e /\ ~f[e][i].empty
    BY <1>3, <2>1, ElementsFinite
  <2>3. /\ edges \in Seq(GeomRecord)
        /\ \A k \in DOMAIN edges : \E e \in Elements : \E i \in DOMAIN f[e] : edges[k] = f[e][i]
        /\ \A k, m \in DOMAIN edges : k < m => edges[k].of <= edges[m].of
    <3>. DEFINE g == InKeptOrder(f)
    <3>1. /\ g \in Seq(GeomRecord)
          /\ \A k \in DOMAIN g : \E e \in Elements : \E i \in DOMAIN f[e] : g[k] = f[e][i]
          /\ \A k, m \in DOMAIN g : k < m => g[k].of <= g[m].of
      <4>1. \A e \in Elements : \A i \in DOMAIN f[e] : f[e][i].of = e
        BY <2>2
      <4>. QED BY ONLY <2>2, <4>1, ElementsFinite, KeptOrderFacts
    <3>2. edges = g
      BY <2>1
    <3>. HIDE DEF g
    <3>. QED BY ONLY <3>1, <3>2
  <2>. QED BY <2>2, <2>3
<1>. QED BY <1>4, <1>5 DEF FilesInOrder

-----------------------------------------------------------------------------
(* The join.                                                               *)

\* The element of the i-th tag row.
Elem(i) == ElementOf(TagRows[i])

Visible(k) == k \in DOMAIN table /\ ~table[k].empty

\* The records before this place have been compared with a tag row and passed.
Passed == IF pending = <<>> THEN pos ELSE pos - 1

JoinTypes ==
  /\ pos \in 0..Len(table) /\ edgePos \in 0..Len(edges)
  /\ last \in Seq(GeomRecord) /\ edgeLast \in Seq(GeomRecord)
  /\ pending = <<>> \/ (Visible(pos) /\ pending = <<table[pos]>>)
  /\ features \in Seq(Rows \X Seq(GeomRecord)) /\ Len(features) <= Len(TagRows)
  /\ \A i \in 1..Len(features) : features[i][1] = TagRows[i]
  /\ stage # "ok" => features = <<>>

\* A kept match is all the geometry of its element in that file, and the edge cursor stands
\* between two ways.
Whole ==
  /\ last # <<>> => last = TableOf(last[1].of)
  /\ edgeLast # <<>> => edgeLast = EdgesOf(edgeLast[1].of)
  /\ \A k, m \in DOMAIN edges : k <= edgePos /\ m > edgePos => edges[k].of # edges[m].of

\* A way whose rows are given its segments.
Asks(e) == TableOf(e) = <<>> /\ ~Blocked(e)

\* The cursors have passed exactly the records of the first n rows' elements (of those that
\* ask for segments, in edges.bin), and keep the latest row's match for its twin.
CursorsAt(n) ==
  /\ \A k \in DOMAIN table : Visible(k) => (k <= Passed <=> \E i \in 1..n : Elem(i) = table[k].of)
  /\ \A k \in DOMAIN edges :
       k <= edgePos <=> Asks(edges[k].of) /\ \E i \in 1..n : Elem(i) = edges[k].of
  /\ last # <<>> => \E i \in 1..n : Elem(i) = last[1].of
  /\ edgeLast # <<>> => Asks(edgeLast[1].of) /\ \E i \in 1..n : Elem(i) = edgeLast[1].of
  /\ n # 0 /\ TableOf(Elem(n)) # <<>> => last = TableOf(Elem(n))
  /\ n # 0 /\ Asks(Elem(n)) /\ EdgesOf(Elem(n)) # <<>> => edgeLast = EdgesOf(Elem(n))

\* What a row of element e is given while the rows come in the order they were routed in.
Due(e) == IF TableOf(e) = <<>> /\ Blocked(e) THEN <<>> ELSE Lookup(e)

Joined ==
  \A i \in 1..Len(features) :
    /\ features[i][2] \in {<<>>, TableOf(Elem(i)), EdgesOf(Elem(i))}
    /\ InStep(i) => features[i][2] = Due(Elem(i))

JoinInv ==
  /\ FilesInOrder /\ JoinTypes /\ Whole /\ Joined
  /\ InStep(Len(features)) => CursorsAt(Len(features))

\* Every element of the table has a row.
LEMMA ElementHasRow ==
  ASSUME NEW e \in Own
  PROVE  \E r \in Rows : ElementOf(r) = e
<1>1. PICK i \in DOMAIN Calls : e \in Range(Calls[i])
  BY DEF Own
<1>2. PICK j \in DOMAIN Calls[i] : e = Calls[i][j]
  BY <1>1 DEF Range
<1>3. Calls[i] \in Seq(Int) /\ Sizes[Fold][i] = Len(Calls[i]) /\ i \in 1..(Len(Sizes[Fold]) + 1 - 1)
  BY <1>1, OneShard, ElementOfSeq
<1>4. j \in 1..Sizes[Fold][i]
  BY <1>2, <1>3, LenProperties
<1>5. <<Fold, i, j>> \in Range(Batch(Fold, i))
  BY <1>4 DEF Range, Batch
<1>6. <<Fold, i, j>> \in Rows
  BY <1>3, <1>5, OneShard DEF Rows, RowsBefore
<1>. QED BY <1>2, <1>6 DEF ElementOf

\* Rows routed in order are rows of elements in kept order.
LEMMA RowsInKeptOrder ==
  /\ \A r \in Rows : ElementOf(r) \in Int
  /\ \A r, x \in Rows : Before(r, x) => ElementOf(r) <= ElementOf(x)
  /\ \A r, x \in Rows : ElementOf(r) < ElementOf(x) => Before(r, x)
<1>4. \A r \in Rows : ElementOf(r) \in Int
  <2>. SUFFICES ASSUME NEW r \in Rows PROVE ElementOf(r) \in Int
    OBVIOUS
  <2>1. PICK i \in DOMAIN Calls : \E j \in DOMAIN Calls[i] : r = <<Fold, i, j>>
    BY RowIs
  <2>2. PICK j \in DOMAIN Calls[i] : r = <<Fold, i, j>>
    BY <2>1
  <2>3. Calls[i] \in Seq(Int)
    BY OneShard, ElementOfSeq
  <2>4. Calls[i][j] \in Int
    BY <2>3, ElementOfSeq, LenProperties
  <2>. QED BY <2>2, <2>4 DEF ElementOf
<1>5. \A r, x \in Rows : /\ r = x \/ Before(r, x) => ElementOf(r) <= ElementOf(x)
                         /\ r = x \/ Before(r, x) \/ Before(x, r)
  <2>. SUFFICES ASSUME NEW r \in Rows, NEW x \in Rows
                PROVE  /\ r = x \/ Before(r, x) => ElementOf(r) <= ElementOf(x)
                       /\ r = x \/ Before(r, x) \/ Before(x, r)
    OBVIOUS
  <2>1. PICK i \in DOMAIN Calls : \E j \in DOMAIN Calls[i] : r = <<Fold, i, j>>
    BY RowIs
  <2>2. PICK j \in DOMAIN Calls[i] : r = <<Fold, i, j>>
    BY <2>1
  <2>3. PICK m \in DOMAIN Calls : \E n \in DOMAIN Calls[m] : x = <<Fold, m, n>>
    BY RowIs
  <2>4. PICK n \in DOMAIN Calls[m] : x = <<Fold, m, n>>
    BY <2>3
  <2>5. i \in Nat /\ m \in Nat /\ j \in Nat /\ n \in Nat
    <3>1. Calls[i] \in Seq(Int) /\ Calls[m] \in Seq(Int)
      BY OneShard, ElementOfSeq
    <3>. QED BY <3>1, OneShard, LenProperties
  <2>6. r = x \/ Before(r, x) => i < m \/ (i = m /\ j <= n)
    BY <2>2, <2>4, <2>5 DEF Before
  <2>7. r = x \/ Before(r, x) => Calls[i][j] <= Calls[m][n]
    BY <2>6, OrderedAssumption
  <2>8. r = x \/ Before(r, x) \/ Before(x, r)
    BY <2>2, <2>4, <2>5 DEF Before
  <2>. QED BY <2>2, <2>4, <2>7, <2>8 DEF ElementOf
<1>6. ASSUME NEW r \in Rows, NEW x \in Rows, ElementOf(r) < ElementOf(x) PROVE Before(r, x)
  <2>1. ~(ElementOf(x) <= ElementOf(r))
    BY <1>4, <1>6
  <2>. QED BY <1>5, <2>1
<1>. QED BY <1>4, <1>5, <1>6

\* A row that comes in the order it was routed in comes after every row of an earlier
\* element, behind its twin if it has one before it.
LEMMA InStepFacts ==
  ASSUME TagRows \in Seq(Rows), NEW n \in Nat, n + 1 \in 1..Len(TagRows), InStep(n + 1)
  PROVE  /\ InStep(n) /\ \A i \in 1..(n + 1) : Elem(i) \in Int
         /\ \A i \in 1..n : Elem(i) <= Elem(n + 1)
         /\ \A x \in Own : x < Elem(n + 1) => \E i \in 1..n : Elem(i) = x
         /\ (\E i \in 1..n : Elem(i) = Elem(n + 1)) => n \in 1..n /\ Elem(n) = Elem(n + 1)
<1>1. /\ \A i \in 1..(n + 1) : TagRows[i] \in Rows /\ Elem(i) \in Int
      /\ n + 1 \in 1..(n + 1) /\ (n + 1) - 1 = n /\ \A i \in 1..n : i \in 1..(n + 1)
  <2>1. Len(TagRows) \in Nat
    BY LenProperties
  <2>2. \A i \in 1..(n + 1) : TagRows[i] \in Rows
    BY <2>1, ElementOfSeq
  <2>. QED BY <2>2, RowsInKeptOrder DEF Elem
<1>2. InStep(n)
  BY <1>1 DEF InStep
<1>3. \A m \in 1..(n + 1) : \A j \in 1..(m - 1) : Before(TagRows[j], TagRows[m])
  <2>. SUFFICES ASSUME NEW m \in 1..(n + 1), NEW j \in 1..(m - 1) PROVE Before(TagRows[j], TagRows[m])
    OBVIOUS
  <2>1. j \in 1..(n + 1)
    OBVIOUS
  <2>. QED BY <1>1, <2>1 DEF InStep
<1>4. \A m \in 1..(n + 1) : \A j \in 1..(m - 1) : Elem(j) <= Elem(m)
  <2>. SUFFICES ASSUME NEW m \in 1..(n + 1), NEW j \in 1..(m - 1) PROVE Elem(j) <= Elem(m)
    OBVIOUS
  <2>1. j \in 1..(n + 1) /\ Before(TagRows[j], TagRows[m])
    BY <1>3
  <2>. QED BY <1>1, <2>1, RowsInKeptOrder DEF Elem
<1>5. ASSUME NEW x \in Own, x < Elem(n + 1) PROVE \E i \in 1..n : Elem(i) = x
  <2>1. PICK r \in Rows : ElementOf(r) = x
    BY ElementHasRow
  <2>2. Before(r, TagRows[n + 1])
    BY <1>1, <1>5, <2>1, RowsInKeptOrder DEF Elem
  <2>3. PICK j \in 1..n : TagRows[j] = r
    BY <1>1, <2>1, <2>2 DEF InStep
  <2>. QED BY <2>1, <2>3 DEF Elem
<1>6. ASSUME NEW i \in 1..n, Elem(i) = Elem(n + 1) PROVE n \in 1..n /\ Elem(n) = Elem(n + 1)
  <2>1. n \in 1..n /\ n \in 1..(n + 1)
    BY <1>6
  <2>2. Elem(n) <= Elem(n + 1)
    BY <1>1, <1>4, <2>1
  <2>3. i = n \/ i \in 1..(n - 1)
    BY <1>6
  <2>4. i = n \/ Elem(i) <= Elem(n)
    BY <1>4, <2>1, <2>3
  <2>. QED BY <1>1, <1>6, <2>1, <2>2, <2>4
<1>7. \A i \in 1..n : Elem(i) <= Elem(n + 1)
  BY <1>1, <1>4
<1>. QED BY <1>1, <1>2, <1>5, <1>6, <1>7

\* Where the records of an element that have a shape are in a file.
Of(file, e) == {k \in DOMAIN file : ~file[k].empty /\ file[k].of = e}

LEMMA ShapesFacts ==
  ASSUME NEW file \in Seq(GeomRecord), NEW e
  PROVE  /\ ShapesOf(file, e) \in Seq(GeomRecord) /\ Of(file, e) \in SUBSET (DOMAIN file)
         /\ Of(file, e) = {} => ShapesOf(file, e) = <<>>
         /\ ShapesOf(file, e) # <<>> => ShapesOf(file, e)[1].of = e
         /\ Of(file, e) # {} => ShapesOf(file, e) # <<>>
         /\ \A k \in DOMAIN file : Of(file, e) = {k} => ShapesOf(file, e) = <<file[k]>>
         /\ \A a, b \in 0..Len(file) : a < b /\ Of(file, e) = (a + 1)..b => ShapesOf(file, e) = SubSeq(file, a + 1, b)
<1>. DEFINE I == Of(file, e)
            l == ShapesOf(file, e)
<1>1. I \in SUBSET (DOMAIN file) /\ l = ItemsAt(file, I)
  BY DEF Of, ShapesOf
<1>2. DOMAIN file = 1..Len(file) /\ Len(file) \in Nat
  BY LenProperties
<1>3. /\ IsFiniteSet(I) /\ I \subseteq Int /\ Cardinality(I) \in Nat
      /\ l \in Seq(GeomRecord) /\ Len(l) = Cardinality(I)
      /\ \A k \in 1..Cardinality(I) : l[k] = file[Ascending(I)[k]]
  <2>. HIDE DEF I, l
  <2>. QED BY ONLY file \in Seq(GeomRecord), <1>1, ItemsAtFacts
<1>4. /\ \A k \in 1..Cardinality(I) : Ascending(I)[k] \in I
      /\ \A x \in I : \E i \in 1..Cardinality(I) : Ascending(I)[i] = x
  <2>. HIDE DEF I
  <2>. QED BY <1>3, AscendingFacts
<1>5. I = {} => l = <<>>
  <2>. SUFFICES ASSUME I = {} PROVE l = <<>>
    OBVIOUS
  <2>1. Len(l) = 0
    BY <1>3, FS_EmptySet
  <2>. QED BY <1>3, <2>1, EmptySeq
<1>6. l # <<>> => l[1].of = e
  <2>. SUFFICES ASSUME l # <<>> PROVE l[1].of = e
    OBVIOUS
  <2>1. 1 \in 1..Cardinality(I)
    BY <1>3, EmptySeq
  <2>2. Ascending(I)[1] \in I /\ l[1] = file[Ascending(I)[1]]
    BY <1>3, <1>4, <2>1
  <2>. QED BY <2>2 DEF Of
<1>7. I # {} => l # <<>>
  <2>. SUFFICES ASSUME I # {} PROVE l # <<>>
    OBVIOUS
  <2>1. Cardinality(I) # 0
    BY <1>3, <1>4
  <2>. QED BY <1>3, <2>1
<1>8. ASSUME NEW a \in 0..Len(file), NEW b \in 0..Len(file), a < b, I = (a + 1)..b
      PROVE  /\ Len(l) = b - a /\ \A i \in 1..(b - a) : l[i] = file[a + i]
             /\ l = SubSeq(file, a + 1, b)
  <2>1. PICK n \in Nat : b = a + n
    <3>1. b - a \in Nat /\ b = a + (b - a)
      BY <1>2, <1>8
    <3>. QED BY <3>1
  <2>2. b - a = n /\ a \in Nat /\ n \in Nat
    BY <1>2, <2>1
  <2>3. I = (a + 1)..(a + n)
    BY <1>8, <2>1
  <2>4. Len(l) = n /\ \A i \in 1..n : l[i] = file[a + i]
    <3>1. l = ItemsAt(file, (a + 1)..(a + n))
      BY <1>1, <2>3
    <3>2. a \in Nat /\ n \in Nat
      BY <2>2
    <3>3. /\ DOMAIN ItemsAt(file, (a + 1)..(a + n)) = 1..n /\ Len(ItemsAt(file, (a + 1)..(a + n))) = n
          /\ \A i \in 1..n : ItemsAt(file, (a + 1)..(a + n))[i] = file[a + i]
      BY ONLY <3>2, ItemsAtInterval
    <3>. HIDE DEF l
    <3>. QED BY ONLY <3>1, <3>3
  <2>5. /\ SubSeq(file, a + 1, b) \in Seq(GeomRecord) /\ Len(SubSeq(file, a + 1, b)) = n
        /\ \A i \in 1..n : SubSeq(file, a + 1, b)[i] = file[a + i]
    <3>1. a + 1 \in Nat /\ b \in Nat /\ a + 1 <= b + 1
      BY <1>2, <1>8
    <3>2. \A i \in 1..n : a + 1 + i - 1 = a + i
      BY <2>2
    <3>3. a + 1 >= 1 /\ b <= Len(file) /\ b - (a + 1) + 1 = n
      BY <1>2, <2>1, <2>2
    <3>. QED BY <1>2, <3>1, <3>2, <3>3, SubSeqProperties
  <2>6. l = SubSeq(file, a + 1, b)
    <3>1. Len(l) = Len(SubSeq(file, a + 1, b)) /\ \A i \in 1..Len(l) : l[i] = SubSeq(file, a + 1, b)[i]
      BY <2>4, <2>5
    <3>. HIDE DEF l
    <3>. QED BY <1>3, <2>5, <3>1, SeqEqual
  <2>. QED BY <2>2, <2>4, <2>6
<1>9. ASSUME NEW k \in DOMAIN file, I = {k} PROVE l = <<file[k]>>
  <2>1. PICK a : a = k - 1
    OBVIOUS
  <2>2. a \in 0..Len(file) /\ k \in 0..Len(file) /\ a < k /\ a + 1 = k /\ k - a = 1
    BY <1>2, <2>1
  <2>3. I = (a + 1)..k
    BY <1>9, <2>2
  <2>4. Len(l) = 1 /\ \A i \in 1..1 : l[i] = file[a + i]
    <3>. HIDE DEF I, l
    <3>. QED BY <1>8, <2>2, <2>3
  <2>5. l[1] = file[k]
    BY <2>2, <2>4
  <2>6. <<file[k]>> \in Seq(GeomRecord) /\ Len(<<file[k]>>) = 1 /\ <<file[k]>>[1] = file[k]
    BY <1>2, ElementOfSeq
  <2>7. \A i \in 1..1 : i = 1
    OBVIOUS
  <2>. QED BY <1>3, <2>4, <2>5, <2>6, <2>7, SeqEqual
<1>. QED BY <1>1, <1>3, <1>5, <1>6, <1>7, <1>8, <1>9

\* The next record with a shape that has not been passed, if there is one.
LEMMA ReadOneFacts ==
  ASSUME FilesInOrder, JoinTypes
  PROVE  \/ /\ ReadOne.record = <<>> /\ ReadOne.upto = Len(table)
            /\ pending = <<>> /\ \A k \in DOMAIN table : Visible(k) => k <= Passed
         \/ \E k \in DOMAIN table : /\ Visible(k) /\ k > Passed
                                   /\ ReadOne.record = <<table[k]>> /\ ReadOne.upto = k
                                   /\ \A m \in DOMAIN table : Visible(m) /\ m > Passed => k <= m
<1>. DEFINE ahead == {k \in (pos + 1)..Len(table) : ~table[k].empty}
<1>1. pos \in 0..Len(table) /\ Len(table) \in Nat /\ DOMAIN table = 1..Len(table)
  BY LenProperties DEF FilesInOrder, JoinTypes
<1>2. CASE pending # <<>>
  <2>1. Visible(pos) /\ pending = <<table[pos]>> /\ pos \in DOMAIN table /\ Passed = pos - 1
    BY <1>2 DEF JoinTypes, Visible, Passed
  <2>2. ReadOne.record = <<table[pos]>> /\ ReadOne.upto = pos
    BY <1>2, <2>1 DEF ReadOne
  <2>3. \A m \in DOMAIN table : m > Passed => pos <= m
    BY <1>1, <2>1
  <2>4. pos > Passed
    BY <1>1, <2>1
  <2>. QED BY <2>1, <2>2, <2>3, <2>4
<1>3. CASE pending = <<>> /\ ahead = {}
  <2>1. ReadOne.record = <<>> /\ ReadOne.upto = Len(table) /\ Passed = pos
    BY <1>3 DEF ReadOne, Passed
  <2>2. \A k \in DOMAIN table : Visible(k) => k <= pos
    BY <1>1, <1>3 DEF Visible
  <2>. QED BY <1>3, <2>1, <2>2
<1>4. CASE pending = <<>> /\ ahead # {}
  <2>1. ahead \subseteq Nat
    BY <1>1
  <2>2. \E k \in ahead : \A m \in ahead : k <= m
    <3>. HIDE DEF ahead
    <3>. QED BY <1>4, <2>1, LeastNatural
  <2>3. Min(ahead) \in ahead /\ \A m \in ahead : Min(ahead) <= m
    <3>. HIDE DEF ahead
    <3>. QED BY <2>2 DEF Min
  <2>4. ReadOne.record = <<table[Min(ahead)]>> /\ ReadOne.upto = Min(ahead) /\ Passed = pos
    BY <1>4 DEF ReadOne, Passed
  <2>5. \A k \in DOMAIN table : Visible(k) /\ k > pos <=> k \in ahead
    BY <1>1 DEF Visible
  <2>6. \A k \in ahead : k \in DOMAIN table
    BY <1>1
  <2>. HIDE DEF ahead
  <2>. QED BY <2>3, <2>4, <2>5, <2>6
<1>. QED BY <1>2, <1>3, <1>4


\* An element's record in the topic's own table.
LEMMA TableOfFacts ==
  ASSUME FilesInOrder, NEW e
  PROVE  /\ TableOf(e) \in Seq(GeomRecord) /\ (TableOf(e) # <<>> => TableOf(e)[1].of = e)
         /\ \A c \in DOMAIN table : Visible(c) /\ table[c].of = e => TableOf(e) = <<table[c]>>
         /\ TableOf(e) # <<>> => \E c \in DOMAIN table : Visible(c) /\ table[c].of = e
<1>1. table \in Seq(GeomRecord)
  BY DEF FilesInOrder
<1>2. /\ TableOf(e) \in Seq(GeomRecord) /\ (TableOf(e) # <<>> => TableOf(e)[1].of = e)
      /\ TableOf(e) # <<>> => Of(table, e) # {}
      /\ \A k \in DOMAIN table : Of(table, e) = {k} => TableOf(e) = <<table[k]>>
  BY <1>1, ShapesFacts DEF TableOf
<1>3. ASSUME NEW c \in DOMAIN table, Visible(c), table[c].of = e PROVE Of(table, e) = {c}
  <2>1. DOMAIN table \subseteq Int
    BY <1>1, LenProperties
  <2>2. ASSUME NEW k \in DOMAIN table, table[k].of = e PROVE k = c
    <3>0. \A x \in DOMAIN table : table[x] \in GeomRecord
      BY <1>1, ElementOfSeq, LenProperties
    <3>1. \A x \in DOMAIN table : table[x].of \in Int
      BY <3>0 DEF GeomRecord
    <3>2. ~(k < c) /\ ~(c < k)
      BY <1>3, <2>2, <3>1 DEF FilesInOrder
    <3>. QED BY <2>1, <3>2
  <2>. QED BY <1>3, <2>2 DEF Of, Visible
<1>. QED BY <1>2, <1>3 DEF Of, Visible

\* A way's segments in `edges.bin`.
LEMMA EdgesOfFacts ==
  ASSUME FilesInOrder, NEW e
  PROVE  /\ EdgesOf(e) \in Seq(GeomRecord) /\ (EdgesOf(e) # <<>> => EdgesOf(e)[1].of = e)
         /\ EdgesOf(e) # <<>> <=> \E k \in DOMAIN edges : edges[k].of = e
         /\ \A a, b \in 0..Len(edges) :
              a < b /\ (\A k \in DOMAIN edges : edges[k].of = e <=> a < k /\ k <= b)
                => EdgesOf(e) = SubSeq(edges, a + 1, b)
<1>1. edges \in Seq(GeomRecord) /\ Len(edges) \in Nat /\ DOMAIN edges = 1..Len(edges)
  BY LenProperties DEF FilesInOrder
<1>2. /\ EdgesOf(e) \in Seq(GeomRecord) /\ (EdgesOf(e) # <<>> => EdgesOf(e)[1].of = e)
      /\ EdgesOf(e) # <<>> <=> Of(edges, e) # {}
      /\ \A a, b \in 0..Len(edges) : a < b /\ Of(edges, e) = (a + 1)..b => EdgesOf(e) = SubSeq(edges, a + 1, b)
  BY <1>1, ShapesFacts DEF EdgesOf
<1>3. Of(edges, e) = {k \in DOMAIN edges : edges[k].of = e}
  BY DEF Of, FilesInOrder
<1>4. ASSUME NEW a \in 0..Len(edges), NEW b \in 0..Len(edges),
             \A k \in DOMAIN edges : edges[k].of = e <=> a < k /\ k <= b
      PROVE  Of(edges, e) = (a + 1)..b
  <2>1. \A k \in (a + 1)..b : k \in DOMAIN edges /\ a < k /\ k <= b
    BY <1>1
  <2>2. \A k \in DOMAIN edges : a < k /\ k <= b => k \in (a + 1)..b
    BY <1>1
  <2>. QED BY <1>3, <1>4, <2>1, <2>2
<1>. QED BY <1>2, <1>3, <1>4

\* `OrderedGeomCursor::get` gives the element's record or nothing, and remains well formed.
LEMMA GetOwn ==
  ASSUME FilesInOrder, JoinTypes, Whole, NEW e
  PROVE  /\ Get(e).answer \in {<<>>, TableOf(e)} /\ Get(e).pos \in 0..Len(table)
         /\ Get(e).last \in Seq(GeomRecord)
         /\ \/ Get(e).pending = <<>>
            \/ Visible(Get(e).pos) /\ Get(e).pending = <<table[Get(e).pos]>>
         /\ Get(e).last # <<>> => Get(e).last = TableOf(Get(e).last[1].of)
         /\ Get(e).answer # <<>> => Get(e).last = Get(e).answer
         /\ Get(e).answer = <<>> => Get(e).last = last
         /\ Get(e).last = last \/ (Get(e).last # <<>> /\ Get(e).last[1].of = e)
<1>1. CASE last # <<>> /\ last[1].of = e
  <2>1. Get(e) = [answer |-> last, pos |-> pos, pending |-> pending, last |-> last]
    BY <1>1 DEF Get
  <2>2. last = TableOf(e)
    BY <1>1 DEF Whole
  <2>. QED BY <1>1, <2>1, <2>2 DEF JoinTypes, Whole
<1>2. CASE ~(last # <<>> /\ last[1].of = e)
  <2>. DEFINE read == ReadOne
              hit == read.record # <<>> /\ read.record[1].of = e
  <2>1. /\ Get(e).answer = (IF hit THEN read.record ELSE <<>>) /\ Get(e).pos = read.upto
        /\ Get(e).pending = (IF hit THEN <<>> ELSE read.record)
        /\ Get(e).last = (IF hit THEN read.record ELSE last)
    BY <1>2 DEF Get
  <2>2. read.record = <<>> \/ \E c \in DOMAIN table : /\ Visible(c) /\ read.record = <<table[c]>>
                                                      /\ read.upto = c
    BY ReadOneFacts
  <2>3. read.record = <<>> => read.upto = Len(table)
    BY ReadOneFacts
  <2>. HIDE DEF read
  <2>4. table \in Seq(GeomRecord) /\ Len(table) \in Nat /\ DOMAIN table = 1..Len(table)
    BY LenProperties DEF FilesInOrder
  <2>5. CASE read.record = <<>>
    BY <2>1, <2>3, <2>4, <2>5, EmptySeq DEF JoinTypes, Whole
  <2>6. ASSUME NEW c \in DOMAIN table, Visible(c), read.record = <<table[c]>>, read.upto = c
        PROVE  /\ Get(e).answer \in {<<>>, TableOf(e)} /\ Get(e).pos \in 0..Len(table)
               /\ Get(e).last \in Seq(GeomRecord)
               /\ \/ Get(e).pending = <<>>
                  \/ Visible(Get(e).pos) /\ Get(e).pending = <<table[Get(e).pos]>>
               /\ Get(e).last # <<>> => Get(e).last = TableOf(Get(e).last[1].of)
               /\ Get(e).answer # <<>> => Get(e).last = Get(e).answer
               /\ Get(e).answer = <<>> => Get(e).last = last
               /\ Get(e).last = last \/ (Get(e).last # <<>> /\ Get(e).last[1].of = e)
    <3>1. table[c] \in GeomRecord
      BY <2>4, ElementOfSeq
    <3>2. <<table[c]>> \in Seq(GeomRecord) /\ <<table[c]>> # <<>> /\ <<table[c]>>[1] = table[c]
      BY <3>1
    <3>3. TableOf(table[c].of) = <<table[c]>>
      BY <2>6, TableOfFacts
    <3>4. CASE table[c].of = e
      BY <2>1, <2>4, <2>6, <3>2, <3>3, <3>4
    <3>5. CASE table[c].of # e
      BY <2>1, <2>4, <2>6, <3>2, <3>5 DEF JoinTypes, Whole
    <3>. QED BY <3>4, <3>5
  <2>. QED BY <2>2, <2>5, <2>6
<1>. QED BY <1>1, <1>2

\* The records passed once the table has been asked for e.
PassedAfter(e) == IF Get(e).pending = <<>> THEN Get(e).pos ELSE Get(e).pos - 1

\* In step, the cursor finds the record that is there, and passes it.
LEMMA GetInStep ==
  ASSUME JoinInv, TagRows \in Seq(Rows), NEW n \in Nat, n = Len(features),
         n + 1 \in 1..Len(TagRows), InStep(n + 1), NEW e, e = Elem(n + 1)
  PROVE  /\ Get(e).answer = TableOf(e)
         /\ \A k \in DOMAIN table : Visible(k) => (k <= PassedAfter(e) <=> k <= Passed \/ table[k].of = e)
<1>1. /\ e \in Int /\ CursorsAt(n) /\ FilesInOrder /\ JoinTypes /\ Whole
      /\ \A i \in 1..n : Elem(i) \in Int /\ Elem(i) <= e
      /\ \A x \in Own : x < e => \E i \in 1..n : Elem(i) = x
      /\ (\E i \in 1..n : Elem(i) = e) => n \in 1..n /\ Elem(n) = e
  <2>1. n + 1 \in 1..(n + 1) /\ \A i \in 1..n : i \in 1..(n + 1)
    OBVIOUS
  <2>2. /\ InStep(n) /\ \A i \in 1..(n + 1) : Elem(i) \in Int
        /\ \A i \in 1..n : Elem(i) <= Elem(n + 1)
        /\ \A x \in Own : x < Elem(n + 1) => \E i \in 1..n : Elem(i) = x
        /\ (\E i \in 1..n : Elem(i) = Elem(n + 1)) => n \in 1..n /\ Elem(n) = Elem(n + 1)
    BY InStepFacts
  <2>. QED BY <2>1, <2>2 DEF JoinInv
<1>2. /\ table \in Seq(GeomRecord) /\ Len(table) \in Nat /\ DOMAIN table = 1..Len(table)
      /\ \A k \in DOMAIN table : table[k].of \in Int /\ table[k].of \in Own
      /\ \A k, m \in DOMAIN table : k < m => table[k].of < table[m].of
      /\ Passed \in Int
  <2>1. table \in Seq(GeomRecord) /\ Len(table) \in Nat /\ DOMAIN table = 1..Len(table)
    BY <1>1, LenProperties DEF FilesInOrder
  <2>2. \A k \in DOMAIN table : table[k] \in GeomRecord
    BY <2>1, ElementOfSeq
  <2>. QED BY <1>1, <2>1, <2>2 DEF FilesInOrder, GeomRecord, JoinTypes, Passed
<1>3. CASE last # <<>> /\ last[1].of = e
  <2>1. Get(e) = [answer |-> last, pos |-> pos, pending |-> pending, last |-> last]
    BY <1>3 DEF Get
  <2>2. last = TableOf(e) /\ PassedAfter(e) = Passed
    BY <1>1, <1>3, <2>1 DEF Whole, PassedAfter, Passed
  <2>3. \A k \in DOMAIN table : Visible(k) /\ table[k].of = e => k <= Passed
    BY <1>1, <1>3 DEF CursorsAt
  <2>. QED BY <2>1, <2>2, <2>3
<1>4. CASE ~(last # <<>> /\ last[1].of = e)
  <2>. DEFINE read == ReadOne
              hit == read.record # <<>> /\ read.record[1].of = e
  <2>1. /\ Get(e).answer = (IF hit THEN read.record ELSE <<>>) /\ Get(e).pos = read.upto
        /\ Get(e).pending = (IF hit THEN <<>> ELSE read.record)
    BY <1>4 DEF Get
  <2>2. \/ /\ read.record = <<>> /\ read.upto = Len(table)
           /\ pending = <<>> /\ \A k \in DOMAIN table : Visible(k) => k <= Passed
        \/ \E c \in DOMAIN table : /\ Visible(c) /\ c > Passed
                                   /\ read.record = <<table[c]>> /\ read.upto = c
                                   /\ \A m \in DOMAIN table : Visible(m) /\ m > Passed => c <= m
    BY <1>1, ReadOneFacts
  <2>. HIDE DEF read
  <2>3. ASSUME NEW k \in DOMAIN table, Visible(k), table[k].of = e, k <= Passed PROVE FALSE
    <3>1. \E i \in 1..n : Elem(i) = e
      BY <1>1, <2>3 DEF CursorsAt
    <3>2. n # 0 /\ Elem(n) = e
      BY <1>1, <3>1
    <3>3. TableOf(e) # <<>> /\ TableOf(e)[1].of = e
      <4>1. TableOf(e) = <<table[k]>>
        BY <1>1, <2>3, TableOfFacts
      <4>. QED BY <2>3, <4>1
    <3>4. last = TableOf(e)
      BY <1>1, <3>2, <3>3 DEF CursorsAt
    <3>. QED BY <1>4, <3>3, <3>4
  <2>4. ASSUME NEW k \in DOMAIN table, Visible(k), k > Passed PROVE table[k].of >= e
    <3>1. ~(k <= Passed)
      BY <1>2, <2>4
    <3>2. ~\E i \in 1..n : Elem(i) = table[k].of
      BY <1>1, <2>4, <3>1 DEF CursorsAt
    <3>3. ~(table[k].of < e)
      BY <1>1, <1>2, <3>2
    <3>. QED BY <1>1, <1>2, <3>3
  <2>5. CASE /\ read.record = <<>> /\ read.upto = Len(table)
             /\ pending = <<>> /\ \A k \in DOMAIN table : Visible(k) => k <= Passed
    <3>1. Get(e).answer = <<>> /\ PassedAfter(e) = Len(table)
      BY <2>1, <2>5 DEF PassedAfter
    <3>2. TableOf(e) = <<>>
      BY <1>1, <2>3, <2>5, TableOfFacts
    <3>. QED BY <1>2, <2>5, <3>1, <3>2
  <2>6. ASSUME NEW c \in DOMAIN table, Visible(c), c > Passed, read.record = <<table[c]>>, read.upto = c,
               \A m \in DOMAIN table : Visible(m) /\ m > Passed => c <= m
        PROVE  /\ Get(e).answer = TableOf(e)
               /\ \A k \in DOMAIN table : Visible(k) => (k <= PassedAfter(e) <=> k <= Passed \/ table[k].of = e)
    <3>1. <<table[c]>> # <<>> /\ <<table[c]>>[1] = table[c]
      OBVIOUS
    <3>2. \A k \in DOMAIN table : Visible(k) => (k < c <=> k <= Passed)
      BY <1>2, <2>6
    <3>3. CASE table[c].of = e
      <4>1. Get(e).answer = <<table[c]>> /\ PassedAfter(e) = c
        BY <2>1, <2>6, <3>1, <3>3 DEF PassedAfter
      <4>2. TableOf(e) = <<table[c]>>
        BY <1>1, <2>6, <3>3, TableOfFacts
      <4>3. \A k \in DOMAIN table : table[k].of = e => k = c
        <5>. SUFFICES ASSUME NEW k \in DOMAIN table, table[k].of = e PROVE k = c
          OBVIOUS
        <5>1. ~(k < c) /\ ~(c < k)
          BY <1>1, <1>2, <3>3
        <5>. QED BY <1>2, <5>1
      <4>4. \A k \in DOMAIN table : k <= c <=> k < c \/ k = c
        BY <1>2
      <4>. QED BY <3>2, <3>3, <4>1, <4>2, <4>3, <4>4
    <3>4. CASE table[c].of # e
      <4>1. Get(e).answer = <<>> /\ PassedAfter(e) = c - 1
        BY <2>1, <2>6, <3>1, <3>4 DEF PassedAfter
      <4>2. \A k \in DOMAIN table : Visible(k) => table[k].of # e
        <5>. SUFFICES ASSUME NEW k \in DOMAIN table, Visible(k), table[k].of = e PROVE FALSE
          OBVIOUS
        <5>1. k > Passed
          BY <1>2, <2>3
        <5>2. c <= k /\ table[c].of >= e
          BY <2>4, <2>6, <5>1
        <5>3. c < k
          BY <1>2, <3>4, <5>2
        <5>4. table[c].of < table[k].of
          BY <1>2, <5>3
        <5>. QED BY <1>1, <1>2, <5>2, <5>4
      <4>3. TableOf(e) = <<>>
        BY <1>1, <4>2, TableOfFacts
      <4>4. \A k \in DOMAIN table : k <= c - 1 <=> k < c
        BY <1>2
      <4>. QED BY <3>2, <4>1, <4>2, <4>3, <4>4
    <3>. QED BY <3>3, <3>4
  <2>. QED BY <2>2, <2>5, <2>6
<1>. QED BY <1>3, <1>4

\* The run of e's segments at the edge cursor.
LEMMA RunFacts ==
  ASSUME FilesInOrder, JoinTypes, NEW e
  PROVE  /\ RunEnd(e) \in edgePos..Len(edges) /\ RunEnd(e) \in 0..Len(edges)
         /\ \A m \in (edgePos + 1)..RunEnd(e) : edges[m].of = e
         /\ RunEnd(e) = Len(edges) \/ edges[RunEnd(e) + 1].of # e
<1>. DEFINE T == {k \in edgePos..Len(edges) : k = Len(edges) \/ edges[k + 1].of # e}
            Stop(k) == /\ \A m \in (edgePos + 1)..k : edges[m].of = e
                       /\ k = Len(edges) \/ edges[k + 1].of # e
<1>1. Len(edges) \in Nat /\ edgePos \in 0..Len(edges)
  BY LenProperties DEF FilesInOrder, JoinTypes
<1>2. T \subseteq Nat /\ T # {}
  <2>1. Len(edges) \in T
    BY <1>1
  <2>. QED BY <1>1, <2>1
<1>3. PICK k \in T : \A m \in T : k <= m
  <2>. HIDE DEF T
  <2>. QED BY <1>2, LeastNatural
<1>4. ASSUME NEW m \in (edgePos + 1)..k PROVE edges[m].of = e
  <2>1. PICK l : l = m - 1
    OBVIOUS
  <2>2. k \in edgePos..Len(edges)
    BY <1>3
  <2>3. edgePos \in Int /\ Len(edges) \in Int /\ k \in Int /\ k <= Len(edges)
    BY <1>1, <2>2
  <2>4. m \in Int /\ edgePos + 1 <= m /\ m <= k /\ l \in Int
    BY <1>4, <2>1, <2>3
  <2>5. l \in edgePos..Len(edges) /\ l + 1 = m /\ ~(k <= l) /\ l # Len(edges)
    BY ONLY <2>1, <2>3, <2>4
  <2>6. ~(l \in T)
    BY <1>3, <2>5
  <2>. QED BY <2>5, <2>6
<1>5. \E x \in edgePos..Len(edges) : Stop(x)
  BY <1>3, <1>4
<1>6. RunEnd(e) = CHOOSE x \in edgePos..Len(edges) : Stop(x)
  BY DEF RunEnd
<1>7. RunEnd(e) \in edgePos..Len(edges) /\ Stop(RunEnd(e))
  <2>. HIDE DEF Stop
  <2>. QED BY <1>5, <1>6
<1>. QED BY <1>1, <1>7

\* It is all of e's segments, or nothing.
LEMMA RunIsWhole ==
  ASSUME FilesInOrder, JoinTypes, Whole, NEW e \in Int
  PROVE  /\ SubSeq(edges, edgePos + 1, RunEnd(e)) = IF RunEnd(e) = edgePos THEN <<>> ELSE EdgesOf(e)
         /\ RunEnd(e) # edgePos =>
              /\ EdgesOf(e) # <<>>
              /\ \A k \in DOMAIN edges : edges[k].of = e <=> edgePos < k /\ k <= RunEnd(e)
         /\ \A k, m \in DOMAIN edges : k <= RunEnd(e) /\ m > RunEnd(e) => edges[k].of # edges[m].of
<1>. DEFINE stop == RunEnd(e)
<1>1. /\ edges \in Seq(GeomRecord) /\ Len(edges) \in Nat /\ DOMAIN edges = 1..Len(edges)
      /\ edgePos \in 0..Len(edges) /\ edgePos \in Int
      /\ \A k \in DOMAIN edges : edges[k].of \in Int
      /\ \A k, m \in DOMAIN edges : k < m => edges[k].of <= edges[m].of
  <2>1. edges \in Seq(GeomRecord) /\ Len(edges) \in Nat /\ DOMAIN edges = 1..Len(edges)
    BY LenProperties DEF FilesInOrder
  <2>2. \A k \in DOMAIN edges : edges[k] \in GeomRecord
    BY <2>1, ElementOfSeq
  <2>3. edgePos \in 0..Len(edges) /\ edgePos \in Int
    BY <2>1 DEF JoinTypes
  <2>. QED BY <2>1, <2>2, <2>3 DEF FilesInOrder, GeomRecord
<1>2. /\ stop \in Int /\ edgePos <= stop /\ stop <= Len(edges) /\ stop \in 0..Len(edges)
      /\ \A m \in (edgePos + 1)..stop : edges[m].of = e
      /\ stop = Len(edges) \/ edges[stop + 1].of # e
  BY <1>1, RunFacts
<1>. HIDE DEF stop
<1>i. edgePos \in Int /\ stop \in Int /\ Len(edges) \in Int /\ edgePos <= stop /\ stop <= Len(edges) /\ 0 <= edgePos
  <2>1. edgePos \in Int /\ Len(edges) \in Int /\ 0 <= edgePos
    BY ONLY <1>1
  <2>. QED BY <1>2, <2>1
<1>d. \A k : k \in DOMAIN edges <=> k \in Int /\ 1 <= k /\ k <= Len(edges)
  BY <1>1
<1>3. CASE stop = edgePos
  <2>1. SubSeq(edges, edgePos + 1, stop) = <<>>
    BY <1>1, <1>3, SubSeqEmpty
  <2>. QED BY <1>3, <2>1 DEF stop, Whole
<1>4. CASE stop # edgePos
  <2>1. edgePos + 1 \in (edgePos + 1)..stop /\ edgePos + 1 \in DOMAIN edges /\ edgePos < stop
    BY <1>1, <1>2, <1>4
  <2>2. edges[edgePos + 1].of = e
    BY <1>2, <2>1
  <2>3. ASSUME NEW k \in DOMAIN edges, edgePos < k, k <= stop PROVE edges[k].of = e
    <3>0. k \in Int
      BY <1>d
    <3>1. k \in (edgePos + 1)..stop
      BY ONLY <1>i, <2>3, <3>0
    <3>. QED BY <1>2, <3>1
  <2>4. ASSUME NEW k \in DOMAIN edges, k <= edgePos PROVE edges[k].of # e
    <3>1. edgePos + 1 > edgePos
      BY <1>1
    <3>. QED BY <2>1, <2>2, <2>4, <3>1 DEF Whole
  <2>5. ASSUME NEW k \in DOMAIN edges, k > stop PROVE edges[k].of > e
    <3>1. k \in Int /\ 1 <= k /\ k <= Len(edges)
      BY <1>1
    <3>2. stop + 1 \in DOMAIN edges /\ stop # Len(edges) /\ edgePos + 1 < stop + 1
      BY ONLY <1>i, <1>d, <2>1, <2>5, <3>1
    <3>3. edges[stop + 1].of # e /\ edges[stop + 1].of >= e
      BY <1>1, <1>2, <2>1, <2>2, <3>2
    <3>4. stop + 1 = k \/ stop + 1 < k
      BY <1>2, <2>5, <3>1
    <3>5. edges[stop + 1].of <= edges[k].of
      BY <1>1, <3>2, <3>4
    <3>. QED BY <1>1, <3>2, <3>3, <3>5
  <2>6. \A k \in DOMAIN edges : edges[k].of = e <=> edgePos < k /\ k <= stop
    <3>. SUFFICES ASSUME NEW k \in DOMAIN edges PROVE edges[k].of = e <=> edgePos < k /\ k <= stop
      OBVIOUS
    <3>1. k \in Int /\ (k <= edgePos \/ edgePos < k) /\ (k <= stop \/ k > stop)
      BY <1>1, <1>2
    <3>2. k > stop => edges[k].of # e
      BY <1>1, <2>5
    <3>3. k <= edgePos => ~(edgePos < k)
      BY <1>1, <3>1
    <3>. QED BY <2>3, <2>4, <3>1, <3>2, <3>3
  <2>7. EdgesOf(e) = SubSeq(edges, edgePos + 1, stop) /\ EdgesOf(e) # <<>>
    <3>1. EdgesOf(e) # <<>>
      BY <2>1, <2>2, EdgesOfFacts
    <3>2. edgePos \in 0..Len(edges) /\ stop \in 0..Len(edges) /\ edgePos < stop
      BY <1>1, <1>2, <2>1
    <3>. QED BY <2>6, <3>1, <3>2, EdgesOfFacts
  <2>8. ASSUME NEW k \in DOMAIN edges, NEW m \in DOMAIN edges, k <= stop, m > stop
        PROVE  edges[k].of # edges[m].of
    <3>1. edges[m].of > e /\ edges[m].of \in Int /\ edges[k].of \in Int
      BY <1>1, <2>5, <2>8
    <3>2. CASE edgePos < k
      BY <2>3, <2>8, <3>1, <3>2
    <3>3. CASE k <= edgePos
      <4>0. m \in Int
        BY <1>d
      <4>1. m > edgePos
        BY ONLY <1>i, <2>8, <4>0
      <4>. QED BY <3>3, <4>1 DEF Whole
    <3>. QED BY <1>1, <3>2, <3>3
  <2>. QED BY <1>4, <2>6, <2>7, <2>8 DEF stop
<1>. QED BY <1>3, <1>4

\* `EdgeCursor::get_all` gives all of the way's segments or nothing, and remains well formed.
LEMMA GetAllOwn ==
  ASSUME FilesInOrder, JoinTypes, Whole, NEW e \in Int
  PROVE  /\ GetAll(e).answer \in {<<>>, EdgesOf(e)} /\ GetAll(e).pos \in 0..Len(edges)
         /\ GetAll(e).last \in Seq(GeomRecord)
         /\ GetAll(e).last # <<>> => GetAll(e).last = EdgesOf(GetAll(e).last[1].of)
         /\ GetAll(e).answer # <<>> => GetAll(e).last = GetAll(e).answer
         /\ GetAll(e).last = edgeLast \/ (GetAll(e).last # <<>> /\ GetAll(e).last = GetAll(e).answer
                                          /\ GetAll(e).last[1].of = e)
         /\ \A k, m \in DOMAIN edges :
              k <= GetAll(e).pos /\ m > GetAll(e).pos => edges[k].of # edges[m].of
<1>1. CASE edgeLast # <<>> /\ edgeLast[1].of = e
  <2>1. GetAll(e) = [answer |-> edgeLast, pos |-> edgePos, last |-> edgeLast]
    BY <1>1 DEF GetAll
  <2>. QED BY <1>1, <2>1 DEF JoinTypes, Whole
<1>2. CASE ~(edgeLast # <<>> /\ edgeLast[1].of = e)
  <2>. DEFINE run == SubSeq(edges, edgePos + 1, RunEnd(e))
  <2>1. /\ GetAll(e).answer = run /\ GetAll(e).pos = RunEnd(e)
        /\ GetAll(e).last = IF run = <<>> THEN edgeLast ELSE run
    BY <1>2 DEF GetAll
  <2>2. run = <<>> \/ (run # <<>> /\ run = EdgesOf(e))
    BY RunIsWhole
  <2>3. EdgesOf(e) \in Seq(GeomRecord) /\ (EdgesOf(e) # <<>> => EdgesOf(e)[1].of = e)
    BY EdgesOfFacts
  <2>4. RunEnd(e) \in 0..Len(edges)
    BY RunFacts
  <2>5. \A k, m \in DOMAIN edges : k <= RunEnd(e) /\ m > RunEnd(e) => edges[k].of # edges[m].of
    BY RunIsWhole
  <2>. HIDE DEF run
  <2>6. CASE run = <<>>
    BY <2>1, <2>4, <2>5, <2>6 DEF JoinTypes, Whole
  <2>7. CASE run # <<>> /\ run = EdgesOf(e)
    BY <2>1, <2>3, <2>4, <2>5, <2>7
  <2>. QED BY <2>2, <2>6, <2>7
<1>. QED BY <1>1, <1>2

\* In step, a way that has no record of its own is given its segments unless a way nobody asks
\* for comes before them, and the cursor passes them.
LEMMA GetAllInStep ==
  ASSUME JoinInv, TagRows \in Seq(Rows), NEW n \in Nat, n = Len(features),
         n + 1 \in 1..Len(TagRows), InStep(n + 1), NEW e, e = Elem(n + 1), TableOf(e) = <<>>
  PROVE  /\ GetAll(e).answer = IF Blocked(e) THEN <<>> ELSE EdgesOf(e)
         /\ \A k \in DOMAIN edges :
              k <= GetAll(e).pos <=> k <= edgePos \/ (Asks(e) /\ edges[k].of = e)
         /\ GetAll(e).last # edgeLast => Asks(e)
<1>1. /\ e \in Int /\ CursorsAt(n) /\ FilesInOrder /\ JoinTypes /\ Whole
      /\ \A i \in 1..n : Elem(i) \in Int /\ Elem(i) <= e
      /\ \A x \in Own : x < e => \E i \in 1..n : Elem(i) = x
      /\ (\E i \in 1..n : Elem(i) = e) => n \in 1..n /\ Elem(n) = e
  <2>1. n + 1 \in 1..(n + 1) /\ \A i \in 1..n : i \in 1..(n + 1)
    OBVIOUS
  <2>2. /\ InStep(n) /\ \A i \in 1..(n + 1) : Elem(i) \in Int
        /\ \A i \in 1..n : Elem(i) <= Elem(n + 1)
        /\ \A x \in Own : x < Elem(n + 1) => \E i \in 1..n : Elem(i) = x
        /\ (\E i \in 1..n : Elem(i) = Elem(n + 1)) => n \in 1..n /\ Elem(n) = Elem(n + 1)
    BY InStepFacts
  <2>. QED BY <2>1, <2>2 DEF JoinInv
<1>2. /\ edges \in Seq(GeomRecord) /\ Len(edges) \in Nat /\ DOMAIN edges = 1..Len(edges)
      /\ edgePos \in 0..Len(edges) /\ edgePos \in Int
      /\ \A k \in DOMAIN edges : edges[k].of \in Int
      /\ \A k, m \in DOMAIN edges : k < m => edges[k].of <= edges[m].of
  <2>1. edges \in Seq(GeomRecord) /\ Len(edges) \in Nat /\ DOMAIN edges = 1..Len(edges)
    BY <1>1, LenProperties DEF FilesInOrder
  <2>2. \A k \in DOMAIN edges : edges[k] \in GeomRecord
    BY <2>1, ElementOfSeq
  <2>3. edgePos \in 0..Len(edges) /\ edgePos \in Int
    BY <1>1, <2>1 DEF JoinTypes
  <2>. QED BY <1>1, <2>1, <2>2, <2>3 DEF FilesInOrder, GeomRecord
<1>3. CASE edgeLast # <<>> /\ edgeLast[1].of = e
  <2>1. GetAll(e) = [answer |-> edgeLast, pos |-> edgePos, last |-> edgeLast]
    BY <1>3 DEF GetAll
  <2>2. edgeLast = EdgesOf(e) /\ Asks(e) /\ \E i \in 1..n : Elem(i) = e
    BY <1>1, <1>3 DEF Whole, CursorsAt
  <2>3. \A k \in DOMAIN edges : edges[k].of = e => k <= edgePos
    BY <1>1, <2>2 DEF CursorsAt
  <2>. QED BY <2>1, <2>2, <2>3 DEF Asks
<1>4. CASE ~(edgeLast # <<>> /\ edgeLast[1].of = e)
  <2>. DEFINE stop == RunEnd(e)
              run == SubSeq(edges, edgePos + 1, stop)
  <2>1. /\ GetAll(e).answer = run /\ GetAll(e).pos = stop
        /\ GetAll(e).last = IF run = <<>> THEN edgeLast ELSE run
    BY <1>4 DEF GetAll
  <2>2. /\ stop \in Int /\ edgePos <= stop /\ stop <= Len(edges)
        /\ \A m \in (edgePos + 1)..stop : edges[m].of = e
        /\ stop = Len(edges) \/ edges[stop + 1].of # e
    BY <1>1, <1>2, RunFacts
  <2>3. /\ run = IF stop = edgePos THEN <<>> ELSE EdgesOf(e)
        /\ stop # edgePos =>
             /\ EdgesOf(e) # <<>>
             /\ \A k \in DOMAIN edges : edges[k].of = e <=> edgePos < k /\ k <= stop
    BY <1>1, RunIsWhole
  <2>. HIDE DEF stop, run
  <2>4. CASE Blocked(e)
    <3>1. PICK b \in DOMAIN edges : /\ edges[b].of < e
                                    /\ edges[b].of \notin Own \/ TableOf(edges[b].of) # <<>>
      BY <2>4 DEF Blocked
    <3>2. ~(b <= edgePos)
      <4>. SUFFICES ASSUME b <= edgePos PROVE FALSE
        OBVIOUS
      <4>1. TableOf(edges[b].of) = <<>> /\ \E i \in 1..n : Elem(i) = edges[b].of
        BY <1>1 DEF CursorsAt, Asks
      <4>2. PICK i \in 1..n : Elem(i) = edges[b].of
        BY <4>1
      <4>3. Elem(i) \in Own
        <5>1. i \in 1..Len(TagRows) /\ TagRows[i] \in Rows
          <6>1. Len(TagRows) \in Nat
            BY LenProperties
          <6>2. i \in 1..Len(TagRows)
            BY <6>1
          <6>. QED BY <6>2, ElementOfSeq
        <5>2. PICK c \in DOMAIN Calls : \E j \in DOMAIN Calls[c] : TagRows[i] = <<Fold, c, j>>
          BY <5>1, RowIs
        <5>. QED BY <5>2 DEF Elem, ElementOf, Own, Range
      <4>. QED BY <3>1, <4>1, <4>2, <4>3
    <3>3. stop = edgePos
      <4>. SUFFICES ASSUME stop # edgePos PROVE FALSE
        OBVIOUS
      <4>0. edgePos \in Int /\ stop \in Int /\ Len(edges) \in Int /\ 0 <= edgePos
        <5>1. edgePos \in Int /\ Len(edges) \in Int /\ 0 <= edgePos
          BY ONLY <1>2
        <5>. QED BY <2>2, <5>1
      <4>1. edgePos + 1 \in (edgePos + 1)..stop /\ edgePos + 1 \in DOMAIN edges
        <5>1. edgePos <= stop /\ stop <= Len(edges)
          BY <2>2
        <5>2. edgePos + 1 \in (edgePos + 1)..stop /\ edgePos + 1 \in 1..Len(edges)
          BY ONLY <4>0, <5>1, stop # edgePos
        <5>. QED BY <1>2, <5>2
      <4>2. edges[edgePos + 1].of = e
        BY <2>2, <4>1
      <4>3. edgePos + 1 = b \/ edgePos + 1 < b
        BY <1>2, <3>2
      <4>4. edges[edgePos + 1].of <= edges[b].of
        BY <1>2, <4>1, <4>3
      <4>. QED BY <1>1, <1>2, <3>1, <4>2, <4>4
    <3>. QED BY <2>1, <2>3, <2>4, <3>3 DEF Asks
  <2>5. CASE ~Blocked(e)
    <3>1. Asks(e)
      BY <2>5 DEF Asks
    <3>2. ASSUME NEW k \in DOMAIN edges, edges[k].of = e PROVE k > edgePos /\ stop # edgePos
      <4>1. EdgesOf(e) # <<>> /\ EdgesOf(e)[1].of = e
        BY <1>1, <3>2, EdgesOfFacts
      <4>2. ~(k <= edgePos)
        <5>. SUFFICES ASSUME k <= edgePos PROVE FALSE
          OBVIOUS
        <5>1. \E i \in 1..n : Elem(i) = e
          BY <1>1, <3>2 DEF CursorsAt
        <5>2. n # 0 /\ Elem(n) = e
          BY <1>1, <5>1
        <5>3. edgeLast = EdgesOf(e)
          BY <1>1, <3>1, <4>1, <5>2 DEF CursorsAt
        <5>. QED BY <1>4, <4>1, <5>3
      <4>3. edgePos + 1 \in DOMAIN edges /\ (edgePos + 1 = k \/ edgePos + 1 < k) /\ ~(edgePos + 1 <= edgePos)
        BY <1>2, <4>2
      <4>. DEFINE x == edges[edgePos + 1].of
      <4>4. x \in Int /\ x <= e
        BY <1>1, <1>2, <3>2, <4>3
      <4>5. x = e
        <5>. SUFFICES ASSUME x # e PROVE FALSE
          OBVIOUS
        <5>1. x < e
          BY <1>1, <4>4
        <5>2. x \in Own /\ TableOf(x) = <<>>
          BY <2>5, <4>3, <5>1 DEF Blocked
        <5>3. ~Blocked(x)
          <6>1. \A y \in DOMAIN edges : edges[y].of < x => edges[y].of < e
            BY <1>1, <1>2, <4>4, <5>1
          <6>. HIDE DEF x
          <6>. QED BY <2>5, <6>1 DEF Blocked
        <5>4. \E i \in 1..n : Elem(i) = x
          BY <1>1, <5>1, <5>2
        <5>5. edgePos + 1 <= edgePos
          BY <1>1, <4>3, <5>2, <5>3, <5>4 DEF CursorsAt, Asks
        <5>. QED BY <4>3, <5>5
      <4>6. stop # edgePos
        <5>. SUFFICES ASSUME stop = edgePos PROVE FALSE
          OBVIOUS
        <5>0. edgePos \in Int /\ Len(edges) \in Int /\ edgePos + 1 \in 1..Len(edges)
          BY <1>2, <4>3
        <5>1. edgePos # Len(edges)
          BY ONLY <5>0
        <5>. QED BY <2>2, <4>5, <5>1
      <4>. QED BY <1>2, <4>2, <4>6
    <3>3. run = EdgesOf(e)
      BY <1>1, <2>3, <3>2, EdgesOfFacts
    <3>4. \A k \in DOMAIN edges : k <= stop <=> k <= edgePos \/ edges[k].of = e
      <4>. SUFFICES ASSUME NEW k \in DOMAIN edges PROVE k <= stop <=> k <= edgePos \/ edges[k].of = e
        OBVIOUS
      <4>1. CASE stop = edgePos
        BY <3>2, <4>1
      <4>2. CASE stop # edgePos
        <5>1. edges[k].of = e <=> edgePos < k /\ k <= stop
          BY <2>3, <4>2
        <5>2. k \in Int
          BY <1>2
        <5>. QED BY <1>2, <2>2, <5>1, <5>2
      <4>. QED BY <4>1, <4>2
    <3>. QED BY <2>1, <2>5, <3>1, <3>3, <3>4
  <2>. QED BY <2>4, <2>5
<1>. QED BY <1>3, <1>4
\* A table that has finished does not change.
LEMMA OkStays ==
  ASSUME IInv, stage = "ok", [Next]_vars
  PROVE  UNCHANGED <<written, stage>>
<1>1. \A k \in Shards : writer[k] = "done"
  BY DEF IInv, Phases, Settled
<1>2. \A p \in Producers : pc[p] = "idle" /\ next[p] > Len(Sizes[p])
  BY DEF IInv, Phases, Owned, Returned
<1>3. \A p \in Producers : ~Pick(p) /\ ~Buffer(p) /\ ~Send(p)
  <2>1. \A p \in Producers : next[p] \in Nat /\ Len(Sizes[p]) \in Nat
    BY Parameters DEF IInv, Phases, TypeOK
  <2>2. \A p \in Producers : ~(next[p] <= Len(Sizes[p]))
    BY <1>2, <2>1
  <2>. QED BY <1>2, <2>2 DEF Pick, Buffer, Send
<1>4. \A k \in Shards : ~Write(k) /\ ~EndOfRows(k) /\ ~Fail(k)
  BY <1>1 DEF Write, EndOfRows, Fail
<1>5. ~BeginFinish /\ ~Flush /\ ~DropSenders /\ ~Await /\ ~Succeed
  BY DEF BeginFinish, Flush, DropSenders, Await, Succeed
<1>. QED BY <1>3, <1>4, <1>5 DEF Next, Stopped, vars


\* A row that is joined keeps the cursors well formed and every feature its own.
LEMMA JoinedOneMore ==
  ASSUME JoinInv, TagRows \in Seq(Rows), JoinRow
  PROVE  JoinInv'
<1>. DEFINE n == Len(features)
            e == Elem(n + 1)
            own == Get(e)
            segments == GetAll(e)
            fallback == own.answer = <<>>
            answer == IF fallback THEN segments.answer ELSE own.answer
<1>1. /\ stage = "ok" /\ n < Len(TagRows) /\ UNCHANGED <<vars, table, edges>>
      /\ pos' = own.pos /\ pending' = own.pending /\ last' = own.last
      /\ edgePos' = (IF fallback THEN segments.pos ELSE edgePos)
      /\ edgeLast' = (IF fallback THEN segments.last ELSE edgeLast)
      /\ features' = Append(features, <<TagRows[n + 1], answer>>)
  BY DEF JoinRow, Elem
<1>2. /\ FilesInOrder /\ JoinTypes /\ Whole /\ Joined /\ n \in Nat /\ Len(TagRows) \in Nat
      /\ n + 1 \in 1..Len(TagRows) /\ TagRows[n + 1] \in Rows /\ e \in Int
  <2>1. n \in Nat /\ Len(TagRows) \in Nat
    BY LenProperties DEF JoinInv, JoinTypes
  <2>2. n + 1 \in 1..Len(TagRows)
    BY <1>1, <2>1
  <2>3. TagRows[n + 1] \in Rows
    BY <2>1, <2>2, ElementOfSeq
  <2>. QED BY <2>1, <2>2, <2>3, RowsInKeptOrder DEF JoinInv, Elem
<1>3. /\ own.answer \in {<<>>, TableOf(e)} /\ own.pos \in 0..Len(table) /\ own.last \in Seq(GeomRecord)
      /\ own.pending = <<>> \/ (Visible(own.pos) /\ own.pending = <<table[own.pos]>>)
      /\ own.last # <<>> => own.last = TableOf(own.last[1].of)
      /\ own.answer # <<>> => own.last = own.answer
      /\ own.answer = <<>> => own.last = last
      /\ own.last = last \/ (own.last # <<>> /\ own.last[1].of = e)
  BY <1>2, GetOwn
<1>4. /\ segments.answer \in {<<>>, EdgesOf(e)} /\ segments.pos \in 0..Len(edges)
      /\ segments.last \in Seq(GeomRecord)
      /\ segments.last # <<>> => segments.last = EdgesOf(segments.last[1].of)
      /\ segments.answer # <<>> => segments.last = segments.answer
      /\ segments.last = edgeLast \/ (segments.last # <<>> /\ segments.last = segments.answer
                                      /\ segments.last[1].of = e)
      /\ \A k, m \in DOMAIN edges :
           k <= segments.pos /\ m > segments.pos => edges[k].of # edges[m].of
  BY <1>2, GetAllOwn
<1>5. InStep(n + 1) =>
        /\ InStep(n) /\ CursorsAt(n) /\ own.answer = TableOf(e)
        /\ \A k \in DOMAIN table : Visible(k) => (k <= PassedAfter(e) <=> k <= Passed \/ table[k].of = e)
  <2>. SUFFICES ASSUME InStep(n + 1)
                PROVE  /\ InStep(n) /\ CursorsAt(n) /\ own.answer = TableOf(e)
                       /\ \A k \in DOMAIN table :
                            Visible(k) => (k <= PassedAfter(e) <=> k <= Passed \/ table[k].of = e)
    OBVIOUS
  <2>1. InStep(n)
    BY <1>2, InStepFacts
  <2>. QED BY <1>2, <2>1, GetInStep DEF JoinInv
<1>6. InStep(n + 1) /\ fallback =>
        /\ TableOf(e) = <<>> /\ segments.answer = IF Blocked(e) THEN <<>> ELSE EdgesOf(e)
        /\ \A k \in DOMAIN edges :
             k <= segments.pos <=> k <= edgePos \/ (Asks(e) /\ edges[k].of = e)
        /\ segments.last # edgeLast => Asks(e)
  BY <1>2, <1>5, GetAllInStep
<1>7. PassedAfter(e) = IF own.pending = <<>> THEN own.pos ELSE own.pos - 1
  BY DEF PassedAfter
<1>8. /\ TableOf(e) \in Seq(GeomRecord) /\ (TableOf(e) # <<>> => TableOf(e)[1].of = e)
      /\ EdgesOf(e) \in Seq(GeomRecord) /\ (EdgesOf(e) # <<>> => EdgesOf(e)[1].of = e)
      /\ answer \in Seq(GeomRecord)
  <2>1. TableOf(e) \in Seq(GeomRecord) /\ (TableOf(e) # <<>> => TableOf(e)[1].of = e)
    BY <1>2, TableOfFacts
  <2>2. EdgesOf(e) \in Seq(GeomRecord) /\ (EdgesOf(e) # <<>> => EdgesOf(e)[1].of = e)
    BY <1>2, EdgesOfFacts
  <2>3. <<>> \in Seq(GeomRecord)
    BY EmptySeq
  <2>4. answer \in {<<>>, TableOf(e), EdgesOf(e)}
    BY <1>3, <1>4
  <2>. HIDE DEF answer
  <2>. QED BY <2>1, <2>2, <2>3, <2>4
<1>9. /\ TagRows' = TagRows /\ table' = table /\ edges' = edges /\ stage' = "ok"
      /\ \A i : Elem(i)' = Elem(i)
      /\ \A x : TableOf(x)' = TableOf(x) /\ EdgesOf(x)' = EdgesOf(x)
      /\ \A i : InStep(i)' <=> InStep(i)
  <2>1. TagRows' = TagRows /\ table' = table /\ edges' = edges /\ stage' = "ok"
    BY <1>1 DEF vars, TagRows
  <2>. QED BY <2>1 DEF Elem, ElementOf, TableOf, EdgesOf, InStep
<1>10. /\ \A x : Blocked(x)' <=> Blocked(x)
       /\ \A x : Lookup(x)' = Lookup(x)
  BY <1>9 DEF Blocked, Lookup
<1>11. /\ \A x : Asks(x)' <=> Asks(x)
       /\ \A x : Due(x)' = Due(x)
  BY <1>9, <1>10 DEF Asks, Due
<1>12. /\ Len(features') = n + 1 /\ features'[n + 1] = <<TagRows[n + 1], answer>>
       /\ \A i \in 1..n : features'[i] = features[i]
       /\ features' \in Seq(Rows \X Seq(GeomRecord))
  <2>1. <<TagRows[n + 1], answer>> \in Rows \X Seq(GeomRecord)
    BY <1>2, <1>8
  <2>2. features \in Seq(Rows \X Seq(GeomRecord))
    BY <1>2 DEF JoinTypes
  <2>. HIDE DEF answer
  <2>. QED BY <1>1, <2>1, <2>2, AppendProperties
<1>s. \A i \in 1..(n + 1) : i \in 1..n \/ i = n + 1
  BY <1>2
<1>u. \A i \in 1..n : i \in 1..(n + 1)
  BY <1>2
<1>v. n + 1 \in 1..(n + 1) /\ n + 1 # 0
  BY <1>2
<1>. HIDE DEF n, own, segments, e
<1>13. FilesInOrder'
  BY <1>2, <1>9 DEF FilesInOrder
<1>14. JoinTypes'
  <2>1. \A i \in 1..(n + 1) : features'[i][1] = TagRows[i]
    <3>1. \A i \in 1..n : features[i][1] = TagRows[i]
      BY <1>2 DEF JoinTypes, n
    <3>2. features'[n + 1][1] = TagRows[n + 1]
      BY <1>12
    <3>. QED BY <1>12, <1>s, <3>1, <3>2
  <2>3. pos' \in 0..Len(table) /\ edgePos' \in 0..Len(edges)
    BY <1>1, <1>2, <1>3, <1>4 DEF JoinTypes
  <2>4. last' \in Seq(GeomRecord) /\ edgeLast' \in Seq(GeomRecord)
    BY <1>1, <1>2, <1>3, <1>4 DEF JoinTypes
  <2>5. pending' = <<>> \/ (Visible(pos)' /\ pending' = <<table[pos']>>)
    BY <1>1, <1>3, <1>9 DEF Visible
  <2>6. n + 1 <= Len(TagRows)
    BY <1>2
  <2>. QED BY <1>9, <1>12, <2>1, <2>3, <2>4, <2>5, <2>6 DEF JoinTypes
<1>15. Whole'
  <2>1. last' # <<>> => last' = TableOf(last'[1].of)
    BY <1>1, <1>3
  <2>2. edgeLast' # <<>> => edgeLast' = EdgesOf(edgeLast'[1].of)
    BY <1>1, <1>2, <1>4 DEF Whole
  <2>3. \A k, m \in DOMAIN edges : k <= edgePos' /\ m > edgePos' => edges[k].of # edges[m].of
    BY <1>1, <1>2, <1>4 DEF Whole
  <2>. QED BY <1>9, <2>1, <2>2, <2>3 DEF Whole
<1>16. Joined'
  <2>1. \A i \in 1..n : /\ features'[i][2] \in {<<>>, TableOf(Elem(i)), EdgesOf(Elem(i))}
                        /\ InStep(i) => features'[i][2] = Due(Elem(i))
    BY <1>2, <1>12 DEF Joined, n
  <2>2. /\ answer \in {<<>>, TableOf(e), EdgesOf(e)}
        /\ InStep(n + 1) => answer = Due(e)
    <3>1. answer \in {<<>>, TableOf(e), EdgesOf(e)}
      BY <1>3, <1>4
    <3>2. ASSUME InStep(n + 1) PROVE answer = Due(e)
      <4>1. CASE fallback
        BY <1>6, <3>2, <4>1 DEF Due, Lookup
      <4>2. CASE ~fallback
        BY <1>5, <3>2, <4>2 DEF Due, Lookup
      <4>. QED BY <4>1, <4>2
    <3>. QED BY <3>1, <3>2
  <2>3. features'[n + 1][2] = answer /\ e = Elem(n + 1)
    BY <1>12 DEF e
  <2>. HIDE DEF answer
  <2>4. \A i \in 1..(n + 1) : /\ features'[i][2] \in {<<>>, TableOf(Elem(i)), EdgesOf(Elem(i))}
                              /\ InStep(i) => features'[i][2] = Due(Elem(i))
    BY <1>s, <2>1, <2>2, <2>3
  <2>. QED BY <1>9, <1>11, <1>12, <2>4 DEF Joined
<1>m. PICK m \in Nat : m = n + 1
  BY <1>2
<1>17. InStep(m) => CursorsAt(m)'
  <2>. SUFFICES ASSUME InStep(m) PROVE CursorsAt(m)'
    OBVIOUS
  <2>0. e = Elem(m) /\ CursorsAt(n) /\ InStep(n + 1) /\ m # 0
    BY <1>2, <1>5, <1>m DEF e
  <2>x. \A x : (\E i \in 1..m : Elem(i) = x) <=> (\E i \in 1..n : Elem(i) = x) \/ e = x
    BY <1>s, <1>u, <1>v, <1>m, <2>0
  <2>1. \A k \in DOMAIN table : Visible(k) => (k <= Passed' <=> \E i \in 1..m : Elem(i) = table[k].of)
    <3>1. Passed' = PassedAfter(e)
      BY <1>1, <1>7 DEF Passed
    <3>. QED BY <1>5, <2>0, <2>x, <3>1 DEF CursorsAt
  <2>2. \A k \in DOMAIN edges :
          k <= edgePos' <=> Asks(edges[k].of) /\ \E i \in 1..m : Elem(i) = edges[k].of
    <3>1. ASSUME NEW k \in DOMAIN edges
          PROVE  k <= edgePos' <=> k <= edgePos \/ (Asks(e) /\ edges[k].of = e)
      <4>1. CASE fallback
        BY <1>1, <1>6, <2>0, <4>1
      <4>2. CASE ~fallback
        BY <1>1, <1>5, <2>0, <4>2 DEF Asks
      <4>. QED BY <4>1, <4>2
    <3>2. ASSUME NEW k \in DOMAIN edges
          PROVE  k <= edgePos <=> Asks(edges[k].of) /\ \E i \in 1..n : Elem(i) = edges[k].of
      BY <2>0 DEF CursorsAt
    <3>. QED BY <2>x, <3>1, <3>2
  <2>3. last' # <<>> => \E i \in 1..m : Elem(i) = last'[1].of
    BY <1>1, <1>3, <2>0, <2>x DEF CursorsAt
  <2>4. edgeLast' # <<>> => Asks(edgeLast'[1].of) /\ \E i \in 1..m : Elem(i) = edgeLast'[1].of
    <3>1. CASE edgeLast' = edgeLast
      BY <2>0, <2>x, <3>1 DEF CursorsAt
    <3>2. CASE edgeLast' # edgeLast
      <4>1. fallback /\ edgeLast' = segments.last
        BY <1>1, <3>2
      <4>2. Asks(e) /\ segments.last[1].of = e
        BY <1>4, <1>6, <2>0, <3>2, <4>1
      <4>. QED BY <2>x, <4>1, <4>2
    <3>. QED BY <3>1, <3>2
  <2>5. TableOf(e) # <<>> => last' = TableOf(e)
    BY <1>1, <1>3, <1>5, <2>0
  <2>6. Asks(e) /\ EdgesOf(e) # <<>> => edgeLast' = EdgesOf(e)
    <3>. SUFFICES ASSUME Asks(e), EdgesOf(e) # <<>> PROVE edgeLast' = EdgesOf(e)
      OBVIOUS
    <3>1. fallback /\ ~Blocked(e)
      BY <1>5, <2>0 DEF Asks
    <3>2. segments.answer = EdgesOf(e)
      BY <1>6, <2>0, <3>1
    <3>. QED BY <1>1, <1>4, <3>1, <3>2
  <2>7. \A k : Visible(k)' <=> Visible(k)
    BY <1>9 DEF Visible
  <2>. QED BY <1>9, <1>11, <2>0, <2>1, <2>2, <2>3, <2>4, <2>5, <2>6, <2>7 DEF CursorsAt
<1>18. InStep(Len(features))' => CursorsAt(Len(features))'
  <2>1. Len(features)' = m
    BY <1>12, <1>m
  <2>. SUFFICES ASSUME InStep(Len(features))' PROVE CursorsAt(Len(features))'
    OBVIOUS
  <2>2. InStep(m)'
    BY <2>1
  <2>3. CursorsAt(m)'
    BY <1>9, <1>17, <2>2
  <2>. QED BY <2>1, <2>3
<1>. QED BY <1>13, <1>14, <1>15, <1>16, <1>18 DEF JoinInv

\* Every step of the run keeps the join right.
LEMMA JoinStep ==
  ASSUME IInv, IInv', JoinInv, [OrderedNext]_all
  PROVE  JoinInv'
<1>0. TagRows \in Seq(Rows) /\ TagRows' \in Seq(Rows) /\ Len(TagRows') \in Nat
  BY OneShard, LenProperties DEF IInv, Phases, TypeOK, TagRows
<1>1. CASE JoinRow
  BY <1>0, <1>1, JoinedOneMore
<1>2. CASE [Next]_vars /\ UNCHANGED join
  <2>1. UNCHANGED <<table, edges, pos, pending, last, edgePos, edgeLast, features>>
    BY <1>2 DEF join
  <2>2. FilesInOrder'
    BY <2>1 DEF JoinInv, FilesInOrder
  <2>3. Whole'
    BY <2>1 DEF JoinInv, Whole, TableOf, EdgesOf
  <2>4. CASE stage = "ok"
    <3>1. TagRows' = TagRows /\ stage' = stage
      BY <1>2, <2>4, OkStays DEF TagRows
    <3>2. /\ \A i : Elem(i)' = Elem(i)
          /\ \A x : TableOf(x)' = TableOf(x) /\ EdgesOf(x)' = EdgesOf(x)
          /\ \A i : InStep(i)' <=> InStep(i)
      BY <2>1, <3>1 DEF Elem, ElementOf, TableOf, EdgesOf, InStep
    <3>3. /\ \A x : Blocked(x)' <=> Blocked(x)
          /\ \A x : Lookup(x)' = Lookup(x)
      BY <2>1, <3>2 DEF Blocked, Lookup
    <3>4. /\ \A x : Asks(x)' <=> Asks(x)
          /\ \A x : Due(x)' = Due(x)
          /\ \A k : Visible(k)' <=> Visible(k)
      BY <2>1, <3>2, <3>3 DEF Asks, Due, Visible
    <3>5. JoinTypes'
      BY <2>1, <3>1 DEF JoinInv, JoinTypes, Visible
    <3>6. Joined'
      BY <2>1, <3>2, <3>4 DEF JoinInv, Joined
    <3>7. InStep(Len(features))' => CursorsAt(Len(features))'
      BY <2>1, <3>2, <3>4 DEF JoinInv, CursorsAt, Passed
    <3>. QED BY <2>2, <2>3, <3>5, <3>6, <3>7 DEF JoinInv
  <2>5. CASE stage # "ok"
    <3>1. features = <<>> /\ features' = <<>> /\ Len(features) = 0 /\ Len(features') = 0 /\ 1..0 = {}
      BY <2>1, <2>5 DEF JoinInv, JoinTypes
    <3>2. CursorsAt(0)
      BY <3>1 DEF JoinInv, InStep
    <3>3. last = <<>> /\ edgeLast = <<>> /\ (\A k \in DOMAIN table : Visible(k) => ~(k <= Passed))
          /\ (\A k \in DOMAIN edges : ~(k <= edgePos))
      BY <3>1, <3>2 DEF CursorsAt
    <3>4. CursorsAt(Len(features))'
      BY <2>1, <3>1, <3>3 DEF CursorsAt, Visible, Passed
    <3>5. JoinTypes'
      BY <1>0, <2>1, <3>1 DEF JoinInv, JoinTypes, Visible
    <3>6. Joined'
      BY <3>1 DEF Joined
    <3>. QED BY <2>2, <2>3, <3>4, <3>5, <3>6 DEF JoinInv
  <2>. QED BY <2>4, <2>5
<1>. QED BY <1>1, <1>2 DEF OrderedNext, all, join

LEMMA JoinStart == OrderedInit => JoinInv
<1>. SUFFICES ASSUME OrderedInit PROVE JoinInv
  OBVIOUS
<1>1. FilesInOrder
  BY FileInit DEF OrderedInit
<1>2. /\ pos = 0 /\ pending = <<>> /\ last = <<>> /\ edgePos = 0 /\ edgeLast = <<>>
      /\ features = <<>> /\ stage = "routing" /\ Len(features) = 0 /\ 1..0 = {}
      /\ TagRows = <<>> /\ Len(TagRows) = 0
  BY OneShard DEF OrderedInit, JoinInit, Init, TagRows
<1>3. /\ Len(table) \in Nat /\ DOMAIN table = 1..Len(table)
      /\ Len(edges) \in Nat /\ DOMAIN edges = 1..Len(edges)
  BY <1>1, LenProperties DEF FilesInOrder
<1>4. JoinTypes
  BY <1>2, <1>3 DEF JoinTypes
<1>5. CursorsAt(0)
  <2>1. (\A k \in DOMAIN table : ~(k <= 0)) /\ (\A k \in DOMAIN edges : ~(k <= 0))
    BY <1>3
  <2>. QED BY <1>2, <2>1 DEF CursorsAt, Passed
<1>6. Whole /\ Joined
  <2>1. \A k \in DOMAIN edges : ~(k <= 0)
    BY <1>3
  <2>. QED BY <1>2, <2>1 DEF Whole, Joined
<1>. QED BY <1>1, <1>2, <1>4, <1>5, <1>6 DEF JoinInv

\* The inductive invariant of the join, for every list of calls and every content of the two
\* files: where the cursors stand and what they keep.
THEOREM CursorsInStep == OrderedSpec => []JoinInv
<1>1. OrderedInit => JoinInv
  BY JoinStart
<1>2. IInv /\ IInv' /\ JoinInv /\ [OrderedNext]_all => JoinInv'
  BY JoinStep
<1>. QED BY <1>1, <1>2, TableRuns, Invariance, PTL DEF OrderedSpec

\* Reading both files forward once gives no row another element's geometry or a part of its
\* own, whatever the order of the rows; and as long as they come in the order they were routed
\* in, exactly what looking the element up would, but for segments behind a way nobody asks for.
THEOREM ForwardJoinIsExact == OrderedSpec => []JoinIsExact
<1>1. JoinInv => JoinIsExact
  <2>. SUFFICES ASSUME JoinInv, NEW i \in DOMAIN features
                PROVE  LET e == ElementOf(features[i][1])
                       IN  /\ features[i][2] \in {<<>>, TableOf(e), EdgesOf(e)}
                           /\ InStep(i) => features[i][2] =
                                IF TableOf(e) = <<>> /\ Blocked(e) THEN <<>> ELSE Lookup(e)
    BY DEF JoinIsExact
  <2>1. i \in 1..Len(features)
    BY LenProperties DEF JoinInv, JoinTypes
  <2>2. features[i][1] = TagRows[i]
    BY <2>1 DEF JoinInv, JoinTypes
  <2>3. ElementOf(features[i][1]) = Elem(i)
    BY <2>2 DEF Elem
  <2>. QED BY <2>1, <2>3 DEF JoinInv, Joined, Due
<1>. QED BY <1>1, CursorsInStep, PTL

=============================================================================
