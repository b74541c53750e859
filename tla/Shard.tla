------------------------------- MODULE Shard -------------------------------
(***************************************************************************)
(* One output table of the pipeline: src/src/output/sinks.rs, `Shard<T>`,  *)
(* and the writer tasks of src/src/output/writers.rs that drain it.        *)
(*                                                                         *)
(* The producers are the threads that call `send` (rayon workers inside    *)
(* the classify and materialize closures, or the one sequential fold of    *)
(* an ordered run).  A call hands over a batch of rows, picks a shard      *)
(* round-robin and either sends the batch straight down that shard's       *)
(* bounded channel or accumulates it in that shard's mutex-protected       *)
(* buffer.  When every producer has returned, `finish` flushes the         *)
(* buffers, drops the senders and awaits the writer tasks in shard order.  *)
(*                                                                         *)
(* A row is identified by who routed it: <<p, i, j>> is the j-th row of    *)
(* producer p's i-th call.  Sizes[p] lists the batch lengths of p's calls. *)
(***************************************************************************)
EXTENDS Integers, Sequences, FiniteSets, Functions

CONSTANTS
  Producers,   \* threads that call `send`
  Sizes,       \* Sizes[p][i]: number of rows in p's i-th call
  W,           \* writers of the table: 1 for the file backends, --db-writers for pg
  SendBatch,   \* SEND_BATCH
  ChanCap,     \* WRITER_CHAN_CAP, in batches
  Failing      \* shards whose writer task may return an error

ASSUME ShardAssumption ==
  /\ Sizes \in [Producers -> Seq(Nat)]
  /\ W \in Nat \ {0}
  /\ SendBatch \in Nat \ {0}
  /\ ChanCap \in Nat \ {0}
  /\ Failing \subseteq 0..(W - 1)

VARIABLES
  next,     \* next[p]: index of p's next call
  pc,       \* pc[p]: where p is inside `send`
  target,   \* target[p]: the shard `rr` gave to p's current call (kk)
  held,     \* held[p]: the rows p carries (its argument, or the swapped-out batch)
  rr,       \* the round-robin counter
  buf,      \* buf[k]: bufs[k]
  chan,     \* chan[k]: batches in shard k's channel
  written,  \* written[k]: rows writer k has encoded, in order (an aborted COPY drops them again)
  writer,   \* writer[k]: "run", "done" (Ok(count)) or "failed" (Err)
  lost,     \* rows a failed writer's channel swallowed: `send` ignores the error
  stage,    \* where the owner of the table is
  cursor,   \* shard the owner's loop in `finish` is at
  count     \* rows summed over the awaited handles

sending == <<next, pc, target, held, rr>>
owner   == <<stage, cursor, count>>
vars    == <<next, pc, target, held, rr, buf, chan, written, writer, lost,
             stage, cursor, count>>

-----------------------------------------------------------------------------
Shards == 0..(W - 1)

Batch(p, i) == [j \in 1..Sizes[p][i] |-> <<p, i, j>>]

\* The rows of producer p's calls before its n-th one.
RowsBefore(p, n) == UNION {Range(Batch(p, i)) : i \in 1..(n - 1)}

Rows == UNION {RowsBefore(p, Len(Sizes[p]) + 1) : p \in Producers}
Sent == UNION {RowsBefore(p, next[p]) : p \in Producers}

RowsOf(batches) == UNION {Range(batches[i]) : i \in DOMAIN batches}

Held        == UNION {Range(held[p]) : p \in Producers}
Buffered    == UNION {Range(buf[k]) : k \in Shards}
ChanRows(k) == RowsOf(chan[k])
Queued      == UNION {ChanRows(k) : k \in Shards}
Written     == UNION {Range(written[k]) : k \in Shards}

Returned == \A p \in Producers : pc[p] = "idle" /\ next[p] > Len(Sizes[p])

\* Seeded fault: the senders stay alive while the handles are awaited.
ClosedTooLate == stage = "ok"

\* The senders live until `finish` has flushed; then the channels close.
Closed == stage \notin {"routing", "flushing"}

-----------------------------------------------------------------------------
Init ==
  /\ next = [p \in Producers |-> 1]
  /\ pc = [p \in Producers |-> "idle"]
  /\ target = [p \in Producers |-> 0]
  /\ held = [p \in Producers |-> <<>>]
  /\ rr = 0
  /\ buf = [k \in Shards |-> <<>>]
  /\ chan = [k \in Shards |-> <<>>]
  /\ written = [k \in Shards |-> <<>>]
  /\ writer = [k \in Shards |-> "run"]
  /\ lost = {}
  /\ stage = "routing"
  /\ cursor = 0
  /\ count = 0

\* Seeded fault: the counter itself taken as the shard.
PickWithoutModulo(p) ==
  /\ pc[p] = "idle" /\ next[p] <= Len(Sizes[p])
  /\ target' = [target EXCEPT ![p] = rr]
  /\ rr' = rr + 1
  /\ next' = [next EXCEPT ![p] = @ + 1]
  /\ held' = [held EXCEPT ![p] = Batch(p, next[p])]
  /\ pc' = [pc EXCEPT ![p] = "buffer"]
  /\ UNCHANGED <<buf, chan, written, writer, lost, owner>>

\* `rr.fetch_add(1) % w`, then the size test.
Pick(p) ==
  /\ pc[p] = "idle" /\ next[p] <= Len(Sizes[p])
  /\ target' = [target EXCEPT ![p] = rr % W]
  /\ rr' = rr + 1
  /\ next' = [next EXCEPT ![p] = @ + 1]
  /\ held' = [held EXCEPT ![p] = Batch(p, next[p])]
  /\ pc' = [pc EXCEPT ![p] = IF Sizes[p][next[p]] >= SendBatch THEN "send" ELSE "buffer"]
  /\ UNCHANGED <<buf, chan, written, writer, lost, owner>>

\* Seeded faults: the swap one row late; the batch cloned out of the buffer instead of
\* taken; the buffered rows appended to the new ones.
BufferOneMore(p) ==
  LET k == target[p]
      b == buf[k] \o held[p]
      full == Len(b) > SendBatch
  IN  /\ pc[p] = "buffer"
      /\ buf' = [buf EXCEPT ![k] = IF full THEN <<>> ELSE b]
      /\ held' = [held EXCEPT ![p] = IF full THEN b ELSE <<>>]
      /\ pc' = [pc EXCEPT ![p] = IF full THEN "send" ELSE "idle"]
      /\ UNCHANGED <<next, target, rr, chan, written, writer, lost, owner>>

BufferCloned(p) ==
  LET k == target[p]
      b == buf[k] \o held[p]
      full == Len(b) >= SendBatch
  IN  /\ pc[p] = "buffer"
      /\ buf' = [buf EXCEPT ![k] = b]
      /\ held' = [held EXCEPT ![p] = IF full THEN b ELSE <<>>]
      /\ pc' = [pc EXCEPT ![p] = IF full THEN "send" ELSE "idle"]
      /\ UNCHANGED <<next, target, rr, chan, written, writer, lost, owner>>

BufferPrepended(p) ==
  LET k == target[p]
      b == held[p] \o buf[k]
      full == Len(b) >= SendBatch
  IN  /\ pc[p] = "buffer"
      /\ buf' = [buf EXCEPT ![k] = IF full THEN <<>> ELSE b]
      /\ held' = [held EXCEPT ![p] = IF full THEN b ELSE <<>>]
      /\ pc' = [pc EXCEPT ![p] = IF full THEN "send" ELSE "idle"]
      /\ UNCHANGED <<next, target, rr, chan, written, writer, lost, owner>>

\* The critical section on bufs[kk]: extend, and swap the batch out when it is full.
Buffer(p) ==
  LET k == target[p]
      b == buf[k] \o held[p]
      full == Len(b) >= SendBatch
  IN  /\ pc[p] = "buffer"
      /\ buf' = [buf EXCEPT ![k] = IF full THEN <<>> ELSE b]
      /\ held' = [held EXCEPT ![p] = IF full THEN b ELSE <<>>]
      /\ pc' = [pc EXCEPT ![p] = IF full THEN "send" ELSE "idle"]
      /\ UNCHANGED <<next, target, rr, chan, written, writer, lost, owner>>

\* Seeded fault: `try_send` instead of `blocking_send`, a full channel ignored like a closed one.
DeliverOrDrop(k, batch) ==
  IF writer[k] = "run" /\ Len(chan[k]) < ChanCap
  THEN chan' = [chan EXCEPT ![k] = Append(@, batch)] /\ UNCHANGED lost
  ELSE UNCHANGED <<chan, lost>>

\* A batch enters channel k: the sender waits for room while the receiver lives,
\* and gets an error it ignores once the receiver is gone.
Deliver(k, batch) ==
  \/ /\ writer[k] = "run"
     /\ Len(chan[k]) < ChanCap
     /\ chan' = [chan EXCEPT ![k] = Append(@, batch)]
     /\ UNCHANGED lost
  \/ /\ writer[k] = "failed"
     /\ lost' = lost \cup Range(batch)
     /\ UNCHANGED chan

\* `blocking_send`, on the direct path and after a swap.
Send(p) ==
  /\ pc[p] = "send"
  /\ Deliver(target[p], held[p])
  /\ held' = [held EXCEPT ![p] = <<>>]
  /\ pc' = [pc EXCEPT ![p] = "idle"]
  /\ UNCHANGED <<next, target, rr, buf, written, writer, owner>>

-----------------------------------------------------------------------------
\* A writer task receives one batch and encodes its rows.
Write(k) ==
  /\ writer[k] = "run" /\ chan[k] # <<>>
  /\ written' = [written EXCEPT ![k] = @ \o Head(chan[k])]
  /\ chan' = [chan EXCEPT ![k] = Tail(@)]
  /\ UNCHANGED <<sending, buf, writer, lost, owner>>

\* `recv` returns None: the channel is closed and drained.
EndOfRows(k) ==
  /\ writer[k] = "run" /\ chan[k] = <<>> /\ Closed
  /\ writer' = [writer EXCEPT ![k] = "done"]
  /\ UNCHANGED <<sending, buf, chan, written, lost, owner>>

\* A `?` in the task: no connection, a full disk, a rejected COPY.  Its receiver is
\* dropped with every batch still queued.
Fail(k) ==
  /\ writer[k] = "run" /\ k \in Failing
  /\ writer' = [writer EXCEPT ![k] = "failed"]
  /\ lost' = lost \cup ChanRows(k)
  /\ chan' = [chan EXCEPT ![k] = <<>>]
  /\ UNCHANGED <<sending, buf, written, owner>>

-----------------------------------------------------------------------------
\* Seeded fault: `finish` through a shared handle, while producers may still be routing.
BeginFinishEarly ==
  /\ stage = "routing"
  /\ stage' = "flushing" /\ cursor' = 0
  /\ UNCHANGED <<sending, buf, chan, written, writer, lost, count>>

\* `finish` owns the shard: it starts when the last producer has returned.
BeginFinish ==
  /\ stage = "routing" /\ Returned
  /\ stage' = "flushing" /\ cursor' = 0
  /\ UNCHANGED <<sending, buf, chan, written, writer, lost, count>>

Flush ==
  /\ stage = "flushing" /\ cursor < W
  /\ IF buf[cursor] = <<>>
     THEN UNCHANGED <<chan, lost>>
     ELSE Deliver(cursor, buf[cursor])
  /\ buf' = [buf EXCEPT ![cursor] = <<>>]
  /\ cursor' = cursor + 1
  /\ UNCHANGED <<sending, written, writer, stage, count>>

\* `drop(self.senders)`
DropSenders ==
  /\ stage = "flushing" /\ cursor = W
  /\ stage' = "awaiting" /\ cursor' = 0
  /\ UNCHANGED <<sending, buf, chan, written, writer, lost, count>>

\* Seeded fault: a failed handle counted as zero rows.
AwaitIgnoringErrors ==
  /\ stage = "awaiting" /\ cursor < W
  /\ writer[cursor] \in {"done", "failed"}
  /\ count' = IF writer[cursor] = "done" THEN count + Len(written[cursor]) ELSE count
  /\ cursor' = cursor + 1
  /\ UNCHANGED <<sending, buf, chan, written, writer, lost, stage>>

\* `count += h.await??`, in shard order; the first error is returned at once.
Await ==
  /\ stage = "awaiting" /\ cursor < W
  /\ \/ /\ writer[cursor] = "done"
        /\ count' = count + Len(written[cursor])
        /\ cursor' = cursor + 1
        /\ UNCHANGED stage
     \/ /\ writer[cursor] = "failed"
        /\ stage' = "err"
        /\ UNCHANGED <<cursor, count>>
  /\ UNCHANGED <<sending, buf, chan, written, writer, lost>>

Succeed ==
  /\ stage = "awaiting" /\ cursor = W
  /\ stage' = "ok"
  /\ UNCHANGED <<sending, buf, chan, written, writer, lost, cursor, count>>

\* The run is over; after an error the tasks not yet awaited are detached.
Stopped == stage \in {"ok", "err"} /\ UNCHANGED vars

Next ==
  \/ \E p \in Producers : Pick(p) \/ Buffer(p) \/ Send(p)
  \/ \E k \in Shards : Write(k) \/ EndOfRows(k) \/ Fail(k)
  \/ BeginFinish \/ Flush \/ DropSenders \/ Await \/ Succeed
  \/ Stopped

Spec == Init /\ [][Next]_vars

\* Threads, tasks and the owner are scheduled fairly: rayon and tokio run every
\* runnable thread and task.  Failing is never required.
Fairness ==
  /\ \A p \in Producers : WF_vars(Pick(p)) /\ WF_vars(Buffer(p)) /\ WF_vars(Send(p))
  /\ \A k \in Shards : WF_vars(Write(k)) /\ WF_vars(EndOfRows(k))
  /\ WF_vars(BeginFinish) /\ WF_vars(Flush) /\ WF_vars(DropSenders)
  /\ WF_vars(Await) /\ WF_vars(Succeed)

FairSpec == Spec /\ Fairness

-----------------------------------------------------------------------------
(***************************************************************************)
(* Properties                                                              *)
(***************************************************************************)

\* Types; among them, that every shard picked by the counter exists.
TypeOK ==
  /\ next \in [Producers -> Nat \ {0}]
  /\ pc \in [Producers -> {"idle", "buffer", "send"}]
  /\ target \in [Producers -> Shards]
  /\ held \in [Producers -> Seq(Rows)]
  /\ rr \in Nat
  /\ buf \in [Shards -> Seq(Rows)]
  /\ chan \in [Shards -> Seq(Seq(Rows))]
  /\ written \in [Shards -> Seq(Rows)]
  /\ writer \in [Shards -> {"run", "done", "failed"}]
  /\ lost \subseteq Rows
  /\ stage \in {"routing", "flushing", "awaiting", "ok", "err"}
  /\ cursor \in 0..W
  /\ count \in Nat

\* Conservation: every row handed to `send` is carried by its sender, waits in a
\* buffer or a channel, has been written, or was swallowed by a failed writer.
Conserved == Sent = Held \cup Buffered \cup Queued \cup Written \cup lost

\* Between critical sections a buffer is short of a batch, and a channel never exceeds
\* its capacity: what a table holds in memory is bounded whatever the producers do.
Bounded ==
  \A k \in Shards : Len(buf[k]) < SendBatch /\ Len(chan[k]) <= ChanCap

\* `send` ignores every error, so a lost row must surface elsewhere: some writer's
\* handle holds the error, and the run cannot end in success.
LossIsReported ==
  lost # {} => stage # "ok" /\ \E k \in Shards : writer[k] = "failed"

\* A successful `finish` returns exactly the number of rows routed: together with
\* Conserved, no row was written twice on the way (by a swap that leaves its batch in
\* the buffer, or a flush that resends what a sender still carries).
CountIsExact == stage = "ok" => count = Cardinality(Rows)

\* The table implements its promise: nothing is stored that was not routed, and `finish`
\* succeeds only with every row of the run stored.
Outcome == IF stage \in {"ok", "err"} THEN stage ELSE "running"

Promise == INSTANCE TablePromise WITH
  routed <- Sent, stored <- Written, outcome <- Outcome

ImplementsPromise == Promise!Spec

\* The run comes to an end: no sender waits forever on a channel nobody drains, no
\* writer waits forever on a channel nobody closes.
Finishes == <>(stage \in {"ok", "err"})

=============================================================================
