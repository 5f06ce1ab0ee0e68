---------------------------- MODULE AdaptiveIngest ----------------------------
(***************************************************************************)
(* UDPWorkerPool (collector/worker_pool.py) decodes datagrams for an       *)
(* AdaptiveBatcher (collector/adaptive_batcher.py), whose batches a        *)
(* KafkaFlowProducer (collector/kafka.py) publishes: the three are handed  *)
(* to one another as callbacks.                                            *)
(*                                                                         *)
(* The tasks of one event loop interleave where they await: the loop of    *)
(* the batcher in wait_for(queue.get()) and in its callback, stop() in the *)
(* end of that loop.  enqueue_batch awaits nothing.  A datagram is the     *)
(* number of its records, a record the ordinal of its arrival.  Time is    *)
(* counted in ticks since the last flush.                                  *)
(***************************************************************************)
EXTENDS OrderedRecords

CONSTANTS MaxIncoming,     \* max_incoming_queue
          QueueMax,        \* queue_max_size
          MinBatch, MaxBatch,    \* min_batch_size, max_batch_size
          High, Critical,  \* the watermarks
          Base, Short, Shortest, \* base_interval_secs, 0.2 and 0.1, in ticks
          MaxFallback,     \* records in fallback_buffer (10000)
          MaxCarried,      \* bound: records of a datagram
          MaxOffered,      \* bound: records offered
          MaxStops         \* bound: calls of stop()

ASSUME IngestAssumption ==
  /\ QueueMax \in Nat \ {0} /\ MaxIncoming \in Nat \ {0}
  /\ MinBatch \in Nat \ {0} /\ MaxBatch \in Nat /\ MinBatch <= MaxBatch
  /\ High \in Nat /\ Critical \in Nat /\ High < Critical
  /\ Base \in Nat /\ Short \in Nat /\ Shortest \in Nat
  /\ MaxFallback \in Nat \ {0}
  /\ MaxCarried \in Nat /\ MaxOffered \in Nat /\ MaxStops \in Nat

VARIABLES incoming,  \* incoming_queue of the pool
          working,   \* are the workers of the pool running?
          queue,     \* queue of the batcher
          batch,     \* the local batch of the loop, or of the final flush
          pc,        \* "top", "ready" or "wait", "flush"; "stopping", "last"; "off"
          size,      \* current_batch_size
          interval,  \* current_interval_secs
          since,     \* ticks since last_flush_time
          enqueued,  \* total_enqueued
          dropped,   \* dropped_records
          flushed,   \* total_flushed
          broker,    \* what the producer gave to Kafka
          fallback,  \* fallback_buffer
          offered,   \* history: records given to enqueue_batch
          handed,    \* history: records given to the callback, in order
          lost,      \* history: records lost in a batch
          stops      \* history: calls of stop()

batcher == <<queue, batch, pc, size, interval, since, enqueued, dropped, flushed,
             offered, handed, lost, stops>>
ingestVars == <<incoming, working, batcher, broker, fallback>>

IngestInit ==
  /\ incoming = <<>> /\ working = TRUE
  /\ queue = <<>> /\ batch = <<>> /\ pc = "top"
  /\ size = MinBatch /\ interval = Base /\ since = 0
  /\ enqueued = 0 /\ dropped = 0 /\ flushed = 0
  /\ broker = <<>> /\ fallback = <<>>
  /\ offered = 0 /\ handed = <<>> /\ lost = 0 /\ stops = 0
-----------------------------------------------------------------------------
(* The pool *)

\* submit_packet; a full queue refuses the datagram.
Submit(records) ==
  /\ Len(incoming) < MaxIncoming
  /\ incoming' = Append(incoming, records)
  /\ UNCHANGED <<working, batcher, broker, fallback>>

\* Mutant: what replaces the oldest record is counted as enqueued too.
CountedAll(records) == records
\* Records that found a place; each of the others takes the oldest one's.
Counted(records) ==
  IF records <= QueueMax - Len(queue) THEN records ELSE QueueMax - Len(queue)

(***************************************************************************)
(* enqueue_batch, the whole loop: what overflows is counted as dropped and *)
(* takes the place of the oldest.                                          *)
(***************************************************************************)
Enqueue(records) ==
  /\ queue' = LastOf(queue \o [i \in 1..records |-> offered + i], QueueMax)
  /\ enqueued' = enqueued + Counted(records)
  /\ dropped' = dropped + (IF records <= QueueMax - Len(queue) THEN 0
                           ELSE records - (QueueMax - Len(queue)))
  /\ offered' = offered + records

\* A turn of _worker_loop: a datagram is taken, decoded and handed on.
Work ==
  /\ working /\ incoming # <<>> /\ offered + Head(incoming) <= MaxOffered
  /\ incoming' = Tail(incoming)
  /\ Enqueue(Head(incoming))
  /\ UNCHANGED <<working, batch, pc, size, interval, since, flushed, handed, lost,
                 stops, broker, fallback>>

\* start and stop of the pool: what is in its queue stays there.
TogglePool ==
  /\ stops < MaxStops
  /\ working' = ~working /\ stops' = stops + 1
  /\ UNCHANGED <<incoming, queue, batch, pc, size, interval, since, enqueued, dropped,
                 flushed, offered, handed, lost, broker, fallback>>
-----------------------------------------------------------------------------
(* The loop of the batcher *)

Larger(a, b) == IF a < b THEN b ELSE a

\* _adjust_parameters: from the least batch at the high watermark to the
\* greatest at the critical one, in ever shorter intervals.
Adjust ==
  LET above == Len(queue) - High
      range == Critical - High
  IN /\ pc = "top" /\ pc' = IF queue = <<>> THEN "wait" ELSE "ready"
     /\ \/ /\ Len(queue) >= Critical
           /\ size' = MaxBatch /\ interval' = Shortest
        \/ /\ Len(queue) >= High /\ Len(queue) < Critical
           /\ size' = MinBatch + (above * (MaxBatch - MinBatch)) \div range
           /\ interval' = Larger(Short, (Base * (10 * range - 7 * above)) \div (10 * range))
        \/ /\ Len(queue) < High
           /\ size' = MinBatch /\ interval' = Base
     /\ UNCHANGED <<incoming, working, queue, batch, since, enqueued, dropped, flushed,
                    offered, handed, lost, stops, broker, fallback>>

\* Mutant: a batch waits until it is full.
IsFull(b) == Len(b) >= size
\* should_flush
ShouldFlush(b) == Len(b) >= size \/ (b # <<>> /\ since >= interval)

\* After the wait: _dispatch_flush counts the batch and awaits the callback;
\* the moment before it becomes last_flush_time.
Turn(b) ==
  /\ batch' = b
  /\ pc' = IF ShouldFlush(b) THEN "flush" ELSE "top"
  /\ flushed' = IF ShouldFlush(b) THEN flushed + Len(b) ELSE flushed
  /\ since' = IF ShouldFlush(b) THEN 0 ELSE since

\* wait_for returns a record, at once if there is one when the wait begins,
\* or its timeout passes: a record that comes at that moment stays queued.
Get ==
  /\ pc \in {"ready", "wait"} /\ queue # <<>>
  /\ queue' = Tail(queue)
  /\ Turn(Append(batch, Head(queue)))
  /\ UNCHANGED <<incoming, working, size, interval, enqueued, dropped, offered, handed,
                 lost, stops, broker, fallback>>
Timeout ==
  /\ pc = "wait" /\ since >= interval
  /\ Turn(batch)
  /\ UNCHANGED <<incoming, working, queue, size, interval, enqueued, dropped, offered,
                 handed, lost, stops, broker, fallback>>

Tick ==
  /\ since < Base /\ since' = since + 1
  /\ UNCHANGED <<incoming, working, queue, batch, pc, size, interval, enqueued, dropped,
                 flushed, offered, handed, lost, stops, broker, fallback>>

Cut(s) == LastOf(s, MaxFallback)

InBatch == {batch[i] : i \in DOMAIN batch}

\* publish_flows: each record is sent, or kept when send raises or there is
\* no broker; the buffer is cut at the end.
Publish(failing) ==
  /\ broker' = broker \o Those(batch, InBatch \ failing)
  /\ fallback' = Cut(fallback \o Those(batch, failing))

\* Mutant: the batch is kept after its flush.
BatchKept == batch
\* The batch of the loop after a flush.
NextBatch == <<>>

\* The callback ends; what it raises is logged and the batch is gone.
EndFlush(failing, raises) ==
  /\ pc \in {"flush", "last"}
  /\ \/ /\ ~raises /\ Publish(failing)
        /\ handed' = handed \o batch /\ UNCHANGED lost
     \/ /\ raises
        /\ lost' = lost + Len(batch) /\ UNCHANGED <<handed, broker, fallback>>
  /\ batch' = NextBatch
  /\ pc' = IF pc = "flush" THEN "top" ELSE "off"
  /\ UNCHANGED <<incoming, working, queue, size, interval, since, enqueued, dropped,
                 flushed, offered, stops>>

(***************************************************************************)
(* stop(): the loop is cancelled where it awaits, in the queue or in the   *)
(* callback, and its local batch goes with it.                             *)
(***************************************************************************)
Stop ==
  /\ pc \in {"ready", "wait", "flush"} /\ stops < MaxStops
  /\ lost' = lost + Len(batch) /\ batch' = <<>>
  /\ pc' = "stopping" /\ stops' = stops + 1
  /\ UNCHANGED <<incoming, working, queue, size, interval, since, enqueued, dropped,
                 flushed, offered, handed, broker, fallback>>

\* _flush_all_pending: everything in the queue is one last batch.
FlushPending ==
  /\ pc = "stopping"
  /\ batch' = queue /\ queue' = <<>>
  /\ flushed' = flushed + Len(queue)
  /\ pc' = IF queue = <<>> THEN "off" ELSE "last"
  /\ UNCHANGED <<incoming, working, size, interval, since, enqueued, dropped, offered,
                 handed, lost, stops, broker, fallback>>

Start ==
  /\ pc = "off" /\ pc' = "top" /\ since' = 0
  /\ UNCHANGED <<incoming, working, queue, batch, size, interval, enqueued, dropped,
                 flushed, offered, handed, lost, stops, broker, fallback>>

IngestNext ==
  \/ \E records \in 0..MaxCarried : Submit(records)
  \/ Work \/ TogglePool
  \/ Adjust \/ Get \/ Timeout \/ Tick
  \/ \E failing \in SUBSET InBatch, raises \in BOOLEAN : EndFlush(failing, raises)
  \/ Stop \/ FlushPending \/ Start

IngestSpec == IngestInit /\ [][IngestNext]_ingestVars

(***************************************************************************)
(* The event loop runs every task that is ready, time passes, and the      *)
(* callback returns.  Nothing obliges anyone to stop or to start.          *)
(***************************************************************************)
Fairness == /\ WF_ingestVars(Adjust) /\ WF_ingestVars(Get \/ Timeout) /\ WF_ingestVars(Tick)
            /\ WF_ingestVars(\E failing \in SUBSET InBatch, raises \in BOOLEAN :
                         EndFlush(failing, raises))
            /\ WF_ingestVars(FlushPending)

FairIngestSpec == IngestSpec /\ Fairness
-----------------------------------------------------------------------------
(***************************************************************************)
(* The counters tell the truth (adaptive_batcher.py:71-83, 134-155):       *)
(* every record offered was counted as enqueued or as dropped, and those   *)
(* counted as enqueued are as many as wait in the queue, are in a batch,   *)
(* were handed on, or went with a batch of a loop that was cancelled or a  *)
(* callback that raised; whichever record took whose place.                *)
(***************************************************************************)
RecordsAreAccounted ==
  /\ offered = enqueued + dropped
  /\ enqueued = Len(queue) + Len(batch) + Len(handed) + lost
  /\ Len(queue) <= QueueMax
  /\ Len(handed) <= flushed /\ flushed <= Len(handed) + lost + Len(batch)

LastRunInOrder ==
  /\ IsRun(queue, offered)
  /\ Increasing(handed \o batch \o queue)

PublishedOrKept ==
  /\ Increasing(broker) /\ Increasing(fallback) /\ Len(fallback) <= MaxFallback
  /\ \A i \in DOMAIN handed :
       LET sent == \E k \in DOMAIN broker : broker[k] = handed[i]
           kept == \E k \in DOMAIN fallback : fallback[k] = handed[i]
       IN /\ ~(sent /\ kept)
          /\ sent \/ kept \/ (Len(fallback) = MaxFallback /\ handed[i] < fallback[1])

(***************************************************************************)
(* Under pressure the newest survive, in order and once: the queue is the  *)
(* last run of what was offered, and what was handed on, the batch and the *)
(* queue follow one another without a repetition, over flushes that raise, *)
(* stops and restarts (adaptive_batcher.py:60-83, 101-132, 147-155).  A    *)
(* record handed to the producer reached Kafka or is in the fallback       *)
(* buffer, in one of them; only the oldest of a full buffer are gone       *)
(* (kafka.py:73-83).                                                       *)
(***************************************************************************)
NewestInOrder == LastRunInOrder /\ PublishedOrKept

Waits(r) == \/ \E i \in DOMAIN queue : queue[i] = r
            \/ \E i \in DOMAIN batch : batch[i] = r

(***************************************************************************)
(* No record waits for ever in a batcher that runs: it is handed on, gives *)
(* way to newer ones, or is lost with its batch, however few records come  *)
(* after it (adaptive_batcher.py:112-130).                                 *)
(***************************************************************************)
EveryRecordLeaves ==
  \A r \in 1..MaxOffered : Waits(r) ~> (~Waits(r) \/ pc = "off")
=============================================================================
