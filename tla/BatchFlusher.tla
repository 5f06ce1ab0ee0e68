---------------------------- MODULE BatchFlusher ----------------------------
(***************************************************************************)
(* ClickHouseBatchFlusher (collector/storage.py): flow records wait in a   *)
(* bounded queue that drops its oldest records, a task gathers them into   *)
(* batches and posts each batch to ClickHouse in a thread.  Actions are    *)
(* the stretches between two awaits; a post is a request of its own, which *)
(* ClickHouse may apply although the caller gave it up.                    *)
(*                                                                         *)
(* Records are numbered as they are received.                              *)
(***************************************************************************)
EXTENDS OrderedRecords, FiniteSets, SequencesExt

CONSTANTS QueueMax,    \* maxsize of the queue
          BatchSize,   \* batch_size
          MaxRecords,  \* bound: records received
          MaxArrivals  \* bound: records in one datagram

ASSUME SizesPositive == /\ QueueMax \in Nat \ {0} /\ BatchSize \in Nat \ {0}
                        /\ MaxRecords \in Nat /\ MaxArrivals \in Nat

VARIABLES running,   \* _running
          stopping,  \* where stop() is: "no", "cancelled", "draining", "done"
          task,      \* the flusher task: "waiting", "flushing" or "ended"
          due,       \* has flush_interval_secs passed since the last flush?
          queue,     \* _queue
          batch,     \* the task's local batch
          posts,     \* requests in flight, each with whom awaits the answer
          stored,    \* the batches ClickHouse applied, in order
          received, inserted, batches, failures, connected, \* the counters
          gone       \* history: the records lost, by cause, and those whose
                     \* caller gave up before ClickHouse had applied them

vars == <<running, stopping, task, due, queue, batch, posts, stored, received,
          inserted, batches, failures, connected, gone>>

counters == <<inserted, batches, failures, connected>>

Init == /\ running = TRUE /\ stopping = "no" /\ task = "waiting" /\ due = FALSE
        /\ queue = <<>> /\ batch = <<>> /\ posts = {} /\ stored = <<>>
        /\ received = 0 /\ inserted = 0 /\ batches = 0 /\ failures = 0
        /\ connected \in BOOLEAN        \* check_connection
        /\ gone = [evicted |-> {}, refused |-> {}, dropped |-> {}, givenUp |-> {}]
-----------------------------------------------------------------------------
\* put_nowait of each record in turn, on a full queue after a get_nowait:
\* the newest stay.
Pushed(q, new) == LastOf(q \o new, QueueMax)

\* enqueue(records): it has no await, so it is one step.  The tasks that
\* datagram_received created run before stop() drains the queue.
Enqueue(n) ==
  /\ stopping \in {"no", "cancelled"} /\ received + n <= MaxRecords
  /\ LET new == [i \in 1..n |-> received + i]
     IN  /\ queue' = Pushed(queue, new)
         /\ gone' = [gone EXCEPT
               !.evicted = @ \union ((ToSet(queue) \union ToSet(new)) \ ToSet(queue'))]
  /\ received' = received + n
  /\ UNCHANGED <<running, stopping, task, due, batch, posts, stored, counters>>

\* Time passes.
Tick == /\ ~due /\ due' = TRUE
        /\ UNCHANGED <<running, stopping, task, queue, batch, posts, stored,
                       received, counters, gone>>

\* Mutant: a batch is flushed only when it is full.
ShouldFlushFull(b, d) == Len(b) >= BatchSize
ShouldFlush(b, d) == Len(b) >= BatchSize \/ (b # <<>> /\ d)

\* A request with the batch of the task or of stop().
Post(b, from) == [recs |-> b, from |-> from, applied |-> FALSE]

\* Mutant: the flush is started and not awaited.
ContinueNotAwaited(b) ==
  IF ShouldFlush(b, due)
  THEN /\ batch' = <<>> /\ due' = FALSE /\ UNCHANGED task
       /\ posts' = posts \union {Post(b, "task")}
  ELSE batch' = b /\ UNCHANGED <<task, due, posts>>
\* The end of an iteration of the loop, with the batch b.
Continue(b) ==
  /\ batch' = b
  /\ IF ShouldFlush(b, due)
     THEN /\ task' = "flushing" /\ due' = FALSE
          /\ posts' = posts \union {Post(b, "task")}
     ELSE UNCHANGED <<task, due, posts>>

\* The wait for a record ends with one.
TakeRecord == /\ task = "waiting" /\ running /\ queue # <<>>
              /\ queue' = Tail(queue)
              /\ Continue(Append(batch, Head(queue)))
              /\ UNCHANGED <<running, stopping, stored, received, counters, gone>>

\* It ends with a timeout.
WaitTimesOut == /\ task = "waiting" /\ running /\ due /\ batch # <<>>
                /\ Continue(batch)
                /\ UNCHANGED <<running, stopping, queue, stored, received,
                               counters, gone>>

\* ClickHouse applies a request it received.
Apply(p) == /\ p \in posts /\ ~p.applied
            /\ stored' = Append(stored, p.recs)
            /\ posts' = (posts \ {p}) \union {[p EXCEPT !.applied = TRUE]}
            /\ UNCHANGED <<running, stopping, task, due, queue, batch, received,
                           counters, gone>>

\* Mutant: batch = [] is missing.
BatchKept == batch
\* The task's batch after a flush, whatever its outcome.
BatchAfterFlush == <<>>

\* The task or stop() goes on after its request, of which left is on its way.
Resume(p, left) ==
  /\ posts' = (posts \ {p}) \union left
  /\ \/ p.from = "task" /\ task' = "waiting" /\ batch' = BatchAfterFlush
        /\ UNCHANGED stopping
     \/ p.from = "stop" /\ stopping' = "done" /\ UNCHANGED <<task, batch>>
  /\ UNCHANGED <<running, due, queue, stored, received>>

\* The answer is 200 only when the batch was applied.
Accepted(p) == p.from # "orphan" /\ p.applied

AnswerOk(p) == /\ p \in posts /\ Accepted(p)
               /\ inserted' = inserted + Len(p.recs)
               /\ batches' = batches + 1 /\ connected' = TRUE
               /\ UNCHANGED <<failures, gone>>
               /\ Resume(p, {})

\* Another status leaves is_connected as it was.
AnswerRefused(p) == /\ p \in posts /\ p.from # "orphan" /\ ~p.applied
                    /\ failures' = failures + 1
                    /\ gone' = [gone EXCEPT !.refused = @ \union ToSet(p.recs)]
                    /\ UNCHANGED <<inserted, batches, connected>>
                    /\ Resume(p, {})

\* An exception: no answer within the timeout, whatever ClickHouse did.  A
\* request it has not applied yet may still be on its way.
NoAnswer(p) == /\ p \in posts /\ p.from # "orphan"
               /\ failures' = failures + 1 /\ connected' = FALSE
               /\ IF p.applied THEN gone' = gone /\ Resume(p, {})
                  ELSE /\ gone' = [gone EXCEPT !.givenUp = @ \union ToSet(p.recs)]
                       /\ Resume(p, {[p EXCEPT !.from = "orphan"]})
               /\ UNCHANGED <<inserted, batches>>

\* Nobody awaits the request any more: it may end without being applied.
OrphanEnds(p) == /\ p \in posts /\ p.from = "orphan"
                 /\ posts' = posts \ {p}
                 /\ gone' = IF p.applied THEN gone
                            ELSE [gone EXCEPT !.dropped = @ \union ToSet(p.recs)]
                 /\ UNCHANGED <<running, stopping, task, due, queue, batch, stored,
                                received, counters>>

Unapplied == UNION {ToSet(p.recs) : p \in {q \in posts : ~q.applied}}

\* stop(): cancel() ends the task at its await, with its batch.
StopCancel ==
  /\ stopping = "no"
  /\ running' = FALSE /\ stopping' = "cancelled" /\ task' = "ended"
  /\ batch' = <<>>
  /\ posts' = {[p EXCEPT !.from = "orphan"] : p \in posts}
  /\ gone' = IF task = "flushing"
             THEN [gone EXCEPT !.givenUp = @ \union Unapplied]
             ELSE [gone EXCEPT !.dropped = @ \union ToSet(batch)]
  /\ UNCHANGED <<due, queue, stored, received, counters>>

\* _flush_pending takes the whole queue.
StopDrain ==
  /\ stopping = "cancelled"
  /\ IF queue = <<>> THEN stopping' = "done" /\ UNCHANGED <<queue, posts>>
     ELSE /\ stopping' = "draining"
          /\ queue' = <<>>
          /\ posts' = posts \union {Post(queue, "stop")}
  /\ UNCHANGED <<running, task, due, batch, stored, received, counters, gone>>

Next == \/ \E n \in 1..MaxArrivals : Enqueue(n)
        \/ Tick \/ TakeRecord \/ WaitTimesOut \/ StopCancel \/ StopDrain
        \/ \E p \in posts : \/ Apply(p) \/ AnswerOk(p) \/ AnswerRefused(p)
                            \/ NoAnswer(p) \/ OrphanEnds(p)

Spec == Init /\ [][Next]_vars

(***************************************************************************)
(* The event loop runs its tasks, time passes, and a request without an    *)
(* answer runs into its timeout.  Nothing obliges ClickHouse to answer.    *)
(***************************************************************************)
FairSpec ==
  /\ Spec
  /\ WF_vars(Tick) /\ WF_vars(TakeRecord) /\ WF_vars(WaitTimesOut)
  /\ WF_vars(StopDrain)
  /\ WF_vars(\E p \in posts : NoAnswer(p)) /\ WF_vars(\E p \in posts : OrphanEnds(p))
-----------------------------------------------------------------------------
Records == 1..MaxRecords
InFlight == UNION {ToSet(p.recs) : p \in posts}
Stored == UNION {ToSet(b) : b \in ToSet(stored)}

EveryRecordSomewhere ==
  1..received = UNION {ToSet(queue), ToSet(batch), InFlight, Stored,
                       gone.evicted, gone.refused, gone.dropped}

StoredOnce ==
  \A i, j \in DOMAIN stored : \A k \in DOMAIN stored[i], l \in DOMAIN stored[j] :
    stored[i][k] = stored[j][l] => i = j /\ k = l

\* A record received is in the queue, in the task's batch, in flight, in
\* ClickHouse or lost, and what waits in the queue is nowhere else (lines
\* 91-148): no flow is stored twice, and total_flows_inserted counts no row
\* ClickHouse does not hold (190-192).
NothingVanishes ==
  /\ EveryRecordSomewhere
  /\ ToSet(queue) \intersect (ToSet(batch) \union InFlight \union Stored) = {}
  /\ StoredOnce
  /\ inserted <= Cardinality(Stored)

\* Batches reach ClickHouse in the order of their records (lines 106-129,
\* 67-77), except for one whose caller gave up before it was applied, by the
\* timeout of its request (181-203) or by stop(): that one may come last.
StoredInOrder ==
  \A i, j \in DOMAIN stored :
    i < j => \A r \in ToSet(stored[i]), s \in ToSet(stored[j]) :
               r < s \/ s \in gone.givenUp

EveryRecordHandled ==
  \A r \in Records : (r \in ToSet(queue) \union ToSet(batch))
    ~> (r \in Stored \union gone.evicted \union gone.refused \union gone.dropped)

StopEnds == (stopping = "cancelled") ~> (stopping = "done")

\* Every record received leaves the flusher (lines 106-129, 137-146) and
\* stop() comes to its end (67-77), although ClickHouse may never answer.
FlusherProgresses == EveryRecordHandled /\ StopEnds
=============================================================================
