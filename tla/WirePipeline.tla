---------------------------- MODULE WirePipeline ----------------------------
(***************************************************************************)
(* WireSpeedPipeline (collector/pipeline.py) and the UDP handler that      *)
(* feeds it (collector/server.py): the parent process hashes each datagram *)
(* to a worker and writes it to that worker's ring; each worker process    *)
(* drains its ring in batches, analyses the packets and puts the alerts on *)
(* a shared bounded queue; stop() ends the workers and unlinks the rings.  *)
(*                                                                         *)
(* A ring is the bounded queue SharedRing is shown to implement.  A packet *)
(* is a record of its kind and of the flows in it, each a pair of hosts.   *)
(***************************************************************************)
EXTENDS Naturals, Sequences, FiniteSets, Functions, FiniteSetsExt

CONSTANTS NumWorkers,    \* num_workers
          RingCapacity,  \* ring_capacity
          BatchMax,      \* max_items of the worker's read_batch
          QueueMax,      \* maxsize of alert_queue
          PipeMax,       \* alerts the queue's pipe holds
          Packets,       \* the datagrams the exporters send
          HashOf,        \* hash of a set of hosts, a function to Nat
          MaxSubmits,    \* bound: datagrams submitted
          MaxStarts      \* bound: calls of start()

ASSUME PipelineAssumption ==
  /\ NumWorkers \in Nat \ {0}
  /\ RingCapacity \in Nat /\ BatchMax \in Nat /\ QueueMax \in Nat /\ PipeMax \in Nat
  /\ MaxSubmits \in Nat /\ MaxStarts \in Nat
  /\ \A p \in Packets : p.kind = "v5" =>
       p.flows # <<>> /\ HashOf[{p.flows[1].src, p.flows[1].dst}] \in Nat

Workers == 0..NumWorkers - 1
Unlinking == NumWorkers      \* stop() has joined the last worker
Free == NumWorkers + 1

VARIABLES running,    \* is_running
          stopEvent,  \* stop_event
          managerUp,  \* is the Manager that serves stats_dict alive?
          parent,     \* Free, or the worker stop() is joining, or Unlinking
          rings,      \* self.rings: a sequence of queues
          worker,     \* the worker processes
          stats,      \* stats_dict: the counters last published
          alertQ,     \* alerts in the pipe of alert_queue
          count,      \* the parent's counters, and history counters
          analysed    \* history: the pairs of hosts each worker has analysed

vars == <<running, stopEvent, managerUp, parent, rings, worker, stats, alertQ,
          count, analysed>>

Flow(s, d) == [src |-> s, dst |-> d]
Pair(f) == {f.src, f.dst}

\* buffer: alerts put on alert_queue that the process's feeder thread has
\* still to write to the pipe.
NoProcess == [pc |-> "none", batch |-> <<>>, buffer |-> 0,
              packets |-> 0, alerts |-> 0]
NewProcess == [NoProcess EXCEPT !.pc = "loop"]
ZeroStats == [packets |-> 0, alerts |-> 0]

Init == /\ running = FALSE /\ stopEvent = FALSE /\ managerUp = TRUE
        /\ parent = Free /\ rings = <<>>
        /\ worker = [w \in Workers |-> NoProcess]
        /\ stats = [w \in Workers |-> ZeroStats]
        /\ alertQ = 0
        /\ count = [starts |-> 0, submitted |-> 0, dropped |-> 0,
                    ringDropped |-> 0, failed |-> 0, unlinked |-> 0,
                    abandoned |-> 0, fetched |-> 0, discarded |-> 0,
                    lostAlerts |-> 0]
        /\ analysed = [w \in Workers |-> {}]

Bump(field, n) == [count EXCEPT ![field] = @ + n]
-----------------------------------------------------------------------------
(* The parent process *)

\* start(): one ring and one process per worker.
Start == /\ parent = Free /\ ~running /\ managerUp
         /\ count.starts < MaxStarts
         /\ running' = TRUE /\ stopEvent' = FALSE
         /\ rings' = [i \in 1..NumWorkers |-> <<>>]
         /\ worker' = [w \in Workers |-> NewProcess]
         /\ stats' = [w \in Workers |-> ZeroStats]
         /\ count' = Bump("starts", 1)
         /\ UNCHANGED <<managerUp, parent, alertQ, analysed>>

\* start() after a stop(): is_running is set and the first ring made before
\* the write to stats_dict finds no Manager and raises.
StartFails == /\ parent = Free /\ ~running /\ ~managerUp
              /\ count.starts < MaxStarts
              /\ running' = TRUE /\ stopEvent' = FALSE
              /\ rings' = Append(rings, <<>>)
              /\ count' = Bump("starts", 1)
              /\ UNCHANGED <<managerUp, parent, worker, stats, alertQ, analysed>>

\* Mutant: the pair is hashed in the order of the datagram.
RouteUnsorted(p, n) ==
  IF p.kind = "v5" THEN HashOf[{p.flows[1].src}] % NumWorkers
                   ELSE n % NumWorkers
\* compute_symmetric_5tuple_hash over the first record of a NetFlow v5
\* datagram; anything else goes by turns.
Route(p, n) ==
  IF p.kind = "v5" THEN HashOf[Pair(p.flows[1])] % NumWorkers
                   ELSE n % NumWorkers

\* Mutant: the refused datagram is left out of total_dropped_packets.
RefusedUncounted == [count EXCEPT !.submitted = @ + 1, !.ringDropped = @ + 1]
\* The counters after a full ring refused a datagram: the ring counts it and
\* so does submit_packet.
Refused == [count EXCEPT !.submitted = @ + 1, !.dropped = @ + 1,
                         !.ringDropped = @ + 1]

\* submit_packet, from datagram_received.
Submit(p) ==
  /\ parent = Free /\ running /\ count.submitted < MaxSubmits
  /\ LET r == Route(p, count.submitted + 1) + 1
     IN  \/ /\ r \in DOMAIN rings /\ Len(rings[r]) < RingCapacity
            /\ rings' = [rings EXCEPT ![r] = Append(@, p)]
            /\ count' = Bump("submitted", 1)
         \/ /\ r \in DOMAIN rings /\ Len(rings[r]) >= RingCapacity
            /\ count' = Refused
            /\ UNCHANGED rings
         \/ /\ r \notin DOMAIN rings       \* IndexError in the UDP handler
            /\ count' = [count EXCEPT !.submitted = @ + 1, !.failed = @ + 1]
            /\ UNCHANGED rings
  /\ UNCHANGED <<running, stopEvent, managerUp, parent, worker, stats, alertQ,
                 analysed>>

\* get_alerts(): get_nowait until the pipe is empty or max_alerts are read.
GetAlerts == \E n \in 1..alertQ :
               /\ alertQ' = alertQ - n
               /\ count' = Bump("fetched", n)
               /\ UNCHANGED <<running, stopEvent, managerUp, parent, rings,
                              worker, stats, analysed>>

Stop == /\ parent = Free /\ running
        /\ running' = FALSE /\ stopEvent' = TRUE
        /\ parent' = IF managerUp THEN 0 ELSE Unlinking   \* no worker left
        /\ UNCHANGED <<managerUp, rings, worker, stats, alertQ, count, analysed>>

\* join() returns because the process ended.
JoinEnded == /\ parent \in Workers /\ worker[parent].pc = "ended"
             /\ parent' = parent + 1
             /\ UNCHANGED <<running, stopEvent, managerUp, rings, worker, stats,
                            alertQ, count, analysed>>

\* join() times out: terminate() kills the process where it stands.
Terminate == /\ parent \in Workers /\ worker[parent].pc # "ended"
             /\ worker' = [worker EXCEPT ![parent].pc = "killed",
                                         ![parent].batch = <<>>,
                                         ![parent].buffer = 0]
             /\ count' = [count EXCEPT
                            !.abandoned = @ + Len(worker[parent].batch),
                            !.lostAlerts = @ + worker[parent].buffer]
             /\ parent' = parent + 1
             /\ UNCHANGED <<running, stopEvent, managerUp, rings, stats, alertQ,
                            analysed>>

Queued == SumFunction([r \in DOMAIN rings |-> Len(rings[r])])

\* The rings are unlinked with what is in them, then the Manager goes.
Cleanup == /\ parent = Unlinking
           /\ parent' = Free /\ managerUp' = FALSE
           /\ rings' = <<>>
           /\ count' = [count EXCEPT !.unlinked = @ + Queued, !.ringDropped = 0]
           /\ UNCHANGED <<running, stopEvent, worker, stats, alertQ, analysed>>
-----------------------------------------------------------------------------
(* A worker process: _worker_process_loop *)

Become(w, pc) == worker' = [worker EXCEPT ![w].pc = pc]

ParentRest == <<running, stopEvent, managerUp, parent>>

\* The top of the loop with stop_event set: what the ring holds stays there.
LeaveLoop(w) == /\ worker[w].pc = "loop" /\ stopEvent
                /\ Become(w, "finally")
                /\ UNCHANGED <<ParentRest, rings, stats, alertQ, count, analysed>>

\* Mutant: the last packet stays in the ring.
ReadBatchKeepsOne(w) ==
  /\ worker[w].pc = "loop" /\ ~stopEvent
  /\ \E n \in 1..Len(rings[w + 1]) - 1 :
       /\ n <= BatchMax
       /\ rings' = [rings EXCEPT ![w + 1] = SubSeq(@, n + 1, Len(@))]
       /\ worker' = [worker EXCEPT ![w].pc = "batch",
                                   ![w].batch = SubSeq(rings[w + 1], 1, n)]
  /\ UNCHANGED <<ParentRest, stats, alertQ, count, analysed>>
\* read_batch(64) on a ring that holds packets; it may return fewer than
\* there are (a torn write_head), never none for ever.
ReadBatch(w) ==
  /\ worker[w].pc = "loop" /\ ~stopEvent
  /\ \E n \in 1..Len(rings[w + 1]) :
       /\ n <= BatchMax
       /\ rings' = [rings EXCEPT ![w + 1] = SubSeq(@, n + 1, Len(@))]
       /\ worker' = [worker EXCEPT ![w].pc = "batch",
                                   ![w].batch = SubSeq(rings[w + 1], 1, n)]
  /\ UNCHANGED <<ParentRest, stats, alertQ, count, analysed>>

PollEmpty(w) == /\ worker[w].pc = "loop" /\ ~stopEvent
                /\ rings[w + 1] = <<>>
                /\ Become(w, "sync")
                /\ UNCHANGED <<ParentRest, rings, stats, alertQ, count, analysed>>

\* Alerts that hold a slot of alert_queue: a killed process never gives back
\* the slots of the alerts in its buffer.
SlotsTaken == alertQ + count.lostAlerts
                + SumFunction([w \in Workers |-> worker[w].buffer])

\* put_nowait() finds a free slot.
HasSlot == SlotsTaken < QueueMax

\* One packet of the batch is parsed and analysed: it may raise an alert,
\* which is lost when alert_queue is full.
Analyse(w) ==
  /\ worker[w].pc = "batch"
  /\ \E alerts \in 0..1 :
       LET p   == Head(worker[w].batch)
           put == alerts = 1 /\ HasSlot
       IN  /\ worker' = [worker EXCEPT
                ![w].batch = Tail(@), ![w].packets = @ + 1,
                ![w].alerts = @ + alerts,
                ![w].buffer = IF put THEN @ + 1 ELSE @,
                ![w].pc = IF Len(worker[w].batch) = 1 THEN "sync" ELSE "batch"]
           /\ count' = IF alerts = 1 /\ ~put THEN Bump("discarded", 1) ELSE count
           /\ analysed' = [analysed EXCEPT
                ![w] = @ \union {Pair(p.flows[i]) : i \in DOMAIN p.flows}]
  /\ UNCHANGED <<ParentRest, rings, stats, alertQ>>

\* The feeder thread of alert_queue in the worker.
Feed(w) == /\ worker[w].buffer > 0 /\ alertQ < PipeMax
           /\ worker' = [worker EXCEPT ![w].buffer = @ - 1]
           /\ alertQ' = alertQ + 1
           /\ UNCHANGED <<ParentRest, rings, stats, count, analysed>>

\* Any exception ends the loop, with the rest of the batch.
Fail(w) == /\ worker[w].pc = "batch"
           /\ worker' = [worker EXCEPT ![w].pc = "finally", ![w].batch = <<>>,
                                       ![w].packets = @ + 1]
           /\ count' = Bump("abandoned", Len(worker[w].batch) - 1)
           /\ UNCHANGED <<ParentRest, rings, stats, alertQ, analysed>>

Counters(w) == [packets |-> worker[w].packets, alerts |-> worker[w].alerts]

\* The end of an iteration: the counters are published every 0.1 s.
Sync(w) == /\ worker[w].pc = "sync"
           /\ stats' \in {stats, [stats EXCEPT ![w] = Counters(w)]}
           /\ Become(w, "loop")
           /\ UNCHANGED <<ParentRest, rings, alertQ, count, analysed>>

\* The finally block: a last synchronisation.
Finally(w) == /\ worker[w].pc = "finally"
              /\ stats' = [stats EXCEPT ![w] = Counters(w)]
              /\ Become(w, "exiting")
              /\ UNCHANGED <<ParentRest, rings, alertQ, count, analysed>>

\* The process ends once its feeder thread has emptied its buffer.
Exit(w) == /\ worker[w].pc = "exiting" /\ worker[w].buffer = 0
           /\ Become(w, "ended")
           /\ UNCHANGED <<ParentRest, rings, stats, alertQ, count, analysed>>

WorkerStep(w) == \/ LeaveLoop(w) \/ ReadBatch(w) \/ PollEmpty(w) \/ Analyse(w)
                 \/ Sync(w) \/ Finally(w) \/ Exit(w)
StopStep == JoinEnded \/ Terminate \/ Cleanup

Next == \/ Start \/ StartFails \/ Stop \/ GetAlerts
        \/ \E p \in Packets : Submit(p)
        \/ JoinEnded \/ Terminate \/ Cleanup
        \/ \E w \in Workers : \/ LeaveLoop(w) \/ ReadBatch(w) \/ PollEmpty(w)
                              \/ Analyse(w) \/ Fail(w) \/ Sync(w) \/ Finally(w)
                              \/ Exit(w) \/ Feed(w)

Spec == Init /\ [][Next]_vars

(***************************************************************************)
(* Workers are processes of their own and are scheduled; stop() goes on by *)
(* itself, since join() has a timeout.  Nothing obliges anyone to submit,  *)
(* to fetch alerts, to stop or to fail.                                    *)
(***************************************************************************)
FairSpec == /\ Spec
            /\ \A w \in Workers : WF_vars(WorkerStep(w)) /\ WF_vars(Feed(w))
            /\ WF_vars(StopStep)
-----------------------------------------------------------------------------
Total(field) == SumFunction([w \in Workers |-> worker[w][field]])
InHand == SumFunction([w \in Workers |-> Len(worker[w].batch)])

PacketAccounting ==
  count.submitted = count.dropped + count.failed + Queued + InHand
                      + Total("packets") + count.unlinked + count.abandoned

AlertAccounting ==
  Total("alerts") = SlotsTaken + count.fetched + count.discarded

\* Every datagram submitted is in one place (pipeline.py lines 246-273,
\* 104-127, 330-349): dropped, in a ring, in a worker's batch, analysed, lost
\* with a ring stop() unlinked, or lost with the batch of a dead worker; and
\* every alert a worker counted holds a slot of the queue, was fetched, or was
\* refused by a full queue (118-125, 275-284).
NothingUncounted == PacketAccounting /\ AlertAccounting

\* A conversation whose records come in NetFlow v5 datagrams only, the first
\* record of each of them its own.
Steered(pair) ==
  \A p \in Packets : (\E i \in DOMAIN p.flows : Pair(p.flows[i]) = pair) =>
    p.kind = "v5" /\ Pair(p.flows[1]) = pair

\* Both directions of such a conversation are analysed by one worker, whatever
\* else is in the datagrams (lines 35-44, 256-270).
SamePairSameWorker ==
  \A v, w \in Workers : v # w =>
    \A pair \in analysed[v] \intersect analysed[w] : ~Steered(pair)

\* A process that left its loop and waits for a reader of the pipe to rid it
\* of its alerts.
WaitsForReader(w) ==
  worker[w].pc = "exiting" /\ worker[w].buffer > 0 /\ alertQ = PipeMax

RingsDrain ==
  \A w \in Workers : (\E r \in DOMAIN rings : r = w + 1 /\ rings[r] # <<>>)
    ~> \/ rings = <<>>
       \/ w + 1 \in DOMAIN rings /\ rings[w + 1] = <<>>
       \/ worker[w].pc \in {"ended", "killed"}
       \/ WaitsForReader(w)

StopEnds == (parent # Free) ~>
  (parent = Free /\ \A w \in Workers : worker[w].pc \in {"ended", "killed"})

\* A ring that holds packets is drained, or its worker has died of an exception
\* (lines 105-127) or is dying and holds alerts nobody fetches (141); and stop()
\* comes to its end with every process gone (330-354), a worker that waits so
\* and one that never looks at stop_event included.
WorkersFinish == RingsDrain /\ StopEnds
=============================================================================
