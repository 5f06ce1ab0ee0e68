------------------------- MODULE BatchFlusherProofs -------------------------
(***************************************************************************)
(* Proofs about BatchFlusher, for every queue size, batch size and bound.  *)
(* Records are numbered in the order of their arrival and leave the queue  *)
(* at its head, so what has left the queue has smaller numbers than what   *)
(* is in it.  The rest of the invariant follows a batch from the task to   *)
(* its request and from there to ClickHouse or to a caller that gave up.   *)
(***************************************************************************)
EXTENDS BatchFlusher, DataLemmas

Callers == {"task", "stop", "orphan"}
Requests == [recs : Seq(Nat), from : Callers, applied : BOOLEAN]
Losses == [evicted : SUBSET Nat, refused : SUBSET Nat, dropped : SUBSET Nat,
           givenUp : SUBSET Nat]

TypeOK ==
  /\ stopping \in {"no", "cancelled", "draining", "done"}
  /\ task \in {"waiting", "flushing", "ended"}
  /\ queue \in Seq(Nat) /\ batch \in Seq(Nat) /\ stored \in Seq(Seq(Nat))
  /\ posts \subseteq Requests
  /\ received \in Nat /\ inserted \in Nat
  /\ gone \in Losses

\* The newest of the records that left the queue.
Taken == received - Len(queue)

\* The queue holds the newest records, in order; what left it is older.
QueueIsNewest ==
  /\ Len(queue) <= received
  /\ IsRun(queue, received)
  /\ ToSet(batch) \subseteq 1..Taken
  /\ \A p \in posts : ToSet(p.recs) \subseteq 1..Taken
  /\ Stored \subseteq 1..Taken

\* Who awaits which request.
Callings ==
  /\ task = "ended" <=> stopping # "no"
  /\ task = "ended" => batch = <<>>
  /\ task = "flushing" => \E p \in posts : p.from = "task"
  /\ \A p \in posts :
       /\ p.from = "task" => task = "flushing" /\ p.recs = batch
       /\ p.from = "stop" => stopping = "draining"
  /\ \A p, q \in posts : p.from # "orphan" /\ q.from # "orphan" => p = q

\* A record is in one place: the task's batch, one request or a stored batch.
OnePlace ==
  /\ Increasing(batch) /\ \A p \in posts : Increasing(p.recs)
  /\ task = "waiting" => ToSet(batch) \intersect (InFlight \union Stored) = {}
  /\ \A p, q \in posts : p # q => ToSet(p.recs) \intersect ToSet(q.recs) = {}
  /\ \A p \in posts : IF p.applied THEN ToSet(p.recs) \subseteq Stored
                      ELSE ToSet(p.recs) \intersect Stored = {}
  /\ StoredOnce

\* A row counted is a row stored, and so is a row about to be counted.
CountedIsStored ==
  /\ inserted <= Cardinality(Stored)
  /\ \A p \in posts : Accepted(p) => inserted + Len(p.recs) <= Cardinality(Stored)

\* What is yet to be stored is newer than what is stored or on its way, unless
\* its caller gave up.
NewerToCome ==
  /\ StoredInOrder
  /\ task = "waiting" => \A r \in Stored \union InFlight, s \in ToSet(batch) : r < s
  /\ \A p \in posts :
       IF p.from = "orphan" THEN ~p.applied => ToSet(p.recs) \subseteq gone.givenUp
       ELSE /\ ~p.applied => \A r \in Stored, s \in ToSet(p.recs) : r < s
            /\ \A q \in posts : q # p => \A r \in ToSet(q.recs), s \in ToSet(p.recs) : r < s

IInv == TypeOK /\ QueueIsNewest /\ Callings /\ OnePlace /\ CountedIsStored
        /\ NewerToCome /\ EveryRecordSomewhere
-----------------------------------------------------------------------------
(* What the invariant says of one state. *)

LEMMA StoredIsFinite ==
  ASSUME IInv
  PROVE  IsFiniteSet(Stored) /\ Cardinality(Stored) \in Nat
<1>1. received - Len(queue) \in Int
  BY DEF IInv, TypeOK
<1>2. IsFiniteSet(1..Taken)
  BY <1>1, FS_Interval DEF Taken
<1>3. Stored \in SUBSET (1..Taken)
  BY DEF IInv, QueueIsNewest
<1>4. IsFiniteSet(Stored)
  BY <1>2, <1>3, FS_Subset
<1>5. QED BY <1>4, FS_CardinalityType

\* A task that waits for a record has no request, and stop() was not called.
LEMMA WaitingAlone ==
  ASSUME IInv, task = "waiting"
  PROVE  stopping = "no" /\ \A p \in posts : p.from = "orphan"
<1>1. stopping = "no"
  BY DEF IInv, Callings
<1>2. \A p \in posts : p.from \in Callers
  BY DEF IInv, TypeOK, Requests
<1>3. QED BY <1>1, <1>2 DEF IInv, Callings, Callers

\* What waits in the queue is newer than what left it.
LEMMA QueueApart ==
  ASSUME IInv
  PROVE  ToSet(queue) \intersect (ToSet(batch) \union InFlight \union Stored) = {}
<1>1. ToSet(queue) = (received - Len(queue) + 1) .. received
  BY RunIsIncreasing DEF IInv, TypeOK, QueueIsNewest
<1>2. /\ received \in Nat /\ Len(queue) \in Nat
  BY DEF IInv, TypeOK
<1>3. InFlight \subseteq 1..Taken
  BY Zenon DEF IInv, QueueIsNewest, InFlight
<1>4. ToSet(batch) \subseteq 1..Taken /\ Stored \subseteq 1..Taken
  BY DEF IInv, QueueIsNewest
<1>5. ToSet(queue) \intersect 1..Taken = {}
  BY <1>1, <1>2 DEF Taken
<1>6. QED BY <1>3, <1>4, <1>5

LEMMA InStored ==
  ASSUME NEW i \in DOMAIN stored
  PROVE  /\ ToSet(stored[i]) \subseteq Stored
         /\ \A m \in DOMAIN stored[i] : stored[i][m] \in Stored
<1>1. stored[i] \in ToSet(stored)
  BY DEF ToSet
<1>2. ToSet(stored[i]) \subseteq Stored
  BY <1>1, Zenon DEF Stored
<1>3. \A m \in DOMAIN stored[i] : stored[i][m] \in ToSet(stored[i])
  BY Zenon DEF ToSet
<1>4. QED BY <1>2, <1>3

LEMMA PostIs ==
  ASSUME NEW b \in Seq(Nat), NEW from \in Callers
  PROVE  /\ Post(b, from) \in Requests
         /\ Post(b, from).recs = b /\ Post(b, from).from = from
         /\ Post(b, from).applied = FALSE
  BY DEF Post, Requests

LEMMA InitInv == Init => IInv
<1> SUFFICES ASSUME Init PROVE IInv
  OBVIOUS
<1>1. /\ stopping = "no" /\ task = "waiting" /\ queue = <<>> /\ batch = <<>>
      /\ posts = {} /\ stored = <<>> /\ received = 0 /\ inserted = 0
      /\ gone = [evicted |-> {}, refused |-> {}, dropped |-> {}, givenUp |-> {}]
  BY DEF Init
<1>2. ToSet(<<>>) = {} /\ Stored = {} /\ InFlight = {}
  BY <1>1 DEF ToSet, Stored, InFlight
<1>3. TypeOK
  BY <1>1 DEF TypeOK, Losses
<1>4. QueueIsNewest
  BY <1>1, <1>2 DEF QueueIsNewest, IsRun
<1>5. Callings
  BY <1>1 DEF Callings
<1>6. OnePlace
  BY <1>1, <1>2 DEF OnePlace, Increasing, StoredOnce
<1>7. CountedIsStored
  BY <1>1, <1>2, FS_EmptySet DEF CountedIsStored
<1>8. NewerToCome
  BY <1>1, <1>2 DEF NewerToCome, StoredInOrder
<1>9. EveryRecordSomewhere
  <2>1. 1..received = {}
    BY <1>1
  <2>2. QED BY <1>1, <1>2, <2>1, ZenonT(40) DEF EveryRecordSomewhere
<1>10. QED BY <1>3, <1>4, <1>5, <1>6, <1>7, <1>8, <1>9 DEF IInv

-----------------------------------------------------------------------------
(* Each action keeps the invariant. *)

\* The order of what is stored speaks of these alone.
LEMMA NewerStays ==
  ASSUME NewerToCome, UNCHANGED <<stored, task, batch, posts>>,
         Stored' = Stored, InFlight' = InFlight, gone'.givenUp = gone.givenUp
  PROVE  NewerToCome'
<1>1. StoredInOrder'
  BY DEF NewerToCome, StoredInOrder
<1>2. QED BY <1>1 DEF NewerToCome

LEMMA EnqueueInv ==
  ASSUME IInv, NEW n \in 1..MaxArrivals, Enqueue(n)
  PROVE  IInv'
<1> DEFINE new == [i \in 1..n |-> received + i]
<1>0. n \in Nat /\ received \in Nat /\ QueueMax \in Nat /\ Len(queue) \in Nat
  BY SizesPositive DEF IInv, TypeOK
<1>1. /\ queue' = LastOf(queue \o new, QueueMax)
      /\ gone' = [gone EXCEPT
           !.evicted = @ \union ((ToSet(queue) \union ToSet(new)) \ ToSet(queue'))]
      /\ received' = received + n
      /\ UNCHANGED <<running, stopping, task, due, batch, posts, stored, inserted,
                     batches, failures, connected>>
  BY DEF Enqueue, Pushed, counters
<1>2. /\ new \in Seq(Nat) /\ Len(new) = n
      /\ ToSet(new) = (received + 1)..(received + n)
      /\ queue \o new \in Seq(Nat) /\ Len(queue \o new) = Len(queue) + n
      /\ IsRun(queue \o new, received + n)
  <2>1. queue \in Seq(Nat) /\ IsRun(queue, received)
    BY DEF IInv, TypeOK, QueueIsNewest
  <2>2. QED BY <1>0, <2>1, RunGrows
<1> HIDE DEF new
<1>3. /\ queue' \in Seq(Nat) /\ Len(queue') <= Len(queue) + n
      /\ IsRun(queue', received + n)
  <2> DEFINE all == queue \o new
  <2>1. received + n \in Nat
    BY <1>0
  <2>2. all \in Seq(Nat) /\ Len(all) = Len(queue) + n /\ IsRun(all, received + n)
    BY <1>2
  <2>3. queue' = LastOf(all, QueueMax)
    BY <1>1
  <2> HIDE DEF all
  <2>4. /\ LastOf(all, QueueMax) \in Seq(Nat)
        /\ Len(LastOf(all, QueueMax)) <= Len(all)
        /\ IsRun(LastOf(all, QueueMax), received + n)
    BY <1>0, <2>1, <2>2, LastOfRun
  <2>5. QED BY <2>2, <2>3, <2>4
<1>4. /\ ToSet(queue) = (received - Len(queue) + 1) .. received
      /\ ToSet(queue') = (received + n - Len(queue') + 1) .. (received + n)
  BY <1>0, <1>3, RunIsIncreasing DEF IInv, TypeOK, QueueIsNewest
<1>5. Stored' = Stored /\ InFlight' = InFlight
  BY <1>1 DEF Stored, InFlight
<1>6. Len(queue') \in Nat /\ Len(queue) <= received
  BY <1>3 DEF IInv, QueueIsNewest
<1>7. TypeOK'
  <2>1. /\ queue \in Seq(Nat)
        /\ gone \in Losses
    BY DEF IInv, TypeOK
  <2>2. ToSet(queue) \subseteq Nat /\ ToSet(new) \subseteq Nat
    BY <1>0, <1>2, <1>4, <1>6
  <2>3. gone' \in Losses
    BY <1>1, <2>1, <2>2 DEF Losses
  <2>4. received' \in Nat
    BY <1>0, <1>1
  <2>5. UNCHANGED <<stopping, task, batch, stored, posts, inserted>>
    BY <1>1
  <2>6. QED BY <1>3, <2>3, <2>4, <2>5 DEF IInv, TypeOK
<1>8. QueueIsNewest'
  <2>1. 1..Taken \subseteq 1..(received' - Len(queue'))
    BY <1>0, <1>1, <1>3, <1>6 DEF Taken
  <2>2. /\ ToSet(batch) \subseteq 1..Taken
        /\ \A p \in posts : ToSet(p.recs) \subseteq 1..Taken
        /\ Stored \subseteq 1..Taken
    BY DEF IInv, QueueIsNewest
  <2>3. /\ ToSet(batch') \subseteq 1..Taken'
        /\ \A p \in posts' : ToSet(p.recs) \subseteq 1..Taken'
        /\ Stored' \subseteq 1..Taken'
    <3>1. Taken' = received' - Len(queue')
      BY DEF Taken
    <3>2. 1..Taken \subseteq 1..Taken'
      BY <2>1, <3>1
    <3> HIDE DEF Taken
    <3>3. QED BY <1>1, <1>5, <2>2, <3>2
  <2>4. Len(queue') <= received'
    BY <1>0, <1>1, <1>3, <1>6
  <2>5. IsRun(queue', received')
    BY <1>1, <1>3
  <2>6. QED BY <2>3, <2>4, <2>5 DEF QueueIsNewest, IsRun
<1>9. Callings'
  BY <1>1 DEF IInv, Callings
<1>10. OnePlace'
  <2>1. UNCHANGED <<task, batch, posts, stored>>
    BY <1>1
  <2>2. OnePlace
    BY DEF IInv
  <2>3. StoredOnce'
    BY <2>1, <2>2 DEF OnePlace, StoredOnce
  <2>4. QED BY <1>5, <2>1, <2>2, <2>3 DEF OnePlace, Increasing
<1>11. CountedIsStored'
  BY <1>1, <1>5 DEF IInv, CountedIsStored, Accepted
<1>12. NewerToCome'
  <2>1. gone'.givenUp = gone.givenUp
    BY <1>1 DEF IInv, TypeOK, Losses
  <2>2. QED BY <1>1, <1>5, <2>1, NewerStays DEF IInv
<1>13. EveryRecordSomewhere'
  <2>1. 1..received' = (1..received) \union ToSet(new)
    BY <1>0, <1>1, <1>2
  <2>2. ToSet(queue') \subseteq ToSet(queue) \union ToSet(new)
    BY <1>0, <1>2, <1>3, <1>4
  <2>3. /\ gone'.evicted = gone.evicted
             \union ((ToSet(queue) \union ToSet(new)) \ ToSet(queue'))
        /\ gone'.refused = gone.refused /\ gone'.dropped = gone.dropped
    BY <1>1 DEF IInv, TypeOK, Losses
  <2>4. 1..received = UNION {ToSet(queue), ToSet(batch), InFlight, Stored,
                             gone.evicted, gone.refused, gone.dropped}
    BY DEF IInv, EveryRecordSomewhere
  <2>5. ToSet(batch') = ToSet(batch)
    BY <1>1
  <2>6. 1..received' = UNION {ToSet(queue'), ToSet(batch'), InFlight', Stored',
                             gone'.evicted, gone'.refused, gone'.dropped}
    BY <1>5, <2>1, <2>2, <2>3, <2>4, <2>5, ZenonT(40)
  <2>7. QED BY <2>6 DEF EveryRecordSomewhere
<1>14. QED BY <1>7, <1>8, <1>9, <1>10, <1>11, <1>12, <1>13 DEF IInv

\* Tick, and a step that changes nothing, leave all the invariant speaks of.
LEMMA FrameInv ==
  ASSUME IInv,
         UNCHANGED <<stopping, task, queue, batch, posts, stored, received,
                     inserted, gone>>
  PROVE  IInv'
<1>1. Stored' = Stored /\ InFlight' = InFlight
  BY DEF Stored, InFlight
<1>2. TypeOK' /\ QueueIsNewest'
  BY <1>1 DEF IInv, TypeOK, QueueIsNewest, IsRun, Taken
<1>3. Callings'
  BY DEF IInv, Callings
<1>4. OnePlace'
  <2>1. StoredOnce'
    BY DEF IInv, OnePlace, StoredOnce
  <2>2. QED BY <1>1, <2>1 DEF IInv, OnePlace, Increasing
<1>5. CountedIsStored' /\ NewerToCome'
  BY <1>1, NewerStays DEF IInv, CountedIsStored, Accepted
<1>6. EveryRecordSomewhere'
  BY <1>1 DEF IInv, EveryRecordSomewhere
<1>7. QED BY <1>2, <1>3, <1>4, <1>5, <1>6 DEF IInv

\* The end of an iteration with the batch b, newer than all that was stored or
\* may still be.
LEMMA ContinueKeeps ==
  ASSUME IInv, task = "waiting", NEW b \in Seq(Nat), Increasing(b), Continue(b),
         ToSet(b) \intersect (Stored \union InFlight) = {},
         \A r \in Stored \union InFlight, s \in ToSet(b) : r < s,
         UNCHANGED <<stopping, stored, inserted, gone>>
  PROVE  /\ batch' = b /\ Stored' = Stored
         /\ \A p \in posts' : p \in posts \/ p = Post(b, "task")
         /\ task' \in {"waiting", "flushing"}
         /\ ToSet(batch') \union InFlight' = ToSet(b) \union InFlight
         /\ Callings' /\ OnePlace' /\ CountedIsStored' /\ NewerToCome'
<1> DEFINE new == Post(b, "task")
<1>1. /\ stopping = "no" /\ \A p \in posts : p.from = "orphan"
      /\ Callings /\ OnePlace /\ CountedIsStored /\ NewerToCome
  BY WaitingAlone DEF IInv
<1>2. batch' = b /\ stopping' = "no" /\ inserted' = inserted /\ stored' = stored
      /\ gone' = gone
  BY <1>1 DEF Continue
<1>3. Stored' = Stored /\ StoredOnce' /\ StoredInOrder'
  BY <1>1, <1>2 DEF Stored, OnePlace, StoredOnce, NewerToCome, StoredInOrder
<1>4. \/ task' = "waiting" /\ posts' = posts
      \/ task' = "flushing" /\ posts' = posts \union {new}
  BY DEF Continue
<1>5. /\ new.recs = b /\ new.from = "task" /\ new.applied = FALSE
  BY DEF Post
<1> HIDE DEF new
<1>6. \A p \in posts : ToSet(p.recs) \subseteq InFlight
  BY Zenon DEF InFlight
<1>7. InFlight' = InFlight \/ InFlight' = InFlight \union ToSet(b)
  <2>1. posts' = posts => InFlight' = InFlight
    BY DEF InFlight
  <2>2. posts' = posts \union {new} => InFlight' = InFlight \union ToSet(b)
    BY <1>5, Zenon DEF InFlight
  <2>3. QED BY <1>4, <2>1, <2>2
<1>8. \A p \in posts' : (p = new /\ task' = "flushing") \/ (p \in posts /\ p # new)
  BY <1>1, <1>4, <1>5
<1>9. Callings'
  <2>1. task' = "flushing" => \E p \in posts' : p.from = "task"
    BY <1>4, <1>5
  <2>2. \A p \in posts' : p = new \/ p.from = "orphan"
    BY <1>1, <1>8
  <2>3. QED BY <1>2, <1>4, <1>5, <1>8, <2>1, <2>2 DEF Callings
<1>10. OnePlace'
  <2>1. /\ Increasing(batch)' /\ \A p \in posts' : Increasing(p.recs)
    BY <1>1, <1>2, <1>5, <1>8 DEF OnePlace, Increasing
  <2>2. task' = "waiting" => ToSet(batch') \intersect (InFlight' \union Stored') = {}
    <3> SUFFICES ASSUME task' = "waiting"
                 PROVE  ToSet(batch') \intersect (InFlight' \union Stored') = {}
      OBVIOUS
    <3>1. InFlight' = InFlight
      BY <1>4 DEF InFlight
    <3>2. QED BY <1>2, <1>3, <3>1
  <2>3. \A p, q \in posts' : p # q => ToSet(p.recs) \intersect ToSet(q.recs) = {}
    BY <1>1, <1>5, <1>6, <1>8 DEF OnePlace
  <2>4. \A p \in posts' : IF p.applied THEN ToSet(p.recs) \subseteq Stored'
                          ELSE ToSet(p.recs) \intersect Stored' = {}
    BY <1>1, <1>3, <1>5, <1>8 DEF OnePlace
  <2>5. QED BY <1>3, <2>1, <2>2, <2>3, <2>4 DEF OnePlace, Increasing
<1>11. CountedIsStored'
  BY <1>1, <1>2, <1>3, <1>5, <1>8 DEF CountedIsStored, Accepted
<1>12. NewerToCome'
  <2>1. task' = "waiting" => \A r \in Stored' \union InFlight', s \in ToSet(batch') : r < s
    <3>1. task' = "waiting" => InFlight' = InFlight
      BY <1>4 DEF InFlight
    <3>2. QED BY <1>2, <1>3, <3>1
  <2>2. ASSUME NEW p \in posts', p.from = "orphan", ~p.applied
        PROVE  ToSet(p.recs) \subseteq gone'.givenUp
    BY <1>1, <1>2, <1>5, <1>8, <2>2 DEF NewerToCome
  <2>3. ASSUME NEW p \in posts', p.from # "orphan"
        PROVE  /\ ~p.applied => \A r \in Stored', s \in ToSet(p.recs) : r < s
               /\ \A q \in posts' :
                    q # p => \A r \in ToSet(q.recs), s \in ToSet(p.recs) : r < s
    <3>1. p = new
      BY <1>1, <1>8, <2>3
    <3>2. \A q \in posts' : q # p => ToSet(q.recs) \subseteq InFlight
      BY <1>6, <1>8, <3>1
    <3>3. QED BY <1>3, <1>5, <3>1, <3>2
  <2>4. QED BY <1>3, <2>1, <2>2, <2>3 DEF NewerToCome
<1>13. QED BY <1>2, <1>3, <1>4, <1>5, <1>7, <1>8, <1>9, <1>10, <1>11, <1>12 DEF new

LEMMA WaitTimesOutInv ==
  ASSUME IInv, WaitTimesOut
  PROVE  IInv'
<1>1. /\ task = "waiting" /\ Continue(batch)
      /\ UNCHANGED <<running, stopping, queue, stored, received, inserted, gone>>
  BY DEF WaitTimesOut, counters
<1>2. /\ batch \in Seq(Nat) /\ Increasing(batch)
      /\ ToSet(batch) \intersect (Stored \union InFlight) = {}
      /\ \A r \in Stored \union InFlight, s \in ToSet(batch) : r < s
  BY <1>1 DEF IInv, TypeOK, OnePlace, NewerToCome
<1>3. /\ batch' = batch /\ Stored' = Stored
      /\ \A p \in posts' : p \in posts \/ p = Post(batch, "task")
      /\ task' \in {"waiting", "flushing"}
      /\ ToSet(batch') \union InFlight' = ToSet(batch) \union InFlight
      /\ Callings' /\ OnePlace' /\ CountedIsStored' /\ NewerToCome'
  BY <1>1, <1>2, ContinueKeeps
<1>4. TypeOK'
  <2>1. \A p \in posts' : p \in Requests
    BY <1>2, <1>3, PostIs DEF Callers, IInv, TypeOK
  <2>2. QED BY <1>1, <1>3, <2>1 DEF IInv, TypeOK
<1>5. QueueIsNewest'
  <2>1. \A p \in posts' : p \in posts \/ p.recs = batch
    BY <1>3 DEF Post
  <2>2. Taken' = Taken
    BY <1>1 DEF Taken
  <2>3. QED BY <1>1, <1>3, <2>1, <2>2 DEF IInv, QueueIsNewest, IsRun
<1>6. EveryRecordSomewhere'
  <2>1. 1..received = UNION {ToSet(queue), ToSet(batch), InFlight, Stored,
                             gone.evicted, gone.refused, gone.dropped}
    BY DEF IInv, EveryRecordSomewhere
  <2>2. 1..received = UNION {ToSet(queue), ToSet(batch'), InFlight', Stored,
                             gone.evicted, gone.refused, gone.dropped}
    BY <1>3, <2>1, Zenon
  <2>3. QED BY <1>1, <1>3, <2>2 DEF EveryRecordSomewhere
<1>7. QED BY <1>3, <1>4, <1>5, <1>6 DEF IInv

LEMMA TakeRecordInv ==
  ASSUME IInv, TakeRecord
  PROVE  IInv'
<1> DEFINE b == Append(batch, Head(queue))
<1>1. /\ task = "waiting" /\ queue # <<>> /\ queue' = Tail(queue) /\ Continue(b)
      /\ UNCHANGED <<running, stopping, stored, received, inserted, gone>>
  BY DEF TakeRecord, counters
<1>2. /\ queue \in Seq(Nat) /\ batch \in Seq(Nat) /\ received \in Nat
      /\ Len(queue) <= received /\ IsRun(queue, received)
  BY DEF IInv, TypeOK, QueueIsNewest
<1>3. /\ queue' \in Seq(Nat) /\ Len(queue) \in Nat \ {0}
      /\ Len(queue') = Len(queue) - 1
      /\ \A i \in 1..Len(queue) - 1 : queue'[i] = queue[i + 1]
      /\ Head(queue) = queue[1]
  BY <1>1, <1>2, HeadTailProperties, EmptySeq
<1>4. Head(queue) = Taken + 1 /\ Taken \in Nat /\ Taken' = Taken + 1
  <2>1. queue[1] = received - Len(queue) + 1
    BY <1>3, <1>2 DEF IsRun
  <2>2. Taken' = received - Len(queue')
    BY <1>1 DEF Taken
  <2>3. QED BY <1>2, <1>3, <2>1, <2>2 DEF Taken
<1>5. IsRun(queue', received)
  <2> SUFFICES ASSUME NEW i \in 1..Len(queue')
               PROVE  queue'[i] = received - Len(queue') + i
    BY DEF IsRun
  <2>1. i \in 1..Len(queue) - 1 /\ i + 1 \in 1..Len(queue)
    BY <1>3
  <2>2. queue[i + 1] = received - Len(queue) + (i + 1)
    BY <1>2, <2>1 DEF IsRun
  <2>3. QED BY <1>2, <1>3, <2>1, <2>2
<1>6. b \in Seq(Nat) /\ ToSet(b) = ToSet(batch) \union {Taken + 1}
  BY <1>2, <1>4, ToSetOfAppend
<1>7. ToSet(batch) \subseteq 1..Taken /\ Stored \union InFlight \subseteq 1..Taken
  <2>1. InFlight \subseteq 1..Taken
    BY Zenon DEF IInv, QueueIsNewest, InFlight
  <2>2. QED BY <2>1 DEF IInv, QueueIsNewest
<1>8. Increasing(b)
  <2>1. Increasing(batch) /\ \A r \in ToSet(batch) : r < Taken + 1
    BY <1>4, <1>7 DEF IInv, OnePlace
  <2>2. QED BY <1>2, <1>4, <2>1, AppendIsIncreasing
<1>9. /\ ToSet(b) \intersect (Stored \union InFlight) = {}
      /\ \A r \in Stored \union InFlight, s \in ToSet(b) : r < s
  <2>1. /\ ToSet(batch) \intersect (Stored \union InFlight) = {}
        /\ \A r \in Stored \union InFlight, s \in ToSet(batch) : r < s
    BY <1>1 DEF IInv, OnePlace, NewerToCome
  <2>2. \A r \in Stored \union InFlight : r < Taken + 1
    BY <1>4, <1>7
  <2>3. Taken + 1 \notin Stored \union InFlight
    BY <1>4, <1>7
  <2>4. QED BY <1>6, <2>1, <2>2, <2>3
<1> HIDE DEF b
<1>10. /\ batch' = b /\ Stored' = Stored
       /\ \A p \in posts' : p \in posts \/ p = Post(b, "task")
       /\ task' \in {"waiting", "flushing"}
       /\ ToSet(batch') \union InFlight' = ToSet(b) \union InFlight
       /\ Callings' /\ OnePlace' /\ CountedIsStored' /\ NewerToCome'
  BY <1>1, <1>6, <1>8, <1>9, ContinueKeeps
<1>11. TypeOK'
  <2>1. \A p \in posts' : p \in Requests
    BY <1>6, <1>10, PostIs DEF Callers, IInv, TypeOK
  <2>2. QED BY <1>1, <1>3, <1>6, <1>10, <2>1 DEF IInv, TypeOK
<1>12. QueueIsNewest'
  <2>1. ToSet(b) \subseteq 1..Taken' /\ Stored' \subseteq 1..Taken'
    BY <1>4, <1>6, <1>7, <1>10
  <2>2. \A p \in posts' : p \in posts \/ p.recs = b
    BY <1>10 DEF Post
  <2>3. \A p \in posts : ToSet(p.recs) \subseteq 1..Taken'
    BY <1>4 DEF IInv, QueueIsNewest
  <2>4. Len(queue') <= received'
    BY <1>1, <1>2, <1>3
  <2>5. IsRun(queue', received')
    BY <1>1, <1>5
  <2>6. QED BY <1>10, <2>1, <2>2, <2>3, <2>4, <2>5 DEF QueueIsNewest, IsRun
<1>13. EveryRecordSomewhere'
  <2>1. ToSet(queue) = {Taken + 1} \union ToSet(queue')
    BY <1>1, <1>2, <1>4, ToSetOfHeadTail
  <2>2. 1..received = UNION {ToSet(queue), ToSet(batch), InFlight, Stored,
                             gone.evicted, gone.refused, gone.dropped}
    BY DEF IInv, EveryRecordSomewhere
  <2>3. ToSet(batch') \union InFlight' = UNION {ToSet(batch), {Taken + 1}, InFlight}
    BY <1>6, <1>10
  <2>4. UNION {ToSet(queue'), ToSet(batch'), InFlight'}
          = UNION {ToSet(queue), ToSet(batch), InFlight}
    BY <2>1, <2>3
  <2>5. 1..received = UNION {ToSet(queue'), ToSet(batch'), InFlight', Stored,
                             gone.evicted, gone.refused, gone.dropped}
    BY <2>2, <2>4
  <2>6. QED BY <1>1, <1>10, <2>5 DEF EveryRecordSomewhere
<1>14. QED BY <1>10, <1>11, <1>12, <1>13 DEF IInv

\* A request is applied: its records were stored nowhere, and now they are.
LEMMA ApplyInv ==
  ASSUME IInv, NEW p \in posts, Apply(p)
  PROVE  IInv'
<1> DEFINE new == [p EXCEPT !.applied = TRUE]
<1>1. /\ ~p.applied /\ stored' = Append(stored, p.recs)
      /\ posts' = (posts \ {p}) \union {new}
      /\ UNCHANGED <<running, stopping, task, queue, batch, received, inserted, gone>>
  BY DEF Apply, counters
<1>2. /\ p \in Requests /\ p.recs \in Seq(Nat) /\ stored \in Seq(Seq(Nat))
  BY DEF IInv, TypeOK, Requests
<1>3. /\ new \in Requests /\ new.recs = p.recs /\ new.from = p.from
      /\ new.applied = TRUE
  BY <1>2 DEF Requests
<1> HIDE DEF new
<1>4. /\ stored' \in Seq(Seq(Nat)) /\ Len(stored') = Len(stored) + 1
      /\ stored'[Len(stored) + 1] = p.recs
      /\ \A i \in 1..Len(stored) : stored'[i] = stored[i]
      /\ Len(stored) \in Nat
  BY <1>1, <1>2
<1>5. ToSet(stored') = ToSet(stored) \union {p.recs}
  BY <1>1, <1>2, ToSetOfAppend
<1>6. Stored' = Stored \union ToSet(p.recs)
  BY <1>5, Zenon DEF Stored
<1>7. \A q \in posts' : q = new \/ (q \in posts /\ q # p)
  BY <1>1
<1>8. InFlight' = InFlight
  <2>1. ASSUME NEW r, r \in InFlight' PROVE r \in InFlight
    <3>1. PICK q \in posts' : r \in ToSet(q.recs)
      BY <2>1 DEF InFlight
    <3>2. QED BY <1>3, <1>7, <3>1 DEF InFlight
  <2>2. ASSUME NEW r, r \in InFlight PROVE r \in InFlight'
    <3>1. PICK q \in posts : r \in ToSet(q.recs)
      BY <2>2 DEF InFlight
    <3>2. \E o \in posts' : r \in ToSet(o.recs)
      BY <1>1, <1>3, <3>1
    <3>3. QED BY <3>2 DEF InFlight
  <2>3. QED BY <2>1, <2>2
<1>9. TypeOK'
  <2>1. posts' \subseteq Requests
    BY <1>3, <1>7 DEF IInv, TypeOK
  <2>2. QED BY <1>1, <1>4, <2>1 DEF IInv, TypeOK
<1>10. ToSet(p.recs) \subseteq 1..Taken /\ ToSet(p.recs) \intersect Stored = {}
       /\ Increasing(p.recs)
  BY <1>1 DEF IInv, QueueIsNewest, OnePlace
<1>11. QueueIsNewest'
  <2>1. Taken' = Taken
    BY <1>1 DEF Taken
  <2>2. \A q \in posts' : ToSet(q.recs) \subseteq 1..Taken
    BY <1>3, <1>7, <1>10 DEF IInv, QueueIsNewest
  <2>3. QED BY <1>1, <1>6, <1>10, <2>1, <2>2 DEF IInv, QueueIsNewest, IsRun
<1>12. Callings'
  <2>1. Callings
    BY DEF IInv
  <2>2. \A q \in posts' : \E o \in posts : q.recs = o.recs /\ q.from = o.from
    BY <1>3, <1>7
  <2>3. \A q \in posts' :
          /\ q.from = "task" => task = "flushing" /\ q.recs = batch
          /\ q.from = "stop" => stopping = "draining"
    BY <2>1, <2>2 DEF Callings
  <2>4. task = "flushing" => \E q \in posts' : q.from = "task"
    BY <1>1, <1>3, <2>1 DEF Callings
  <2>5. \A q, o \in posts' : q.from # "orphan" /\ o.from # "orphan" => q = o
    BY <1>3, <1>7, <2>1 DEF Callings
  <2>6. QED BY <1>1, <2>1, <2>3, <2>4, <2>5 DEF Callings
<1>13. OnePlace'
  <2>1. OnePlace
    BY DEF IInv
  <2>2. /\ Increasing(batch) /\ \A q \in posts' : Increasing(q.recs)
    BY <1>3, <1>7, <1>10, <2>1 DEF OnePlace
  <2>3. task = "waiting" => ToSet(batch) \intersect (InFlight \union Stored') = {}
    <3>1. ToSet(p.recs) \subseteq InFlight
      BY Zenon DEF InFlight
    <3>2. QED BY <1>6, <2>1, <3>1 DEF OnePlace
  <2>4. \A q, o \in posts' : q # o => ToSet(q.recs) \intersect ToSet(o.recs) = {}
    BY <1>3, <1>7, <2>1 DEF OnePlace
  <2>5. ASSUME NEW q \in posts'
        PROVE  IF q.applied THEN ToSet(q.recs) \subseteq Stored'
                            ELSE ToSet(q.recs) \intersect Stored' = {}
    <3>1. CASE q = new
      BY <1>3, <1>6, <3>1
    <3>2. CASE q \in posts /\ q # p
      <4>1. ToSet(q.recs) \intersect ToSet(p.recs) = {}
        BY <2>1, <3>2 DEF OnePlace
      <4>2. IF q.applied THEN ToSet(q.recs) \subseteq Stored
                         ELSE ToSet(q.recs) \intersect Stored = {}
        BY <2>1, <3>2 DEF OnePlace
      <4>3. QED BY <1>6, <4>1, <4>2
    <3>3. QED BY <1>7, <3>1, <3>2
  <2>6. StoredOnce'
    <3> SUFFICES ASSUME NEW i \in 1..Len(stored) + 1, NEW j \in 1..Len(stored) + 1,
                        NEW k \in DOMAIN stored'[i], NEW l \in DOMAIN stored'[j],
                        stored'[i][k] = stored'[j][l]
                 PROVE  i = j /\ k = l
      BY <1>4 DEF StoredOnce
    <3>1. ASSUME NEW x \in 1..Len(stored), NEW m \in DOMAIN stored[x]
          PROVE  stored[x][m] \in Stored
      BY <1>2, InStored
    <3>2. \A m \in DOMAIN p.recs : p.recs[m] \in ToSet(p.recs)
      BY DEF ToSet
    <3>3. CASE i \in 1..Len(stored) /\ j \in 1..Len(stored)
      <4>1. stored'[i] = stored[i] /\ stored'[j] = stored[j]
        BY <1>4, <3>3
      <4>2. /\ k \in DOMAIN stored[i] /\ l \in DOMAIN stored[j]
            /\ stored[i][k] = stored[j][l]
        BY <4>1
      <4>3. i \in DOMAIN stored /\ j \in DOMAIN stored
        BY <1>2, <3>3
      <4>4. QED BY <2>1, <4>2, <4>3, Zenon DEF OnePlace, StoredOnce
    <3>4. CASE i \in 1..Len(stored) /\ j = Len(stored) + 1
      BY <1>4, <1>10, <3>1, <3>2, <3>4
    <3>5. CASE i = Len(stored) + 1 /\ j \in 1..Len(stored)
      BY <1>4, <1>10, <3>1, <3>2, <3>5
    <3>6. CASE i = Len(stored) + 1 /\ j = Len(stored) + 1
      <4>1. /\ k \in 1..Len(p.recs) /\ l \in 1..Len(p.recs)
            /\ p.recs[k] = p.recs[l]
        BY <1>2, <1>4, <3>6
      <4>2. p.recs[k] \in Nat /\ p.recs[l] \in Nat
        BY <1>2, <4>1
      <4>3. k < l \/ l < k \/ k = l
        BY <4>1
      <4>4. QED BY <1>10, <3>6, <4>1, <4>2, <4>3 DEF Increasing
    <3>7. QED BY <1>4, <3>3, <3>4, <3>5, <3>6
  <2>7. QED BY <1>1, <1>8, <2>2, <2>3, <2>4, <2>5, <2>6 DEF OnePlace, Increasing
<1>14. CountedIsStored'
  <2>1. /\ IsFiniteSet(Stored) /\ Cardinality(Stored) \in Nat
        /\ IsFiniteSet(ToSet(p.recs)) /\ Cardinality(ToSet(p.recs)) = Len(p.recs)
    BY <1>2, <1>10, StoredIsFinite, IncreasingIsCounted
  <2>2. Stored \intersect ToSet(p.recs) = {}
    BY <1>10
  <2>3. Cardinality(Stored') = Cardinality(Stored) + Len(p.recs)
    <3>1. Cardinality(Stored \union ToSet(p.recs))
            = Cardinality(Stored) + Cardinality(ToSet(p.recs))
                - Cardinality(Stored \intersect ToSet(p.recs))
      BY <2>1, FS_Union
    <3>2. Cardinality(Stored \intersect ToSet(p.recs)) = 0
      BY <2>2, FS_EmptySet
    <3>3. Len(p.recs) \in Nat
      BY <1>2
    <3>4. QED BY <1>6, <2>1, <3>1, <3>2, <3>3
  <2>4. /\ inserted \in Nat /\ Len(p.recs) \in Nat
        /\ inserted <= Cardinality(Stored)
    BY <1>2 DEF IInv, TypeOK, CountedIsStored
  <2>5. inserted <= Cardinality(Stored')
    BY <2>1, <2>3, <2>4
  <2>6. ASSUME NEW q \in posts', Accepted(q)
        PROVE  inserted + Len(q.recs) <= Cardinality(Stored')
    <3>1. CASE q = new
      BY <1>3, <2>1, <2>3, <2>4, <3>1
    <3>2. CASE q \in posts /\ q # p
      <4>1. inserted + Len(q.recs) <= Cardinality(Stored) /\ Len(q.recs) \in Nat
        BY <2>6, <3>2 DEF IInv, CountedIsStored, TypeOK, Requests
      <4>2. QED BY <2>1, <2>3, <2>4, <4>1
    <3>3. QED BY <1>7, <3>1, <3>2
  <2>7. inserted' = inserted
    BY <1>1
  <2>8. QED BY <2>5, <2>6, <2>7 DEF CountedIsStored, Accepted
<1>15. NewerToCome'
  <2>1. NewerToCome /\ Callings
    BY DEF IInv
  <2>2. ASSUME NEW r \in Stored, NEW s \in ToSet(p.recs)
        PROVE  r < s \/ s \in gone.givenUp
    BY <1>1, <2>1 DEF NewerToCome
  <2>3. StoredInOrder'
    <3> SUFFICES ASSUME NEW i \in 1..Len(stored) + 1, NEW j \in 1..Len(stored) + 1, i < j,
                        NEW r \in ToSet(stored'[i]), NEW s \in ToSet(stored'[j])
                 PROVE  r < s \/ s \in gone.givenUp
      <4>1. DOMAIN stored' = 1..Len(stored) + 1 /\ gone' = gone
        BY <1>1, <1>4
      <4>2. QED BY <4>1 DEF StoredInOrder
    <3>1. i \in 1..Len(stored) /\ r \in ToSet(stored[i])
      <4>1. i \in 1..Len(stored)
        BY <1>4
      <4>2. stored'[i] = stored[i]
        BY <1>4, <4>1
      <4>3. QED BY <4>1, <4>2
    <3>2. CASE j \in 1..Len(stored)
      <4>1. stored'[j] = stored[j]
        BY <1>4, <3>2
      <4>2. s \in ToSet(stored[j])
        BY <4>1
      <4>3. i \in DOMAIN stored /\ j \in DOMAIN stored
        BY <1>2, <3>1, <3>2
      <4>4. QED BY <2>1, <3>1, <4>2, <4>3 DEF NewerToCome, StoredInOrder
    <3>3. CASE j = Len(stored) + 1
      <4>1. r \in Stored
        BY <1>2, <3>1, InStored
      <4>2. s \in ToSet(p.recs)
        BY <1>4, <3>3
      <4>3. QED BY <2>2, <4>1, <4>2
    <3>4. j \in 1..Len(stored) \/ j = Len(stored) + 1
      <4>1. \A n \in Nat : \A m \in 1..n + 1 : m \in 1..n \/ m = n + 1
        OBVIOUS
      <4>2. Len(stored) \in Nat
        BY <1>4
      <4>3. QED BY <4>1, <4>2
    <3>5. QED BY <3>2, <3>3, <3>4
  <2>4. ToSet(p.recs) \subseteq InFlight
    BY Zenon DEF InFlight
  <2>5. task' = "waiting" => \A r \in Stored' \union InFlight', s \in ToSet(batch') : r < s
    BY <1>1, <1>6, <1>8, <2>1, <2>4 DEF NewerToCome
  <2>6. ASSUME NEW q \in posts', q.from = "orphan", ~q.applied
        PROVE  ToSet(q.recs) \subseteq gone'.givenUp
    BY <1>1, <1>3, <1>7, <2>1, <2>6 DEF NewerToCome
  <2>7. ASSUME NEW q \in posts', q.from # "orphan"
        PROVE  /\ ~q.applied => \A r \in Stored', s \in ToSet(q.recs) : r < s
               /\ \A o \in posts' :
                    o # q => \A r \in ToSet(o.recs), s \in ToSet(q.recs) : r < s
    <3>1. CASE q = new
      <4>1. \A o \in posts' : o # q => o \in posts /\ o # p
        BY <1>7, <3>1
      <4>2. QED BY <1>3, <2>1, <2>7, <3>1, <4>1 DEF NewerToCome
    <3>2. CASE q \in posts /\ q # p
      <4>1. \A r \in ToSet(p.recs), s \in ToSet(q.recs) : r < s
        BY <2>1, <2>7, <3>2 DEF NewerToCome
      <4>2. \A o \in posts' : o # q => \E u \in posts : u # q /\ u.recs = o.recs
        BY <1>3, <1>7, <3>2
      <4>3. \A u \in posts : u # q => \A r \in ToSet(u.recs), s \in ToSet(q.recs) : r < s
        BY <2>1, <2>7, <3>2 DEF NewerToCome
      <4>4. ~q.applied => \A r \in Stored, s \in ToSet(q.recs) : r < s
        BY <2>1, <2>7, <3>2 DEF NewerToCome
      <4>5. QED BY <1>6, <4>1, <4>2, <4>3, <4>4
    <3>3. QED BY <1>7, <3>1, <3>2
  <2>8. QED BY <2>3, <2>5, <2>6, <2>7 DEF NewerToCome
<1>16. EveryRecordSomewhere'
  <2>1. ToSet(p.recs) \subseteq InFlight
    BY Zenon DEF InFlight
  <2>2. 1..received = UNION {ToSet(queue), ToSet(batch), InFlight, Stored,
                             gone.evicted, gone.refused, gone.dropped}
    BY DEF IInv, EveryRecordSomewhere
  <2>3. 1..received = UNION {ToSet(queue), ToSet(batch), InFlight, Stored',
                             gone.evicted, gone.refused, gone.dropped}
    BY <1>6, <2>1, <2>2, Zenon
  <2>4. QED BY <1>1, <1>8, <2>3 DEF EveryRecordSomewhere
<1>17. QED BY <1>9, <1>11, <1>12, <1>13, <1>14, <1>15, <1>16 DEF IInv

\* A request ends, whose caller goes on or is gone: its records are stored, or
\* their loss is noted.
LEMMA RequestEnds ==
  ASSUME IInv, NEW p \in posts, posts' = posts \ {p},
         UNCHANGED <<queue, stored, received>>,
         \/ p.from = "task" /\ task' = "waiting" /\ batch' = <<>>
            /\ UNCHANGED stopping
         \/ p.from = "stop" /\ stopping' = "done" /\ UNCHANGED <<task, batch>>
         \/ p.from = "orphan" /\ UNCHANGED <<stopping, task, batch>>,
         \/ inserted' = inserted
         \/ Accepted(p) /\ inserted' = inserted + Len(p.recs),
         \/ p.applied /\ gone' = gone
         \/ gone' = [gone EXCEPT !.refused = @ \union ToSet(p.recs)]
         \/ gone' = [gone EXCEPT !.dropped = @ \union ToSet(p.recs)]
  PROVE  IInv'
<1>1. /\ p \in Requests /\ p.recs \in Seq(Nat) /\ p.from \in Callers
      /\ posts \subseteq Requests
      /\ gone \in Losses
      /\ inserted \in Nat
  BY DEF IInv, TypeOK, Requests
<1>2. Stored' = Stored /\ InFlight' \union ToSet(p.recs) = InFlight
  <2>1. Stored' = Stored
    BY DEF Stored
  <2>2. InFlight' \union ToSet(p.recs) = InFlight
    BY Zenon DEF InFlight
  <2>3. QED BY <2>1, <2>2
<1>3. ToSet(p.recs) \subseteq Nat
  BY <1>1 DEF ToSet
<1>4. ToSet(<<>>) = {}
  BY DEF ToSet
<1>5. Callings /\ OnePlace /\ NewerToCome /\ CountedIsStored /\ QueueIsNewest
  BY DEF IInv
<1>6. batch' \in {batch, <<>>}
  BY <1>1
<1>7. TypeOK'
  <2>1. gone' \in Losses
    BY <1>1, <1>3 DEF Losses
  <2>2. inserted' \in Nat
    BY <1>1
  <2>3. /\ batch' \in Seq(Nat) /\ task' \in {"waiting", "flushing", "ended"}
        /\ stopping' \in {"no", "cancelled", "draining", "done"}
    <3>1. /\ batch \in Seq(Nat) /\ task \in {"waiting", "flushing", "ended"}
          /\ stopping \in {"no", "cancelled", "draining", "done"}
      BY DEF IInv, TypeOK
    <3>2. batch' \in Seq(Nat)
      <4>1. <<>> \in Seq(Nat)
        OBVIOUS
      <4>2. QED BY <1>6, <3>1, <4>1, Zenon
    <3>3. task' \in {task, "waiting"} /\ stopping' \in {stopping, "done"}
      OBVIOUS
    <3>4. QED BY <3>1, <3>2, <3>3
  <2>4. posts' \subseteq Requests
    BY <1>1
  <2>5. QED BY <2>1, <2>2, <2>3, <2>4 DEF IInv, TypeOK
<1>8. QueueIsNewest'
  <2>1. Taken' = Taken
    BY DEF Taken
  <2>2. ToSet(batch') \subseteq ToSet(batch)
    BY <1>4, <1>6
  <2>3. QED BY <1>2, <1>5, <2>1, <2>2 DEF QueueIsNewest, IsRun
<1>9. /\ p.from = "orphan" \/ \A q \in posts' : q.from = "orphan"
      /\ p.from = "task" => task = "flushing" /\ stopping = "no" /\ p.recs = batch
      /\ p.from = "stop" => stopping = "draining" /\ task = "ended"
  BY <1>5 DEF Callings
<1>10. Callings'
  <2>1. CASE p.from = "task"
    BY <1>5, <1>9, <2>1 DEF Callings
  <2>2. CASE p.from = "stop"
    BY <1>5, <1>9, <2>2 DEF Callings
  <2>3. CASE p.from = "orphan"
    BY <1>5, <1>9, <2>3 DEF Callings
  <2>4. QED BY <1>1, <2>1, <2>2, <2>3 DEF Callers
<1>11. OnePlace'
  <2>1. StoredOnce'
    BY <1>5 DEF OnePlace, StoredOnce
  <2>2. Increasing(batch')
    BY <1>5, <1>6 DEF OnePlace, Increasing
  <2>3. task' = "waiting" => ToSet(batch') \intersect (InFlight' \union Stored') = {}
    <3>1. CASE p.from = "task"
      BY <1>4, <3>1
    <3>2. CASE p.from # "task"
      BY <1>2, <1>5, <3>2 DEF OnePlace
    <3>3. QED BY <3>1, <3>2
  <2>4. QED BY <1>2, <1>5, <2>1, <2>2, <2>3 DEF OnePlace, Increasing
<1>12. CountedIsStored'
  <2>1. inserted' <= Cardinality(Stored)
    BY <1>5 DEF CountedIsStored
  <2>2. ASSUME NEW q \in posts', Accepted(q)
        PROVE  inserted' + Len(q.recs) <= Cardinality(Stored)
    <3>1. p.from = "orphan" /\ inserted' = inserted
      BY <1>9, <2>2 DEF Accepted
    <3>2. QED BY <1>5, <2>2, <3>1 DEF CountedIsStored
  <2>3. QED BY <1>2, <2>1, <2>2 DEF CountedIsStored, Accepted
<1>13. NewerToCome'
  <2>1. gone'.givenUp = gone.givenUp
    BY <1>1 DEF Losses
  <2>2. StoredInOrder'
    BY <1>5, <2>1 DEF NewerToCome, StoredInOrder
  <2>3. task' = "waiting" => \A r \in Stored' \union InFlight', s \in ToSet(batch') : r < s
    <3>1. CASE p.from = "task"
      BY <1>4, <3>1
    <3>2. CASE p.from # "task"
      BY <1>2, <1>5, <3>2 DEF NewerToCome
    <3>3. QED BY <3>1, <3>2
  <2>4. posts' \subseteq posts
    OBVIOUS
  <2>5. QED BY <1>2, <1>5, <2>1, <2>2, <2>3, <2>4 DEF NewerToCome
<1>14. EveryRecordSomewhere'
  <2>1. 1..received = UNION {ToSet(queue), ToSet(batch), InFlight, Stored,
                             gone.evicted, gone.refused, gone.dropped}
    BY DEF IInv, EveryRecordSomewhere
  <2>2. ToSet(batch') \union ToSet(p.recs) = ToSet(batch) \union ToSet(p.recs)
    BY <1>4, <1>9
  <2>3. ToSet(p.recs) \subseteq Stored \union gone'.refused \union gone'.dropped
    <3>1. p.applied => ToSet(p.recs) \subseteq Stored
      BY <1>5 DEF OnePlace
    <3>2. QED BY <1>1, <3>1 DEF Losses
  <2>4. /\ gone'.evicted = gone.evicted
        /\ UNION {gone'.refused, gone'.dropped, ToSet(p.recs)}
             = UNION {gone.refused, gone.dropped, ToSet(p.recs)}
    <3>1. CASE gone' = gone
      BY <3>1
    <3>2. CASE gone' = [gone EXCEPT !.refused = @ \union ToSet(p.recs)]
      <4>1. /\ gone'.evicted = gone.evicted /\ gone'.dropped = gone.dropped
            /\ gone'.refused = gone.refused \union ToSet(p.recs)
        BY <1>1, <3>2 DEF Losses
      <4>2. QED BY <4>1
    <3>3. CASE gone' = [gone EXCEPT !.dropped = @ \union ToSet(p.recs)]
      <4>1. /\ gone'.evicted = gone.evicted /\ gone'.refused = gone.refused
            /\ gone'.dropped = gone.dropped \union ToSet(p.recs)
        BY <1>1, <3>3 DEF Losses
      <4>2. QED BY <4>1
    <3>4. QED BY <3>1, <3>2, <3>3
  <2>5. 1..received = UNION {ToSet(queue), ToSet(batch'), InFlight', Stored,
                             gone'.evicted, gone'.refused, gone'.dropped}
    BY <1>2, <2>1, <2>2, <2>3, <2>4, SMT
  <2>6. QED BY <1>2, <2>5 DEF EveryRecordSomewhere
<1>15. QED BY <1>7, <1>8, <1>10, <1>11, <1>12, <1>13, <1>14 DEF IInv

\* A caller gives its request up before it was applied.
LEMMA GivesUpInv ==
  ASSUME IInv, NEW p \in posts, ~p.applied, p.from # "orphan",
         posts' = (posts \ {p}) \union {[p EXCEPT !.from = "orphan"]},
         UNCHANGED <<queue, stored, received, inserted>>,
         \/ p.from = "task" /\ task' = "waiting" /\ batch' = <<>>
            /\ UNCHANGED stopping
         \/ p.from = "stop" /\ stopping' = "done" /\ UNCHANGED <<task, batch>>,
         gone' = [gone EXCEPT !.givenUp = @ \union ToSet(p.recs)]
  PROVE  IInv'
<1> DEFINE new == [p EXCEPT !.from = "orphan"]
<1>1. /\ p \in Requests /\ p.recs \in Seq(Nat) /\ p.from \in Callers
      /\ posts \subseteq Requests /\ gone \in Losses
  BY DEF IInv, TypeOK, Requests
<1>2. /\ new \in Requests /\ new.recs = p.recs /\ new.from = "orphan"
      /\ new.applied = FALSE /\ posts' = (posts \ {p}) \union {new}
  BY <1>1 DEF Requests, Callers
<1> HIDE DEF new
<1>3. Callings /\ OnePlace /\ NewerToCome /\ CountedIsStored /\ QueueIsNewest
  BY DEF IInv
<1>4. \A q \in posts' : q.from = "orphan" /\ (q = new \/ (q \in posts /\ q # p))
  BY <1>2, <1>3 DEF Callings
<1>5. Stored' = Stored
  BY DEF Stored
<1>6. InFlight' = InFlight
  <2>1. ASSUME NEW r, r \in InFlight' PROVE r \in InFlight
    <3>1. PICK q \in posts' : r \in ToSet(q.recs)
      BY <2>1 DEF InFlight
    <3>2. QED BY <1>2, <1>4, <3>1 DEF InFlight
  <2>2. ASSUME NEW r, r \in InFlight PROVE r \in InFlight'
    <3>1. PICK q \in posts : r \in ToSet(q.recs)
      BY <2>2 DEF InFlight
    <3>2. \E o \in posts' : r \in ToSet(o.recs)
      BY <1>2, <3>1
    <3>3. QED BY <3>2 DEF InFlight
  <2>3. QED BY <2>1, <2>2
<1>7. ToSet(<<>>) = {} /\ <<>> \in Seq(Nat) /\ Increasing(<<>>)
  BY DEF ToSet, Increasing
<1>8. /\ gone'.evicted = gone.evicted /\ gone'.refused = gone.refused
      /\ gone'.dropped = gone.dropped
      /\ gone'.givenUp = gone.givenUp \union ToSet(p.recs)
  BY <1>1 DEF Losses
<1>9. ToSet(batch') \subseteq ToSet(batch) /\ batch' \in Seq(Nat)
  BY <1>7, Zenon DEF IInv, TypeOK
<1>10. TypeOK'
  <2>1. ToSet(p.recs) \subseteq Nat
    BY <1>1 DEF ToSet
  <2>2. gone' \in Losses
    BY <1>1, <2>1 DEF Losses
  <2>3. posts' \subseteq Requests
    BY <1>1, <1>2
  <2>4. /\ task' \in {"waiting", "flushing", "ended"}
        /\ stopping' \in {"no", "cancelled", "draining", "done"}
    BY DEF IInv, TypeOK
  <2>5. QED BY <1>9, <2>2, <2>3, <2>4 DEF IInv, TypeOK
<1>11. QueueIsNewest'
  <2>1. Taken' = Taken
    BY DEF Taken
  <2>2. \A q \in posts' : ToSet(q.recs) \subseteq 1..Taken
    BY <1>2, <1>3, <1>4 DEF QueueIsNewest
  <2>3. QED BY <1>3, <1>5, <1>9, <2>1, <2>2 DEF QueueIsNewest, IsRun
<1>12. /\ p.from = "task" => task = "flushing" /\ stopping = "no" /\ p.recs = batch
       /\ p.from = "stop" => stopping = "draining" /\ task = "ended" /\ batch = <<>>
  BY <1>3 DEF Callings
<1>13. \/ task' = "waiting" /\ batch' = <<>> /\ stopping' = "no" /\ stopping = "no"
          /\ batch = p.recs
       \/ task' = "ended" /\ batch' = <<>> /\ stopping' = "done" /\ batch = <<>>
  BY <1>1, <1>12 DEF Callers
<1>14. Callings'
  BY <1>4, <1>13 DEF Callings
<1>15. OnePlace'
  <2>1. StoredOnce'
    BY <1>3 DEF OnePlace, StoredOnce
  <2>2. Increasing(batch') /\ \A q \in posts' : Increasing(q.recs)
    BY <1>2, <1>3, <1>4, <1>7, <1>13 DEF OnePlace
  <2>3. ToSet(batch') = {}
    BY <1>7, <1>13
  <2>4. \A q, o \in posts' : q # o => ToSet(q.recs) \intersect ToSet(o.recs) = {}
    BY <1>2, <1>3, <1>4 DEF OnePlace
  <2>5. \A q \in posts' : IF q.applied THEN ToSet(q.recs) \subseteq Stored
                          ELSE ToSet(q.recs) \intersect Stored = {}
    BY <1>2, <1>3, <1>4 DEF OnePlace
  <2>6. QED BY <1>5, <2>1, <2>2, <2>3, <2>4, <2>5 DEF OnePlace, Increasing
<1>16. CountedIsStored'
  BY <1>3, <1>4, <1>5 DEF CountedIsStored, Accepted
<1>17. NewerToCome'
  <2>1. StoredInOrder'
    BY <1>3, <1>8 DEF NewerToCome, StoredInOrder
  <2>2. ToSet(batch') = {}
    BY <1>7, <1>13
  <2>3. ASSUME NEW q \in posts', ~q.applied
        PROVE  ToSet(q.recs) \subseteq gone'.givenUp
    <3>1. CASE q = new
      BY <1>2, <1>8, <3>1
    <3>2. CASE q \in posts
      BY <1>3, <1>4, <1>8, <2>3, <3>2 DEF NewerToCome
    <3>3. QED BY <1>4, <3>1, <3>2
  <2>4. QED BY <1>4, <2>1, <2>2, <2>3 DEF NewerToCome
<1>18. EveryRecordSomewhere'
  <2>1. 1..received = UNION {ToSet(queue), ToSet(batch), InFlight, Stored,
                             gone.evicted, gone.refused, gone.dropped}
    BY DEF IInv, EveryRecordSomewhere
  <2>2. ToSet(p.recs) \subseteq InFlight
    BY Zenon DEF InFlight
  <2>3. ToSet(batch') \union InFlight = ToSet(batch) \union InFlight
    BY <1>7, <1>13, <2>2
  <2>4. 1..received = UNION {ToSet(queue), ToSet(batch'), InFlight, Stored,
                             gone.evicted, gone.refused, gone.dropped}
    BY <2>1, <2>3, Zenon
  <2>5. QED BY <1>5, <1>6, <1>8, <2>4 DEF EveryRecordSomewhere
<1>19. QED BY <1>10, <1>11, <1>14, <1>15, <1>16, <1>17, <1>18 DEF IInv

LEMMA AnswersInv ==
  ASSUME IInv, NEW p \in posts,
         AnswerOk(p) \/ AnswerRefused(p) \/ NoAnswer(p) \/ OrphanEnds(p)
  PROVE  IInv'
<1>1. CASE NoAnswer(p) /\ ~p.applied
  <2>1. /\ posts' = (posts \ {p}) \union {[p EXCEPT !.from = "orphan"]}
        /\ p.from # "orphan"
        /\ UNCHANGED <<queue, stored, received, inserted>>
        /\ gone' = [gone EXCEPT !.givenUp = @ \union ToSet(p.recs)]
    BY <1>1 DEF NoAnswer, Resume
  <2>2. \/ p.from = "task" /\ task' = "waiting" /\ batch' = <<>>
           /\ UNCHANGED stopping
        \/ p.from = "stop" /\ stopping' = "done" /\ UNCHANGED <<task, batch>>
    BY <1>1 DEF NoAnswer, Resume, BatchAfterFlush
  <2>3. QED BY <1>1, <2>1, <2>2, GivesUpInv
<1>2. CASE \/ AnswerOk(p) \/ AnswerRefused(p) \/ OrphanEnds(p)
           \/ NoAnswer(p) /\ p.applied
  <2>1. /\ posts' = posts \ {p} /\ UNCHANGED <<queue, stored, received>>
    BY <1>2 DEF AnswerOk, AnswerRefused, NoAnswer, OrphanEnds, Resume
  <2>2. \/ p.from = "task" /\ task' = "waiting" /\ batch' = <<>>
           /\ UNCHANGED stopping
        \/ p.from = "stop" /\ stopping' = "done" /\ UNCHANGED <<task, batch>>
        \/ p.from = "orphan" /\ UNCHANGED <<stopping, task, batch>>
    BY <1>2 DEF AnswerOk, AnswerRefused, NoAnswer, OrphanEnds, Resume, BatchAfterFlush
  <2>3. \/ inserted' = inserted
        \/ Accepted(p) /\ inserted' = inserted + Len(p.recs)
    BY <1>2 DEF AnswerOk, AnswerRefused, NoAnswer, OrphanEnds, counters
  <2>4. \/ p.applied /\ gone' = gone
        \/ gone' = [gone EXCEPT !.refused = @ \union ToSet(p.recs)]
        \/ gone' = [gone EXCEPT !.dropped = @ \union ToSet(p.recs)]
    BY <1>2 DEF AnswerOk, AnswerRefused, NoAnswer, OrphanEnds, Accepted
  <2>5. QED BY <2>1, <2>2, <2>3, <2>4, RequestEnds
<1>3. QED BY <1>1, <1>2

\* stop() cancels the task: its request, if it has one, is nobody's.
LEMMA StopCancelInv ==
  ASSUME IInv, StopCancel
  PROVE  IInv'
<1> DEFINE Orphan(p) == [p EXCEPT !.from = "orphan"]
<1>1. /\ stopping = "no" /\ stopping' = "cancelled" /\ task' = "ended"
      /\ batch' = <<>> /\ posts' = {Orphan(p) : p \in posts}
      /\ gone' = IF task = "flushing"
                 THEN [gone EXCEPT !.givenUp = @ \union Unapplied]
                 ELSE [gone EXCEPT !.dropped = @ \union ToSet(batch)]
      /\ UNCHANGED <<queue, stored, received, inserted>>
  BY DEF StopCancel, counters
<1>2. /\ posts \subseteq Requests /\ batch \in Seq(Nat)
      /\ gone \in Losses
  BY DEF IInv, TypeOK
<1>3. \A p \in posts : /\ Orphan(p) \in Requests /\ Orphan(p).recs = p.recs
                       /\ Orphan(p).from = "orphan"
                       /\ Orphan(p).applied = p.applied
  BY <1>2 DEF Requests, Callers
<1> HIDE DEF Orphan
<1>4. \A q \in posts' : \E p \in posts :
        /\ q = Orphan(p) /\ q \in Requests /\ q.recs = p.recs
        /\ q.from = "orphan" /\ q.applied = p.applied
  BY <1>1, <1>3
<1>5. Stored' = Stored
  BY <1>1 DEF Stored
<1>6. InFlight' = InFlight
  <2>1. ASSUME NEW r, r \in InFlight' PROVE r \in InFlight
    <3>1. PICK q \in posts' : r \in ToSet(q.recs)
      BY <2>1 DEF InFlight
    <3>2. QED BY <1>4, <3>1 DEF InFlight
  <2>2. ASSUME NEW r, r \in InFlight PROVE r \in InFlight'
    <3>1. PICK p \in posts : r \in ToSet(p.recs)
      BY <2>2 DEF InFlight
    <3>2. Orphan(p) \in posts' /\ r \in ToSet(Orphan(p).recs)
      BY <1>1, <1>3, <3>1
    <3>3. QED BY <3>2, Zenon DEF InFlight
  <2>3. QED BY <2>1, <2>2
<1>7. ToSet(<<>>) = {} /\ <<>> \in Seq(Nat)
  BY DEF ToSet
<1>8. Callings /\ OnePlace /\ NewerToCome /\ CountedIsStored /\ QueueIsNewest
  BY DEF IInv
<1>9. TypeOK'
  <2>1. ToSet(batch) \subseteq Nat
    BY <1>2 DEF ToSet
  <2>2. Unapplied \subseteq Nat
    <3>1. \A p \in posts : ToSet(p.recs) \subseteq Nat
      BY <1>2 DEF Requests, ToSet
    <3>2. QED BY <3>1, Zenon DEF Unapplied
  <2>6. gone' \in Losses
    BY <1>1, <1>2, <2>1, <2>2 DEF Losses
  <2>3. posts' \subseteq Requests
    BY <1>4
  <2>4. batch' \in Seq(Nat)
    BY <1>1, <1>7
  <2>5. QED BY <1>1, <2>6, <2>3, <2>4 DEF IInv, TypeOK
<1>10. QueueIsNewest'
  <2>1. Taken' = Taken
    BY <1>1 DEF Taken
  <2>2. \A q \in posts' : ToSet(q.recs) \subseteq 1..Taken
    BY <1>4, <1>8 DEF QueueIsNewest
  <2>3. ToSet(batch') \subseteq 1..Taken
    BY <1>1, <1>7
  <2>4. QED BY <1>1, <1>5, <1>8, <2>1, <2>2, <2>3 DEF QueueIsNewest, IsRun
<1>11. Callings'
  BY <1>1, <1>4 DEF Callings
<1>12. OnePlace'
  <2>1. StoredOnce'
    BY <1>1, <1>8 DEF OnePlace, StoredOnce
  <2>2. Increasing(batch') /\ \A q \in posts' : Increasing(q.recs)
    <3>1. Increasing(<<>>)
      BY DEF Increasing
    <3>2. QED BY <1>1, <1>4, <1>8, <3>1 DEF OnePlace
  <2>3. \A q, o \in posts' : q # o => ToSet(q.recs) \intersect ToSet(o.recs) = {}
    BY <1>4, <1>8 DEF OnePlace
  <2>4. \A q \in posts' : IF q.applied THEN ToSet(q.recs) \subseteq Stored
                          ELSE ToSet(q.recs) \intersect Stored = {}
    BY <1>4, <1>8 DEF OnePlace
  <2>5. QED BY <1>1, <1>5, <2>1, <2>2, <2>3, <2>4 DEF OnePlace, Increasing
<1>13. CountedIsStored'
  BY <1>1, <1>4, <1>5, <1>8 DEF CountedIsStored, Accepted
<1>14. NewerToCome'
  <2>1. /\ gone.givenUp \subseteq gone'.givenUp
        /\ task = "flushing" => Unapplied \subseteq gone'.givenUp
    BY <1>1, <1>2 DEF Losses
  <2>2. StoredInOrder'
    BY <1>1, <1>8, <2>1 DEF NewerToCome, StoredInOrder
  <2>3. ASSUME NEW p \in posts, ~p.applied
        PROVE  ToSet(p.recs) \subseteq gone'.givenUp
    <3>1. CASE p.from = "orphan"
      BY <1>8, <2>1, <2>3, <3>1 DEF NewerToCome
    <3>2. CASE p.from # "orphan"
      <4>1. p.from \in Callers
        BY <1>2 DEF Requests
      <4>2. task = "flushing"
        BY <1>1, <1>8, <3>2, <4>1 DEF Callings, Callers
      <4>3. ToSet(p.recs) \subseteq Unapplied
        BY <2>3, Zenon DEF Unapplied
      <4>4. QED BY <2>1, <4>2, <4>3
    <3>3. QED BY <3>1, <3>2
  <2>4. \A q \in posts' : q.from = "orphan" /\ (~q.applied => ToSet(q.recs) \subseteq gone'.givenUp)
    BY <1>4, <2>3
  <2>5. QED BY <1>1, <2>2, <2>4 DEF NewerToCome
<1>15. EveryRecordSomewhere'
  <2>1. 1..received = UNION {ToSet(queue), ToSet(batch), InFlight, Stored,
                             gone.evicted, gone.refused, gone.dropped}
    BY DEF IInv, EveryRecordSomewhere
  <2>2. CASE task = "flushing"
    <3>1. PICK p \in posts : p.from = "task"
      BY <1>8, <2>2 DEF Callings
    <3>2. p.recs = batch
      BY <1>8, <3>1 DEF Callings
    <3>3. ToSet(batch) \subseteq InFlight
      BY <3>2, Zenon DEF InFlight
    <3>4. /\ gone'.evicted = gone.evicted /\ gone'.refused = gone.refused
          /\ gone'.dropped = gone.dropped
      BY <1>1, <1>2, <2>2 DEF Losses
    <3>5. 1..received = UNION {ToSet(queue), {}, InFlight, Stored,
                               gone.evicted, gone.refused, gone.dropped}
      BY <2>1, <3>3, SMT
    <3>6. QED BY <1>1, <1>5, <1>6, <1>7, <3>4, <3>5 DEF EveryRecordSomewhere
  <2>3. CASE task # "flushing"
    <3>1. /\ gone'.evicted = gone.evicted /\ gone'.refused = gone.refused
          /\ gone'.dropped = gone.dropped \union ToSet(batch)
      BY <1>1, <1>2, <2>3 DEF Losses
    <3>2. 1..received = UNION {ToSet(queue), {}, InFlight, Stored,
                               gone'.evicted, gone'.refused, gone'.dropped}
      BY <2>1, <3>1, SMT
    <3>3. QED BY <1>1, <1>5, <1>6, <1>7, <3>2 DEF EveryRecordSomewhere
  <2>4. QED BY <2>2, <2>3
<1>16. QED BY <1>9, <1>10, <1>11, <1>12, <1>13, <1>14, <1>15 DEF IInv

\* stop() posts what the queue holds.
LEMMA StopDrainInv ==
  ASSUME IInv, StopDrain
  PROVE  IInv'
<1>1. /\ stopping = "cancelled"
      /\ UNCHANGED <<task, batch, stored, received, inserted, gone>>
  BY DEF StopDrain, counters
<1>2. Callings /\ OnePlace /\ NewerToCome /\ CountedIsStored /\ QueueIsNewest
  BY DEF IInv
<1>3. Stored' = Stored /\ StoredOnce'
  BY <1>1, <1>2 DEF Stored, OnePlace, StoredOnce
<1>4. batch = <<>> /\ task = "ended" /\ \A p \in posts : p.from = "orphan"
  BY <1>1, <1>2 DEF Callings, IInv, TypeOK, Requests, Callers
<1>5. CASE queue = <<>>
  <2>1. stopping' = "done" /\ UNCHANGED <<queue, posts>>
    BY <1>5 DEF StopDrain
  <2>2. InFlight' = InFlight
    BY <2>1 DEF InFlight
  <2>3. TypeOK' /\ QueueIsNewest'
    BY <1>1, <1>3, <2>1 DEF IInv, TypeOK, QueueIsNewest, IsRun, Taken
  <2>4. Callings'
    BY <1>1, <1>2, <1>4, <2>1 DEF Callings
  <2>5. OnePlace'
    BY <1>1, <1>2, <1>3, <2>1, <2>2 DEF OnePlace, Increasing
  <2>6. CountedIsStored' /\ NewerToCome'
    BY <1>1, <1>2, <1>3, <2>1, <2>2, NewerStays DEF CountedIsStored, Accepted
  <2>7. EveryRecordSomewhere'
    BY <1>1, <1>3, <2>1, <2>2 DEF IInv, EveryRecordSomewhere
  <2>8. QED BY <2>3, <2>4, <2>5, <2>6, <2>7 DEF IInv
<1>6. CASE queue # <<>>
  <2> DEFINE new == Post(queue, "stop")
  <2>1. /\ stopping' = "draining" /\ queue' = <<>>
        /\ posts' = posts \union {new}
    BY <1>6 DEF StopDrain
  <2>2. queue \in Seq(Nat) /\ received \in Nat /\ Len(queue) <= received
    BY <1>2 DEF IInv, TypeOK, QueueIsNewest
  <2>3. /\ new \in Requests /\ new.recs = queue /\ new.from = "stop"
        /\ new.applied = FALSE
    BY <2>2, PostIs DEF Callers
  <2> HIDE DEF new
  <2>4. InFlight' = InFlight \union ToSet(queue)
    <3>1. ASSUME NEW r, r \in InFlight' PROVE r \in InFlight \union ToSet(queue)
      <4>1. PICK q \in posts' : r \in ToSet(q.recs)
        BY <3>1 DEF InFlight
      <4>2. QED BY <2>1, <2>3, <4>1 DEF InFlight
    <3>2. ASSUME NEW r, r \in InFlight PROVE r \in InFlight'
      <4>1. PICK q \in posts : r \in ToSet(q.recs)
        BY <3>2 DEF InFlight
      <4>2. QED BY <2>1, <4>1 DEF InFlight
    <3>3. ToSet(queue) \subseteq InFlight'
      <4>1. new \in posts'
        BY <2>1
      <4>2. QED BY <2>3, <4>1, Zenon DEF InFlight
    <3>4. QED BY <3>1, <3>2, <3>3
  <2>5. /\ Increasing(queue)
        /\ ToSet(queue) = (received - Len(queue) + 1) .. received
    BY <1>2, <2>2, RunIsIncreasing DEF QueueIsNewest
  <2>6. ToSet(queue) \intersect (ToSet(batch) \union InFlight \union Stored) = {}
    BY QueueApart
  <2>7. ToSet(<<>>) = {} /\ <<>> \in Seq(Nat) /\ Len(<<>>) = 0
    BY DEF ToSet
  <2>8. TypeOK'
    BY <1>1, <2>1, <2>3, <2>7 DEF IInv, TypeOK
  <2>9. QueueIsNewest'
    <3>1. Taken \in Int /\ Taken <= received /\ Taken' = received
      BY <1>1, <2>1, <2>2, <2>7 DEF Taken
    <3>2. 1..Taken \subseteq 1..received /\ ToSet(queue) \subseteq 1..received
      BY <2>2, <2>5, <3>1
    <3>3. \A p \in posts' : ToSet(p.recs) \subseteq 1..received
      BY <1>2, <2>1, <2>3, <3>2 DEF QueueIsNewest
    <3>4. ToSet(batch') \subseteq 1..received /\ Stored' \subseteq 1..received
      BY <1>1, <1>2, <1>3, <3>2 DEF QueueIsNewest
    <3>5. Len(queue') <= received' /\ IsRun(queue', received')
      BY <1>1, <2>1, <2>2, <2>7 DEF IsRun
    <3>6. QED BY <3>1, <3>3, <3>4, <3>5 DEF QueueIsNewest, IsRun
  <2>10. Callings'
    <3>1. \A p \in posts' : p = new \/ p.from = "orphan"
      BY <1>4, <2>1
    <3>2. QED BY <1>1, <1>4, <2>1, <2>3, <3>1 DEF Callings
  <2>11. OnePlace'
    <3>1. Increasing(batch') /\ \A p \in posts' : Increasing(p.recs)
      BY <1>1, <1>2, <2>1, <2>3, <2>5 DEF OnePlace
    <3>2. \A p \in posts : ToSet(p.recs) \subseteq InFlight
      BY Zenon DEF InFlight
    <3>3. \A p \in posts : ToSet(p.recs) \intersect ToSet(queue) = {}
      BY <2>6, <3>2
    <3>4. \A p, q \in posts' : p # q => ToSet(p.recs) \intersect ToSet(q.recs) = {}
      BY <1>2, <2>1, <2>3, <3>3 DEF OnePlace
    <3>5. \A p \in posts' : IF p.applied THEN ToSet(p.recs) \subseteq Stored'
                            ELSE ToSet(p.recs) \intersect Stored' = {}
      BY <1>2, <1>3, <2>1, <2>3, <2>6 DEF OnePlace
    <3>6. task' # "waiting"
      BY <1>1, <1>4
    <3>7. QED BY <1>3, <3>1, <3>4, <3>5, <3>6 DEF OnePlace, Increasing
  <2>12. CountedIsStored'
    BY <1>1, <1>2, <1>3, <2>1, <2>3 DEF CountedIsStored, Accepted
  <2>13. NewerToCome'
    <3>1. StoredInOrder'
      BY <1>1, <1>2 DEF NewerToCome, StoredInOrder
    <3>2. \A p \in posts' : p = new \/ (p \in posts /\ p.from = "orphan")
      BY <1>4, <2>1
    <3>3. \A s \in ToSet(queue) : s \in Nat /\ s > Taken /\ Taken \in Int
      BY <2>2, <2>5 DEF Taken
    <3>4. \A r \in Stored, s \in ToSet(queue) : r < s
      BY <1>2, <3>3 DEF QueueIsNewest
    <3>5. \A p \in posts : \A r \in ToSet(p.recs), s \in ToSet(queue) : r < s
      BY <1>2, <3>3 DEF QueueIsNewest
    <3>6. \A p \in posts : ~p.applied => ToSet(p.recs) \subseteq gone'.givenUp
      BY <1>1, <1>2, <1>4 DEF NewerToCome
    <3>7. QED BY <1>1, <1>3, <1>4, <2>3, <3>1, <3>2, <3>4, <3>5, <3>6 DEF NewerToCome
  <2>14. EveryRecordSomewhere'
    <3>1. 1..received = UNION {ToSet(queue), ToSet(batch), InFlight, Stored,
                               gone.evicted, gone.refused, gone.dropped}
      BY DEF IInv, EveryRecordSomewhere
    <3>2. 1..received = UNION {{}, ToSet(batch), InFlight', Stored',
                               gone.evicted, gone.refused, gone.dropped}
      BY <1>3, <2>4, <3>1, SMT
    <3>3. QED BY <1>1, <2>1, <2>7, <3>2 DEF EveryRecordSomewhere
  <2>15. QED BY <2>8, <2>9, <2>10, <2>11, <2>12, <2>13, <2>14 DEF IInv
<1>7. QED BY <1>5, <1>6
-----------------------------------------------------------------------------
LEMMA StepInv == IInv /\ [Next]_vars => IInv'
<1> SUFFICES ASSUME IInv, [Next]_vars PROVE IInv'
  OBVIOUS
<1>1. CASE \E n \in 1..MaxArrivals : Enqueue(n)
  BY <1>1, EnqueueInv
<1>2. CASE Tick
  BY <1>2, FrameInv DEF Tick, counters
<1>3. CASE TakeRecord
  BY <1>3, TakeRecordInv
<1>4. CASE WaitTimesOut
  BY <1>4, WaitTimesOutInv
<1>5. CASE StopCancel
  BY <1>5, StopCancelInv
<1>6. CASE StopDrain
  BY <1>6, StopDrainInv
<1>7. CASE \E p \in posts : Apply(p)
  BY <1>7, ApplyInv
<1>8. CASE \E p \in posts : \/ AnswerOk(p) \/ AnswerRefused(p) \/ NoAnswer(p)
                            \/ OrphanEnds(p)
  BY <1>8, AnswersInv
<1>9. CASE UNCHANGED vars
  BY <1>9, FrameInv DEF vars
<1>10. QED BY <1>1, <1>2, <1>3, <1>4, <1>5, <1>6, <1>7, <1>8, <1>9 DEF Next

\* The invariant holds of every behaviour of the flusher (storage.py 67-206).
THEOREM FlusherInvariant == Spec => []IInv
<1>1. QED BY InitInv, StepInv, PTL DEF Spec

\* No flow vanishes and none is stored twice: what was received is in the queue,
\* in the task's batch, in a request, in ClickHouse or noted as lost, and
\* total_flows_inserted counts no row that ClickHouse does not hold (storage.py
\* 91-148, 190-192), for every size of queue and batch.
THEOREM NothingVanishesAlways == Spec => []NothingVanishes
<1>1. IInv => NothingVanishes
  BY QueueApart DEF IInv, OnePlace, CountedIsStored, NothingVanishes
<1>2. QED BY <1>1, FlusherInvariant, PTL

\* Batches reach ClickHouse in the order of their records (storage.py 106-129),
\* also those of stop() (67-77), and only a batch whose caller gave it up before
\* ClickHouse had applied it, at the timeout of its request or in stop(), may come
\* after a newer one (181-203).
THEOREM StoredInOrderAlways == Spec => []StoredInOrder
<1>1. IInv => StoredInOrder
  BY DEF IInv, NewerToCome
<1>2. QED BY <1>1, FlusherInvariant, PTL
=============================================================================
