------------------------- MODULE WirePipelineProofs -------------------------
(***************************************************************************)
(* Proofs about the wire-speed pipeline: the two directions of a           *)
(* conversation reach one worker, and no datagram and no alert is lost     *)
(* uncounted, for every number of workers, every capacity and any          *)
(* datagrams.                                                              *)
(*                                                                         *)
(* The inductive invariant has three parts.  Shape says what each phase of *)
(* the parent says of the rings and of the worker processes.  Routing says *)
(* that what is in a ring, in a worker's batch or in its engine was routed *)
(* to that worker.  Accounting is itself inductive, given Shape.           *)
(***************************************************************************)
EXTENDS WirePipeline, DataLemmas

Dead == {"ended", "killed"}
Live == {"loop", "batch", "sync", "finally", "exiting"}
WorkerStates == [pc : {"none"} \union Dead \union Live, batch : Seq(Packets),
                 buffer : Nat, packets : Nat, alerts : Nat]
Counts == [starts : Nat, submitted : Nat, dropped : Nat, ringDropped : Nat,
           failed : Nat, unlinked : Nat, abandoned : Nat, fetched : Nat,
           discarded : Nat, lostAlerts : Nat]

TypeOK ==
  /\ running \in BOOLEAN /\ stopEvent \in BOOLEAN /\ managerUp \in BOOLEAN
  /\ parent \in 0..NumWorkers + 1
  /\ rings \in Seq(Seq(Packets))
  /\ worker \in [Workers -> WorkerStates]
  /\ alertQ \in Nat /\ count \in Counts
  /\ analysed = [w \in Workers |-> analysed[w]]

\* What the phase of the parent says of the rings and of the processes.
Phases ==
  /\ parent = Free /\ ~running => rings = <<>>
  /\ parent = Free /\ ~running /\ managerUp => \A w \in Workers : worker[w] = NoProcess
  /\ parent # Free => ~running /\ \A w \in Workers : w < parent => worker[w].pc \in Dead
  /\ ~managerUp => \A w \in Workers : worker[w].pc \in Dead

\* A worker in its loop has a ring, and a batch exactly while it goes through it.
Loops ==
  \A w \in Workers :
    /\ worker[w].pc \in {"loop", "batch", "sync"} => Len(rings) = NumWorkers
    /\ worker[w].pc = "batch" <=> worker[w].batch # <<>>

Shape == TypeOK /\ Phases /\ Loops
-----------------------------------------------------------------------------
(* Shape *)

LEMMA WorkersAreFinite == IsFiniteSet(Workers) /\ Workers \subseteq Nat
  BY PipelineAssumption, FS_Interval DEF Workers

LEMMA ProcessesAreTyped == NoProcess \in WorkerStates /\ NewProcess \in WorkerStates
<1>1. <<>> \in Seq(Packets)
  OBVIOUS
<1>2. QED BY <1>1 DEF NoProcess, NewProcess, WorkerStates, Live, Dead

LEMMA CountsAreTyped ==
  ASSUME count \in Counts, NEW n \in Nat
  PROVE  /\ Bump("starts", n) \in Counts /\ Bump("submitted", n) \in Counts
         /\ Bump("fetched", n) \in Counts /\ Bump("discarded", n) \in Counts
         /\ Bump("abandoned", n) \in Counts /\ Refused \in Counts
         /\ [count EXCEPT !.submitted = @ + 1, !.failed = @ + 1] \in Counts
         /\ [count EXCEPT !.unlinked = @ + n, !.ringDropped = 0] \in Counts
         /\ \A m \in Nat :
              [count EXCEPT !.abandoned = @ + n, !.lostAlerts = @ + m] \in Counts
<1>1. \A m, l \in Nat : m + l \in Nat /\ m + 1 \in Nat
  OBVIOUS
<1>2. QED BY <1>1 DEF Bump, Refused, Counts

LEMMA InitShape == Init => Shape
<1> SUFFICES ASSUME Init PROVE Shape
  OBVIOUS
<1>1. TypeOK
  <2>1. rings \in Seq(Seq(Packets)) /\ parent \in 0..NumWorkers + 1
    BY PipelineAssumption DEF Init, Free
  <2>2. count \in Counts
    BY DEF Init, Counts
  <2>3. QED BY <2>1, <2>2, ProcessesAreTyped DEF Init, TypeOK
<1>2. Phases
  BY PipelineAssumption DEF Init, Phases, Free
<1>3. Loops
  BY DEF Init, Loops, NoProcess
<1>4. QED BY <1>1, <1>2, <1>3 DEF Shape

\* The parent does something that moves no process and no ring.
LEMMA StartShape == ASSUME Shape, Start PROVE Shape'
<1>1. TypeOK'
  <2>1. [i \in 1..NumWorkers |-> <<>>] \in Seq(Seq(Packets))
    <3>1. \A i \in 1..NumWorkers : <<>> \in Seq(Packets)
      OBVIOUS
    <3>2. QED BY <3>1, PipelineAssumption, IsASeq
  <2>2. count' \in Counts
    BY CountsAreTyped DEF Shape, TypeOK, Start
  <2>3. QED BY <2>1, <2>2, ProcessesAreTyped DEF Shape, TypeOK, Start
<1>2. Phases'
  BY DEF Shape, Phases, Start
<1>3. Loops'
  BY PipelineAssumption DEF Loops, Start, NewProcess, NoProcess
<1>4. QED BY <1>1, <1>2, <1>3 DEF Shape

LEMMA StartFailsShape == ASSUME Shape, StartFails PROVE Shape'
<1>1. TypeOK'
  <2>1. rings' \in Seq(Seq(Packets))
    <3>1. <<>> \in Seq(Packets)
      OBVIOUS
    <3>2. QED BY <3>1 DEF Shape, TypeOK, StartFails
  <2>2. count' \in Counts
    BY CountsAreTyped DEF Shape, TypeOK, StartFails
  <2>3. QED BY <2>1, <2>2 DEF Shape, TypeOK, StartFails
<1>2. Phases'
  BY DEF Shape, Phases, StartFails
<1>3. Loops'
  BY DEF Shape, Phases, Loops, StartFails, Dead
<1>4. QED BY <1>1, <1>2, <1>3 DEF Shape

LEMMA RouteIsWorker ==
  ASSUME NEW p \in Packets, NEW n \in Nat PROVE Route(p, n) \in Workers
<1>1. CASE p.kind = "v5"
  <2>1. HashOf[Pair(p.flows[1])] \in Nat
    BY <1>1, PipelineAssumption DEF Pair
  <2>2. QED BY <1>1, <2>1, PipelineAssumption DEF Route, Workers
<1>2. CASE p.kind # "v5"
  BY <1>2, PipelineAssumption DEF Route, Workers
<1>3. QED BY <1>1, <1>2

LEMMA SubmitShape ==
  ASSUME Shape, NEW p \in Packets, Submit(p) PROVE Shape'
<1> DEFINE r == Route(p, count.submitted + 1) + 1
<1> HIDE DEF r
<1>1. \/ /\ r \in DOMAIN rings
         /\ rings' = [rings EXCEPT ![r] = Append(@, p)] /\ count' = Bump("submitted", 1)
      \/ UNCHANGED rings /\ count' = Refused
      \/ /\ UNCHANGED rings
         /\ count' = [count EXCEPT !.submitted = @ + 1, !.failed = @ + 1]
  BY DEF Submit, r
<1>2. /\ rings \in Seq(Seq(Packets)) /\ count \in Counts
  BY DEF Shape, TypeOK
<1>3. rings' \in Seq(Seq(Packets)) /\ Len(rings') = Len(rings)
  <2>1. CASE r \in DOMAIN rings /\ rings' = [rings EXCEPT ![r] = Append(@, p)]
    <3>1. Append(rings[r], p) \in Seq(Packets)
      BY <1>2, <2>1
    <3>2. QED BY <1>2, <2>1, <3>1
  <2>2. QED BY <1>1, <1>2, <2>1
<1>4. count' \in Counts
  BY <1>1, <1>2, CountsAreTyped
<1>5. UNCHANGED <<running, stopEvent, managerUp, parent, worker, alertQ, analysed>> /\ running
  BY DEF Submit
<1>6. QED BY <1>3, <1>4, <1>5 DEF Shape, TypeOK, Phases, Loops

LEMMA GetAlertsShape == ASSUME Shape, GetAlerts PROVE Shape'
<1>1. PICK n \in 1..alertQ : alertQ' = alertQ - n /\ count' = Bump("fetched", n)
  BY DEF GetAlerts
<1>2. n \in Nat /\ alertQ' \in Nat /\ count \in Counts
  BY <1>1 DEF Shape, TypeOK
<1>3. count' \in Counts
  BY <1>1, <1>2, CountsAreTyped
<1>4. UNCHANGED <<running, stopEvent, managerUp, parent, rings, worker, analysed>>
  BY DEF GetAlerts
<1>5. QED BY <1>2, <1>3, <1>4 DEF Shape, TypeOK, Phases, Loops

LEMMA StopShape == ASSUME Shape, Stop PROVE Shape'
<1>1. TypeOK'
  <2>1. parent' \in 0..NumWorkers + 1
    BY PipelineAssumption DEF Stop, Unlinking
  <2>2. QED BY <2>1 DEF Shape, TypeOK, Stop
<1>2. Phases'
  BY PipelineAssumption, WorkersAreFinite DEF Shape, Phases, Stop, Unlinking, Free
<1>3. Loops'
  BY DEF Shape, Loops, Stop
<1>4. QED BY <1>1, <1>2, <1>3 DEF Shape

LEMMA JoinEndedShape == ASSUME Shape, JoinEnded PROVE Shape'
<1>1. TypeOK'
  BY PipelineAssumption DEF Shape, TypeOK, JoinEnded, Workers
<1>2. Phases'
  <2>1. parent # Free /\ parent' # Free
    BY PipelineAssumption DEF JoinEnded, Workers, Free
  <2>2. \A w \in Workers : w < parent' => w < parent \/ w = parent
    <3>1. parent \in Nat /\ parent' = parent + 1 /\ Workers \subseteq Nat
      BY WorkersAreFinite DEF JoinEnded
    <3>2. QED BY <3>1
  <2>3. QED BY <2>1, <2>2 DEF Shape, Phases, JoinEnded, Dead
<1>3. Loops'
  BY DEF Shape, Loops, JoinEnded
<1>4. QED BY <1>1, <1>2, <1>3 DEF Shape

LEMMA TerminateShape == ASSUME Shape, Terminate PROVE Shape'
<1> DEFINE w == parent
           x == [worker[w] EXCEPT !.pc = "killed", !.batch = <<>>, !.buffer = 0]
<1>1. /\ w \in Workers /\ parent' = w + 1 /\ worker' = [worker EXCEPT ![w] = x]
      /\ worker[w] \in WorkerStates
      /\ UNCHANGED <<running, stopEvent, managerUp, rings, alertQ, analysed>>
  BY DEF Terminate, Shape, TypeOK
<1>2. x \in WorkerStates /\ x.pc = "killed" /\ x.batch = <<>>
  <2>1. <<>> \in Seq(Packets)
    OBVIOUS
  <2>2. QED BY <1>1, <2>1 DEF WorkerStates, Dead
<1> HIDE DEF x
<1>3. TypeOK'
  <2>1. count' \in Counts
    <3>1. Len(worker[w].batch) \in Nat /\ worker[w].buffer \in Nat
      BY <1>1 DEF WorkerStates
    <3>2. count' = [count EXCEPT !.abandoned = @ + Len(worker[w].batch),
                                 !.lostAlerts = @ + worker[w].buffer]
      BY DEF Terminate
    <3>3. count \in Counts
      BY DEF Shape, TypeOK
    <3>4. QED BY <3>1, <3>2, <3>3, CountsAreTyped
  <2>2. parent' \in 0..NumWorkers + 1
    BY <1>1, PipelineAssumption DEF Workers
  <2>3. QED BY <1>1, <1>2, <2>1, <2>2 DEF Shape, TypeOK
<1>4. \A v \in Workers : worker'[v] = IF v = w THEN x ELSE worker[v]
  BY <1>1 DEF Shape, TypeOK
<1>5. Phases'
  <2>1. parent # Free /\ parent' # Free
    BY <1>1, PipelineAssumption DEF Workers, Free
  <2>2. \A v \in Workers : v < parent' => v < parent \/ v = w
    BY <1>1, WorkersAreFinite
  <2>3. \A v \in Workers : worker[v].pc \in Dead => worker'[v].pc \in Dead
    BY <1>2, <1>4 DEF Dead
  <2>4. worker'[w].pc \in Dead
    BY <1>1, <1>2, <1>4 DEF Dead
  <2>5. QED BY <1>1, <2>1, <2>2, <2>3, <2>4 DEF Shape, Phases
<1>6. Loops'
  BY <1>1, <1>2, <1>4 DEF Shape, Loops
<1>7. QED BY <1>3, <1>5, <1>6 DEF Shape

-----------------------------------------------------------------------------
(* Sums over the rings and over the workers *)

RingSum(q) == SumFunction([r \in DOMAIN q |-> Len(q[r])])
BatchSum(f) == SumFunction([w \in Workers |-> Len(f[w].batch)])
FieldSum(f, field) == SumFunction([w \in Workers |-> f[w][field]])

LEMMA RingsAreFinite ==
  ASSUME NEW q \in Seq(Seq(Packets)) PROVE IsFiniteSet(DOMAIN q)
<1>1. DOMAIN q = 1..Len(q) /\ IsFiniteSet(1..Len(q))
  BY FS_Interval
<1>2. QED BY <1>1

LEMMA RingSumIsNatural ==
  ASSUME NEW q \in Seq(Seq(Packets))
  PROVE  RingSum(q) \in Nat /\ ((\A r \in DOMAIN q : q[r] = <<>>) => RingSum(q) = 0)
<1> DEFINE f == [r \in DOMAIN q |-> Len(q[r])]
<1>1. DOMAIN q = 1..Len(q) /\ IsFiniteSet(1..Len(q))
  BY FS_Interval
<1>2. f \in [DOMAIN q -> Nat]
  OBVIOUS
<1>3. (\A r \in DOMAIN q : q[r] = <<>>) => \A r \in DOMAIN q : f[r] = 0
  OBVIOUS
<1> HIDE DEF f
<1>4. SumFunction(f) \in Nat
  BY <1>1, <1>2, SumIsNatural
<1>5. (\A r \in DOMAIN q : f[r] = 0) => SumFunction(f) = 0
  BY <1>1, <1>2, SumOfZeros
<1>6. QED BY <1>3, <1>4, <1>5 DEF RingSum, f

\* One ring gets longer or shorter.
LEMMA RingSumChanges ==
  ASSUME NEW q \in Seq(Seq(Packets)), NEW r \in DOMAIN q, NEW new \in Seq(Packets),
         NEW p, p = [q EXCEPT ![r] = new]
  PROVE  RingSum(p) + Len(q[r]) = RingSum(q) + Len(new)
<1> DEFINE f == [k \in DOMAIN q |-> Len(q[k])]
           g == [k \in DOMAIN q |-> Len(p[k])]
<1>1. IsFiniteSet(DOMAIN q) /\ DOMAIN p = DOMAIN q
  <2>2. IsFiniteSet(DOMAIN q)
    BY RingsAreFinite
  <2>3. DOMAIN p = DOMAIN q
    OBVIOUS
  <2>4. QED BY <2>2, <2>3
<1>2. \A k \in DOMAIN q : p[k] = IF k = r THEN new ELSE q[k]
  OBVIOUS
<1>3. f \in [DOMAIN q -> Nat] /\ g \in [DOMAIN q -> Nat]
  BY <1>2
<1>4. \A k \in DOMAIN q \ {r} : g[k] = f[k]
  BY <1>2
<1>5. f[r] = Len(q[r]) /\ g[r] = Len(new)
  BY <1>2
<1>6. RingSum(q) = SumFunction(f) /\ RingSum(p) = SumFunction(g)
  BY <1>1, Zenon DEF RingSum
<1> HIDE DEF f, g
<1>7. SumFunction(g) + f[r] = SumFunction(f) + g[r]
  BY <1>1, <1>3, <1>4, SumOfOneChange, ZenonT(60)
<1>8. QED BY <1>5, <1>6, <1>7

LEMMA WorkerSumsAreNatural ==
  ASSUME NEW f \in [Workers -> WorkerStates]
  PROVE  /\ BatchSum(f) \in Nat
         /\ \A field \in {"buffer", "packets", "alerts"} : FieldSum(f, field) \in Nat
<1>1. [w \in Workers |-> Len(f[w].batch)] \in [Workers -> Nat]
  BY DEF WorkerStates
<1>2. ASSUME NEW field \in {"buffer", "packets", "alerts"}
      PROVE  [w \in Workers |-> f[w][field]] \in [Workers -> Nat]
  BY DEF WorkerStates
<1>3. BatchSum(f) \in Nat
  BY <1>1, WorkersAreFinite, SumIsNatural DEF BatchSum
<1>4. ASSUME NEW field \in {"buffer", "packets", "alerts"} PROVE FieldSum(f, field) \in Nat
  <2>1. [w \in Workers |-> f[w][field]] \in [Workers -> Nat]
    BY <1>2
  <2>2. QED BY <2>1, WorkersAreFinite, SumIsNatural DEF FieldSum
<1>5. QED BY <1>3, <1>4

\* One worker goes on.
SumsMove(f, g, old, new) ==
  /\ BatchSum(g) + Len(old.batch) = BatchSum(f) + Len(new.batch)
  /\ FieldSum(g, "buffer") + old.buffer = FieldSum(f, "buffer") + new.buffer
  /\ FieldSum(g, "packets") + old.packets = FieldSum(f, "packets") + new.packets
  /\ FieldSum(g, "alerts") + old.alerts = FieldSum(f, "alerts") + new.alerts

LEMMA WorkerSumsChange ==
  ASSUME NEW f \in [Workers -> WorkerStates], NEW w \in Workers, NEW x \in WorkerStates,
         NEW g, g = [f EXCEPT ![w] = x]
  PROVE  SumsMove(f, g, f[w], x)
<1>1. /\ g \in [Workers -> WorkerStates] /\ g[w] = x
      /\ \A v \in Workers \ {w} : g[v] = f[v]
  OBVIOUS
<1>2. BatchSum(g) + Len(f[w].batch) = BatchSum(f) + Len(x.batch)
  <2> DEFINE a == [v \in Workers |-> Len(f[v].batch)]
             b == [v \in Workers |-> Len(g[v].batch)]
  <2>1. a \in [Workers -> Nat] /\ b \in [Workers -> Nat]
    BY <1>1, SMTT(30) DEF WorkerStates
  <2>2. /\ a[w] = Len(f[w].batch) /\ b[w] = Len(x.batch)
        /\ \A v \in Workers \ {w} : b[v] = a[v]
    BY <1>1
  <2>3. BatchSum(f) = SumFunction(a) /\ BatchSum(g) = SumFunction(b)
    BY DEF BatchSum
  <2> HIDE DEF a, b
  <2>4. SumFunction(b) + a[w] = SumFunction(a) + b[w]
    BY <2>1, <2>2, WorkersAreFinite, SumOfOneChange, ZenonT(60)
  <2>5. QED BY <2>2, <2>3, <2>4
<1>3. ASSUME NEW field \in {"buffer", "packets", "alerts"}
      PROVE  FieldSum(g, field) + f[w][field] = FieldSum(f, field) + x[field]
  <2> DEFINE a == [v \in Workers |-> f[v][field]]
             b == [v \in Workers |-> g[v][field]]
  <2>1. a \in [Workers -> Nat] /\ b \in [Workers -> Nat]
    BY <1>1 DEF WorkerStates
  <2>2. a[w] = f[w][field] /\ b[w] = x[field]
    BY <1>1
  <2>3. \A v \in Workers \ {w} : b[v] = a[v]
    BY <1>1
  <2>4. FieldSum(f, field) = SumFunction(a) /\ FieldSum(g, field) = SumFunction(b)
    BY DEF FieldSum
  <2> HIDE DEF a, b
  <2>5. IsFiniteSet(Workers)
    BY WorkersAreFinite
  <2>6. SumFunction(b) + a[w] = SumFunction(a) + b[w]
    BY <2>1, <2>3, <2>5, SumOfOneChange
  <2>7. QED BY <2>2, <2>4, <2>6
<1>4. QED BY <1>2, <1>3 DEF SumsMove
-----------------------------------------------------------------------------
(* Routing and the books *)

RoutedTo(p, w) == p.kind = "v5" => HashOf[Pair(p.flows[1])] % NumWorkers = w
AllRoutedTo(s, w) == \A k \in DOMAIN s : RoutedTo(s[k], w)

\* What a worker has, or will get, was routed to it.
Routing ==
  /\ \A r \in DOMAIN rings : AllRoutedTo(rings[r], r - 1)
  /\ \A w \in Workers : AllRoutedTo(worker[w].batch, w)
  /\ \A w \in Workers : \A pair \in analysed[w] :
       Steered(pair) => HashOf[pair] % NumWorkers = w

\* NothingUncounted, of the values of the variables.
PacketBook(c, q, f) ==
  c.submitted = c.dropped + c.failed + RingSum(q) + BatchSum(f)
                  + FieldSum(f, "packets") + c.unlinked + c.abandoned
AlertBook(c, f, alerts) ==
  FieldSum(f, "alerts") = alerts + c.lostAlerts + FieldSum(f, "buffer")
                            + c.fetched + c.discarded
Books(c, q, f, alerts) == PacketBook(c, q, f) /\ AlertBook(c, f, alerts)

LEMMA BooksAre ==
  /\ NothingUncounted <=> Books(count, rings, worker, alertQ)
  /\ NothingUncounted' <=> Books(count', rings', worker', alertQ')
<1>1. /\ Queued = RingSum(rings) /\ Queued' = RingSum(rings')
      /\ InHand = BatchSum(worker) /\ InHand' = BatchSum(worker')
  BY DEF Queued, RingSum, InHand, BatchSum
<1>2. /\ Total("packets") = FieldSum(worker, "packets")
      /\ Total("packets")' = FieldSum(worker', "packets")
      /\ Total("alerts") = FieldSum(worker, "alerts")
      /\ Total("alerts")' = FieldSum(worker', "alerts")
  BY DEF Total, FieldSum
<1>3. /\ SlotsTaken = alertQ + count.lostAlerts + FieldSum(worker, "buffer")
      /\ SlotsTaken' = alertQ' + count'.lostAlerts + FieldSum(worker', "buffer")
  BY DEF SlotsTaken, FieldSum
<1>4. QED BY <1>1, <1>2, <1>3, Zenon
          DEF NothingUncounted, PacketAccounting, AlertAccounting, Books,
              PacketBook, AlertBook

\* The sums and the counters are numbers.
LEMMA PacketNumbers ==
  ASSUME Shape
  PROVE  /\ RingSum(rings) \in Nat /\ BatchSum(worker) \in Nat
         /\ FieldSum(worker, "packets") \in Nat /\ count.submitted \in Nat
         /\ count.dropped \in Nat /\ count.failed \in Nat
         /\ count.unlinked \in Nat /\ count.abandoned \in Nat
<1>1. /\ rings \in Seq(Seq(Packets)) /\ worker \in [Workers -> WorkerStates]
      /\ count \in Counts
  BY DEF Shape, TypeOK
<1>2. RingSum(rings) \in Nat
  BY <1>1, RingSumIsNatural
<1>3. BatchSum(worker) \in Nat /\ FieldSum(worker, "packets") \in Nat
  BY <1>1, WorkerSumsAreNatural
<1>4. QED BY <1>1, <1>2, <1>3 DEF Counts

LEMMA AlertNumbers ==
  ASSUME Shape
  PROVE  /\ FieldSum(worker, "buffer") \in Nat /\ FieldSum(worker, "alerts") \in Nat
         /\ count.fetched \in Nat /\ count.discarded \in Nat
         /\ count.lostAlerts \in Nat /\ alertQ \in Nat
<1>1. /\ worker \in [Workers -> WorkerStates] /\ count \in Counts /\ alertQ \in Nat
  BY DEF Shape, TypeOK
<1>2. FieldSum(worker, "buffer") \in Nat /\ FieldSum(worker, "alerts") \in Nat
  BY <1>1, WorkerSumsAreNatural
<1>3. QED BY <1>1, <1>2 DEF Counts

\* No process has anything yet.
LEMMA SumsOfIdle ==
  ASSUME NEW f \in [Workers -> WorkerStates],
         \A w \in Workers : /\ f[w].batch = <<>> /\ f[w].buffer = 0
                            /\ f[w].packets = 0 /\ f[w].alerts = 0
  PROVE  /\ BatchSum(f) = 0 /\ FieldSum(f, "buffer") = 0
         /\ FieldSum(f, "packets") = 0 /\ FieldSum(f, "alerts") = 0
<1>1. ASSUME NEW g \in [Workers -> Nat], \A w \in Workers : g[w] = 0
      PROVE  SumFunction(g) = 0
  <2>1. IsFiniteSet(Workers)
    BY WorkersAreFinite
  <2>2. QED BY <1>1, <2>1, SumOfZeros
<1>2. BatchSum(f) = 0
  BY <1>1 DEF BatchSum
<1>3. ASSUME NEW field \in {"buffer", "packets", "alerts"} PROVE FieldSum(f, field) = 0
  BY <1>1 DEF FieldSum
<1>4. QED BY <1>2, <1>3

LEMMA InitRest == Init => Routing /\ NothingUncounted
<1> SUFFICES ASSUME Init PROVE Routing /\ NothingUncounted
  OBVIOUS
<1>1. rings = <<>> /\ worker = [w \in Workers |-> NoProcess] /\ alertQ = 0
  BY DEF Init
<1>2. Routing
  BY <1>1 DEF Init, Routing, AllRoutedTo, NoProcess
<1>3. RingSum(rings) = 0
  <2>1. rings \in Seq(Seq(Packets)) /\ \A r \in DOMAIN rings : rings[r] = <<>>
    BY <1>1
  <2>2. QED BY <2>1, RingSumIsNatural
<1>4. /\ BatchSum(worker) = 0 /\ FieldSum(worker, "buffer") = 0
      /\ FieldSum(worker, "packets") = 0 /\ FieldSum(worker, "alerts") = 0
  <2>1. \A w \in Workers : worker[w] = NoProcess
    BY <1>1
  <2>2. worker \in [Workers -> WorkerStates]
    BY <1>1, ProcessesAreTyped
  <2>3. QED BY <2>1, <2>2, SumsOfIdle DEF NoProcess
<1>5. Books(count, rings, worker, alertQ)
  BY <1>1, <1>3, <1>4 DEF Books, PacketBook, AlertBook, Init
<1>6. QED BY <1>2, <1>5, BooksAre
-----------------------------------------------------------------------------
(* Routing and the books, kept by the parent *)

LEMMA StartRest ==
  ASSUME Shape, Start
  PROVE  (Routing => Routing') /\ (NothingUncounted => NothingUncounted')
<1>1. /\ rings = <<>> /\ rings' = [i \in 1..NumWorkers |-> <<>>]
      /\ worker' = [w \in Workers |-> NewProcess]
      /\ \A w \in Workers : worker[w] = NoProcess
      /\ worker \in [Workers -> WorkerStates] /\ rings \in Seq(Seq(Packets))
      /\ count' = Bump("starts", 1) /\ UNCHANGED <<alertQ, analysed>>
  BY DEF Shape, TypeOK, Phases, Start
<1>2. rings' \in Seq(Seq(Packets)) /\ worker' \in [Workers -> WorkerStates]
  BY StartShape DEF Shape, TypeOK
<1>3. Routing => Routing'
  BY <1>1 DEF Routing, AllRoutedTo, NewProcess, NoProcess
<1>4. RingSum(rings) = 0 /\ RingSum(rings') = 0
  <2>1. \A r \in DOMAIN rings : rings[r] = <<>>
    BY <1>1
  <2>2. \A r \in DOMAIN rings' : rings'[r] = <<>>
    BY <1>1
  <2>3. RingSum(rings) = 0
    BY <1>1, <2>1, RingSumIsNatural
  <2>4. RingSum(rings') = 0
    BY <1>2, <2>2, RingSumIsNatural
  <2>5. QED BY <2>3, <2>4
<1>5. /\ BatchSum(worker) = 0 /\ FieldSum(worker, "buffer") = 0
      /\ FieldSum(worker, "packets") = 0 /\ FieldSum(worker, "alerts") = 0
  BY <1>1, SumsOfIdle DEF NoProcess
<1>6. /\ BatchSum(worker') = 0 /\ FieldSum(worker', "buffer") = 0
      /\ FieldSum(worker', "packets") = 0 /\ FieldSum(worker', "alerts") = 0
  <2>1. \A w \in Workers : worker'[w] = NewProcess
    BY <1>1
  <2>2. QED BY <1>2, <2>1, SumsOfIdle DEF NewProcess, NoProcess
<1>7. /\ UNCHANGED <<count.submitted, count.dropped, count.failed, count.unlinked,
                     count.abandoned, count.fetched, count.discarded, count.lostAlerts>>
  BY <1>1 DEF Bump, Shape, TypeOK, Counts
<1>8. NothingUncounted => NothingUncounted'
  BY <1>1, <1>4, <1>5, <1>6, <1>7, BooksAre DEF Books, PacketBook, AlertBook
<1>9. QED BY <1>3, <1>8

LEMMA StartFailsRest ==
  ASSUME Shape, StartFails
  PROVE  (Routing => Routing') /\ (NothingUncounted => NothingUncounted')
<1>1. /\ rings = <<>> /\ rings' = Append(rings, <<>>) /\ count' = Bump("starts", 1)
      /\ UNCHANGED <<worker, alertQ, analysed>>
      /\ rings \in Seq(Seq(Packets)) /\ rings' \in Seq(Seq(Packets))
  BY StartFailsShape DEF Shape, TypeOK, Phases, StartFails
<1>2. \A r \in DOMAIN rings' : rings'[r] = <<>>
  BY <1>1
<1>3. Routing => Routing'
  BY <1>1, <1>2 DEF Routing, AllRoutedTo
<1>4. RingSum(rings) = 0 /\ RingSum(rings') = 0
  <2>1. \A r \in DOMAIN rings : rings[r] = <<>>
    BY <1>1
  <2>2. RingSum(rings) = 0
    BY <1>1, <2>1, RingSumIsNatural
  <2>3. RingSum(rings') = 0
    BY <1>1, <1>2, RingSumIsNatural
  <2>4. QED BY <2>2, <2>3
<1>5. /\ UNCHANGED <<count.submitted, count.dropped, count.failed, count.unlinked,
                     count.abandoned, count.fetched, count.discarded, count.lostAlerts>>
  BY <1>1 DEF Bump, Shape, TypeOK, Counts
<1>6. NothingUncounted => NothingUncounted'
  BY <1>1, <1>4, <1>5, BooksAre DEF Books, PacketBook, AlertBook
<1>7. QED BY <1>3, <1>6

\* submit_packet: the datagram goes to the ring of the worker its first record
\* is hashed to.
LEMMA SubmitRest ==
  ASSUME Shape, NEW p \in Packets, Submit(p)
  PROVE  (Routing => Routing') /\ (NothingUncounted => NothingUncounted')
<1> DEFINE w == Route(p, count.submitted + 1)
           r == w + 1
<1>1. /\ w \in Workers /\ w \in Nat /\ RoutedTo(p, w)
  <2>1. count.submitted + 1 \in Nat
    BY PacketNumbers
  <2>2. QED BY <2>1, RouteIsWorker, WorkersAreFinite DEF RoutedTo, Route
<1>2. /\ rings \in Seq(Seq(Packets)) /\ count \in Counts
      /\ UNCHANGED <<worker, alertQ, analysed>>
  BY DEF Shape, TypeOK, Submit
<1> HIDE DEF w
<1>3. CASE r \in DOMAIN rings /\ rings' = [rings EXCEPT ![r] = Append(@, p)]
             /\ count' = Bump("submitted", 1)
  <2> DEFINE new == Append(rings[r], p)
  <2>1. \A k \in DOMAIN new : (k \in DOMAIN rings[r] /\ new[k] = rings[r][k]) \/ new[k] = p
    BY <1>2, <1>3
  <2>2. rings' = [rings EXCEPT ![r] = new]
    BY <1>3
  <2>3. RingSum(rings') + Len(rings[r]) = RingSum(rings) + Len(new)
    <3>1. new \in Seq(Packets) /\ r \in DOMAIN rings /\ rings \in Seq(Seq(Packets))
      BY <1>2, <1>3
    <3> HIDE DEF new, r
    <3>2. QED BY <2>2, <3>1, RingSumChanges
  <2>4. RingSum(rings') \in Nat
    BY SubmitShape, RingSumIsNatural DEF Shape, TypeOK
  <2>5. RingSum(rings') = RingSum(rings) + 1
    <3>1. Len(new) = Len(rings[r]) + 1 /\ Len(rings[r]) \in Nat
      BY <1>2, <1>3
    <3>2. RingSum(rings) \in Nat
      BY PacketNumbers
    <3> HIDE DEF new, r
    <3>3. QED BY <2>3, <2>4, <3>1, <3>2
  <2> HIDE DEF new
  <2>6. /\ count'.submitted = count.submitted + 1
        /\ UNCHANGED <<count.dropped, count.failed, count.unlinked, count.abandoned,
                       count.fetched, count.discarded, count.lostAlerts>>
    BY <1>2, <1>3 DEF Bump, Counts
  <2>7. NothingUncounted => NothingUncounted'
    <3>1. UNCHANGED <<alertQ, worker>>
      BY <1>2
    <3>2. PacketBook(count, rings, worker) => PacketBook(count', rings', worker')
      BY <2>5, <2>6, <3>1, PacketNumbers DEF PacketBook
    <3>3. AlertBook(count, worker, alertQ) => AlertBook(count', worker', alertQ')
      BY <2>6, <3>1 DEF AlertBook
    <3>4. QED BY <3>2, <3>3, BooksAre DEF Books
  <2>8. ASSUME Routing PROVE Routing'
    <3>1. r - 1 = w
      BY <1>1
    <3>2. AllRoutedTo(new, r - 1)
      <4>1. AllRoutedTo(rings[r], r - 1)
        BY <1>3, <2>8 DEF Routing
      <4>2. QED BY <1>1, <2>1, <3>1, <4>1 DEF AllRoutedTo
    <3>3. DOMAIN rings' = DOMAIN rings
          /\ \A k \in DOMAIN rings : rings'[k] = IF k = r THEN new ELSE rings[k]
      BY <1>2, <2>2
    <3>4. \A k \in DOMAIN rings' : AllRoutedTo(rings'[k], k - 1)
      BY <2>8, <3>2, <3>3 DEF Routing
    <3>5. QED BY <1>2, <2>8, <3>4 DEF Routing
  <2>9. QED BY <2>7, <2>8
<1>4. CASE UNCHANGED rings /\ \/ count' = Refused
                              \/ count' = [count EXCEPT !.submitted = @ + 1, !.failed = @ + 1]
  <2>1. /\ count'.submitted = count.submitted + 1
        /\ \/ count'.dropped = count.dropped + 1 /\ count'.failed = count.failed
           \/ count'.dropped = count.dropped /\ count'.failed = count.failed + 1
        /\ UNCHANGED <<count.unlinked, count.abandoned, count.fetched, count.discarded,
                       count.lostAlerts>>
    BY <1>2, <1>4 DEF Refused, Counts
  <2>2. NothingUncounted => NothingUncounted'
    <3>1. UNCHANGED <<rings, worker, alertQ>>
      BY <1>2, <1>4
    <3>2. PacketBook(count, rings, worker) => PacketBook(count', rings', worker')
      BY <2>1, <3>1, PacketNumbers DEF PacketBook
    <3>3. AlertBook(count, worker, alertQ) => AlertBook(count', worker', alertQ')
      BY <2>1, <3>1 DEF AlertBook
    <3>4. QED BY <3>2, <3>3, BooksAre DEF Books
  <2>3. Routing => Routing'
    BY <1>2, <1>4 DEF Routing
  <2>4. QED BY <2>2, <2>3
<1>5. QED BY <1>3, <1>4 DEF Submit, w

LEMMA GetAlertsRest ==
  ASSUME Shape, GetAlerts
  PROVE  (Routing => Routing') /\ (NothingUncounted => NothingUncounted')
<1>1. PICK n \in 1..alertQ : alertQ' = alertQ - n /\ count' = Bump("fetched", n)
  BY DEF GetAlerts
<1>2. UNCHANGED <<rings, worker, analysed>>
  BY DEF GetAlerts
<1>3. /\ count'.fetched = count.fetched + n
      /\ UNCHANGED <<count.submitted, count.dropped, count.failed, count.unlinked,
                     count.abandoned, count.discarded, count.lostAlerts>>
  BY <1>1 DEF Bump, Shape, TypeOK, Counts
<1>4. n \in Nat
  BY AlertNumbers
<1>5. NothingUncounted => NothingUncounted'
  <2>1. PacketBook(count, rings, worker) => PacketBook(count', rings', worker')
    BY <1>2, <1>3 DEF PacketBook
  <2>2. AlertBook(count, worker, alertQ) => AlertBook(count', worker', alertQ')
    BY <1>1, <1>2, <1>3, <1>4, AlertNumbers DEF AlertBook
  <2>3. QED BY <2>1, <2>2, BooksAre DEF Books
<1>6. QED BY <1>2, <1>5 DEF Routing

\* A step that moves no packet and no alert.
LEMMA FrameRest ==
  ASSUME Shape, UNCHANGED <<rings, worker, alertQ, count, analysed>>
  PROVE  (Routing => Routing') /\ (NothingUncounted => NothingUncounted')
<1>1. NothingUncounted => NothingUncounted'
  BY BooksAre DEF Books, PacketBook, AlertBook
<1>2. QED BY <1>1 DEF Routing

\* One worker goes on: the books stay right if they do for its share.
LEMMA WorkerBooks ==
  ASSUME Shape, NEW w \in Workers, NEW x \in WorkerStates,
         worker' = [worker EXCEPT ![w] = x],
         rings' \in Seq(Seq(Packets)), count' \in Counts, alertQ' \in Nat,
         UNCHANGED <<count.submitted, count.dropped, count.failed, count.unlinked,
                     count.fetched>>,
         RingSum(rings') + Len(x.batch) + x.packets + count'.abandoned
           = RingSum(rings) + Len(worker[w].batch) + worker[w].packets + count.abandoned,
         x.alerts + alertQ + count.lostAlerts + worker[w].buffer + count.discarded
           = worker[w].alerts + alertQ' + count'.lostAlerts + x.buffer + count'.discarded
  PROVE  NothingUncounted => NothingUncounted'
<1>1. worker \in [Workers -> WorkerStates] /\ worker' \in [Workers -> WorkerStates]
  BY DEF Shape, TypeOK
<1>2. SumsMove(worker, worker', worker[w], x)
  BY <1>1, WorkerSumsChange, Zenon
<1>3. /\ RingSum(rings') \in Nat /\ BatchSum(worker') \in Nat
      /\ FieldSum(worker', "packets") \in Nat /\ FieldSum(worker', "buffer") \in Nat
      /\ FieldSum(worker', "alerts") \in Nat
  BY <1>1, RingSumIsNatural, WorkerSumsAreNatural
<1>4. count'.abandoned \in Nat /\ count'.lostAlerts \in Nat /\ count'.discarded \in Nat
  BY DEF Counts
<1>5. worker[w] \in WorkerStates
  BY <1>1
<1> DEFINE old == worker[w]
<1>6. /\ Len(old.batch) \in Nat /\ old.packets \in Nat /\ old.alerts \in Nat
      /\ old.buffer \in Nat
      /\ Len(x.batch) \in Nat /\ x.packets \in Nat /\ x.alerts \in Nat /\ x.buffer \in Nat
  BY <1>5 DEF WorkerStates
<1>7. ASSUME PacketBook(count, rings, worker) PROVE PacketBook(count', rings', worker')
  <2>1. PICK l0 \in Nat, l1 \in Nat, p0 \in Nat, p1 \in Nat :
          /\ l0 = Len(old.batch) /\ l1 = Len(x.batch)
          /\ p0 = old.packets /\ p1 = x.packets
    BY <1>6
  <2>2. PICK r0 \in Nat, b0 \in Nat, f0 \in Nat, a0 \in Nat :
          /\ r0 = RingSum(rings) /\ b0 = BatchSum(worker)
          /\ f0 = FieldSum(worker, "packets") /\ a0 = count.abandoned
    BY PacketNumbers
  <2>3. PICK r1 \in Nat, b1 \in Nat, f1 \in Nat, a1 \in Nat :
          /\ r1 = RingSum(rings') /\ b1 = BatchSum(worker')
          /\ f1 = FieldSum(worker', "packets") /\ a1 = count'.abandoned
    BY <1>3, <1>4
  <2>4. PICK c \in Nat, d \in Nat, e \in Nat, u \in Nat :
          /\ c = count.submitted /\ d = count.dropped /\ e = count.failed
          /\ u = count.unlinked
    BY PacketNumbers
  <2>5. c = d + e + r0 + b0 + f0 + u + a0
    BY <1>7, <2>2, <2>4 DEF PacketBook
  <2>6. b1 + l0 = b0 + l1 /\ f1 + p0 = f0 + p1
    BY <1>2, <2>1, <2>2, <2>3 DEF SumsMove
  <2>7. r1 + l1 + p1 + a1 = r0 + l0 + p0 + a0
    BY <2>1, <2>2, <2>3
  <2>8. c = d + e + r1 + b1 + f1 + u + a1
    BY <2>5, <2>6, <2>7
  <2>9. QED BY <2>3, <2>4, <2>8 DEF PacketBook
<1>8. ASSUME AlertBook(count, worker, alertQ) PROVE AlertBook(count', worker', alertQ')
  <2>1. PICK a0 \in Nat, a1 \in Nat, b0 \in Nat, b1 \in Nat :
          /\ a0 = old.alerts /\ a1 = x.alerts /\ b0 = old.buffer /\ b1 = x.buffer
    BY <1>6
  <2>2. PICK f0 \in Nat, g0 \in Nat, q0 \in Nat, l0 \in Nat, d0 \in Nat :
          /\ f0 = FieldSum(worker, "alerts") /\ g0 = FieldSum(worker, "buffer")
          /\ q0 = alertQ /\ l0 = count.lostAlerts /\ d0 = count.discarded
    BY AlertNumbers
  <2>3. PICK f1 \in Nat, g1 \in Nat, q1 \in Nat, l1 \in Nat, d1 \in Nat :
          /\ f1 = FieldSum(worker', "alerts") /\ g1 = FieldSum(worker', "buffer")
          /\ q1 = alertQ' /\ l1 = count'.lostAlerts /\ d1 = count'.discarded
    BY <1>3, <1>4
  <2>4. PICK e \in Nat : e = count.fetched
    BY AlertNumbers
  <2>5. f0 = q0 + l0 + g0 + e + d0
    BY <1>8, <2>2, <2>4 DEF AlertBook
  <2>6. f1 + a0 = f0 + a1 /\ g1 + b0 = g0 + b1
    BY <1>2, <2>1, <2>2, <2>3 DEF SumsMove
  <2>7. a1 + q0 + l0 + b0 + d0 = a0 + q1 + l1 + b1 + d1
    BY <2>1, <2>2, <2>3
  <2>8. f1 = q1 + l1 + g1 + e + d1
    BY <2>5, <2>6, <2>7
  <2>9. QED BY <2>3, <2>4, <2>8 DEF AlertBook
<1>9. QED BY <1>7, <1>8, BooksAre DEF Books

LEMMA TerminateRest ==
  ASSUME Shape, Terminate
  PROVE  (Routing => Routing') /\ (NothingUncounted => NothingUncounted')
<1> DEFINE w == parent
           x == [worker[w] EXCEPT !.pc = "killed", !.batch = <<>>, !.buffer = 0]
<1>1. /\ w \in Workers /\ worker' = [worker EXCEPT ![w] = x]
      /\ worker \in [Workers -> WorkerStates] /\ worker[w] \in WorkerStates
      /\ UNCHANGED <<rings, alertQ, analysed>>
  BY DEF Terminate, Shape, TypeOK
<1>2. /\ count \in Counts
      /\ count' = [count EXCEPT !.abandoned = @ + Len(worker[w].batch),
                                !.lostAlerts = @ + worker[w].buffer]
  BY DEF Terminate, Shape, TypeOK
<1>3. x \in WorkerStates
  <2>1. <<>> \in Seq(Packets)
    OBVIOUS
  <2>2. QED BY <1>1, <2>1 DEF WorkerStates, Dead
<1>4. /\ x.batch = <<>> /\ Len(x.batch) = 0 /\ x.buffer = 0
      /\ x.packets = worker[w].packets /\ x.alerts = worker[w].alerts
      /\ Len(worker[w].batch) \in Nat /\ worker[w].buffer \in Nat
      /\ worker[w].packets \in Nat /\ worker[w].alerts \in Nat
  BY <1>1 DEF WorkerStates
<1>5. /\ count'.abandoned = count.abandoned + Len(worker[w].batch)
      /\ count'.lostAlerts = count.lostAlerts + worker[w].buffer
  BY <1>2 DEF Counts
<1>6. UNCHANGED <<count.submitted, count.dropped, count.failed, count.unlinked,
                  count.fetched, count.discarded>>
  BY <1>2 DEF Counts
<1>7. rings' \in Seq(Seq(Packets)) /\ count' \in Counts /\ alertQ' \in Nat
  BY TerminateShape DEF Shape, TypeOK
<1> HIDE DEF w, x
<1>8. RingSum(rings') + Len(x.batch) + x.packets + count'.abandoned
        = RingSum(rings) + Len(worker[w].batch) + worker[w].packets + count.abandoned
  <2>1. RingSum(rings') = RingSum(rings)
    BY <1>1
  <2>2. QED BY <1>4, <1>5, <2>1, PacketNumbers, SMTT(30)
<1>9. x.alerts + alertQ + count.lostAlerts + worker[w].buffer + count.discarded
        = worker[w].alerts + alertQ' + count'.lostAlerts + x.buffer + count'.discarded
  <2>1. alertQ' = alertQ
    BY <1>1
  <2>2. QED BY <1>4, <1>5, <1>6, <2>1, AlertNumbers
<1>10. NothingUncounted => NothingUncounted'
  BY <1>1, <1>3, <1>6, <1>7, <1>8, <1>9, WorkerBooks
<1>11. Routing => Routing'
  <2>1. \A v \in Workers : worker'[v] = IF v = w THEN x ELSE worker[v]
    BY <1>1
  <2>2. AllRoutedTo(x.batch, w)
    BY <1>4 DEF AllRoutedTo
  <2>3. QED BY <1>1, <2>1, <2>2 DEF Routing
<1>12. QED BY <1>10, <1>11

LEMMA CleanupShapeAndRest ==
  ASSUME Shape, Cleanup
  PROVE  Shape' /\ (Routing => Routing') /\ (NothingUncounted => NothingUncounted')
<1>1. /\ parent = Unlinking /\ parent' = Free /\ ~managerUp' /\ rings' = <<>>
      /\ UNCHANGED <<running, stopEvent, worker, stats, alertQ, analysed>>
      /\ count' = [count EXCEPT !.unlinked = @ + RingSum(rings), !.ringDropped = 0]
  BY DEF Cleanup, Queued, RingSum
<1>2. rings' \in Seq(Seq(Packets)) /\ RingSum(rings') = 0
  <2>1. <<>> \in Seq(Seq(Packets))
    OBVIOUS
  <2>2. \A r \in DOMAIN <<>> : <<>>[r] = <<>>
    OBVIOUS
  <2>3. RingSum(<<>>) = 0
    BY <2>1, <2>2, RingSumIsNatural
  <2>4. QED BY <1>1, <2>1, <2>3
<1>3. count \in Counts /\ count' \in Counts
  <2>1. count \in Counts
    BY DEF Shape, TypeOK
  <2>2. RingSum(rings) \in Nat
    BY PacketNumbers
  <2>3. QED BY <1>1, <2>1, <2>2, CountsAreTyped
<1>4. \A w \in Workers : worker[w].pc \in Dead
  <2>1. parent # Free /\ \A w \in Workers : w < parent
    BY <1>1, PipelineAssumption DEF Unlinking, Free, Workers
  <2>2. QED BY <2>1 DEF Shape, Phases
<1>5. Shape'
  <2>1. TypeOK'
    <3>1. parent' \in 0..NumWorkers + 1
      BY PipelineAssumption DEF Cleanup, Free
    <3>2. managerUp' \in BOOLEAN
      BY DEF Cleanup
    <3>3. QED BY <1>1, <1>2, <1>3, <3>1, <3>2 DEF Shape, TypeOK
  <2>2. Phases'
    BY <1>1, <1>4 DEF Phases
  <2>3. Loops'
    BY <1>1, <1>4 DEF Shape, Loops, Dead
  <2>4. QED BY <2>1, <2>2, <2>3 DEF Shape
<1>6. /\ count'.unlinked = count.unlinked + RingSum(rings)
      /\ UNCHANGED <<count.submitted, count.dropped, count.failed, count.abandoned,
                     count.fetched, count.discarded, count.lostAlerts>>
  BY <1>1, <1>3 DEF Counts
<1>7. NothingUncounted => NothingUncounted'
  <2>1. UNCHANGED <<worker, alertQ>>
    BY <1>1
  <2>2. PacketBook(count, rings, worker) => PacketBook(count', rings', worker')
    BY <1>2, <1>6, <2>1, PacketNumbers, SMTT(30) DEF PacketBook
  <2>3. AlertBook(count, worker, alertQ) => AlertBook(count', worker', alertQ')
    BY <1>6, <2>1 DEF AlertBook
  <2>4. QED BY <2>2, <2>3, BooksAre DEF Books
<1>8. Routing => Routing'
  BY <1>1 DEF Routing, AllRoutedTo
<1>9. QED BY <1>5, <1>7, <1>8
-----------------------------------------------------------------------------
(* A step of a worker *)

Looping == {"loop", "batch", "sync"}

\* A process that is there goes on as a process that is there.
LEMMA WorkerShape ==
  ASSUME Shape, NEW w \in Workers, NEW x \in WorkerStates,
         worker' = [worker EXCEPT ![w] = x], worker[w] # NoProcess,
         worker[w].pc \in Dead => x.pc \in Dead,
         x.pc \in Looping => worker[w].pc \in Looping,
         x.pc = "batch" <=> x.batch # <<>>,
         rings' \in Seq(Seq(Packets)), Len(rings') = Len(rings),
         count' \in Counts, alertQ' \in Nat,
         analysed' = [v \in Workers |-> analysed'[v]],
         UNCHANGED ParentRest
  PROVE  Shape'
<1>1. \A v \in Workers : worker'[v] = IF v = w THEN x ELSE worker[v]
  BY DEF Shape, TypeOK
<1>2. worker' \in [Workers -> WorkerStates]
  BY DEF Shape, TypeOK
<1>3. TypeOK'
  BY <1>2 DEF Shape, TypeOK, ParentRest
<1>4. \A v \in Workers : worker[v].pc \in Dead => worker'[v].pc \in Dead
  BY <1>1
<1>5. rings = <<>> => rings' = <<>>
  BY EmptySeq
<1>6. Phases'
  BY <1>4, <1>5 DEF Shape, Phases, ParentRest
<1>7. Loops'
  BY <1>1 DEF Shape, Loops, Looping
<1>8. QED BY <1>3, <1>6, <1>7 DEF Shape

LEMMA WorkerRouting ==
  ASSUME Shape, Routing, NEW w \in Workers, NEW x \in WorkerStates,
         worker' = [worker EXCEPT ![w] = x], AllRoutedTo(x.batch, w),
         \A r \in DOMAIN rings' : AllRoutedTo(rings'[r], r - 1),
         UNCHANGED analysed
  PROVE  Routing'
<1>1. \A v \in Workers : worker'[v] = IF v = w THEN x ELSE worker[v]
  BY DEF Shape, TypeOK
<1>2. QED BY <1>1 DEF Routing

\* A worker that goes to another place of its loop, or out of it.
LEMMA WorkerTurns ==
  ASSUME Shape, NEW w \in Workers, NEW pc \in {"loop", "sync"} \union Dead
                                                \union {"finally", "exiting"},
         worker' = [worker EXCEPT ![w].pc = pc],
         worker[w].pc \in Live \ {"batch"},
         pc \in Looping => worker[w].pc \in Looping,
         UNCHANGED <<ParentRest, rings, alertQ, count, analysed>>
  PROVE  Shape' /\ (Routing => Routing') /\ (NothingUncounted => NothingUncounted')
<1> DEFINE x == [worker[w] EXCEPT !.pc = pc]
<1>1. /\ worker \in [Workers -> WorkerStates] /\ worker[w] \in WorkerStates
      /\ rings \in Seq(Seq(Packets)) /\ count \in Counts /\ alertQ \in Nat
      /\ analysed = [v \in Workers |-> analysed[v]]
  BY DEF Shape, TypeOK
<1>2. worker' = [worker EXCEPT ![w] = x] /\ x.pc = pc /\ x.batch = worker[w].batch
      /\ x.buffer = worker[w].buffer /\ x.packets = worker[w].packets
      /\ x.alerts = worker[w].alerts
  BY <1>1 DEF WorkerStates
<1>3. x \in WorkerStates
  BY <1>1 DEF WorkerStates, Live, Dead
<1>4. worker[w].batch = <<>> /\ worker[w] # NoProcess /\ worker[w].pc \notin Dead
  BY DEF Shape, Loops, NoProcess, Live, Dead
<1> HIDE DEF x
<1>5. Shape'
  <2>1. x.pc = "batch" <=> x.batch # <<>>
    BY <1>2, <1>4 DEF Dead
  <2>2. x.pc \in Looping => worker[w].pc \in Looping
    BY <1>2
  <2>3. /\ rings' \in Seq(Seq(Packets)) /\ Len(rings') = Len(rings)
        /\ count' \in Counts /\ alertQ' \in Nat
        /\ analysed' = [v \in Workers |-> analysed'[v]] /\ UNCHANGED ParentRest
    BY <1>1
  <2>4. QED BY <1>2, <1>3, <1>4, <2>1, <2>2, <2>3, WorkerShape
<1>6. ASSUME Routing PROVE Routing'
  <2>1. AllRoutedTo(x.batch, w)
    BY <1>2, <1>6 DEF Routing
  <2>2. \A r \in DOMAIN rings' : AllRoutedTo(rings'[r], r - 1)
    BY <1>6 DEF Routing
  <2>3. QED BY <1>2, <1>3, <1>6, <2>1, <2>2, WorkerRouting
<1>7. NothingUncounted => NothingUncounted'
  <2>1. /\ BatchSum(worker') = BatchSum(worker)
        /\ FieldSum(worker', "buffer") = FieldSum(worker, "buffer")
        /\ FieldSum(worker', "packets") = FieldSum(worker, "packets")
        /\ FieldSum(worker', "alerts") = FieldSum(worker, "alerts")
    <3>1. \A v \in Workers : /\ worker'[v].batch = worker[v].batch
                             /\ worker'[v].buffer = worker[v].buffer
                             /\ worker'[v].packets = worker[v].packets
                             /\ worker'[v].alerts = worker[v].alerts
      BY <1>1, <1>2
    <3>2. /\ [v \in Workers |-> Len(worker'[v].batch)] = [v \in Workers |-> Len(worker[v].batch)]
          /\ [v \in Workers |-> worker'[v].buffer] = [v \in Workers |-> worker[v].buffer]
          /\ [v \in Workers |-> worker'[v].packets] = [v \in Workers |-> worker[v].packets]
          /\ [v \in Workers |-> worker'[v].alerts] = [v \in Workers |-> worker[v].alerts]
      BY <3>1
    <3>3. QED BY <3>2 DEF BatchSum, FieldSum
  <2>2. UNCHANGED <<rings, alertQ, count>>
    OBVIOUS
  <2>3. QED BY <2>1, <2>2, BooksAre DEF Books, PacketBook, AlertBook
<1>8. QED BY <1>5, <1>6, <1>7

LEMMA QuietWorker ==
  ASSUME Shape, NEW w \in Workers,
         LeaveLoop(w) \/ PollEmpty(w) \/ Sync(w) \/ Finally(w) \/ Exit(w)
  PROVE  Shape' /\ (Routing => Routing') /\ (NothingUncounted => NothingUncounted')
<1>1. UNCHANGED <<ParentRest, rings, alertQ, count, analysed>>
  BY DEF LeaveLoop, PollEmpty, Sync, Finally, Exit
<1>2. CASE LeaveLoop(w)
  BY <1>1, <1>2, WorkerTurns DEF LeaveLoop, Become, Live, Looping
<1>3. CASE PollEmpty(w)
  BY <1>1, <1>3, WorkerTurns DEF PollEmpty, Become, Live, Looping
<1>4. CASE Sync(w)
  BY <1>1, <1>4, WorkerTurns DEF Sync, Become, Live, Looping
<1>5. CASE Finally(w)
  BY <1>1, <1>5, WorkerTurns DEF Finally, Become, Live, Looping
<1>6. CASE Exit(w)
  BY <1>1, <1>6, WorkerTurns DEF Exit, Become, Live, Looping, Dead
<1>7. QED BY <1>2, <1>3, <1>4, <1>5, <1>6

\* read_batch: packets go from the ring to the batch.
LEMMA ReadBatchKeeps ==
  ASSUME Shape, NEW w \in Workers, ReadBatch(w)
  PROVE  Shape' /\ (Routing => Routing') /\ (NothingUncounted => NothingUncounted')
<1> DEFINE ring == rings[w + 1]
<1>1. /\ worker[w].pc = "loop" /\ UNCHANGED <<ParentRest, alertQ, count, analysed>>
      /\ worker[w] # NoProcess
  BY DEF ReadBatch, NoProcess
<1>2. /\ worker \in [Workers -> WorkerStates] /\ worker[w] \in WorkerStates
      /\ rings \in Seq(Seq(Packets)) /\ count \in Counts /\ alertQ \in Nat
      /\ analysed = [v \in Workers |-> analysed[v]]
  BY DEF Shape, TypeOK
<1>3. w + 1 \in DOMAIN rings /\ ring \in Seq(Packets)
  <2>1. Len(rings) = NumWorkers
    BY <1>1 DEF Shape, Loops
  <2>2. w + 1 \in DOMAIN rings
    BY <1>2, <2>1, PipelineAssumption DEF Workers
  <2>3. QED BY <1>2, <2>2
<1>4. PICK n \in 1..Len(ring) :
        /\ rings' = [rings EXCEPT ![w + 1] = SubSeq(ring, n + 1, Len(ring))]
        /\ worker' = [worker EXCEPT ![w].pc = "batch", ![w].batch = SubSeq(ring, 1, n)]
  BY DEF ReadBatch
<1> DEFINE taken == SubSeq(ring, 1, n)
           rest == SubSeq(ring, n + 1, Len(ring))
           x == [worker[w] EXCEPT !.pc = "batch", !.batch = taken]
<1> HIDE DEF ring
<1>5. /\ taken \in Seq(Packets) /\ Len(taken) = n /\ \A i \in 1..n : taken[i] = ring[i]
      /\ rest \in Seq(Packets) /\ Len(rest) = Len(ring) - n
      /\ \A i \in 1..Len(ring) - n : rest[i] = ring[n + i]
  <2>1. \A i \in 1..Len(ring) : ring[i] \in Packets
    BY <1>3
  <2>2. /\ 1 \in 1..Len(ring) + 1 /\ n \in (1 - 1)..Len(ring)
        /\ n + 1 \in 1..Len(ring) + 1 /\ Len(ring) \in n..Len(ring) /\ Len(ring) \in Nat
    BY <1>3, <1>4
  <2>3. /\ taken \in Seq(Packets) /\ Len(taken) = n
        /\ \A i \in 1..n : taken[i] = ring[i]
    BY <1>3, <2>1, <2>2
  <2>4. /\ rest \in Seq(Packets) /\ Len(rest) = Len(ring) - n
        /\ \A i \in 1..Len(ring) - n : rest[i] = ring[n + i]
    BY <1>3, <2>1, <2>2
  <2>5. QED BY <2>3, <2>4
<1>6. worker' = [worker EXCEPT ![w] = x] /\ rings' = [rings EXCEPT ![w + 1] = rest]
  BY <1>2, <1>4
<1> HIDE DEF taken, rest
<1>7. /\ x.pc = "batch" /\ x.batch = taken /\ x.buffer = worker[w].buffer
      /\ x.packets = worker[w].packets /\ x.alerts = worker[w].alerts
  BY <1>2 DEF WorkerStates
<1>8. x \in WorkerStates
  BY <1>2, <1>5 DEF WorkerStates, Live
<1> HIDE DEF x
<1>9. rings' \in Seq(Seq(Packets)) /\ Len(rings') = Len(rings)
  BY <1>2, <1>3, <1>5, <1>6
<1>10. Shape'
  <2>1. x.pc = "batch" <=> x.batch # <<>>
    BY <1>5, <1>7
  <2>2. /\ worker[w].pc \in Dead => x.pc \in Dead
        /\ x.pc \in Looping => worker[w].pc \in Looping
    BY <1>1 DEF Dead, Looping
  <2>3. /\ count' \in Counts /\ alertQ' \in Nat
        /\ analysed' = [v \in Workers |-> analysed'[v]]
    BY <1>1, <1>2
  <2>4. QED BY <1>1, <1>6, <1>8, <1>9, <2>1, <2>2, <2>3, WorkerShape
<1>11. NothingUncounted => NothingUncounted'
  <2>1. RingSum(rings') + Len(ring) = RingSum(rings) + Len(rest)
    <3> DEFINE r == w + 1
    <3>1. rest \in Seq(Packets) /\ r \in DOMAIN rings /\ rings \in Seq(Seq(Packets))
      BY <1>2, <1>3, <1>5
    <3>2. rings' = [rings EXCEPT ![r] = rest] /\ ring = rings[r]
      BY <1>6 DEF ring
    <3> HIDE DEF r
    <3>3. QED BY <3>1, <3>2, RingSumChanges
  <2>2. RingSum(rings') + n = RingSum(rings)
    <3>1. RingSum(rings') \in Nat /\ RingSum(rings) \in Nat /\ Len(ring) \in Nat
      BY <1>3, <1>9, PacketNumbers, RingSumIsNatural
    <3>2. Len(rest) = Len(ring) - n
      BY <1>5
    <3>3. QED BY <2>1, <3>1, <3>2
  <2>3. RingSum(rings') + Len(x.batch) + x.packets + count'.abandoned
          = RingSum(rings) + Len(worker[w].batch) + worker[w].packets + count.abandoned
    <3>1. Len(x.batch) = n /\ Len(worker[w].batch) = 0 /\ x.packets = worker[w].packets
          /\ count'.abandoned = count.abandoned
      BY <1>1, <1>5, <1>7 DEF Shape, Loops
    <3>2. RingSum(rings') \in Nat
      BY <1>9, RingSumIsNatural
    <3>3. QED BY <2>2, <3>1, <3>2, PacketNumbers
  <2>4. x.alerts + alertQ + count.lostAlerts + worker[w].buffer + count.discarded
          = worker[w].alerts + alertQ' + count'.lostAlerts + x.buffer + count'.discarded
    BY <1>1, <1>7
  <2>5. UNCHANGED <<count.submitted, count.dropped, count.failed, count.unlinked,
                    count.fetched>>
    BY <1>1
  <2>6. count' \in Counts /\ alertQ' \in Nat
    BY <1>1, <1>2
  <2>7. QED BY <1>6, <1>8, <1>9, <2>3, <2>4, <2>5, <2>6, WorkerBooks
<1>12. ASSUME Routing PROVE Routing'
  <2>1. AllRoutedTo(ring, w)
    <3>1. PICK k \in Nat : k = w + 1 /\ k - 1 = w
      BY WorkersAreFinite
    <3>2. k \in DOMAIN rings /\ ring = rings[k]
      BY <1>3, <3>1 DEF ring
    <3>3. AllRoutedTo(rings[k], k - 1)
      BY <1>12, <3>2 DEF Routing
    <3>4. QED BY <3>1, <3>2, <3>3
  <2>2. AllRoutedTo(taken, w) /\ AllRoutedTo(rest, w)
    <3>1. DOMAIN ring = 1..Len(ring) /\ DOMAIN taken = 1..n /\ DOMAIN rest = 1..Len(ring) - n
      BY <1>3, <1>5
    <3>2. \A i \in 1..Len(ring) : RoutedTo(ring[i], w)
      BY <2>1, <3>1 DEF AllRoutedTo
    <3>3. \A i \in 1..n : i \in 1..Len(ring)
      BY <1>3, <1>4
    <3>4. \A i \in 1..Len(ring) - n : n + i \in 1..Len(ring)
      BY <1>3, <1>4
    <3>5. AllRoutedTo(taken, w)
      BY <1>5, <3>1, <3>2, <3>3 DEF AllRoutedTo
    <3>6. AllRoutedTo(rest, w)
      BY <1>5, <3>1, <3>2, <3>4 DEF AllRoutedTo
    <3>7. QED BY <3>5, <3>6
  <2>3. DOMAIN rings' = DOMAIN rings
        /\ \A r \in DOMAIN rings : rings'[r] = IF r = w + 1 THEN rest ELSE rings[r]
    BY <1>2, <1>6
  <2>5. \A r \in DOMAIN rings' : AllRoutedTo(rings'[r], r - 1)
    <3>1. PICK k \in Nat : k = w + 1 /\ k - 1 = w
      BY WorkersAreFinite
    <3>2. \A r \in DOMAIN rings : AllRoutedTo(rings[r], r - 1)
      BY <1>12 DEF Routing
    <3>3. AllRoutedTo(rest, k - 1)
      BY <2>2, <3>1
    <3>4. DOMAIN rings' = DOMAIN rings
          /\ \A r \in DOMAIN rings : rings'[r] = IF r = k THEN rest ELSE rings[r]
      BY <2>3, <3>1
    <3>5. QED BY <3>2, <3>3, <3>4
  <2>6. AllRoutedTo(x.batch, w) /\ UNCHANGED analysed
    BY <1>1, <1>7, <2>2
  <2>7. QED BY <1>6, <1>8, <1>12, <2>5, <2>6, WorkerRouting
<1>13. QED BY <1>10, <1>11, <1>12

\* The packet at the head of the batch is analysed.
LEMMA AnalyseKeeps ==
  ASSUME Shape, NEW w \in Workers, Analyse(w)
  PROVE  Shape' /\ (Routing => Routing') /\ (NothingUncounted => NothingUncounted')
<1> DEFINE old == worker[w]
           p == Head(old.batch)
           new == {Pair(p.flows[i]) : i \in DOMAIN p.flows}
<1>1. old.pc = "batch" /\ UNCHANGED <<ParentRest, rings, alertQ>> /\ old # NoProcess
  BY DEF Analyse, NoProcess
<1>2. /\ worker \in [Workers -> WorkerStates] /\ old \in WorkerStates
      /\ rings \in Seq(Seq(Packets)) /\ count \in Counts /\ alertQ \in Nat
      /\ analysed = [v \in Workers |-> analysed[v]]
  BY DEF Shape, TypeOK
<1>3. PICK alerts \in 0..1, put \in BOOLEAN :
        /\ put => alerts = 1
        /\ worker' = [worker EXCEPT
             ![w].batch = Tail(@), ![w].packets = @ + 1, ![w].alerts = @ + alerts,
             ![w].buffer = IF put THEN @ + 1 ELSE @,
             ![w].pc = IF Len(worker[w].batch) = 1 THEN "sync" ELSE "batch"]
        /\ count' = IF alerts = 1 /\ ~put THEN Bump("discarded", 1) ELSE count
        /\ analysed' = [analysed EXCEPT ![w] = @ \union new]
  BY Zenon DEF Analyse
<1> DEFINE x == [old EXCEPT !.batch = Tail(@), !.packets = @ + 1, !.alerts = @ + alerts,
                            !.buffer = IF put THEN @ + 1 ELSE @,
                            !.pc = IF Len(old.batch) = 1 THEN "sync" ELSE "batch"]
<1>4. old.batch \in Seq(Packets) /\ old.batch # <<>>
  BY <1>1, <1>2 DEF Shape, Loops, WorkerStates
<1>5. /\ Tail(old.batch) \in Seq(Packets) /\ Len(Tail(old.batch)) = Len(old.batch) - 1
      /\ \A i \in 1..Len(old.batch) - 1 : Tail(old.batch)[i] = old.batch[i + 1]
      /\ p = old.batch[1] /\ Len(old.batch) \in Nat \ {0} /\ 1 \in DOMAIN old.batch
  BY <1>4, HeadTailProperties, EmptySeq
<1>6. worker' = [worker EXCEPT ![w] = x]
  BY <1>2, <1>3
<1>7. /\ old.packets \in Nat /\ old.alerts \in Nat /\ old.buffer \in Nat
      /\ x.batch = Tail(old.batch) /\ x.packets = old.packets + 1
      /\ x.alerts = old.alerts + alerts /\ x.buffer = IF put THEN old.buffer + 1 ELSE old.buffer
      /\ x.pc = IF Len(old.batch) = 1 THEN "sync" ELSE "batch"
  BY <1>2 DEF WorkerStates
<1>8. x \in WorkerStates
  <2> DEFINE t == Tail(old.batch)
             q == old.packets + 1
             a == old.alerts + alerts
             b == IF put THEN old.buffer + 1 ELSE old.buffer
             c == IF Len(old.batch) = 1 THEN "sync" ELSE "batch"
  <2>1. t \in Seq(Packets) /\ q \in Nat /\ a \in Nat /\ b \in Nat /\ c \in Live
    BY <1>5, <1>7 DEF Live
  <2>2. x = [old EXCEPT !.batch = t, !.packets = q, !.alerts = a, !.buffer = b, !.pc = c]
    OBVIOUS
  <2>3. old \in WorkerStates
    BY <1>2
  <2> HIDE DEF t, q, a, b, c, x, old
  <2>4. QED BY <2>1, <2>2, <2>3 DEF WorkerStates
<1> HIDE DEF x, new
<1>9. count' \in Counts
  BY <1>2, <1>3, CountsAreTyped
<1>10. Shape'
  <2>1. x.pc = "batch" <=> x.batch # <<>>
    <3>1. x.batch = <<>> <=> Len(x.batch) = 0
      BY <1>5, <1>7, EmptySeq
    <3>2. QED BY <1>5, <1>7, <3>1
  <2>2. /\ old.pc \in Dead => x.pc \in Dead
        /\ x.pc \in Looping => old.pc \in Looping
    BY <1>1 DEF Dead, Looping
  <2>3. /\ rings' \in Seq(Seq(Packets)) /\ Len(rings') = Len(rings) /\ alertQ' \in Nat
    BY <1>1, <1>2
  <2>4. analysed' = [v \in Workers |-> analysed'[v]]
    BY <1>2, <1>3
  <2>5. QED BY <1>1, <1>6, <1>8, <1>9, <2>1, <2>2, <2>3, <2>4, WorkerShape
<1>11. NothingUncounted => NothingUncounted'
  <2>1. /\ UNCHANGED <<count.submitted, count.dropped, count.failed, count.unlinked,
                       count.fetched, count.abandoned, count.lostAlerts>>
        /\ count'.discarded = IF alerts = 1 /\ ~put THEN count.discarded + 1
                                                    ELSE count.discarded
    BY <1>2, <1>3 DEF Bump, Counts
  <2>2. RingSum(rings') + Len(x.batch) + x.packets + count'.abandoned
          = RingSum(rings) + Len(old.batch) + old.packets + count.abandoned
    <3>1. /\ Len(x.batch) = Len(old.batch) - 1 /\ x.packets = old.packets + 1
          /\ count'.abandoned = count.abandoned /\ RingSum(rings') = RingSum(rings)
      BY <1>1, <1>5, <1>7, <2>1
    <3>2. PICK l \in Nat \ {0}, q \in Nat, a \in Nat, r \in Nat :
            l = Len(old.batch) /\ q = old.packets /\ a = count.abandoned /\ r = RingSum(rings)
      BY <1>5, <1>7, PacketNumbers
    <3>3. r + (l - 1) + (q + 1) + a = r + l + q + a
      OBVIOUS
    <3>4. QED BY <3>1, <3>2, <3>3
  <2>3. x.alerts + alertQ + count.lostAlerts + old.buffer + count.discarded
          = old.alerts + alertQ' + count'.lostAlerts + x.buffer + count'.discarded
    <3>1. PICK a \in Nat, b \in Nat, q \in Nat, l \in Nat, d \in Nat :
            /\ a = old.alerts /\ b = old.buffer /\ q = alertQ
            /\ l = count.lostAlerts /\ d = count.discarded
      BY <1>7, AlertNumbers
    <3>2. PICK b1 \in Nat, d1 \in Nat :
            /\ b1 = x.buffer /\ d1 = count'.discarded
            /\ b1 = IF put THEN b + 1 ELSE b
            /\ d1 = IF alerts = 1 /\ ~put THEN d + 1 ELSE d
      BY <1>7, <2>1, <3>1
    <3>3. a + alerts + q + l + b + d = a + q + l + b1 + d1
      <4>1. CASE put
        BY <1>3, <3>2, <4>1
      <4>2. CASE ~put /\ alerts = 1
        BY <3>2, <4>2
      <4>3. CASE ~put /\ alerts = 0
        BY <3>2, <4>3
      <4>4. QED BY <4>1, <4>2, <4>3
    <3>4. x.alerts = a + alerts /\ alertQ' = q /\ count'.lostAlerts = l
      BY <1>1, <1>7, <2>1, <3>1
    <3>5. QED BY <3>1, <3>2, <3>3, <3>4
  <2>4. /\ rings' \in Seq(Seq(Packets)) /\ alertQ' \in Nat
    BY <1>1, <1>2
  <2>5. QED BY <1>6, <1>8, <1>9, <2>1, <2>2, <2>3, <2>4, WorkerBooks
<1>12. ASSUME Routing PROVE Routing'
  <2>1. AllRoutedTo(old.batch, w)
    BY <1>12 DEF Routing
  <2>2. RoutedTo(p, w)
    BY <1>5, <2>1 DEF AllRoutedTo
  <2>3. p \in Packets
    BY <1>4, <1>5
  <2>4. AllRoutedTo(x.batch, w)
    <3>1. DOMAIN old.batch = 1..Len(old.batch) /\ DOMAIN x.batch = 1..Len(old.batch) - 1
      BY <1>4, <1>5, <1>7
    <3>2. \A i \in 1..Len(old.batch) - 1 : i + 1 \in 1..Len(old.batch)
      BY <1>5
    <3>3. QED BY <1>5, <1>7, <2>1, <3>1, <3>2 DEF AllRoutedTo
  <2>5. ASSUME NEW pair \in new, Steered(pair) PROVE HashOf[pair] % NumWorkers = w
    <3>1. PICK i \in DOMAIN p.flows : Pair(p.flows[i]) = pair
      BY DEF new
    <3>2. p.kind = "v5" /\ Pair(p.flows[1]) = pair
      BY <2>3, <2>5, <3>1 DEF Steered
    <3>3. QED BY <2>2, <3>2 DEF RoutedTo
  <2>6. \A v \in Workers : \A pair \in analysed'[v] :
          Steered(pair) => HashOf[pair] % NumWorkers = v
    <3>1. \A v \in Workers : analysed'[v] = IF v = w THEN analysed[w] \union new
                                                    ELSE analysed[v]
      BY <1>2, <1>3
    <3>2. QED BY <1>12, <2>5, <3>1 DEF Routing
  <2>7. \A v \in Workers : worker'[v] = IF v = w THEN x ELSE worker[v]
    BY <1>2, <1>6
  <2>8. QED BY <1>1, <1>12, <2>4, <2>6, <2>7 DEF Routing
<1>13. QED BY <1>10, <1>11, <1>12

\* An alert goes from the buffer to the pipe.
LEMMA FeedKeeps ==
  ASSUME Shape, NEW w \in Workers, Feed(w)
  PROVE  Shape' /\ (Routing => Routing') /\ (NothingUncounted => NothingUncounted')
<1> DEFINE old == worker[w]
           b == old.buffer - 1
           x == [old EXCEPT !.buffer = b]
<1>1. /\ worker \in [Workers -> WorkerStates] /\ old \in WorkerStates
      /\ rings \in Seq(Seq(Packets)) /\ count \in Counts /\ alertQ \in Nat
      /\ analysed = [v \in Workers |-> analysed[v]]
  BY DEF Shape, TypeOK
<1>2. /\ old.buffer \in Nat /\ old.buffer > 0 /\ alertQ' = alertQ + 1
      /\ UNCHANGED <<ParentRest, rings, count, analysed>>
  BY <1>1 DEF Feed, WorkerStates
<1>3. worker' = [worker EXCEPT ![w] = x]
  BY <1>1 DEF Feed
<1>4. b \in Nat /\ old.buffer = b + 1 /\ old # NoProcess
  BY <1>2 DEF NoProcess
<1> HIDE DEF b
<1>5. /\ x \in WorkerStates /\ x.pc = old.pc /\ x.batch = old.batch /\ x.buffer = b
      /\ x.packets = old.packets /\ x.alerts = old.alerts
      /\ old.packets \in Nat /\ old.alerts \in Nat
  BY <1>1, <1>4 DEF WorkerStates
<1> HIDE DEF x
<1>6. /\ rings' \in Seq(Seq(Packets)) /\ Len(rings') = Len(rings)
      /\ count' \in Counts /\ alertQ' \in Nat
      /\ analysed' = [v \in Workers |-> analysed'[v]] /\ UNCHANGED ParentRest
  BY <1>1, <1>2
<1>7. Shape'
  <2>1. x.pc = "batch" <=> x.batch # <<>>
    BY <1>5 DEF Shape, Loops
  <2>2. (old.pc \in Dead => x.pc \in Dead) /\ (x.pc \in Looping => old.pc \in Looping)
    BY <1>5
  <2>3. QED BY <1>3, <1>4, <1>5, <1>6, <2>1, <2>2, WorkerShape
<1>8. ASSUME Routing PROVE Routing'
  <2>1. AllRoutedTo(x.batch, w)
    BY <1>5, <1>8 DEF Routing
  <2>2. \A r \in DOMAIN rings' : AllRoutedTo(rings'[r], r - 1)
    BY <1>2, <1>8 DEF Routing
  <2>3. QED BY <1>2, <1>3, <1>5, <1>8, <2>1, <2>2, WorkerRouting
<1>9. NothingUncounted => NothingUncounted'
  <2>1. RingSum(rings') + Len(x.batch) + x.packets + count'.abandoned
          = RingSum(rings) + Len(old.batch) + old.packets + count.abandoned
    BY <1>2, <1>5
  <2>2. x.alerts + alertQ + count.lostAlerts + old.buffer + count.discarded
          = old.alerts + alertQ' + count'.lostAlerts + x.buffer + count'.discarded
    <3>1. PICK a \in Nat, q \in Nat, l \in Nat, d \in Nat, n \in Nat :
            /\ a = old.alerts /\ q = alertQ /\ l = count.lostAlerts
            /\ d = count.discarded /\ n = b
      BY <1>4, <1>5, AlertNumbers
    <3>2. a + q + l + (n + 1) + d = a + (q + 1) + l + n + d
      OBVIOUS
    <3>3. QED BY <1>2, <1>4, <1>5, <3>1, <3>2
  <2>3. UNCHANGED <<count.submitted, count.dropped, count.failed, count.unlinked,
                    count.fetched>>
    BY <1>2
  <2>4. QED BY <1>3, <1>5, <1>6, <2>1, <2>2, <2>3, WorkerBooks
<1>10. QED BY <1>7, <1>8, <1>9

\* An exception ends the loop with the rest of the batch.
LEMMA FailKeeps ==
  ASSUME Shape, NEW w \in Workers, Fail(w)
  PROVE  Shape' /\ (Routing => Routing') /\ (NothingUncounted => NothingUncounted')
<1> DEFINE old == worker[w]
           q == old.packets + 1
           x == [old EXCEPT !.pc = "finally", !.batch = <<>>, !.packets = q]
           n == Len(old.batch) - 1
<1>1. /\ worker \in [Workers -> WorkerStates] /\ old \in WorkerStates
      /\ rings \in Seq(Seq(Packets)) /\ count \in Counts /\ alertQ \in Nat
      /\ analysed = [v \in Workers |-> analysed[v]]
  BY DEF Shape, TypeOK
<1>2. /\ old.pc = "batch" /\ UNCHANGED <<ParentRest, rings, alertQ, analysed>>
      /\ count' = Bump("abandoned", n) /\ old # NoProcess
  BY DEF Fail, NoProcess
<1>3. worker' = [worker EXCEPT ![w] = x]
  BY <1>1 DEF Fail
<1>4. q \in Nat /\ old.packets \in Nat /\ <<>> \in Seq(Packets)
  BY <1>1 DEF WorkerStates
<1>5. n \in Nat /\ Len(old.batch) = n + 1
  <2>1. old.batch \in Seq(Packets) /\ old.batch # <<>>
    BY <1>1, <1>2 DEF Shape, Loops, WorkerStates
  <2>2. Len(old.batch) \in Nat /\ Len(old.batch) # 0
    BY <2>1, EmptySeq
  <2>3. QED BY <2>2
<1> HIDE DEF n
<1>6. /\ x \in WorkerStates /\ x.pc = "finally" /\ x.batch = <<>>
      /\ x.buffer = old.buffer /\ x.packets = q /\ x.alerts = old.alerts
  <2> HIDE DEF q
  <2>1. QED BY <1>1, <1>4 DEF WorkerStates, Live
<1> HIDE DEF x
<1>7. /\ count' \in Counts /\ count'.abandoned = count.abandoned + n
      /\ UNCHANGED <<count.submitted, count.dropped, count.failed, count.unlinked,
                     count.fetched, count.lostAlerts, count.discarded>>
  BY <1>1, <1>2, <1>5, CountsAreTyped DEF Bump, Counts
<1>8. /\ rings' \in Seq(Seq(Packets)) /\ Len(rings') = Len(rings) /\ alertQ' \in Nat
      /\ analysed' = [v \in Workers |-> analysed'[v]] /\ UNCHANGED ParentRest
  BY <1>1, <1>2
<1>9. Shape'
  <2>1. x.pc = "batch" <=> x.batch # <<>>
    BY <1>6
  <2>2. (old.pc \in Dead => x.pc \in Dead) /\ (x.pc \in Looping => old.pc \in Looping)
    BY <1>2, <1>6 DEF Dead, Looping
  <2>3. QED BY <1>2, <1>3, <1>6, <1>7, <1>8, <2>1, <2>2, WorkerShape
<1>10. ASSUME Routing PROVE Routing'
  <2>1. AllRoutedTo(x.batch, w)
    BY <1>6 DEF AllRoutedTo
  <2>2. \A r \in DOMAIN rings' : AllRoutedTo(rings'[r], r - 1)
    BY <1>2, <1>10 DEF Routing
  <2>3. QED BY <1>2, <1>3, <1>6, <1>10, <2>1, <2>2, WorkerRouting
<1>11. NothingUncounted => NothingUncounted'
  <2>1. RingSum(rings') + Len(x.batch) + x.packets + count'.abandoned
          = RingSum(rings) + Len(old.batch) + old.packets + count.abandoned
    <3>1. PICK r \in Nat, a \in Nat, o \in Nat, m \in Nat :
            r = RingSum(rings) /\ a = count.abandoned /\ o = old.packets /\ m = n
      BY <1>4, <1>5, PacketNumbers
    <3>2. r + 0 + (o + 1) + (a + m) = r + (m + 1) + o + a
      OBVIOUS
    <3>3. Len(x.batch) = 0 /\ RingSum(rings') = r
      BY <1>2, <1>6, <3>1
    <3>4. QED BY <1>5, <1>6, <1>7, <3>1, <3>2, <3>3
  <2>2. x.alerts + alertQ + count.lostAlerts + old.buffer + count.discarded
          = old.alerts + alertQ' + count'.lostAlerts + x.buffer + count'.discarded
    BY <1>2, <1>6, <1>7
  <2>3. QED BY <1>3, <1>6, <1>7, <1>8, <2>1, <2>2, WorkerBooks
<1>12. QED BY <1>9, <1>10, <1>11
-----------------------------------------------------------------------------
(* The theorems *)

LEMMA StepKeeps ==
  ASSUME Shape, [Next]_vars
  PROVE  Shape' /\ (Routing => Routing') /\ (NothingUncounted => NothingUncounted')
<1>1. CASE Start
  BY <1>1, StartShape, StartRest
<1>2. CASE StartFails
  BY <1>2, StartFailsShape, StartFailsRest
<1>3. CASE Stop
  BY <1>3, StopShape, FrameRest DEF Stop
<1>4. CASE GetAlerts
  BY <1>4, GetAlertsShape, GetAlertsRest
<1>5. CASE \E p \in Packets : Submit(p)
  BY <1>5, SubmitShape, SubmitRest
<1>6. CASE JoinEnded
  BY <1>6, JoinEndedShape, FrameRest DEF JoinEnded
<1>7. CASE Terminate
  BY <1>7, TerminateShape, TerminateRest
<1>8. CASE Cleanup
  BY <1>8, CleanupShapeAndRest
<1>9. ASSUME NEW w \in Workers,
             LeaveLoop(w) \/ PollEmpty(w) \/ Sync(w) \/ Finally(w) \/ Exit(w)
      PROVE  Shape' /\ (Routing => Routing') /\ (NothingUncounted => NothingUncounted')
  BY <1>9, QuietWorker
<1>10. ASSUME NEW w \in Workers, ReadBatch(w) \/ Analyse(w) \/ Feed(w) \/ Fail(w)
       PROVE  Shape' /\ (Routing => Routing') /\ (NothingUncounted => NothingUncounted')
  BY <1>10, ReadBatchKeeps, AnalyseKeeps, FeedKeeps, FailKeeps
<1>11. CASE UNCHANGED vars
  <2>1. Shape'
    BY <1>11 DEF vars, Shape, TypeOK, Phases, Loops
  <2>2. QED BY <1>11, <2>1, FrameRest DEF vars
<1>12. QED BY <1>1, <1>2, <1>3, <1>4, <1>5, <1>6, <1>7, <1>8, <1>9, <1>10, <1>11 DEF Next

\* What the phases of the parent say of rings and processes (pipeline.py
\* 193-354), for every number of workers and every capacity.
THEOREM PipelineShape == Spec => []Shape
<1>1. Init => Shape
  BY InitShape
<1>2. Shape /\ [Next]_vars => Shape'
  BY StepKeeps
<1>3. QED BY <1>1, <1>2, PTL DEF Spec

LEMMA RoutedMeet == ASSUME Routing PROVE SamePairSameWorker
<1> SUFFICES ASSUME NEW v \in Workers, NEW w \in Workers, v # w,
                    NEW pair \in analysed[v] \intersect analysed[w], Steered(pair)
             PROVE  FALSE
  BY DEF SamePairSameWorker
<1>1. HashOf[pair] % NumWorkers = v /\ HashOf[pair] % NumWorkers = w
  BY DEF Routing
<1>2. QED BY <1>1

\* Both directions of a conversation that v5 datagrams carry in front reach
\* one worker (pipeline.py 35-44, 256-270), whatever the datagrams, the hash
\* function, the number of workers, and however the rings fill.
THEOREM SamePairAlwaysSameWorker == Spec => []SamePairSameWorker
<1>1. Init => Routing
  BY InitRest
<1>2. Shape /\ Routing /\ [Next]_vars => Routing'
  BY StepKeeps
<1>3. Routing => SamePairSameWorker
  BY RoutedMeet
<1>4. QED BY <1>1, <1>2, <1>3, PipelineShape, PTL DEF Spec

\* Every datagram and every alert is in one place or counted as lost (pipeline.py
\* 104-127, 246-284, 330-354), for every number of workers, every capacity, and
\* whatever dies when.
THEOREM NothingEverUncounted == Spec => []NothingUncounted
<1>1. Init => NothingUncounted
  BY InitRest
<1>2. Shape /\ NothingUncounted /\ [Next]_vars => NothingUncounted'
  BY StepKeeps
<1>3. QED BY <1>1, <1>2, PipelineShape, PTL DEF Spec
=============================================================================
