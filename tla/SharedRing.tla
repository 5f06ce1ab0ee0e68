----------------------------- MODULE SharedRing -----------------------------
(***************************************************************************)
(* SharedMemoryRingBuffer (collector/ring_buffer.py): a circular buffer in *)
(* POSIX shared memory between the process that receives datagrams and one *)
(* worker process.                                                         *)
(*                                                                         *)
(* Every method takes self._lock, but the lock belongs to the Python       *)
(* object: the pipeline's object and the one the worker makes with         *)
(* create=False each have their own, so a write and a read of the two      *)
(* processes overlap freely.  oneHandle tells the two uses apart: TRUE,    *)
(* one object is shared by every thread and the lock excludes all other    *)
(* calls; FALSE, the producer and the consumer hold an object each.  In    *)
(* both, the lock leaves at most one write and one read in progress.       *)
(*                                                                         *)
(* The header words write_head and read_tail are stored and loaded with    *)
(* struct "!Q": pack_into first clears the eight bytes (one memset), then  *)
(* stores them one at a time from the least significant up; unpack_from    *)
(* loads them from the most significant down.  A word is two digits in     *)
(* base Base, which stands for the byte boundary a carry crosses; clearing *)
(* the word is one step and each digit is one step.  A slot is its 12-byte *)
(* prefix and its payload, a step each.  Its contents are abstracted to    *)
(* the ordinal of the accepted write that stored them.                     *)
(***************************************************************************)
EXTENDS Integers, Sequences

CONSTANTS Capacity,    \* number of slots
          Base,        \* value of the boundary between a word's two digits
          BatchSizes,  \* the max_items consumers ask for; read() asks for 1
          MaxWrites,   \* bound: accepted writes
          MaxDrops     \* bound: dropped writes

ASSUME RingAssumption ==
  /\ Capacity \in Nat \ {0}
  /\ Base \in Nat \ {0, 1}
  /\ BatchSizes \subseteq Nat \ {0}
  /\ MaxWrites \in Nat
  /\ MaxDrops \in Nat

VARIABLES oneHandle,  \* do producer and consumer share one object's lock?
          head,       \* header word write_head
          tail,       \* header word read_tail
          dropped,    \* header word dropped (stored by the producer alone)
          slot,       \* the slots
          prod,       \* the call of write in progress, and its locals
          cons,       \* the call of read or read_batch in progress
          epoch,      \* history: ordinal of the write at position 0
          delivered   \* history: what the reads returned, in order

vars == <<oneHandle, head, tail, dropped, slot, prod, cons, epoch,
          delivered>>

Lo(n) == n % Base
Hi(n) == n \div Base
Word(n) == [hi |-> Hi(n), lo |-> Lo(n)]
Val(h, l) == h * Base + l

Index(pos) == pos % Capacity      \* slot_idx
Ordinal(pos) == epoch + pos

(***************************************************************************)
(* The position each side has published.  It moves when the low digit is   *)
(* stored: the other side sees no more than this, while the word is        *)
(* cleared it sees less.                                                   *)
(***************************************************************************)
HeadPos == CASE prod.pc = "head_lo" -> prod.wh
             [] prod.pc = "head_hi" -> prod.wh + 1
             [] OTHER -> Val(head.hi, head.lo)
TailPos == CASE cons.pc = "tail_lo" -> cons.rt
             [] cons.pc = "tail_hi" -> cons.rt + cons.n
             [] OTHER -> Val(tail.hi, tail.lo)

Empty == [prefix |-> -1, payload |-> -1]
ProdIdle == [pc |-> "idle", wh |-> 0, hi |-> 0]
ConsIdle == [pc |-> "idle", max |-> 0, hi |-> 0, rt |-> 0, n |-> 0,
             prefix |-> -1, got |-> <<>>]

Init == /\ oneHandle \in BOOLEAN
        /\ head = Word(0) /\ tail = Word(0) /\ dropped = 0
        /\ slot = [i \in 0..Capacity - 1 |-> Empty]
        /\ prod = ProdIdle /\ cons = ConsIdle
        /\ epoch = 0 /\ delivered = <<>>

LockFree(other) == oneHandle => other.pc = "idle"

-----------------------------------------------------------------------------
(* write(), run by the producer *)

\* unpack_from(HEADER_FORMAT): write_head, then the high digit of read_tail.
CallWrite == /\ prod.pc = "idle" /\ LockFree(cons)
             /\ Ordinal(HeadPos) < MaxWrites /\ dropped < MaxDrops
             /\ prod' = [pc |-> "tail_lo", wh |-> Val(head.hi, head.lo),
                         hi |-> tail.hi]
             /\ UNCHANGED <<oneHandle, head, tail, dropped, slot, cons, epoch, delivered>>

\* Mutant: off by one.
HasRoomOffByOne(wh, rt) == wh - rt <= Capacity
\* The ring has room for position wh, as far as the producer can tell.
HasRoom(wh, rt) == wh - rt < Capacity

\* The low digit of read_tail, and the check for a saturated ring.
CheckRoom ==
  /\ prod.pc = "tail_lo"
  /\ \/ /\ HasRoom(prod.wh, Val(prod.hi, tail.lo))
        /\ prod' = [prod EXCEPT !.pc = "prefix"]
        /\ UNCHANGED dropped
     \/ /\ ~HasRoom(prod.wh, Val(prod.hi, tail.lo))
        /\ dropped' = dropped + 1
        /\ prod' = ProdIdle
  /\ UNCHANGED <<oneHandle, head, tail, slot, cons, epoch, delivered>>

StorePrefix ==
  /\ prod.pc = "prefix"
  /\ slot' = [slot EXCEPT ![Index(prod.wh)].prefix = Ordinal(prod.wh)]
  /\ prod' = [prod EXCEPT !.pc = "payload"]
  /\ UNCHANGED <<oneHandle, head, tail, dropped, cons, epoch, delivered>>

StorePayload ==
  /\ prod.pc = "payload"
  /\ slot' = [slot EXCEPT ![Index(prod.wh)].payload = Ordinal(prod.wh)]
  /\ prod' = [prod EXCEPT !.pc = "head_clear"]
  /\ UNCHANGED <<oneHandle, head, tail, dropped, cons, epoch, delivered>>

\* pack_into("!Q") of write_head: the word is cleared, then stored.
ClearHead ==
  /\ prod.pc = "head_clear"
  /\ head' = Word(0)
  /\ prod' = [prod EXCEPT !.pc = "head_lo"]
  /\ UNCHANGED <<oneHandle, tail, dropped, slot, cons, epoch, delivered>>

StoreHeadLo ==
  /\ prod.pc = "head_lo"
  /\ head' = [head EXCEPT !.lo = Lo(prod.wh + 1)]
  /\ prod' = [prod EXCEPT !.pc = "head_hi"]
  /\ UNCHANGED <<oneHandle, tail, dropped, slot, cons, epoch, delivered>>

StoreHeadHi ==
  /\ prod.pc = "head_hi"
  /\ head' = [head EXCEPT !.hi = Hi(prod.wh + 1)]
  /\ prod' = ProdIdle
  /\ UNCHANGED <<oneHandle, tail, dropped, slot, cons, epoch, delivered>>

-----------------------------------------------------------------------------
(* read_batch(max), and read(), which is read_batch(1) *)

\* unpack_from("!QQ"): the high digit of write_head first.
CallRead(max) ==
  /\ cons.pc = "idle" /\ LockFree(prod)
  /\ cons' = [ConsIdle EXCEPT !.pc = "head_lo", !.max = max, !.hi = head.hi]
  /\ UNCHANGED <<oneHandle, head, tail, dropped, slot, prod, epoch, delivered>>

\* Mutant: max_items is taken even when fewer are pending.
AvailableUnclipped(max, wh, rt) == IF wh - rt <= 0 THEN 0 ELSE max
\* Mutant: the last packet is taken for an empty ring.
AvailableKeepsOne(max, wh, rt) ==
  IF wh - rt <= 1 THEN 0 ELSE IF wh - rt < max THEN wh - rt ELSE max
\* available = min(max_items, max(0, write_head - read_tail)).
Available(max, wh, rt) == IF wh - rt <= 0 THEN 0
                          ELSE IF wh - rt < max THEN wh - rt ELSE max

\* The low digit of write_head, then read_tail; an empty ring returns [].
CheckAvailable ==
  /\ cons.pc = "head_lo"
  /\ LET rt == Val(tail.hi, tail.lo)
         n  == Available(cons.max, Val(cons.hi, head.lo), rt)
     IN  cons' = IF n = 0 THEN ConsIdle
                 ELSE [cons EXCEPT !.pc = "prefix", !.rt = rt, !.n = n]
  /\ UNCHANGED <<oneHandle, head, tail, dropped, slot, prod, epoch, delivered>>

\* Mutant: read_tail is not advanced inside the batch.
ReadIndexStuck == Index(cons.rt)
ReadIndex == Index(cons.rt + Len(cons.got))

LoadPrefix ==
  /\ cons.pc = "prefix"
  /\ cons' = [cons EXCEPT !.pc = "payload", !.prefix = slot[ReadIndex].prefix]
  /\ UNCHANGED <<oneHandle, head, tail, dropped, slot, prod, epoch, delivered>>

LoadPayload ==
  /\ cons.pc = "payload"
  /\ cons' = [cons EXCEPT
                !.pc = IF Len(cons.got) + 1 = cons.n THEN "tail_clear" ELSE "prefix",
                !.got = Append(cons.got, [prefix  |-> cons.prefix,
                                          payload |-> slot[ReadIndex].payload])]
  /\ UNCHANGED <<oneHandle, head, tail, dropped, slot, prod, epoch, delivered>>

\* pack_into("!Q") of read_tail.
ClearTail ==
  /\ cons.pc = "tail_clear"
  /\ tail' = Word(0)
  /\ cons' = [cons EXCEPT !.pc = "tail_lo"]
  /\ UNCHANGED <<oneHandle, head, dropped, slot, prod, epoch, delivered>>

StoreTailLo ==
  /\ cons.pc = "tail_lo"
  /\ tail' = [tail EXCEPT !.lo = Lo(cons.rt + cons.n)]
  /\ cons' = [cons EXCEPT !.pc = "tail_hi"]
  /\ delivered' = delivered \o cons.got
  /\ UNCHANGED <<oneHandle, head, dropped, slot, prod, epoch>>

StoreTailHi ==
  /\ cons.pc = "tail_hi"
  /\ tail' = [tail EXCEPT !.hi = Hi(cons.rt + cons.n)]
  /\ cons' = ConsIdle
  /\ UNCHANGED <<oneHandle, head, dropped, slot, prod, epoch, delivered>>

-----------------------------------------------------------------------------
\* clear(), which only threads that share the object call: both pointers and
\* the drop counter go back to 0, the slots keep their old contents.
Clear ==
  /\ oneHandle /\ prod.pc = "idle" /\ cons.pc = "idle"
  /\ epoch' = Ordinal(HeadPos)
  /\ head' = Word(0) /\ tail' = Word(0) /\ dropped' = 0
  /\ UNCHANGED <<oneHandle, slot, prod, cons, delivered>>

ProducerStep == CheckRoom \/ StorePrefix \/ StorePayload
                  \/ ClearHead \/ StoreHeadLo \/ StoreHeadHi
ConsumerStep == CheckAvailable \/ LoadPrefix \/ LoadPayload
                  \/ ClearTail \/ StoreTailLo \/ StoreTailHi

Next == \/ CallWrite
        \/ CheckRoom \/ StorePrefix \/ StorePayload
        \/ ClearHead \/ StoreHeadLo \/ StoreHeadHi
        \/ \E max \in BatchSizes : CallRead(max)
        \/ CheckAvailable \/ LoadPrefix \/ LoadPayload
        \/ ClearTail \/ StoreTailLo \/ StoreTailHi
        \/ Clear

Spec == Init /\ [][Next]_vars

(***************************************************************************)
(* The worker polls its ring for ever (worker_process_loop), and a call    *)
(* that has begun runs to its end.  Nothing obliges the producer to call   *)
(* write.                                                                  *)
(***************************************************************************)
Fairness == /\ WF_vars(ProducerStep)
            /\ WF_vars(ConsumerStep)
            /\ WF_vars(\E max \in BatchSizes : CallRead(max))

FairSpec == Spec /\ Fairness
-----------------------------------------------------------------------------
Digits == [hi : Nat, lo : 0..Base - 1]
Contents == [prefix : Int, payload : Int]
WriteCalls == [pc : {"idle", "tail_lo", "prefix", "payload", "head_clear",
                     "head_lo", "head_hi"}, wh : Nat, hi : Nat]
ReadCalls == [pc : {"idle", "head_lo", "prefix", "payload", "tail_clear",
                    "tail_lo", "tail_hi"}, max : Nat, hi : Nat, rt : Nat, n : Nat,
              prefix : Int, got : Seq(Contents)]

\* The variables keep their shape.
TypeOK ==
  /\ oneHandle \in BOOLEAN
  /\ head \in Digits /\ tail \in Digits /\ dropped \in Nat
  /\ slot \in [0..Capacity - 1 -> Contents]
  /\ prod \in WriteCalls /\ cons \in ReadCalls
  /\ epoch \in Nat /\ delivered \in Seq(Contents)

\* No overrun (write, lines 128-149): while the producer fills a slot, the
\* ring has a free place for it, so the slot holds no packet the consumer has
\* still to read, even if the read_tail it checked was torn or out of date.
NoOverrun ==
  prod.pc \in {"prefix", "payload", "head_clear", "head_lo"} =>
    prod.wh < TailPos + Capacity

\* A window that never exceeds the ring (lines 128-134, 185, 202): the
\* published positions are ordered and at most Capacity apart.
WindowFits == TailPos <= HeadPos /\ HeadPos <= TailPos + Capacity

\* No torn or stale packet (lines 189-199): a packet a read has copied is the
\* one the producer stored at that position, prefix and payload of the same
\* write.
ReadsAreExact ==
  \A k \in 1..Len(cons.got) :
    cons.got[k] = [prefix  |-> Ordinal(cons.rt + k - 1),
                   payload |-> Ordinal(cons.rt + k - 1)]

\* The refinement mapping: the queue is what lies between the two positions.
Queued == [i \in 1..HeadPos - TailPos |-> Ordinal(TailPos + i - 1)]
Fifo == INSTANCE BoundedFifo WITH
          queue <- Queued, accepted <- Ordinal(HeadPos), lost <- dropped,
          taken <- [i \in DOMAIN delivered |-> delivered[i].payload]

\* The ring implements the bounded queue (ring_buffer.py, whole class).
ImplementsFifo == Fifo!Spec

\* Every packet the ring accepted reaches the worker (lines 151-153, 178-203):
\* a torn word delays a delivery, it never hides a packet for good.  Only
\* threads that share one object may clear() it.
EveryPacketDelivered ==
  \A k \in 1..MaxWrites :
    (~oneHandle /\ Ordinal(HeadPos) >= k) ~> (Len(delivered) >= k)

-----------------------------------------------------------------------------
(* The inductive invariant, by parts. *)

\* A memory word has the low digit of the published position, or none while
\* it is cleared, and a high digit that is not ahead of it.
WordsFollow ==
  /\ head.lo = IF prod.pc = "head_lo" THEN 0 ELSE Lo(HeadPos)
  /\ tail.lo = IF cons.pc = "tail_lo" THEN 0 ELSE Lo(TailPos)
  /\ head.hi <= Hi(HeadPos) /\ tail.hi <= Hi(TailPos)

\* Every packet between the two positions is whole in its slot.
WholePackets ==
  \A p \in TailPos..HeadPos - 1 :
    slot[Index(p)] = [prefix |-> Ordinal(p), payload |-> Ordinal(p)]

\* What the producer's locals still say of the shared memory.
ProducerLocals ==
  /\ prod.pc \notin {"idle", "head_hi"} => prod.wh = HeadPos
  /\ prod.pc = "tail_lo" => prod.hi <= Hi(TailPos)
  /\ NoOverrun
  /\ prod.pc \in {"payload", "head_clear", "head_lo"} =>
       slot[Index(prod.wh)].prefix = Ordinal(prod.wh)
  /\ prod.pc \in {"head_clear", "head_lo"} =>
       slot[Index(prod.wh)].payload = Ordinal(prod.wh)

\* What the consumer's locals still say of it.
ConsumerLocals ==
  /\ cons.pc \in {"idle", "head_lo"} => cons.got = <<>>
  /\ cons.pc = "head_lo" => cons.hi <= Hi(HeadPos)
  /\ cons.pc \in {"prefix", "payload", "tail_clear", "tail_lo"} =>
       /\ cons.rt = TailPos
       /\ cons.rt + cons.n <= HeadPos
  /\ cons.pc \in {"prefix", "payload"} => Len(cons.got) < cons.n
  /\ cons.pc \in {"tail_clear", "tail_lo"} => Len(cons.got) = cons.n
  /\ cons.pc = "payload" => cons.prefix = Ordinal(cons.rt + Len(cons.got))
  /\ ReadsAreExact

IInv == /\ TypeOK
        /\ WordsFollow
        /\ WindowFits
        /\ WholePackets
        /\ ProducerLocals
        /\ ConsumerLocals
=============================================================================
