-------------------------- MODULE SharedRingProofs --------------------------
(***************************************************************************)
(* Proofs about SharedRing, for every capacity, digit base, set of batch   *)
(* sizes and bound.  The argument rests on one inequality: because a store *)
(* clears the word and then goes from the low digit up, and a load from    *)
(* the high digit down, the value a load assembles is never above the      *)
(* position the other side has published by the time the load ends         *)
(* (TornLoad).  So the producer may take the ring for fuller than it is    *)
(* and the consumer for emptier, and never the other way round.            *)
(***************************************************************************)
EXTENDS SharedRing, TLAPS, SequenceTheorems

-----------------------------------------------------------------------------
(* Digits and indexes. *)

LEMMA DivMod ==
  ASSUME NEW d \in Nat \ {0}, NEW n \in Nat
  PROVE  /\ n \div d \in Nat
         /\ n % d \in 0..d - 1
         /\ n = (n \div d) * d + (n % d)
BY SMT

LEMMA MulMono ==
  ASSUME NEW d \in Nat, NEW a \in Nat, NEW b \in Nat, a <= b
  PROVE  a * d <= b * d
BY SMT

\* Two numbers in the same block of d have the same quotient; a larger
\* quotient is a larger number.
LEMMA QuotientOrder ==
  ASSUME NEW d \in Nat \ {0}, NEW x \in Nat, NEW y \in Nat,
         NEW r \in 0..d - 1, NEW s \in 0..d - 1,
         x * d + r <= y * d + s
  PROVE  x <= y
<1>1. CASE x <= y
  BY <1>1
<1>2. CASE y + 1 <= x
  <2>1. (y + 1) * d <= x * d BY <1>2, MulMono
  <2>2. (y + 1) * d = y * d + d BY SMT
  <2>3. /\ x * d \in Nat /\ y * d \in Nat BY SMT
  <2>4. QED BY <2>1, <2>2, <2>3, SMT
<1>3. QED BY <1>1, <1>2, SMT

LEMMA ModDistinct ==
  ASSUME NEW d \in Nat \ {0}, NEW p \in Nat, NEW q \in Nat,
         p < q, q < p + d
  PROVE  p % d # q % d
<1> DEFINE x == p \div d  y == q \div d
<1>1. /\ x \in Nat /\ y \in Nat /\ p % d \in 0..d-1 /\ q % d \in 0..d-1
      /\ p = x * d + (p % d) /\ q = y * d + (q % d)
  BY DivMod
<1> SUFFICES ASSUME p % d = q % d PROVE FALSE OBVIOUS
<1> HIDE DEF x, y
<1>2. y * d - x * d = q - p
  BY <1>1, SMT
<1>3. CASE y <= x
  BY <1>3, <1>1, <1>2, y * d <= x * d, MulMono, SMT
<1>4. CASE x + 1 <= y
  <2>1. (x + 1) * d <= y * d BY <1>4, <1>1, MulMono
  <2>2. (x + 1) * d = x * d + d BY <1>1, SMT
  <2>3. QED BY <2>1, <2>2, <1>1, <1>2, SMT
<1>5. QED BY <1>1, <1>3, <1>4, SMT

\* A number's digits are digits, and stand for it.
LEMMA DigitsOf ==
  ASSUME NEW n \in Nat
  PROVE  Hi(n) \in Nat /\ Lo(n) \in 0..Base - 1 /\ Val(Hi(n), Lo(n)) = n
BY DivMod, RingAssumption DEF Hi, Lo, Val

LEMMA ValNat ==
  ASSUME NEW h \in Nat, NEW l \in 0..Base - 1
  PROVE  Val(h, l) \in Nat
BY RingAssumption, SMT DEF Val

\* The digits of a value are the ones it was made of.
LEMMA DigitsUnique ==
  ASSUME NEW h \in Nat, NEW l \in 0..Base - 1
  PROVE  Hi(Val(h, l)) = h /\ Lo(Val(h, l)) = l
<1> DEFINE n == Val(h, l)
<1>1. n \in Nat BY ValNat
<1>2. Hi(n) \in Nat /\ Lo(n) \in 0..Base - 1 /\ Val(Hi(n), Lo(n)) = n
  BY <1>1, DigitsOf
<1> HIDE DEF n
<1>3. Hi(n) * Base + Lo(n) = h * Base + l
  BY <1>2 DEF Val, n
<1>4. Base \in Nat \ {0} BY RingAssumption
<1>5. Hi(n) * Base + Lo(n) \in Nat BY <1>2, <1>4, SMT
<1>6. Hi(n) <= h BY <1>2, <1>3, <1>4, <1>5, QuotientOrder, SMT
<1>7. h <= Hi(n) BY <1>2, <1>3, <1>4, <1>5, QuotientOrder, SMT
<1>8. Hi(n) = h BY <1>2, <1>6, <1>7, SMT
<1>9. Lo(n) = l
  <2>1. h * Base \in Nat BY <1>4, SMT
  <2>2. QED BY <2>1, <1>2, <1>3, <1>8, SMT
<1>10. QED BY <1>8, <1>9 DEF n

LEMMA ZeroDigits == Hi(0) = 0 /\ Lo(0) = 0
<1>1. Hi(0) \in Nat /\ Lo(0) \in 0..Base - 1 /\ Hi(0) * Base + Lo(0) = 0
  BY DigitsOf DEF Val
<1>2. CASE Hi(0) = 0
  BY <1>1, <1>2, RingAssumption
<1>3. CASE 1 <= Hi(0)
  <2>1. 1 * Base <= Hi(0) * Base
    BY <1>1, <1>3, MulMono, RingAssumption
  <2>2. Hi(0) * Base \in Nat
    BY <1>1, RingAssumption, SMT
  <2>3. QED BY <1>1, <2>1, <2>2, RingAssumption
<1>4. QED BY <1>1, <1>2, <1>3

LEMMA HiMono ==
  ASSUME NEW m \in Nat, NEW n \in Nat, m <= n
  PROVE  Hi(m) <= Hi(n)
<1>1. /\ Hi(m) \in Nat /\ Lo(m) \in 0..Base - 1 /\ Val(Hi(m), Lo(m)) = m
      /\ Hi(n) \in Nat /\ Lo(n) \in 0..Base - 1 /\ Val(Hi(n), Lo(n)) = n
  BY DigitsOf
<1>2. Hi(m) * Base + Lo(m) <= Hi(n) * Base + Lo(n)
  BY <1>1 DEF Val
<1>3. QED BY <1>1, <1>2, RingAssumption, QuotientOrder

\* A load that took an old or a cleared high digit, and the current or a
\* cleared low digit of n, gives at most n.
LEMMA TornLoad ==
  ASSUME NEW n \in Nat, NEW h \in Nat, h <= Hi(n), NEW l \in {0, Lo(n)}
  PROVE  Val(h, l) \in Nat /\ Val(h, l) <= n
<1>1. Hi(n) \in Nat /\ Lo(n) \in 0..Base - 1 /\ Val(Hi(n), Lo(n)) = n
  BY DigitsOf
<1>2. h * Base <= Hi(n) * Base
  BY <1>1, MulMono, RingAssumption
<1>3. h * Base \in Nat /\ Hi(n) * Base \in Nat
  BY <1>1, RingAssumption, SMT
<1>4. l \in Nat /\ l <= Lo(n)
  BY <1>1, RingAssumption
<1>5. QED BY <1>1, <1>2, <1>3, <1>4, SMT DEF Val

LEMMA IndexInSlots ==
  ASSUME NEW p \in Nat
  PROVE  Index(p) \in 0..Capacity - 1
BY DivMod, RingAssumption DEF Index

\* Positions less than Capacity apart have slots of their own.
LEMMA IndexDistinct ==
  ASSUME NEW p \in Nat, NEW q \in Nat, p < q, q < p + Capacity
  PROVE  Index(p) # Index(q)
BY ModDistinct, RingAssumption DEF Index

-----------------------------------------------------------------------------
(* Consequences of the invariant that most steps use. *)

LEMMA Positions ==
  ASSUME TypeOK
  PROVE  /\ HeadPos \in Nat /\ TailPos \in Nat
         /\ Val(head.hi, head.lo) \in Nat /\ Val(tail.hi, tail.lo) \in Nat
<1>1. Val(head.hi, head.lo) \in Nat /\ Val(tail.hi, tail.lo) \in Nat
  BY ValNat DEF TypeOK, WriteCalls, ReadCalls, Digits
<1>2. /\ prod.wh \in Nat /\ prod.wh + 1 \in Nat
      /\ cons.rt \in Nat /\ cons.rt + cons.n \in Nat
  BY DEF TypeOK, WriteCalls, ReadCalls
<1>3. QED BY <1>1, <1>2 DEF HeadPos, TailPos

\* Room as the producer sees it is room.
LEMMA RoomIsConservative ==
  ASSUME NEW wh \in Nat, NEW seen \in Nat, NEW rt \in Nat,
         seen <= rt, wh - seen < Capacity
  PROVE  wh < rt + Capacity
BY RingAssumption

LEMMA InitInv == Init => IInv
<1> SUFFICES ASSUME Init PROVE IInv
  OBVIOUS
<1>1. Hi(0) \in Nat /\ Lo(0) \in 0..Base - 1 /\ Val(Hi(0), Lo(0)) = 0
  BY DigitsOf
<1>2. TypeOK
  BY <1>1, RingAssumption
     DEF Init, TypeOK, WriteCalls, ReadCalls, Word, Digits, Contents, Empty, ProdIdle, ConsIdle
<1>3. HeadPos = 0 /\ TailPos = 0
  BY <1>1 DEF Init, HeadPos, TailPos, Word, ProdIdle, ConsIdle
<1>4. WordsFollow
  BY <1>1, <1>3, ZeroDigits DEF Init, WordsFollow, Word, ProdIdle, ConsIdle
<1>5. WindowFits /\ WholePackets
  BY <1>3, RingAssumption DEF WindowFits, WholePackets
<1>6. ProducerLocals
  BY DEF Init, ProducerLocals, NoOverrun, ProdIdle
<1>7. ConsumerLocals
  BY DEF Init, ConsumerLocals, ReadsAreExact, ConsIdle
<1>8. QED BY <1>2, <1>4, <1>5, <1>6, <1>7 DEF IInv

-----------------------------------------------------------------------------
(* One lemma per action. *)

LEMMA CallWriteInv == IInv /\ CallWrite => IInv'
<1> SUFFICES ASSUME IInv, CallWrite PROVE IInv'
  OBVIOUS
<1> USE DEF IInv, CallWrite
<1>1. TypeOK'
  <2>1. /\ Val(head.hi, head.lo) \in Nat
        /\ HeadPos \in Nat /\ TailPos \in Nat
    BY Positions
  <2>2. HeadPos - TailPos \in Int /\ tail.hi \in Nat
    BY <2>1 DEF TypeOK, WriteCalls, ReadCalls, Digits
  <2>3. QED BY <2>1, <2>2 DEF TypeOK, WriteCalls, ReadCalls
<1>2. HeadPos' = HeadPos /\ TailPos' = TailPos
  BY DEF HeadPos, TailPos
<1>3. WordsFollow' /\ WindowFits'
  BY <1>2 DEF WordsFollow, WindowFits, Lo, Hi
<1>4. WholePackets'
  BY <1>2 DEF WholePackets, Index, Ordinal
<1>5. ProducerLocals'
  <2>1. prod'.pc = "tail_lo" /\ prod'.wh = HeadPos /\ prod'.hi = tail.hi
    BY DEF HeadPos
  <2>2. prod'.hi <= Hi(TailPos)'
    BY <1>2, <2>1 DEF WordsFollow, Hi
  <2>3. QED BY <1>2, <2>1, <2>2 DEF ProducerLocals, NoOverrun
<1>6. ConsumerLocals'
  BY <1>2 DEF ConsumerLocals, ReadsAreExact, Ordinal, Hi, Val
<1>7. QED BY <1>1, <1>3, <1>4, <1>5, <1>6

LEMMA CheckRoomInv == IInv /\ CheckRoom => IInv'
<1> SUFFICES ASSUME IInv, CheckRoom PROVE IInv'
  OBVIOUS
<1> USE DEF IInv, CheckRoom
<1>1. TypeOK'
  BY DEF TypeOK, WriteCalls, ReadCalls, ProdIdle
<1>2. HeadPos' = HeadPos /\ TailPos' = TailPos
  <2>1. prod.pc = "tail_lo" /\ prod'.pc \in {"prefix", "idle"}
    BY DEF ProdIdle, TypeOK, WriteCalls, ReadCalls
  <2>2. head' = head /\ tail' = tail /\ cons' = cons
    OBVIOUS
  <2>3. QED BY ONLY <2>1, <2>2 DEF HeadPos, TailPos
<1>3. WordsFollow' /\ WindowFits'
  <2>1. prod.pc = "tail_lo" /\ prod'.pc \in {"prefix", "idle"}
    BY DEF ProdIdle, TypeOK, WriteCalls
  <2>2. QED BY <1>2, <2>1 DEF WordsFollow, WindowFits, Lo, Hi
<1>4. WholePackets'
  BY <1>2 DEF WholePackets, Index, Ordinal
<1>5. ProducerLocals'
  <2>1. CASE HasRoom(prod.wh, Val(prod.hi, tail.lo))
    <3>1. /\ prod' = [prod EXCEPT !.pc = "prefix"]
          /\ prod.wh - Val(prod.hi, tail.lo) < Capacity
      BY <2>1 DEF HasRoom
    <3>2. /\ Val(prod.hi, tail.lo) \in Nat
          /\ Val(prod.hi, tail.lo) <= TailPos
      <4>1. TailPos \in Nat /\ prod.hi \in Nat /\ prod.hi <= Hi(TailPos)
        BY Positions DEF TypeOK, WriteCalls, ProducerLocals
      <4>2. tail.lo \in {0, Lo(TailPos)}
        BY DEF WordsFollow
      <4>3. QED BY <4>1, <4>2, TornLoad
    <3>3. prod.wh < TailPos + Capacity
      BY <3>1, <3>2, RoomIsConservative, Positions DEF TypeOK, WriteCalls, ReadCalls
    <3>4. NoOverrun'
      BY <1>2, <3>1, <3>3 DEF NoOverrun, TypeOK, WriteCalls, ReadCalls
    <3>5. prod'.pc = "prefix" /\ prod'.wh = prod.wh
      BY <3>1 DEF TypeOK, WriteCalls, ReadCalls
    <3>6. prod.wh = HeadPos'
      BY <1>2 DEF ProducerLocals
    <3>7. QED BY <3>4, <3>5, <3>6 DEF ProducerLocals
  <2>2. CASE ~HasRoom(prod.wh, Val(prod.hi, tail.lo))
    BY <2>2 DEF ProducerLocals, NoOverrun, ProdIdle
  <2>3. QED BY <2>1, <2>2
<1>6. ConsumerLocals'
  BY <1>2 DEF ConsumerLocals, ReadsAreExact, Ordinal, Hi, Val
<1>7. QED BY <1>1, <1>3, <1>4, <1>5, <1>6
LEMMA StorePrefixInv == IInv /\ StorePrefix => IInv'
<1> SUFFICES ASSUME IInv, StorePrefix PROVE IInv'
  OBVIOUS
<1> USE DEF IInv, StorePrefix
<1>0. /\ prod.wh \in Nat /\ prod.wh = HeadPos
      /\ Index(prod.wh) \in 0..Capacity - 1
      /\ Ordinal(prod.wh) \in Nat
      /\ prod.wh < TailPos + Capacity
  BY Positions, IndexInSlots, SMTT(30) DEF TypeOK, WriteCalls, ReadCalls, ProducerLocals, HeadPos, Ordinal,
     NoOverrun
<1>1. TypeOK'
  <2>1. slot' \in [0..Capacity - 1 -> Contents]
    <3>1. /\ slot[Index(prod.wh)] \in Contents
          /\ Ordinal(prod.wh) \in Int
      BY <1>0 DEF TypeOK, WriteCalls, ReadCalls
    <3>2. [slot[Index(prod.wh)] EXCEPT !.prefix = Ordinal(prod.wh)] \in Contents
      BY <3>1 DEF Contents
    <3>3. slot' = [slot EXCEPT ![Index(prod.wh)] =
                     [slot[Index(prod.wh)] EXCEPT !.prefix = Ordinal(prod.wh)]]
      OBVIOUS
    <3>4. QED BY <1>0, <3>2, <3>3 DEF TypeOK, WriteCalls, ReadCalls
  <2>2. QED BY <2>1 DEF TypeOK, WriteCalls, ReadCalls
<1>2. HeadPos' = HeadPos /\ TailPos' = TailPos
  BY DEF HeadPos, TailPos, TypeOK, WriteCalls, ReadCalls
<1>3. WordsFollow' /\ WindowFits'
  BY <1>2 DEF WordsFollow, WindowFits, Lo, Hi
<1>4. WholePackets'
  <2>1. ASSUME NEW p \in TailPos..HeadPos - 1
        PROVE  p \in Nat /\ Index(p) # Index(prod.wh)
    <3>1. p \in Nat /\ p < prod.wh /\ prod.wh < p + Capacity
      BY <1>0, Positions, RingAssumption
    <3>2. QED BY <1>0, <3>1, IndexDistinct
  <2>2. \A p \in TailPos..HeadPos - 1 : slot'[Index(p)] = slot[Index(p)]
    BY <1>0, <2>1 DEF TypeOK, WriteCalls, ReadCalls
  <2>3. QED BY <1>2, <2>2 DEF WholePackets, Index, Ordinal
<1>5. ProducerLocals'
  <2>1. /\ slot'[Index(prod.wh)].prefix = Ordinal(prod.wh)
        /\ slot'[Index(prod.wh)].payload = slot[Index(prod.wh)].payload
    BY <1>0 DEF TypeOK, WriteCalls, ReadCalls, Contents
  <2>2. prod'.pc = "payload" /\ prod'.wh = prod.wh
    BY DEF TypeOK, WriteCalls, ReadCalls
  <2>3. QED BY <1>0, <1>2, <2>1, <2>2
               DEF ProducerLocals, NoOverrun, Ordinal, Index, Val
<1>6. ConsumerLocals'
  BY <1>2 DEF ConsumerLocals, ReadsAreExact, Ordinal, Hi, Val
<1>7. QED BY <1>1, <1>3, <1>4, <1>5, <1>6

LEMMA StorePayloadInv == IInv /\ StorePayload => IInv'
<1> SUFFICES ASSUME IInv, StorePayload PROVE IInv'
  OBVIOUS
<1> USE DEF IInv, StorePayload
<1>0. /\ prod.wh \in Nat /\ prod.wh = HeadPos
      /\ Index(prod.wh) \in 0..Capacity - 1
      /\ Ordinal(prod.wh) \in Nat
      /\ prod.wh < TailPos + Capacity
  BY Positions, IndexInSlots DEF TypeOK, WriteCalls, ReadCalls, ProducerLocals, HeadPos, Ordinal,
     NoOverrun
<1>1. TypeOK'
  <2>1. slot' \in [0..Capacity - 1 -> Contents]
    <3>1. /\ slot[Index(prod.wh)] \in Contents
          /\ Ordinal(prod.wh) \in Int
      BY <1>0 DEF TypeOK, WriteCalls, ReadCalls
    <3>2. [slot[Index(prod.wh)] EXCEPT !.payload = Ordinal(prod.wh)] \in Contents
      BY <3>1 DEF Contents
    <3>3. slot' = [slot EXCEPT ![Index(prod.wh)] =
                     [slot[Index(prod.wh)] EXCEPT !.payload = Ordinal(prod.wh)]]
      OBVIOUS
    <3>4. QED BY <1>0, <3>2, <3>3 DEF TypeOK, WriteCalls, ReadCalls
  <2>2. QED BY <2>1 DEF TypeOK, WriteCalls, ReadCalls
<1>2. HeadPos' = HeadPos /\ TailPos' = TailPos
  BY DEF HeadPos, TailPos, TypeOK, WriteCalls, ReadCalls
<1>3. WordsFollow' /\ WindowFits'
  BY <1>2 DEF WordsFollow, WindowFits, Lo, Hi
<1>4. WholePackets'
  <2>1. ASSUME NEW p \in TailPos..HeadPos - 1
        PROVE  p \in Nat /\ Index(p) # Index(prod.wh)
    <3>1. p \in Nat /\ p < prod.wh /\ prod.wh < p + Capacity
      BY <1>0, Positions, RingAssumption
    <3>2. QED BY <1>0, <3>1, IndexDistinct
  <2>2. \A p \in TailPos..HeadPos - 1 : slot'[Index(p)] = slot[Index(p)]
    BY <1>0, <2>1 DEF TypeOK, WriteCalls, ReadCalls
  <2>3. QED BY <1>2, <2>2 DEF WholePackets, Index, Ordinal
<1>5. ProducerLocals'
  <2>1. /\ slot'[Index(prod.wh)].payload = Ordinal(prod.wh)
        /\ slot'[Index(prod.wh)].prefix = slot[Index(prod.wh)].prefix
    BY <1>0 DEF TypeOK, WriteCalls, ReadCalls, Contents
  <2>2. prod'.pc = "head_clear" /\ prod'.wh = prod.wh
    BY DEF TypeOK, WriteCalls, ReadCalls
  <2>3. QED BY <1>0, <1>2, <2>1, <2>2
               DEF ProducerLocals, NoOverrun, Ordinal, Index, Val
<1>6. ConsumerLocals'
  BY <1>2 DEF ConsumerLocals, ReadsAreExact, Ordinal, Hi, Val
<1>7. QED BY <1>1, <1>3, <1>4, <1>5, <1>6
\* Clearing write_head hides packets from the consumer and moves no position.
LEMMA ClearHeadInv == IInv /\ ClearHead => IInv'
<1> SUFFICES ASSUME IInv, ClearHead PROVE IInv'
  OBVIOUS
<1> USE DEF IInv, ClearHead
<1>0. /\ prod.wh \in Nat /\ prod.wh = HeadPos
      /\ prod'.pc = "head_lo" /\ prod'.wh = prod.wh
      /\ Hi(0) \in Nat /\ Lo(0) \in 0..Base - 1 /\ Hi(0) <= Hi(HeadPos)
      /\ Hi(0) = 0 /\ Lo(0) = 0
  BY DigitsOf, HiMono, ZeroDigits DEF TypeOK, WriteCalls, ProducerLocals
<1>1. TypeOK'
  BY <1>0 DEF TypeOK, WriteCalls, Word, Digits
<1>2. HeadPos' = HeadPos /\ TailPos' = TailPos
  BY <1>0 DEF HeadPos, TailPos
<1>3. WordsFollow' /\ WindowFits'
  <2>1. head'.lo = 0 /\ head'.hi <= Hi(HeadPos)
    BY <1>0 DEF Word
  <2>2. QED BY <1>0, <1>2, <2>1 DEF WordsFollow, WindowFits, Lo, Hi
<1>4. WholePackets'
  BY <1>2 DEF WholePackets, Index, Ordinal
<1>5. ProducerLocals'
  BY <1>0, <1>2 DEF ProducerLocals, NoOverrun, Ordinal, Index
<1>6. ConsumerLocals'
  BY <1>2 DEF ConsumerLocals, ReadsAreExact, Ordinal, Hi
<1>7. QED BY <1>1, <1>3, <1>4, <1>5, <1>6

LEMMA StoreHeadLoInv == IInv /\ StoreHeadLo => IInv'
<1> SUFFICES ASSUME IInv, StoreHeadLo PROVE IInv'
  OBVIOUS
<1> USE DEF IInv, StoreHeadLo
<1>0. /\ prod.wh \in Nat /\ prod.wh = HeadPos
      /\ prod.wh + 1 \in Nat /\ prod.wh < TailPos + Capacity
  BY Positions DEF TypeOK, WriteCalls, ReadCalls, ProducerLocals, HeadPos, NoOverrun
<1>1. TypeOK'
  BY <1>0, DigitsOf DEF TypeOK, WriteCalls, ReadCalls, Digits
<1>2. HeadPos' = HeadPos + 1 /\ TailPos' = TailPos
  BY <1>0 DEF HeadPos, TailPos, TypeOK, WriteCalls, ReadCalls
<1>3. WordsFollow' /\ WindowFits'
  <2>1. head.hi <= Hi(prod.wh)
    BY <1>0 DEF WordsFollow
  <2>2. /\ Hi(prod.wh) \in Nat /\ Hi(prod.wh + 1) \in Nat
        /\ Hi(prod.wh) <= Hi(prod.wh + 1) /\ head.hi \in Nat
    BY <1>0, HiMono, DigitsOf DEF TypeOK, Digits
  <2>3. /\ head'.lo = Lo(prod.wh + 1) /\ head'.hi = head.hi
        /\ prod'.pc = "head_hi"
    BY DEF TypeOK, WriteCalls, ReadCalls, Digits
  <2>4. WordsFollow'
    <3>1. head'.hi <= Hi(prod.wh + 1)
      BY <2>1, <2>2, <2>3
    <3>2. Lo(HeadPos)' = Lo(prod.wh + 1) /\ Hi(HeadPos)' = Hi(prod.wh + 1)
      BY <1>0, <1>2 DEF Lo, Hi
    <3>3. Lo(TailPos)' = Lo(TailPos) /\ Hi(TailPos)' = Hi(TailPos)
      BY <1>2 DEF Lo, Hi
    <3>4. QED BY <2>3, <3>1, <3>2, <3>3 DEF WordsFollow
  <2>5. WindowFits'
    <3>1. /\ HeadPos \in Nat /\ TailPos \in Nat /\ Capacity \in Nat
          /\ TailPos <= HeadPos /\ HeadPos < TailPos + Capacity
      BY <1>0, Positions, RingAssumption DEF WindowFits
    <3>2. TailPos <= HeadPos + 1 /\ HeadPos + 1 <= TailPos + Capacity
      BY ONLY <3>1
    <3>3. QED BY <1>2, <3>2 DEF WindowFits
  <2>6. QED BY <2>4, <2>5
<1>4. WholePackets'
  <2>1. slot[Index(prod.wh)] \in Contents
    BY <1>0, IndexInSlots DEF TypeOK, WriteCalls, ReadCalls
  <2>2. slot[Index(prod.wh)] = [prefix  |-> Ordinal(prod.wh),
                                payload |-> Ordinal(prod.wh)]
    BY <2>1 DEF ProducerLocals, Contents
  <2>3. \A p \in TailPos..HeadPos : p = prod.wh \/ p \in TailPos..HeadPos - 1
    BY <1>0, Positions
  <2>4. \A p \in TailPos..HeadPos :
          slot[Index(p)] = [prefix |-> Ordinal(p), payload |-> Ordinal(p)]
    BY <2>2, <2>3 DEF WholePackets
  <2>5. HeadPos' - 1 = HeadPos /\ slot' = slot /\ epoch' = epoch
    BY <1>2, Positions
  <2>6. QED BY ONLY <1>2, <2>4, <2>5 DEF WholePackets, Index, Ordinal
<1>5. ProducerLocals'
  <2>1. prod'.pc = "head_hi"
    BY DEF TypeOK, WriteCalls, ReadCalls
  <2>2. QED BY <2>1 DEF ProducerLocals, NoOverrun
<1>6. ConsumerLocals'
  <2>1. Hi(HeadPos) \in Nat /\ Hi(HeadPos + 1) \in Nat
        /\ Hi(HeadPos) <= Hi(HeadPos + 1)
    BY <1>0, HiMono, DigitsOf
  <2>2. cons.pc = "head_lo" => cons.hi <= Hi(HeadPos + 1)
    BY <2>1 DEF ConsumerLocals, TypeOK, WriteCalls, ReadCalls
  <2>3. cons.pc \in {"prefix", "payload", "tail_clear", "tail_lo"} =>
          cons.rt + cons.n <= HeadPos + 1
    BY Positions DEF ConsumerLocals, TypeOK, WriteCalls, ReadCalls
  <2>4. (cons.pc = "head_lo" => cons.hi <= Hi(HeadPos))'
    BY <1>2, <2>2 DEF Hi
  <2>5. QED BY <1>2, <2>3, <2>4
               DEF ConsumerLocals, ReadsAreExact, Ordinal, Val
<1>7. QED BY <1>1, <1>3, <1>4, <1>5, <1>6

LEMMA StoreHeadHiInv == IInv /\ StoreHeadHi => IInv'
<1> SUFFICES ASSUME IInv, StoreHeadHi PROVE IInv'
  OBVIOUS
<1> USE DEF IInv, StoreHeadHi
<1>0. /\ prod.wh + 1 \in Nat /\ HeadPos = prod.wh + 1
      /\ Hi(prod.wh + 1) \in Nat
      /\ Val(Hi(prod.wh + 1), Lo(prod.wh + 1)) = prod.wh + 1
  BY DigitsOf DEF TypeOK, WriteCalls, ReadCalls, HeadPos
<1>1. TypeOK'
  <2>1. head' \in Digits
    BY <1>0 DEF TypeOK, WriteCalls, ReadCalls, Digits
  <2>2. QED BY <2>1 DEF TypeOK, WriteCalls, ReadCalls, ProdIdle
<1>2. HeadPos' = HeadPos /\ TailPos' = TailPos
  <2>1. head'.hi = Hi(prod.wh + 1) /\ head'.lo = Lo(prod.wh + 1)
    BY <1>0 DEF TypeOK, WriteCalls, ReadCalls, Digits, WordsFollow
  <2>2. prod'.pc = "idle"
    BY DEF ProdIdle
  <2>3. QED BY <1>0, <2>1, <2>2 DEF HeadPos, TailPos, Val
<1>3. WordsFollow' /\ WindowFits'
  <2>1. head'.hi = Hi(HeadPos) /\ head'.lo = Lo(HeadPos)
    BY <1>0 DEF TypeOK, WriteCalls, ReadCalls, Digits, WordsFollow
  <2>2. prod'.pc = "idle"
    BY DEF ProdIdle
  <2>3. Hi(HeadPos) \in Nat
    BY <1>0
  <2>4. QED BY <1>2, <2>1, <2>2, <2>3 DEF WordsFollow, WindowFits, Lo, Hi
<1>4. WholePackets'
  BY <1>2 DEF WholePackets, Index, Ordinal
<1>5. ProducerLocals'
  BY DEF ProducerLocals, NoOverrun, ProdIdle
<1>6. ConsumerLocals'
  BY <1>2 DEF ConsumerLocals, ReadsAreExact, Ordinal, Hi, Val
<1>7. QED BY <1>1, <1>3, <1>4, <1>5, <1>6

LEMMA CallReadInv ==
  ASSUME IInv, NEW max \in BatchSizes, CallRead(max)
  PROVE  IInv'
<1> USE DEF IInv, CallRead
<1>1. TypeOK'
  <2>1. cons' = [pc |-> "head_lo", max |-> max, hi |-> head.hi, rt |-> 0,
                 n |-> 0, prefix |-> -1, got |-> <<>>]
    BY DEF ConsIdle
  <2>2. max \in Nat /\ head.hi \in Nat /\ <<>> \in Seq(Contents)
    BY RingAssumption DEF TypeOK, Digits
  <2>3. cons' \in ReadCalls
    BY ONLY <2>1, <2>2 DEF ReadCalls
  <2>4. QED BY <2>3 DEF TypeOK
<1>2. HeadPos' = HeadPos /\ TailPos' = TailPos
  <2>1. cons'.pc = "head_lo"
    BY DEF ConsIdle
  <2>2. QED BY <2>1 DEF HeadPos, TailPos
<1>3. WordsFollow' /\ WindowFits'
  BY <1>2 DEF WordsFollow, WindowFits, Lo, Hi
<1>4. WholePackets'
  BY <1>2 DEF WholePackets, Index, Ordinal
<1>5. ProducerLocals'
  BY <1>2 DEF ProducerLocals, NoOverrun, Ordinal, Index, Hi, Val
<1>6. ConsumerLocals'
  <2>1. cons'.pc = "head_lo" /\ cons'.hi = head.hi /\ cons'.got = <<>>
    BY DEF ConsIdle
  <2>2. cons'.hi <= Hi(HeadPos)'
    BY <1>2, <2>1 DEF WordsFollow, Hi
  <2>3. QED BY <2>1, <2>2 DEF ConsumerLocals, ReadsAreExact
<1>7. QED BY <1>1, <1>3, <1>4, <1>5, <1>6

\* A batch is no longer than what the consumer saw pending.
LEMMA AvailableBound ==
  ASSUME NEW max \in Nat, NEW wh \in Nat, NEW rt \in Nat
  PROVE  /\ Available(max, wh, rt) \in Nat
         /\ Available(max, wh, rt) # 0 => rt + Available(max, wh, rt) <= wh
BY DEF Available

LEMMA CheckAvailableInv == IInv /\ CheckAvailable => IInv'
<1> SUFFICES ASSUME IInv, CheckAvailable PROVE IInv'
  OBVIOUS
<1> DEFINE rt == Val(tail.hi, tail.lo)
           wh == Val(cons.hi, head.lo)
           n  == Available(cons.max, wh, rt)
<1> USE DEF IInv, CheckAvailable
<1>0. /\ rt \in Nat /\ wh \in Nat /\ wh <= HeadPos /\ n \in Nat
      /\ n # 0 => rt + n <= HeadPos
  <2>1. rt \in Nat /\ HeadPos \in Nat
    BY Positions
  <2>2. wh \in Nat /\ wh <= HeadPos
    <3>1. HeadPos \in Nat /\ cons.hi \in Nat /\ cons.hi <= Hi(HeadPos)
      BY Positions DEF TypeOK, ReadCalls, ConsumerLocals
    <3>2. head.lo \in {0, Lo(HeadPos)}
      BY DEF WordsFollow
    <3>3. QED BY <3>1, <3>2, TornLoad
  <2>3. cons.max \in Nat
    BY DEF TypeOK, WriteCalls, ReadCalls
  <2> HIDE DEF rt, wh
  <2>4. n \in Nat /\ (n # 0 => rt + n <= wh)
    BY <2>1, <2>2, <2>3, AvailableBound
  <2> HIDE DEF n
  <2>5. QED BY <2>1, <2>2, <2>4
<1>a. cons' = IF n = 0 THEN ConsIdle
              ELSE [cons EXCEPT !.pc = "prefix", !.rt = rt, !.n = n]
  OBVIOUS
<1> HIDE DEF n, wh, rt
<1>1. TypeOK'
  <2>1. CASE n = 0
    <3>1. ConsIdle \in ReadCalls
      BY DEF ConsIdle, ReadCalls
    <3>2. QED BY <1>a, <2>1, <3>1 DEF TypeOK
  <2>2. CASE n # 0
    <3>1. cons' \in ReadCalls
      BY <1>0, <1>a, <2>2 DEF TypeOK, ReadCalls
    <3>2. QED BY <3>1 DEF TypeOK
  <2>3. QED BY <2>1, <2>2
<1>2. HeadPos' = HeadPos /\ TailPos' = TailPos
  <2>1. cons.pc = "head_lo" /\ cons'.pc \in {"prefix", "idle"}
    BY <1>a DEF ConsIdle, TypeOK, WriteCalls, ReadCalls
  <2>2. QED BY <2>1 DEF HeadPos, TailPos
<1>3. WordsFollow' /\ WindowFits'
  <2>1. cons.pc = "head_lo" /\ cons'.pc \in {"prefix", "idle"}
    BY <1>a DEF ConsIdle, TypeOK, ReadCalls
  <2>2. QED BY <1>2, <2>1 DEF WordsFollow, WindowFits, Lo, Hi
<1>4. WholePackets'
  BY <1>2 DEF WholePackets, Index, Ordinal
<1>5. ProducerLocals'
  BY <1>2 DEF ProducerLocals, NoOverrun, Ordinal, Index, Hi, Val
<1>6. ConsumerLocals'
  <2>1. CASE n = 0
    <3>1. cons' = ConsIdle
      BY ONLY <1>a, <2>1
    <3>2. cons'.pc = "idle" /\ cons'.got = <<>>
      BY ONLY <3>1 DEF ConsIdle
    <3>3. QED BY <3>2 DEF ConsumerLocals, ReadsAreExact
  <2>2. CASE n # 0
    <3>1. /\ cons'.pc = "prefix" /\ cons'.rt = rt /\ cons'.n = n
          /\ cons'.got = <<>>
      BY <1>a, <2>2 DEF TypeOK, WriteCalls, ReadCalls, ConsumerLocals
    <3>2. rt = TailPos' /\ rt + n <= HeadPos'
      BY <1>0, <1>2, <2>2 DEF rt, TailPos
    <3>3. Len(cons'.got) < cons'.n
      BY <1>0, <2>2, <3>1
    <3>4. QED BY <3>1, <3>2, <3>3 DEF ConsumerLocals, ReadsAreExact
  <2>3. QED BY <2>1, <2>2
<1>7. QED BY <1>1, <1>3, <1>4, <1>5, <1>6
\* The position a read has reached holds the packet stored for it.
LEMMA NextReadIsWhole ==
  ASSUME IInv, cons.pc \in {"prefix", "payload"}
  PROVE  /\ slot[ReadIndex].prefix = Ordinal(cons.rt + Len(cons.got))
         /\ slot[ReadIndex].payload = Ordinal(cons.rt + Len(cons.got))
         /\ Ordinal(cons.rt + Len(cons.got)) \in Int
<1> DEFINE p == cons.rt + Len(cons.got)
<1>1. /\ cons.rt \in Nat /\ cons.n \in Nat /\ Len(cons.got) \in Nat
      /\ epoch \in Nat
  BY DEF IInv, TypeOK, ReadCalls
<1>2. /\ Len(cons.got) < cons.n /\ cons.rt + cons.n <= HeadPos
      /\ cons.rt = TailPos
  BY DEF IInv, ConsumerLocals, TailPos
<1>3. p \in TailPos..HeadPos - 1
  BY <1>1, <1>2, Positions DEF IInv
<1>4. slot[Index(p)] = [prefix |-> Ordinal(p), payload |-> Ordinal(p)]
  BY <1>3 DEF IInv, WholePackets
<1>5. QED BY <1>1, <1>4 DEF ReadIndex, Ordinal

LEMMA LoadPrefixInv == IInv /\ LoadPrefix => IInv'
<1> SUFFICES ASSUME IInv, LoadPrefix PROVE IInv'
  OBVIOUS
<1> USE DEF IInv, LoadPrefix
<1>0. /\ cons' = [cons EXCEPT !.pc = "payload",
                    !.prefix = Ordinal(cons.rt + Len(cons.got))]
      /\ Ordinal(cons.rt + Len(cons.got)) \in Int
      /\ cons.pc = "prefix"
  BY NextReadIsWhole
<1>1. TypeOK'
  <2>1. cons' \in ReadCalls
    BY <1>0 DEF TypeOK, ReadCalls
  <2>2. QED BY <2>1 DEF TypeOK
<1>a. /\ cons'.pc = "payload" /\ cons'.rt = cons.rt /\ cons'.n = cons.n
      /\ cons'.got = cons.got
      /\ cons'.prefix = Ordinal(cons.rt + Len(cons.got))
  BY <1>0 DEF TypeOK, ReadCalls
<1>2. HeadPos' = HeadPos /\ TailPos' = TailPos
  BY <1>a DEF HeadPos, TailPos
<1>3. WordsFollow' /\ WindowFits'
  BY <1>2 DEF WordsFollow, WindowFits, Lo, Hi
<1>4. WholePackets'
  BY <1>2 DEF WholePackets, Index, Ordinal
<1>5. ProducerLocals'
  BY <1>2 DEF ProducerLocals, NoOverrun, Ordinal, Index, Hi, Val
<1>6. ConsumerLocals'
  BY <1>0, <1>a, <1>2 DEF ConsumerLocals, ReadsAreExact, Ordinal, Val
<1>7. QED BY <1>1, <1>3, <1>4, <1>5, <1>6

LEMMA LoadPayloadInv == IInv /\ LoadPayload => IInv'
<1> SUFFICES ASSUME IInv, LoadPayload PROVE IInv'
  OBVIOUS
<1> DEFINE len == Len(cons.got)
           o == Ordinal(cons.rt + len)
           packet == [prefix |-> cons.prefix,
                      payload |-> slot[ReadIndex].payload]
<1> USE DEF IInv
<1>0. /\ packet = [prefix |-> o, payload |-> o]
      /\ packet \in Contents
      /\ cons.pc = "payload"
      /\ len \in Nat /\ len < cons.n /\ cons.n \in Nat
  <2>1. cons.pc = "payload"
    BY DEF LoadPayload
  <2>2. cons.prefix = o /\ slot[ReadIndex].payload = o /\ o \in Int
    BY <2>1, NextReadIsWhole DEF ConsumerLocals
  <2>3. len \in Nat /\ len < cons.n /\ cons.n \in Nat
    BY <2>1 DEF ConsumerLocals, TypeOK, ReadCalls
  <2>4. QED BY <2>1, <2>2, <2>3 DEF Contents
<1>b. /\ cons' = [cons EXCEPT !.pc = IF len + 1 = cons.n THEN "tail_clear"
                                                         ELSE "prefix",
                              !.got = Append(cons.got, packet)]
      /\ UNCHANGED <<oneHandle, head, tail, dropped, slot, prod, epoch, delivered>>
  BY DEF LoadPayload
<1>c. /\ cons.got \in Seq(Contents)
      /\ Append(cons.got, packet) \in Seq(Contents)
      /\ Len(Append(cons.got, packet)) = len + 1
      /\ \A k \in 1..len + 1 : Append(cons.got, packet)[k] =
           IF k <= len THEN cons.got[k] ELSE packet
  <2>1. cons.got \in Seq(Contents)
    BY DEF TypeOK, ReadCalls
  <2> HIDE DEF packet
  <2>2. QED BY <1>0, <2>1
<1> HIDE DEF packet, o
<1>1. TypeOK'
  <2>1. cons' \in ReadCalls
    BY <1>0, <1>b, <1>c DEF TypeOK, ReadCalls
  <2>2. QED BY <1>b, <2>1 DEF TypeOK
<1>a. /\ cons'.pc = IF len + 1 = cons.n THEN "tail_clear" ELSE "prefix"
      /\ cons'.rt = cons.rt /\ cons'.n = cons.n
      /\ cons'.got = Append(cons.got, packet)
  BY <1>b DEF TypeOK, ReadCalls
<1>2. HeadPos' = HeadPos /\ TailPos' = TailPos
  BY <1>0, <1>a, <1>b DEF HeadPos, TailPos
<1>3. WordsFollow' /\ WindowFits'
  <2>1. cons.pc # "tail_lo" /\ cons'.pc # "tail_lo"
    BY <1>0, <1>a
  <2>2. QED BY <1>2, <1>b, <2>1 DEF WordsFollow, WindowFits, Lo, Hi
<1>4. WholePackets'
  BY <1>2, <1>b DEF WholePackets, Index, Ordinal
<1>5. ProducerLocals'
  BY <1>2, <1>b DEF ProducerLocals, NoOverrun, Ordinal, Index, Hi, Val
<1>6. ConsumerLocals'
  <2>1. ReadsAreExact'
    <3>1. \A k \in 1..len + 1 : Append(cons.got, packet)[k] =
            [prefix |-> Ordinal(cons.rt + k - 1),
             payload |-> Ordinal(cons.rt + k - 1)]
      <4>1. TAKE k \in 1..len + 1
      <4>2. CASE k <= len
        <5>1. k \in 1..len
          BY <1>0, <4>2
        <5>2. Append(cons.got, packet)[k] = cons.got[k]
          BY <1>c, <4>2
        <5>3. QED BY <5>1, <5>2 DEF ConsumerLocals, ReadsAreExact
      <4>3. CASE k = len + 1
        <5>1. cons.rt \in Nat
          BY DEF TypeOK, ReadCalls
        <5>2. cons.rt + k - 1 = cons.rt + len
          BY <1>0, <4>3, <5>1
        <5>3. Append(cons.got, packet)[k] = packet
          BY <1>0, <1>c, <4>3
        <5>4. QED BY <1>0, <5>2, <5>3 DEF o
      <4>4. QED BY <1>0, <4>1, <4>2, <4>3
    <3>2. QED BY <1>a, <1>b, <1>c, <3>1 DEF ReadsAreExact, Ordinal
  <2>2. /\ cons'.rt = TailPos'
        /\ cons'.rt + cons'.n <= HeadPos'
    BY <1>0, <1>a, <1>b, <1>2 DEF ConsumerLocals
  <2>3. Len(cons'.got) = len + 1
    BY <1>a, <1>c
  <2>4. CASE len + 1 = cons.n
    BY <1>a, <2>1, <2>2, <2>3, <2>4 DEF ConsumerLocals
  <2>5. CASE len + 1 # cons.n
    <3>1. len + 1 < cons.n
      BY <1>0, <2>5
    <3>2. QED BY <1>a, <2>1, <2>2, <2>3, <2>5, <3>1 DEF ConsumerLocals
  <2>6. QED BY <2>4, <2>5
<1>7. QED BY <1>1, <1>3, <1>4, <1>5, <1>6
LEMMA ClearTailInv == IInv /\ ClearTail => IInv'
<1> SUFFICES ASSUME IInv, ClearTail PROVE IInv'
  OBVIOUS
<1> USE DEF IInv, ClearTail
<1>0. /\ cons.rt \in Nat /\ cons.rt = TailPos
      /\ cons'.pc = "tail_lo" /\ cons'.rt = cons.rt /\ cons'.n = cons.n
      /\ cons'.got = cons.got
      /\ Hi(0) \in Nat /\ Lo(0) \in 0..Base - 1 /\ Hi(0) <= Hi(TailPos)
      /\ Hi(0) = 0 /\ Lo(0) = 0
  BY DigitsOf, HiMono, ZeroDigits DEF TypeOK, ReadCalls, ConsumerLocals
<1>1. TypeOK'
  BY <1>0 DEF TypeOK, ReadCalls, Word, Digits
<1>2. HeadPos' = HeadPos /\ TailPos' = TailPos
  BY <1>0 DEF HeadPos, TailPos
<1>3. WordsFollow' /\ WindowFits'
  <2>1. tail'.lo = 0 /\ tail'.hi <= Hi(TailPos)
    BY <1>0 DEF Word
  <2>2. QED BY <1>0, <1>2, <2>1 DEF WordsFollow, WindowFits, Lo, Hi
<1>4. WholePackets'
  BY <1>2 DEF WholePackets, Index, Ordinal
<1>5. ProducerLocals'
  BY <1>2 DEF ProducerLocals, NoOverrun, Ordinal, Index, Hi
<1>6. ConsumerLocals'
  BY <1>0, <1>2 DEF ConsumerLocals, ReadsAreExact, Ordinal
<1>7. QED BY <1>1, <1>3, <1>4, <1>5, <1>6

LEMMA StoreTailLoInv == IInv /\ StoreTailLo => IInv'
<1> SUFFICES ASSUME IInv, StoreTailLo PROVE IInv'
  OBVIOUS
<1> USE DEF IInv, StoreTailLo
<1>0. /\ cons.rt \in Nat /\ cons.n \in Nat /\ cons.rt = TailPos
      /\ cons.rt + cons.n \in Nat /\ cons.rt + cons.n <= HeadPos
      /\ HeadPos \in Nat
  BY Positions DEF TypeOK, ReadCalls, ConsumerLocals, TailPos
<1>a. cons' = [cons EXCEPT !.pc = "tail_hi"] /\ cons.pc = "tail_lo"
  OBVIOUS
<1>b. /\ cons'.pc = "tail_hi" /\ cons'.rt = cons.rt /\ cons'.n = cons.n
      /\ cons'.got = cons.got
  BY <1>a DEF TypeOK, ReadCalls
<1>1. TypeOK'
  <2>1. tail' \in Digits
    BY <1>0, DigitsOf DEF TypeOK, Digits
  <2>2. cons' \in ReadCalls
    BY <1>a DEF TypeOK, ReadCalls
  <2>3. delivered' \in Seq(Contents)
    BY DEF TypeOK, ReadCalls
  <2>4. QED BY <2>1, <2>2, <2>3 DEF TypeOK
<1>2. HeadPos' = HeadPos /\ TailPos' = TailPos + cons.n
  BY <1>0, <1>b DEF HeadPos, TailPos
<1>c. Hi(TailPos) \in Nat /\ Hi(TailPos + cons.n) \in Nat
      /\ Hi(TailPos) <= Hi(TailPos + cons.n)
  BY <1>0, HiMono, DigitsOf, SMTT(30)
<1>3. WordsFollow' /\ WindowFits'
  <2>1. tail'.lo = Lo(cons.rt + cons.n) /\ tail'.hi = tail.hi
    BY DEF TypeOK, Digits
  <2>2. tail.hi \in Nat /\ tail.hi <= Hi(TailPos)
    BY DEF TypeOK, Digits, WordsFollow
  <2>3. WordsFollow'
    <3>1. tail'.hi <= Hi(TailPos + cons.n)
      BY <1>c, <2>1, <2>2
    <3>2. Lo(TailPos)' = Lo(cons.rt + cons.n) /\ Hi(TailPos)' = Hi(TailPos + cons.n)
      BY <1>0, <1>2 DEF Lo, Hi
    <3>3. Lo(HeadPos)' = Lo(HeadPos) /\ Hi(HeadPos)' = Hi(HeadPos)
      BY <1>2 DEF Lo, Hi
    <3>4. QED BY <1>b, <2>1, <3>1, <3>2, <3>3 DEF WordsFollow
  <2>4. TailPos + cons.n <= HeadPos
        /\ HeadPos <= TailPos + cons.n + Capacity
    BY <1>0, RingAssumption DEF WindowFits
  <2>5. QED BY <1>2, <2>3, <2>4 DEF WindowFits
<1>4. WholePackets'
  <2>1. \A p \in TailPos + cons.n..HeadPos - 1 : p \in TailPos..HeadPos - 1
    BY <1>0
  <2>2. QED BY <1>2, <2>1 DEF WholePackets, Index, Ordinal
<1>5. ProducerLocals'
  <2>1. prod.pc = "tail_lo" => prod.hi <= Hi(TailPos + cons.n)
    BY <1>c DEF ProducerLocals, TypeOK, WriteCalls
  <2>2. NoOverrun'
    <3>1. prod.pc \in {"prefix", "payload", "head_clear", "head_lo"} =>
            prod.wh < TailPos + cons.n + Capacity
      BY <1>0, RingAssumption, SMTT(30)
         DEF ProducerLocals, NoOverrun, TypeOK, WriteCalls
    <3>2. QED BY <1>2, <3>1 DEF NoOverrun
  <2>3. (prod.pc = "tail_lo" => prod.hi <= Hi(TailPos))'
    BY <1>2, <2>1 DEF Hi
  <2>4. QED BY <1>2, <2>2, <2>3 DEF ProducerLocals, Ordinal, Index
<1>6. ConsumerLocals'
  BY <1>b DEF ConsumerLocals, ReadsAreExact, Ordinal
<1>7. QED BY <1>1, <1>3, <1>4, <1>5, <1>6

LEMMA StoreTailHiInv == IInv /\ StoreTailHi => IInv'
<1> SUFFICES ASSUME IInv, StoreTailHi PROVE IInv'
  OBVIOUS
<1> USE DEF IInv, StoreTailHi
<1>0. /\ cons.rt + cons.n \in Nat /\ TailPos = cons.rt + cons.n
      /\ Hi(cons.rt + cons.n) \in Nat
      /\ Val(Hi(cons.rt + cons.n), Lo(cons.rt + cons.n)) = cons.rt + cons.n
  BY DigitsOf DEF TypeOK, ReadCalls, TailPos
<1>a. cons'.pc = "idle" /\ cons'.got = <<>>
  BY DEF ConsIdle
<1>1. TypeOK'
  <2>1. tail' \in Digits
    BY <1>0 DEF TypeOK, Digits
  <2>2. ConsIdle \in ReadCalls
    BY DEF ConsIdle, ReadCalls
  <2>3. QED BY <2>1, <2>2 DEF TypeOK
<1>b. tail'.hi = Hi(TailPos) /\ tail'.lo = Lo(TailPos)
  BY <1>0 DEF TypeOK, Digits, WordsFollow
<1>2. HeadPos' = HeadPos /\ TailPos' = TailPos
  BY <1>0, <1>a, <1>b DEF HeadPos, TailPos, Val
<1>3. WordsFollow' /\ WindowFits'
  <2>1. Hi(TailPos) \in Nat
    BY <1>0
  <2>2. QED BY <1>2, <1>a, <1>b, <2>1 DEF WordsFollow, WindowFits, Lo, Hi
<1>4. WholePackets'
  BY <1>2 DEF WholePackets, Index, Ordinal
<1>5. ProducerLocals'
  BY <1>2 DEF ProducerLocals, NoOverrun, Ordinal, Index, Hi, Val
<1>6. ConsumerLocals'
  BY <1>a DEF ConsumerLocals, ReadsAreExact
<1>7. QED BY <1>1, <1>3, <1>4, <1>5, <1>6

LEMMA ClearInv == IInv /\ Clear => IInv'
<1> SUFFICES ASSUME IInv, Clear PROVE IInv'
  OBVIOUS
<1> USE DEF IInv, Clear
<1>0. Hi(0) \in Nat /\ Lo(0) \in 0..Base - 1 /\ Val(Hi(0), Lo(0)) = 0
  BY DigitsOf
<1>1. TypeOK'
  BY <1>0, Positions DEF TypeOK, Word, Digits, Ordinal
<1>2. HeadPos' = 0 /\ TailPos' = 0
  BY <1>0 DEF HeadPos, TailPos, Word, Val
<1>3. WordsFollow' /\ WindowFits'
  BY <1>0, <1>2, RingAssumption DEF WordsFollow, WindowFits, Word, Lo, Hi
<1>4. WholePackets'
  BY <1>2 DEF WholePackets
<1>5. ProducerLocals'
  BY DEF ProducerLocals, NoOverrun
<1>6. ConsumerLocals'
  BY DEF ConsumerLocals, ReadsAreExact
<1>7. QED BY <1>1, <1>3, <1>4, <1>5, <1>6

LEMMA StepInv == IInv /\ [Next]_vars => IInv'
<1> SUFFICES ASSUME IInv, [Next]_vars PROVE IInv'
  OBVIOUS
<1>1. ASSUME NEW max \in BatchSizes, CallRead(max) PROVE IInv'
  BY <1>1, CallReadInv
<1>2. CASE UNCHANGED vars
  BY <1>2 DEF vars, IInv, TypeOK, WordsFollow, WindowFits, WholePackets,
     ProducerLocals, ConsumerLocals, NoOverrun, ReadsAreExact, HeadPos,
     TailPos, Val, Lo, Hi, Index, Ordinal
<1>3. QED
  BY <1>1, <1>2, CallWriteInv, CheckRoomInv, StorePrefixInv, StorePayloadInv,
     ClearHeadInv, ClearTailInv, StoreHeadLoInv, StoreHeadHiInv, CheckAvailableInv, LoadPrefixInv,
     LoadPayloadInv, StoreTailLoInv, StoreTailHiInv, ClearInv DEF Next

-----------------------------------------------------------------------------
\* The ring keeps its inductive invariant, whatever its capacity and batches.
THEOREM RingInvariant == Spec => []IInv
  BY InitInv, StepInv, PTL DEF Spec

\* The variables keep their shape.
THEOREM TypeCorrect == Spec => []TypeOK
  BY RingInvariant, PTL DEF IInv

\* The producer never overwrites a packet that was not read.
THEOREM RingNeverOverruns == Spec => []NoOverrun
  BY RingInvariant, PTL DEF IInv, ProducerLocals

\* The two positions stay ordered and within one lap.
THEOREM RingWindowFits == Spec => []WindowFits
  BY RingInvariant, PTL DEF IInv

\* Every packet a read returns is whole and the one stored at its position.
THEOREM RingReadsAreExact == Spec => []ReadsAreExact
  BY RingInvariant, PTL DEF IInv, ConsumerLocals
-----------------------------------------------------------------------------
(***************************************************************************)
(* SharedRing implements BoundedFifo: the position a side publishes moves  *)
(* in the step that stores the low digit of its word, and nowhere else.    *)
(* So that step of write is a Put, that of read_batch a Get of what it     *)
(* returns, and every other step leaves the queue as it is.                *)
(***************************************************************************)
Payloads == [i \in DOMAIN delivered |-> delivered[i].payload]

-----------------------------------------------------------------------------
(* Runs of consecutive ordinals, which is what the queue always holds. *)

Run(a, n) == [i \in 1..n |-> a + i - 1]

LEMMA RunProperties ==
  ASSUME NEW a \in Nat, NEW n \in Nat
  PROVE  /\ Run(a, n) \in Seq(Nat) /\ Len(Run(a, n)) = n
         /\ \A i \in 1..n : Run(a, n)[i] = a + i - 1
<1>1. \A i \in 1..n : a + i - 1 \in Nat
  OBVIOUS
<1>2. QED BY <1>1 DEF Run

LEMMA RunAppend ==
  ASSUME NEW a \in Nat, NEW n \in Nat
  PROVE  Run(a, n + 1) = Append(Run(a, n), a + n)
<1> DEFINE s == Run(a, n + 1)
           t == Append(Run(a, n), a + n)
<1>1. /\ s \in Seq(Nat) /\ Len(s) = n + 1
      /\ \A i \in 1..n + 1 : s[i] = a + i - 1
  BY n + 1 \in Nat, RunProperties
<1>2. /\ Run(a, n) \in Seq(Nat) /\ Len(Run(a, n)) = n
      /\ \A i \in 1..n : Run(a, n)[i] = a + i - 1
  BY RunProperties
<1>3. /\ t \in Seq(Nat) /\ Len(t) = n + 1
      /\ \A i \in 1..n : t[i] = Run(a, n)[i]
      /\ t[n + 1] = a + n
  BY <1>2, a + n \in Nat, AppendProperties
<1> HIDE DEF s, t
<1>4. \A i \in 1..n + 1 : s[i] = t[i]
  BY <1>1, <1>2, <1>3
<1>5. s = t
  BY <1>1, <1>3, <1>4, SeqEqual
<1>6. QED BY <1>5 DEF s, t

LEMMA RunSplits ==
  ASSUME NEW a \in Nat, NEW n \in Nat, NEW m \in 1..n
  PROVE  /\ SubSeq(Run(a, n), 1, m) = Run(a, m)
         /\ SubSeq(Run(a, n), m + 1, n) = Run(a + m, n - m)
<1>1. /\ Run(a, n) \in Seq(Nat) /\ Len(Run(a, n)) = n
      /\ \A i \in 1..n : Run(a, n)[i] = a + i - 1
  BY RunProperties
<1>2. \A i \in 1..n : Run(a, n)[i] \in Nat
  BY <1>1
<1>3. SubSeq(Run(a, n), 1, m) = Run(a, m)
  <2> DEFINE s == SubSeq(Run(a, n), 1, m)
             t == Run(a, m)
  <2>1. /\ s \in Seq(Nat) /\ Len(s) = m
        /\ \A i \in 1..m : s[i] = Run(a, n)[1 + i - 1]
    <3>1. \A i \in 1..m : Run(a, n)[i] \in Nat
      BY <1>2
    <3>2. /\ SubSeq(Run(a, n), 1, m) \in Seq(Nat)
          /\ Len(SubSeq(Run(a, n), 1, m)) = IF 1 <= m THEN m - 1 + 1 ELSE 0
          /\ \A i \in 1..m - 1 + 1 :
               SubSeq(Run(a, n), 1, m)[i] = Run(a, n)[1 + i - 1]
      BY <3>1, SubSeqProperties
    <3>3. m - 1 + 1 = m /\ 1 <= m
      OBVIOUS
    <3>4. QED BY <3>2, <3>3
  <2>2. /\ t \in Seq(Nat) /\ Len(t) = m
        /\ \A i \in 1..m : t[i] = a + i - 1
    BY RunProperties
  <2> HIDE DEF s, t
  <2>3. \A i \in 1..m : s[i] = t[i]
    BY <1>1, <2>1, <2>2, SMTT(30)
  <2>4. s = t
    BY <2>1, <2>2, <2>3, SeqEqual
  <2>5. QED BY <2>4 DEF s, t
<1>4. SubSeq(Run(a, n), m + 1, n) = Run(a + m, n - m)
  <2> DEFINE s == SubSeq(Run(a, n), m + 1, n)
             t == Run(a + m, n - m)
  <2>1. /\ s \in Seq(Nat) /\ Len(s) = n - m
        /\ \A i \in 1..n - m : s[i] = Run(a, n)[m + i]
    <3>1. \A i \in m + 1..n : Run(a, n)[i] \in Nat
      BY <1>2
    <3>2. /\ SubSeq(Run(a, n), m + 1, n) \in Seq(Nat)
          /\ Len(SubSeq(Run(a, n), m + 1, n)) =
               IF m + 1 <= n THEN n - (m + 1) + 1 ELSE 0
          /\ \A i \in 1..n - (m + 1) + 1 :
               SubSeq(Run(a, n), m + 1, n)[i] = Run(a, n)[m + 1 + i - 1]
      BY <3>1, m + 1 \in Int, SubSeqProperties
    <3>3. /\ n - (m + 1) + 1 = n - m
          /\ (IF m + 1 <= n THEN n - (m + 1) + 1 ELSE 0) = n - m
          /\ \A i \in 1..n - m : m + 1 + i - 1 = m + i
      OBVIOUS
    <3>4. QED BY <3>2, <3>3
  <2>2. /\ t \in Seq(Nat) /\ Len(t) = n - m
        /\ \A i \in 1..n - m : t[i] = a + m + i - 1
    BY a + m \in Nat, n - m \in Nat, RunProperties
  <2> HIDE DEF s, t
  <2>3. \A i \in 1..n - m : s[i] = t[i]
    BY <1>1, <2>1, <2>2
  <2>4. s = t
    BY <2>1, <2>2, <2>3, SeqEqual
  <2>5. QED BY <2>4 DEF s, t
<1>5. QED BY <1>3, <1>4

LEMMA QueueIsRun ==
  ASSUME NEW e \in Nat, NEW t \in Nat, NEW h \in Nat, t <= h
  PROVE  [i \in 1..h - t |-> e + (t + i - 1)] = Run(e + t, h - t)
<1>1. \A i \in 1..h - t : e + (t + i - 1) = e + t + i - 1
  OBVIOUS
<1>2. QED BY <1>1 DEF Run
-----------------------------------------------------------------------------
(* The steps the queue does not see. *)

\* No published position moves.
PositionsRest == HeadPos' = HeadPos /\ TailPos' = TailPos

\* A step that moves no position and counts nothing is a stutter.
LEMMA Stutters ==
  ASSUME PositionsRest, UNCHANGED <<dropped, epoch, delivered>>
  PROVE  UNCHANGED Fifo!fifoVars
BY DEF PositionsRest, Fifo!fifoVars, Queued, Ordinal

LEMMA CallWriteRests == IInv /\ CallWrite => PositionsRest
  BY DEF IInv, CallWrite, PositionsRest, HeadPos, TailPos

LEMMA CheckRoomRests == IInv /\ CheckRoom => PositionsRest
<1> SUFFICES ASSUME IInv, CheckRoom PROVE PositionsRest
  OBVIOUS
<1>1. prod.pc = "tail_lo" /\ prod'.pc \in {"prefix", "idle"}
  BY DEF IInv, CheckRoom, ProdIdle, TypeOK, WriteCalls
<1>2. head' = head /\ tail' = tail /\ cons' = cons
  BY DEF CheckRoom
<1>3. QED BY <1>1, <1>2 DEF PositionsRest, HeadPos, TailPos

LEMMA StoreSlotRests == IInv /\ (StorePrefix \/ StorePayload) => PositionsRest
  BY DEF IInv, StorePrefix, StorePayload, PositionsRest, HeadPos, TailPos,
         TypeOK, WriteCalls

LEMMA ClearWordRests == IInv /\ (ClearHead \/ ClearTail) => PositionsRest
<1> SUFFICES ASSUME IInv, ClearHead \/ ClearTail PROVE PositionsRest
  OBVIOUS
<1>1. CASE ClearHead
  <2>1. prod.wh = HeadPos /\ prod'.pc = "head_lo" /\ prod'.wh = prod.wh
    BY <1>1 DEF IInv, ClearHead, TypeOK, WriteCalls, ProducerLocals
  <2>2. QED BY <1>1, <2>1 DEF ClearHead, PositionsRest, HeadPos, TailPos
<1>2. CASE ClearTail
  <2>1. cons.rt = TailPos /\ cons'.pc = "tail_lo" /\ cons'.rt = cons.rt
    BY <1>2 DEF IInv, ClearTail, TypeOK, ReadCalls, ConsumerLocals
  <2>2. QED BY <1>2, <2>1 DEF ClearTail, PositionsRest, HeadPos, TailPos
<1>3. QED BY <1>1, <1>2

LEMMA StoreHeadHiRests == IInv /\ StoreHeadHi => PositionsRest
<1> SUFFICES ASSUME IInv, StoreHeadHi PROVE PositionsRest
  OBVIOUS
<1>1. /\ prod.wh + 1 \in Nat /\ HeadPos = prod.wh + 1
      /\ Val(Hi(prod.wh + 1), Lo(prod.wh + 1)) = prod.wh + 1
  BY DigitsOf DEF IInv, StoreHeadHi, TypeOK, WriteCalls, HeadPos
<1>2. head'.hi = Hi(prod.wh + 1) /\ head'.lo = Lo(prod.wh + 1)
  BY <1>1 DEF IInv, StoreHeadHi, TypeOK, Digits, WordsFollow
<1>3. prod'.pc = "idle" /\ tail' = tail /\ cons' = cons
  BY DEF StoreHeadHi, ProdIdle
<1>4. QED BY <1>1, <1>2, <1>3 DEF PositionsRest, HeadPos, TailPos

LEMMA CallReadRests ==
  ASSUME IInv, NEW max \in BatchSizes, CallRead(max)
  PROVE  PositionsRest
<1>1. cons.pc = "idle" /\ cons'.pc = "head_lo"
  BY DEF CallRead, ConsIdle
<1>2. head' = head /\ tail' = tail /\ prod' = prod
  BY DEF CallRead
<1>3. QED BY <1>1, <1>2 DEF PositionsRest, HeadPos, TailPos

LEMMA CheckAvailableRests == IInv /\ CheckAvailable => PositionsRest
<1> SUFFICES ASSUME IInv, CheckAvailable PROVE PositionsRest
  OBVIOUS
<1>1. cons.pc = "head_lo" /\ cons'.pc \in {"prefix", "idle"}
  BY DEF IInv, CheckAvailable, ConsIdle, TypeOK, ReadCalls
<1>2. head' = head /\ tail' = tail /\ prod' = prod
  BY DEF CheckAvailable
<1>3. QED BY <1>1, <1>2 DEF PositionsRest, HeadPos, TailPos

LEMMA LoadRests == IInv /\ (LoadPrefix \/ LoadPayload) => PositionsRest
<1> SUFFICES ASSUME IInv, LoadPrefix \/ LoadPayload PROVE PositionsRest
  OBVIOUS
<1>1. /\ cons.pc \in {"prefix", "payload"}
      /\ cons'.pc \in {"payload", "tail_clear", "prefix"}
  BY DEF IInv, LoadPrefix, LoadPayload, TypeOK, ReadCalls
<1>2. head' = head /\ tail' = tail /\ prod' = prod
  BY DEF LoadPrefix, LoadPayload
<1>3. QED BY <1>1, <1>2 DEF PositionsRest, HeadPos, TailPos

LEMMA StoreTailHiRests == IInv /\ StoreTailHi => PositionsRest
<1> SUFFICES ASSUME IInv, StoreTailHi PROVE PositionsRest
  OBVIOUS
<1>1. /\ cons.rt + cons.n \in Nat /\ TailPos = cons.rt + cons.n
      /\ Val(Hi(cons.rt + cons.n), Lo(cons.rt + cons.n)) = cons.rt + cons.n
  BY DigitsOf DEF IInv, StoreTailHi, TypeOK, ReadCalls, TailPos
<1>2. tail'.hi = Hi(TailPos) /\ tail'.lo = Lo(TailPos)
  BY <1>1 DEF IInv, StoreTailHi, TypeOK, Digits, WordsFollow
<1>3. cons'.pc = "idle" /\ head' = head /\ prod' = prod
  BY DEF StoreTailHi, ConsIdle
<1>4. QED BY <1>1, <1>2, <1>3 DEF PositionsRest, HeadPos, TailPos
-----------------------------------------------------------------------------
(* The steps the queue sees. *)

LEMMA CheckRoomRefuses ==
  ASSUME IInv, CheckRoom
  PROVE  [Fifo!Next]_(Fifo!fifoVars)
<1>1. PositionsRest /\ epoch' = epoch /\ delivered' = delivered
  BY CheckRoomRests DEF CheckRoom
<1>2. CASE dropped' = dropped
  BY <1>1, <1>2, Stutters
<1>3. CASE dropped' = dropped + 1
  <2>1. Fifo!Refuse
    BY <1>1, <1>3 DEF Fifo!Refuse, PositionsRest, Queued, Ordinal
  <2>2. QED BY <2>1 DEF Fifo!Next
<1>4. QED BY <1>2, <1>3 DEF CheckRoom

LEMMA StoreHeadLoPuts ==
  ASSUME IInv, StoreHeadLo
  PROVE  Fifo!Put
<1>1. /\ prod.wh = HeadPos /\ prod.wh \in Nat /\ prod.wh < TailPos + Capacity
      /\ HeadPos \in Nat /\ TailPos \in Nat /\ TailPos <= HeadPos
      /\ epoch \in Nat
  BY Positions DEF IInv, StoreHeadLo, TypeOK, WriteCalls, ProducerLocals,
                   HeadPos, NoOverrun, WindowFits
<1>2. /\ HeadPos' = HeadPos + 1 /\ TailPos' = TailPos
      /\ UNCHANGED <<dropped, epoch, delivered>>
  BY <1>1 DEF IInv, StoreHeadLo, HeadPos, TailPos, TypeOK, WriteCalls
<1>a. Queued = Run(epoch + TailPos, HeadPos - TailPos)
  BY <1>1, QueueIsRun DEF Queued, Ordinal
<1>b. Queued' = Run(epoch + TailPos, HeadPos + 1 - TailPos)
  <2>1. /\ epoch' \in Nat /\ TailPos' \in Nat /\ HeadPos' \in Nat
        /\ TailPos' <= HeadPos'
    BY <1>1, <1>2
  <2>2. Queued' = Run(epoch' + TailPos', HeadPos' - TailPos')
    BY <2>1, QueueIsRun DEF Queued, Ordinal
  <2>3. QED BY <1>1, <1>2, <2>1, <2>2
<1>c. /\ HeadPos - TailPos \in Nat /\ epoch + TailPos \in Nat
      /\ HeadPos + 1 - TailPos = (HeadPos - TailPos) + 1
      /\ (epoch + TailPos) + (HeadPos - TailPos) = epoch + HeadPos
  BY <1>1
<1>3. Len(Queued) = HeadPos - TailPos
  BY <1>a, <1>c, RunProperties
<1>4. Queued' = Append(Queued, Ordinal(HeadPos))
  BY <1>a, <1>b, <1>c, RunAppend DEF Ordinal
<1>5. Ordinal(HeadPos)' = Ordinal(HeadPos) + 1
  BY <1>1, <1>2 DEF Ordinal
<1>6. Len(Queued) < Capacity
  BY <1>1, <1>3, RingAssumption
<1>7. QED BY <1>2, <1>4, <1>5, <1>6 DEF Fifo!Put

LEMMA StoreTailLoGets ==
  ASSUME IInv, StoreTailLo
  PROVE  [Fifo!Next]_(Fifo!fifoVars)
<1>1. /\ cons.rt = TailPos /\ cons.n \in Nat /\ cons.rt + cons.n <= HeadPos
      /\ HeadPos \in Nat /\ TailPos \in Nat /\ epoch \in Nat
      /\ TailPos <= HeadPos
      /\ cons.got \in Seq(Contents) /\ Len(cons.got) = cons.n
      /\ delivered \in Seq(Contents) /\ delivered' = delivered \o cons.got
  BY Positions DEF IInv, StoreTailLo, TypeOK, ReadCalls, ConsumerLocals,
                   TailPos, WindowFits
<1>2. /\ HeadPos' = HeadPos /\ TailPos' = TailPos + cons.n
      /\ UNCHANGED <<dropped, epoch>>
  <2>1. cons'.pc = "tail_hi" /\ cons'.rt = cons.rt /\ cons'.n = cons.n
    BY DEF IInv, StoreTailLo, TypeOK, ReadCalls
  <2>2. QED BY <1>1, <2>1 DEF StoreTailLo, HeadPos, TailPos
<1>3. \A k \in 1..cons.n : cons.got[k].payload = epoch + (TailPos + k - 1)
  <2>1. \A k \in 1..cons.n :
          cons.got[k] = [prefix  |-> epoch + (cons.rt + k - 1),
                         payload |-> epoch + (cons.rt + k - 1)]
    <3>1. ReadsAreExact
      BY DEF IInv, ConsumerLocals
    <3>2. \A k \in 1..Len(cons.got) :
            cons.got[k] = [prefix  |-> epoch + (cons.rt + k - 1),
                           payload |-> epoch + (cons.rt + k - 1)]
      BY <3>1 DEF ReadsAreExact, Ordinal
    <3>3. Len(cons.got) = cons.n
      BY <1>1
    <3>4. 1..Len(cons.got) = 1..cons.n
      BY <3>3
    <3>5. QED BY ONLY <3>2, <3>4, Zenon
  <2>2. \A k \in 1..cons.n : cons.got[k].payload = epoch + (cons.rt + k - 1)
    <3>1. ASSUME NEW k \in 1..cons.n, NEW o, o = epoch + (cons.rt + k - 1)
          PROVE  cons.got[k].payload = o
      <4>1. cons.got[k] = [prefix |-> o, payload |-> o]
        BY <2>1, <3>1
      <4>2. QED BY ONLY <4>1
    <3>2. QED BY ONLY <3>1
  <2>3. cons.rt = TailPos
    BY <1>1
  <2>4. QED BY ONLY <2>2, <2>3
<1>a. Queued = Run(epoch + TailPos, HeadPos - TailPos)
  BY <1>1, QueueIsRun DEF Queued, Ordinal
<1>c. HeadPos - TailPos \in Nat /\ epoch + TailPos \in Nat
  BY <1>1
<1>4. Queued \in Seq(Nat) /\ Len(Queued) = HeadPos - TailPos
  BY <1>a, <1>c, RunProperties
<1>5. Ordinal(HeadPos)' = Ordinal(HeadPos)
  BY <1>2 DEF Ordinal
<1>6. CASE cons.n = 0
  <2>1. delivered' = delivered
    BY <1>1, <1>6
  <2>2. QED BY <1>1, <1>2, <1>6, <2>1, Stutters DEF PositionsRest
<1>7. CASE cons.n # 0
  <2> DEFINE n == cons.n
  <2>1. n \in 1..Len(Queued)
    BY <1>1, <1>4, <1>7
  <2>2. Queued' = SubSeq(Queued, n + 1, Len(Queued))
    <3>1. /\ epoch' \in Nat /\ TailPos' \in Nat /\ HeadPos' \in Nat
          /\ TailPos' <= HeadPos'
      BY <1>1, <1>2
    <3>2. Queued' = Run(epoch' + TailPos', HeadPos' - TailPos')
      BY <3>1, QueueIsRun DEF Queued, Ordinal
    <3>3. Queued' = Run(epoch + (TailPos + n), HeadPos - (TailPos + n))
      BY <1>2, <3>2
    <3>4. /\ epoch + (TailPos + n) = (epoch + TailPos) + n
          /\ HeadPos - (TailPos + n) = (HeadPos - TailPos) - n
      BY <1>1
    <3>5. n \in 1..HeadPos - TailPos
      BY <1>4, <2>1
    <3>6. QED BY <1>a, <1>c, <1>4, <3>3, <3>4, <3>5, RunSplits
  <2>3. Payloads' = Payloads \o SubSeq(Queued, 1, n)
    <3>1. /\ DOMAIN delivered = 1..Len(delivered)
          /\ DOMAIN delivered' = 1..Len(delivered) + n
      BY <1>1
    <3>2. /\ SubSeq(Queued, 1, n) \in Seq(Int) /\ Len(SubSeq(Queued, 1, n)) = n
          /\ \A i \in 1..n : SubSeq(Queued, 1, n)[i] = epoch + (TailPos + i - 1)
      <4>1. SubSeq(Queued, 1, n) = Run(epoch + TailPos, n)
        BY <1>a, <1>c, <1>4, <2>1, RunSplits
      <4>2. /\ Run(epoch + TailPos, n) \in Seq(Nat) /\ Len(Run(epoch + TailPos, n)) = n
            /\ \A i \in 1..n : Run(epoch + TailPos, n)[i] = epoch + TailPos + i - 1
        BY <1>1, <1>c, RunProperties
      <4>3. \A i \in 1..n : epoch + TailPos + i - 1 = epoch + (TailPos + i - 1)
        BY <1>1
      <4>4. QED BY <4>1, <4>2, <4>3
    <3>3. Payloads \in Seq(Int) /\ Len(Payloads) = Len(delivered)
      <4>1. \A i \in 1..Len(delivered) : delivered[i].payload \in Int
        <5>1. \A i \in 1..Len(delivered) : delivered[i] \in Contents
          BY <1>1, ElementOfSeq
        <5>2. QED BY <5>1 DEF Contents
      <4>2. Payloads = [i \in 1..Len(delivered) |-> delivered[i].payload]
        BY <3>1 DEF Payloads
      <4>3. Len(delivered) \in Nat
        BY <1>1
      <4>4. QED BY <4>1, <4>2, <4>3
    <3>4. ASSUME NEW i \in 1..Len(delivered) + n
          PROVE  delivered'[i].payload = (Payloads \o SubSeq(Queued, 1, n))[i]
      <4>1. CASE i <= Len(delivered)
        BY <1>1, <3>1, <3>3, <4>1 DEF Payloads
      <4>2. CASE ~(i <= Len(delivered))
        <5>1. /\ i - Len(delivered) \in 1..n
              /\ delivered'[i] = cons.got[i - Len(delivered)]
          BY <1>1, <4>2
        <5>2. (Payloads \o SubSeq(Queued, 1, n))[i]
                = SubSeq(Queued, 1, n)[i - Len(delivered)]
          <6>1. /\ i \in 1..Len(Payloads) + Len(SubSeq(Queued, 1, n))
                /\ ~(i <= Len(Payloads))
            BY <3>2, <3>3, <4>2
          <6>2. QED BY <3>2, <3>3, <6>1, ConcatProperties
        <5>3. QED BY <1>3, <3>2, <5>1, <5>2
      <4>3. QED BY <4>1, <4>2
    <3>5. /\ Payloads \o SubSeq(Queued, 1, n) \in Seq(Int)
          /\ Len(Payloads \o SubSeq(Queued, 1, n)) = Len(delivered) + n
      BY <3>2, <3>3, ConcatProperties
    <3>6. QED
      <4>1. Payloads' = [i \in 1..Len(delivered) + n |-> delivered'[i].payload]
        BY <3>1 DEF Payloads
      <4>2. Payloads \o SubSeq(Queued, 1, n)
              = [i \in 1..Len(delivered) + n |-> (Payloads \o SubSeq(Queued, 1, n))[i]]
        BY <3>5
      <4>3. QED BY ONLY <3>4, <4>1, <4>2
  <2>4. Fifo!Get
    BY <1>2, <1>5, <2>1, <2>2, <2>3 DEF Fifo!Get, Payloads
  <2>5. QED BY <2>4 DEF Fifo!Next
<1>8. QED BY <1>6, <1>7

LEMMA ClearClears ==
  ASSUME IInv, Clear
  PROVE  Fifo!Clear
<1>1. Hi(0) \in Nat /\ Lo(0) \in 0..Base - 1 /\ Val(Hi(0), Lo(0)) = 0
  BY DigitsOf
<1>2. HeadPos' = 0 /\ TailPos' = 0
  BY <1>1 DEF Clear, HeadPos, TailPos, Word
<1>3. Queued' = <<>>
  BY <1>2 DEF Queued
<1>4. Ordinal(HeadPos)' = Ordinal(HeadPos)
  <2>1. HeadPos \in Nat /\ epoch \in Nat
    BY Positions DEF IInv, TypeOK
  <2>2. QED BY <1>2, <2>1 DEF Clear, Ordinal
<1>5. QED BY <1>3, <1>4 DEF Clear, Fifo!Clear
-----------------------------------------------------------------------------
LEMMA InitMaps == Init => Fifo!Init
<1> SUFFICES ASSUME Init PROVE Fifo!Init
  OBVIOUS
<1>1. Val(Hi(0), Lo(0)) = 0
  BY DigitsOf
<1>2. HeadPos = 0 /\ TailPos = 0
  BY <1>1 DEF Init, HeadPos, TailPos, Word, ProdIdle, ConsIdle
<1>3. Queued = <<>> /\ Ordinal(HeadPos) = 0
  BY <1>2 DEF Queued, Ordinal, Init
<1>4. QED BY <1>3 DEF Fifo!Init, Init

LEMMA StepMaps == IInv /\ [Next]_vars => [Fifo!Next]_(Fifo!fifoVars)
<1> SUFFICES ASSUME IInv, [Next]_vars PROVE [Fifo!Next]_(Fifo!fifoVars)
  OBVIOUS
<1>1. CASE CallWrite \/ StorePrefix \/ StorePayload \/ ClearHead
           \/ StoreHeadHi \/ ClearTail \/ CheckAvailable \/ LoadPrefix \/ LoadPayload \/ StoreTailHi
  <2>1. PositionsRest
    BY <1>1, CallWriteRests, StoreSlotRests, ClearWordRests, StoreHeadHiRests,
       CheckAvailableRests, LoadRests, StoreTailHiRests
  <2>2. UNCHANGED <<dropped, epoch, delivered>>
    BY <1>1 DEF CallWrite, StorePrefix, StorePayload, ClearHead, StoreHeadHi,
                ClearTail, CheckAvailable, LoadPrefix, LoadPayload, StoreTailHi
  <2>3. QED BY <2>1, <2>2, Stutters
<1>2. ASSUME NEW max \in BatchSizes, CallRead(max)
      PROVE  [Fifo!Next]_(Fifo!fifoVars)
  <2>1. PositionsRest /\ UNCHANGED <<dropped, epoch, delivered>>
    BY <1>2, CallReadRests DEF CallRead
  <2>2. QED BY <2>1, Stutters
<1>3. CASE CheckRoom
  BY <1>3, CheckRoomRefuses
<1>4. CASE StoreHeadLo
  BY <1>4, StoreHeadLoPuts DEF Fifo!Next
<1>5. CASE StoreTailLo
  BY <1>5, StoreTailLoGets
<1>6. CASE Clear
  BY <1>6, ClearClears DEF Fifo!Next
<1>7. CASE UNCHANGED vars
  <2>1. PositionsRest /\ UNCHANGED <<dropped, epoch, delivered>>
    BY <1>7 DEF vars, PositionsRest, HeadPos, TailPos
  <2>2. QED BY <2>1, Stutters
<1>8. QED BY <1>1, <1>2, <1>3, <1>4, <1>5, <1>6, <1>7 DEF Next

\* The ring is a bounded first-in first-out queue whose producer never blocks
\* (ring_buffer.py, the whole class), whatever interleaves with whatever.
THEOREM RingImplementsFifo == Spec => ImplementsFifo
<1>1. Init => Fifo!Init
  BY InitMaps
<1>2. IInv /\ [Next]_vars => [Fifo!Next]_(Fifo!fifoVars)
  BY StepMaps
<1>3. Spec => []IInv
  BY RingInvariant
<1>4. QED BY <1>1, <1>2, <1>3, PTL DEF Spec, Fifo!Spec, ImplementsFifo
=============================================================================
