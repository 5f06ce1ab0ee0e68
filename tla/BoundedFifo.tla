---------------------------- MODULE BoundedFifo ----------------------------
(***************************************************************************)
(* What a ring buffer promises to the two processes that share it: a       *)
(* bounded first-in first-out queue whose producer never blocks.           *)
(*                                                                         *)
(* Put may refuse an element (the ring counts it as dropped) but never     *)
(* grows the queue beyond Capacity; Get hands over a prefix of what is     *)
(* queued, in order, once; Clear discards what is queued.  Elements are    *)
(* the ordinals of the accepted writes, so that no two are equal.          *)
(***************************************************************************)
EXTENDS Naturals, Sequences

CONSTANT Capacity

VARIABLES queue,      \* the ordinals accepted and not handed over yet
          taken,      \* every ordinal handed over, in the order of delivery
          accepted,   \* how many elements Put accepted
          lost        \* how many elements Put refused since the last Clear

fifoVars == <<queue, taken, accepted, lost>>

Init == queue = <<>> /\ taken = <<>> /\ accepted = 0 /\ lost = 0

Put == /\ Len(queue) < Capacity
       /\ queue' = Append(queue, accepted)
       /\ accepted' = accepted + 1
       /\ UNCHANGED <<taken, lost>>

Refuse == lost' = lost + 1 /\ UNCHANGED <<queue, taken, accepted>>

Get == \E n \in 1..Len(queue) :
         /\ taken' = taken \o SubSeq(queue, 1, n)
         /\ queue' = SubSeq(queue, n + 1, Len(queue))
         /\ UNCHANGED <<accepted, lost>>

Clear == queue' = <<>> /\ lost' = 0 /\ UNCHANGED <<taken, accepted>>

Next == Put \/ Refuse \/ Get \/ Clear

Spec == Init /\ [][Next]_fifoVars
=============================================================================
