--------------------------- MODULE OrderedRecords ---------------------------
(***************************************************************************)
(* Sequences of records numbered in the order of their arrival: what a     *)
(* bounded queue or buffer keeps of them, and which of them a filter lets  *)
(* through.                                                                *)
(***************************************************************************)
EXTENDS Integers, Sequences

\* The last elements of a sequence, as many as most.
LastOf(s, most) == IF Len(s) <= most THEN s ELSE SubSeq(s, Len(s) - most + 1, Len(s))

\* Those of the elements that are in a set, in their order (SelectSeq, in a
\* form the provers can expand).
Those(s, set) ==
  LET those[i \in 0..Len(s)] ==
        IF i = 0 THEN <<>>
        ELSE IF s[i] \in set THEN Append(those[i - 1], s[i]) ELSE those[i - 1]
  IN  those[Len(s)]

Increasing(s) == \A i, j \in 1..Len(s) : i < j => s[i] < s[j]

\* Consecutive numbers that end at n.
IsRun(s, n) == \A i \in 1..Len(s) : s[i] = n - Len(s) + i
=============================================================================
