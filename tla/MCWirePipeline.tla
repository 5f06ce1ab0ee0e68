--------------------------- MODULE MCWirePipeline ---------------------------
EXTENDS WirePipeline

(***************************************************************************)
(* Hosts a, b and c.  HashOf sends the conversations a-b and a-c to two    *)
(* workers, and hosts a and c alone to one each.                           *)
(***************************************************************************)
CONSTANTS a, b, c

MCHash == [s \in {{a, b}, {a, c}, {a}, {b}, {c}} |->
             CASE s = {a, b} -> 2 [] s = {a, c} -> 5
               [] s = {a} -> 0 [] s = {b} -> 1 [] s = {c} -> 1]

V5(flows) == [kind |-> "v5", flows |-> flows]
V9(flows) == [kind |-> "v9", flows |-> flows]

\* Both directions of a-c, one with a record of a-b behind it, and a-b in a
\* datagram the quick parser cannot route.
Datagrams == {V5(<<Flow(a, c)>>), V5(<<Flow(c, a), Flow(a, b)>>), V9(<<Flow(b, a)>>)}
=============================================================================
