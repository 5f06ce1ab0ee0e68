------------------------------ MODULE BloomIntel ------------------------------
(***************************************************************************)
(* HighScaleThreatIntel (detector/bloom_threat_intel.py): a table of       *)
(* indicators behind a counting Bloom filter.  An intel is a record        *)
(* [counters, items, table, full]: the filter's counters, its count of     *)
(* items, ioc_metadata, and (history) the counters that were ever at their *)
(* limit when they should have grown.                                      *)
(***************************************************************************)
EXTENDS Naturals, Sequences, FiniteSets, SequencesExt

CONSTANTS Hosts,       \* addresses
          Slots,       \* indices of the filter's array
          Hashes,      \* _hashes: the k indices of an address, a sequence
          CounterMax,  \* largest value of a counter (255)
          Seeds        \* addresses _load_seed_iocs registers

ASSUME HashAssumption == /\ Hashes \in [Hosts -> Seq(Slots)] /\ CounterMax \in Nat
                         /\ Seeds \subseteq Hosts /\ IsFiniteSet(Seeds)

\* One counter of the filter, up or down.
Up(c, slot) ==
  IF c.counters[slot] < CounterMax THEN [c EXCEPT !.counters[slot] = @ + 1]
  ELSE [c EXCEPT !.full = @ \cup {slot}]
Down(c, slot) ==
  IF c.counters[slot] > 0 THEN [c EXCEPT !.counters[slot] = @ - 1] ELSE c

MayContain(c, host) == \A i \in DOMAIN Hashes[host] : c.counters[Hashes[host][i]] > 0

\* The counters of an address, one after the other, up or down.
Raised(c, host) ==
  LET up[i \in 0..Len(Hashes[host])] ==
        IF i = 0 THEN c ELSE Up(up[i - 1], Hashes[host][i])
  IN  up[Len(Hashes[host])]
Lowered(c, host) ==
  LET down[i \in 0..Len(Hashes[host])] ==
        IF i = 0 THEN c ELSE Down(down[i - 1], Hashes[host][i])
  IN  down[Len(Hashes[host])]

BloomAdd(c, host) == [Raised(c, host) EXCEPT !.items = @ + 1]

BloomRemove(c, host) ==
  IF MayContain(c, host)
  THEN [Lowered(c, host) EXCEPT !.items = IF @ > 0 THEN @ - 1 ELSE 0]
  ELSE c

\* Mutant: an indicator given twice enters the filter twice.
AddIocAgain(c, host) == [BloomAdd(c, host) EXCEPT !.table = @ \cup {host}]

\* add_ioc: a known address only has its description replaced.
AddIoc(c, host) ==
  LET filter == IF host \in c.table THEN c ELSE BloomAdd(c, host)
  IN [filter EXCEPT !.table = @ \cup {host}]

\* remove_ioc, and whether it says it removed something.
RemoveIoc(c, host) ==
  IF host \in c.table
  THEN [BloomRemove(c, host) EXCEPT !.table = @ \ {host}] ELSE c

\* A feed or a bundle: the addresses in it, one after the other.
LoadFeed(c, hosts) ==
  LET loaded[i \in 0..Len(hosts)] ==
        IF i = 0 THEN c ELSE AddIoc(loaded[i - 1], hosts[i])
  IN  loaded[Len(hosts)]

\* query_ip: the filter first, the table has the last word.
Query(c, host) == MayContain(c, host) /\ host \in c.table

EmptyIntel == [counters |-> [slot \in Slots |-> 0], items |-> 0, table |-> {},
               full |-> {}]
SeedIntel == LoadFeed(EmptyIntel, SetToSeq(Seeds))
=============================================================================
