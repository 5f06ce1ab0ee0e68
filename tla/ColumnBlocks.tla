----------------------------- MODULE ColumnBlocks -----------------------------
(***************************************************************************)
(* The columnar engine of storage/columnar.py: blocks of rows with a zone  *)
(* map each, their files, the queries and the aggregates over them.        *)
(*                                                                         *)
(* A row is [ts, src, dst, port, proto, packets, bytes, ja4]: the two      *)
(* columns left out are stored as port and proto are and never filtered.   *)
(* A filter is a function from some of the keys used below to values; Null *)
(* is JSON's null.                                                         *)
(***************************************************************************)
EXTENDS Integers, Sequences, FiniteSets, SequencesExt, FiniteSetsExt, Functions

CONSTANTS BlockSize,   \* rows at which a block is frozen (5000)
          MaxPackets,  \* greatest number its column of packets holds (2^32 - 1)
          MaxNames,    \* entries a dictionary of a file can index (2^16)
          Bucket,      \* bucket_seconds of the timeline
          Null         \* null, which is no name and no number

Far == 1000000        \* beyond every time: float("inf")

EmptyZone == [minTs |-> Far, maxTs |-> -Far, minPort |-> 65535, maxPort |-> 0,
              protos |-> {}, srcs |-> {}, dsts |-> {}, bytes |-> 0, packets |-> 0,
              count |-> 0]

\* Mutant: the zone starts at its first row and only grows upwards.
WidenedUp(z, r) ==
  [z EXCEPT !.minTs = IF z.count = 0 THEN r.ts ELSE @, !.maxTs = Max({@, r.ts}),
            !.minPort = Min({@, r.port}), !.maxPort = Max({@, r.port}),
            !.protos = @ \cup {r.proto}, !.srcs = @ \cup {r.src},
            !.dsts = @ \cup {r.dst}, !.bytes = @ + r.bytes,
            !.packets = @ + r.packets, !.count = @ + 1]

\* BlockZoneMap.update
Widened(z, r) ==
  [z EXCEPT !.minTs = Min({@, r.ts}), !.maxTs = Max({@, r.ts}),
            !.minPort = Min({@, r.port}), !.maxPort = Max({@, r.port}),
            !.protos = @ \cup {r.proto}, !.srcs = @ \cup {r.src},
            !.dsts = @ \cup {r.dst}, !.bytes = @ + r.bytes,
            !.packets = @ + r.packets, !.count = @ + 1]

\* Is the key in the filter with a value?
Given(f, key) == key \in DOMAIN f /\ f[key] # Null

\* BlockZoneMap.can_skip: the block has no row that the filter lets through.
CanSkip(z, f) ==
  \/ z.count = 0
  \/ Given(f, "start") /\ z.maxTs < f["start"]
  \/ Given(f, "end") /\ z.minTs > f["end"]
  \/ Given(f, "port") /\ (f["port"] < z.minPort \/ f["port"] > z.maxPort)
  \/ Given(f, "proto") /\ f["proto"] \notin z.protos
  \/ Given(f, "src") /\ f["src"] \notin z.srcs
  \/ Given(f, "dst") /\ f["dst"] \notin z.dsts

NewBlock(id) == [id |-> id, rows |-> <<>>, zone |-> EmptyZone]

\* ColumnBlock.append
Appended(block, r) ==
  [block EXCEPT !.rows = Append(@, r), !.zone = Widened(@, r)]
-----------------------------------------------------------------------------
(* A block's file: dictionaries of its names and columns of indices *)

\* The values of a column, each once, in the order of their first rows.
Dictionary(rows, column) ==
  LET add(seen, r) == IF r[column] \in ToSet(seen) THEN seen ELSE Append(seen, r[column])
  IN FoldLeft(add, <<>>, rows)

Indexed(rows, column) ==
  [i \in DOMAIN rows |->
     SelectInSeq(Dictionary(rows, column), LAMBDA v : v = rows[i][column])]

Names == {"src", "dst", "ja4"}
Numbers == {"ts", "port", "proto", "packets", "bytes"}

\* serialize packs every column in a number of its width, or raises.
Packable(block) ==
  /\ \A i \in DOMAIN block.rows : block.rows[i].packets <= MaxPackets
  /\ \A c \in Names : Len(Dictionary(block.rows, c)) <= MaxNames

Serialized(block) ==
  [id |-> block.id, rows |-> Len(block.rows),
   dictionaries |-> [c \in Names |-> Dictionary(block.rows, c)],
   columns |-> [c \in Names |-> Indexed(block.rows, c)]
               @@ [c \in Numbers |-> [i \in DOMAIN block.rows |-> block.rows[i][c]]]]

\* Mutant: destinations are read with the dictionary of the sources.
DeserializedMixed(file) ==
  LET value(i, c) == IF c \in Numbers THEN file.columns[c][i]
                     ELSE LET d == IF c = "dst" THEN "src" ELSE c
                          IN IF file.columns[c][i] \in DOMAIN file.dictionaries[d]
                             THEN file.dictionaries[d][file.columns[c][i]] ELSE "none"
      rows == [i \in 1..file.rows |-> [c \in Names \cup Numbers |-> value(i, c)]]
  IN FoldLeft(Appended, NewBlock(file.id), rows)

\* The rows come back with their names and the zone map is built again.
Deserialized(file) ==
  LET value(i, c) == IF c \in Numbers THEN file.columns[c][i]
                     ELSE file.dictionaries[c][file.columns[c][i]]
      rows == [i \in 1..file.rows |-> [c \in Names \cup Numbers |-> value(i, c)]]
  IN FoldLeft(Appended, NewBlock(file.id), rows)
-----------------------------------------------------------------------------
(* Storages: [active, frozen, next, disk], and whether the call raised *)

NewStorage(disk) ==
  [active |-> NewBlock(0), frozen |-> <<>>, next |-> 1, disk |-> disk, raised |-> FALSE]

Torn == [id |-> Null]   \* a file cut short by a write that failed

(***************************************************************************)
(* rotate_block.  Only a storage with a directory writes files; a block    *)
(* that cannot be packed, or written, raises with the block still active.  *)
(***************************************************************************)
Rotated(s, persistent, writes) ==
  LET file == s.active.id
      frozen == [s EXCEPT !.active = NewBlock(s.next), !.next = @ + 1,
                          !.frozen = Append(@, s.active)]
  IN IF s.active.rows = <<>> THEN s
     ELSE IF ~persistent THEN frozen
     ELSE IF ~Packable(s.active) THEN [s EXCEPT !.raised = TRUE]
     ELSE IF ~writes THEN [s EXCEPT !.raised = TRUE, !.disk = (file :> Torn) @@ @]
     ELSE [frozen EXCEPT !.disk = (file :> Serialized(s.active)) @@ @]

\* append_flow; once a call has raised the caller's loop is over.
AppendFlow(s, r, persistent, writes) ==
  LET with == [s EXCEPT !.active = Appended(@, r)]
  IN IF s.raised THEN s
     ELSE IF Len(with.active.rows) >= BlockSize THEN Rotated(with, persistent, writes)
     ELSE with

\* append_records_batch, and the loops of the callers of append_flow
AppendAll(s, rows, persistent, writes) ==
  FoldLeft(LAMBDA t, r : AppendFlow(t, r, persistent, writes),
           [s EXCEPT !.raised = FALSE], rows)

AllBlocks(s) == Append(s.frozen, s.active)

TotalFlows(s) == FoldLeft(LAMBDA n, b : n + Len(b.rows), 0, AllBlocks(s))

(***************************************************************************)
(* query.  The rows of a block are compared with every value of the        *)
(* filter: a null start or end filters nothing, any other null nothing     *)
(* passes.  The limit is looked at after a row has been added.             *)
(***************************************************************************)
Passes(r, f) ==
  /\ "src" \in DOMAIN f => f["src"] = r.src
  /\ "dst" \in DOMAIN f => f["dst"] = r.dst
  /\ "port" \in DOMAIN f => f["port"] = r.port
  /\ "proto" \in DOMAIN f => f["proto"] = r.proto
  /\ "min_bytes" \in DOMAIN f => r.bytes >= f["min_bytes"]
  /\ "ja4" \in DOMAIN f => f["ja4"] = r.ja4
  /\ Given(f, "start") => r.ts >= f["start"]
  /\ Given(f, "end") => r.ts <= f["end"]

Query(s, f, limit) ==
  LET scanned == SelectSeq(AllBlocks(s), LAMBDA b : ~CanSkip(b.zone, f))
      found == FlattenSeq([i \in DOMAIN scanned |->
                 SelectSeq(scanned[i].rows, LAMBDA r : Passes(r, f))])
  IN SubSeq(found, 1, Min({Len(found), Max({limit, 1})}))

RowsOf(s) == FlattenSeq([i \in DOMAIN AllBlocks(s) |-> AllBlocks(s)[i].rows])

\* What every aggregate does: the rows of all blocks, grouped by their keys.
Grouped(rows, keys) ==
  LET of(k) == {i \in DOMAIN rows : keys[i] = k}
  IN [k \in ToSet(keys) |->
        [flows |-> Cardinality(of(k)),
         bytes |-> MapThenSumSet(LAMBDA i : rows[i].bytes, of(k)),
         packets |-> MapThenSumSet(LAMBDA i : rows[i].packets, of(k))]]
GroupedBy(s, column) ==
  Grouped(RowsOf(s), [i \in DOMAIN RowsOf(s) |-> RowsOf(s)[i][column]])

\* The hosts by volume, the largest first; of equals the first seen.
TopTalkers(s, limit) ==
  LET volumes == GroupedBy(s, "src")
      seen == Dictionary(RowsOf(s), "src")
      place(h) == SelectInSeq(seen, LAMBDA v : v = h)
      sorted == SetToSortSeq(DOMAIN volumes, LAMBDA g, h :
                  \/ volumes[g].bytes > volumes[h].bytes
                  \/ volumes[g].bytes = volumes[h].bytes /\ place(g) < place(h))
  IN [i \in 1..Min({limit, Len(sorted)}) |-> [ip |-> sorted[i]] @@ volumes[sorted[i]]]

Protocols(s) == GroupedBy(s, "proto")
Timeline(s) ==
  Grouped(RowsOf(s), [i \in DOMAIN RowsOf(s) |-> (RowsOf(s)[i].ts \div Bucket) * Bucket])
=============================================================================
