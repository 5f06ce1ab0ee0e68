----------------------------- MODULE FlowDecoder -----------------------------
(***************************************************************************)
(* The decoder of flow datagrams (collector/parser.py and                  *)
(* collector/netflow_v9.py): NetFlow v5 has fixed records; NetFlow v9 and  *)
(* IPFIX datagrams are sequences of sets, which define templates or carry  *)
(* records laid out by a template.  Every process that decodes (the UDP    *)
(* handler, or a worker of the pipeline) keeps a template cache of its     *)
(* own, under (exporter_ip, domain, template); but no caller tells it the  *)
(* exporter_ip, so two exporters with one domain id share their keys.  The *)
(* network may lose, repeat and reorder datagrams, and a ring slot cuts    *)
(* them.                                                                   *)
(*                                                                         *)
(* A layout is a sequence of fields [type, len, vendor], a vendor's field  *)
(* with the number it has beside its vendor bit; of a record the model     *)
(* keeps the layouts it was written and read with, as the position and the *)
(* width each field is read at is all that can go wrong.                   *)
(***************************************************************************)
EXTENDS Integers, Sequences, FiniteSets, SequencesExt

CONSTANTS Exporters,    \* the routers
          VersionOf,    \* 5, 9 or 10 (IPFIX), a function of the exporter
          DomainOf,     \* source_id or observation domain of the exporter
          TemplateIds,  \* template ids in use
          LayoutsOf,    \* the layouts an exporter may be configured with
          AtStart,      \* and those it has when the collector starts
          NumWorkers,   \* processes that decode
          MaxPayload,   \* bytes of a datagram that reach the decoder
          MaxRecords,   \* bound: records in a set
          MaxSent,      \* bound: datagrams sent
          MaxTransit    \* bound: datagrams on their way at a time

ASSUME DecoderAssumption ==
  /\ VersionOf \in [Exporters -> {5, 9, 10}]
  /\ MaxPayload \in Nat
  /\ NumWorkers \in Nat \ {0}

\* What an exporter may have for a template id, and has at the start.
ASSUME ConfigAssumption ==
  /\ AtStart \in [Exporters -> [TemplateIds ->
                    {<<>>} \union UNION {LayoutsOf[e] : e \in Exporters}]]
  /\ \A e \in Exporters, t \in TemplateIds : AtStart[e][t] \in {<<>>} \union LayoutsOf[e]

VARIABLES config,   \* the layout each exporter uses for each template id
          transit,  \* datagrams on their way
          sent,     \* datagrams sent
          caches,   \* the TemplateCache of each worker
          turn,     \* total_submitted_packets
          told,     \* history: what each exporter last told each worker
          rivals,    \* history: who else told it a template of that key since then
          result    \* what came of each data set of the last datagram decoded

vars == <<config, transit, sent, caches, turn, told, rivals, result>>

Workers == 0..NumWorkers - 1
Keys == {DomainOf[e] : e \in Exporters} \X TemplateIds
None == <<>>

\* Bytes of one record of a layout.
RecordSize(layout) == SumFunction([i \in DOMAIN layout |-> layout[i].len])

\* Where each IANA field of a layout stands: its first byte and its width.
Span(layout, i) ==
  <<layout[i].type, RecordSize(SubSeq(layout, 1, i - 1)), layout[i].len>>
IanaFields(layout) == {i \in DOMAIN layout : ~layout[i].vendor}
Spans(layout) == {Span(layout, i) : i \in IanaFields(layout)}

Init == /\ config = AtStart
        /\ transit = {} /\ sent = 0
        /\ caches = [w \in Workers |-> [k \in Keys |-> None]]
        /\ turn = 0
        /\ told = [w \in Workers |-> [e \in Exporters |-> [t \in TemplateIds |-> None]]]
        /\ rivals = [w \in Workers |-> [e \in Exporters |-> [t \in TemplateIds |-> {}]]]
        /\ result = <<>>
-----------------------------------------------------------------------------
(* The exporters and the network, as the collector meets them *)

Padding(n) == (4 - (n % 4)) % 4

TemplateSet(e) == [kind |-> "template", layouts |-> config[e]]
DataSet(e, t, n) == [kind |-> "data", id |-> t, layout |-> config[e][t], records |-> n,
                     bytes |-> n * RecordSize(config[e][t])
                                 + Padding(n * RecordSize(config[e][t]))]
OptionsSet == [kind |-> "options"]

\* A set with its header; in IPFIX the vendor's number follows a vendor's field.
TemplateBytes(e, layout) ==
  LET FieldBytes(f) == IF f.vendor /\ VersionOf[e] # 9 THEN 8 ELSE 4
  IN  IF layout = None THEN 0
      ELSE 4 + FoldSeq(LAMBDA f, n : n + FieldBytes(f), 0, layout)
SetSize(e, set) ==
  CASE set.kind = "template" ->
         4 + FoldFunction(+, 0, [t \in TemplateIds |-> TemplateBytes(e, set.layouts[t])])
    [] set.kind = "data" -> 4 + set.bytes
    [] OTHER -> 16

\* A router is configured, or restarts with another layout under the same id.
Configure(e, t, layout) ==
  /\ VersionOf[e] # 5 /\ layout # config[e][t]
  /\ sent < MaxSent
  /\ config' = [config EXCEPT ![e][t] = layout]
  /\ UNCHANGED <<transit, sent, caches, turn, told, rivals, result>>

Send(datagram) == /\ sent < MaxSent /\ Cardinality(transit) < MaxTransit
                  /\ sent' = sent + 1
                  /\ transit' = transit \union {datagram}
                  /\ UNCHANGED <<config, caches, turn, told, rivals, result>>

\* Templates after an options set, records, or templates and records in either
\* order.
ExportSets(e, t, n) ==
  /\ VersionOf[e] # 5 /\ config[e][t] # None
  /\ \E sets \in {<<OptionsSet, TemplateSet(e)>>, <<DataSet(e, t, n)>>,
                  <<TemplateSet(e), DataSet(e, t, n)>>,
                  <<DataSet(e, t, n), TemplateSet(e)>>} :
       Send([from |-> e, sets |-> sets])

\* A v5 datagram with its declared number of records.
ExportV5(e, n) ==
  /\ VersionOf[e] = 5
  /\ Send([from |-> e, count |-> n, records |-> n])

Lose(datagram) == /\ transit' = transit \ {datagram}
                  /\ UNCHANGED <<config, sent, caches, turn, told, rivals, result>>
-----------------------------------------------------------------------------
(* The decoder *)

\* Mutant: the templates of all domains share their ids.
KeyById(e, t) == <<DomainOf[CHOOSE f \in Exporters : TRUE], t>>
\* (exporter_ip, domain_id, template_id); no caller passes an exporter_ip.
Key(e, t) == <<DomainOf[e], t>>

\* What is kept of a field: IPFIX drops the vendor bit with the vendor's number.
Stored(e, layout) ==
  IF VersionOf[e] = 9 THEN layout
  ELSE [i \in DOMAIN layout |-> [layout[i] EXCEPT !.vendor = FALSE]]

\* A template set: register_template for each template in it.
Register(cache, e, set) ==
  [k \in Keys |-> IF \E t \in TemplateIds : k = Key(e, t) /\ set.layouts[t] # None
                  THEN Stored(e, set.layouts[k[2]]) ELSE cache[k]]

\* Mutant: the last record of a set is left when it ends the set.
CountStrictly(template, bytes) ==
  IF template = None THEN 0 ELSE (bytes - 1) \div RecordSize(template)
\* Records read from a data set: none without a template.
RecordsIn(template, bytes) ==
  IF template = None \/ RecordSize(template) = 0 THEN 0
  ELSE bytes \div RecordSize(template)

\* values: a later field of the same type overwrites an earlier one.
Values(template) ==
  {Span(template, i) : i \in {i \in IanaFields(template) :
     \A j \in IanaFields(template) : template[j].type = template[i].type => j <= i}}

\* The sets that arrive whole: the loop breaks at the first that does not.
HeaderSize(e) == IF VersionOf[e] = 9 THEN 20 ELSE 16
Arriving(d) ==
  LET end[i \in 0..Len(d.sets)] == IF i = 0 THEN HeaderSize(d.from)
                                   ELSE end[i - 1] + SetSize(d.from, d.sets[i])
  IN  {i \in DOMAIN d.sets : end[i] <= MaxPayload}

\* e tells a worker its layouts: those of the others are older from now on.
Tell(known, e, set) ==
  [f \in Exporters |-> [t \in TemplateIds |->
     IF f = e /\ set.layouts[t] # None THEN set.layouts[t] ELSE known[f][t]]]
Outdate(older, e, set) ==
  [f \in Exporters |-> [t \in TemplateIds |->
     IF set.layouts[t] = None \/ DomainOf[f] # DomainOf[e] THEN older[f][t]
     ELSE IF f = e THEN {} ELSE older[f][t] \union {e}]]

\* One set: what the worker knows after it, and what it read.
Decode(set, e, s) ==
  CASE set.kind = "template" -> [s EXCEPT !.cache = Register(@, e, set),
                                          !.told = Tell(@, e, set),
                                          !.rivals = Outdate(@, e, set)]
    [] set.kind = "data" ->
         LET t        == set.id
             template == s.cache[Key(e, t)]
         IN  [s EXCEPT !.read = Append(@,
               [from |-> e, own |-> Stored(e, s.told[e][t]),
                newer |-> {Stored(f, s.told[f][t]) : f \in s.rivals[e][t]},
                written |-> set.layout, sent |-> set.records, used |-> template,
                got |-> RecordsIn(template, set.bytes)])]
    [] OTHER -> s

\* What a worker knows, and what it read, after the first n sets of a datagram.
AfterSets(w, d, n) ==
  LET after[i \in 0..n] ==
        IF i = 0
        THEN [cache |-> caches[w], told |-> told[w], rivals |-> rivals[w], read |-> <<>>]
        ELSE Decode(d.sets[i], d.from, after[i - 1])
  IN  after[n]

\* parse_netflow_v9 and parse_ipfix.
ParseSets(w, d) ==
  LET r == AfterSets(w, d, Cardinality(Arriving(d)))
  IN  /\ caches' = [caches EXCEPT ![w] = r.cache]
      /\ told' = [told EXCEPT ![w] = r.told]
      /\ rivals' = [rivals EXCEPT ![w] = r.rivals]
      /\ result' = r.read

\* The records of a v5 datagram, of 48 bytes each: as many as its header says
\* and as fit; none in a datagram shorter than its header of 24 bytes.
V5Records(count, bytes) ==
  IF bytes < 24 THEN 0
  ELSE IF bytes < 24 + count * 48 THEN (bytes - 24) \div 48 ELSE count

ParseV5(d) ==
  LET size  == 24 + 48 * d.records
      bytes == IF size > MaxPayload THEN MaxPayload ELSE size
  IN  /\ result' = <<[from |-> d.from, own |-> None, newer |-> {}, written |-> None,
                      sent |-> (bytes - 24) \div 48, used |-> None,
                      got |-> V5Records(d.count, bytes)]>>
      /\ UNCHANGED <<caches, told, rivals>>

\* A datagram that arrives goes to the next worker, and may arrive again.
Receive(d, again) ==
  /\ turn' = (turn + 1) % NumWorkers
  /\ transit' = IF again THEN transit ELSE transit \ {d}
  /\ IF VersionOf[d.from] = 5 THEN ParseV5(d) ELSE ParseSets(turn, d)
  /\ UNCHANGED <<config, sent>>

Next == \/ \E e \in Exporters, t \in TemplateIds : \E l \in LayoutsOf[e] : Configure(e, t, l)
        \/ \E e \in Exporters, t \in TemplateIds, n \in 1..MaxRecords : ExportSets(e, t, n)
        \/ \E e \in Exporters, n \in 1..MaxRecords : ExportV5(e, n)
        \/ \E d \in transit : Lose(d)
        \/ \E d \in transit, again \in BOOLEAN : Receive(d, again)

Spec == Init /\ [][Next]_vars
-----------------------------------------------------------------------------
\* The field types _decode_data_record puts into a record.
FieldsRead == {1, 2, 4, 5, 6, 7, 8, 9, 10, 11, 12, 13, 14, 15, 16, 17, 21, 22, 27, 28}
Read(spans) == {s \in spans : s[1] \in FieldsRead}

\* Routers send records that are longer than the padding of a set, with every
\* IANA field that is read at most once; the header of a v5 datagram reaches the
\* decoder.
ASSUME LayoutAssumption ==
  /\ \A e \in Exporters : \A l \in LayoutsOf[e] :
       /\ l \in Seq([type : Nat, len : Nat, vendor : BOOLEAN]) /\ RecordSize(l) > 3
       /\ \A i, j \in IanaFields(l) :
            l[i].type \in FieldsRead /\ l[j].type = l[i].type => j = i
  /\ MaxPayload >= 24

\* Types of an IPFIX layout that a vendor's field has taken over: it has the
\* number of the type, and stands after the field that the number means.
TakenOver(e, layout) ==
  {layout[i].type : i \in
     {i \in DOMAIN layout : /\ VersionOf[e] # 9 /\ layout[i].vendor
                            /\ \A j \in IanaFields(layout) :
                                 layout[j].type = layout[i].type => j < i}}

\* netflow_v9.py line 54 has templates kept by exporter; as server.py lines 78
\* and 82 give the decoder no exporter, this holds of the domain only.  However
\* datagrams are lost, repeated and reordered, a record is read with another
\* exporter's template only when that one has the same domain id, and told this
\* worker a template with the same number after the record's own exporter last
\* did; otherwise with what its own exporter last told the worker, and before
\* anyone told it a template there are no records.
OwnTemplateOnly ==
  \A i \in DOMAIN result :
    LET r == result[i]
    IN  /\ IF r.newer = {} THEN r.used = r.own ELSE r.used \in r.newer
        /\ r.own = None /\ r.newer = {} /\ VersionOf[r.from] # 5 => r.got = 0

\* A set whose layout is the one the worker knows, whoever told it, gives all
\* its records and no more, its padding included, with every field read where
\* it was written (lines 155-167, 270-291), but for those types that a vendor's
\* field of IPFIX has taken over, as its number is kept without the vendor
\* (237-240); a v5 datagram gives the records that arrived whole (parser.py
\* lines 145-154).
ReadAsWritten ==
  \A i \in DOMAIN result :
    LET r    == result[i]
        lost == TakenOver(r.from, r.written)
        Kept(spans) == {s \in Read(spans) : s[1] \notin lost}
    IN  r.used = Stored(r.from, r.written) =>
          /\ r.got = r.sent
          /\ Kept(Values(r.used)) = Kept(Spans(r.written))
=============================================================================
