---------------------------- MODULE CollectorProofs ----------------------------
(***************************************************************************)
(* Proofs about the way of a datagram into the collector: FlowDecoder,     *)
(* which reads it, and AdaptiveIngest, which hands its records on.         *)
(*                                                                         *)
(* The decoder comes first: for every set of exporters, templates and      *)
(* layouts, every number of workers, and however the network loses,        *)
(* repeats and reorders datagrams.                                         *)
(***************************************************************************)
EXTENDS FlowDecoder, AdaptiveIngest, DataLemmas

Layouts == {None} \union UNION {LayoutsOf[e] : e \in Exporters}
StoredLayouts == {Stored(e, l) : e \in Exporters, l \in Layouts}
Tellings == [Exporters -> [TemplateIds -> Layouts]]
Tellers == [Exporters -> [TemplateIds -> SUBSET Exporters]]

\* Bytes of a data set of n records.
SetBytes(l, n) == n * RecordSize(l) + Padding(n * RecordSize(l))

Sets == [kind : {"template"}, layouts : [TemplateIds -> Layouts]]
          \union {OptionsSet}
          \union {[kind |-> "data", id |-> t, layout |-> l, records |-> n,
                   bytes |-> SetBytes(l, n)] :
                    t \in TemplateIds, l \in Layouts \ {None}, n \in 1..MaxRecords}

\* What may come of a data set: it is read with what was told last.
ReadWith(r) == IF r.newer = {} THEN r.used = r.own ELSE r.used \in r.newer
Counts == {RecordsIn(u, SetBytes(l, n)) :
             u \in StoredLayouts, l \in Layouts \ {None}, n \in 1..MaxRecords}
Entries ==
  {r \in [from : Exporters, own : StoredLayouts, newer : SUBSET StoredLayouts,
          written : Layouts \ {None}, sent : 1..MaxRecords, used : StoredLayouts,
          got : Counts] :
     ReadWith(r) /\ r.got = RecordsIn(r.used, SetBytes(r.written, r.sent))}

\* A cache holds, under a key, what the last of those told that share it: older
\* names those that told it after an exporter, and one of them is the last.
Agrees(cache, known, older) ==
  \A e \in Exporters, t \in TemplateIds :
    /\ \A f \in older[e][t] : DomainOf[f] = DomainOf[e]
    /\ older[e][t] = {} => cache[Key(e, t)] = Stored(e, known[e][t])
    /\ older[e][t] # {} => \E f \in older[e][t] : older[f][t] = {}

\* What a worker may know and have read in the middle of a datagram.
States ==
  {s \in [cache : [Keys -> StoredLayouts], told : Tellings, rivals : Tellers,
          read : Seq(Entries)] : Agrees(s.cache, s.told, s.rivals)}

TypeOK == /\ config \in [Exporters -> [TemplateIds -> Layouts]]
          /\ turn \in Workers
          /\ caches \in [Workers -> [Keys -> StoredLayouts]]
          /\ told \in [Workers -> Tellings]
          /\ rivals \in [Workers -> Tellers]

\* Every datagram comes from an exporter, which wrote its sets.
InTransit == \A d \in transit :
               /\ d.from \in Exporters
               /\ VersionOf[d.from] # 5 => d.sets \in Seq(Sets)
               /\ VersionOf[d.from] = 5 => d.records \in Nat /\ d.count = d.records

\* The cache of a worker holds what was last told it under each key.
CachesAgree == \A w \in Workers : Agrees(caches[w], told[w], rivals[w])

DecoderInv == /\ TypeOK /\ InTransit /\ CachesAgree
              /\ OwnTemplateOnly /\ ReadAsWritten
-----------------------------------------------------------------------------
(* Keys and layouts *)

\* Two exporters share a key when they share a domain.
LEMMA KeysDiffer ==
  ASSUME NEW e \in Exporters, NEW f \in Exporters,
         NEW t \in TemplateIds, NEW u \in TemplateIds
  PROVE  /\ Key(e, t) \in Keys /\ Key(e, t)[2] = t
         /\ Key(e, t) = Key(f, u) <=> DomainOf[e] = DomainOf[f] /\ t = u
<1>1. Key(e, t) = <<DomainOf[e], t>> /\ Key(f, u) = <<DomainOf[f], u>>
  BY DEF Key
<1>2. Key(e, t) \in Keys
  BY <1>1 DEF Keys
<1>3. QED BY <1>1, <1>2

\* No layout is stored as no layout.
LEMMA NoneIsStored ==
  \A e : Stored(e, None) = None
BY DEF Stored, None

LEMMA LayoutsAreStored ==
  /\ None \in Layouts /\ (Exporters # {} => None \in StoredLayouts)
  /\ \A e \in Exporters, l \in Layouts : Stored(e, l) \in StoredLayouts
<1>1. None \in Layouts
  BY DEF Layouts
<1>2. \A e \in Exporters, l \in Layouts : Stored(e, l) \in StoredLayouts
  BY DEF StoredLayouts
<1>3. QED BY <1>1, <1>2, NoneIsStored

\* Registering a template set changes the keys of its domain and no other.
LEMMA RegisterStores ==
  ASSUME NEW e \in Exporters, NEW cache \in [Keys -> StoredLayouts],
         NEW set, set.layouts \in [TemplateIds -> Layouts]
  PROVE  /\ Register(cache, e, set) \in [Keys -> StoredLayouts]
         /\ \A f \in Exporters, t \in TemplateIds :
              Register(cache, e, set)[Key(f, t)] =
                IF DomainOf[f] = DomainOf[e] /\ set.layouts[t] # None
                THEN Stored(e, set.layouts[t]) ELSE cache[Key(f, t)]
<1> DEFINE Told(k) == \E t \in TemplateIds : k = Key(e, t) /\ set.layouts[t] # None
           Kept(k) == IF Told(k) THEN Stored(e, set.layouts[k[2]]) ELSE cache[k]
<1>1. Register(cache, e, set) = [k \in Keys |-> Kept(k)]
  BY DEF Register
<1>2. ASSUME NEW k \in Keys PROVE Kept(k) \in StoredLayouts
  <2>1. CASE Told(k)
    <3>1. PICK t \in TemplateIds : k = Key(e, t)
      BY <2>1
    <3>2. k[2] = t
      BY <3>1, KeysDiffer
    <3>3. set.layouts[k[2]] \in Layouts
      BY <3>2
    <3>4. QED BY <2>1, <3>3, LayoutsAreStored
  <2>2. CASE ~Told(k)
    BY <2>2
  <2>3. QED BY <2>1, <2>2
<1>3. ASSUME NEW f \in Exporters, NEW t \in TemplateIds
      PROVE  Kept(Key(f, t)) = IF DomainOf[f] = DomainOf[e] /\ set.layouts[t] # None
                               THEN Stored(e, set.layouts[t]) ELSE cache[Key(f, t)]
  <2>1. Told(Key(f, t)) <=> DomainOf[f] = DomainOf[e] /\ set.layouts[t] # None
    BY KeysDiffer
  <2>2. Key(f, t)[2] = t
    BY KeysDiffer
  <2>3. QED BY <2>1, <2>2
<1>4. \A f \in Exporters, t \in TemplateIds : Key(f, t) \in Keys
  BY KeysDiffer
<1> HIDE DEF Kept
<1>5. QED BY <1>1, <1>2, <1>3, <1>4
-----------------------------------------------------------------------------
(* One datagram *)

\* An exporter that tells a template is the last to tell it.
LEMMA TellingAgrees ==
  ASSUME NEW e \in Exporters, NEW cache \in [Keys -> StoredLayouts],
         NEW known \in Tellings, NEW older \in Tellers, Agrees(cache, known, older),
         NEW set, set.layouts \in [TemplateIds -> Layouts]
  PROVE  /\ Tell(known, e, set) \in Tellings /\ Outdate(older, e, set) \in Tellers
         /\ Agrees(Register(cache, e, set), Tell(known, e, set), Outdate(older, e, set))
<1> DEFINE c == Register(cache, e, set)
           k == Tell(known, e, set)
           o == Outdate(older, e, set)
<1>1. /\ k \in Tellings
      /\ \A f \in Exporters, t \in TemplateIds :
           k[f][t] = IF f = e /\ set.layouts[t] # None THEN set.layouts[t] ELSE known[f][t]
  BY DEF Tell, Tellings
<1>2. /\ o \in Tellers
      /\ \A f \in Exporters, t \in TemplateIds :
           o[f][t] = IF set.layouts[t] = None \/ DomainOf[f] # DomainOf[e] THEN older[f][t]
                     ELSE IF f = e THEN {} ELSE older[f][t] \union {e}
  BY DEF Outdate, Tellers
<1>3. \A f \in Exporters, t \in TemplateIds :
        c[Key(f, t)] = IF DomainOf[f] = DomainOf[e] /\ set.layouts[t] # None
                       THEN Stored(e, set.layouts[t]) ELSE cache[Key(f, t)]
  BY RegisterStores
<1> HIDE DEF c, k, o
<1>4. ASSUME NEW f \in Exporters, NEW t \in TemplateIds
      PROVE  /\ \A g \in o[f][t] : DomainOf[g] = DomainOf[f]
             /\ o[f][t] = {} => c[Key(f, t)] = Stored(f, k[f][t])
             /\ o[f][t] # {} => \E g \in o[f][t] : o[g][t] = {}
  <2>1. /\ \A g \in older[f][t] : DomainOf[g] = DomainOf[f] /\ g \in Exporters
        /\ older[f][t] = {} => cache[Key(f, t)] = Stored(f, known[f][t])
        /\ older[f][t] # {} => \E g \in older[f][t] : older[g][t] = {}
    <3>1. older[f][t] \subseteq Exporters
      BY DEF Tellers
    <3>2. \A g \in older[f][t] : DomainOf[g] = DomainOf[f]
      BY Zenon DEF Agrees
    <3>3. older[f][t] = {} => cache[Key(f, t)] = Stored(f, known[f][t])
      BY Zenon DEF Agrees
    <3>4. older[f][t] # {} => \E g \in older[f][t] : older[g][t] = {}
      BY Zenon DEF Agrees
    <3>5. QED BY <3>1, <3>2, <3>3, <3>4
  <2>2. CASE set.layouts[t] = None \/ DomainOf[f] # DomainOf[e]
    <3>1. o[f][t] = older[f][t] /\ k[f][t] = known[f][t] /\ c[Key(f, t)] = cache[Key(f, t)]
      BY <1>1, <1>2, <1>3, <2>2
    <3>2. \A g \in older[f][t] : o[g][t] = older[g][t]
      BY <1>2, <2>1, <2>2
    <3>3. QED BY <2>1, <3>1, <3>2
  <2>3. CASE set.layouts[t] # None /\ DomainOf[f] = DomainOf[e] /\ f = e
    <3>1. o[f][t] = {}
      BY <1>2, <2>3
    <3>2. k[f][t] = set.layouts[t]
      BY <1>1, <2>3
    <3>3. c[Key(f, t)] = Stored(f, set.layouts[t])
      BY <1>3, <2>3
    <3>4. QED BY <3>1, <3>2, <3>3
  <2>4. CASE set.layouts[t] # None /\ DomainOf[f] = DomainOf[e] /\ f # e
    <3>1. o[f][t] = older[f][t] \union {e} /\ o[e][t] = {}
      BY <1>2, <2>4
    <3>2. QED BY <2>1, <2>4, <3>1
  <2>5. QED BY <2>2, <2>3, <2>4
<1>5. Agrees(c, k, o)
  BY <1>4 DEF Agrees
<1>6. QED BY <1>1, <1>2, <1>5 DEF c, k, o

\* Decoding one set keeps what the worker knows in agreement.
LEMMA DecodeKeeps ==
  ASSUME NEW e \in Exporters, NEW set \in Sets, NEW s \in States
  PROVE  Decode(set, e, s) \in States
<1>1. /\ s \in [cache : [Keys -> StoredLayouts], told : Tellings, rivals : Tellers,
                read : Seq(Entries)]
      /\ Agrees(s.cache, s.told, s.rivals)
  BY DEF States
<1>2. CASE set.kind = "template"
  <2> DEFINE cache == Register(s.cache, e, set)
             known == Tell(s.told, e, set)
             older == Outdate(s.rivals, e, set)
  <2>1. set.layouts \in [TemplateIds -> Layouts]
    BY <1>2 DEF Sets, OptionsSet
  <2>2. Decode(set, e, s) = [s EXCEPT !.cache = cache, !.told = known, !.rivals = older]
    BY <1>2 DEF Decode
  <2>3. cache \in [Keys -> StoredLayouts]
    BY <1>1, <2>1, RegisterStores
  <2>4. known \in Tellings /\ older \in Tellers /\ Agrees(cache, known, older)
    BY <1>1, <2>1, TellingAgrees
  <2> HIDE DEF cache, known, older
  <2>5. QED BY <1>1, <2>2, <2>3, <2>4 DEF States
<1>3. CASE set.kind = "data"
  <2>1. PICK t \in TemplateIds, l \in Layouts \ {None}, n \in 1..MaxRecords :
          /\ set.id = t /\ set.layout = l /\ set.records = n
          /\ set.bytes = SetBytes(l, n)
    BY <1>3 DEF Sets, OptionsSet
  <2> DEFINE template == s.cache[Key(e, t)]
             own == Stored(e, s.told[e][t])
             newer == {Stored(f, s.told[f][t]) : f \in s.rivals[e][t]}
             entry == [from |-> e, own |-> own, newer |-> newer, written |-> l,
                       sent |-> n, used |-> template,
                       got |-> RecordsIn(template, SetBytes(l, n))]
  <2>2. Decode(set, e, s) = [s EXCEPT !.read = Append(s.read, entry)]
    BY <1>3, <2>1 DEF Decode
  <2>3. template \in StoredLayouts
    BY <1>1, KeysDiffer
  <2>4. /\ \A f \in Exporters : s.told[f][t] \in Layouts
        /\ s.rivals[e][t] \subseteq Exporters
    BY <1>1 DEF Tellings, Tellers
  <2>5. own \in StoredLayouts /\ newer \subseteq StoredLayouts
    BY <2>4, LayoutsAreStored
  <2>6. IF newer = {} THEN template = own ELSE template \in newer
    <3>1. CASE s.rivals[e][t] = {}
      BY <1>1, <3>1 DEF Agrees
    <3>2. CASE s.rivals[e][t] # {}
      <4>1. PICK f \in s.rivals[e][t] : s.rivals[f][t] = {} /\ DomainOf[f] = DomainOf[e]
        BY <1>1, <3>2 DEF Agrees
      <4>2. s.cache[Key(f, t)] = Stored(f, s.told[f][t]) /\ Key(f, t) = Key(e, t)
        BY <1>1, <2>4, <4>1, KeysDiffer DEF Agrees
      <4>3. QED BY <4>1, <4>2
    <3>3. QED BY <3>1, <3>2
  <2> HIDE DEF template, own, newer
  <2>7. entry \in Entries
    <3>1. RecordsIn(template, SetBytes(l, n)) \in Counts
      BY <2>3 DEF Counts
    <3>2. ReadWith(entry)
      BY <2>6 DEF ReadWith
    <3>3. QED BY <2>3, <2>5, <3>1, <3>2 DEF Entries
  <2> HIDE DEF entry
  <2>8. Append(s.read, entry) \in Seq(Entries)
    BY <1>1, <2>7
  <2>9. QED BY <1>1, <2>2, <2>8 DEF States
<1>4. CASE set.kind # "template" /\ set.kind # "data"
  BY <1>4 DEF Decode
<1>5. QED BY <1>2, <1>3, <1>4

\* So does decoding the first n of them.
LEMMA AfterSetsKnows ==
  ASSUME TypeOK, CachesAgree, NEW w \in Workers, NEW d, d.from \in Exporters,
         d.sets \in Seq(Sets), NEW n \in 0..Len(d.sets)
  PROVE  AfterSets(w, d, n) \in States
<1> DEFINE A == States
           start == [cache |-> caches[w], told |-> told[w], rivals |-> rivals[w], read |-> <<>>]
           Is(f) == f = [i \in 0..n |-> IF i = 0 THEN start
                                        ELSE Decode(d.sets[i], d.from, f[i - 1])]
           after == CHOOSE f : Is(f)
<1>1. AfterSets(w, d, n) = after[n]
  BY Zenon DEF AfterSets
<1>2. n \in Nat /\ \A i \in 1..n : d.sets[i] \in Sets /\ i \in 0..n /\ i # 0 /\ i - 1 \in 0..n
  OBVIOUS
<1>3. start \in A
  BY DEF States, TypeOK, CachesAgree
<1>4. \A s \in A, i \in 1..n : Decode(d.sets[i], d.from, s) \in A
  BY <1>2, DecodeKeeps
<1> HIDE DEF start, A
<1>5. PICK f \in [0..n -> A] :
        \A i \in 0..n : f[i] = IF i = 0 THEN start
                               ELSE Decode(d.sets[i], d.from, f[i - 1])
  <2> DEFINE step == [p \in A \X (1..n) |-> Decode(d.sets[p[2]], d.from, p[1])]
  <2>1. \A s \in A, i \in 1..n : step[<<s, i>>] = Decode(d.sets[i], d.from, s)
    OBVIOUS
  <2> HIDE DEF step
  <2>2. \A s \in A : \A i \in 1..n : step[<<s, i>>] \in A
    BY <1>4, <2>1
  <2>3. \E f \in [0..n -> A] : Looped(f, n, start, step)
    BY <1>2, <1>3, <2>2, LoopExists, Zenon
  <2>4. PICK f \in [0..n -> A] : Looped(f, n, start, step)
    BY <2>3
  <2>5. \A i \in 0..n : i # 0 => i \in 1..n /\ f[i - 1] \in A
    BY <1>2
  <2>6. \A i \in 0..n : f[i] = IF i = 0 THEN start
                               ELSE Decode(d.sets[i], d.from, f[i - 1])
    BY <2>1, <2>4, <2>5 DEF Looped
  <2>7. QED BY <2>6
<1>6. Is(f)
  <2>1. f = [i \in 0..n |-> f[i]]
    BY <1>5
  <2>2. QED BY <1>5, <2>1
<1>7. Is(after)
  <2> HIDE DEF Is
  <2>1. QED BY <1>6, Zenon
<1> HIDE DEF after
<1>8. after[0] = start
  <2>1. 0 \in 0..n
    BY <1>2
  <2>2. QED BY <1>7, <2>1
<1>9. \A i \in 1..n : after[i] = Decode(d.sets[i], d.from, after[i - 1])
  BY <1>2, <1>7
<1>10. after[n] \in A
  <2>1. after[0] \in A
    BY <1>3, <1>8
  <2>2. \A i \in 1..n : after[i - 1] \in A => after[i] \in A
    BY <1>4, <1>9
  <2>3. QED BY <1>2, <2>1, <2>2, LoopKeeps
<1>11. QED BY <1>1, <1>10 DEF A
-----------------------------------------------------------------------------
(* The initial state and the steps *)

LEMMA InitDecoder ==
  ASSUME Init PROVE DecoderInv
<1>1. TypeOK
  <2>1. turn \in Workers
    BY DecoderAssumption DEF Init, Workers
  <2>2. None \in Layouts /\ (Exporters # {} => None \in StoredLayouts)
    BY LayoutsAreStored
  <2>3. config \in [Exporters -> [TemplateIds -> Layouts]]
    BY ConfigAssumption, Zenon DEF Init, Layouts, None
  <2>4. caches \in [Workers -> [Keys -> StoredLayouts]]
    <3>1. \A k \in Keys : Exporters # {}
      BY DEF Keys
    <3>2. QED BY <2>2, <3>1 DEF Init
  <2>5. told \in [Workers -> Tellings] /\ rivals \in [Workers -> Tellers]
    BY <2>2 DEF Init, Tellings, Tellers
  <2>6. QED BY <2>1, <2>3, <2>4, <2>5 DEF TypeOK
<1>2. CachesAgree
  <2>1. \A e \in Exporters, t \in TemplateIds : Key(e, t) \in Keys
    BY KeysDiffer
  <2>2. QED BY <2>1, NoneIsStored DEF Init, CachesAgree, Agrees
<1>3. InTransit /\ OwnTemplateOnly
  BY DEF Init, InTransit, OwnTemplateOnly
<1>4. ReadAsWritten
  BY DEF Init, ReadAsWritten
<1>5. QED BY <1>1, <1>2, <1>3, <1>4 DEF DecoderInv

LEMMA ConfigureKeeps ==
  ASSUME DecoderInv, NEW e \in Exporters, NEW t \in TemplateIds,
         NEW l \in LayoutsOf[e], Configure(e, t, l)
  PROVE  DecoderInv'
<1>1. l \in Layouts
  BY DEF Layouts
<1>2. config' \in [Exporters -> [TemplateIds -> Layouts]]
  BY <1>1 DEF DecoderInv, TypeOK, Configure
<1>3. UNCHANGED <<transit, sent, caches, turn, told, rivals, result>>
  BY DEF Configure
<1>4. TypeOK'
  BY <1>2, <1>3 DEF DecoderInv, TypeOK
<1>5. InTransit' /\ CachesAgree'
  BY <1>3 DEF DecoderInv, InTransit, CachesAgree
<1>6. OwnTemplateOnly' /\ ReadAsWritten'
  BY <1>3 DEF DecoderInv, OwnTemplateOnly, ReadAsWritten
<1>7. QED BY <1>4, <1>5, <1>6 DEF DecoderInv

\* A datagram that is sent was written by its exporter.
LEMMA SendKeeps ==
  ASSUME DecoderInv, NEW d, Send(d), d.from \in Exporters,
         VersionOf[d.from] # 5 => d.sets \in Seq(Sets),
         VersionOf[d.from] = 5 => d.records \in Nat /\ d.count = d.records
  PROVE  DecoderInv'
<1>1. InTransit'
  BY DEF DecoderInv, InTransit, Send
<1>2. QED
  BY <1>1 DEF DecoderInv, TypeOK, CachesAgree, OwnTemplateOnly, ReadAsWritten, Send, Workers

LEMMA ExportKeeps ==
  ASSUME DecoderInv, NEW e \in Exporters, NEW t \in TemplateIds,
         NEW n \in 1..MaxRecords, ExportSets(e, t, n)
  PROVE  DecoderInv'
<1>1. TemplateSet(e) \in Sets
  BY DEF TemplateSet, Sets, DecoderInv, TypeOK
<1>2. DataSet(e, t, n) \in Sets
  <2>1. config[e][t] \in Layouts \ {None}
    BY DEF DecoderInv, TypeOK, ExportSets
  <2>2. QED BY <2>1 DEF DataSet, SetBytes, Sets
<1>3. OptionsSet \in Sets
  BY DEF Sets
<1>4. PICK sets \in {<<OptionsSet, TemplateSet(e)>>, <<DataSet(e, t, n)>>,
                     <<TemplateSet(e), DataSet(e, t, n)>>,
                     <<DataSet(e, t, n), TemplateSet(e)>>} :
        Send([from |-> e, sets |-> sets])
  BY DEF ExportSets
<1>5. sets \in Seq(Sets)
  <2>1. \A a, b \in Sets : <<a>> \in Seq(Sets) /\ <<a, b>> \in Seq(Sets)
    OBVIOUS
  <2>2. QED BY <1>1, <1>2, <1>3, <1>4, <2>1, Zenon
<1>6. PICK d : d = [from |-> e, sets |-> sets]
  OBVIOUS
<1>7. d.from = e /\ d.sets = sets /\ Send(d) /\ VersionOf[e] # 5
  BY <1>4, <1>6 DEF ExportSets
<1>8. QED BY <1>5, <1>7, SendKeeps

LEMMA ExportV5Keeps ==
  ASSUME DecoderInv, NEW e \in Exporters, NEW n \in 1..MaxRecords, ExportV5(e, n)
  PROVE  DecoderInv'
<1>1. PICK d : d = [from |-> e, count |-> n, records |-> n]
  OBVIOUS
<1>2. /\ d.from = e /\ Send(d) /\ VersionOf[e] = 5
      /\ d.records \in Nat /\ d.count = d.records
  BY <1>1 DEF ExportV5
<1>3. QED BY <1>2, SendKeeps

LEMMA LoseKeeps ==
  ASSUME DecoderInv, NEW d \in transit, Lose(d)
  PROVE  DecoderInv'
BY DEF DecoderInv, TypeOK, InTransit, CachesAgree, OwnTemplateOnly,
        ReadAsWritten, Lose, Workers

\* What is read in agreement is read with what was told last.
LEMMA EntriesAreOwn ==
  ASSUME NEW r \in Entries
  PROVE  ReadWith(r) /\ (r.own = None /\ r.newer = {} => r.got = 0)
<1>1. ReadWith(r) /\ r.got = RecordsIn(r.used, SetBytes(r.written, r.sent))
  BY DEF Entries
<1>2. r.used = None => r.got = 0
  BY <1>1 DEF RecordsIn
<1>3. QED BY <1>1, <1>2 DEF ReadWith

-----------------------------------------------------------------------------
(* Records are read as they were written *)

LEMMA DividesWell ==
  ASSUME NEW d \in Nat \ {0}, NEW n \in Nat, NEW r \in 0..d - 1
  PROVE  (n * d + r) \div d = n
<1>1. n * d \in Nat /\ (n + 1) * d = n * d + d
  BY SMT
<1> DEFINE q == (n * d + r) \div d
           s == (n * d + r) % d
<1>2. q \in Nat /\ s \in 0..d - 1 /\ n * d + r = q * d + s
  BY <1>1, SMT
<1> HIDE DEF q, s
<1>3. ASSUME q < n PROVE FALSE
  <2>1. (q + 1) * d <= n * d
    BY <1>2, <1>3, SMT
  <2>2. (q + 1) * d = q * d + d
    BY <1>2, SMT
  <2>3. q * d \in Nat
    BY <1>2, SMT
  <2>4. QED BY <1>1, <1>2, <2>1, <2>2, <2>3
<1>4. ASSUME n < q PROVE FALSE
  <2>1. (n + 1) * d <= q * d
    BY <1>2, <1>4, SMT
  <2>2. q * d \in Nat
    BY <1>2, SMT
  <2>3. QED BY <1>1, <1>2, <2>1, <2>2
<1>5. q = n
  BY <1>2, <1>3, <1>4
<1>6. QED BY <1>5 DEF q

Fields == [type : Nat, len : Nat, vendor : BOOLEAN]

\* What the assumption on layouts says of one that is in use.
IsLayout(l) ==
  /\ l \in Seq(Fields) /\ RecordSize(l) > 3
  /\ \A i, j \in IanaFields(l) :
       l[i].type \in FieldsRead /\ l[j].type = l[i].type => j = i

LEMMA SizesAreNatural ==
  ASSUME NEW l \in Seq(Fields)
  PROVE  RecordSize(l) \in Nat
<1> DEFINE f == [i \in DOMAIN l |-> l[i].len]
<1>1. DOMAIN l = 1..Len(l) /\ Len(l) \in Nat /\ \A i \in DOMAIN l : l[i] \in Fields
  OBVIOUS
<1>2. IsFiniteSet(DOMAIN l)
  BY <1>1, FS_Interval
<1>3. \A x \in Fields : x.len \in Nat
  BY DEF Fields
<1>4. f \in [DOMAIN l -> Nat]
  BY <1>1, <1>3
<1> HIDE DEF f
<1>5. SumFunction(f) \in Nat
  BY <1>2, <1>4, SumIsNatural
<1>6. QED BY <1>5 DEF f, RecordSize

LEMMA LayoutsInUse ==
  ASSUME NEW l \in Layouts \ {None}
  PROVE  IsLayout(l)
<1>1. PICK e \in Exporters : l \in LayoutsOf[e]
  BY DEF Layouts
<1>2. QED BY <1>1, LayoutAssumption, Zenon DEF IsLayout, Fields

\* A layout is stored with its types and widths, and so with its sizes.
LEMMA StoredKeepsSizes ==
  ASSUME NEW e, NEW l, IsLayout(l)
  PROVE  /\ DOMAIN Stored(e, l) = DOMAIN l /\ Stored(e, l) # None
         /\ RecordSize(Stored(e, l)) = RecordSize(l)
         /\ \A i \in DOMAIN l :
              /\ Stored(e, l)[i].type = l[i].type /\ Stored(e, l)[i].len = l[i].len
              /\ Stored(e, l)[i].vendor <=> VersionOf[e] = 9 /\ l[i].vendor
              /\ RecordSize(SubSeq(Stored(e, l), 1, i - 1)) = RecordSize(SubSeq(l, 1, i - 1))
<1> DEFINE s == Stored(e, l)
<1>1. /\ l \in Seq(Fields) /\ DOMAIN l = 1..Len(l) /\ Len(l) \in Nat
      /\ \A i \in DOMAIN l : l[i] \in Fields
  BY DEF IsLayout
<1>2. s = IF VersionOf[e] = 9 THEN l ELSE [i \in DOMAIN l |-> [l[i] EXCEPT !.vendor = FALSE]]
  BY DEF Stored
<1>3. DOMAIN s = DOMAIN l
  BY <1>2
<1>13. \A i \in DOMAIN l : /\ s[i] \in Fields /\ s[i].type = l[i].type
                           /\ s[i].len = l[i].len
                           /\ s[i].vendor <=> VersionOf[e] = 9 /\ l[i].vendor
  <2>1. \A x \in Fields : LET y == [x EXCEPT !.vendor = FALSE]
                          IN  y \in Fields /\ y.type = x.type /\ y.len = x.len /\ ~y.vendor
    BY DEF Fields
  <2>2. CASE VersionOf[e] = 9
    BY <1>1, <1>2, <2>2
  <2>3. CASE VersionOf[e] # 9
    BY <1>1, <1>2, <2>1, <2>3
  <2>4. QED BY <2>2, <2>3
<1> HIDE DEF s
<1>4. s \in Seq(Fields) /\ Len(s) = Len(l) /\ DOMAIN s = DOMAIN l
  BY <1>1, <1>2, <1>3, <1>13
<1>5. [i \in DOMAIN s |-> s[i].len] = [i \in DOMAIN l |-> l[i].len]
  BY <1>4, <1>13
<1>6. RecordSize(s) = RecordSize(l)
  BY <1>5, Zenon DEF RecordSize
<1>7. ASSUME NEW i \in DOMAIN l
      PROVE  RecordSize(SubSeq(s, 1, i - 1)) = RecordSize(SubSeq(l, 1, i - 1))
  <2> DEFINE a == SubSeq(s, 1, i - 1)
             b == SubSeq(l, 1, i - 1)
  <2>1. i - 1 \in 0..Len(l) /\ i \in Nat
    BY <1>1
  <2>2. DOMAIN a = 1..i - 1 /\ DOMAIN b = 1..i - 1
    BY <1>1, <1>4, <2>1
  <2>3. \A j \in 1..i - 1 : a[j] = s[j] /\ b[j] = l[j] /\ j \in DOMAIN l
    <3>1. \A q \in Seq(Fields), k \in Nat :
            k <= Len(q) => \A j \in 1..k : SubSeq(q, 1, k)[j] = q[j] /\ j \in DOMAIN q
      OBVIOUS
    <3>2. QED BY <1>1, <1>4, <2>1, <3>1
  <2> HIDE DEF a, b
  <2>4. [j \in DOMAIN a |-> a[j].len] = [j \in DOMAIN b |-> b[j].len]
    BY <1>13, <2>2, <2>3
  <2>5. RecordSize(a) = RecordSize(b)
    BY <2>4, Zenon DEF RecordSize
  <2>6. QED BY <2>5 DEF a, b
<1>8. s # None
  <2>1. l # <<>>
    <3>1. SUFFICES ASSUME l = <<>> PROVE FALSE
      OBVIOUS
    <3>2. DOMAIN l = {}
      BY <3>1
    <3> DEFINE f == [i \in DOMAIN l |-> l[i].len]
    <3>3. f \in [{} -> Nat] /\ \A i \in {} : f[i] = 0
      BY <3>2
    <3>4. SumFunction(f) = 0
      <4> HIDE DEF f
      <4>1. QED BY <3>3, FS_EmptySet, SumOfZeros
    <3>5. RecordSize(l) = 0
      BY <3>4 DEF RecordSize
    <3>6. QED BY <3>5 DEF IsLayout
  <2>2. DOMAIN l # {}
    <3>1. \A q \in Seq(Fields) : Len(q) = 0 => q = <<>>
      OBVIOUS
    <3>2. Len(l) > 0 /\ 1 \in DOMAIN l
      BY <1>1, <2>1, <3>1
    <3>3. QED BY <3>2
  <2>3. QED BY <1>4, <2>2 DEF None
<1>9. QED BY <1>4, <1>6, <1>7, <1>8, <1>13 DEF s

\* No field is read in place of another, but for a vendor's.
LEMMA FieldsAreRead ==
  ASSUME NEW e, NEW l, IsLayout(l), NEW x
  PROVE  x \in Read(Values(Stored(e, l))) /\ x[1] \notin TakenOver(e, l)
           <=> x \in Read(Spans(l)) /\ x[1] \notin TakenOver(e, l)
<1> DEFINE s == Stored(e, l)
           F == IanaFields(s)
           G == IanaFields(l)
           taken == TakenOver(e, l)
<1>1. /\ DOMAIN s = DOMAIN l
      /\ \A i \in DOMAIN l : Span(s, i) = Span(l, i) /\ s[i].type = l[i].type
  BY StoredKeepsSizes DEF Span
<1>2. G \subseteq F /\ F \subseteq DOMAIN l /\ (VersionOf[e] = 9 => F = G)
  BY StoredKeepsSizes DEF IanaFields
<1>3. \A i \in DOMAIN l : Span(l, i)[1] = l[i].type
  BY DEF Span
<1>4. \A i \in DOMAIN l : i \in Nat
  BY DEF IsLayout
<1>5. \A i \in DOMAIN l : i \notin G => l[i].vendor
  BY DEF IanaFields
<1>6. \A i, j \in G : l[i].type \in FieldsRead /\ l[j].type = l[i].type => j = i
  BY DEF IsLayout
<1>7. \A i \in DOMAIN l :
        /\ VersionOf[e] # 9 /\ i \notin G
        /\ \A j \in G : l[j].type = l[i].type => j < i
        => l[i].type \in taken
  BY <1>5 DEF TakenOver
<1>8. Values(s) = {Span(s, i) : i \in {i \in F : \A j \in F : s[j].type = s[i].type => j <= i}}
  BY DEF Values
<1>9. Spans(l) = {Span(l, i) : i \in G}
  BY DEF Spans
<1> HIDE DEF s, F, G, taken
<1>10. ASSUME x \in Values(s), x[1] \in FieldsRead, x[1] \notin taken PROVE x \in Spans(l)
  <2>1. PICK i \in F : x = Span(s, i) /\ \A j \in F : s[j].type = s[i].type => j <= i
    BY <1>8, <1>10
  <2>2. i \in DOMAIN l /\ x = Span(l, i) /\ x[1] = l[i].type
    BY <1>1, <1>2, <1>3, <2>1
  <2>3. ASSUME i \notin G PROVE FALSE
    <3>1. \A j \in G : l[j].type = l[i].type => j <= i /\ j # i
      BY <1>1, <1>2, <2>1, <2>2, <2>3
    <3>2. \A j \in G : l[j].type = l[i].type => j < i
      BY <1>2, <1>4, <2>2, <3>1
    <3>3. VersionOf[e] # 9
      BY <1>2, <2>3
    <3>4. QED BY <1>7, <1>10, <2>2, <2>3, <3>2, <3>3
  <2>4. QED BY <1>9, <2>2, <2>3
<1>11. ASSUME x \in Spans(l), x[1] \in FieldsRead, x[1] \notin taken PROVE x \in Values(s)
  <2>1. PICK i \in G : x = Span(l, i)
    BY <1>9, <1>11
  <2>2. i \in F /\ i \in DOMAIN l /\ x = Span(s, i) /\ x[1] = l[i].type
    BY <1>1, <1>2, <1>3, <2>1
  <2>3. ASSUME NEW j \in F, s[j].type = s[i].type PROVE j <= i
    <3>1. j \in DOMAIN l /\ l[j].type = l[i].type /\ j \in Nat /\ i \in Nat
      BY <1>1, <1>2, <1>4, <2>2, <2>3
    <3>2. CASE j \in G
      BY <1>6, <1>11, <2>1, <2>2, <3>1, <3>2
    <3>3. CASE j \notin G
      <4>1. VersionOf[e] # 9
        BY <1>2, <2>3, <3>3
      <4>2. PICK k \in G : l[k].type = l[j].type /\ ~(k < j)
        BY <1>7, <1>11, <2>2, <3>1, <3>3, <4>1
      <4>3. k = i
        BY <1>6, <1>11, <2>1, <2>2, <3>1, <4>2
      <4>4. QED BY <3>1, <4>2, <4>3
    <3>4. QED BY <3>2, <3>3
  <2>4. QED BY <1>8, <2>2, <2>3
<1>12. QED BY <1>10, <1>11 DEF Read, s, taken

LEMMA NothingIsRead ==
  Values(None) = {} /\ Spans(None) = {}
BY DEF Values, Spans, IanaFields, None

LEMMA EntriesReadWell ==
  ASSUME NEW r \in Entries, r.used = Stored(r.from, r.written)
  PROVE  /\ r.got = r.sent
         /\ {x \in Read(Values(r.used)) : x[1] \notin TakenOver(r.from, r.written)}
              = {x \in Read(Spans(r.written)) : x[1] \notin TakenOver(r.from, r.written)}
<1>1. PICK e \in Exporters, l \in Layouts \ {None}, n \in 1..MaxRecords :
        r.from = e /\ r.written = l /\ r.sent = n
  BY DEF Entries
<1>2. r.used = Stored(e, l) /\ r.got = RecordsIn(Stored(e, l), SetBytes(l, n))
  BY <1>1 DEF Entries
<1>3. IsLayout(l) /\ RecordSize(l) \in Nat
  BY LayoutsInUse, SizesAreNatural DEF IsLayout
<1>4. /\ Stored(e, l) # None /\ RecordSize(Stored(e, l)) = RecordSize(l)
  BY <1>3, StoredKeepsSizes
<1>5. PICK d \in Nat \ {0} : d = RecordSize(l) /\ d > 3
  BY <1>3 DEF IsLayout
<1>6. n \in Nat /\ n * d \in Nat
  BY SMT
<1>7. PICK p \in 0..3 : p = Padding(n * d)
  BY <1>6 DEF Padding
<1>8. SetBytes(l, n) = n * d + p
  BY <1>5, <1>7 DEF SetBytes
<1>9. (n * d + p) \div d = n
  <2>1. p \in 0..d - 1
    BY <1>5
  <2>2. QED BY <1>6, <2>1, DividesWell
<1>10. r.got = n
  BY <1>2, <1>4, <1>5, <1>8, <1>9 DEF RecordsIn
<1>11. \A x : x \in Read(Values(Stored(e, l))) /\ x[1] \notin TakenOver(e, l)
                <=> x \in Read(Spans(l)) /\ x[1] \notin TakenOver(e, l)
  BY <1>3, FieldsAreRead
<1>12. QED BY <1>1, <1>2, <1>10, <1>11

LEMMA ParseSetsKeeps ==
  ASSUME TypeOK, CachesAgree, NEW w \in Workers, NEW d, d.from \in Exporters,
         d.sets \in Seq(Sets), ParseSets(w, d)
  PROVE  /\ caches' \in [Workers -> [Keys -> StoredLayouts]]
         /\ told' \in [Workers -> Tellings] /\ rivals' \in [Workers -> Tellers]
         /\ CachesAgree' /\ OwnTemplateOnly' /\ ReadAsWritten'
<1> DEFINE n == Cardinality(Arriving(d))
           r == AfterSets(w, d, n)
<1>1. n \in 0..Len(d.sets)
  <2>1. Arriving(d) \subseteq 1..Len(d.sets)
    <3>1. DOMAIN d.sets = 1..Len(d.sets)
      OBVIOUS
    <3>2. QED BY <3>1, Zenon DEF Arriving
  <2>2. IsFiniteSet(1..Len(d.sets)) /\ Cardinality(1..Len(d.sets)) = Len(d.sets)
    BY FS_Interval
  <2>3. IsFiniteSet(Arriving(d)) /\ n <= Len(d.sets)
    BY <2>1, <2>2, FS_Subset
  <2>4. n \in Nat
    BY <2>3, FS_CardinalityType
  <2>5. QED BY <2>3, <2>4
<1>2. /\ caches' = [caches EXCEPT ![w] = r.cache]
      /\ told' = [told EXCEPT ![w] = r.told]
      /\ rivals' = [rivals EXCEPT ![w] = r.rivals]
      /\ result' = r.read
  BY Zenon DEF ParseSets
<1>3. r \in States
  <2> HIDE DEF n
  <2>1. QED BY <1>1, AfterSetsKnows
<1> HIDE DEF n, r
<1>4. /\ r.cache \in [Keys -> StoredLayouts] /\ r.told \in Tellings /\ r.rivals \in Tellers
      /\ r.read \in Seq(Entries) /\ Agrees(r.cache, r.told, r.rivals)
  BY <1>3 DEF States
<1>5. caches' \in [Workers -> [Keys -> StoredLayouts]]
  BY <1>2, <1>4 DEF TypeOK
<1>6. told' \in [Workers -> Tellings] /\ rivals' \in [Workers -> Tellers]
  BY <1>2, <1>4 DEF TypeOK
<1>7. CachesAgree'
  <2> SUFFICES ASSUME NEW v \in Workers PROVE Agrees(caches'[v], told'[v], rivals'[v])
    BY DEF CachesAgree, Workers, Agrees
  <2>1. CASE v = w
    BY <1>2, <1>4, <2>1 DEF TypeOK
  <2>2. CASE v # w
    <3>1. caches'[v] = caches[v] /\ told'[v] = told[v] /\ rivals'[v] = rivals[v]
      BY <1>2, <2>2 DEF TypeOK
    <3>2. QED BY <3>1 DEF CachesAgree
  <2>3. QED BY <2>1, <2>2
<1>8. OwnTemplateOnly'
  <2>1. \A i \in DOMAIN r.read : r.read[i] \in Entries
    BY <1>4
  <2>2. QED BY <1>2, <2>1, EntriesAreOwn DEF OwnTemplateOnly, ReadWith
<1>9. ReadAsWritten'
  <2>1. \A i \in DOMAIN r.read : r.read[i] \in Entries
    BY <1>4
  <2>2. QED BY <1>2, <2>1, EntriesReadWell DEF ReadAsWritten
<1>10. QED BY <1>5, <1>6, <1>7, <1>8, <1>9

LEMMA ReceiveKeeps ==
  ASSUME DecoderInv, NEW d \in transit, NEW again \in BOOLEAN, Receive(d, again)
  PROVE  DecoderInv'
<1>1. turn \in Workers /\ d.from \in Exporters
  BY DEF DecoderInv, TypeOK, InTransit
<1>2. turn' \in Workers
  BY <1>1, DecoderAssumption DEF Receive, Workers
<1>3. InTransit' /\ config' = config
  BY DEF DecoderInv, InTransit, Receive
<1>4. CASE VersionOf[d.from] = 5
  <2>1. ParseV5(d)
    BY <1>4 DEF Receive
  <2>2. /\ UNCHANGED <<caches, told, rivals>> /\ DOMAIN result' = {1}
        /\ result'[1].from = d.from /\ result'[1].own = None /\ result'[1].used = None
        /\ result'[1].newer = {}
    BY <2>1 DEF ParseV5
  <2> DEFINE room == 24 + 48 * d.records
             bytes == IF room > MaxPayload THEN MaxPayload ELSE room
  <2>5. /\ result'[1].written = None
        /\ result'[1].sent = (bytes - 24) \div 48 /\ result'[1].got = V5Records(d.count, bytes)
    BY <2>1 DEF ParseV5
  <2>6. d.records \in Nat /\ d.count = d.records
    BY <1>4 DEF DecoderInv, InTransit
  <2>7. result'[1].got = result'[1].sent
    <3>1. bytes \in Nat /\ bytes >= 24
      BY <2>6, DecoderAssumption, LayoutAssumption
    <3>2. CASE bytes < 24 + d.records * 48
      BY <2>5, <2>6, <3>1, <3>2 DEF V5Records
    <3>3. CASE ~(bytes < 24 + d.records * 48)
      <4>1. bytes - 24 = d.records * 48
        BY <2>6, <3>3, DecoderAssumption
      <4>2. PICK n \in Nat : n = d.records
        BY <2>6
      <4>3. (n * 48) \div 48 = n
        OBVIOUS
      <4>4. (bytes - 24) \div 48 = n
        BY <4>1, <4>2, <4>3
      <4> HIDE DEF bytes
      <4>5. V5Records(d.count, bytes) = d.count
        BY <2>6, <3>1, <3>3 DEF V5Records
      <4>6. QED BY <2>5, <2>6, <4>2, <4>4, <4>5
    <3>4. QED BY <3>2, <3>3
  <2>8. ReadAsWritten'
    BY <2>2, <2>5, <2>7, NothingIsRead DEF ReadAsWritten, Read
  <2>3. OwnTemplateOnly'
    BY <1>4, <2>2 DEF OwnTemplateOnly
  <2>4. QED
    BY <1>2, <1>3, <2>2, <2>3, <2>8 DEF DecoderInv, TypeOK, CachesAgree, Workers
<1>5. CASE VersionOf[d.from] # 5
  <2>1. ParseSets(turn, d) /\ d.sets \in Seq(Sets)
    BY <1>5 DEF Receive, DecoderInv, InTransit
  <2>2. /\ caches' \in [Workers -> [Keys -> StoredLayouts]]
        /\ told' \in [Workers -> Tellings] /\ rivals' \in [Workers -> Tellers]
        /\ CachesAgree' /\ OwnTemplateOnly' /\ ReadAsWritten'
    BY <1>1, <2>1, ParseSetsKeeps DEF DecoderInv
  <2>3. QED BY <1>2, <1>3, <2>2 DEF DecoderInv, TypeOK
<1>6. QED BY <1>4, <1>5

LEMMA DecoderStep ==
  ASSUME DecoderInv, [Next]_vars PROVE DecoderInv'
<1>1. CASE UNCHANGED vars
  BY <1>1 DEF vars, DecoderInv, TypeOK, InTransit, CachesAgree, OwnTemplateOnly,
               ReadAsWritten, Workers
<1>2. CASE Next
  BY <1>2, ConfigureKeeps, ExportKeeps, ExportV5Keeps, LoseKeeps, ReceiveKeeps DEF Next
<1>3. QED BY <1>1, <1>2

\* What each cache holds, on the way and at rest: under each key, which the
\* exporters of one domain share, what the last of them told (netflow_v9.py
\* 53-79), for every number of workers and every choice of domains.
THEOREM DecoderInvariant == Spec => []DecoderInv
<1>1. Init => DecoderInv
  BY InitDecoder
<1>2. DecoderInv /\ [Next]_vars => DecoderInv'
  BY DecoderStep
<1>3. QED BY <1>1, <1>2, PTL DEF Spec

\* Records are read with the template that their own exporter last told this
\* worker, unless another one of the same domain told it one after that, and
\* before anyone told it one there are none (netflow_v9.py 54-79, 125-171),
\* whatever the network does to the datagrams.
THEOREM OwnTemplateAlways == Spec => []OwnTemplateOnly
<1>1. DecoderInv => OwnTemplateOnly
  BY DEF DecoderInv
<1>2. QED BY <1>1, DecoderInvariant, PTL

\* A set written with the template that the worker reads it with gives every
\* record in it and no more, its padding included, and each field is read where
\* it was written, but for the types that a vendor's field of IPFIX takes over
\* (netflow_v9.py 155-167, 237-240, 270-291); a v5 datagram gives the records
\* that arrived whole (parser.py 145-154).
THEOREM ReadAlwaysAsWritten == Spec => []ReadAsWritten
<1>1. DecoderInv => ReadAsWritten
  BY DEF DecoderInv
<1>2. QED BY <1>1, DecoderInvariant, PTL
-----------------------------------------------------------------------------
(***************************************************************************)
(* AdaptiveIngest, for every capacity, watermark and bound.  Its counters  *)
(* are updated apart from the containers they count, with awaits in        *)
(* between; the invariant says, for each place the loop may await at,      *)
(* which batches total_flushed has already counted.                        *)
(***************************************************************************)
Pcs == {"top", "ready", "wait", "flush", "stopping", "last", "off"}

BatcherTypeOK ==
  /\ incoming \in Seq(0..MaxCarried)
  /\ queue \in Seq(Nat) /\ batch \in Seq(Nat) /\ handed \in Seq(Nat)
  /\ pc \in Pcs
  /\ enqueued \in Nat /\ dropped \in Nat /\ flushed \in Nat
  /\ offered \in Nat /\ lost \in Nat

\* Every record offered was counted once, and every record counted as enqueued
\* is in one place.
Placed ==
  /\ offered = enqueued + dropped
  /\ enqueued = Len(queue) + Len(batch) + Len(handed) + lost
  /\ Len(queue) <= QueueMax

\* total_flushed has counted a batch since its flush began, and no other; a
\* loop that stopped left no batch.
FlushedFollows ==
  /\ pc \in {"flush", "last"} =>
       /\ Len(handed) + Len(batch) <= flushed
       /\ flushed <= Len(handed) + Len(batch) + lost
  /\ pc \notin {"flush", "last"} =>
       /\ Len(handed) <= flushed
       /\ flushed <= Len(handed) + lost
  /\ pc = "stopping" => batch = <<>>

BatcherInv == BatcherTypeOK /\ Placed /\ FlushedFollows
-----------------------------------------------------------------------------
(* Sequences *)

\* What is kept of a sequence is not longer than the place there is for it.
LEMMA LastOfLength ==
  ASSUME NEW s \in Seq(Nat), NEW most \in Nat
  PROVE  /\ LastOf(s, most) \in Seq(Nat)
         /\ Len(LastOf(s, most)) = IF Len(s) <= most THEN Len(s) ELSE most
<1>1. CASE Len(s) <= most
  BY <1>1 DEF LastOf
<1>2. CASE ~(Len(s) <= most)
  BY <1>2 DEF LastOf
<1>3. QED BY <1>1, <1>2

LEMMA BatcherInitInv == IngestInit => BatcherInv
  BY IngestAssumption DEF IngestInit, BatcherInv, BatcherTypeOK, Placed, FlushedFollows, Pcs

-----------------------------------------------------------------------------
(* Each action keeps the invariant. *)

LEMMA WorkInv == BatcherInv /\ Work => BatcherInv'
<1> SUFFICES ASSUME BatcherInv, Work PROVE BatcherInv'
  OBVIOUS
<1> DEFINE n == Head(incoming)
           new == [i \in 1..n |-> offered + i]
<1>1. n \in Nat /\ incoming' \in Seq(0..MaxCarried)
  <2>1. /\ incoming \in Seq(0..MaxCarried) /\ incoming # <<>>
        /\ incoming' = Tail(incoming)
    BY DEF BatcherInv, BatcherTypeOK, Work
  <2>2. Head(incoming) \in 0..MaxCarried /\ Tail(incoming) \in Seq(0..MaxCarried)
    BY <2>1, HeadTailProperties
  <2>3. QED BY <2>1, <2>2, IngestAssumption
<1>2. /\ queue' = LastOf(queue \o new, QueueMax)
      /\ enqueued' = enqueued + Counted(n)
      /\ dropped' = dropped + (IF n <= QueueMax - Len(queue) THEN 0
                               ELSE n - (QueueMax - Len(queue)))
      /\ offered' = offered + n
      /\ UNCHANGED <<batch, pc, flushed, handed, lost>>
  BY DEF Work, Enqueue
<1>3. new \in Seq(Nat) /\ Len(new) = n
  <2>1. offered \in Nat
    BY DEF BatcherInv, BatcherTypeOK
  <2>2. \A i \in 1..n : offered + i \in Nat
    BY <1>1, <2>1
  <2>3. QED BY <1>1, <2>2, IsASeq
<1>4. /\ queue \o new \in Seq(Nat)
      /\ Len(queue \o new) = Len(queue) + n
  BY <1>1, <1>3 DEF BatcherInv, BatcherTypeOK
<1>5. /\ queue' \in Seq(Nat)
      /\ Len(queue') = IF Len(queue) + n <= QueueMax THEN Len(queue) + n ELSE QueueMax
  BY <1>2, <1>4, LastOfLength, IngestAssumption, ZenonT(60)
<1> HIDE DEF n, new
<1>6. Len(queue) \in Nat /\ Len(queue) <= QueueMax /\ QueueMax \in Nat
  BY IngestAssumption DEF BatcherInv, BatcherTypeOK, Placed
<1>7. BatcherTypeOK'
  BY <1>1, <1>2, <1>5, <1>6 DEF BatcherInv, BatcherTypeOK, Counted
<1>8. Placed'
  <2>1. CASE n <= QueueMax - Len(queue)
    <3>1. Len(queue') = Len(queue) + n
      BY <1>1, <1>5, <1>6, <2>1
    <3>2. enqueued' = enqueued + n /\ dropped' = dropped + 0
      BY <1>2, <2>1 DEF Counted
    <3>3. QED BY <1>1, <1>2, <1>5, <1>6, <3>1, <3>2 DEF BatcherInv, BatcherTypeOK, Placed
  <2>2. CASE ~(n <= QueueMax - Len(queue))
    <3>1. Len(queue') = QueueMax
      BY <1>1, <1>5, <1>6, <2>2
    <3>2. /\ enqueued' = enqueued + (QueueMax - Len(queue))
          /\ dropped' = dropped + (n - (QueueMax - Len(queue)))
      BY <1>2, <2>2 DEF Counted
    <3>3. /\ offered \in Nat /\ enqueued \in Nat /\ dropped \in Nat /\ lost \in Nat
          /\ Len(batch) \in Nat /\ Len(handed) \in Nat
      BY DEF BatcherInv, BatcherTypeOK
    <3>4. offered' = enqueued' + dropped'
      <4>1. offered = enqueued + dropped
        BY DEF BatcherInv, Placed
      <4>2. offered' = offered + n
        BY <1>2
      <4>3. QED BY <1>1, <1>6, <3>2, <3>3, <4>1, <4>2
    <3>5. enqueued' = Len(queue') + Len(batch') + Len(handed') + lost'
      <4>1. enqueued = Len(queue) + Len(batch) + Len(handed) + lost
        BY DEF BatcherInv, Placed
      <4>2. batch' = batch /\ handed' = handed /\ lost' = lost
        BY <1>2
      <4>3. QED BY <1>6, <3>1, <3>2, <3>3, <4>1, <4>2
    <3>6. QED BY <1>6, <3>1, <3>4, <3>5 DEF Placed
  <2>3. QED BY <2>1, <2>2
<1>9. FlushedFollows'
  BY <1>2 DEF BatcherInv, FlushedFollows
<1>10. QED BY <1>7, <1>8, <1>9 DEF BatcherInv

\* A turn of the loop that leaves the queue q and the batch b behind.
LEMMA TurnInv ==
  ASSUME BatcherInv, NEW b \in Seq(Nat), Turn(b), pc \in {"ready", "wait"},
         queue' \in Seq(Nat), Len(queue') <= QueueMax,
         Len(queue') + Len(b) = Len(queue) + Len(batch),
         UNCHANGED <<incoming, enqueued, dropped, offered, handed, lost>>
  PROVE  BatcherInv'
<1>1. batch' = b
  BY DEF Turn
<1>2. Placed'
  BY <1>1 DEF BatcherInv, BatcherTypeOK, Placed
<1>3. CASE ShouldFlush(b)
  <2>1. pc' = "flush" /\ flushed' = flushed + Len(b)
    BY <1>3 DEF Turn
  <2>2. BatcherTypeOK'
    BY <1>1, <2>1 DEF BatcherInv, BatcherTypeOK, Pcs
  <2>3. FlushedFollows'
    BY <1>1, <2>1 DEF BatcherInv, BatcherTypeOK, FlushedFollows
  <2>4. QED BY <1>2, <2>2, <2>3 DEF BatcherInv
<1>4. CASE ~ShouldFlush(b)
  <2>1. pc' = "top" /\ flushed' = flushed
    BY <1>4 DEF Turn
  <2>2. BatcherTypeOK'
    BY <1>1, <2>1 DEF BatcherInv, BatcherTypeOK, Pcs
  <2>3. FlushedFollows'
    BY <1>1, <2>1 DEF BatcherInv, BatcherTypeOK, FlushedFollows
  <2>4. QED BY <1>2, <2>2, <2>3 DEF BatcherInv
<1>5. QED BY <1>3, <1>4

LEMMA GetInv == BatcherInv /\ Get => BatcherInv'
<1> SUFFICES ASSUME BatcherInv, Get PROVE BatcherInv'
  OBVIOUS
<1>1. /\ queue' \in Seq(Nat) /\ Len(queue') = Len(queue) - 1
      /\ Append(batch, Head(queue)) \in Seq(Nat)
      /\ Len(Append(batch, Head(queue))) = Len(batch) + 1
  BY DEF BatcherInv, BatcherTypeOK, Get
<1>2. /\ Len(queue') <= QueueMax
      /\ Len(queue') + Len(Append(batch, Head(queue))) = Len(queue) + Len(batch)
  BY <1>1, IngestAssumption DEF BatcherInv, BatcherTypeOK, Placed
<1>3. QED BY <1>1, <1>2, TurnInv DEF Get

LEMMA TimeoutInv == BatcherInv /\ Timeout => BatcherInv'
  BY TurnInv DEF BatcherInv, BatcherTypeOK, Placed, Timeout

LEMMA EndFlushInv ==
  ASSUME BatcherInv, NEW failing, NEW raises \in BOOLEAN, EndFlush(failing, raises)
  PROVE  BatcherInv'
<1>1. /\ batch' = <<>> /\ pc' \in {"top", "off"}
      /\ pc \in {"flush", "last"}
      /\ UNCHANGED <<incoming, queue, enqueued, dropped, flushed, offered>>
  BY DEF EndFlush, NextBatch
<1>2. CASE raises
  <2>1. lost' = lost + Len(batch) /\ handed' = handed
    BY <1>2 DEF EndFlush
  <2>2. QED
    BY <1>1, <2>1 DEF BatcherInv, BatcherTypeOK, Placed, FlushedFollows, Pcs
<1>3. CASE ~raises
  <2>1. handed' = handed \o batch /\ lost' = lost
    BY <1>3 DEF EndFlush
  <2>2. handed' \in Seq(Nat) /\ Len(handed') = Len(handed) + Len(batch)
    BY <2>1 DEF BatcherInv, BatcherTypeOK
  <2>3. QED
    BY <1>1, <2>1, <2>2 DEF BatcherInv, BatcherTypeOK, Placed, FlushedFollows, Pcs
<1>4. QED BY <1>2, <1>3

LEMMA StopInv == BatcherInv /\ Stop => BatcherInv'
  BY SMTT(30) DEF BatcherInv, BatcherTypeOK, Placed, FlushedFollows, Pcs, Stop

LEMMA FlushPendingInv == BatcherInv /\ FlushPending => BatcherInv'
<1> SUFFICES ASSUME BatcherInv, FlushPending PROVE BatcherInv'
  OBVIOUS
<1>1. /\ batch = <<>> /\ batch' = queue /\ queue' = <<>>
      /\ flushed' = flushed + Len(queue)
      /\ UNCHANGED <<incoming, enqueued, dropped, offered, handed, lost>>
      /\ Len(handed) <= flushed /\ flushed <= Len(handed) + lost
  BY DEF BatcherInv, FlushedFollows, FlushPending
<1>2. BatcherTypeOK'
  BY <1>1 DEF BatcherInv, BatcherTypeOK, Pcs, FlushPending
<1>3. Placed'
  BY <1>1, IngestAssumption DEF BatcherInv, BatcherTypeOK, Placed
<1>4. CASE queue = <<>>
  <2>1. pc' = "off" /\ flushed' = flushed
    BY <1>1, <1>4 DEF BatcherInv, BatcherTypeOK, FlushPending
  <2>2. QED BY <1>1, <1>2, <1>3, <2>1 DEF BatcherInv, FlushedFollows
<1>5. CASE queue # <<>>
  <2>1. pc' = "last"
    BY <1>5 DEF FlushPending
  <2>2. QED
    BY <1>1, <1>2, <1>3, <2>1 DEF BatcherInv, BatcherTypeOK, FlushedFollows
<1>6. QED BY <1>4, <1>5

\* The steps that neither move nor count a record.
LEMMA QuietInv ==
  ASSUME BatcherInv, Adjust \/ Tick \/ TogglePool \/ Start
  PROVE  BatcherInv'
<1>1. UNCHANGED <<incoming, queue, batch, enqueued, dropped, flushed, offered,
                  handed, lost>>
  BY DEF Adjust, Tick, TogglePool, Start
<1>2. \/ pc' = pc
      \/ pc \in {"top", "off"} /\ pc' \in {"wait", "ready", "top"}
  BY DEF Adjust, Tick, TogglePool, Start
<1>3. QED
  BY <1>1, <1>2 DEF BatcherInv, BatcherTypeOK, Placed, FlushedFollows, Pcs

LEMMA SubmitInv ==
  ASSUME BatcherInv, NEW records \in 0..MaxCarried, Submit(records)
  PROVE  BatcherInv'
<1>1. incoming' \in Seq(0..MaxCarried)
  BY DEF BatcherInv, BatcherTypeOK, Submit
<1>2. QED
  BY <1>1 DEF BatcherInv, BatcherTypeOK, Placed, FlushedFollows, Submit, batcher

LEMMA BatcherStepInv == BatcherInv /\ [IngestNext]_ingestVars => BatcherInv'
<1> SUFFICES ASSUME BatcherInv, [IngestNext]_ingestVars PROVE BatcherInv'
  OBVIOUS
<1>1. ASSUME NEW records \in 0..MaxCarried, Submit(records) PROVE BatcherInv'
  BY <1>1, SubmitInv
<1>2. ASSUME NEW failing \in SUBSET InBatch, NEW raises \in BOOLEAN,
             EndFlush(failing, raises)
      PROVE  BatcherInv'
  BY <1>2, EndFlushInv
<1>3. CASE UNCHANGED ingestVars
  BY <1>3 DEF BatcherInv, BatcherTypeOK, Placed, FlushedFollows, ingestVars, batcher
<1>4. QED
  BY <1>1, <1>2, <1>3, WorkInv, GetInv, TimeoutInv, StopInv, FlushPendingInv,
     QuietInv DEF IngestNext
-----------------------------------------------------------------------------
\* The batcher keeps its inductive invariant.
THEOREM IngestInvariant == IngestSpec => []BatcherInv
  BY BatcherInitInv, BatcherStepInv, PTL DEF IngestSpec

LEMMA Accounted == BatcherInv => RecordsAreAccounted
  BY DEF BatcherInv, BatcherTypeOK, Placed, FlushedFollows, RecordsAreAccounted

\* Every record offered is counted and in one place, and total_flushed lies
\* between what was handed on and that plus what was lost (adaptive_batcher.py
\* lines 71-83, 134-155), whatever the capacity and the watermarks.
THEOREM RecordsAlwaysAccounted == IngestSpec => []RecordsAreAccounted
  BY IngestInvariant, Accounted, PTL
-----------------------------------------------------------------------------
(***************************************************************************)
(* The order of the records.  Those that left the queue are older than     *)
(* those in it, those handed on older than those of the batch; the         *)
(* producer has went or kept what it was handed, but for the oldest of a   *)
(* full buffer.                                                            *)
(***************************************************************************)
Taken == offered - Len(queue)

QueueIsNewest ==
  /\ Len(queue) <= offered /\ IsRun(queue, offered)
  /\ ToSet(batch) \subseteq 1..Taken /\ ToSet(handed) \subseteq 1..Taken

BatchFollows ==
  /\ Increasing(batch) /\ Increasing(handed)
  /\ \A r \in ToSet(handed), t \in ToSet(batch) : r < t

HandedIsKept ==
  /\ broker \in Seq(Nat) /\ Increasing(broker)
  /\ fallback \in Seq(Nat) /\ Increasing(fallback) /\ Len(fallback) <= MaxFallback
  /\ ToSet(broker) \subseteq ToSet(handed) /\ ToSet(fallback) \subseteq ToSet(handed)
  /\ ToSet(broker) \intersect ToSet(fallback) = {}
  /\ \A r \in ToSet(handed) :
       \/ r \in ToSet(broker) \/ r \in ToSet(fallback)
       \/ Len(fallback) = MaxFallback /\ r < fallback[1]

Ordered == QueueIsNewest /\ BatchFollows /\ HandedIsKept

LEMMA EmptyIsOrdered ==
  ToSet(<<>>) = {} /\ Increasing(<<>>) /\ \A n : IsRun(<<>>, n)
  BY DEF ToSet, Increasing, IsRun

LEMMA InitOrdered == IngestInit => Ordered
  BY EmptyIsOrdered, IngestAssumption
  DEF IngestInit, Ordered, QueueIsNewest, BatchFollows, HandedIsKept

\* A step that moves no record.
LEMMA FrameOrdered ==
  ASSUME Ordered, UNCHANGED <<queue, batch, offered, handed, broker, fallback>>
  PROVE  Ordered'
  BY DEF Ordered, QueueIsNewest, BatchFollows, HandedIsKept, Taken, IsRun, Increasing

LEMMA WorkOrdered ==
  ASSUME BatcherInv, Ordered, Work
  PROVE  Ordered'
<1> DEFINE n == Head(incoming)
           new == [i \in 1..n |-> offered + i]
           all == queue \o new
<1>1. n \in Nat
  BY HeadTailProperties, IngestAssumption DEF BatcherInv, BatcherTypeOK, Work
<1>2. /\ queue' = LastOf(all, QueueMax) /\ offered' = offered + n
      /\ UNCHANGED <<batch, handed, broker, fallback>>
  BY DEF Work, Enqueue
<1>3. /\ queue \in Seq(Nat) /\ offered \in Nat /\ IsRun(queue, offered)
      /\ QueueMax \in Nat /\ Len(queue) <= offered
  BY IngestAssumption DEF BatcherInv, BatcherTypeOK, Ordered, QueueIsNewest
<1>4. /\ all \in Seq(Nat) /\ Len(all) = Len(queue) + n /\ IsRun(all, offered + n)
  <2>1. new = [i \in 1..n |-> offered + i]
    OBVIOUS
  <2> HIDE DEF n, new
  <2>2. QED BY <1>1, <1>3, <2>1, RunGrows
<1>5. offered + n \in Nat
  BY <1>1, <1>3
<1> HIDE DEF n, new, all
<1>6. /\ LastOf(all, QueueMax) \in Seq(Nat)
      /\ Len(LastOf(all, QueueMax)) <= Len(all)
      /\ IsRun(LastOf(all, QueueMax), offered + n)
  BY <1>3, <1>4, <1>5, LastOfRun
<1>7. /\ queue' \in Seq(Nat) /\ Len(queue') <= Len(queue) + n
      /\ IsRun(queue', offered')
  BY <1>2, <1>4, <1>6
<1>8. Len(queue') <= offered' /\ Taken <= Taken' /\ Taken \in Nat /\ Taken' \in Nat
  BY <1>1, <1>2, <1>3, <1>7 DEF Taken
<1>9. QueueIsNewest'
  <2>1. 1..Taken \subseteq 1..Taken'
    BY <1>8
  <2> HIDE DEF Taken
  <2>2. ToSet(batch) \subseteq 1..Taken' /\ ToSet(handed) \subseteq 1..Taken'
    BY <2>1 DEF Ordered, QueueIsNewest
  <2>3. QED BY <1>2, <1>7, <1>8, <2>2 DEF QueueIsNewest, IsRun
<1>10. QED BY <1>2, <1>9 DEF Ordered, BatchFollows, HandedIsKept, Increasing

LEMMA GetOrdered ==
  ASSUME BatcherInv, Ordered, Get
  PROVE  Ordered'
<1> DEFINE b == Append(batch, Head(queue))
<1>1. /\ queue # <<>> /\ queue' = Tail(queue) /\ batch' = b
      /\ UNCHANGED <<offered, handed, broker, fallback>>
  BY DEF Get, Turn
<1>2. /\ queue \in Seq(Nat) /\ batch \in Seq(Nat) /\ offered \in Nat
      /\ Len(queue) <= offered /\ IsRun(queue, offered)
  BY DEF BatcherInv, BatcherTypeOK, Ordered, QueueIsNewest
<1>3. /\ queue' \in Seq(Nat) /\ Len(queue) \in Nat \ {0}
      /\ Len(queue') = Len(queue) - 1
      /\ \A i \in 1..Len(queue) - 1 : queue'[i] = queue[i + 1]
      /\ Head(queue) = queue[1]
  BY <1>1, <1>2, HeadTailProperties, EmptySeq
<1>4. Head(queue) = Taken + 1 /\ Taken \in Nat /\ Taken' = Taken + 1
  <2>1. queue[1] = offered - Len(queue) + 1
    BY <1>2, <1>3 DEF IsRun
  <2>2. QED BY <1>1, <1>2, <1>3, <2>1 DEF Taken
<1>5. IsRun(queue', offered')
  <2> SUFFICES ASSUME NEW i \in 1..Len(queue')
               PROVE  queue'[i] = offered - Len(queue') + i
    BY <1>1 DEF IsRun
  <2>1. i \in 1..Len(queue) - 1 /\ i + 1 \in 1..Len(queue)
    BY <1>3
  <2>2. queue[i + 1] = offered - Len(queue) + (i + 1)
    BY <1>2, <2>1 DEF IsRun
  <2>3. QED BY <1>2, <1>3, <2>1, <2>2
<1>6. ToSet(batch) \subseteq 1..Taken /\ ToSet(handed) \subseteq 1..Taken
  BY DEF Ordered, QueueIsNewest
<1>7. b \in Seq(Nat) /\ ToSet(b) = ToSet(batch) \union {Taken + 1}
  BY <1>2, <1>4, ToSetOfAppend
<1>8. Increasing(b)
  <2>1. Increasing(batch) /\ \A r \in ToSet(batch) : r < Taken + 1
    BY <1>4, <1>6 DEF Ordered, BatchFollows
  <2>2. QED BY <1>2, <1>4, <2>1, AppendIsIncreasing
<1> HIDE DEF b
<1>9. BatchFollows'
  <2>1. \A r \in ToSet(handed) : r < Taken + 1
    BY <1>4, <1>6
  <2>2. \A r \in ToSet(handed), t \in ToSet(b) : r < t
    BY <1>7, <2>1 DEF Ordered, BatchFollows
  <2>3. QED BY <1>1, <1>8, <2>2 DEF Ordered, BatchFollows, Increasing
<1>10. QueueIsNewest'
  <2>1. 1..Taken \subseteq 1..Taken' /\ Taken + 1 \in 1..Taken'
    BY <1>4
  <2>2. Len(queue') <= offered'
    BY <1>1, <1>2, <1>3
  <2> HIDE DEF Taken
  <2>3. QED BY <1>1, <1>5, <1>6, <1>7, <2>1, <2>2 DEF QueueIsNewest, IsRun
<1>11. QED BY <1>1, <1>9, <1>10 DEF Ordered, HandedIsKept, Increasing

\* The loop is cancelled, and its batch is gone.
LEMMA BatchGoneOrdered ==
  ASSUME Ordered, batch' = <<>>, UNCHANGED <<queue, offered, handed, broker, fallback>>
  PROVE  Ordered'
  BY EmptyIsOrdered
  DEF Ordered, QueueIsNewest, BatchFollows, HandedIsKept, Taken, IsRun, Increasing

LEMMA FlushPendingOrdered ==
  ASSUME BatcherInv, Ordered, FlushPending
  PROVE  Ordered'
<1>1. /\ batch' = queue /\ queue' = <<>>
      /\ UNCHANGED <<offered, handed, broker, fallback>>
  BY DEF FlushPending
<1>2. /\ queue \in Seq(Nat) /\ offered \in Nat
      /\ Len(queue) <= offered /\ IsRun(queue, offered)
  BY DEF BatcherInv, BatcherTypeOK, Ordered, QueueIsNewest
<1>3. Increasing(queue) /\ ToSet(queue) = (offered - Len(queue) + 1)..offered
  BY <1>2, RunIsIncreasing
<1>4. Taken \in Nat /\ Taken = offered - Len(queue) /\ Taken' = offered
  BY <1>1, <1>2 DEF Taken
<1>5. ToSet(handed) \subseteq 1..Taken
  BY DEF Ordered, QueueIsNewest
<1>6. BatchFollows'
  <2>1. \A r \in ToSet(handed), t \in ToSet(queue) : r < t
    BY <1>2, <1>3, <1>4, <1>5
  <2>2. QED BY <1>1, <1>3, <2>1 DEF Ordered, BatchFollows, Increasing
<1>7. QueueIsNewest'
  <2>1. 1..Taken \subseteq 1..offered /\ ToSet(queue) \subseteq 1..offered
    BY <1>2, <1>3, <1>4
  <2>2. Len(queue') <= offered' /\ IsRun(queue', offered')
    BY <1>1, <1>2, EmptyIsOrdered
  <2>3. QED BY <1>1, <1>4, <1>5, <2>1, <2>2 DEF QueueIsNewest, IsRun
<1>8. QED BY <1>1, <1>6, <1>7 DEF Ordered, HandedIsKept, Increasing

\* publish_flows: what is went and what is kept are newer than what was handed
\* on before; what is cut off is the oldest.
LEMMA PublishOrdered ==
  ASSUME BatcherInv, Ordered, NEW failing, Publish(failing), handed' = handed \o batch,
         batch' = <<>>, UNCHANGED <<queue, offered>>
  PROVE  Ordered'
<1> DEFINE went == Those(batch, InBatch \ failing)
           kept == Those(batch, failing)
           all  == fallback \o kept
<1>1. broker' = broker \o went /\ fallback' = LastOf(all, MaxFallback)
  BY DEF Publish, Cut
<1>2. /\ batch \in Seq(Nat) /\ Increasing(batch) /\ handed \in Seq(Nat)
      /\ Increasing(handed) /\ \A r \in ToSet(handed), t \in ToSet(batch) : r < t
      /\ MaxFallback \in Nat \ {0}
  BY IngestAssumption DEF BatcherInv, BatcherTypeOK, Ordered, BatchFollows
<1>3. InBatch = ToSet(batch)
  BY DEF InBatch, ToSet
<1>4. /\ went \in Seq(Nat) /\ Increasing(went) /\ ToSet(went) = ToSet(batch) \ failing
      /\ kept \in Seq(Nat) /\ Increasing(kept)
      /\ ToSet(kept) = ToSet(batch) \intersect failing
  BY <1>2, <1>3, ThoseIs
<1> HIDE DEF went, kept
<1>5. HandedIsKept
  BY DEF Ordered
<1>6. /\ handed' \in Seq(Nat) /\ Increasing(handed')
      /\ ToSet(handed') = ToSet(handed) \union ToSet(batch)
  BY <1>2, ConcatIsIncreasing, ToSetOfConcat
<1>7. /\ broker' \in Seq(Nat) /\ Increasing(broker')
      /\ ToSet(broker') = ToSet(broker) \union ToSet(went)
  <2>1. broker \in Seq(Nat) /\ Increasing(broker)
    BY <1>5 DEF HandedIsKept
  <2>2. \A r \in ToSet(broker), t \in ToSet(went) : r < t
    BY <1>2, <1>4, <1>5 DEF HandedIsKept
  <2>3. QED BY <1>1, <1>4, <2>1, <2>2, ConcatIsIncreasing, ToSetOfConcat
<1>8. /\ all \in Seq(Nat) /\ Increasing(all)
      /\ ToSet(all) = ToSet(fallback) \union ToSet(kept)
  <2>1. fallback \in Seq(Nat) /\ Increasing(fallback)
    BY <1>5 DEF HandedIsKept
  <2>2. \A r \in ToSet(fallback), t \in ToSet(kept) : r < t
    BY <1>2, <1>4, <1>5 DEF HandedIsKept
  <2>3. QED BY <1>4, <2>1, <2>2, ConcatIsIncreasing, ToSetOfConcat
<1>9. Len(all) = Len(fallback) + Len(kept)
  BY <1>4, <1>5 DEF HandedIsKept
<1> HIDE DEF all
<1>10. /\ fallback' \in Seq(Nat) /\ Increasing(fallback') /\ Len(fallback') <= MaxFallback
       /\ ToSet(fallback') \subseteq ToSet(all)
       /\ \A r \in ToSet(all) : \/ r \in ToSet(fallback')
                                \/ Len(fallback') = MaxFallback /\ r < fallback'[1]
  BY <1>1, <1>2, <1>8, LastOfIncreasing, ZenonT(60)
<1>11. Len(all) >= MaxFallback => Len(fallback') = MaxFallback
  <2>1. CASE Len(all) <= MaxFallback
    BY <1>1, <1>2, <1>8, <2>1 DEF LastOf
  <2>2. CASE ~(Len(all) <= MaxFallback)
    BY <1>1, <1>2, <1>8, <2>2 DEF LastOf
  <2>3. QED BY <2>1, <2>2
<1>12. HandedIsKept'
  <2>1. ASSUME NEW r \in ToSet(handed')
        PROVE  \/ r \in ToSet(broker') \/ r \in ToSet(fallback')
               \/ Len(fallback') = MaxFallback /\ r < fallback'[1]
    <3>1. CASE r \in ToSet(broker) \union ToSet(went)
      BY <1>7, <3>1
    <3>2. CASE r \in ToSet(fallback) \union ToSet(kept)
      BY <1>8, <1>10, <3>2
    <3>3. CASE Len(fallback) = MaxFallback /\ r < fallback[1] /\ r \in ToSet(handed)
      <4>1. Len(fallback') = MaxFallback
        BY <1>2, <1>4, <1>9, <1>11, <3>3
      <4>2. fallback'[1] \in ToSet(all)
        <5>1. 1 \in DOMAIN fallback'
          BY <1>2, <1>10, <4>1
        <5>2. fallback'[1] \in ToSet(fallback')
          BY <5>1, Zenon DEF ToSet
        <5>3. QED BY <1>10, <5>2
      <4>3. CASE fallback'[1] \in ToSet(kept)
        BY <1>2, <1>4, <3>3, <4>1, <4>3
      <4>4. CASE fallback'[1] \in ToSet(fallback)
        <5>1. PICK k \in 1..Len(fallback) : fallback'[1] = fallback[k]
          <6>1. DOMAIN fallback = 1..Len(fallback)
            BY <1>2
          <6>2. PICK k \in DOMAIN fallback : fallback'[1] = fallback[k]
            BY <4>4, Zenon DEF ToSet
          <6>3. QED BY <6>1, <6>2
        <5>2. /\ fallback[1] \in Nat /\ fallback[k] \in Nat
              /\ k = 1 \/ fallback[1] < fallback[k]
          BY <1>2, <1>5, <3>3, <5>1 DEF HandedIsKept, Increasing
        <5>3. r \in Nat
          BY <1>2, <3>3 DEF ToSet
        <5>4. QED BY <3>3, <4>1, <5>1, <5>2, <5>3
      <4>5. QED BY <1>8, <4>2, <4>3, <4>4
    <3>4. r \in ToSet(batch) => r \in ToSet(went) \union ToSet(kept)
      BY <1>4
    <3>5. r \in ToSet(handed) \/ r \in ToSet(batch)
      BY <1>6
    <3>6. QED BY <1>5, <3>1, <3>2, <3>3, <3>4, <3>5 DEF HandedIsKept
  <2>2. ToSet(broker') \subseteq ToSet(handed') /\ ToSet(fallback') \subseteq ToSet(handed')
    BY <1>4, <1>5, <1>6, <1>7, <1>8, <1>10 DEF HandedIsKept
  <2>3. ToSet(broker') \intersect ToSet(fallback') = {}
    <3>1. ToSet(handed) \intersect ToSet(batch) = {}
      <4>1. \A r \in ToSet(handed) : r \in Nat
        BY <1>2 DEF ToSet
      <4>2. QED BY <1>2, <4>1
    <3>2. /\ ToSet(broker) \subseteq ToSet(handed) /\ ToSet(fallback) \subseteq ToSet(handed)
          /\ ToSet(broker) \intersect ToSet(fallback) = {}
      BY <1>5 DEF HandedIsKept
    <3>3. QED BY <1>4, <1>7, <1>8, <1>10, <3>1, <3>2
  <2>4. QED BY <1>7, <1>10, <2>1, <2>2, <2>3 DEF HandedIsKept, Increasing
<1>13. BatchFollows'
  BY <1>6, EmptyIsOrdered DEF BatchFollows, Increasing
<1>14. QueueIsNewest'
  BY <1>6, EmptyIsOrdered DEF Ordered, QueueIsNewest, Taken, IsRun
<1>15. QED BY <1>12, <1>13, <1>14 DEF Ordered

LEMMA StepOrdered == BatcherInv /\ Ordered /\ [IngestNext]_ingestVars => Ordered'
<1> SUFFICES ASSUME BatcherInv, Ordered, [IngestNext]_ingestVars PROVE Ordered'
  OBVIOUS
<1>1. CASE \E records \in 0..MaxCarried : Submit(records)
  BY <1>1, FrameOrdered DEF Submit, batcher
<1>2. CASE Adjust \/ Tick \/ TogglePool \/ Start \/ UNCHANGED ingestVars
  BY <1>2, FrameOrdered DEF Adjust, Tick, TogglePool, Start, ingestVars, batcher
<1>3. CASE Timeout
  BY <1>3, FrameOrdered DEF Timeout, Turn
<1>4. CASE Stop
  BY <1>4, BatchGoneOrdered DEF Stop
<1>5. ASSUME NEW failing \in SUBSET InBatch, NEW raises \in BOOLEAN,
             EndFlush(failing, raises)
      PROVE  Ordered'
  <2>1. batch' = <<>> /\ UNCHANGED <<queue, offered>>
    BY <1>5 DEF EndFlush, NextBatch
  <2>2. CASE raises
    BY <1>5, <2>1, <2>2, BatchGoneOrdered DEF EndFlush
  <2>3. CASE ~raises
    BY <1>5, <2>1, <2>3, PublishOrdered DEF EndFlush
  <2>4. QED BY <2>2, <2>3
<1>6. QED
  BY <1>1, <1>2, <1>3, <1>4, <1>5, WorkOrdered, GetOrdered, FlushPendingOrdered
  DEF IngestNext

LEMMA OrderedIsInOrder == BatcherInv /\ Ordered => NewestInOrder
<1> SUFFICES ASSUME BatcherInv, Ordered PROVE NewestInOrder
  OBVIOUS
<1>1. /\ queue \in Seq(Nat) /\ batch \in Seq(Nat) /\ handed \in Seq(Nat)
      /\ offered \in Nat /\ IsRun(queue, offered) /\ Len(queue) <= offered
  BY DEF BatcherInv, BatcherTypeOK, Ordered, QueueIsNewest
<1>2. /\ Increasing(queue) /\ ToSet(queue) = (offered - Len(queue) + 1)..offered
  BY <1>1, RunIsIncreasing
<1>3. /\ Increasing(batch) /\ Increasing(handed)
      /\ \A r \in ToSet(handed), t \in ToSet(batch) : r < t
      /\ ToSet(batch) \subseteq 1..Taken /\ ToSet(handed) \subseteq 1..Taken
  BY DEF Ordered, BatchFollows, QueueIsNewest
<1>4. /\ handed \o batch \in Seq(Nat) /\ Increasing(handed \o batch)
      /\ ToSet(handed \o batch) = ToSet(handed) \union ToSet(batch)
  BY <1>1, <1>3, ConcatIsIncreasing, ToSetOfConcat
<1>5. \A r \in ToSet(handed \o batch), t \in ToSet(queue) : r < t
  <2>1. Taken \in Nat /\ \A t \in ToSet(queue) : t \in Nat /\ Taken < t
    BY <1>1, <1>2 DEF Taken
  <2>2. \A r \in ToSet(handed \o batch) : r \in 1..Taken
    BY <1>3, <1>4
  <2> HIDE DEF Taken
  <2>3. QED BY <2>1, <2>2
<1>6. Increasing((handed \o batch) \o queue)
  <2> DEFINE hb == handed \o batch
  <2> HIDE DEF hb
  <2>1. hb \in Seq(Nat) /\ Increasing(hb)
        /\ \A r \in ToSet(hb), t \in ToSet(queue) : r < t
    BY <1>4, <1>5 DEF hb
  <2>2. Increasing(hb \o queue)
    BY <1>1, <1>2, <2>1, ConcatIsIncreasing
  <2>3. QED BY <2>2 DEF hb
<1>7. LastRunInOrder
  BY <1>1, <1>6 DEF LastRunInOrder
<1>8. PublishedOrKept
  <2>1. HandedIsKept
    BY DEF Ordered
  <2>2. ASSUME NEW i \in DOMAIN handed
        PROVE  LET went == \E k \in DOMAIN broker : broker[k] = handed[i]
                   kept == \E k \in DOMAIN fallback : fallback[k] = handed[i]
               IN /\ ~(went /\ kept)
                  /\ \/ went \/ kept
                     \/ Len(fallback) = MaxFallback /\ handed[i] < fallback[1]
    <3>1. handed[i] \in ToSet(handed)
      BY DEF ToSet
    <3>2. /\ handed[i] \in ToSet(broker) <=> \E k \in DOMAIN broker : broker[k] = handed[i]
          /\ handed[i] \in ToSet(fallback)
               <=> \E k \in DOMAIN fallback : fallback[k] = handed[i]
      BY DEF ToSet
    <3>3. QED BY <2>1, <3>1, <3>2 DEF HandedIsKept
  <2>3. QED BY <2>1, <2>2 DEF HandedIsKept, PublishedOrKept
<1>9. QED BY <1>7, <1>8 DEF NewestInOrder

\* Under pressure the newest survive, in order and once, and what was handed to
\* the producer is in Kafka or in its buffer (adaptive_batcher.py 60-83, 101-132,
\* 147-155, kafka.py 54-83), for every capacity, watermark and buffer.
THEOREM NewestAlwaysInOrder == IngestSpec => []NewestInOrder
<1>1. IngestInit => Ordered
  BY InitOrdered
<1>2. BatcherInv /\ Ordered /\ [IngestNext]_ingestVars => Ordered'
  BY StepOrdered
<1>3. BatcherInv /\ Ordered => NewestInOrder
  BY OrderedIsInOrder
<1>4. QED BY <1>1, <1>2, <1>3, IngestInvariant, PTL DEF IngestSpec
=============================================================================
