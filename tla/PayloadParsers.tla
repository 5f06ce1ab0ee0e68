---------------------------- MODULE PayloadParsers ----------------------------
(***************************************************************************)
(* What collector/l7_parsers.py, collector/tls_parser.py and               *)
(* detector/ja4.py read in a payload.  A payload is a record with a kind:  *)
(* "dns", "tls", "krb", "rpc" or "http"; [kind |-> "none"] is none.        *)
(*                                                                         *)
(* A DNS message is [response, qd, an, cells]: cells are its labels,       *)
(* compression pointers, ends of names, and the fixed part of a question   *)
(* or of a resource record with its data, in the order of the bytes; an    *)
(* offset is the index of a cell.  A message may end after any cell.       *)
(***************************************************************************)
EXTENDS Naturals, Sequences, FiniteSets, SequencesExt, FiniteSetsExt

CONSTANTS MaxDepth,   \* deepest pointer _decode_name follows (10)
          Grease,     \* reserved TLS values
          Sni, Alpn   \* the extensions JA4 leaves out of its hash

Label(v) == [cell |-> "label", value |-> v]
Pointer(to) == [cell |-> "pointer", value |-> to]
End == [cell |-> "end", value |-> 0]
Question == [cell |-> "question", value |-> 0]
Answer(type, ttl, ip) == [cell |-> "answer", type |-> type, ttl |-> ttl, value |-> ip]

\* Index of the first cell from offset on that is not a label.
AfterLabels(cells, offset) ==
  Min({Len(cells) + 1} \cup {i \in offset..Len(cells) : cells[i].cell # "label"})

\* Mutant: a pointer is followed but its name replaces the labels before it.
PointedName(cells, offset) ==
  LET stop == AfterLabels(cells, offset)
      at == IF stop <= Len(cells) /\ cells[stop].cell = "pointer"
            THEN cells[stop].value ELSE offset
  IN [i \in 1..AfterLabels(cells, at) - at |-> cells[at + i - 1].value]

(***************************************************************************)
(* _decode_name: the labels up to the end of the name; a pointer continues *)
(* the name elsewhere, up to a depth, so that a cycle of pointers ends.    *)
(***************************************************************************)
DecodedName(cells, offset) ==
  LET name[depth \in 0..MaxDepth + 1, at \in 1..Len(cells) + 1] ==
        LET stop == AfterLabels(cells, at)
            labels == [i \in 1..stop - at |-> cells[at + i - 1].value]
        IN IF depth > MaxDepth THEN <<>>
           ELSE IF stop <= Len(cells) /\ cells[stop].cell = "pointer"
           THEN labels \o name[depth + 1, cells[stop].value]
           ELSE labels
  IN name[0, offset]

\* Where the message goes on: after the end of the name or its first pointer.
NextOffset(cells, offset) ==
  LET stop == AfterLabels(cells, offset)
  IN IF stop <= Len(cells) THEN stop + 1 ELSE stop

Has(cells, offset, cell) == offset <= Len(cells) /\ cells[offset].cell = cell

(***************************************************************************)
(* parse: qd questions, then an answers, as far as the message goes.  A    *)
(* question without its fixed part, or with an empty name, is not kept.    *)
(***************************************************************************)
ParsedDns(m) ==
  LET question(s) ==
        LET name == DecodedName(m.cells, s.at)
            next == NextOffset(m.cells, s.at)
        IN IF s.at > Len(m.cells) THEN s
           ELSE IF ~Has(m.cells, next, "question") THEN [s EXCEPT !.at = next]
           ELSE [s EXCEPT !.at = next + 1,
                          !.queries = IF name = <<>> THEN @ ELSE Append(@, name)]
      answer(s) ==
        LET next == NextOffset(m.cells, s.at)
            r == m.cells[next]
        IN IF s.at > Len(m.cells) THEN s
           ELSE IF ~Has(m.cells, next, "answer") THEN [s EXCEPT !.at = next]
           ELSE [s EXCEPT !.at = next + 1, !.ttls = Append(@, r.ttl),
                          !.ips = IF r.type = "A" THEN Append(@, r.value) ELSE @]
      asked[i \in 0..m.qd] ==
        IF i = 0 THEN [at |-> 1, queries |-> <<>>, ttls |-> <<>>, ips |-> <<>>]
        ELSE question(asked[i - 1])
      answered[i \in 0..m.an] ==
        IF i = 0 THEN asked[m.qd] ELSE answer(answered[i - 1])
      end == answered[m.an]
  IN [response |-> m.response, queries |-> end.queries, ips |-> end.ips,
      minTtl |-> IF end.ttls = <<>> THEN 0 ELSE Min(ToSet(end.ttls))]
-----------------------------------------------------------------------------
(***************************************************************************)
(* Kerberos: the parser looks for marks anywhere in the body.  A message   *)
(* is [name, integers, spns]: the one-byte integers encoded in it, whatever*)
(* they stand for, and the service names.  2 is read as the type of the    *)
(* encrypted timestamp, 23 as the RC4 cipher.                              *)
(***************************************************************************)
ParsedKerberos(m) ==
  [name |-> m.name, preauth |-> 2 \in m.integers, rc4 |-> 23 \in m.integers,
   spns |-> m.spns]

\* DCE-RPC: the interface is looked for in Bind, AlterContext and Request.
ParsedRpc(m) ==
  IF m.ptype \in {"bind", "alter", "request"} THEN m.interface ELSE "none"

(***************************************************************************)
(* HTTP: the request line and a dictionary of headers, in which a name     *)
(* keeps the place of its first and the value of its last occurrence.      *)
(* Header names are compared without case when they are looked up.         *)
(***************************************************************************)
Headers(m) ==
  LET names == {m.headers[i].name : i \in DOMAIN m.headers}
      first(h) == Min({i \in DOMAIN m.headers : m.headers[i].name = h})
      last(h) == Max({i \in DOMAIN m.headers : m.headers[i].name = h})
      order == SetToSortSeq(names, LAMBDA g, h : first(g) < first(h))
  IN [i \in DOMAIN order |-> m.headers[last(order[i])]]

\* The value of the first header that is one of these, "" for none.
HeaderValue(m, lower) ==
  LET i == SelectInSeq(Headers(m), LAMBDA h : h.lower \in lower)
  IN IF i = 0 THEN "" ELSE Headers(m)[i].value
-----------------------------------------------------------------------------
(***************************************************************************)
(* TLS: a ClientHello is [version, ciphers, extensions, groups, points,    *)
(* signatures, versions, sni, alpn]; sni is "name", "address" or "none".   *)
(* Reserved (GREASE) values are dropped when it is read.                   *)
(***************************************************************************)
Greaseless(s) == SelectSeq(s, LAMBDA v : v \notin Grease)

ParsedHello(h) ==
  [h EXCEPT !.ciphers = Greaseless(@), !.extensions = Greaseless(@),
            !.groups = Greaseless(@), !.signatures = Greaseless(@),
            !.versions = Greaseless(@)]

EffectiveVersion(h) ==
  IF 772 \in ToSet(h.versions) THEN 772
  ELSE IF 771 \in ToSet(h.versions) THEN 771 ELSE h.version

\* Mutant: the fingerprint keeps the order of the client.
Ja4InOrder(h, proto) ==
  <<proto, EffectiveVersion(h), h.sni, h.alpn, h.ciphers, h.extensions, h.signatures>>

(***************************************************************************)
(* calculate_ja4: the counts are of all that was kept, the sorted hashes   *)
(* of the ciphers and of the extensions without SNI and ALPN; signature    *)
(* algorithms stay in order.  Without extensions their hash is a constant. *)
(***************************************************************************)
Ja4(h, proto) ==
  LET sorted(s) == SortSeq(s, <)
      hashed == SelectSeq(h.extensions, LAMBDA e : e \notin {Sni, Alpn})
  IN <<proto, EffectiveVersion(h), IF h.sni = "name" THEN "d" ELSE "i",
       Min({Len(h.ciphers), 99}), Min({Len(h.extensions), 99}), h.alpn,
       sorted(h.ciphers),
       IF h.extensions = <<>> THEN <<>> ELSE <<sorted(hashed), h.signatures>>>>

\* calculate_ja3: everything in the order of the client.
Ja3(h) == <<h.version, h.ciphers, h.extensions, h.groups, h.points>>
=============================================================================
