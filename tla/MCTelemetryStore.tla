--------------------------- MODULE MCTelemetryStore ---------------------------
EXTENDS TelemetryStore

(***************************************************************************)
(* Blocks of two rows, files whose column of packets holds up to 9 and     *)
(* whose dictionaries index two names.  The rows come out of order in time *)
(* and in ports; Huge cannot be packed.                                    *)
(***************************************************************************)
CONSTANTS c1, c2

Row(ts, src, dst, port, proto, packets, bytes, ja4) ==
  [ts |-> ts, src |-> src, dst |-> dst, port |-> port, proto |-> proto,
   packets |-> packets, bytes |-> bytes, ja4 |-> ja4]
Web == Row(7, "ana", "srv", 443, 6, 3, 60, "t13")
Dns == Row(3, "bob", "dns", 53, 17, 1, 5, "")
Smb == Row(5, "ana", "bob", 445, 6, 9, 50, "")
Gre == Row(6, "srv", "ana", 0, 47, 2, 60, "")
Huge == Row(4, "srv", "ana", 443, 6, 10, 900, "t13")
MCRows == {Web, Dns, Smb, Gre, Huge}

Idle == [recorded |-> {}, batches |-> {}, calls |-> 0, persistent |-> FALSE,
         cluster |-> FALSE, restarts |-> 0, clients |-> {}, broadcasts |-> 0]

MCScenes ==
  { [Idle EXCEPT !.recorded = {<<Web, Dns, Smb>>, <<Huge>>, <<Gre, Web>>, <<Dns>>},
                 !.calls = 3, !.broadcasts = 2],
    [Idle EXCEPT !.recorded = {<<Web, Dns>>}, !.calls = 2,
                 !.broadcasts = 2, !.clients = {c1, c2}] }
  \cup {[Idle EXCEPT !.batches = {<<Web>>, <<Dns, Smb, Gre>>, <<Web, Huge, Dns>>},
                     !.calls = 4, !.persistent = p, !.cluster = k,
                     !.restarts = 1] : p, k \in BOOLEAN}

MCFilters ==
  {<<>>} \cup {"start" :> n : n \in {4, 6, 52}} \cup {"end" :> n : n \in {4, 6, 50}}
         \cup {"port" :> n : n \in {0, 53, 443, 444}} \cup {"proto" :> 17, "src" :> "ana"}
         \cup {(k :> Null) @@ ("proto" :> 6) : k \in {"start", "end", "port", "dst"}}
         \cup {("dst" :> "bob") @@ ("min_bytes" :> 50),
               ("start" :> 4) @@ ("end" :> 6) @@ ("port" :> 445), "ja4" :> "t13"}

Word(s) == [lex |-> "word", text |-> Str(s)]
Digits(n, unit) == [digits |-> n, unit |-> unit]
Test(field, op, value, rows) ==
  [op |-> "cond", text |-> <<Word(field), [lex |-> "op", text |-> Str(op)], value>>,
   rows |-> rows]
IsTcp == Test("proto", "=", Word("tcp"), {r \in MCRows : r.proto = 6})
IsWeb == [Test("dst_port", "in", [lex |-> "list", text |-> <<Digits(443, ""), Digits(80, "")>>],
               {r \in MCRows : r.port = 443})
          EXCEPT !.text[2] = Word("in")]
IsLarge == Test("bytes", ">=", [lex |-> "word", text |-> Digits(60, "")],
                {r \in MCRows : r.bytes >= 60})
IsAnas == Test("src_ip", "!=", [lex |-> "quoted", text |-> Str("ana")],
               {r \in MCRows : r.src # "ana"})
Lacking == Test("sni", "!=", Word("x"), {})
MCTests == {IsTcp, IsWeb, IsLarge, IsAnas, Lacking}

Not(t) == [op |-> "not", arg |-> t]
Pairs == {Binary(op, l, r) : op \in {"and", "or"}, l \in {IsTcp, Not(IsLarge)},
                             r \in {IsLarge, Lacking}}
Trees == MCTests \cup {Not(t) : t \in MCTests \cup Pairs}
         \cup UNION {{Binary(op, p, IsWeb), Binary(op, IsAnas, p), Not(Binary(op, IsAnas, p))} :
                        op \in {"and", "or"}, p \in Pairs}

\* A tree written with the parentheses it needs.
Binds == ("or" :> 1) @@ ("and" :> 2) @@ ("not" :> 3) @@ ("cond" :> 4)
Paren(p) == [lex |-> p, text |-> Str(p)]
RECURSIVE Written(_)
Written(t) ==
  LET part(u, least) == IF Binds[u.op] >= least THEN Written(u)
                        ELSE <<Paren("(")>> \o Written(u) \o <<Paren(")")>>
  IN CASE t.op = "cond" -> t.text
       [] t.op = "not" -> <<Word("not")>> \o part(t.arg, 3)
       [] OTHER -> part(t.left, Binds[t.op]) \o <<Word(t.op)>> \o part(t.right, Binds[t.op] + 1)

MCHunts == {[tree |-> t, text |-> Written(t)] : t \in Trees}
=============================================================================
