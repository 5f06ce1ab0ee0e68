------------------------------- MODULE BiFlows -------------------------------
(***************************************************************************)
(* The bi-flow stitcher (detector/biflow.py) as operators on its table of  *)
(* sessions: every flow record joins the session of its conversation, one  *)
(* side of which is taken for the client when the session is created.      *)
(*                                                                         *)
(* A flow is a record [src, dst, sport, dport, proto, flags, packets,      *)
(* bytes, late, domain]; flags is the set of the names of the TCP flags    *)
(* that are set, late the seconds by which the exporter's timestamp is     *)
(* behind the arrival of the record.                                       *)
(***************************************************************************)
EXTENDS Windows, FiniteSetsExt

CONSTANTS SessionTimeout,  \* session_timeout_seconds (60)
          SessionLimit     \* sessions below which nothing is pruned (500)

ASSUME SessionAssumption == SessionTimeout \in Nat /\ SessionLimit \in Nat

\* Mutant: all conversations of two hosts share one session.
KeyOfHosts(f) == <<{f.src, f.dst}, f.proto>>

(***************************************************************************)
(* The key of a conversation is the same for both directions: the set of   *)
(* its two ends.  (The code orders the pair; nothing else uses the order.) *)
(***************************************************************************)
Key(f) == <<{<<f.src, f.sport>>, <<f.dst, f.dport>>}, f.proto>>

\* The first flow decides who is the client: SYN, SYN-ACK, else the ports.
SourceIsClient(f) ==
  IF "SYN" \in f.flags THEN "ACK" \notin f.flags ELSE f.sport >= f.dport

NewSession(f, ts) ==
  LET fwd == SourceIsClient(f) IN
  [client |-> IF fwd THEN <<f.src, f.sport>> ELSE <<f.dst, f.dport>>,
   server |-> IF fwd THEN <<f.dst, f.dport>> ELSE <<f.src, f.sport>>,
   sent |-> IF fwd THEN f.bytes ELSE 0,
   received |-> IF fwd THEN 0 ELSE f.bytes,
   clientFlags |-> IF fwd THEN f.flags ELSE {},
   serverFlags |-> IF fwd THEN {} ELSE f.flags,
   first |-> ts, last |-> ts, status |-> "UNANSWERED"]

\* handshake_status after a flow that joined an existing session.
Handshake(s, proto) ==
  IF proto # 6 THEN s.status
  ELSE IF "RST" \in s.clientFlags \cup s.serverFlags THEN "RESET"
  ELSE IF \/ "SYN" \in s.clientFlags /\ {"SYN", "ACK"} \subseteq s.serverFlags
          \/ s.received > 0
       THEN "ESTABLISHED"
  ELSE s.status

Joined(s, f, ts) ==
  LET fwd == s.client = <<f.src, f.sport>>
      new == [s EXCEPT !.last = IF ts > @ THEN ts ELSE @,
                       !.first = IF ts < @ THEN ts ELSE @,
                       !.sent = IF fwd THEN @ + f.bytes ELSE @,
                       !.received = IF fwd THEN @ ELSE @ + f.bytes,
                       !.clientFlags = IF fwd THEN @ \cup f.flags ELSE @,
                       !.serverFlags = IF fwd THEN @ ELSE @ \cup f.flags]
  IN [new EXCEPT !.status = Handshake(new, f.proto)]

\* Only a full table is pruned, by the timestamp of the flow at hand.
Pruned(table, ts) ==
  IF Cardinality(DOMAIN table) < SessionLimit THEN table
  ELSE LET live == {k \in DOMAIN table : table[k].last >= ts - SessionTimeout}
       IN [k \in live |-> table[k]]

\* ingest_flow
Stitched(table, f, ts) ==
  LET kept == Pruned(table, ts) IN
  Put(kept, Key(f), IF Key(f) \in DOMAIN kept THEN Joined(kept[Key(f)], f, ts)
                    ELSE NewSession(f, ts))

(***************************************************************************)
(* bytes_ratio is sent / received, or sent itself when nothing was         *)
(* received (1 when both are 0).  The code compares it with thresholds, so *)
(* it is kept as the fraction <<sent, received>> with that convention.     *)
(***************************************************************************)
BytesRatio(s) ==
  IF s.received > 0 THEN <<s.sent, s.received>>
  ELSE <<IF s.sent > 0 THEN s.sent ELSE 1, 1>>

Bidirectional(s) == s.sent > 0 /\ s.received > 0

\* get_aggregate_ratio: what a sent to b over what it got back, all sessions
\* between the two hosts seen from a.
AggregateRatio(table, a, b) ==
  LET out == {k \in DOMAIN table :
                 table[k].client[1] = a /\ table[k].server[1] = b}
      in == {k \in DOMAIN table \ out :
                 table[k].server[1] = a /\ table[k].client[1] = b}
      sum(ks, fld) == MapThenSumSet(LAMBDA k : table[k][fld], ks)
  IN BytesRatio([sent |-> sum(out, "sent") + sum(in, "received"),
                 received |-> sum(out, "received") + sum(in, "sent")])
=============================================================================
