---------------------------- MODULE TelemetryStore ----------------------------
(***************************************************************************)
(* The flows an operator can look at: SystemState.record_flows, the pulse  *)
(* of start_telemetry_broadcast and the websockets of ConnectionManager    *)
(* (api/state.py), and the storage behind ClickHouseAdapter                *)
(* (storage/clickhouse_adapter.py).                                        *)
(*                                                                         *)
(* Everything runs on one event loop: another task runs only where a send  *)
(* to a websocket is awaited.  Of the writes to the disk and the inserts   *)
(* into ClickHouse the outcome is open: an insert may be refused, or its   *)
(* answer lost after the server stored the rows.                           *)
(***************************************************************************)
EXTENDS ColumnBlocks, HuntQueries

CONSTANTS Scenes,      \* what may happen in a behaviour, see MCTelemetryStore
          Sample,      \* flows of a call that record_flows keeps (50)
          MaxRecent,   \* max_recent_flows (2000)
          Filters, Limits,  \* the queries asked
          Hunts        \* hunting queries, as pairs of a tree and its text

VARIABLES scene,     \* the possibilities of this behaviour (never changes)
          store,     \* columnar_storage, or the adapter's local_storage
          server,    \* rows in ClickHouse
          connected, \* the adapter's is_connected
          recent,    \* recent_flows
          period,    \* the counters of the period: [flows, bytes, packets]
          peers,     \* of each websocket: "away", "here", or "broken"
          active,    \* active_connections
          tasks,     \* the broadcasts, by number: [todo, dead, start, ended]
          pulsing,   \* number of the broadcast the pulse waits for, 0 if none
          log        \* history: kept, gone, files, calls, restarts, pulses, recorded, heard

vars == <<scene, store, server, connected, recent, period, peers, active, tasks,
          pulsing, log>>

NoTraffic == [flows |-> 0, bytes |-> 0, packets |-> 0]
Traffic(rows) == [flows |-> Len(rows),
                  bytes |-> FoldLeft(LAMBDA n, r : n + r.bytes, 0, rows),
                  packets |-> FoldLeft(LAMBDA n, r : n + r.packets, 0, rows)]
Plus(a, b) == [k \in DOMAIN a |-> a[k] + b[k]]

Init == /\ scene \in Scenes
        /\ store = NewStorage(<<>>) /\ server = <<>> /\ connected = scene.cluster
        /\ recent = <<>> /\ period = NoTraffic
        /\ peers = [c \in scene.clients |-> "away"] /\ active = {}
        /\ tasks = <<>> /\ pulsing = 0
        /\ log = [kept |-> <<>>, gone |-> 0, files |-> <<>>, calls |-> <<>>, restarts |-> 0,
                  pulses |-> NoTraffic, recorded |-> NoTraffic,
                  heard |-> [c \in scene.clients |-> <<>>]]

Sockets == <<peers, active, tasks, pulsing>>
-----------------------------------------------------------------------------
(* The flows *)

LastOf(s, most) == SubSeq(s, Len(s) - Min({Len(s), most}) + 1, Len(s))

(***************************************************************************)
(* record_flows: the counters, a sample of the call for the explorer, and  *)
(* every flow into the memory-only storage.                                *)
(***************************************************************************)
RecordFlows(rows) ==
  /\ Len(log.calls) < scene.calls
  /\ period' = Plus(period, Traffic(rows))
  /\ recent' = LastOf(recent \o SubSeq(rows, 1, Min({Len(rows), Sample})), MaxRecent)
  /\ store' = AppendAll(store, rows, FALSE, TRUE)
  /\ log' = [log EXCEPT !.kept = @ \o rows, !.recorded = Plus(@, Traffic(rows)),
                        !.calls = Append(@, [rows |-> Len(rows), copies |-> 1])]
  /\ UNCHANGED <<scene, server, connected, Sockets>>

\* Mutant: rows that the cluster stored are stored here as well.
GoesLocalAlways(insert) == TRUE
\* Does a batch go to the local storage?
GoesLocal(insert) == ~connected \/ insert # "stored"

\* The files a call wrote until the storage is s: those of the blocks it froze,
\* and the one that could not be written.
FilesWritten(s) ==
  LET file(b, whole) == [by |-> log.restarts, block |-> b, whole |-> whole]
      froze == SubSeq(s.frozen, Len(store.frozen) + 1, Len(s.frozen))
  IN [i \in DOMAIN froze |-> file(froze[i], TRUE)]
     \o (IF s.raised /\ Packable(s.active) THEN <<file(s.active, FALSE)>> ELSE <<>>)

(***************************************************************************)
(* ingest_batch: into the cluster while it is connected, which it is until *)
(* the first failure, else into the local storage, whose rows get the time *)
(* of the call.  A rotation that raises leaves the rest of the batch out.  *)
(***************************************************************************)
IngestBatch(rows, insert, writes) ==
  LET stamped == [i \in DOMAIN rows |-> [rows[i] EXCEPT !.ts = 50 + Len(log.calls)]]
      local == AppendAll(store, stamped, scene.persistent, writes)
      taken == TotalFlows(local) - TotalFlows(store)
  IN /\ Len(log.calls) < scene.calls
     /\ connected \/ insert = "refused"
     /\ connected' = (connected /\ insert = "stored")
     /\ server' = IF connected /\ insert # "refused" THEN server \o rows ELSE server
     /\ store' = IF GoesLocal(insert) THEN local ELSE store
     /\ log' = [log EXCEPT
          !.kept = IF GoesLocal(insert) THEN @ \o SubSeq(stamped, 1, taken) ELSE @,
          !.files = IF GoesLocal(insert) /\ scene.persistent
                    THEN @ \o FilesWritten(local) ELSE @,
          !.calls = Append(@, [rows |-> Len(rows),
             copies |-> IF store'.raised THEN 0 ELSE IF insert = "lost" THEN 2 ELSE 1])]
     /\ UNCHANGED <<scene, recent, period, Sockets>>

\* The process dies; the next one starts with empty blocks on the same disk.
Restart(reachable) ==
  /\ log.restarts < scene.restarts
  /\ store' = NewStorage(store.disk)
  /\ connected' = (reachable /\ scene.cluster)
  /\ log' = [log EXCEPT !.kept = <<>>, !.gone = @ + TotalFlows(store), !.restarts = @ + 1]
  /\ UNCHANGED <<scene, server, recent, period, Sockets>>
-----------------------------------------------------------------------------
(* The websockets *)

Connect(c) ==
  /\ peers[c] = "away"
  /\ peers' = [peers EXCEPT ![c] = "here"] /\ active' = active \cup {c}
  /\ UNCHANGED <<scene, store, server, connected, recent, period, tasks, pulsing, log>>

\* The browser is gone; then its endpoint's receive_text raises.
Break(c) ==
  /\ peers[c] = "here" /\ peers' = [peers EXCEPT ![c] = "broken"]
  /\ UNCHANGED <<scene, store, server, connected, recent, period, active, tasks,
                 pulsing, log>>
Disconnect(c) ==
  /\ peers[c] = "broken" /\ c \in active /\ active' = active \ {c}
  /\ UNCHANGED <<scene, store, server, connected, recent, period, peers, tasks,
                 pulsing, log>>

\* broadcast_json up to its first await: a copy of the connections.
Begin(to) == Append(tasks, [todo |-> to, dead |-> {}, start |-> to, ended |-> FALSE])

\* on_security_alert creates a task that sends the alert.
BroadcastAlert ==
  /\ Len(tasks) < scene.broadcasts
  /\ tasks' = Begin(active)
  /\ UNCHANGED <<scene, store, server, connected, recent, period, peers, active,
                 pulsing, log>>

\* The counters after a moment of the pulse.
PeriodAfter(moment) == IF moment = "sampled" THEN NoTraffic ELSE period

(***************************************************************************)
(* A turn of start_telemetry_broadcast: sampled and cleared, then sent; an *)
(* empty broadcast returns at once.                                        *)
(***************************************************************************)
Pulse ==
  /\ pulsing = 0 /\ Len(tasks) < scene.broadcasts
  /\ tasks' = Begin(active) /\ pulsing' = Len(tasks) + 1
  /\ period' = PeriodAfter("sampled")
  /\ log' = [log EXCEPT !.pulses = Plus(@, period)]
  /\ UNCHANGED <<scene, store, server, connected, recent, peers, active>>

\* Mutant: the set is not copied, and a change of it ends the loop.
StillToSend(t) == IF active = t.start THEN t.todo ELSE {}
\* The connections that a broadcast has still to send to.
Remaining(t) == t.todo

SendTo(m, c) ==
  /\ c \in Remaining(tasks[m])
  /\ tasks' = [tasks EXCEPT ![m].todo = @ \ {c},
                            ![m].dead = IF peers[c] = "here" THEN @ ELSE @ \cup {c}]
  /\ log' = IF peers[c] = "here" THEN [log EXCEPT !.heard[c] = Append(@, m)] ELSE log
  /\ UNCHANGED <<scene, store, server, connected, recent, period, peers, active, pulsing>>

\* The end of broadcast_json: what could not be sent to is dropped.
EndBroadcast(m) ==
  /\ ~tasks[m].ended /\ Remaining(tasks[m]) = {}
  /\ active' = active \ tasks[m].dead
  /\ tasks' = [tasks EXCEPT ![m].todo = {}, ![m].dead = {}, ![m].ended = TRUE]
  /\ pulsing' = IF pulsing = m THEN 0 ELSE pulsing
  /\ period' = IF pulsing = m THEN PeriodAfter("sent") ELSE period
  /\ UNCHANGED <<scene, store, server, connected, recent, peers, log>>

Next == \/ \E rows \in scene.recorded : RecordFlows(rows)
        \/ \E rows \in scene.batches, insert \in {"stored", "refused", "lost"},
              writes \in BOOLEAN : IngestBatch(rows, insert, writes)
        \/ \E reachable \in BOOLEAN : Restart(reachable)
        \/ \E c \in scene.clients : Connect(c) \/ Break(c) \/ Disconnect(c)
        \/ BroadcastAlert \/ Pulse
        \/ \E m \in DOMAIN tasks : EndBroadcast(m) \/ \E c \in tasks[m].todo : SendTo(m, c)

Spec == Init /\ [][Next]_vars
-----------------------------------------------------------------------------
\* A bound of time that is null is none; nothing is null itself.
Wanted(r, f) ==
  \A k \in DOMAIN f :
    CASE k \in {"start", "end"} /\ f[k] = Null -> TRUE
      [] k = "start" -> f[k] <= r.ts [] k = "end" -> r.ts <= f[k]
      [] k = "min_bytes" -> f[k] <= r.bytes [] OTHER -> r[k] = f[k]

Sums(groups) ==
  [k \in {"flows", "bytes", "packets"} |->
     MapThenSumSet(LAMBDA g : groups[g][k], DOMAIN groups)]

(***************************************************************************)
(* Pruning loses nothing: whatever was appended, in whatever order of time *)
(* and ports, blocks rotated or stuck in between, a query returns the      *)
(* first rows that satisfy its filter, in the order they came, and the     *)
(* three aggregates account for every row, the active block's included     *)
(* (columnar.py:66-96, 369-441, 443-512).                                  *)
(***************************************************************************)
AnswersAreExact ==
  /\ \A f \in Filters, limit \in Limits :
       LET wanted == SelectSeq(log.kept, LAMBDA r : Wanted(r, f))
       IN Query(store, f, limit) = SubSeq(wanted, 1, Min({limit, Len(wanted)}))
  /\ \A groups \in {Protocols(store), Timeline(store),
                    [i \in DOMAIN TopTalkers(store, 100) |-> TopTalkers(store, 100)[i]]} :
       Sums(groups) = Traffic(log.kept)

(***************************************************************************)
(* A block that was frozen reads back from its file, rows, names and zone  *)
(* map alike, whatever rotations raised before it and whatever files an    *)
(* earlier process or a failed write left, until the file is written       *)
(* again; and only another process writes it again                         *)
(* (columnar.py:148-285, 348-360).  That other processes do is a limit of  *)
(* the code: it promises blocks that are immutable on the disk (:293), but *)
(* a restarted storage opens no file and begins at block 0 again (:302),   *)
(* so the blocks of the process before last as long as it gets no further. *)
(***************************************************************************)
FilesReadBack ==
  \A i \in DOMAIN log.files :
    LET file == log.files[i]
        again == {j \in i + 1..Len(log.files) : log.files[j].block.id = file.block.id}
        onDisk == store.disk[file.block.id]
    IN file.whole =>
         /\ \A j \in again : file.by < log.files[j].by
         /\ again = {} => onDisk # Torn /\ Deserialized(onDisk) = file.block

(***************************************************************************)
(* A batch that was ingested is stored once, in the cluster or here; twice *)
(* only if the cluster stored it and the answer was lost; a call that      *)
(* raised may have stored some of it (clickhouse_adapter.py:97-134).       *)
(***************************************************************************)
IngestedOnce ==
  LET stored == Len(server) + TotalFlows(store) + log.gone
      least == FoldLeft(LAMBDA n, c : n + c.copies * c.rows, 0, log.calls)
      most == FoldLeft(LAMBDA n, c : n + (IF c.copies = 0 THEN 2 ELSE c.copies) * c.rows,
                       0, log.calls)
  IN least <= stored /\ stored <= most

PulsesAddUp == Plus(log.pulses, period) = log.recorded

BroadcastsArrive ==
  /\ \A c \in scene.clients :
       /\ peers[c] = "here" => c \in active
       /\ \A i, j \in DOMAIN log.heard[c] : log.heard[c][i] = log.heard[c][j] => i = j
  /\ \A m \in DOMAIN tasks :
       tasks[m].ended =>
         \A c \in tasks[m].start : peers[c] = "here" => m \in ToSet(log.heard[c])

(***************************************************************************)
(* What the pulses published and what the running period holds add up to   *)
(* what was recorded, flows that arrive while a pulse is being sent        *)
(* included (state.py:88-96, 146-165).  And while connections come, break  *)
(* and go during any number of broadcasts, no client that is there is      *)
(* dropped, and a broadcast that ended reached once every client that was  *)
(* there all along (state.py:30-52).                                       *)
(***************************************************************************)
EveryClientHears == PulsesAddUp /\ BroadcastsArrive

RECURSIVE Meaning(_, _)
Meaning(tree, r) ==
  CASE tree.op = "and" -> Meaning(tree.left, r) /\ Meaning(tree.right, r)
    [] tree.op = "or" -> Meaning(tree.left, r) \/ Meaning(tree.right, r)
    [] tree.op = "not" -> ~Meaning(tree.arg, r)
    [] OTHER -> r \in tree.rows

(***************************************************************************)
(* A hunting query finds the flows it means: not binds tighter than and,   *)
(* and than or, parentheses overrule both, and each condition selects the  *)
(* flows of its field, operator and value (hunting.py:220-291).            *)
(***************************************************************************)
HuntsAreBoolean ==
  log.calls # <<>> =>
    \A h \in Hunts :
      Hunt(h.text, recent, 100) = SelectSeq(recent, LAMBDA r : Meaning(h.tree, r))
=============================================================================
