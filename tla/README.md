# A formal model of NovaFlow

NovaFlow collects flow records (NetFlow v5, v9, IPFIX) from routers, analyses
them in several processes, turns what it finds into alerts, correlates alerts
into campaigns, notifies webhooks, stores flows and shows all of it through an
API. This directory holds TLA+ models of the parts of it in which order,
concurrency, failure or long histories decide whether the program is right, the
TLC configurations that check them on small instances, and proofs that TLAPS
checks.

Source paths below are relative to the repository's root. `PROJECT.json` maps
every definition to the lines it models, and lists each hazard with the
properties that watch it.

Contents: 1 the system; 2 the modules; 3 the runs; 4 fairness; 5 the proofs;
6 abstractions and bounds; 7 disagreements between code and documents; 8 what is
not modelled; 9 the plan; 10 how to run it.

## 1. The system

Datagrams come in at the left, alerts leave at the right.

    routers --UDP--> server.py --> WireSpeedPipeline --ring--> worker processes
                        |              (pipeline.py)              parser, engine
                        | without a pipeline                          |
                        v                                             v
              ClickHouseBatchFlusher                            alert_queue
                  (storage.py)                                        |
                        |                                             v
                        +--> DetectionEngine.analyze_flow  (engine.py)
                        |       |-- sessions, profiles, roles (biflow.py, profiler.py)
                        |       |-- flow rules                (detector/rules, eta.py, sigma_engine.py)
                        |       |-- indicators                (bloom_threat_intel.py, rules/threat_intel.py)
                        |       +-- payloads                  (l7_parsers.py, tls_parser.py, ja4.py, rules)
                        +--> DetectionEngine._record_alert
                                |-- listener of the dashboard (api/state.py)
                                |-- attack graph              (graph.py)
                                |-- webhooks and dead letters (dispatcher.py)
                                |-- entity ledger             (entity.py)
                                |-- Bayesian campaign engine  (campaign_correlator.py)
                                |-- ClickHouse
                                +-- kill-chain correlator     (correlator.py)

    analysts --HTTP--> rate limiter --> routes --> alerts, cases, ledger, audit log
                                          |------> columnar storage, hunting language
    protected application <-- SaaS shield +------> websockets of the dashboard

    worker pool --> adaptive batcher --> Kafka buffer     (an ingestion path beside the first)

| component | state | operations | interacts by | what is hard | what makes it correct |
|---|---|---|---|---|---|
| shared-memory ring (`collector/ring_buffer.py`) | header words, slots | `write`, `read`, `read_batch`, `clear` | memory shared by two processes, no common lock | words cleared, then stored and loaded byte by byte; wrap-around; full ring | whole packets, in order, once, none hidden for good |
| wire-speed pipeline (`collector/pipeline.py`) | rings, workers, `stats_dict`, `alert_queue`, counters | `start`, `submit_packet`, `get_alerts`, `stop`, the worker's loop | rings, a multiprocessing queue, an Event, a Manager | workers that die, `join` timeouts, a queue's feeder thread | every datagram and alert accounted for, `stop` ends, one worker per conversation |
| batch flusher (`collector/storage.py`) | asyncio queue, local batch, counters | `enqueue`, the task, `_flush_batch`, `stop` | event loop; HTTP requests in threads | cancellation at an await; a request given up but applied; eviction | no record stored twice, each one somewhere, batches in order |
| flow decoder (`collector/parser.py`, `netflow_v9.py`) | template cache of each process | `parse_packet`, `register_template` | datagrams | loss, repetition, reordering, a template redefined, datagrams cut at the slot | records read with the template of their exporter, or of one with its domain id; all of them |
| worker pool, adaptive batcher, Kafka buffer (`collector/worker_pool.py`, `adaptive_batcher.py`, `kafka.py`) | two queues, a local batch, a fallback list, counters | `submit_packet`, `enqueue_batch`, the loop, `stop`, `publish_flows` | callbacks on one event loop | a timeout that races an arrival, a callback that raises, cancellation | counters add up, newest survive in order, nothing waits for ever |
| bi-flow stitcher, profiler (`detector/biflow.py`, `profiler.py`) | sessions; clients, targets, roles, accumulators | `ingest_flow`, pruning, `observe_flow` | called for every flow, read by the rules | late flows, roles given for good | two sides kept apart, over pruning too; roles earned |
| flow rules (`detector/rules`, `eta.py`, `sigma_engine.py`) | a sliding window and a last alert per key | `analyze_flow` | called in order for every flow | two clocks, cooldowns, stale entries | each alerts exactly when its window says so |
| payload rules and parsers (`l7_parsers.py`, `tls_parser.py`, `dga.py`, `ja4.py`, `web_threat.py`, `ad_threat.py`) | windows per source or domain | `evaluate_*` | called for a flow with a payload | compression pointers, early returns | the same, and names and fingerprints read as written |
| indicators (`bloom_threat_intel.py`, `rules/threat_intel.py`) | counting Bloom filter, table | `add_ioc`, `remove_ioc`, feeds, `analyze_flow` | API routes, engine | counters shared and saturated, addresses given twice | the filter never hides an indicator |
| attack graph (`detector/graph.py`) | nodes, edges, timeline | flows, alerts, patient zero, blast radius | engine, API | alerts out of order | hosts blamed for what was recorded; searches find shortest paths |
| alert recording (`detector/engine.py`, `api/state.py`) | history, listeners | `analyze_flow`, `_record_alert`, `on_security_alert` | calls into all components above | recording an alert raises alerts | observers agree, the result is complete |
| Bayesian campaign engine (`campaign_correlator.py`) | cases; case of each asset | `ingest_alert`, status update | called by engine and dashboard, an instance each | stale pointers from assets to old cases; odds near 1 | cases follow from their alerts; evidence only grows |
| kill-chain correlator (`correlator.py`) | history of each source, stage sets raised | `process_alert` | called by the engine | times that flows carry, out of order | histories are windows but for late alerts; one campaign for each set of stages |
| SOAR dispatcher (`dispatcher.py`) | subscriptions, dead letters, containments | register, delete, `dispatch_alert`, `retry_dlq` | HTTP to endpoints; API routes | endpoints that fail; retries; deletion in between | no alert lost, none answered twice |
| entity ledger (`entity.py`, `dhcp_tracker.py`) | entities; indexes by IP, MAC, host name | `get_or_create`, `reassign_ip_lease`, `record_alert` | DHCP events, engine, dashboard | an IP that changes owner | a machine known by its MAC keeps its identity; scores are decayed sums |
| columnar storage and adapter (`storage/*.py`) | blocks, zone maps, files; a connection | append, rotate, query, aggregates, `ingest_batch` | engine, API, disk, cluster | rotations that raise, lost answers, restarts | pruning loses nothing, a file reads back as the last block written to it, batches stored once |
| hunting language (`detector/hunting.py`) | none | tokenize, parse, evaluate | API | precedence, missing fields | a query means what it says |
| dashboard (`api/state.py`, `routes/ws.py`) | recent flows, counters of the period, connections | `record_flows`, pulse, broadcast | event loop | awaits between connections | every client there hears every message once |
| API gateway (`api/security`, `routes/alerts.py`) | windows per client, audit log | `dispatch`, list, update status | HTTP | requests overlap; offsets shift | limits exact, audit tells the status, walks miss nothing |
| SaaS shield (`collector/saas_middleware.py`) | blocked addresses, a thread | block, unblock, fetch, a request | HTTP to the API | errors, refusals by the limiter | blocks what is contained, in the end, and nothing else |

Section 8 has the components that are not modelled.

## 2. The modules

| module | models | state and actions |
|---|---|---|
| `BoundedFifo` | what a ring promises, abstractly: a bounded queue whose producer never waits | `Put`, `Refuse`, `Get`, `Clear` |
| `SharedRing` | `ring_buffer.py`, a step for each digit of a word and each part of a slot | `CallWrite`, `CheckRoom`, `StorePrefix`, `StorePayload`, `ClearHead`, `StoreHeadLo`, `StoreHeadHi` make up `write`; `CallRead` ... `ClearTail`, `StoreTailLo`, `StoreTailHi` make up `read_batch` (`read` is a batch of 1); `Clear` |
| `SharedRingProofs` | the theorems about `SharedRing`, the refinement of `BoundedFifo` included | |
| `WirePipeline` | `pipeline.py`, `server.py` (datagram to ring) | parent: `Start`, `StartFails`, `Submit`, `GetAlerts`, `Stop`, `JoinEnded`, `Terminate`, `Cleanup`; worker: `LeaveLoop`, `ReadBatch`, `PollEmpty`, `Analyse`, `Feed`, `Fail`, `Sync`, `Finally`, `Exit` |
| `BatchFlusher` | `storage.py` | stretches between two awaits: `Enqueue`, `TakeRecord`, `WaitTimesOut`, `AnswerOk`, `AnswerRefused`, `NoAnswer`, `StopCancel`, `StopDrain`; environment: `Tick`, `Apply`, `OrphanEnds` |
| `AdaptiveIngest` | `worker_pool.py` -> `adaptive_batcher.py` -> `kafka.py`, joined by callbacks | `Submit`, `Work` (with `Enqueue`), `TogglePool`; the loop `Adjust`, `Get`, `Timeout`, `EndFlush` (with `Publish`); `Stop`, `FlushPending`, `Start`; `Tick` |
| `FlowDecoder` | `parser.py`, `netflow_v9.py` under exporters and a network | `Receive` is `parse_packet`; `Configure`, `ExportSets`, `ExportV5`, `Lose` are the world outside |
| `OrderedRecords` | what a bounded queue or buffer keeps of numbered records | (operators) `LastOf`, `Those` |
| `DataLemmas` | what the proofs need to know of data: induction, recursive functions, sums, sequences of records | (lemmas) |
| `WirePipelineProofs`, `BatchFlusherProofs`, `AlertPipelineProofs` | the theorems about the module each is named after | |
| `CollectorProofs` | the theorems about `FlowDecoder` and about `AdaptiveIngest` | |
| `DetectionProofs` | the theorems about `CampaignEngine`, `IntelGraph` and `FlowEngine` | |
| `ApiGatewayProofs` | the theorems about `ApiServer`: those of `ApiGateway` and those of `EntityLedger` | |
| `Windows` | tables, windows and cooldowns that all rules share | (operators) |
| `BiFlows`, `HostRoles` | `biflow.py`, `profiler.py` | (operators) `Stitched` is `ingest_flow`, `Profiled` the profiler |
| `WindowRules` | the flow rules and `eta.py` | (operators) `PortScan`, `SynFlood`, `Exfiltration`, `DnsTunnel`, `Beaconing`, `LateralMovement`, `EncryptedTraffic`, `EastWest` |
| `FlowEngine` | `analyze_flow` up to the payloads; `sigma_engine.py` | `Analyze` is one flow through sessions, profile and every rule in the code's order; `LoadRule` |
| `PayloadParsers`, `PayloadRules` | parsers of DNS, TLS, Kerberos, DCE/RPC, HTTP; the rules over them | (operators) |
| `PayloadEngine` | `_inspect_l7_flow` | `Inspect` |
| `BloomIntel`, `AttackGraph` | `bloom_threat_intel.py`, `graph.py` | (operators) |
| `IntelGraph` | both at work, with `rules/threat_intel.py` and the routes | `Flow`, `OtherAlert`, `AddCustomIoc`, `RemoveCustomIoc`, `SyncFeed` |
| `CampaignCases`, `KillChain`, `SoarQueue` | the computations of `campaign_correlator.py`, `correlator.py`, `dispatcher.py` | (operators) `Ingest`, `Correlate`; `Register`, `Delete`, `Dispatch`, `RetryItems` |
| `CampaignEngine` | the Bayesian engine by itself | `IngestAlert`, `UpdateStatus`, `Advance` |
| `AlertPipeline` | `_record_alert` and all it calls, composing the three and two campaign engines; calls in progress are a stack | `AnalyzeFlow`, `NextAlert`, `Record`, `DispatchAlert`, `CorrelateCase`, `Persist`, `CorrelateChain`, `Return`; routes `RegisterWebhook`, `DeleteWebhook`, `RetryDlq`, `UpdateCase`; `Tick` |
| `EntityLedger` | `entity.py` under DHCP leases and alerts | `Lease`, `RecordAlert`, `HalfLife` |
| `ColumnBlocks`, `HuntQueries` | `columnar.py`, `hunting.py` | (operators) `AppendFlow`, `Rotated`, `Query` and the aggregates; `Tokens`, `Parse`, `Hunt` |
| `TelemetryStore` | `record_flows`, pulse and websockets of `api/state.py`; `clickhouse_adapter.py` over `ColumnBlocks` | `RecordFlows`, `IngestBatch`, `Restart`, `Connect`, `Break`, `Disconnect`, `BroadcastAlert`, `Pulse`, `SendTo`, `EndBroadcast` |
| `ApiGateway` | limiter, alert routes, audit log, SaaS shield | `Tick`, `AskPage`, `AskUpdate`, `Answer`, `Raise`; `Contain`, `Fetch`, `Add`, `BlockIp`, `UnblockIp`, `Arrive`, `Finish` |
| `ApiServer` | the two behind one next-state relation | a step of `ApiGateway` or of `EntityLedger`, never of both |

`MC*` modules give values to constants that a `.cfg` cannot write down.
`ApiGateway` and `EntityLedger` share no variable, so a behaviour of `ApiServer`
moves one of them; nothing is claimed about the two together.

How the modules meet: a rule's `alerts` (in `FlowEngine`, `PayloadEngine`,
`IntelGraph`) are the sets of alerts from which `AlertPipeline!AnalyzeFlow`
takes its input; `WirePipeline` uses a bounded queue where the code has a ring.
`SharedRingProofs` proves that the ring, byte stores and all, implements that
queue. Two effects of torn words show through: a read may find fewer packets than
there are, so `ReadBatch` takes any number of them; and a write may drop a packet
although the ring is not full, whereas `WirePipeline` drops only when the queue
is full, since no property of it depends on how full the ring was at a drop.

**How a word is modelled.** `struct.pack_into("!Q")` clears the eight bytes, then
stores the least significant byte first and moves up; `unpack_from` loads the most
significant byte first and moves down (CPython's `s_pack_internal` and the loops of
`Modules/_struct.c`). `SharedRing` keeps two digits in base `Base` for the eight
bytes, one step each, and clearing a word is a step before (`ClearHead`,
`ClearTail`). The digits stand for the bytes on either side of the boundary that a
carry crosses. Everything the ring guarantees comes from these orders: a load that
is overtaken by a store sees an old or cleared high digit and an old, cleared or new
low digit, and so never a position beyond the published one. The lock in the object excludes nothing
between processes, as each makes its own; `oneHandle`, chosen at the start, tells
this use from threads that share an object.

**Scenes.** `FlowEngine`, `PayloadEngine` and `TelemetryStore` choose at the
start which kind of traffic a behaviour has (`scene` or `traffic`, never changed
after). A scene holds the flows that concern one or two rules, in every order and
with every gap; flows of unrelated rules touch disjoint keys and would only
multiply states.

**History variables** (`delivered`, `epoch`, `analysed`, `gone`, `told`, `rivals`,
`done`, `said`, `log`, `leases`, `walk.must`, `offered`, `handed`, `lost`, `came`,
`promise`, and some counters) record what happened and influence no step other than through bounds.

## 3. The runs

Each run ends within about three minutes with two workers. `CHECK_DEADLOCK FALSE` stands in the
configurations of specifications in which a behaviour may really end: when the
bounds are used up, or after `stop`. `ring` and `ingest` check deadlock.

| run | checks | instance, and why it is enough |
|---|---|---|
| `ring` | `IInv` `ReadsAreExact` `ImplementsFifo` `EveryPacketDelivered` | both kinds of locking; capacity 3, base 2, batches of 1 to 3, 9 writes, 2 drops: three laps around the slots, carries inside and at the ends of laps, as 3 and 2 have no common factor |
| `pipeline` | `NothingUncounted` `SamePairSameWorker` `WorkersFinish` | 2 workers, rings of 2, batches of 2, queue of 2 and pipe of 1, 4 of three datagrams in which two conversations are mixed, 2 calls of `start`: full ring, full queue, blocked feeder, dead worker and restart all occur, and a worker that raises while two of its alerts fill the pipe and the feeder, with a fourth datagram in its ring |
| `flusher` | `NothingVanishes` `StoredInOrder` `FlusherProgresses` | queue of 2, batches of 2, 4 records, up to 3 in a datagram: eviction, full and partial batches, two requests in flight after `stop`, a request applied after the next one |
| `ingest` | `RecordsAreAccounted` `NewestInOrder` `EveryRecordLeaves` | queue of 3 with watermarks 1 and 3, batches of 2 to 3, fallback of 2, datagrams of 0 to 3 records, 5 records, 1 `stop`: overflow while a batch is out, both watermarks, a callback that raises, a restart |
| `decoder` | `OwnTemplateOnly` `ReadAsWritten` | a router of each version and a second IPFIX router with the domain id of the first, a layout with padding and two vendor's fields that have the numbers of a field before and of one behind, 2 workers, 3 datagrams, 2 on their way: a template redefined between two data sets by its router or by the other, a set cut at the slot's end |
| `engine` | `AlertsMatchHistory` `ExemptionIsEarned` `SessionsKeepSides` | seven scenes, 4 flows, gaps of 0, 1 and 3, windows of 1 to 4 and cooldowns of 3 and 4: an event exactly as old as its window, alerts inside and after a cooldown, late timestamps, sessions pruned and begun anew from either side, a download that the session takes for an upload and the reverse |
| `payload` | `RulesMatchHistory` `NamesAreRead` `ImplantIsRecognised` | nine scenes of 2 to 5 payloads; messages of up to 3 questions over 3 names that share suffixes, cut at every cell; every order of ciphers and extensions with a reserved value |
| `intel` | `FilterIsExact` `CompromiseIsExplained` `SearchesAreShortest` | 3 hosts whose hashes overlap in pairs, 3 counters of at most 2: saturation, removal of a saturated slot, removal twice; 2 flows, late by 3, 1 alert of another rule, an analyst's indicator of confidence 0: alerts out of order, victims that answer, a host compromised at no risk |
| `campaign` | `CasesMatchHistory` `EvidenceGrows` | 3 hosts, 5 alerts to choose from, 4 alerts, window 1, clock to 3: cases age, assets move between cases, escalations and clamped odds occur |
| `alerts` | `DashboardMirrorsEngine` `ReturnedIsComplete` `AnsweredOrQueued` `CampaignsAreEarned` | 2 flows of 1 or 2 alerts, stamped by the clock or by the flow, 3 ticks behind it to 2 ahead, also within one flow, with a window of 1; 5 events in any order, 1 webhook: up to three nested recordings, late alerts, dead letters retried and orphaned |
| `telemetry` | `AnswersAreExact` `FilesReadBack` `IngestedOnce` `EveryClientHears` `HuntsAreBoolean` | blocks of 2 rows, five rows out of order in time and ports, one of which cannot be packed; 4 batches with a restart, with and without disk and cluster; 2 websockets and 2 broadcasts; 20 filters on and beside every bound, four with a null; trees of up to three conditions |
| `api` | `LimiterIsExact` `AuditTellsStatus` `WalksMissNothing` `LedgerIsExact` `ShieldIsJust` | limit 2, window 1, history of 2, log of 2, pages of 1, 3 alerts, 3 requests, 2 at a time, four identities, of which one has no right to update and one another tenant; 2 hosts contained, blocked and unblocked; ledger: 2 IPs, 2 MACs, a host name, 4 leases, 2 alerts, 1 half-life |

What they show, in words:

- **Ring.** Without a lock between the processes, a read never returns a packet
  that is torn or old, packets come out in the order they went in and once, and an
  accepted packet is delivered for certain. A stale, torn or cleared word only makes
  the producer drop too early or the consumer read too late.
- **Pipeline.** At every moment each datagram is in exactly one place and each
  alert holds a slot, was fetched, or was refused. `stop` ends whatever the
  workers are doing, a blocked feeder thread included, because `join` has a
  timeout and `terminate` follows it. A ring that holds packets is drained, with two
  exceptions that the property names: its worker has ended or was killed (one that
  raised is not restarted), or it is on its way out and holds alerts that its feeder
  thread cannot get rid of, as the pipe is full and nobody fetches. `stop` ends that
  one as well.
- **Flusher.** A record is never stored twice and never disappears without
  a cause the model names: evicted by the bounded queue, refused with its batch,
  or dropped by `stop`. What waits in the queue is nowhere else, and
  `total_flows_inserted` never exceeds the rows ClickHouse holds. Batches are stored
  in the order of their records; only one whose caller gave up before ClickHouse
  applied it, by the timeout of five seconds or by `stop`, may come after a newer one.
- **Ingest.** Although a record is counted in one place and moved in another, with
  awaits in between, the counters of the batcher add up in every state; the queue
  is always the last run of what arrived, and what is handed on keeps the order.
  Records leave, however few come after them.
- **Decoder.** Records are read with the last template their exporter told that
  process, or not at all, whatever the network does, unless another exporter with the
  same domain id told it one of that number since. Of a set whose layout is the one
  the worker knows, whoever told it, every record comes out, and every field is read
  where it was written, but those a vendor's field with the same number overwrites.
- **Flow rules.** The eight rules that keep state answer as their definition over the
  whole history does: scans, floods, lateral movement, DNS tunnels and the two
  East-West rules exactly; beacons as long as their timestamps come in order;
  exfiltration exactly where the session's client is the host that sends, and
  elsewhere at least nothing is reported that is not due; TLS uploads of more than
  85% by the session's client, and TLS beacons, are never missed, and every report has
  the shape of one (section 7 has what the comments say of the last two). Sigma rules
  keep no state and are not compared. A session counts for each end what its flows
  carried, over pruning and a change of sides. Roles exempt only hosts whose flows
  earned them.
- **Payload rules.** The same for roasting, fast flux and the five web rules, whose
  early returns leave later windows unfed; compressed names are read as written; an
  implant's ClientHello is recognised whatever its order.
- **Indicators and graph.** The filter is exactly the table's until a counter
  saturates, and then hides only indicators that share a saturated counter. A host is
  blamed since its first alert, with the risk of the heaviest one, which is none if an
  analyst gave the indicator no confidence. Searches find shortest distances, and
  patient zero is one of the furthest a compromise can have come from, for a victim
  that no causal edges lead back to.
- **Kill chain.** A source's history is its window, except for alerts that came late,
  after a newer one; a campaign rests on two stages within the window unless one of
  them was late.
- **Alerts.** The dashboard's campaign engine shows what the engine's does between
  two flows, unless an analyst set a status or time passed inside a call, and it
  charges confirmed cases twice. No alert for a webhook is lost and no endpoint
  that answered gets it again.
- **Campaigns, ledger.** A case confirmed has two stages, two alerts and a
  posterior of 0.85; a MAC leads to one entity. A machine keeps the entity that it
  made or had by its MAC; a new MAC with a known host name or IP gets the entity
  that was there. An entity is found under the IP it was leased, until the IP or the
  entity is leased again, unless that lease found it by host name.
- **Storage.** Zone maps skip no matching row, whichever filters are null; a file on
  disk reads back as the last block that any process wrote to it, torn if that write
  failed, so that blocks of an earlier process are there exactly until the restarted
  one has come to their number; a batch is stored twice only if the cluster's answer
  was lost.
- **API.** The limiter lets through as many as its limit in every window and keeps
  the promise of `Retry-After`; pages read one after another miss no alert that was
  there at the first, as new ones only push it to later pages -- unless an alert leaves
  the status a walk filters by, which pulls older ones before the next offset;
  containments reach the shield in the end.

Every property of a passing run has a mutant in `PROJECT.json`: a plausible
error in one mapped definition that makes TLC find the property violated.
Mutated forms stand before the definition they replace, marked `Mutant:`.

## 4. Fairness

Liveness is checked only where the code's scheduling gives it:

- `SharedRing`: weak fairness of a call's own steps and of the consumer's calls,
  as the worker loop polls its ring without end. The producer owes nothing.
- `WirePipeline`: weak fairness of each worker's steps and of its queue's feeder
  thread (processes and threads are scheduled), and of `stop`, whose `join`
  has a timeout. `Fail` has none, and nobody is obliged to submit, fetch or stop.
- `BatchFlusher`: weak fairness of the task's and of `stop`'s steps (the event
  loop runs what is ready), of time, and of the timeout of a request
  (`requests.post(..., timeout=5.0)`). ClickHouse owes no answer.
- `AdaptiveIngest`: weak fairness of the loop at each await, of the callback's
  return, of the final flush and of time. The pool, arrivals, `stop` and
  `start` owe nothing.
- `ApiGateway`: weak fairness of time and of the shield's own steps; strong
  fairness of a fetch that is answered in time while the limiter admits it. The thread asks
  every two seconds and other clients may fill the window in between, so that weak
  fairness would promise nothing, and no fairness at all would let the API be
  unreachable for ever. That an admitted fetch succeeds again and again is an
  assumption about the network, and that it is admitted again and again one about the
  other clients of its address, who could keep the window full for ever.
- The other specifications state no fairness and claim no liveness.

`ImplementsFifo` is a safety statement.

## 5. The proofs

TLAPS proves, for **every** value of the constants the assumptions allow:

| module | theorem | says |
|---|---|---|
| `SharedRingProofs` | `RingInvariant` | `Spec => []IInv` |
| | `TypeCorrect` | `Spec => []TypeOK` |
| | `RingNeverOverruns` | `Spec => []NoOverrun`: the producer never fills a slot whose packet was not read |
| | `RingWindowFits` | `Spec => []WindowFits` |
| | `RingReadsAreExact` | `Spec => []ReadsAreExact` |
| | `RingImplementsFifo` | `Spec => ImplementsFifo`: the detailed ring implements `BoundedFifo` |
| `WirePipelineProofs` | `PipelineShape` | `Spec => []Shape`: what each phase of the parent says of rings and processes |
| | `NothingEverUncounted` | `Spec => []NothingUncounted` |
| | `SamePairAlwaysSameWorker` | `Spec => []SamePairSameWorker` |
| `BatchFlusherProofs` | `NothingVanishesAlways` | `Spec => []NothingVanishes` |
| | `StoredInOrderAlways` | `Spec => []StoredInOrder` |
| `CollectorProofs` | `DecoderInvariant` | `Spec => []DecoderInv` |
| | `OwnTemplateAlways` | `Spec => []OwnTemplateOnly` |
| | `ReadAlwaysAsWritten` | `Spec => []ReadAsWritten` |
| | `IngestInvariant` | `IngestSpec => []BatcherInv` |
| | `RecordsAlwaysAccounted` | `IngestSpec => []RecordsAreAccounted` |
| | `NewestAlwaysInOrder` | `IngestSpec => []NewestInOrder` |
| `AlertPipelineProofs` | `PipelineInvariant` | `Spec => []PipelineInv` |
| | `DashboardAlwaysMirrors` | `Spec => []DashboardMirrorsEngine` |
| | `ReturnedAlwaysComplete` | `Spec => []ReturnedIsComplete` |
| | `AnsweredOrQueuedAlways` | `Spec => []AnsweredOrQueued` |
| | `ChainInvariant` | `Spec => []ChainInv` |
| | `CampaignsAlwaysEarned` | `Spec => []CampaignsAreEarned` |
| `DetectionProofs` | `CasesAlwaysMatch` | `Spec => []CasesMatchHistory` |
| | `EvidenceAlwaysGrows` | `Spec => EvidenceGrows`: an action property |
| | `FilterStaysExact` | `IntelSpec => []FilterIsExact` |
| | `CompromiseAlwaysExplained` | `IntelSpec => []CompromiseIsExplained` |
| | `SearchesAlwaysShortest` | `IntelSpec => []SearchesAreShortest` |
| | `ExemptionAlwaysEarned` | `FlowSpec => []ExemptionIsEarned` |
| | `SessionsAlwaysKeepSides` | `FlowSpec => []SessionsKeepSides` |
| `ApiGatewayProofs` | `LimiterAlwaysExact` | `Spec => []LimiterIsExact` |
| | `AuditAlwaysTells` | `Spec => []AuditTellsStatus` |
| | `WalksNeverMiss` | `Spec => []WalksMissNothing` |
| | `AlwaysBlockedIsContained` | `Spec => []BlockedIsContained`, the safety half of `ShieldIsJust` |
| | `LedgerStaysExact` | `ServerSpec => []LedgerIsExact` |

The assumptions, which TLC evaluates in the runs: `RingAssumption` (`Capacity`
positive, `Base` at least 2, batch sizes positive, bounds natural numbers);
`PipelineAssumption` (at least one worker, capacities natural numbers, a v5 datagram
has a record and its pair a hash); `SizesPositive` of the flusher;
`IngestAssumption` (sizes positive, `MinBatch <= MaxBatch`, `High < Critical`, the
rest natural numbers); `DecoderAssumption` (versions 5, 9 and 10; domains may be
shared), `ConfigAssumption` (a router begins with templates of its own layouts) and
`LayoutAssumption` (a record is longer than the padding of a set; the decoder reads
the IANA fields of a layout and none of them twice, whereas a vendor's field may have any
number; a slot holds a v5 header); `NoAssetIsNone`; `WindowAssumption`
(the correlation window is a natural number) and `FlowsAssumption` (a flow gives a
sequence of alerts about known sources, and times are integers); `AlertsAssumption` of the campaign engine
(an alert has a severity of the table and known ends); `GatewayAssumption`
(limit, window, page and capacities positive, bounds natural numbers) and
`LedgerAssumption`; `HashAssumption` (an address has a sequence of slots, the limit of a
counter is a natural number, the seeds are finitely many addresses),
`FeedsAssumption` (a feed is a sequence of addresses), `HostsAreFinite` (there are
finitely many addresses) and `KindsAssumption` (severities are the four of `models.py`,
confidences are any integers, in hundredths, and no flow is so late that it has the
timestamp 0, which stands for "never"); `SessionAssumption` and `RoleNeedsAssumption`
(limits are natural numbers) and `ScenesAssumption` (so are the bytes of a flow).

**Data.** Several of the models compute with recursive functions and with the
folds of the community modules. `DataLemmas` has what the proofs need of
these: `Induction` and `InductionOnSets` state a property as the set of the values
that have it, which the provers can instantiate; `LoopExists` and `LoopKeeps` give
a recursive function on `0..n` and an invariant of it; `SumOfOneChange` and its
like are about `FoldFunction` with addition; the rest is about consecutive,
increasing and filtered sequences of numbers.

**Ring: why an invariant stronger than the properties.** `NoOverrun` and
`ReadsAreExact` are not inductive: they speak of what a call does now, and
whether that is right depends on a word it loaded earlier in two halves. `IInv`
adds what the locals still say of the shared memory:

- `WordsFollow`: a word in memory has the low digit of the position last
  published, or 0 while the word is cleared, and a high digit not ahead of it
  (a word is cleared before it is stored, from the low digit up);
- `ProducerLocals`, `ConsumerLocals`: a high digit that was loaded is not ahead
  of the high digit of the published position, which only grows;
- `WindowFits`, `WholePackets`: the published positions are at most one lap
  apart, and every slot between them is whole.

The lemma `TornLoad` carries the argument: a high digit not ahead of the position's,
put together with the position's present low digit, or with a cleared one, gives a
number that is not beyond the position. So the producer's `read_tail` is never too large
(it never sees room that is not there) and the consumer's `write_head` is never
too large (it never reads a slot not yet filled). Further lemmas: the arithmetic
of digits, distinct positions less than a lap apart have distinct slots, and
`AvailableBound`. `StepInv` has one lemma for each action, with a step for each
conjunct of `IInv`.

**Ring: the refinement.** The queue of `BoundedFifo` is the run of ordinals between
the two published positions, and what was taken are the ordinals delivered. A
position is published by the store of the *low* digit of its word, so of the
steps of `write` only `StoreHeadLo` is a `Put`, of those of `read_batch` only
`StoreTailLo` is a `Get` of the batch at hand, `CheckRoom` may be a `Refuse`, and
all other steps stutter, `ClearHead` and `ClearTail` among them. That a `Put` finds room and a `Get` takes exactly the
front of the queue is what `IInv` says of the locals at those steps. `Run` and its
lemmas are the algebra of consecutive ordinals (heads, tails, concatenation).

**Pipeline.** `Shape` ties the phase of `start` and `stop` to rings and processes:
a worker whose turn `stop` has passed is dead, a worker in its loop has a ring,
and it holds a batch exactly while it goes through it. Accounting
rests on it: `Cleanup` writes off what rings and workers still hold, which is right
only as every worker is dead by then. `NothingUncounted` is inductive given `Shape`; its
two equations are between sums over rings and workers, and each action changes one
summand (`RingSumChanges`, `WorkerSumsChange`). `Routing` says of what is in a
ring, in a batch or in an engine that `Route` sent it there; two workers that
analysed the same pair then contradict the hash.

**Flusher.** A record's number tells its age. `QueueIsNewest`: what left the queue is
older than what is in it. `Callings`: who awaits which request; after a
cancellation the task's request lives on as an orphan that ClickHouse may still
apply. `OnePlace`: the task's batch, the requests and the stored batches share no
record, except a request that was applied and not answered. `CountedIsStored`:
an accepted request not yet counted has its rows stored. `NewerToCome`: what the
task or `stop` still has to send, or awaits, is newer than what is stored, since one
batch is sent at a time and forgotten once its request failed; what an orphan has
still to apply is a batch whose caller gave up (`gone.givenUp`), and of that nothing
is promised.

**Ingest.** `RecordsAreAccounted` is a conjunct of the invariant, which adds types
and `FlushedFollows`: at each place the loop may await at, which of the records in
its batch `total_flushed` has counted already. The work is in `WorkInv`, where
`enqueue_batch` evicts and counts record by record, and in `TurnInv`, shared by
the two ways a turn of the loop may end. For the order, the queue is a run that ends
with the newest record, the batch is older than the queue and what was handed on is
older than the batch; a buffer that keeps the last of an increasing sequence keeps
it increasing.

**Decoder.** What must hold in the middle of a datagram is the set `States(w, e)`: a
worker's cache has, under a key, the stored form of what was told by the last of those
exporters that share it (`Agrees`). For every exporter `older` names those that told the
key after it did; if there is none, the cache has the exporter's own template, and if
there are some, that of one among them whom nobody followed. Every set of a datagram
keeps that (`DecodeKeeps`), so by induction does any number of them, a cut datagram
included. No domain need be distinct from another.
`ReadAsWritten` then speaks of one set: the stored form of a layout has the same
sizes and positions (`StoredKeepsSizes` and its like), so the loop counts the
records that were written as long as the padding is shorter than one (a matter of
division, `DividesWell`), and the last field of a number is the IANA field of it, or
else a vendor's field has taken its type over (`TakenOver`).

**Alerts.** The state between two flows follows from what holds at each depth of
nested recordings. `Calls`: only the innermost call is not waiting for another, and
those above the outermost record campaigns. `Mirrored`: the dashboard is ahead of
the engine by the alert that the innermost call has not given to it yet, and then
is what `Ingest` will make of the engine. `Collected`: every alert since the first
returned is returned, a confirmed case's, or the campaign the outermost call is about to
return. `Queueing`: no delivery is in the dead-letter queue twice, and only alerts
that were dispatched are there. The loops of `dispatch_alert` and `retry_dlq` over
webhooks are `DeliveriesSettle` and `RetriesSettle`, by induction on their steps.

**Kill chain.** `ChainInv` adds to `PipelineInv` what holds of the kill chain in the
middle of a flow. Nothing is assumed of the times of alerts but that they are integers:
a detector stamps with the clock or with the time of the flow, which may be ahead of it or
long past, and one flow may give both. The loop of `process_alert` prunes only from the
head of a history and stops at the first alert that is young enough. What holds is
`IsWindow`: an alert of the history was given after a newer one (`Behind`), or none before
it is newer and none at all newer by more than the window; and an alert that all later
ones still have in their windows is there. `WindowMoves` shows that the loop keeps this,
and two alerts of a history are then within the window of each other or one of them was
late, which is what a campaign rests on (`Staged`). A campaign that was
raised but is not yet recorded is counted with the source of the innermost call
(`SrcOf`), so that there are as many as sets of stages in every state and not only
between two flows.

**API.** Three invariants over disjoint parts of the state. *Limiter*: of each
client the window is ordered by age (`Aging`), the history has as many requests of each
age as the window (`Counted`), and a client that was told to wait waits for the head
of its window (`Promised`); the number let through in any window is then the length of
the window, by a partition into ages (`SumOfSizes`). *Desk*: `Tells` says of the
history and the log that each status is the last entry's and each entry's old
status is the entry's before it; a log that drops its oldest entry keeps it, if it admits
that it dropped one. `StillToCome` says of a walk that an alert it has still to show
stands at its next offset or behind; recording pushes alerts back and never forward,
and a page that is not full is the last since ranks have no gaps (`LastPage`). An alert
that leaves the status a walk filters by pulls the older ones forward: those the walk
has not shown are then no longer promised to it (`StillDue`), while newer ones and those of
a walk without a filter stay where they were or move back (`NotMissed`, `DueIsToCome`).
*Shield*: what the thread still has to add was contained when it was listed.

**Ledger.** The history knows hosts by their leases and alerts, the ledger by its indexes.
`Identified`: an entity has a MAC exactly if the MAC's index leads to it. `Named`: what a
host name leads to has a MAC already, so that a lease with a new MAC never gives it
to an entity that was found by its name; without this a name that two hosts use
would make them one. `Leased` says what one lease does to the indexes, by how it found
its entity: by MAC, by host name, by IP, or by making one. From that follow `Found` (the IP
of a lease leads where the lease went until a later lease is about its IP or its
entity, unless it went by host name; the MAC of one that was known or new stays) and
`Current` (an IP leads to an entity that has left it only after a lease by host name). `Scored`: an entity's raw score is the sum of what the
alerts charged to it were worth when it was last updated, and none is newer; halving for
the time since is then one multiplication, whenever the score is asked for.

**Cases.** `CampaignInv` ties the cases to the log of alerts: those of a case are as
many as its size, two of them with none between are within the window, and the last has
its time (`Coherent`); an asset that was named is in the case of the last alert that
names it (`Following`); what a case has raised follows from its stages, posterior
and status (`Earned`). `CasesMatchHistory` alone is not inductive: it does not say that the
time in a case is that of its last alert, without which the window test of
the next one shows nothing. `EvidenceGrows` is arithmetic: a division to four digits, the
last one rounded, is not below a ratio of four digits that the quotient reaches
(`RatioIs`), and with a weight of 1.5 or more the odds grow (`PosteriorGrows`).

**Indicators.** A slot's load is how often the addresses in the table hash to it.
`Exact` says that a counter that was never at its limit is at least its load, and that all
are exactly their loads, as many items as indicators, while none was ever at its limit.
The inequality is all that is inductive once a counter was full: `remove` takes a count
that `add` did not give, and the filter may then refuse to remove another address,
whose other counters stay too high. While nothing was full the inequality rules this
refusal out, and so the equality is kept. `RaisedIs` and `LoweredIs` follow the loops over the slots of an
address by induction; that the address hashes to a slot more than once is no exception.

**Graph.** `GraphInv` says of every host, whether it is a node yet or not, what
`CompromiseIsExplained` says of the nodes (`Explains`): a host that is not one has been
blamed for nothing, and an edge that was not drawn has no alert that found it there.
Without this a new node would begin with alerts it was never given. An alert adds one
number to the set of those that blame its source, and with lateral movement its target
(`SayingMore`), and the first of a set is not changed by a later one (`MinOfOneMore`), which is
why the time of a compromise stays. The risk is a maximum: none of those that blame the host
weighs more, cut to 0 to 100 points, and one weighs as much or the risk is 0. Since a confidence
may be 0 or less, a host may be blamed and not at risk.

**Searches.** Level `i` of the search for patient zero has the hosts whose shortest walk
to the target over causal edges has length `i`. By induction on the depth, a host at level
`i` has such a walk, and one with a walk of length `k` is at level `k` or an earlier one
(`LevelsAreDistances`), the target among the others if a cycle leads back to it. The search builds a walk from
its end and `Walks` from its beginning; `WalksFromTheStart` says that it is the same. A
level that is not empty adds a host to those seen, which are nodes (`LastLevelIsEmpty`), so the
bound in `Levels`, one more than there are nodes, is never what ends the search. With
that the last level that is not empty is the largest distance (`RootsAre`). For a victim to
which a cycle leads back, levels may name the victim itself; the theorem says of those only
that any other host named has a causal walk to it.

**Sessions and roles.** That a session counts what its flows carried since it began is not
inductive alone: which end a flow is counted for rests on the key of the session being the
set of its two ends (`CountsSides`), and that a status was earned rests on the flags
collected so far. When a session began is known from the history of what was pruned
(`forgot`); that nothing since then is missing needs that whoever was heard of and not
pruned is in the table (`MissesNothing`), and that only the idle are pruned needs the time each
was last heard of (`KeepsLast`). For the roles the tables of the
profiler are at most what the history shows (`TablesAreSeen`), and a role that exempts,
once given, is kept although the counts that gave it are no longer looked at; it was
earned because what the history shows only grows (`EarningsLast`).

**Only model-checked.** All liveness, which is out of this prover's reach, as is
`ENABLED`: `EveryPacketDelivered`, `WorkersFinish`, `FlusherProgresses`,
`EveryRecordLeaves` and the second half of `ShieldIsJust`. `RECURSIVE`
operators occur only where syntax trees are (`HuntQueries`, `TelemetryStore` and
its `MC` module), which no theorem can reach. Not proved either are
`AlertsMatchHistory` of `FlowEngine` and the properties of `PayloadEngine`: they compare
what the rules compute step by step, with folds over their windows, with a definition over
the whole history, and most rules would need an invariant of their own. The properties of `TelemetryStore` are about blocks, dictionaries and syntax
trees, in a module no theorem can reach.

## 6. Abstractions and bounds

Constants named `Max*` that a module marks "bound" limit behaviours in a way the
code does not. Other constants are parameters of the code, scaled down: windows of
1 to 4 ticks for 60 seconds or an hour, 2 or 3 events for a threshold of 15,
cooldowns of 3 and 4 ticks, blocks of 2 rows for 5000, counters of at most 2 for 255,
a dictionary of 2 names for 65,536, a session table that prunes at 2 for 500.
What decides is the order of thresholds and times, never their size, and each
scaled value leaves room for one event less, exactly as many, and one more.

- *Ring*: eight bytes are two digits. A slot is a prefix and a payload, its
  content the ordinal of its write. Payloads longer than a slot are cut by
  `write`; the decoder's `MaxPayload` models that where it matters. `clear` is
  called only by a thread that shares the object, as no caller uses it across
  processes (`ring_buffer.py:205`).
- *Pipeline*: parsing and detection are reduced to the pairs of hosts analysed
  and to whether a packet raises an alert. `PipeMax` stands for the capacity of the
  operating system's pipe, in alerts. `terminate` takes effect at once.
  Locks that a killed process may leave taken are not modelled.
- *Flusher*: the interval since the last flush is a flag. A request is applied at
  any time up to its end, also after its caller gave it up, by timeout or by `stop`, and then
also after later ones. Row formats are left out.
- *Ingest*: a datagram is the number of its records, none for one that fails to
  parse. Workers of the pool take turns on one event loop, so that one stands for
  all. A loop that is cancelled or whose callback raises is told apart by where its
  batch goes.
- *Decoder*: of a record the model keeps the layouts it was written and read with, since where
  and how wide each field is read is all that can go wrong. Exporters do not
  withdraw IPFIX templates, which RFC 7011 forbids over UDP. Layouts have fixed
  lengths. `LayoutAssumption` excludes records of up to three bytes: the loop at
  `netflow_v9.py:160` would read the padding after them as one more record.
- *Flow rules*: flags are a set, sizes are real numbers of bytes where a rule compares
  them with a literal. Confidences, titles and metrics are left out, so are the
  isolation forest and plugins, which are asked last and change no state the rules
  read. Standard deviations are compared as squares, exactly; the code's floating
  point may differ at ties. Allow-lists are constants.
- *Payloads*: a message is what its parser may find in it, a DNS message the
  sequence of its labels, pointers and records. The letters of a label are its
  features (length, entropy, vowels, bigrams); the DGA score is computed from them as
  the code does. Hashes in JA4 and JA3 are taken to be injective.
- *Indicators*: the hash functions are a constant; the run's overlap in pairs. Feeds
  are sequences of addresses. A confidence is in hundredths.
- *Graph*: bytes, dates and layout are left out; `Roots` and `BlastRadius` are the code's
  breadth-first searches level by level.
- *Campaigns*: probabilities are integers in ten-thousandths, with exact
  arithmetic and ties rounded up. An enumeration of 435,204 odds updates in Python differs from
  this in 5, by one unit, all of them ties.
- *Alerts*: a flow is analysed without an await, so routes run between flows; the
  clock ticks between flows and where a call waits (webhook retries,
  ClickHouse). Each alert of a flow is stamped by the clock or by the flow, whose time is
  in `Stamps` ticks of it, past or ahead. The order of dead letters within one
  dispatch is not the code's. Signatures, payload formats and metrics are left out.
  The entity ledgers appear as the sequence of alerts given to them.
- *Ledger*: the clock counts half-lives and scores are scaled by `2^MaxTime`, so
  halving is exact.
- *Storage*: columns that no filter reads are left out. A write to disk may fail
  and leave a torn file. A filter whose `min_bytes` is null raises in the code and is
  not asked. Queries go to the local storage also when the cluster is connected, as in
  `clickhouse_adapter.py:143-146`.
- *Websockets*: a send reaches a client that is there, or raises. A send that never
  returns is left out; in the code it holds up its broadcast for all clients behind it.
- *API*: a request is two steps, before and after the route is awaited. Ages are
  ticks. A fetch of the shield that the limiter counted may go unanswered. Desk and shield share only the limiter, and a behaviour has alerts to
  update or hosts to block, not both. Tokens are identities.
- *Hunting*: a query is its lexemes; `Occurs` stands for the substring test. A protocol
  without a name is the text of its number, which no number equals (`hunting.py:375`).

## 7. Where code and documents disagree

The models follow the code. What a comment or a document says otherwise, or what
the code does that its author can hardly have meant:

- *Ring.* A packet is dropped "if the ring is full" (`ring_buffer.py:116`), and
  `:151` calls the publication atomic; a `read_tail` loaded across a carry is too
  small, and the ring seems full with slots free (`:129`).
- *Pipeline.* "Both directions reach the same worker" (`pipeline.py:36-37`) holds
  for a conversation whose records come first in v5 datagrams, and
  `SamePairSameWorker` says no more; of a datagram with several records only the
  first is hashed (`:260`), so that one behind it goes where the datagram goes. v9 and IPFIX datagrams go to the workers by turns
  (`:265`), each with a template cache of its own: a worker decodes only after it was
  itself told. `get_metrics` reports a refused datagram twice (`:322`). `start`
  after `stop` leaves a pipeline that says it runs, with one ring and no worker
  (`:198`; action `StartFails`).
- *Flusher.* `stop` "flushes the records that remain" (`storage.py:68`);
  cancellation loses the task's batch, only the queue is flushed (`:71`). A failed
  batch is forgotten, although the status line says "OFFLINE (buffering)"
  (`storage.py:195`, `server.py:106`). A batch whose request timed out may be applied
  after the next one (`storage.py:181-203`), and so may the last before `stop`;
  `StoredInOrder` excepts both.
- *Ingest.* The same with "Flush final" of the batcher (`adaptive_batcher.py:68`).
  Records enqueued after `stop` stay queued. An exception in a worker of the
  pool skips `task_done` (`worker_pool.py:72`). What the Kafka producer keeps for
  later is never sent again (`kafka.py:77`).
- *Decoder.* No caller passes `exporter_ip` to `parse_packet`, so two routers with
  one domain id share templates, whereas `netflow_v9.py:54` speaks of exporter and
  id; `OwnTemplateOnly` holds of a key, that is of a domain, and names whose template it
  may be. A vendor's field of IPFIX keeps its number without its vendor (`:237-240`) and
  overwrites an IANA field of that number before it; `ReadAsWritten` excepts such types.
  Fields of variable length are not decoded.
- *Payloads.* The names in DNS *responses* are judged with the source of the flow,
  the resolver, as the host that asked (`engine.py:262`); `dga_threat.py:27` and
  `:41` speak of a name an internal host asked for.
- *Exfiltration.* An alert is dropped as a download when the *client* of the session
  sent less than a fifth of what it received (`bandwidth_exfil.py:105-113` means the
  host that uploads). Where no SYN was seen and the uploading host has the lower
  port, `biflow.py:116-118` takes it for the server: its upload counts as received
  by the client, and a massive one is dropped. `AlertsMatchHistory` asks for the report
  where the sender is the session's client.
- *TLS.* `eta.py:102` means an upload of more than 85% of the session's bytes; `:103` asks
  that what went up be at least 0.85 of what came down, which 46% of all suffice for. And
  it is the session's client whose bytes count as up, as above. `AlertsMatchHistory`
  asks for every report the comment means and allows the others.
- *Windows.* One rule reads the clock of the process and another the time of the
  flow (`port_scan.py:59`, `c2_beaconing.py:77`): a burst of old flows is one window
  to the first and many to the other.
- *Graph.* When the victim of a lateral movement answers its attacker, the search
  for patient zero comes back to the victim and names it (`graph.py:194` leaves the
  target out of `visited`), though `:188-189` promises the root of the chain.
  `SearchesAreShortest` promises the furthest origin to the other victims only.
- *Indicators.* The route takes any number for a confidence (`routes/threat_intel.py:20-24`);
  with 0 or less a CRITICAL alert compromises a host at no risk (`graph.py:154`, `:161`).
- *Indicators.* `contains` promises no false negatives (`bloom_threat_intel.py:69`);
  once a counter was at 255, removals can empty it under an indicator that
  still needs it, and removing that one then does nothing.
- *Campaigns.* "The case is found by source or destination"
  (`campaign_correlator.py:150`): `get(src) or get(dst)` takes the source's case even
  when it is out of its window, and opens a new one although the destination's is
  live. `docs/04_DETECCIONES_Y_KILL_CHAIN.md:93` gives campaigns a window of four
  hours, the kill chain has 900 seconds and the Bayesian engine 1800.
- *Kill chain.* An alert that comes after a newer one may stay in a history beyond its
  window, as `correlator.py:60-63` looks only at the head, and a campaign may then rest on
  stages further apart than the window.
- *Alerts.* The alert of a confirmed case is recorded and not returned by
  `analyze_flow` (`engine.py:204-218`). The dashboard charges a confirmed case to its
  ledger once more than the engine (`api/state.py:131`). Retries for a deleted
  webhook go out signed with a default secret (`dispatcher.py:345`).
- *Walks.* An alert that leaves the status a walk filters by pulls older ones to earlier
  offsets, and the walk misses them (`alerts.py:55-61`); `WalksMissNothing` excepts these.
- *Ledger.* The IP of an entity found by host name in `get_or_create` is not
  entered in the IP index (`entity.py:173`), so that `/lookup/by-ip` may answer with an
  entity that has left the address, or none, although `entities.py:96` says the entity
  that has it now. A new MAC on a used IP or with a used host name takes over the
  old entity (`:168-176`), whereas `entity.py:3-5` means the machine. `LeaseIsFound` and
  `IndexIsCurrent` name these leases.
- *Storage.* After a restart the blocks on disk are never loaded and are overwritten
  from number 0 (`columnar.py:302`, `:356`), although `:293` promises immutable blocks on
  disk; `FilesReadBack` says how long they last. A filter that is null is ignored by
  the zone map and matches no row in the block (`:73`, `:395`); a limit of 0 returns
  a row (`:437`).

## 8. What is not modelled

*Partly modelled*: the rate log and callbacks of the UDP server without a pipeline;
role multipliers and listings of the entity ledger; Prometheus counters and the
snapshot a websocket gets when it connects; exports and formats of the alert routes;
tokens, configuration and persistence of the security layer; header parsing
and telemetry of the SaaS middleware; LDAP and SMB parsers; YAML, the
fingerprint database and the alphabet of domains in the Sigma, JA4 and DGA engines.

*Not modelled*, with the reason: the Kubernetes operator (one synchronous call
against a dictionary that stands in for the cluster; there is no watch, retry or second
actor); detector plugins (a table of uploaded code); the XDP probe (kernel code; its
userspace emulator is a table and a deque used by one thread and by no other
part); machine learning (floating-point statistics of a library); PCAP, forensics and
`parser_v9.py` (stateless byte decoding, an unused copy); federation, tracing,
mitigation, copilot, compliance, MITRE, reports (tables and texts); generators,
purple-team laboratory, scripts and demonstrations; the React front end.

Seen in that code and in corners the models leave out:

- `k8s_operator/controller.py:88`, `:130`: objects of an earlier specification
  stay; plugin code that does not compile leaves the old plugin running.
- `ebpf_loader.py:196`: events of a flow carry its running totals, which are added up again.
- `rate_limiter.py:43`: a table of clients that is never pruned.
- `api/state.py:63`: the dashboard's storage holds every flow in memory for ever.

## 9. The plan

Done: ring with its abstract queue, pipeline, flusher, campaign engine, ledger, alert
recording with kill chain and SOAR, decoder, ingestion path, flow rules with sessions and
roles, payload rules and parsers, indicators and graph, columnar storage with the
dashboard and the hunting language, API gateway and shield. Proved: every safety
property of ring, pipeline, flusher, ingestion path, decoder and alert recording, and
those of the API and the ledger that section 5 lists, those of the campaign engine, of
the indicators' filter, of the attack graph, of the sessions and of the roles.

What would come next is `AlertsMatchHistory` of `FlowEngine`, rule by rule: an invariant
that ties each window to the events of its key in the history, first for the rules that
count (`ScanIsDue`, `FloodIsDue`, `LateralIsDue`), then for those that add up.

## 10. Running it

    tlc -workers 2 -config pipeline.cfg MCWirePipeline
    tlapm SharedRingProofs.tla

Each run's module and configuration are in `PROJECT.json`.
