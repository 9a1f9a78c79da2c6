# Verification of the packet DPI engine

TLA+ models of the multi-worker packet inspection engine, the TLC runs that
check them on small instances, and TLAPS proofs for every value of the
constants. Source paths are relative to the repository root. PROJECT.json maps
every definition to the lines it stands for, and lists the hazards of the code
with the properties that guard each.

## 1. The system

A capture file is read packet by packet, each packet is routed by its flow to
one of several worker threads, and each worker parses, tracks, classifies and
judges its packets on its own. A collector exports what the workers know as a
JSON file, which a web dashboard reads.

    PcapReader -> main / process_pcap -> WorkerPool.dispatch -> FlowRouter
        -> BoundedQueue (one per worker) -> WorkerThread.run
             ProtocolParser -> FlowTable (TcpStateMachine, DpiEngine, RuleEngine)
             -> ThreatEngine -> BoundedAlertBuffer -> RiskEngine
    TelemetryCollector reads the workers -> JSON file -> dashboard

| Component | State | Operations | Hard behaviour | What makes it correct |
|---|---|---|---|---|
| `BoundedQueue` (`include/dpi/pipeline/bounded_queue.h`) | queue, shutdown flag, mutex, two condition variables | push, pop, shutdown | `notify_one` among competing and spurious wake-ups; a shutdown that notifies after unlocking | FIFO, bounded, no lost wake-up, drains after shutdown, every call returns |
| `WorkerPool`, `WorkerThread` (`src/pipeline/`) | `running_`, threads, queues, per-worker statistics, `unroutable_count_` | start, stop, dispatch, process_pcap; run | dispatch racing stop, drain and join, restart, packets queued before a thread exists | nothing lost or reordered, flow affinity, drained when stopped, everything returns |
| `FlowRouter`, `FlowKey` | none | extract_flow_key, create, hash | the router parses less than the parser does | both directions and both parsers give one key |
| `FlowTable`, `FlowEntry`, `FlowStats` (`src/flow/`) | map from key to entry: times, counters, TCP tracker, DPI buffer, metadata, verdict | process_packet, cleanup_expired, clear | five-tuple reuse, disordered timestamps, buffer limit, provisional and final verdicts | see section 4.3 |
| `TcpStateMachine` | state and the SYN, FIN, RST flags seen | process_packet, reset | any flag in any state, retransmissions | the state is the account of the flags |
| `RuleEngine`, matchers, `RuleParser` (`src/rules/`) | raw rules, default action, published immutable rule set | load (file, string), add, clear, set_default, evaluate | publication to running workers; loads that overlap; precedence of L3/L4 against L7 rules; CIDR masks, wildcards, coerced JSON values | first match by precedence; readers see whole rule sets; a rule matches what its text says |
| `DpiEngine`, TLS, HTTP, DNS parsers (`src/dpi/`) | none | inspect | DNS pointer loops, lengths that lie, messages split over segments | total; depends on the bytes that arrived only; no split changes the answer |
| `ThreatEngine`, detectors, `BoundedAlertBuffer` | bounded maps of trackers with windows and cooldowns; a ring of alerts | inspect_packet, cleanup; push, snapshot | windows at their edges, eviction of a live tracker | alerts that the packets justify, no scan lost, bounded memory, dropped alerts counted |
| `RiskEngine`, profilers | per-flow metrics, an LRU of host profiles | evaluate_flow, get_top_hosts | eviction, ties | bounded, map and list agree |
| `TelemetryCollector` | configuration | capture_snapshot, export_json_atomic | reads counters and tables of running workers; a copy that readers see half done, or that fails | a live snapshot lies within its capture, the last one is complete |
| Dashboard backend | cached snapshot and its mtime | load_snapshot, queries | file replaced between stat and read | the last snapshot is served at last |
| `PcapReader`, `main` | file position; resolution | open, read_next_packet; the loop | files cut off or damaged anywhere | the intact prefix is dispatched |
| `ProtocolParser` | none | parse_packet | lengths and offsets that lie | reads inside the frame only |
| Frontend, scripts, tests, benchmarks | - | - | - | - |

Interaction: calls within a thread; a queue per worker between the dispatching
thread and the worker; `std::shared_ptr<RuleEngine>` shared by all workers;
atomic statistics and unsynchronised tables read by the collector; a file
between collector and dashboard. There are no callbacks other than visitors.
Idle expiry exists as an operation of `FlowTable`, but no code of the pipeline
calls it, although the README of the repository lists it as a feature.

The hazards, each at its line and with the properties that guard it, are listed
in PROJECT.json.

## 2. Plan

Done, in this order:

1. `ClosableFifo` (abstract), `BoundedQueue` (implements it), proofs.
2. `WorkerPool`, whose queues are used through `ClosableFifo`, proofs.
3. `TcpTracker` and `PolicyRules` (operators), `FlowTable` (composes them), proofs.
4. `Frames`, `Ingest`: files, records and frames up to the dispatch, proofs.
5. `PolicyStore` (abstract), `RuleEngine` (implements it), proofs;
   `RuleMatchers`, `RuleDocuments`, `RuleLoading`: what a document's rules match;
   `RuleSwap`: the publication word by word.
6. `Dpi`: the TLS, HTTP and DNS parsers under segmentation.
7. `Trackers`, `ContentChecks`, `AlertRing`, `RiskProfiles`, composed by `Analysis`.
8. `Telemetry`: workers, collector, file and dashboard cache.
9. `FoldLemmas`; proofs about `Analysis` and `Telemetry`; the action properties
   of `FlowTable` and the use of the queues by `WorkerPool`; the parsers of `Dpi`;
   the matchers of `RuleLoading`.

Next, most important first:

- the publication with atomic stores instead of plain ones, as a repaired
  `RuleSwap`, and the proof that readers then hold live sets;
- the merge of host profiles and `get_top_hosts`; the JSON lexer.

## 3. Modules

| Module | Models | Kind |
|---|---|---|
| `ClosableFifo` | what `BoundedQueue` promises its callers | abstract specification |
| `BoundedQueue` | the queue, critical section by critical section | component |
| `WorkerPool` | `WorkerPool` and `WorkerThread` | component, uses `ClosableFifo` |
| `TcpTracker` | `TcpStateMachine` | operators |
| `PolicyRules` | `CompiledRuleSet` | operators |
| `FlowTable` | `FlowTable`, `FlowEntry`, `FlowStats` | component, uses the two above |
| `Frames` | `ProtocolParser`, `FlowRouter`, `FlowKey` on one frame | operators |
| `Ingest` | `PcapReader` and the loop of `main` | component, uses `Frames` |
| `PolicyStore` | what `RuleEngine` promises its readers | abstract specification |
| `RuleEngine` | the mutators of `RuleEngine`, step by step | component |
| `RuleMatchers` | IP, port and domain matchers | operators |
| `RuleDocuments` | `RuleParser`, from the JSON value on, and the compilation of a rule | operators |
| `RuleLoading` | `RuleEngine` with `RuleDocuments` as its parser | composition |
| `RuleSwap` | the two-word `shared_ptr` behind the publication | component |
| `Dpi` | `DpiEngine`, its parsers, the inspection loop of a flow | component |
| `Trackers` | scan and SYN flood detectors | operators |
| `ContentChecks` | entropy and signature detectors | operators |
| `AlertRing` | `BoundedAlertBuffer` | operators |
| `RiskProfiles` | `RiskEngine`, behaviour metrics, `HostRiskProfiler` | operators |
| `Analysis` | what a worker does with a packet after the flow table | component, composes the four |
| `Telemetry` | `TelemetryCollector`, `main`'s exports, `TelemetryService` | component |
| `MC...` | values of the constants for TLC | instances |
| `FoldLemmas` | induction over numbers, sets and sequences; the folds of the community modules | lemmas |
| `Decoding_proofs` | lemmas and theorems about `Ingest` and `Dpi` | proofs |
| `RuleEngine_proofs` | lemmas and theorems about `RuleEngine` and `RuleLoading` | proofs |
| other `..._proofs` | lemmas and theorems about the module of that name | proofs |

Each component module opens its operations with a few definitions marked as
faults (`PushUnchecked`, `GiveUpToDefault`, ...). They are no part of the
specification; each is the wrong version of one operation, and PROJECT.json
names the property that notices it.

## 4. What is modelled and checked

### 4.1 BoundedQueue

A step is what a thread does in one possession of the mutex. `pc` says where a
call is: `push` or `pop` while its predicate has still to be evaluated,
`blocked` in the wait set of its condition variable. `notify_one` is part of
the step that issues it and moves one waiter; `notify_all` is a step of its own
because `shutdown()` issues it after unlocking. A waiter may wake up spuriously
at any time. Items are opaque. `size()`, `empty()` and `capacity()` only read.

Run `queue` (two producers, two consumers, two closers, two items, capacity 2):

- `TypeOK`, with the capacity bound.
- `NoSleepingConsumerForgotten`: while a consumer sleeps, every queued item has
  an awake consumer of its own, or the notify_all of the shutdown is still to
  come. `NoSleepingProducerForgotten`: the same for free slots and producers.
  They hold although the code notifies one waiter only.
- `ImplementsClosableFifo`: refinement of `ClosableFifo`, with its fairness. A
  call that blocks, wakes and blocks again stutters.
- `ShutdownReleasesEveryCall`: leads-to, after a shutdown every pending call returns.

Two of each kind are what the interesting cases need: a wake-up that reaches a
waiter whose item somebody else has taken, a second waiter left asleep, a
second closer that returns before the first has notified. Capacity 2 tells a
queue that is full from one that is merely not empty.

### 4.2 WorkerPool

Clients call `start`, `dispatch` and `stop`; `main` and `process_pcap` are one
client that does so in sequence. `start` and `stop` advance worker by worker.
`dispatch` is two steps, the test of `running_` with the routing, and the push,
so that a stop can come in between. A worker pops, handles and finally reports.
What one packet does inside the worker is worker-local and one step; only the
counters and which flows are tracked are kept here (`FlowTable` has the rest).
`accepted` and `handled` are history.

Assumptions. (a) `start()` overlaps neither another `start()` nor a `stop()`;
they would race on `std::thread` objects, and no caller in the repository does
it. `dispatch()` overlaps anything, and a second `stop()` during a `stop()`
returns at once, which is a call without effect. (b) A packet the worker tracks
could be routed (`PoolAssumption`, last conjunct). (c) Each capture packet is
dispatched at most once.

Run `pool` (two clients, two workers, one-slot queues, four packets: two of one
flow, one of another on worker 0, one unroutable and so on worker 0 too):

- `NothingLostOrReordered`: accepted packets = handled, in hand, queued, in order.
- `DrainedWhenStopped`: after `stop()` no thread, no queued packet, all
  accepted packets counted once, the final report complete.
- `FlowsPinned`: no flow in the tables of two workers.
- `LifecycleCoherent`: who may be in which phase, and what the threads and
  queues look like in it; the key is that a dispatch still pushing after a stop
  finds a shut down queue.
- `QueuesUsedAsFifos`: each worker queue takes only steps of `ClosableFifo`, so
  the result about `BoundedQueue` applies.
- `StopReturns`, `DispatchReturns`, `AcceptedGetsHandled`: leads-to.

One-slot queues block dispatchers at once; a second packet of a flow is what
ordering and affinity need; four packets allow a backlog when the stop comes
and a dispatch after a restart.

Run `pool_restart` shows a divergence: after `stop()` and `start()` the pool
runs, but its queues stay shut down and every dispatch is refused, against
`worker_pool.h:42` ("false if pool is stopped").

### 4.3 FlowTable, TcpTracker, PolicyRules

`ProcessPacket` is the whole handler: lookup or creation, times, TCP tracking,
L3/L4 verdict of a new flow, buffering, classification, revision of the verdict.
`TcpProcess` follows the order of tests in `tcp_state_machine.cpp`. Payload is a
sequence of abstract pieces; what DPI recognises in it is the constant
`Recognise`, any function of the flow and the bytes that recognises nothing in
nothing. A rule set is the sequence of its rules as added; the matchers are the
sets they accept, "first after a stable sort" is `First`. `ReloadRules` swaps the
active set at any time. The field `by` of an entry is history: the rule set of
its last evaluation. Byte and packet counters are abstracted to the directions
seen. A rule engine is always attached, as in `main`. Rules may ask for any
protocol, also one the engine does not know, which is compiled to `Unknown`.

Run `flow` (a TCP and a UDP flow, five kinds of TCP segments, three payloads, a
two-piece buffer, packet times 0 and 1, clock 0 to 2, two rule sets, one with a
rule for a misspelt protocol before a rule on addresses):

- `FlowCoherent`: TCP state as the account of flags seen, through reuse of the
  five-tuple; flow state derived from it; first_seen never after last_seen.
- `BufferOnlyWhileUndecided`: the buffer is bounded, empty once DPI is
  complete, and never holds what could have been classified already.
- `VerdictJustified`: the verdict is what some one rule set (that of its last
  evaluation) says of what is known of the flow. So the re-evaluation that
  `flow_table.cpp:63` leaves out when DPI gives up would change nothing, with
  one exception, which the property names (`UnknownIsFirst`): the first rule to
  match the flow asks for a misspelt protocol. It then matches just because DPI
  gave up, but the verdict of a later rule on addresses is kept. A run without
  the exception finds this (4.10).
- `DecidedForGood`, `OnlyPrecedenceOverrides`, `TeardownNotUndone`,
  `OldestEvictedFirst`: what a step may never do.

Two packet times suffice for late packets and for the value 0 that stands for
"not set"; the clock reaches one further so that eviction happens for some
timeouts only. The rule sets contain a final L3/L4 rule, L7 rules before and
after it, a disabled rule, ties in priority, and both default actions.
Timeouts are 0 or 1 so that flows in different states differ.

Run `flow_retransmit` shows a divergence: a retransmitted SYN-ACK after the
handshake puts an established flow back into `SynReceived`, hence `Active`,
against "retransmissions [...] gracefully" in `tcp_state_machine.h:14-16`.

### 4.4 Ingest, Frames

A capture is the record of what its header and records announce and of the
bytes it really has, so that it may end or lie anywhere. `Open`, `OpenFails`,
`ReadAndDispatch` and `EndOfInput` are `main`'s loop. A frame is the fields the
decoders look at; router and parser are two independent sets of operators, as
in the code, each with the ends of the ranges it reads (`RouterReads`,
`ParserReads`). Bytes, byte order and the error codes of refused frames are
abstracted.

Run `ingest` (every combination of header fields at the lengths where a check
changes its mind; conversations between all pairs of a few endpoints; captures
of up to three records, damaged in every place; `MaxPacketSize` 80 stands for
the reader's limit, below and above the lengths used):

- `DecodersStayInside`: no byte behind the captured frame is read, and the
  payload given to DPI lies inside it.
- `FlowsRoutedByTheirKey`: a frame that makes a flow was routed by that flow's
  key. The two decoders do differ, but only on frames that make no flow.
- `DirectionsShareOneFlow`: both directions have one key and opposite
  directions, and the risk engine's idea of forward agrees.
- `IngestsReadablePrefix`: the jobs are the longest prefix of good records.

### 4.5 RuleEngine, RuleDocuments, RuleMatchers, RuleLoading, PolicyStore

A load reads and parses before it locks, then assigns rules, default action and
the compiled set one by one; `add_rule`, `clear_rules`, `set_default_action`
likewise. The rule file may be rewritten at any time (`EditFile`).
`RuleDocuments` goes from JSON values to rules, both formats and every reason
to refuse; a text the lexer or parser refuses is `BrokenText`. In
`RuleMatchers`, addresses have `Width` bits in bytes of `ByteBits`, names are
sequences of characters, and the loop of `glob_match` runs over cursors: places in
text and pattern, the last star, and where in the text it was met. `Content` gives
a document's JSON value.

Run `rules` (two callers; 14 documents: one of each format, the others each
refused or empty for a reason of its own; at most `MaxRules` = 3 rules, enough
for an array of two and one more; 3-bit and 6-bit addresses with 3-bit bytes, so
that a mask ends inside, at the end of and before a byte; ports to 7; names of at
most six characters):

- `PublishedPolicyCurrent`: no mutator returns with its change unpublished.
- `ImplementsPolicyStore`: refinement of `PolicyStore`; the published policy
  changes only by whole operations, although loads overlap. The publication
  itself is one step here; `RuleSwap` looks inside it. `PolicyStore` leaves open
  whether `clear_rules` resets the default action (4.10).
- `LoadedRulesMeanTheirText`: a loaded rule can match, its masks match the
  addresses with its prefix, and its wildcards the names that its pattern can be
  laid out along, each `?` on one character and each `*` on any number. In
  `*.domain` the star stands for one character or more, or for nothing together
  with its dot. Excluded are a suffix pattern with more wildcards (`*.ads.*`),
  whose rest the code reads literally, and a name that itself contains a star
  (section 4.10).

Run `rules_swap` takes the publication apart: the plain assignment at
`rule_engine.cpp:173` writes the two words of a `shared_ptr` that workers load
atomically. Of the outcomes the race can have, `RuleSwap` models those of the
standard library's move assignment, word after word. One reader and one
publication suffice, against the "lock-free atomic snapshot swap" of
`docs/ARCHITECTURE.md:104`: the reader copies the object word of the old set, the
writer exchanges both words and gives the old set up, and the reader copies the
control word of the new one. It owns the new set and evaluates the old one, which
is destroyed.

### 4.6 Dpi

The three parsers byte by byte, with every bound and early return, on messages
of up to about 260 bytes; characters that no test distinguishes share a code. A TCP
flow is inspected again with every segment, up to `MaxBuffer` bytes; a datagram
once. Where a parser walks (over extensions, names, labels and pointers), the
model has a recursive function from where the walk is to what it finds.

Run `dpi` (ClientHellos, requests and queries assembled from the parts at which
the parsers branch, whole and with lengths that are off by one or more, cut at
every byte; `MaxBuffer` 80 for 8192, so that some messages do not fit, `MaxScan`
12 for 4096, shorter and longer than the request lines used, `MaxJumps` 2 for
the DNS jump limit):

- `ReadsOnlyWhatArrived`: an answer depends on no byte that has not arrived.
- `DecisionsSurviveSplits`: a flow classified from a part is classified as from
  the whole, with a host name that is at most shorter. Messages to TCP port 53
  are exempt: the first bytes of a TLS or HTTP message may pass for a DNS header.
  So are requests in which a line begins with a carriage return and goes on; the
  proof found these (see 4.10), and the run has them among its messages.

### 4.7 Analysis with Trackers, ContentChecks, AlertRing, RiskProfiles

A packet is one step, all of it worker-local: the cleanup that may be due, the
detectors in their order, the pushes to the ring, the rating of the flow and of
its two hosts. Where a detector walks a hash map, the order is any order
(`ScanOutcomes`, `SynOutcomes`). Scores use the code's default weights; means
and variances are exact instead of in floating point. Entropy and the
occurrence of a signature's pattern are inputs. `log`, `raised` and `updates`
are history.

Records come at any time in any order: neither the reader nor a worker sorts
them, and the detectors branch on late ones and on time 0, which for a window
also means that it is not open.

Run `analysis` (three hosts; tables, ring and profiles for two; windows of two
and three time units; a cleanup every third packet; packets of the host that
scans and floods at times 0, 1, 3 and 5 in any order, of the others at 1 and 5;
four packets, `MaxPackets`, so that thresholds of two and three are crossed,
windows expire, records come late and a tracked host is evicted):

- `StateBounded`: tables, ring, profile map and list stay within their limits.
- `AlertsJustified`: an alert's source did what it is accused of, in a window
  that one of its own packets opened; a half-open alert rests on connections
  that nothing has answered.
- `ScansReported`: windows follow each other instead of sliding, so a scan of
  threshold size may go unreported although the text calls the window sliding
  (4.10). One short of twice the threshold, within one window length, may not,
  under three conditions: the scan does not begin at time 0, where each packet
  opens the window anew; no record comes two windows later, after which a
  cleanup may have forgotten the tracker; fewer sources than are tracked were
  heard of since, for eviction may hit a tracked source. The alert is for the
  source and comes in the window of the scan or in one that reaches into it.
  The times are chosen so that a scan can cross the end of a window, and TLC
  refutes the property with the threshold in place of twice the threshold, or
  without the first or the third condition; to miss the second it takes five
  packets.
- `RingKeepsNewest`: the ring is the newest alerts in order, and the dropped
  count is right.
- `HostProfilesExact`: the profiles kept are those of the hosts rated last, and
  each sums up exactly its ratings since it was let in.

### 4.8 Telemetry

A worker takes a packet that parses through its table and then its counters,
one step each; any other is counted as malformed. `main` reads the counters of
one worker after the other and then their tables, writes the temporary file and
copies it over the target chunk by chunk; any of it may fail, and the process
may be killed. Without a capture it goes straight to its last export. Iterating
over the table of a running worker is undefined behaviour; such a snapshot
lists any number of flows within the limit. Each client has one request after
another in `load_snapshot`, which is `Stat`, `Read` (until the end of the file),
`Parse`, `StoreTime`, and requests of several clients overlap. A file is the
numbers of the snapshots its chunks come from; a text of two snapshots may parse
(`Mixed`). Each write to the file either advances its modification time or
leaves it, also from one export to the next, because the last one follows a
periodic one at any distance (`main.cpp:125-138`). `begun` and `distinct` are
history.

Run `telemetry` (two workers with three packets, malformed, of a new or of a
known flow; a list of at most one flow, so that flows are left out; one periodic
export, `Exports`, and the last one; two clients; two chunks, so that a file can
be empty, partial or whole). To keep it small, the long capture comes without
open pages and a short one, or none, with both (`MCInit`): what is in a snapshot
does not depend on who reads the file, nor the other way round.

- `SnapshotsComplete`: each counter of a snapshot lies between what the workers
  had counted when it was begun and what they have counted by its end, and no
  more flows are listed than allowed. In the last one all packets are counted,
  as processed or malformed, its flows are those of the tables, and it lists as
  many as it may. The counters of a live snapshot may disagree with each
  other (more flows than packets).
- `FinalSnapshotServed`: under fairness, once the last snapshot is in the file,
  every open page is shown it for good, however the requests overlap. It holds
  under two conditions (`distinct`), and TLC refutes it without either: the
  file has another modification time than its predecessor, and no request still
  holds a text of the predecessor when the last write is made. Otherwise an old
  snapshot can be cached under the time of the new file, for ever: two exports in
  one tick of the file system's clock, or a request suspended between lines 33
  and 43.

Run `export` shows a divergence: the target is filled while requests read it,
against `docs/ARCHITECTURE.md:127` ("never reads partially written JSON").
The backend survives it: it fails to parse and serves what it has cached.

### 4.9 Fairness and deadlock

Weak fairness only, one conjunct per thread: a runnable thread runs, and obtains
the mutex at last (operating system scheduling, `std::mutex`). Nobody is
obliged to make another call, no spurious wake-up is promised, and no particular
waiter is chosen by `notify_one`. `ClosableFifo` accordingly promises that some
producer gets a slot and some consumer an item, not each of them, until it is
closed. In `Telemetry` the threads are the workers, `main` (`Stop`, `Export`) and
each client, which keeps asking because `app.js` polls; nothing makes the
process be killed. The other modules are sequential or state no liveness.

Deadlock is checked in `queue`, `pool`, `flow` and `rules`, and in the runs of a
divergence other than `export`. It is not in `ingest`, `dpi`, `analysis`,
`telemetry` and `export`: there the input, or the process, comes to its end. In
`pool`, the capture may be exhausted but start and stop can always be called again.

### 4.10 Other observations

Differences between text and code that no run is about:

- `clear_rules` keeps the default action; `rule_engine.h:83` says it resets it.
  Clearing a policy that blocks by default leaves everything blocked.
  `PolicyStore` admits both, so that no run depends on which is meant.
- A scan window is fixed, from the packet that opens it, not sliding
  (`docs/ARCHITECTURE.md:152`, `threat_config.h:15`): a scan of exactly the
  threshold that crosses the end of a window goes unreported.
- At timestamp 0 every packet opens the window anew (`port_scan_detector.cpp:57`,
  `syn_flood_detector.cpp:67`), so that no scan and no SYN rate is seen.
- A rule with an unsupported `protocol` matches any, one with a misspelt
  `app_protocol` the flows that DPI gave up on (`rule_engine.cpp:17, 31`), except
  those that a rule on addresses has decided, even one of lower precedence
  (`flow_table.cpp:63`);
  `blocked_ports` entries that are null, 0 or 65536 match any port
  (`rule_parser.cpp:489-494`).
- `glob_match` compares literally before it looks for a star
  (`domain_matcher.cpp:21-24`), so that a star in the name, which
  `http_parser.cpp` and `tls_parser.cpp` let through, uses up a star of the
  pattern: `*a*b` does not match the name `*bab`. The name `.a`, whose first label
  is empty, does not match `*.a`, since the test for a longer name at `:81` is
  strict. The proof of `LoadedRulesRight` fails without these two cases apart, and
  the run finds both when they are put back.
- The HTTP header scan is not limited when the request line alone exceeds the
  limit (`http_parser.cpp:82` wraps); it stays within the payload.
- A segment that ends with a carriage return at the start of a line ends the
  headers, whatever follows in the next one (`http_parser.cpp:87-99`). Where a
  line feed follows, the line is empty anyway; otherwise the flow is settled
  without the host that the whole request names.
- A ClientHello split after 44 bytes or more is settled without its server name
  (`tls_parser.cpp:66`), so that a rule on the name does not see it.
- Flows are spread over workers by their key, and each worker has its own
  detectors: a scan is seen in as many parts as there are workers.
- Alerts are moved into the ring before they are rated (`worker_thread.cpp:85,
  98`): the risk factors lose the alert's name, the score does not change.

## 5. What is proved

All proofs are for arbitrary values of the constants under the named
assumptions, which say:

| Assumption | Says |
|---|---|
| `QueueAssumption` | threads are disjoint finite sets, the capacity is positive |
| `PoolAssumption` | at least one worker and one slot; keys hash to naturals; tracked packets are routable |
| `FlowAssumption`, `RulesAssumption` | `Recognise`, times, segments and rules have their types; nothing is recognised in nothing |
| `NoFlowAssumption` | the mark for "no entry" (a null pointer) is no entry |
| `FilesAssumption` | files are captures |
| `RuleEngineAssumption` | documents parse to results; `Free` is no caller |
| `MatchersAssumption` | widths and ports are naturals; an address of version 6 is a whole number of bytes |
| `DocumentsAssumption` | addresses fit their width; host names are sequences of strings |
| `LoadingAssumption` | the parser is that of the code (`ParseString`); the texts of rules have their types |
| `TrackersAssumption` | limits and thresholds are positive, windows and timeouts naturals |
| `SignaturesAssumption`, `RingAssumption`, `RiskAssumption` | signatures have a severity and a target; ring and profile capacity are positive |
| `AnalysisAssumption` | times are naturals, in any order; a packet carries one of the rule engine's four actions |
| `DpiAssumption` | messages are bytes over TCP or UDP; buffer and scan limits are positive |
| `TelemetryAssumption` | workers are finite, nonempty; captures give each a number of packets; limits are naturals, a file has at least one chunk |

- `BoundedQueue_proofs`. `TypeOK` is inductive. The two wake-up invariants are
  inductive together with it: each action is a case, and lemmas on cardinality
  say that a push adds one item and moves one sleeper to the awake, a pop takes
  one item and one awake consumer. `ImplementsFifo` maps every step to a step of
  `ClosableFifo` or a stutter.
- `WorkerPool_proofs`. `LifecycleCoherent` is the inductive core: it relates the
  position of every client to threads and queues. `NothingLostOrReordered` is
  inductive by itself given types. `DrainedWhenStopped` is not; it follows from
  the two and `Counted` (processed + malformed = packets handled).
  `FlowsPinned` follows from `RoutedHome`: everything a worker has in table,
  hand or queue hashes to it. `QueuesAreFifos` maps every step of the pool to a
  step of `ClosableFifo`, or a stutter, for each worker's queue: together with
  `ImplementsFifo` this composes the pool's proofs with the queue's. It needs
  `LifecycleCoherent`, by which a worker that waits has a thread.
- `FlowTable_proofs`. The invariant is `TableInv`, a condition on each entry.
  `TcpProcessCoherent` handles the tracker for every state and flag
  combination; `FirstIsFirst` gives the unique first matching rule;
  `NothingFound` says that without metadata no rule with L7 criteria matches but
  one for `Unknown`; so, unless such a rule comes first, a final L3/L4 verdict is
  also the answer of the L7 evaluation, which is what `VerdictJustified` needs
  when DPI gives up.
  The intermediate entry between update and inspection does not satisfy the
  invariant, and has one of its own (`Drafts`). `DecidedForGood` and
  `OnlyPrecedenceOverrides` are proved as action properties from `TableInv`.
  So are `TeardownIsFinal`, by the cases of the tracker, and `EvictionByAge`,
  for which `CleanupExpired` is compared with the flow it removes.
- `Decoding_proofs`, about what an input may announce, true or not.
  - `Ingest`, for any set of captures, whatever fields their frames announce.
    Lemmas about `Frames` say where each layer starts, what was held against the
    captured length, and that a frame with a flow has the fields of the router's
    key; `DirectionsShareOneFlow` needs that `Create` orders the two endpoints
    totally. The invariant adds to the types that jobs are the records already
    passed (`IngestInv`).
  - `Dpi`, for any message, any cut and any limits. The invariant (`InspectInv`)
    is that the result is that of inspecting the bytes seen; the rest is about
    the parsers. For `NothingReadBehind`, two memories with the same first `n`
    bytes (`Alike`) give the same answer: every read is behind a check, and two
    walks of the same steps are the same function. For `SplitsChangeNothing`,
    each parser's answer on `n` bytes is compared with its answer on more: a
    walk gets smaller with every step (`end - at`, or the offsets not yet
    visited), so its function exists and can be unfolded, and what it found
    within `n` bytes it finds again. In a request all lines but the last are
    complete, and the last one that decides still decides when it grows.
- `RuleEngine_proofs`. For any documents, rules, `Parse` and `Compile`, and any
  number of callers. The invariant is mutual exclusion plus what raw rules and
  default action are in each critical section (`EngineInv`);
  `ImplementsPolicyStore` follows step by step: only `Rebuild` changes the
  published set, by the operation its caller is in.

  `LoadedRulesRight` adds that a result comes from `ParseString`, which accepts a
  document only if every rule is valid, and the lemmas about the matchers:
  - `IpRight`: comparing under a mask is comparing what the mask keeps
    (`MaskedEqual`). For version 6 this holds byte by byte; by induction over the
    bytes, leading parts of two addresses agree exactly if their bytes do
    (`UppersEqual`), and the byte in which the prefix ends is cut (`UpperPart`).
  - `GlobRight`: a cursor means that the rest of the pattern can be laid out from
    here, or from behind the last star further on (`Meant`). No turn of the loop
    changes that (`AdvancedRight`), as long as since the last star the loop has
    moved through text and pattern at one pace (`Kept`): then a layout from
    behind the star further on shifts a layout from here (`FromStar`), which is why
    one point of return is enough. The loop ends, since the last star, the place
    to return to and the place in the pattern decrease lexicographically in what
    is ahead of them (`AheadShrinks`), and what it answers is what the cursor means.
  - `EndsWithRight`: the suffix comparison is the only layout of a pattern whose
    rest has no wildcard.
  - `PortReachable`: ports that are not refused are not an empty range.

- `FoldLemmas`. The provers cannot instantiate an operator parameter, so the
  library's induction theorems are out of reach. Here induction is stated with
  the set of the things that have the property, from the least counterexample.
  The folds of the community modules recurse through `CHOOSE`, and so does any
  recursive function; that the chosen function exists is shown by hand, as the
  limit of its restrictions (`WalkExists` for a walk whose steps get smaller).
- `Telemetry_proofs`, for any captures, workers and limits. `FinalSnapshot` follows
  from `SnapshotInv`. `Accounts`: each worker's packets are waiting, in hand or
  counted, its flows tracked before they are counted. `Bracket`: what a snapshot
  has summed up is at least what was counted when it was begun less what it has
  still to read, and at most what the workers already read have counted by now;
  this survives every step because counters only grow and each is read once
  (`ReadOnce`). After the join the workers are at rest (`Settled`), so that both
  bounds are the same number.
- `Analysis_proofs`, for every capture, limit, threshold and window. The order
  in which a hash map is walked stays arbitrary: every outcome of a detector is
  covered. Four inductive invariants, each on top of the ones before:
  - `RingInv`, for `RingExact`: slot by slot, the ring holds the last alerts
    raised, and a ring that is not full has dropped none.
  - `StateInv`, for `TablesStayBounded` and `ProfilesExact`: no table exceeds
    its limit, although the cleanup and the eviction come before the lookup;
    list and map of the profiles have the same hosts, those of the latest
    ratings, and a profile has the sums over its ratings since it was let in
    (`HostsInv`). Unbounded runs need that a host's rating enters the sums once.
  - `DetectorsInv`, for `AlertsHaveCause`: one packet of a tracker's source has
    opened its window, and the tracker knows only what the source sent from then
    on and within the window of that packet (`ScansTraced`); the SYN tracker
    counts and remembers only its source's handshakes (`SourcesTraced`).
    `AlertsJustified` alone is not inductive: an alert is raised from the
    tracker, not the log. Times in any order cost nothing here: whether a packet
    lies in the window is decided against its opener alone.
  - `ReportsInv`, for `ScansAreReported`. The open window holds every probe since
    its opener, and an alert was raised if they crossed the threshold
    (`AllOpened`). For a run of probes that nothing has broken up to now, there
    was a report, or the window is still the one it began in or the next after
    it, and in the latter case what came before was no scan (`Watched`): after
    the first new window within the run no packet is late enough to open
    another. That a scan of twice the threshold cannot hide on both sides of a
    boundary is then a pigeonhole argument on its ports.

Only model-checked is what needs fairness, which the prover does not reach:
`ShutdownReleasesEveryCall`, the fairness part of `ImplementsClosableFifo`,
`StopReturns`, `DispatchReturns`, `AcceptedGetsHandled`, `FinalSnapshotServed`.

## 6. Not modelled, and why

- The JSON lexer and parser, and the text of exported snapshots: conversions
  whose details no property is about.
- Entropy, throughput, and floating point in general: TLC has integers.
- The merge of host profiles in a snapshot and `get_top_hosts`: read-only sorting.
- The detectors' resets and the loading of custom signatures, which the pipeline
  never calls.
- The dashboard's queries on a loaded snapshot and its HTTP layer; printing,
  options, the frontend, tests, benchmarks and scripts: no state of interest.
- Overlapping `start()` calls and use of the pool after destruction: outside its
  contract.
- What iterating over a hash table that a worker changes does to the process:
  undefined behaviour. The model lets a periodic snapshot list anything within
  its limit, and the properties claim no more of it.
