----------------------------- MODULE Telemetry -----------------------------
(***************************************************************************)
(* How statistics travel from the workers to a browser: the workers count, *)
(* the main thread captures a snapshot and exports it to a file            *)
(* (src/telemetry/telemetry_collector.cpp, called from src/main.cpp), and  *)
(* the dashboard's requests load that file through a cache                 *)
(* (dashboard/backend/telemetry_service.py).                               *)
(*                                                                         *)
(* Workers, main thread and requests interleave at every counter, file     *)
(* operation and assignment to the cache.  A snapshot stands for its       *)
(* totals, a file for the chunks written to it, each of them the number of *)
(* the snapshot it belongs to; the text of a snapshot is Chunks long.  Two *)
(* writes may leave the same modification time, also those of two exports: *)
(* the last one follows a periodic one at any distance.                    *)
(***************************************************************************)
EXTENDS Integers, Sequences, SequencesExt, FiniteSetsExt

CONSTANTS
  Workers,
  Captures,      \* for each, the packets that each worker is handed of it
  MaxFlows,      \* max_flows of a snapshot
  Exports,       \* bound on the periodic exports
  Clients,       \* requests that the backend serves at the same time
  Chunks         \* pieces in which a file is copied and read

ASSUME TelemetryAssumption ==
  /\ Workers # {} /\ IsFiniteSet(Workers)
  /\ Captures \subseteq [Workers -> Nat]
  /\ {MaxFlows, Exports} \subseteq Nat /\ Chunks \in Nat \ {0}

VARIABLES
  load,       \* packets that each worker is handed in this run
  todo,       \* packets a worker has left
  at,         \* its place in WorkerThread::run
  table,      \* flows in its table
  stats,      \* its WorkerStats
  phase,      \* of main: "running", "stopped", "exited" or "killed"
  step,       \* of export_json_atomic, "none" outside
  loads,      \* what capture_snapshot still has to read
  number,     \* of snapshots begun
  begun,      \* what the workers had counted when the last one was begun
  snap,       \* the one being captured or exported
  file,       \* chunks of the telemetry file
  mtime,      \* its modification time, 0 before it exists
  cached,     \* _cached_snapshot, 0 for None
  cachedAt,   \* _last_read_mtime
  pc, seen, text, shown,  \* of a request: place, mtime, content, response
  distinct    \* nothing can take the exported file for an earlier one

workers == <<load, todo, at, table, stats>>
export == <<step, loads, number, begun, snap, file, mtime, distinct>>
cache == <<cached, cachedAt>>
requests == <<pc, seen, text, shown>>
vars == <<workers, phase, export, cache, requests>>

Whole(k) == [i \in 1 .. Chunks |-> k]

Counters == {"packets", "flows", "malformed"}
NoCounts == [what \in Counters |-> 0]
EmptySnapshot ==
  [final |-> FALSE, packets |-> 0, flows |-> 0, malformed |-> 0, listed |-> 0]

(* What a request is shown for want of a snapshot, and a text that happens *)
(* to parse although it is made of two.                                    *)
Placeholder == 0
Mixed == -1

Counted(what) == [w \in Workers |-> stats[w][what]]
Total(count) == MapThenSumSet(LAMBDA w : count[w], Workers)

(* The pool is started with a capture; without one, or with one that does  *)
(* not open, main goes straight to its last export.  A client's page may   *)
(* be open or not.                                                         *)
Init ==
  /\ \/ phase = "running" /\ load \in Captures
     \/ phase = "stopped" /\ load = [w \in Workers |-> 0]
  /\ todo = load
  /\ at = [w \in Workers |-> "pop"]
  /\ table = [w \in Workers |-> 0]
  /\ stats = [w \in Workers |-> NoCounts]
  /\ step = "none" /\ loads = << >> /\ number = 0
  /\ begun = NoCounts /\ snap = EmptySnapshot
  /\ file = << >> /\ mtime = 0 /\ distinct = FALSE
  /\ cached = 0 /\ cachedAt = 0
  /\ pc \in [Clients -> {"closed", "idle"}] /\ seen = [c \in Clients |-> 0]
  /\ text = [c \in Clients |-> << >>] /\ shown = [c \in Clients |-> Placeholder]

-----------------------------------------------------------------------------
(* WorkerThread::run: the flow table first, then one counter after the     *)
(* other.  A packet that does not parse, or that the table does not track, *)
(* leaves the table alone and is counted apart.                            *)

ProcessPacket(w) ==
  /\ at[w] = "pop" /\ todo[w] > 0
  /\ todo' = [todo EXCEPT ![w] = @ - 1]
  /\ \/ table' = [table EXCEPT ![w] = @ + 1] /\ at' = [at EXCEPT ![w] = "new"]
     \/ table[w] > 0 /\ UNCHANGED table /\ at' = [at EXCEPT ![w] = "known"]
     \/ UNCHANGED table /\ at' = [at EXCEPT ![w] = "malformed"]
  /\ UNCHANGED stats

CountPacket(w) ==
  /\ at[w] \in {"new", "known"}
  /\ stats' = [stats EXCEPT ![w].packets = @ + 1]
  /\ at' = [at EXCEPT ![w] = IF @ = "new" THEN "flow" ELSE "pop"]
  /\ UNCHANGED <<todo, table>>

CountFlow(w) ==
  /\ at[w] = "flow"
  /\ stats' = [stats EXCEPT ![w].flows = @ + 1]
  /\ at' = [at EXCEPT ![w] = "pop"]
  /\ UNCHANGED <<todo, table>>

CountMalformed(w) ==
  /\ at[w] = "malformed"
  /\ stats' = [stats EXCEPT ![w].malformed = @ + 1]
  /\ at' = [at EXCEPT ![w] = "pop"]
  /\ UNCHANGED <<todo, table>>

Worker(w) ==
  /\ phase # "killed"
  /\ ProcessPacket(w) \/ CountPacket(w) \/ CountFlow(w) \/ CountMalformed(w)
  /\ UNCHANGED <<load, phase, export, cache, requests>>

-----------------------------------------------------------------------------
(* main and the collector.                                                 *)

(* pool.stop() has joined the workers: they have handled all they were     *)
(* handed (WorkerPool).                                                    *)
Drained == \A w \in Workers : todo[w] = 0 /\ at[w] = "pop"

(* A bug: main does not wait for the workers before its last export.       *)
StopWithoutJoin ==
  /\ phase = "running" /\ step = "none"
  /\ phase' = "stopped"
  /\ UNCHANGED <<workers, export, cache, requests>>

Stop ==
  /\ phase = "running" /\ step = "none" /\ Drained
  /\ phase' = "stopped"
  /\ UNCHANGED <<workers, export, cache, requests>>

(* The process may be killed at any point.                                 *)
Killed ==
  /\ phase \in {"running", "stopped"}
  /\ phase' = "killed"
  /\ UNCHANGED <<workers, export, cache, requests>>

(* capture_snapshot reads the counters of worker after worker, each in the *)
(* order of WorkerStats::snapshot, then their tables.                      *)
AllLoads ==
  LET ws == SetToSeq(Workers)
      n == Len(ws) IN
  [i \in 1 .. 4 * n |->
     IF i > 3 * n THEN <<ws[i - 3 * n], "table">>
     ELSE <<ws[(i + 2) \div 3],
            CASE i % 3 = 1 -> "packets"
              [] i % 3 = 2 -> "flows"
              [] i % 3 = 0 -> "malformed">>]

StartExport ==
  /\ step = "none"
  /\ phase = "stopped" \/ number < Exports
  /\ step' = "capture" /\ loads' = AllLoads
  /\ number' = number + 1
  /\ begun' = [what \in Counters |-> Total(Counted(what))]
  /\ snap' = [EmptySnapshot EXCEPT !.final = (phase = "stopped")]
  /\ UNCHANGED <<phase, file, mtime, distinct>>

LoadCounter(w, what) ==
  snap' = [snap EXCEPT ![what] = @ + stats[w][what]]

(* The flows of a table up to max_flows.  A worker that is not joined may  *)
(* change its table meanwhile, and the iteration then lists anything.      *)
LoadTable(w) ==
  \E n \in IF phase = "stopped" THEN {Min({MaxFlows, snap.listed + table[w]})}
           ELSE snap.listed .. MaxFlows :
    snap' = [snap EXCEPT !.listed = n]

Capture ==
  /\ step = "capture" /\ loads # << >>
  /\ LET w == Head(loads)[1]
         what == Head(loads)[2] IN
     \/ what = "table" /\ LoadTable(w)
     \/ what # "table" /\ LoadCounter(w, what)
  /\ loads' = Tail(loads)
  /\ UNCHANGED <<phase, step, number, begun, file, mtime, distinct>>

(* Leaving export_json_atomic, with or without success: main forgets the   *)
(* snapshot, and ends after the last one.                                  *)
Return ==
  /\ step' = "none"
  /\ phase' = IF phase = "stopped" THEN "exited" ELSE phase
  /\ begun' = NoCounts /\ snap' = EmptySnapshot

(* <file>.tmp is written, or cannot be opened or filled.                   *)
WriteTmp ==
  /\ step = "capture" /\ loads = << >>
  /\ \/ step' = "copy" /\ UNCHANGED <<phase, begun, snap>>
     \/ Return
  /\ UNCHANGED <<loads, number, file, mtime, distinct>>

(* A write may fall into the same tick of the file system's clock as the   *)
(* one before.                                                             *)
Written(chunks) ==
  /\ file' = chunks
  /\ mtime' \in {mtime, mtime + 1} \ {0}

(* copy_file empties the file and fills it again, so it is neither the old *)
(* nor the new one in between; the copy may fail with some of it written.  *)
(* The new file is told from the old one when its time is another and no   *)
(* request has a text of the old one any more.                             *)
Truncate ==
  /\ step = "copy"
  /\ Written(<< >>)
  /\ step' = "fill" /\ distinct' = (mtime' # mtime)
  /\ UNCHANGED <<phase, loads, number, begun, snap>>

HoldsOldText(c) == \E i \in DOMAIN text[c] : text[c][i] # number

Fill ==
  /\ step = "fill" /\ Len(file) < Chunks
  /\ \/ /\ Written(Append(file, number))
        /\ distinct' = /\ distinct \/ mtime' # mtime
                       /\ Len(file') = Chunks => \A c \in Clients : ~HoldsOldText(c)
        /\ UNCHANGED <<phase, step, begun, snap>>
     \/ Return /\ UNCHANGED <<file, mtime, distinct>>
  /\ UNCHANGED <<loads, number>>

RemoveTmp ==
  /\ step = "fill" /\ Len(file) = Chunks
  /\ Return
  /\ UNCHANGED <<loads, number, file, mtime, distinct>>

Export ==
  /\ phase \in {"running", "stopped"}
  /\ StartExport \/ Capture \/ WriteTmp \/ Truncate \/ Fill \/ RemoveTmp
  /\ UNCHANGED <<workers, cache, requests>>

-----------------------------------------------------------------------------
(* TelemetryService.load_snapshot, one request after the other for each    *)
(* client; the backend serves those of several clients in threads of its   *)
(* own.                                                                    *)

Respond(c, k) ==
  /\ shown' = [shown EXCEPT ![c] = k]
  /\ pc' = [pc EXCEPT ![c] = "idle"]
  /\ seen' = [seen EXCEPT ![c] = 0] /\ text' = [text EXCEPT ![c] = << >>]

Stat(c) ==
  /\ pc[c] = "idle"
  /\ \/ mtime = 0 /\ Respond(c, Placeholder)
     \/ mtime # 0 /\ cached # 0 /\ mtime = cachedAt /\ Respond(c, cached)
     \/ /\ mtime # 0 /\ (cached = 0 \/ mtime # cachedAt)
        /\ pc' = [pc EXCEPT ![c] = "reading"]
        /\ seen' = [seen EXCEPT ![c] = mtime]
        /\ UNCHANGED <<text, shown>>
  /\ UNCHANGED cache

(* f.read() goes on until it meets the end of the file, which an export    *)
(* may have moved.                                                         *)
Read(c) ==
  /\ pc[c] = "reading"
  /\ IF Len(text[c]) < Len(file)
     THEN /\ text' = [text EXCEPT ![c] = Append(@, file[Len(@) + 1])]
          /\ UNCHANGED pc
     ELSE /\ pc' = [pc EXCEPT ![c] = "parsing"]
          /\ UNCHANGED text
  /\ UNCHANGED <<seen, shown, cache>>

(* The snapshot that a text is, if it is one; a mixture of two that has    *)
(* the length of one may parse.                                            *)
Meaning(chunks) == IF chunks = Whole(chunks[1]) THEN chunks[1] ELSE Mixed

(* Text that is empty or does not parse: what was cached, or a placeholder *)
(* that is numbered 0 like the empty cache.                                *)
Parse(c) ==
  /\ pc[c] = "parsing"
  /\ \/ /\ ~\E k \in ToSet(text[c]) : text[c] = Whole(k)
        /\ Respond(c, cached) /\ UNCHANGED cached
     \/ /\ Len(text[c]) = Chunks
        /\ cached' = Meaning(text[c])
        /\ text' = [text EXCEPT ![c] = Whole(cached')]
        /\ pc' = [pc EXCEPT ![c] = "storing"]
        /\ UNCHANGED <<seen, shown>>
  /\ UNCHANGED cachedAt

(* A bug: the time of the cache is taken after the content was read.       *)
StoreTimeOfNow(c) ==
  /\ pc[c] = "storing"
  /\ cachedAt' = mtime
  /\ Respond(c, text[c][1])
  /\ UNCHANGED cached

StoreTime(c) ==
  /\ pc[c] = "storing"
  /\ cachedAt' = seen[c]
  /\ Respond(c, text[c][1])
  /\ UNCHANGED cached

Request(c) ==
  /\ Stat(c) \/ Read(c) \/ Parse(c) \/ StoreTime(c)
  /\ UNCHANGED <<workers, phase, export>>

Next ==
  \/ \E w \in Workers : Worker(w)
  \/ Stop \/ Killed \/ Export
  \/ \E c \in Clients : Request(c)

(* Threads run, and the page keeps asking (frontend/app.js polls).         *)
Fairness ==
  /\ \A w \in Workers : WF_vars(Worker(w))
  /\ WF_vars(Stop) /\ WF_vars(Export)
  /\ \A c \in Clients : WF_vars(Request(c))

Spec == Init /\ [][Next]_vars /\ Fairness

-----------------------------------------------------------------------------

(* A snapshot is put together counter by counter from other threads'       *)
(* memory.  Of running workers it counts at least what they had counted    *)
(* when it was begun and at most what they have counted now.  The last one *)
(* misses nothing: every packet of the run is in one of its counters, its  *)
(* flows are those of the tables, of which it lists as many as it may      *)
(* (main.cpp:132-138 exports after the join, docs/ARCHITECTURE.md:130).    *)
Captured == number > 0 /\ step # "none" /\ loads = << >>

WithinCapture ==
  /\ \A what \in Counters : begun[what] <= snap[what] /\ snap[what] <= Total(Counted(what))
  /\ snap.listed <= MaxFlows

EverythingCounted ==
  /\ snap.packets + snap.malformed = Total(load)
  /\ snap.flows = Total(table)
  /\ snap.listed = Min({MaxFlows, Total(table)})

SnapshotsComplete ==
  Captured => WithinCapture /\ (snap.final => EverythingCounted)

(* Once the last snapshot is in the file, every page is shown it in the    *)
(* end and from then on, whatever was cached before and however requests   *)
(* overlap with the export and with each other - if its file has another   *)
(* time than the one before, and no request still held a text of that one  *)
(* when the new file was complete (telemetry_service.py:28-43).            *)
FinalPublished == phase = "exited" /\ file = Whole(number) /\ distinct

FinalSnapshotServed ==
  \A c \in Clients :
    pc[c] # "closed" /\ FinalPublished ~> [](shown[c] = number)

(* docs/ARCHITECTURE.md:127: "ensuring the FastAPI backend never reads     *)
(* partially written JSON".                                                *)
NeverReadsPartially ==
  \A c \in Clients : pc[c] = "parsing" => Len(text[c]) \in {0, Chunks}
=============================================================================
