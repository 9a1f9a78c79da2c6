------------------------------- MODULE Ingest -------------------------------
(***************************************************************************)
(* The ingestion of a capture: main() (src/main.cpp) opens a file with     *)
(* PcapReader (src/packet/pcap_reader.cpp), reads records until the first  *)
(* call that does not succeed, and dispatches each frame by the key that   *)
(* FlowRouter extracts.  Frames models what router and parser make of it.  *)
(*                                                                         *)
(* A file is the record of its global header and its packet records.  The  *)
(* file may end anywhere: head is the number of bytes it has of its global *)
(* header, and a packet record has hdr bytes of its header and avail bytes *)
(* of the incl bytes it announces.  Byte order and time resolution are     *)
(* part of the magic number and change how numbers are stored, not which.  *)
(***************************************************************************)
EXTENDS Frames, Sequences

CONSTANTS Files,          \* the captures main() may be given
          MaxPacketSize,  \* PcapReader::max_packet_size_
          NoRoute         \* extract_flow_key returned false

Record == [hdr : 0..16, incl : Nat, avail : Nat, frame : Frame]
File == [exists : BOOLEAN, head : 0..24, magic : {"micro", "nano", "bad"},
         version : BOOLEAN, snaplen : Nat, records : Seq(Record)]

(* What a capture can be: a frame is the bytes its record announces, and   *)
(* only the last record can be cut off.                                    *)
IsCapture(fl) ==
  /\ fl \in File
  /\ \A i \in DOMAIN fl.records : LET r == fl.records[i] IN
       /\ r.frame.len = r.incl
       /\ r.avail <= r.incl
       /\ i < Len(fl.records) => r.hdr = 16 /\ r.avail = r.incl

ASSUME FilesAssumption == /\ \A fl \in Files : IsCapture(fl)
                          /\ MaxPacketSize \in Nat

VARIABLES file,    \* the file given on the command line
          phase,   \* how far main() is
          nanos,   \* is_nanosecond_resolution, copied before the loop
          next,    \* the record the stream stands at
          jobs,    \* the dispatched jobs, with the key they were routed by
          status   \* TelemetryCollector::status_
vars == <<file, phase, nanos, next, jobs, status>>

Init ==
  /\ file \in Files
  /\ phase = "opening"
  /\ nanos = FALSE
  /\ next = 1
  /\ jobs = << >>
  /\ status = "Running"

-----------------------------------------------------------------------------

(* PcapReader::open and parse_global_header.                               *)
Opens(fl) ==
  /\ fl.exists
  /\ fl.head >= 24
  /\ fl.magic # "bad"
  /\ fl.version
  /\ fl.snaplen # 0

(* A bug: the bytes that could not be read are not missed.                 *)
ReadableUnfilled(fl, i) ==
  /\ i <= Len(fl.records)
  /\ fl.records[i].hdr >= 16
  /\ fl.records[i].incl <= fl.snaplen
  /\ fl.records[i].incl <= MaxPacketSize

(* PcapReader::read_next_packet returns Success at record i.               *)
Readable(fl, i) ==
  /\ i <= Len(fl.records)
  /\ fl.records[i].hdr >= 16
  /\ fl.records[i].incl <= fl.snaplen
  /\ fl.records[i].incl <= MaxPacketSize
  /\ fl.records[i].avail >= fl.records[i].incl

(* A bug: the result of extract_flow_key is ignored, FlowKey{} is used.    *)
RouteByDefaultKey(f) ==
  IF Routable(f) THEN ExtractFlowKey(f).key
  ELSE LET nowhere == [ip |-> [v |-> 0, a |-> 0], port |-> 0] IN
       [src |-> nowhere, dst |-> nowhere, proto |-> 0]

(* WorkerPool::dispatch: the key of the frame, or worker 0 without one.    *)
Route(f) == IF Routable(f) THEN ExtractFlowKey(f).key ELSE NoRoute

Open ==
  /\ phase = "opening"
  /\ Opens(file)
  /\ phase' = "reading"
  /\ nanos' = (file.magic = "nano")
  /\ UNCHANGED <<file, next, jobs, status>>

OpenFails ==
  /\ phase = "opening"
  /\ ~ Opens(file)
  /\ phase' = "ended"
  /\ status' = "Error"
  /\ UNCHANGED <<file, nanos, next, jobs>>

ReadAndDispatch ==
  /\ phase = "reading"
  /\ Readable(file, next)
  /\ LET f == file.records[next].frame IN
       jobs' = Append(jobs, [frame |-> f, route |-> Route(f), nanos |-> nanos])
  /\ next' = next + 1
  /\ UNCHANGED <<file, phase, nanos, status>>

(* The loop ends at the first record that cannot be read, whatever the     *)
(* error, and the engine reports Completed.                                *)
EndOfInput ==
  /\ phase = "reading"
  /\ ~ Readable(file, next)
  /\ phase' = "ended"
  /\ status' = "Completed"
  /\ UNCHANGED <<file, nanos, next, jobs>>

Next == Open \/ OpenFails \/ ReadAndDispatch \/ EndOfInput

Spec == Init /\ [][Next]_vars

-----------------------------------------------------------------------------

Keys == [src : [ip : Ips, port : Int], dst : [ip : Ips, port : Int], proto : Nat]

(* The type invariant: jobs are frames with the key of main's router.      *)
TypeOK ==
  /\ IsCapture(file)
  /\ phase \in {"opening", "reading", "ended"}
  /\ nanos \in BOOLEAN
  /\ next \in Nat \ {0}
  /\ jobs \in Seq([frame : Frame, route : Keys \cup {NoRoute}, nanos : BOOLEAN])
  /\ status \in {"Running", "Completed", "Error"}

(* No byte beyond the captured frame is read by the router or the parser,  *)
(* and the payload handed to DPI lies within it, whatever lengths, header  *)
(* sizes and offsets the frame announces (flow_router.cpp:8-94,            *)
(* protocol_parser.cpp:146-328).                                           *)
DecodersStayInside ==
  \A i \in DOMAIN jobs : LET f == jobs[i].frame IN
    /\ \A e \in ParserReads(f) \cup RouterReads(f) : e <= f.len
    /\ Valid(f) => /\ Payload(f).at >= 14 /\ Payload(f).size >= 0
                   /\ Payload(f).at + Payload(f).size <= f.len

(* A frame that a worker will account to a flow was routed, and by the key *)
(* of that very flow, although router and parser decode it independently:  *)
(* else one flow would live on several workers (flow_router.cpp:7-106      *)
(* against protocol_parser.cpp:16-144 and flow_key.cpp:45-81).             *)
FlowsRoutedByTheirKey ==
  \A i \in DOMAIN jobs :
    MakesFlow(jobs[i].frame) => jobs[i].route = FromPacket(jobs[i].frame).key

(* Both directions of a conversation are one flow, told apart by their     *)
(* direction unless both ends are the same, and the direction the risk     *)
(* engine derives from the address alone agrees when the addresses differ  *)
(* (flow_key.cpp:30-43, worker_thread.cpp:92-97).                          *)
DirectionsShareOneFlow ==
  \A i \in DOMAIN jobs : LET f == jobs[i].frame IN
    MakesFlow(f) =>
      /\ MakesFlow(Reversed(f))
      /\ FromPacket(Reversed(f)).key = FromPacket(f).key
      /\ FromPacket(Reversed(f)).dir = FromPacket(f).dir
           => f.src = f.dst /\ f.sport = f.dport
      /\ f.src # f.dst => (RiskForward(f) <=> FromPacket(f).dir = "Forward")

(* What was dispatched is the longest prefix of intact records that pass   *)
(* the limits, in file order and at the file's resolution; the loop never  *)
(* skips a damaged record and never stops before one (main.cpp:117-129).   *)
IngestsReadablePrefix ==
  /\ Len(jobs) = next - 1
  /\ \A i \in DOMAIN jobs :
       /\ Opens(file) /\ i <= Len(file.records)
       /\ jobs[i].frame = file.records[i].frame
       /\ jobs[i].nanos = (file.magic = "nano")
       /\ file.records[i].hdr = 16
       /\ file.records[i].avail = jobs[i].frame.len
       /\ jobs[i].frame.len <= file.snaplen
  /\ status = "Completed" =>
       \/ next = Len(file.records) + 1
       \/ LET r == file.records[next] IN
            r.hdr < 16 \/ r.avail < r.incl \/ r.incl > file.snaplen
            \/ r.incl > MaxPacketSize
=============================================================================
