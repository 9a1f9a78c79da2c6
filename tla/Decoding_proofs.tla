-------------------------- MODULE Decoding_proofs --------------------------
(***************************************************************************)
(* The theorems of Ingest, for every set of captures and every limit, and  *)
(* of Dpi, for every set of messages and every limit.                      *)
(*                                                                         *)
(* Both are about decoders of bytes from outside, and both come down to    *)
(* facts about one input.  The properties of Ingest hold of any frame and  *)
(* carry over to the dispatched jobs because TypeOK says that jobs hold    *)
(* frames and routes computed from them.  Those of Dpi hold of any memory  *)
(* and carry over because the result is that of an inspection.             *)
(***************************************************************************)
EXTENDS Ingest, Dpi, FoldLemmas, SequenceTheorems, TLAPS

-----------------------------------------------------------------------------
(* What holds of a single frame.                                           *)

(* The fields of a frame that the arithmetic below is about.               *)
LEMMA FrameFields ==
  ASSUME NEW f \in Frame
  PROVE /\ f.len \in Nat /\ f.ihl \in Nat /\ f.total \in Nat /\ f.frag \in Nat
        /\ f.version \in Nat /\ f.proto \in Nat /\ f.doff \in Nat /\ f.ulen \in Nat
        /\ f.sport \in Nat /\ f.dport \in Nat /\ f.src \in Ips /\ f.dst \in Ips
        /\ f.tagged \in BOOLEAN
        /\ f.ether \in {"IPV4", "IPV6", "VLAN", "other"}
BY DEF Frame

(* The parser reads no byte behind the captured ones.                      *)
LEMMA ParserInside ==
  ASSUME NEW f \in Frame, NEW e \in ParserReads(f)
  PROVE e <= f.len
<1>1. CASE e = 14 /\ f.len >= 14
  BY <1>1, FrameFields
<1>2. CASE e = 14 + 20 /\ f.len - 14 >= 20
  BY <1>2, FrameFields
<1>3. CASE e = 14 + 4 * f.ihl /\ IPv4Ok(f)
  BY <1>3, FrameFields DEF IPv4Ok
<1>4. CASE e = 14 + 40 /\ f.len - 14 >= 40
  BY <1>4, FrameFields
<1>5. CASE HasSegment(f) /\ \E n \in Nat : e = SegmentAt(f) + n /\ SegmentLen(f) >= n
  <2>1. PICK n \in Nat : e = SegmentAt(f) + n /\ SegmentLen(f) >= n
    BY <1>5
  <2>2. CASE ParsesV4(f) /\ IPv4Ok(f)
    BY <2>1, <2>2, FrameFields DEF ParsesV4, IPv4Ok, SegmentAt, SegmentLen
  <2>3. CASE ParsesV6(f) /\ IPv6Ok(f)
    BY <2>1, <2>3, FrameFields DEF ParsesV6, IPv6Ok, SegmentAt, SegmentLen
  <2>q. QED BY <1>5, <2>2, <2>3 DEF HasSegment
<1>6. 4 * f.doff \in Nat
  BY FrameFields
<1>q. QED
  BY <1>1, <1>2, <1>3, <1>4, <1>5, <1>6 DEF ParserReads, TcpOk

(* The router reads no byte behind the captured ones.                      *)
LEMMA RouterInside ==
  ASSUME NEW f \in Frame, NEW e \in RouterReads(f)
  PROVE e <= f.len
BY FrameFields DEF RouterReads, RouterSees, Routable, L3At, RouterL4At

(* The payload of a valid packet lies within the frame.                    *)
LEMMA PayloadInside ==
  ASSUME NEW f \in Frame, Valid(f)
  PROVE /\ Payload(f).at >= 14 /\ Payload(f).size >= 0
        /\ Payload(f).at + Payload(f).size <= f.len
<1>1. /\ SegmentAt(f) \in Nat /\ SegmentLen(f) \in Nat
      /\ SegmentAt(f) >= 14 /\ SegmentAt(f) + SegmentLen(f) <= f.len
  <2>1. CASE ParsesV4(f) /\ IPv4Ok(f)
    BY <2>1, FrameFields DEF ParsesV4, IPv4Ok, SegmentAt, SegmentLen
  <2>2. CASE ParsesV6(f) /\ IPv6Ok(f)
    BY <2>2, FrameFields DEF ParsesV6, IPv6Ok, SegmentAt, SegmentLen
  <2>q. QED BY <2>1, <2>2 DEF Valid, HasSegment
<1>2. CASE f.proto = TCP
  <2>1. Payload(f) = [at |-> SegmentAt(f) + 4 * f.doff,
                      size |-> SegmentLen(f) - 4 * f.doff]
    BY <1>2 DEF Payload, TCP, UDP
  <2>2. SegmentLen(f) >= 4 * f.doff
    BY <1>2 DEF Valid, TcpOk
  <2>q. QED BY <1>1, <2>1, <2>2, FrameFields
<1>3. CASE f.proto = UDP
  <2>1. Payload(f) = [at |-> SegmentAt(f) + 8, size |-> f.ulen - 8]
    BY <1>3 DEF Payload, TCP, UDP
  <2>2. SegmentLen(f) >= f.ulen /\ f.ulen >= 8
    BY <1>3 DEF Valid, UdpOk
  <2>q. QED BY <1>1, <2>1, <2>2, FrameFields
<1>4. CASE f.proto \notin {TCP, UDP}
  <2>1. Payload(f) = [at |-> SegmentAt(f), size |-> SegmentLen(f)]
    BY <1>4 DEF Payload
  <2>q. QED BY <1>1, <2>1
<1>q. QED BY <1>2, <1>3, <1>4

(* Where the parser finds a segment, the router finds the same ports.      *)
LEMMA RouterAgrees ==
  ASSUME NEW f \in Frame, MakesFlow(f)
  PROVE Routable(f) /\ ExtractFlowKey(f) = FromPacket(f)
<1>1. f.proto \in {TCP, UDP} /\ Valid(f) /\ HasSegment(f)
  BY DEF MakesFlow, Valid
<1>2. SegmentLen(f) >= 8
  BY <1>1, FrameFields DEF Valid, TcpOk, UdpOk, SegmentLen, HasSegment,
     ParsesV4, ParsesV6, IPv4Ok
<1>3. CASE ParsesV4(f) /\ IPv4Ok(f) /\ f.frag = 0
  <2>1. RouterSees(f) /\ RouterV4(f) /\ RouterL4At(f) = SegmentAt(f)
    BY <1>3, FrameFields
    DEF ParsesV4, IPv4Ok, RouterSees, RouterV4, RouterL4At, SegmentAt, L3At
  <2>2. f.len >= RouterL4At(f) + 4
    BY <1>2, <1>3, <2>1, FrameFields DEF ParsesV4, IPv4Ok, SegmentAt, SegmentLen
  <2>q. QED BY <1>1, <2>1, <2>2 DEF Routable, ExtractFlowKey, FromPacket
<1>4. CASE ParsesV6(f) /\ IPv6Ok(f)
  <2>1. RouterSees(f) /\ RouterV6(f) /\ RouterL4At(f) = SegmentAt(f)
    BY <1>4, FrameFields
    DEF ParsesV6, IPv6Ok, RouterSees, RouterV6, RouterL4At, SegmentAt, L3At
  <2>2. f.len >= RouterL4At(f) + 4
    BY <1>2, <1>4, <2>1, FrameFields DEF ParsesV6, IPv6Ok, SegmentAt, SegmentLen
  <2>q. QED BY <1>1, <2>1, <2>2 DEF Routable, ExtractFlowKey, FromPacket
<1>q. QED BY <1>1, <1>3, <1>4 DEF HasSegment

(* The order of endpoints is total and asymmetric.                         *)
LEMMA EndpointsOrdered ==
  ASSUME NEW p \in [ip : Ips, port : Nat], NEW q \in [ip : Ips, port : Nat]
  PROVE /\ ~ (EndpointLess(p, q) /\ EndpointLess(q, p))
        /\ EndpointLess(p, q) \/ EndpointLess(q, p) \/ p = q
<1>1. /\ p.ip.v \in {4, 6} /\ p.ip.a \in Nat /\ q.ip.v \in {4, 6} /\ q.ip.a \in Nat
      /\ p.port \in Nat /\ q.port \in Nat
  BY DEF Ips
<1>2. p.ip.v = q.ip.v /\ p.ip.a = q.ip.a => p.ip = q.ip
  BY DEF Ips
<1>3. p.ip = q.ip /\ p.port = q.port => p = q
  OBVIOUS
<1>q. QED BY <1>1, <1>2, <1>3 DEF EndpointLess, IpLess

(* FlowKey::create gives one key for both directions, and two directions   *)
(* unless the endpoints are the same.                                      *)
LEMMA CreateSymmetric ==
  ASSUME NEW p \in [ip : Ips, port : Nat], NEW q \in [ip : Ips, port : Nat], NEW n
  PROVE /\ Create(p, q, n).key = Create(q, p, n).key
        /\ Create(p, q, n).dir = Create(q, p, n).dir => p = q
        /\ p.ip # q.ip => (p.ip = Create(p, q, n).key.src.ip
                             <=> Create(p, q, n).dir = "Forward")
<1>1. CASE EndpointLess(p, q)
  BY <1>1, EndpointsOrdered DEF Create
<1>2. CASE ~ EndpointLess(p, q)
  BY <1>2, EndpointsOrdered DEF Create
<1>q. QED BY <1>1, <1>2

LEMMA ReversedFrame ==
  ASSUME NEW f \in Frame
  PROVE /\ Reversed(f) \in Frame
        /\ MakesFlow(f) => MakesFlow(Reversed(f))
        /\ MakesFlow(f) => FromPacket(f) = Create([ip |-> f.src, port |-> f.sport],
                                   [ip |-> f.dst, port |-> f.dport], f.proto)
        /\ MakesFlow(f) =>
             FromPacket(Reversed(f)) = Create([ip |-> f.dst, port |-> f.dport],
                                   [ip |-> f.src, port |-> f.sport], f.proto)
<1> DEFINE g == Reversed(f)
<1>1. /\ g \in Frame /\ g.len = f.len /\ g.tagged = f.tagged /\ g.ether = f.ether
      /\ g.version = f.version /\ g.ihl = f.ihl /\ g.total = f.total
      /\ g.frag = f.frag /\ g.proto = f.proto /\ g.doff = f.doff /\ g.ulen = f.ulen
      /\ g.src = f.dst /\ g.dst = f.src /\ g.sport = f.dport /\ g.dport = f.sport
  BY DEF Reversed, Frame
<1>2. MakesFlow(g) = MakesFlow(f) /\ SegmentAt(g) = SegmentAt(f) /\ L4At(g) = L4At(f)
  BY <1>1 DEF MakesFlow, Valid, HasSegment, ParsesV4, ParsesV6, IPv4Ok, IPv6Ok,
     TcpOk, UdpOk, SegmentAt, SegmentLen, L4At, L3At
<1>3. MakesFlow(f) => SegmentAt(f) = L4At(f)
  BY FrameFields DEF MakesFlow, Valid, HasSegment, ParsesV4, ParsesV6,
     SegmentAt, L4At, L3At
<1>q. QED
  BY <1>1, <1>2, <1>3 DEF FromPacket, KeyFrom, PortsAt

-----------------------------------------------------------------------------
(* The invariant.  Each job is a readable record of the file, with the     *)
(* route that its frame has.                                               *)

Dispatched ==
  \A i \in 1..Len(jobs) :
    /\ Readable(file, i)
    /\ jobs[i] = [frame |-> file.records[i].frame,
                  route |-> Route(file.records[i].frame),
                  nanos |-> file.magic = "nano"]

LoopState ==
  /\ Len(jobs) = next - 1
  /\ phase = "opening" => jobs = << >> /\ status = "Running"
  /\ phase = "reading" => /\ Opens(file) /\ nanos = (file.magic = "nano")
                          /\ status = "Running"
  /\ jobs # << >> => Opens(file)
  /\ status = "Completed" => Opens(file) /\ ~ Readable(file, next)

IngestInv == TypeOK /\ Dispatched /\ LoopState

(* A route is a key of known addresses, or none.                           *)
LEMMA RouteTyped ==
  ASSUME NEW f \in Frame
  PROVE Route(f) \in Keys \cup {NoRoute}
<1> DEFINE ports == IF f.proto \in {TCP, UDP} THEN PortsAt(f, RouterL4At(f))
                                              ELSE [src |-> 0, dst |-> 0]
<1>1. RouterL4At(f) \in Int
  BY FrameFields DEF RouterL4At, L3At
<1>2. ports.src \in Int /\ ports.dst \in Int
  BY <1>1, FrameFields DEF PortsAt
<1>3. /\ [ip |-> f.src, port |-> ports.src] \in [ip : Ips, port : Int]
      /\ [ip |-> f.dst, port |-> ports.dst] \in [ip : Ips, port : Int]
  BY <1>2, FrameFields
<1>4. ExtractFlowKey(f) = Create([ip |-> f.src, port |-> ports.src],
                                 [ip |-> f.dst, port |-> ports.dst], f.proto)
  BY DEF ExtractFlowKey, KeyFrom
<1>5. ASSUME NEW p \in [ip : Ips, port : Int], NEW q \in [ip : Ips, port : Int]
      PROVE  Create(p, q, f.proto).key \in Keys
  BY FrameFields DEF Create, Keys
<1>q. QED BY <1>3, <1>4, <1>5 DEF Route

(* What a capture says of its records.                                     *)
LEMMA CaptureRecords ==
  ASSUME NEW fl, IsCapture(fl)
  PROVE /\ fl.snaplen \in Nat /\ Len(fl.records) \in Nat
        /\ DOMAIN fl.records = 1..Len(fl.records)
        /\ \A i \in 1..Len(fl.records) :
             /\ fl.records[i].hdr \in 0..16 /\ fl.records[i].incl \in Nat
             /\ fl.records[i].avail \in Nat /\ fl.records[i].frame \in Frame
             /\ fl.records[i].frame.len = fl.records[i].incl
             /\ fl.records[i].avail <= fl.records[i].incl
<1>1. fl.records \in Seq(Record) /\ fl.snaplen \in Nat
  BY DEF IsCapture, File
<1>2. \A i \in 1..Len(fl.records) : fl.records[i] \in Record
  BY <1>1
<1>3. Len(fl.records) \in Nat /\ DOMAIN fl.records = 1..Len(fl.records)
  BY <1>1
<1>4. \A i \in 1..Len(fl.records) :
        /\ fl.records[i].frame.len = fl.records[i].incl
        /\ fl.records[i].avail <= fl.records[i].incl
  BY <1>3 DEF IsCapture
<1>q. QED BY <1>1, <1>2, <1>3, <1>4 DEF Record

LEMMA InitIngestInv == Init => IngestInv
<1> SUFFICES ASSUME Init PROVE IngestInv
  OBVIOUS
<1>1. jobs = << >> /\ phase = "opening" /\ status = "Running" /\ next = 1
  BY DEF Init
<1>2. IsCapture(file) /\ nanos \in BOOLEAN
  BY FilesAssumption DEF Init
<1>3. TypeOK
  BY <1>1, <1>2 DEF TypeOK
<1>4. Len(jobs) = 0
  BY <1>1
<1>5. Dispatched
  BY <1>4 DEF Dispatched
<1>6. LoopState
  BY <1>1, <1>4 DEF LoopState
<1>q. QED BY <1>3, <1>5, <1>6 DEF IngestInv

LEMMA NextIngestInv == IngestInv /\ [Next]_vars => IngestInv'
<1> SUFFICES ASSUME IngestInv, [Next]_vars PROVE IngestInv'
  OBVIOUS
<1> USE DEF IngestInv
<1>1. CASE Open
  BY <1>1 DEF Open, TypeOK, Dispatched, LoopState
<1>2. CASE OpenFails
  BY <1>2 DEF OpenFails, TypeOK, Dispatched, LoopState
<1>3. CASE ReadAndDispatch
  <2> DEFINE f == file.records[next].frame
             job == [frame |-> f, route |-> Route(f), nanos |-> nanos]
  <2>1. IsCapture(file) /\ next \in Nat \ {0} /\ next <= Len(file.records)
    BY <1>3 DEF ReadAndDispatch, Readable, TypeOK
  <2>2. f \in Frame
    BY <2>1, CaptureRecords
  <2>3. job \in [frame : Frame, route : Keys \cup {NoRoute}, nanos : BOOLEAN]
    BY <2>2, RouteTyped DEF TypeOK
  <2>4. jobs' = Append(jobs, job) /\ next' = next + 1
        /\ UNCHANGED <<file, phase, nanos, status>>
    BY <1>3 DEF ReadAndDispatch
  <2>5. TypeOK'
    BY <2>3, <2>4 DEF TypeOK
  <2>6. /\ Len(jobs') = Len(jobs) + 1 /\ jobs'[Len(jobs) + 1] = job
        /\ \A i \in 1..Len(jobs) : jobs'[i] = jobs[i]
    BY <2>3, <2>4 DEF TypeOK
  <2>7. Len(jobs) \in Nat /\ next = Len(jobs) + 1
    BY DEF TypeOK, LoopState
  <2>8. phase = "reading" /\ Readable(file, next)
    BY <1>3 DEF ReadAndDispatch
  <2>9. Dispatched'
    BY <2>4, <2>6, <2>7, <2>8 DEF Dispatched, LoopState
  <2>10. LoopState'
    BY <2>4, <2>6, <2>7, <2>8 DEF LoopState
  <2>q. QED BY <2>5, <2>9, <2>10
<1>4. CASE EndOfInput
  BY <1>4 DEF EndOfInput, TypeOK, Dispatched, LoopState
<1>5. CASE UNCHANGED vars
  BY <1>5 DEF vars, TypeOK, Dispatched, LoopState
<1>q. QED BY <1>1, <1>2, <1>3, <1>4, <1>5 DEF Next

LEMMA IngestInvHolds == Spec => []IngestInv
  BY InitIngestInv, NextIngestInv, PTL DEF Spec

(* The jobs hold frames.                                                   *)
LEMMA JobsHoldFrames ==
  ASSUME IngestInv, NEW i \in DOMAIN jobs
  PROVE jobs[i].frame \in Frame /\ jobs[i].route = Route(jobs[i].frame)
<1> DEFINE Job == [frame : Frame, route : Keys \cup {NoRoute}, nanos : BOOLEAN]
<1>1. jobs \in Seq(Job) /\ Dispatched
  BY DEF IngestInv, TypeOK
<1> HIDE DEF Job
<1>2. i \in 1..Len(jobs) /\ jobs[i] \in Job
  BY <1>1
<1>3. jobs[i] = [frame |-> file.records[i].frame,
                 route |-> Route(file.records[i].frame),
                 nanos |-> file.magic = "nano"]
  BY <1>1, <1>2 DEF Dispatched
<1>4. jobs[i].frame = file.records[i].frame
      /\ jobs[i].route = Route(file.records[i].frame)
  BY <1>3
<1>q. QED BY <1>2, <1>4 DEF Job

-----------------------------------------------------------------------------

(* Files, jobs and routes keep their types (main.cpp:99-138).              *)
THEOREM TypeCorrectness == Spec => []TypeOK
<1>1. IngestInv => TypeOK
  BY DEF IngestInv
<1>q. QED BY <1>1, IngestInvHolds, PTL

(* Router and parser stay within the captured bytes, for every frame that  *)
(* can be written in a file (protocol_parser.cpp:16-328,                   *)
(* flow_router.cpp:7-106).                                                 *)
THEOREM MemorySafeDecoding == Spec => []DecodersStayInside
<1>1. IngestInv => DecodersStayInside
  BY JobsHoldFrames, ParserInside, RouterInside, PayloadInside
  DEF DecodersStayInside
<1>q. QED BY <1>1, IngestInvHolds, PTL

(* A flow is routed by its own key, whatever the frame looks like          *)
(* (flow_router.cpp:7-106, flow_key.cpp:45-81).                            *)
THEOREM RoutedByFlowKey == Spec => []FlowsRoutedByTheirKey
<1>1. IngestInv => FlowsRoutedByTheirKey
  BY JobsHoldFrames, RouterAgrees DEF FlowsRoutedByTheirKey, Route
<1>q. QED BY <1>1, IngestInvHolds, PTL

(* Both directions of a conversation are one flow (flow_key.cpp:30-43).    *)
THEOREM ConversationsAreOneFlow == Spec => []DirectionsShareOneFlow
<1>1. ASSUME NEW f \in Frame, MakesFlow(f)
      PROVE  /\ MakesFlow(Reversed(f))
             /\ FromPacket(Reversed(f)).key = FromPacket(f).key
             /\ FromPacket(Reversed(f)).dir = FromPacket(f).dir
                  => f.src = f.dst /\ f.sport = f.dport
             /\ f.src # f.dst => (RiskForward(f) <=> FromPacket(f).dir = "Forward")
  <2> DEFINE p == [ip |-> f.src, port |-> f.sport]
             q == [ip |-> f.dst, port |-> f.dport]
  <2>1. p \in [ip : Ips, port : Nat] /\ q \in [ip : Ips, port : Nat]
    BY FrameFields
  <2>2. FromPacket(f) = Create(p, q, f.proto)
        /\ FromPacket(Reversed(f)) = Create(q, p, f.proto)
        /\ MakesFlow(Reversed(f))
    BY <1>1, ReversedFrame
  <2>3. /\ Create(p, q, f.proto).key = Create(q, p, f.proto).key
        /\ Create(p, q, f.proto).dir = Create(q, p, f.proto).dir => p = q
        /\ p.ip # q.ip => (p.ip = Create(p, q, f.proto).key.src.ip
                             <=> Create(p, q, f.proto).dir = "Forward")
    BY <2>1, CreateSymmetric
  <2>q. QED BY <2>2, <2>3 DEF RiskForward
<1>2. IngestInv => DirectionsShareOneFlow
  BY <1>1, JobsHoldFrames DEF DirectionsShareOneFlow
<1>q. QED BY <1>2, IngestInvHolds, PTL

(* The loop dispatches the intact prefix of the capture, no less and no    *)
(* more (main.cpp:117-129, pcap_reader.cpp:160-219).                       *)
THEOREM IntactPrefixIngested == Spec => []IngestsReadablePrefix
<1>1. ASSUME IngestInv PROVE IngestsReadablePrefix
  <2>1. IsCapture(file) /\ next \in Nat \ {0}
    BY <1>1 DEF IngestInv, TypeOK
  <2>2. \A i \in DOMAIN file.records :
          /\ file.records[i].hdr \in 0..16 /\ file.records[i].incl \in Nat
          /\ file.records[i].avail \in Nat
          /\ file.records[i].frame.len = file.records[i].incl
          /\ file.records[i].avail <= file.records[i].incl
    BY <2>1, CaptureRecords
  <2>3. /\ file.snaplen \in Nat /\ Len(file.records) \in Nat
        /\ DOMAIN file.records = 1..Len(file.records)
    BY <2>1, CaptureRecords
  <2>4. DOMAIN jobs = 1..Len(jobs) /\ Len(jobs) \in Nat
    BY <1>1 DEF IngestInv, TypeOK
  <2>5. ASSUME NEW i \in DOMAIN jobs
        PROVE  /\ Opens(file) /\ i <= Len(file.records)
               /\ jobs[i].frame = file.records[i].frame
               /\ jobs[i].nanos = (file.magic = "nano")
               /\ file.records[i].hdr = 16
               /\ file.records[i].avail = jobs[i].frame.len
               /\ jobs[i].frame.len <= file.snaplen
    <3>1. i \in 1..Len(jobs) /\ Readable(file, i) /\ Opens(file)
          /\ jobs[i].frame = file.records[i].frame
          /\ jobs[i].nanos = (file.magic = "nano")
      BY <1>1, <2>4 DEF IngestInv, Dispatched, LoopState
    <3>2. i \in DOMAIN file.records
      BY <2>3, <2>4, <3>1 DEF Readable
    <3>3. Readable(file, i)
      BY <3>1
    <3> DEFINE r == file.records[i]
    <3>4. r.hdr \in 0..16 /\ r.incl \in Nat /\ r.avail \in Nat
          /\ r.frame.len = r.incl /\ r.avail <= r.incl
      BY <2>2, <3>2
    <3>5. r.hdr >= 16 /\ r.incl <= file.snaplen /\ r.avail >= r.incl
      BY <3>3 DEF Readable
    <3>6. r.hdr = 16 /\ r.avail = r.frame.len /\ r.frame.len <= file.snaplen
      <4> HIDE DEF r
      <4>1. r.hdr = 16
        BY <3>4, <3>5
      <4>2. r.avail = r.incl
        BY <3>4, <3>5
      <4>q. QED BY <3>4, <3>5, <4>1, <4>2
    <3>q. QED BY <2>3, <3>1, <3>2, <3>6
  <2>6. ASSUME status = "Completed", next # Len(file.records) + 1
        PROVE  LET r == file.records[next] IN
                 r.hdr < 16 \/ r.avail < r.incl \/ r.incl > file.snaplen
                 \/ r.incl > MaxPacketSize
    <3>1. ~ Readable(file, next) /\ Len(jobs) = next - 1
      BY <1>1, <2>6 DEF IngestInv, LoopState
    <3>2. next <= Len(file.records)
      <4>1. CASE Len(jobs) = 0
        BY <2>1, <2>3, <2>6, <3>1, <4>1
      <4>2. CASE Len(jobs) > 0
        <5>1. Len(jobs) \in DOMAIN jobs
          BY <2>4, <4>2
        <5>2. Len(jobs) <= Len(file.records)
          BY <2>5, <5>1
        <5>q. QED BY <2>1, <2>3, <2>4, <2>6, <3>1, <5>2
      <4>q. QED BY <2>4, <4>1, <4>2
    <3>3. next \in DOMAIN file.records
      BY <2>1, <2>3, <3>2
    <3>4. ~ Readable(file, next) /\ MaxPacketSize \in Nat
      BY <3>1, FilesAssumption
    <3> DEFINE r == file.records[next]
    <3>5. r.hdr \in Nat /\ r.avail \in Nat /\ r.incl \in Nat
      BY <2>2, <3>3
    <3>6. ~ (r.hdr >= 16 /\ r.incl <= file.snaplen /\ r.incl <= MaxPacketSize
             /\ r.avail >= r.incl)
      BY <3>2, <3>4 DEF Readable
    <3>7. r.hdr < 16 \/ r.avail < r.incl \/ r.incl > file.snaplen
          \/ r.incl > MaxPacketSize
      <4> HIDE DEF r
      <4>q. QED BY <2>3, <3>4, <3>5, <3>6
    <3>q. QED BY <3>7
  <2>7. Len(jobs) = next - 1
    BY <1>1 DEF IngestInv, LoopState
  <2>q. QED BY <2>5, <2>6, <2>7 DEF IngestsReadablePrefix
<1>q. QED BY <1>1, IngestInvHolds, PTL

-----------------------------------------------------------------------------
(* Bytes of a memory.                                                      *)

LEMMA AtTyped ==
  ASSUME NEW m \in Seq(Bytes), NEW i \in Nat
  PROVE  At(m, i) \in Bytes /\ At(m, i) \in Nat /\ U16(m, i) \in Nat
<1>1. ASSUME NEW j \in Nat
      PROVE  At(m, j) \in Bytes
  <2>1. Len(m) \in Nat /\ (j < Len(m) => j + 1 \in DOMAIN m /\ m[j + 1] \in Bytes)
    OBVIOUS
  <2>2. 0 \in Bytes
    BY DEF Bytes
  <2> QED
    BY <2>1, <2>2 DEF At
<1>2. At(m, i) \in Bytes /\ At(m, i + 1) \in Bytes
  BY <1>1
<1>3. ASSUME NEW x \in Bytes, NEW y \in Bytes
      PROVE  x \in Nat /\ 256 * x + y \in Nat
  BY DEF Bytes
<1>4. At(m, i) \in Nat /\ 256 * At(m, i) + At(m, i + 1) \in Nat
  BY <1>2, <1>3
<1> QED
  BY <1>2, <1>4 DEF U16

(* Two memories with the same first n bytes.                               *)
Alike(m, k, n) ==
  /\ m \in Seq(Bytes) /\ k \in Seq(Bytes)
  /\ n \in Nat /\ n <= Len(m) /\ n <= Len(k)
  /\ \A i \in Nat : i < n => At(m, i) = At(k, i)

LEMMA AlikeReads ==
  ASSUME NEW m, NEW k, NEW n, Alike(m, k, n), NEW i \in Nat
  PROVE  /\ i + 1 <= n => At(m, i) = At(k, i)
         /\ i + 2 <= n => U16(m, i) = U16(k, i)
         /\ At(m, i) \in Nat /\ U16(m, i) \in Nat
<1>1. i + 1 <= n => i < n
  BY DEF Alike
<1>2. i + 2 <= n => i < n /\ i + 1 < n
  BY DEF Alike
<1>3. At(m, i) \in Nat /\ U16(m, i) \in Nat
  BY AtTyped DEF Alike
<1> QED
  BY <1>1, <1>2, <1>3 DEF Alike, U16

LEMMA AlikeSlices ==
  ASSUME NEW m, NEW k, NEW n, Alike(m, k, n), NEW from \in Nat, NEW to \in Nat, to <= n
  PROVE  Slice(m, from, to) = Slice(k, from, to)
<1>1. /\ SubSeq(m, from + 1, to) = [i \in 1 .. (to - from) |-> m[from + i]]
      /\ SubSeq(k, from + 1, to) = [i \in 1 .. (to - from) |-> k[from + i]]
  BY DEF Alike
<1>2. ASSUME NEW i \in 1 .. (to - from)
      PROVE  m[from + i] = k[from + i]
  <2>1. /\ from + i - 1 \in Nat /\ from + i - 1 < n /\ n <= Len(m) /\ n <= Len(k)
        /\ Len(m) \in Nat /\ Len(k) \in Nat /\ n \in Nat /\ (from + i - 1) + 1 = from + i
    BY DEF Alike
  <2>2. At(m, from + i - 1) = At(k, from + i - 1)
    BY <2>1 DEF Alike
  <2> QED
    BY <2>1, <2>2 DEF At
<1> QED
  BY <1>1, <1>2 DEF Slice

-----------------------------------------------------------------------------
(* TLS.                                                                    *)

LEMMA HostNameLocal ==
  ASSUME NEW m, NEW k, NEW n, Alike(m, k, n), NEW start \in Nat, NEW end \in Nat, end <= n
  PROVE  HostName(m, start, end) = HostName(k, start, end)
<1> DEFINE Step(w, f, at) ==
             IF at + 3 > end \/ at + 3 + U16(w, at + 1) > end THEN << >>
             ELSE IF At(w, at) = 0 /\ U16(w, at + 1) > 0
                  THEN Slice(w, at + 3, at + 3 + U16(w, at + 1))
             ELSE f[at + 3 + U16(w, at + 1)]
           Walk(w, f) == f = [at \in Nat |-> Step(w, f, at)]
<1>1. ASSUME NEW f, NEW at \in Nat
      PROVE  Step(m, f, at) = Step(k, f, at)
  <2>1. CASE at + 3 > end
    BY <2>1
  <2>2. CASE ~(at + 3 > end)
    <3>1. at + 3 <= n /\ n \in Nat /\ at + 1 \in Nat
      BY <2>2 DEF Alike
    <3>2. At(m, at) = At(k, at) /\ U16(m, at + 1) = U16(k, at + 1)
      BY <3>1, AlikeReads
    <3>3. U16(m, at + 1) \in Nat
      BY <3>1, AtTyped DEF Alike
    <3>4. at + 3 + U16(m, at + 1) <= end =>
            Slice(m, at + 3, at + 3 + U16(m, at + 1)) = Slice(k, at + 3, at + 3 + U16(m, at + 1))
      BY <3>1, <3>3, AlikeSlices
    <3> DEFINE u == U16(m, at + 1)
    <3>5. u = U16(k, at + 1) /\ u \in Nat
      BY <3>2, <3>3
    <3> HIDE DEF u
    <3> QED
      BY <3>2, <3>4, <3>5 DEF u
  <2> QED
    BY <2>1, <2>2
<1> HIDE DEF Step
<1>2. ASSUME NEW f
      PROVE  Walk(m, f) <=> Walk(k, f)
  <2>1. [at \in Nat |-> Step(m, f, at)] = [at \in Nat |-> Step(k, f, at)]
    BY <1>1
  <2> QED
    BY <2>1
<1> DEFINE a == CHOOSE f : Walk(m, f)
           b == CHOOSE f : Walk(k, f)
<1>3. a = b
  <2> HIDE DEF Walk
  <2> QED
    BY <1>2, Zenon
<1>4. HostName(m, start, end) = a[start]
  BY DEF HostName, Step
<1>5. HostName(k, start, end) = b[start]
  BY DEF HostName, Step
<1> HIDE DEF a, b
<1> QED
  BY <1>3, <1>4, <1>5

(* The smaller of two numbers.                                             *)
LEMMA SmallerOf ==
  ASSUME NEW x \in Nat, NEW y \in Nat
  PROVE  Min({x, y}) = IF x <= y THEN x ELSE y
<1> DEFINE s == IF x <= y THEN x ELSE y
<1>1. s \in {x, y} /\ \A z \in {x, y} : s <= z
  OBVIOUS
<1>2. \A t \in {x, y} : (\A z \in {x, y} : t <= z) => t = s
  OBVIOUS
<1> HIDE DEF s
<1>3. Min({x, y}) = s
  BY <1>1, <1>2 DEF Min
<1> QED
  BY <1>3 DEF s

LEMMA HostInExtensionLocal ==
  ASSUME NEW m, NEW k, NEW n, Alike(m, k, n), NEW body \in Nat, NEW end \in Nat, end <= n
  PROVE  HostInExtension(m, body, end) = HostInExtension(k, body, end)
<1>1. CASE end < body + 2
  BY <1>1 DEF HostInExtension
<1>2. CASE ~(end < body + 2)
  <2>1. body + 2 <= n /\ n \in Nat
    BY <1>2 DEF Alike
  <2>2. U16(m, body) = U16(k, body) /\ U16(m, body) \in Nat
    BY <2>1, AlikeReads
  <2> DEFINE stop == Min({end, body + 2 + U16(m, body)})
  <2>3. stop \in Nat /\ stop <= end
    BY <2>2, SmallerOf
  <2>4. HostName(m, body + 2, stop) = HostName(k, body + 2, stop)
    <3> HIDE DEF stop
    <3> QED
      BY <2>1, <2>3, HostNameLocal
  <2> QED
    BY <1>2, <2>2, <2>4 DEF HostInExtension
<1> QED
  BY <1>1, <1>2

LEMMA ServerNameLocal ==
  ASSUME NEW m, NEW k, NEW n, Alike(m, k, n), NEW start \in Nat, NEW end \in Nat, end <= n
  PROVE  ServerName(m, start, end) = ServerName(k, start, end)
<1> DEFINE Step(w, f, at) ==
             IF at + 4 > end \/ at + 4 + U16(w, at + 2) > end THEN << >>
             ELSE IF U16(w, at) = 0 THEN HostInExtension(w, at + 4, at + 4 + U16(w, at + 2))
             ELSE f[at + 4 + U16(w, at + 2)]
           Walk(w, f) == f = [at \in Nat |-> Step(w, f, at)]
<1>1. ASSUME NEW f, NEW at \in Nat
      PROVE  Step(m, f, at) = Step(k, f, at)
  <2>1. CASE at + 4 > end
    BY <2>1
  <2>2. CASE ~(at + 4 > end)
    <3>1. at + 4 <= n /\ n \in Nat /\ at + 2 \in Nat
      BY <2>2 DEF Alike
    <3>2. U16(m, at) = U16(k, at) /\ U16(m, at + 2) = U16(k, at + 2)
      BY <3>1, AlikeReads
    <3> DEFINE u == U16(m, at + 2)
    <3>3. u \in Nat /\ u = U16(k, at + 2)
      BY <3>1, <3>2, AtTyped DEF Alike
    <3> HIDE DEF u
    <3>4. at + 4 + u <= end =>
            HostInExtension(m, at + 4, at + 4 + u) = HostInExtension(k, at + 4, at + 4 + u)
      BY <3>1, <3>3, HostInExtensionLocal
    <3>5. u = U16(m, at + 2)
      BY DEF u
    <3> QED
      BY <3>2, <3>3, <3>4, <3>5
  <2> QED
    BY <2>1, <2>2
<1> HIDE DEF Step
<1>2. ASSUME NEW f
      PROVE  Walk(m, f) <=> Walk(k, f)
  <2>1. [at \in Nat |-> Step(m, f, at)] = [at \in Nat |-> Step(k, f, at)]
    BY <1>1
  <2> QED
    BY <2>1
<1> DEFINE a == CHOOSE f : Walk(m, f)
           b == CHOOSE f : Walk(k, f)
<1>3. a = b
  <2> HIDE DEF Walk
  <2> QED
    BY <1>2, Zenon
<1>4. ServerName(m, start, end) = a[start]
  BY DEF ServerName, Step
<1>5. ServerName(k, start, end) = b[start]
  BY DEF ServerName, Step
<1> HIDE DEF a, b
<1> QED
  BY <1>3, <1>4, <1>5

(* The offsets of a ClientHello, as far as they were held against the end. *)
LEMMA HelloOffsets ==
  ASSUME NEW m \in Seq(Bytes)
  PROVE  /\ Suites(m) \in Nat /\ Methods(m) \in Nat /\ Extensions(m) \in Nat
         /\ \A n \in Nat : ExtensionsEnd(m, n) \in Nat /\ ExtensionsEnd(m, n) <= n
<1>1. Suites(m) \in Nat
  <2>1. At(m, 43) \in Nat
    BY AtTyped
  <2> QED
    BY <2>1 DEF Suites
<1>2. Methods(m) \in Nat
  <2>1. U16(m, Suites(m)) \in Nat
    BY <1>1, AtTyped
  <2> QED
    BY <1>1, <2>1 DEF Methods
<1>3. Extensions(m) \in Nat
  <2>1. At(m, Methods(m)) \in Nat
    BY <1>2, AtTyped
  <2> QED
    BY <1>2, <2>1 DEF Extensions
<1>4. ASSUME NEW n \in Nat
      PROVE  ExtensionsEnd(m, n) \in Nat /\ ExtensionsEnd(m, n) <= n
  <2>1. U16(m, Extensions(m)) \in Nat
    BY <1>3, AtTyped
  <2> QED
    BY <1>3, <2>1, SmallerOf DEF ExtensionsEnd
<1> QED
  BY <1>1, <1>2, <1>3, <1>4

LEMMA SniLocal ==
  ASSUME NEW m, NEW k, NEW n, Alike(m, k, n), 44 <= n
  PROVE  Sni(m, n) = Sni(k, n)
<1>1. m \in Seq(Bytes) /\ k \in Seq(Bytes) /\ n \in Nat
  BY DEF Alike
<1>2. Suites(m) = Suites(k)
  <2>1. At(m, 43) = At(k, 43)
    BY <1>1, AlikeReads
  <2> QED
    BY <2>1 DEF Suites
<1>3. Suites(m) + 2 <= n => Methods(m) = Methods(k)
  <2>1. Suites(m) \in Nat
    BY <1>1, HelloOffsets
  <2>2. Suites(m) + 2 <= n => U16(m, Suites(m)) = U16(k, Suites(m))
    BY <2>1, AlikeReads
  <2> QED
    BY <1>2, <2>2 DEF Methods
<1>4. Suites(m) + 2 <= n /\ Methods(m) + 1 <= n => Extensions(m) = Extensions(k)
  <2>1. Methods(m) \in Nat
    BY <1>1, HelloOffsets
  <2>2. Methods(m) + 1 <= n => At(m, Methods(m)) = At(k, Methods(m))
    BY <2>1, AlikeReads
  <2> QED
    BY <1>3, <2>2 DEF Extensions
<1>5. HasExtensions(m, n) <=> HasExtensions(k, n)
  BY <1>2, <1>3, <1>4 DEF HasExtensions
<1>6. CASE ~HasExtensions(m, n)
  BY <1>5, <1>6 DEF Sni
<1>7. CASE HasExtensions(m, n)
  <2>1. Extensions(m) = Extensions(k) /\ Extensions(m) + 2 <= n /\ Extensions(m) \in Nat
    BY <1>1, <1>4, <1>7, HelloOffsets DEF HasExtensions
  <2>2. ExtensionsEnd(m, n) = ExtensionsEnd(k, n)
    <3>1. U16(m, Extensions(m)) = U16(k, Extensions(m))
      BY <2>1, AlikeReads
    <3> QED
      BY <2>1, <3>1 DEF ExtensionsEnd
  <2>3. ExtensionsEnd(m, n) \in Nat /\ ExtensionsEnd(m, n) <= n
    BY <1>1, HelloOffsets
  <2> DEFINE x == Extensions(m) + 2
             e == ExtensionsEnd(m, n)
  <2>4. ServerName(m, x, e) = ServerName(k, x, e)
    <3>1. x \in Nat /\ e \in Nat /\ e <= n
      BY <2>1, <2>3
    <3> HIDE DEF x, e
    <3> QED
      BY <3>1, ServerNameLocal
  <2> QED
    BY <1>5, <1>7, <2>1, <2>2, <2>4 DEF Sni
<1> QED
  BY <1>6, <1>7

LEMMA ClientHelloLocal ==
  ASSUME NEW m, NEW k, NEW n, Alike(m, k, n)
  PROVE  ClientHello(m, n) <=> ClientHello(k, n)
<1>1. CASE ~(n >= 44)
  BY <1>1 DEF ClientHello
<1>2. CASE n >= 44
  <2>1. n \in Nat
    BY DEF Alike
  <2>2. At(m, 0) = At(k, 0) /\ At(m, 5) = At(k, 5)
    BY <1>2, <2>1, AlikeReads
  <2>3. U16(m, 1) = U16(k, 1) /\ U16(m, 3) = U16(k, 3)
    BY <1>2, <2>1, AlikeReads
  <2> QED
    BY <2>2, <2>3 DEF ClientHello
<1> QED
  BY <1>1, <1>2

-----------------------------------------------------------------------------
(* Searching.                                                              *)

LEMMA MinFacts ==
  ASSUME NEW T \in SUBSET Nat, T # {}
  PROVE  Min(T) \in T /\ \A y \in T : Min(T) <= y
<1>1. \E x \in T : \A y \in T : x <= y
  BY LeastNatural
<1> QED
  BY <1>1 DEF Min

LEMMA MaxFacts ==
  ASSUME NEW T \in SUBSET Nat, T # {}, NEW b \in Nat, \A y \in T : y <= b
  PROVE  Max(T) \in T /\ \A y \in T : y <= Max(T)
<1> DEFINE U == {d \in Nat : \E y \in T : d = b - y}
<1>1. PICK t \in T : TRUE
  OBVIOUS
<1>2. U \in SUBSET Nat /\ b - t \in U
  OBVIOUS
<1>3. PICK d \in U : \A e \in U : d <= e
  BY <1>2, LeastNatural
<1>4. PICK x \in T : d = b - x
  BY <1>3
<1>5. ASSUME NEW y \in T PROVE y <= x
  <2>1. b - y \in U /\ y \in Nat /\ x \in Nat
    OBVIOUS
  <2>2. b - x <= b - y
    BY <1>3, <1>4, <2>1
  <2> QED
    BY <2>1, <2>2
<1>6. \E z \in T : \A y \in T : z >= y
  BY <1>5
<1>7. Max(T) \in T /\ \A y \in T : Max(T) >= y
  BY <1>6 DEF Max
<1> QED
  BY <1>7

LEMMA FindFacts ==
  ASSUME NEW m, NEW c, NEW from \in Nat, NEW to \in Nat
  PROVE  /\ Find(m, c, from, to) \in Nat /\ Find(m, c, from, to) <= to
         /\ from <= to => from <= Find(m, c, from, to)
         /\ Find(m, c, from, to) < to =>
              from <= Find(m, c, from, to) /\ At(m, Find(m, c, from, to)) = c
         /\ \A i \in Nat : from <= i /\ i < Find(m, c, from, to) => At(m, i) # c
<1> DEFINE T == {i \in from .. to - 1 : At(m, i) = c} \cup {to}
<1>1. T \in SUBSET Nat /\ T # {}
  OBVIOUS
<1>2. Min(T) \in T /\ \A y \in T : Min(T) <= y
  <2> HIDE DEF T
  <2> QED
    BY <1>1, MinFacts
<1> DEFINE x == Min(T)
<1>3. x \in T /\ \A y \in T : x <= y
  BY <1>2
<1>4. Find(m, c, from, to) = x
  BY DEF Find
<1> HIDE DEF x
<1>5. x \in Nat /\ x <= to /\ (from <= to => from <= x)
      /\ (x < to => from <= x /\ At(m, x) = c)
  BY <1>3
<1>6. ASSUME NEW i \in Nat, from <= i, i < x PROVE At(m, i) # c
  <2>1. i \in from .. to - 1
    BY <1>5, <1>6
  <2>2. ~(x <= i)
    BY <1>5, <1>6
  <2> QED
    BY <1>3, <2>1, <2>2
<1> QED
  BY <1>4, <1>5, <1>6

LEMMA FindLocal ==
  ASSUME NEW m, NEW k, NEW n, Alike(m, k, n), NEW c,
         NEW from \in Nat, NEW to \in Nat, to <= n
  PROVE  Find(m, c, from, to) = Find(k, c, from, to)
<1>1. ASSUME NEW i \in from .. to - 1 PROVE At(m, i) = At(k, i)
  <2>1. i \in Nat /\ i + 1 <= n
    BY DEF Alike
  <2> QED
    BY <2>1, AlikeReads
<1>2. {i \in from .. to - 1 : At(m, i) = c} = {i \in from .. to - 1 : At(k, i) = c}
  BY <1>1
<1> QED
  BY <1>2 DEF Find

LEMMA WithoutCrFacts ==
  ASSUME NEW m, NEW from \in Nat, NEW to \in Nat
  PROVE  /\ WithoutCr(m, from, to) \in Nat /\ WithoutCr(m, from, to) <= to
         /\ to - 1 <= WithoutCr(m, from, to)
         /\ from <= to => from <= WithoutCr(m, from, to)
         /\ WithoutCr(m, from, to) # to => from < to /\ At(m, to - 1) = CR
BY DEF WithoutCr

LEMMA WithoutCrLocal ==
  ASSUME NEW m, NEW k, NEW n, Alike(m, k, n), NEW from \in Nat, NEW to \in Nat, to <= n
  PROVE  WithoutCr(m, from, to) = WithoutCr(k, from, to)
<1>1. CASE ~(to > from)
  BY <1>1 DEF WithoutCr
<1>2. CASE to > from
  <2>1. to - 1 \in Nat /\ (to - 1) + 1 <= n
    BY <1>2 DEF Alike
  <2>2. At(m, to - 1) = At(k, to - 1)
    BY <2>1, AlikeReads
  <2> QED
    BY <2>2 DEF WithoutCr
<1> QED
  BY <1>1, <1>2

-----------------------------------------------------------------------------
(* HTTP.                                                                   *)

LEMMA LineStopFacts ==
  ASSUME NEW m, NEW p \in Nat, NEW end \in Nat, p <= end
  PROVE  LineStop(m, p, end) \in Nat /\ p <= LineStop(m, p, end) /\ LineStop(m, p, end) <= end
<1> DEFINE f == Find(m, LF, p, end)
<1>1. f \in Nat /\ p <= f /\ f <= end
  BY FindFacts
<1> HIDE DEF f
<1>2. /\ WithoutCr(m, p, f) \in Nat /\ p <= WithoutCr(m, p, f) /\ WithoutCr(m, p, f) <= f
  BY <1>1, WithoutCrFacts
<1> QED
  BY <1>1, <1>2 DEF LineStop, f

LEMMA LineStopLocal ==
  ASSUME NEW m, NEW k, NEW n, Alike(m, k, n), NEW p \in Nat, NEW end \in Nat, end <= n
  PROVE  LineStop(m, p, end) = LineStop(k, p, end)
<1> DEFINE f == Find(m, LF, p, end)
<1>1. f \in Nat /\ f <= n /\ f = Find(k, LF, p, end)
  BY FindFacts, FindLocal DEF Alike
<1> HIDE DEF f
<1>2. WithoutCr(m, p, f) = WithoutCr(k, p, f)
  BY <1>1, WithoutCrLocal
<1> QED
  BY <1>1, <1>2 DEF LineStop, f

(* The characters of a header value that are no blanks.                    *)
Solid(m, from, to) == {i \in from .. to - 1 : At(m, i) \notin {SP, TAB}}

LEMMA SolidFacts ==
  ASSUME NEW m, NEW from \in Nat, NEW to \in Nat, Solid(m, from, to) # {}
  PROVE  LET lo == Min(Solid(m, from, to))
             hi == Max(Solid(m, from, to)) IN
         /\ lo \in Solid(m, from, to) /\ hi \in Solid(m, from, to)
         /\ \A i \in Solid(m, from, to) : lo <= i /\ i <= hi
         /\ lo \in Nat /\ hi \in Nat /\ from <= lo /\ lo <= hi /\ hi + 1 <= to
<1> DEFINE S == Solid(m, from, to)
<1>1. S \in SUBSET Nat /\ S # {} /\ (\A y \in S : y <= to)
      /\ \A y \in S : from <= y /\ y + 1 <= to
  BY DEF Solid
<1> HIDE DEF S
<1>2. Min(S) \in S /\ \A y \in S : Min(S) <= y
  BY <1>1, MinFacts
<1>3. Max(S) \in S /\ \A y \in S : y <= Max(S)
  BY <1>1, MaxFacts
<1>4. /\ Min(S) \in Nat /\ Max(S) \in Nat /\ from <= Min(S) /\ Min(S) <= Max(S)
      /\ Max(S) + 1 <= to
  BY <1>1, <1>2, <1>3
<1> QED
  BY <1>2, <1>3, <1>4 DEF S

LEMMA HostValueIs ==
  ASSUME NEW m, NEW from, NEW to
  PROVE  HostValue(m, from, to) =
           IF Solid(m, from, to) = {} THEN << >>
           ELSE Slice(m, Min(Solid(m, from, to)),
                      Find(m, COLON, Min(Solid(m, from, to)), Max(Solid(m, from, to)) + 1))
BY DEF HostValue, Solid

LEMMA HostValueLocal ==
  ASSUME NEW m, NEW k, NEW n, Alike(m, k, n), NEW from \in Nat, NEW to \in Nat, to <= n
  PROVE  HostValue(m, from, to) = HostValue(k, from, to)
<1>1. ASSUME NEW i \in from .. to - 1 PROVE At(m, i) = At(k, i)
  <2>1. i \in Nat /\ i + 1 <= n
    BY DEF Alike
  <2> QED
    BY <2>1, AlikeReads
<1>2. Solid(m, from, to) = Solid(k, from, to)
  BY <1>1 DEF Solid
<1>3. CASE Solid(m, from, to) = {}
  BY <1>2, <1>3, HostValueIs
<1>4. CASE Solid(m, from, to) # {}
  <2> DEFINE lo == Min(Solid(m, from, to))
             hi == Max(Solid(m, from, to))
             f == Find(m, COLON, lo, hi + 1)
  <2>1. lo \in Nat /\ hi \in Nat /\ hi + 1 <= to
    BY <1>4, SolidFacts
  <2>2. HostValue(m, from, to) = Slice(m, lo, f)
    BY <1>4, HostValueIs
  <2>3. HostValue(k, from, to) = Slice(k, lo, Find(k, COLON, lo, hi + 1))
    BY <1>2, <1>4, HostValueIs
  <2> HIDE DEF lo, hi
  <2>4. hi + 1 \in Nat /\ hi + 1 <= n
    BY <2>1 DEF Alike
  <2>5. f = Find(k, COLON, lo, hi + 1) /\ f \in Nat /\ f <= hi + 1
    BY <2>1, <2>4, FindLocal, FindFacts
  <2> HIDE DEF f
  <2>6. f <= n
    BY <2>4, <2>5 DEF Alike
  <2>7. Slice(m, lo, f) = Slice(k, lo, f)
    BY <2>1, <2>5, <2>6, AlikeSlices
  <2> QED
    BY <2>2, <2>3, <2>5, <2>7
<1> QED
  BY <1>3, <1>4

LEMMA HostOfLineIs ==
  ASSUME NEW m, NEW p, NEW end
  PROVE  HostOfLine(m, p, end) =
           IF /\ Find(m, COLON, p, LineStop(m, p, end)) = p + 1
              /\ Find(m, COLON, p, LineStop(m, p, end)) < LineStop(m, p, end)
              /\ At(m, p) \in HostNames
           THEN HostValue(m, Find(m, COLON, p, LineStop(m, p, end)) + 1, LineStop(m, p, end))
           ELSE << >>
BY DEF HostOfLine

LEMMA HostOfLineLocal ==
  ASSUME NEW m, NEW k, NEW n, Alike(m, k, n), NEW p \in Nat, NEW end \in Nat,
         p < end, end <= n
  PROVE  HostOfLine(m, p, end) = HostOfLine(k, p, end)
<1> DEFINE s == LineStop(m, p, end)
           c == Find(m, COLON, p, s)
<1>1. s \in Nat /\ s <= end /\ s = LineStop(k, p, end)
  BY LineStopFacts, LineStopLocal
<1> HIDE DEF s
<1>2. s <= n /\ p + 1 <= n
  BY <1>1 DEF Alike
<1>3. c \in Nat /\ c = Find(k, COLON, p, s)
  BY <1>1, <1>2, FindFacts, FindLocal
<1> HIDE DEF c
<1>4. HostValue(m, c + 1, s) = HostValue(k, c + 1, s)
  BY <1>1, <1>2, <1>3, HostValueLocal
<1>5. At(m, p) = At(k, p)
  BY <1>2, AlikeReads
<1> QED
  BY <1>1, <1>3, <1>4, <1>5, HostOfLineIs DEF s, c

(* A line that decides, and where a line begins.                           *)
Begins(m, start, p) == p = start \/ At(m, p - 1) = LF
Decides(m, p, end) == LineStop(m, p, end) = p \/ HostOfLine(m, p, end) # << >>

LEMMA DecidingLinesAre ==
  ASSUME NEW m, NEW start, NEW end
  PROVE  DecidingLines(m, start, end) =
           {p \in start .. end - 1 : Begins(m, start, p) /\ Decides(m, p, end)}
BY DEF DecidingLines, Begins, Decides

LEMMA HeadersLocal ==
  ASSUME NEW m, NEW k, NEW n, Alike(m, k, n), NEW start \in Nat, NEW end \in Nat, end <= n
  PROVE  Headers(m, start, end) = Headers(k, start, end)
<1>1. ASSUME NEW p \in start .. end - 1
      PROVE  /\ Begins(m, start, p) <=> Begins(k, start, p)
             /\ HostOfLine(m, p, end) = HostOfLine(k, p, end)
             /\ Decides(m, p, end) <=> Decides(k, p, end)
  <2>1. p \in Nat /\ p < end /\ start <= p
    OBVIOUS
  <2>2. LineStop(m, p, end) = LineStop(k, p, end)
    BY <2>1, LineStopLocal
  <2>3. HostOfLine(m, p, end) = HostOfLine(k, p, end)
    BY <2>1, HostOfLineLocal
  <2>4. p # start => At(m, p - 1) = At(k, p - 1)
    <3>1. p # start => p - 1 \in Nat /\ (p - 1) + 1 <= n
      BY <2>1 DEF Alike
    <3> QED
      BY <3>1, AlikeReads
  <2> QED
    BY <2>2, <2>3, <2>4 DEF Begins, Decides
<1> DEFINE lines == DecidingLines(m, start, end)
<1>2. lines = DecidingLines(k, start, end)
  BY <1>1, DecidingLinesAre
<1>3. lines # {} => Min(lines) \in start .. end - 1
  <2>1. lines \in SUBSET Nat /\ lines \subseteq start .. end - 1
    BY DecidingLinesAre
  <2> HIDE DEF lines
  <2> QED
    BY <2>1, MinFacts
<1> HIDE DEF lines
<1>4. lines # {} => HostOfLine(m, Min(lines), end) = HostOfLine(k, Min(lines), end)
  BY <1>1, <1>3
<1> QED
  BY <1>2, <1>4 DEF Headers, lines

LEMMA ScanEndFacts ==
  ASSUME NEW n \in Nat, NEW start \in Nat
  PROVE  ScanEnd(n, start) = (IF start <= MaxScan /\ MaxScan < n THEN MaxScan ELSE n)
<1>1. MaxScan \in Nat
  BY DpiAssumption
<1> QED
  BY <1>1, SmallerOf DEF ScanEnd

(* The spaces of the request line.                                         *)
SpacesTo(m, stop) == {i \in 0 .. stop - 1 : At(m, i) = SP}
RequestStop(m, n) == WithoutCr(m, 0, Find(m, LF, 0, n))

LEMMA RequestLineIs ==
  ASSUME NEW m, NEW n
  PROVE  RequestLine(m, n) <=>
           /\ n >= MinRequest
           /\ At(m, 0) = METHOD /\ At(m, 1) = SP
           /\ Find(m, LF, 0, n) < n
           /\ Max(SpacesTo(m, RequestStop(m, n))) > Min(SpacesTo(m, RequestStop(m, n)))
           /\ Slice(m, Max(SpacesTo(m, RequestStop(m, n))) + 1, RequestStop(m, n)) = <<VERSION>>
BY DEF RequestLine, SpacesTo, RequestStop

(* The request line has its first space, the one behind the method.        *)
LEMMA SpacesFacts ==
  ASSUME NEW m, NEW stop \in Nat, 2 <= stop, At(m, 1) = SP
  PROVE  /\ Max(SpacesTo(m, stop)) \in Nat /\ Max(SpacesTo(m, stop)) < stop
         /\ Min(SpacesTo(m, stop)) \in Nat
<1> DEFINE S == SpacesTo(m, stop)
<1>1. S \in SUBSET Nat /\ 1 \in S /\ \A y \in S : y < stop /\ y <= stop
  BY DEF SpacesTo
<1> HIDE DEF S
<1>2. Min(S) \in S /\ Max(S) \in S
  BY <1>1, MinFacts, MaxFacts
<1> QED
  BY <1>1, <1>2 DEF S

LEMMA RequestStopFacts ==
  ASSUME NEW m, NEW n \in Nat, n >= MinRequest, At(m, 0) = METHOD, At(m, 1) = SP
  PROVE  /\ RequestStop(m, n) \in Nat /\ 2 <= RequestStop(m, n)
         /\ RequestStop(m, n) <= Find(m, LF, 0, n)
<1> DEFINE f == Find(m, LF, 0, n)
<1>1. f \in Nat /\ f <= n /\ (f < n => At(m, f) = LF)
  BY FindFacts
<1>2. f # 0 /\ f # 1
  BY <1>1 DEF METHOD, SP, LF, MinRequest
<1> HIDE DEF f
<1>3. WithoutCr(m, 0, f) \in Nat /\ WithoutCr(m, 0, f) <= f /\ f - 1 <= WithoutCr(m, 0, f)
      /\ (WithoutCr(m, 0, f) # f => At(m, f - 1) = CR)
  BY <1>1, WithoutCrFacts
<1>4. ~(WithoutCr(m, 0, f) = 1)
  <2>1. WithoutCr(m, 0, f) = 1 => f = 2 /\ f - 1 = 1
    BY <1>1, <1>2, <1>3
  <2> QED
    BY <1>3, <2>1 DEF CR, SP
<1> QED
  BY <1>1, <1>2, <1>3, <1>4 DEF RequestStop, f

LEMMA RequestLineLocal ==
  ASSUME NEW m, NEW k, NEW n, Alike(m, k, n), n >= MinRequest
  PROVE  RequestLine(m, n) <=> RequestLine(k, n)
<1>1. n \in Nat /\ At(m, 0) = At(k, 0) /\ At(m, 1) = At(k, 1)
  <2>1. n \in Nat /\ 0 + 1 <= n /\ 1 + 1 <= n
    BY DEF Alike, MinRequest
  <2> QED
    BY <2>1, AlikeReads
<1>2. CASE ~(At(m, 0) = METHOD /\ At(m, 1) = SP)
  BY <1>1, <1>2, RequestLineIs
<1>3. CASE At(m, 0) = METHOD /\ At(m, 1) = SP
  <2> DEFINE f == Find(m, LF, 0, n)
             s == RequestStop(m, n)
             T == SpacesTo(m, s)
  <2>1. f \in Nat /\ f <= n /\ f = Find(k, LF, 0, n)
    BY <1>1, FindFacts, FindLocal
  <2>2. s \in Nat /\ 2 <= s /\ s <= f
    BY <1>1, <1>3, RequestStopFacts
  <2>3. s = RequestStop(k, n)
    <3> HIDE DEF f
    <3>1. WithoutCr(m, 0, f) = WithoutCr(k, 0, f)
      BY <2>1, WithoutCrLocal
    <3> QED
      BY <2>1, <3>1 DEF RequestStop, f
  <2> HIDE DEF s
  <2>4. T = SpacesTo(k, s)
    <3>1. ASSUME NEW i \in 0 .. s - 1 PROVE At(m, i) = At(k, i)
      <4>1. i \in Nat /\ i + 1 <= n
        BY <1>1, <2>1, <2>2
      <4> QED
        BY <4>1, AlikeReads
    <3> QED
      BY <3>1 DEF SpacesTo
  <2>5. Max(T) \in Nat
    BY <1>3, <2>2, SpacesFacts
  <2> HIDE DEF T
  <2>6. s <= n
    BY <1>1, <2>1, <2>2
  <2>7. Slice(m, Max(T) + 1, s) = Slice(k, Max(T) + 1, s)
    BY <2>2, <2>5, <2>6, AlikeSlices
  <2> QED
    BY <1>1, <2>1, <2>3, <2>4, <2>7, RequestLineIs DEF s, T
<1> QED
  BY <1>2, <1>3

LEMMA ParseRequestLocal ==
  ASSUME NEW m, NEW k, NEW n, Alike(m, k, n)
  PROVE  ParseRequest(m, n) = ParseRequest(k, n)
<1>1. CASE ~(n >= MinRequest)
  BY <1>1, RequestLineIs DEF ParseRequest
<1>2. CASE n >= MinRequest
  <2> DEFINE start == Find(m, LF, 0, n) + 1
             e == ScanEnd(n, start)
  <2>1. n \in Nat /\ start \in Nat /\ start = Find(k, LF, 0, n) + 1
    <3>1. n \in Nat /\ n <= n
      BY DEF Alike
    <3> QED
      BY <3>1, FindFacts, FindLocal
  <2>2. RequestLine(m, n) <=> RequestLine(k, n)
    BY <1>2, RequestLineLocal
  <2> HIDE DEF start
  <2>3. e \in Nat /\ e <= n
    <3>1. MaxScan \in Nat
      BY DpiAssumption
    <3> QED
      BY <2>1, <3>1, ScanEndFacts
  <2>4. Headers(m, start, e) = Headers(k, start, e)
    <3> HIDE DEF e
    <3> QED
      BY <2>1, <2>3, HeadersLocal
  <2> QED
    BY <2>1, <2>2, <2>4 DEF ParseRequest, start
<1> QED
  BY <1>1, <1>2

-----------------------------------------------------------------------------
(* DNS.                                                                    *)

(* What a cursor reads before it is refused or goes on.                    *)
LEMMA CursorLocal ==
  ASSUME NEW m, NEW k, NEW n, Alike(m, k, n), NEW c \in Cursors
  PROVE  /\ Refused(m, n, c) <=> Refused(k, n, c)
         /\ ~Refused(m, n, c) =>
              /\ At(m, c.at) = At(k, c.at)
              /\ At(m, c.at) >= 192 => Followed(m, c) = Followed(k, c)
              /\ At(m, c.at) # 0 /\ ~(At(m, c.at) >= 192) => BehindLabel(m, c) = BehindLabel(k, c)
<1>1. c.at \in Nat /\ n \in Nat
  BY DEF Cursors, Alike
<1>2. CASE c.at >= n
  BY <1>2 DEF Refused
<1>3. CASE ~(c.at >= n)
  <2> DEFINE b == At(m, c.at)
  <2>1. b = At(k, c.at) /\ b \in Bytes
    <3>1. c.at + 1 <= n
      BY <1>1, <1>3
    <3>2. b = At(k, c.at)
      BY <1>1, <3>1, AlikeReads
    <3> QED
      BY <1>1, <3>2, AtTyped DEF Alike
  <2>2. c.at + 1 < n => At(m, c.at + 1) = At(k, c.at + 1)
    <3>1. c.at + 1 < n => (c.at + 1) + 1 <= n /\ c.at + 1 \in Nat
      BY <1>1
    <3> QED
      BY <3>1, AlikeReads
  <2>3. c.at + 1 < n => Pointer(m, c.at) = Pointer(k, c.at)
    BY <2>1, <2>2 DEF Pointer
  <2>4. Refused(m, n, c) <=> Refused(k, n, c)
    <3> DEFINE last == c.at + 1 >= n
               leads == Pointer(m, c.at) >= n
    <3>1. ~last => (leads <=> Pointer(k, c.at) >= n)
      <4>1. ~last => c.at + 1 < n
        BY <1>1
      <4> QED
        BY <2>3, <4>1
    <3>2. Refused(m, n, c) <=>
            \/ c.at >= n \/ c.at \in c.visited
            \/ b = 0 /\ c.name = << >>
            \/ b \in 1 .. 63 /\ c.at + 1 + b > n
            \/ b \in 64 .. 191
            \/ b >= 192 /\ (last \/ c.jumps = MaxJumps \/ leads)
      BY DEF Refused
    <3>3. Refused(k, n, c) <=>
            \/ c.at >= n \/ c.at \in c.visited
            \/ b = 0 /\ c.name = << >>
            \/ b \in 1 .. 63 /\ c.at + 1 + b > n
            \/ b \in 64 .. 191
            \/ b >= 192 /\ (last \/ c.jumps = MaxJumps \/ Pointer(k, c.at) >= n)
      BY <2>1 DEF Refused
    <3> HIDE DEF b, last, leads
    <3> QED
      BY <3>1, <3>2, <3>3, Zenon
  <2>5. ASSUME ~Refused(m, n, c), b >= 192
        PROVE  Followed(m, c) = Followed(k, c)
    <3>1. c.at + 1 < n
      <4>1. ~(b >= 192 /\ (c.at + 1 >= n \/ c.jumps = MaxJumps \/ Pointer(m, c.at) >= n))
        BY <2>5 DEF Refused
      <4> HIDE DEF b
      <4> QED
        BY <1>1, <2>5, <4>1
    <3> QED
      BY <2>3, <3>1 DEF Followed
  <2>6. ASSUME ~Refused(m, n, c), b # 0, ~(b >= 192)
        PROVE  BehindLabel(m, c) = BehindLabel(k, c)
    <3>1. b \in 1 .. 63 /\ c.at + 1 + b <= n
      <4>1. ~(b \in 64 .. 191) /\ ~(b \in 1 .. 63 /\ c.at + 1 + b > n)
        BY <2>6 DEF Refused
      <4>2. b \in 1 .. 63
        BY <2>1, <2>6, <4>1 DEF Bytes
      <4> QED
        BY <1>1, <4>1, <4>2
    <3> DEFINE e == c.at + 1 + b
    <3>2. e \in Nat /\ e <= n /\ c.at + 1 \in Nat
      BY <1>1, <3>1
    <3>3. e = c.at + 1 + At(k, c.at)
      BY <2>1
    <3> HIDE DEF e
    <3>4. Slice(m, c.at + 1, e) = Slice(k, c.at + 1, e)
      BY <3>2, AlikeSlices
    <3> QED
      BY <3>3, <3>4 DEF BehindLabel, e
  <2> QED
    BY <2>1, <2>4, <2>5, <2>6
<1> QED
  BY <1>2, <1>3

LEMMA QuestionLocal ==
  ASSUME NEW m, NEW k, NEW n, Alike(m, k, n), NEW c \in Cursors
  PROVE  Question(m, n, c) = Question(k, n, c)
<1> DEFINE past == IF c.after = 0 THEN c.at + 1 ELSE c.after
<1>1. past \in Nat /\ n \in Nat
  BY DEF Cursors, Alike
<1> HIDE DEF past
<1>2. past + 4 <= n => U16(m, past) = U16(k, past)
  <2>1. past + 4 <= n => past + 2 <= n
    BY <1>1
  <2> QED
    BY <1>1, <2>1, AlikeReads
<1>3. ASSUME NEW w
      PROVE  Question(w, n, c) =
               [Found("DNS", c.name) EXCEPT !.qtype = IF past + 4 <= n THEN U16(w, past) ELSE 0]
  BY DEF Question, past
<1> QED
  BY <1>2, <1>3

LEMMA QNameLocal ==
  ASSUME NEW m, NEW k, NEW n, Alike(m, k, n), NEW start
  PROVE  QName(m, n, start) = QName(k, n, start)
<1> DEFINE Step(w, f, c) ==
             IF Refused(w, n, c) THEN NoMatch
             ELSE IF At(w, c.at) = 0 THEN Question(w, n, c)
             ELSE f[IF At(w, c.at) >= 192 THEN Followed(w, c) ELSE BehindLabel(w, c)]
           Walk(w, f) == f = [c \in Cursors |-> Step(w, f, c)]
<1>1. ASSUME NEW f, NEW c \in Cursors
      PROVE  Step(m, f, c) = Step(k, f, c)
  <2>1. Question(m, n, c) = Question(k, n, c)
    BY QuestionLocal
  <2>2. CASE Refused(m, n, c)
    BY <2>2, CursorLocal
  <2>3. CASE ~Refused(m, n, c)
    <3>1. ~Refused(k, n, c) /\ At(m, c.at) = At(k, c.at)
      BY <2>3, CursorLocal
    <3>2. CASE At(m, c.at) = 0
      BY <2>1, <2>3, <3>1, <3>2
    <3>3. CASE At(m, c.at) >= 192 /\ At(m, c.at) # 0
      <4>1. Followed(m, c) = Followed(k, c)
        BY <2>3, <3>3, CursorLocal
      <4> QED
        BY <2>3, <3>1, <3>3, <4>1
    <3>4. CASE ~(At(m, c.at) >= 192) /\ At(m, c.at) # 0
      <4>1. BehindLabel(m, c) = BehindLabel(k, c)
        BY <2>3, <3>4, CursorLocal
      <4> QED
        BY <2>3, <3>1, <3>4, <4>1
    <3> QED
      BY <3>2, <3>3, <3>4
  <2> QED
    BY <2>2, <2>3
<1> HIDE DEF Step
<1>2. ASSUME NEW f
      PROVE  Walk(m, f) <=> Walk(k, f)
  <2>1. [c \in Cursors |-> Step(m, f, c)] = [c \in Cursors |-> Step(k, f, c)]
    BY <1>1
  <2> QED
    BY <2>1
<1> DEFINE a == CHOOSE f : Walk(m, f)
           b == CHOOSE f : Walk(k, f)
<1>3. a = b
  <2> HIDE DEF Walk
  <2> QED
    BY <1>2, Zenon
<1>4. QName(m, n, start) = a[start]
  BY DEF QName, Step
<1>5. QName(k, n, start) = b[start]
  BY DEF QName, Step
<1> HIDE DEF a, b
<1> QED
  BY <1>3, <1>4, <1>5

(* The answer of an inspection depends on the bytes it was given only.     *)
LEMMA InspectLocal ==
  ASSUME NEW m, NEW k, NEW n, Alike(m, k, n), NEW proto, NEW port53
  PROVE  Inspect(proto, port53, m, n) = Inspect(proto, port53, k, n)
<1>1. OverTcp(m, n) = OverTcp(k, n)
  <2>1. ClientHello(m, n) <=> ClientHello(k, n)
    BY ClientHelloLocal
  <2>2. ParseRequest(m, n) = ParseRequest(k, n)
    BY ParseRequestLocal
  <2>3. ClientHello(m, n) => Sni(m, n) = Sni(k, n)
    <3>1. ClientHello(m, n) => 44 <= n
      BY DEF ClientHello, Alike
    <3> QED
      BY <3>1, SniLocal
  <2> QED
    BY <2>1, <2>2, <2>3 DEF OverTcp
<1>2. ParseQuery(m, n) = ParseQuery(k, n)
  <2>1. CASE n < 12
    BY <2>1 DEF ParseQuery
  <2>2. CASE ~(n < 12)
    <3>1. U16(m, 4) = U16(k, 4)
      <4>1. n \in Nat /\ 4 + 2 <= n
        BY <2>2 DEF Alike
      <4> QED
        BY <4>1, AlikeReads
    <3> QED
      BY <3>1, QNameLocal DEF ParseQuery
  <2> QED
    BY <2>1, <2>2
<1> QED
  BY <1>1, <1>2 DEF Inspect

-----------------------------------------------------------------------------
(* TLS, when more bytes have arrived.                                      *)

LEMMA ServerNameUnfolds ==
  ASSUME NEW m \in Seq(Bytes), NEW end \in Nat, NEW at \in Nat
  PROVE  ServerName(m, at, end) =
           LET beyond == at + 4 + U16(m, at + 2) IN
           IF at + 4 > end \/ beyond > end THEN << >>
           ELSE IF U16(m, at) = 0 THEN HostInExtension(m, at + 4, beyond)
           ELSE ServerName(m, beyond, end)
<1> DEFINE After(x) == x + 4 + U16(m, x + 2)
           Ends(x) == x + 4 > end \/ After(x) > end
           Host(x) == IF Ends(x) THEN << >> ELSE HostInExtension(m, x + 4, After(x))
           Stop == {x \in Nat : Ends(x) \/ U16(m, x) = 0}
           Res == [x \in Nat |-> Host(x)]
           Go == [x \in Nat |-> After(x)]
           size == [x \in Nat |-> IF x <= end THEN end - x ELSE 0]
           Walk(f) == f = [x \in Nat |->
             IF Ends(x) THEN << >>
             ELSE IF U16(m, x) = 0 THEN HostInExtension(m, x + 4, After(x)) ELSE f[After(x)]]
<1>1. \A x \in Nat : After(x) \in Nat /\ x < After(x)
  <2> SUFFICES ASSUME NEW x \in Nat PROVE After(x) \in Nat /\ x < After(x)
    OBVIOUS
  <2>1. x + 2 \in Nat
    OBVIOUS
  <2>2. U16(m, x + 2) \in Nat
    BY <2>1, AtTyped
  <2> QED
    BY <2>2
<1> HIDE DEF After
<1>2. \A x \in Nat : size[x] \in Nat
  OBVIOUS
<1>3. \A x \in Nat : x \notin Stop => Go[x] \in Nat /\ size[Go[x]] < size[x]
  BY <1>1
<1>4. PICK w : IsWalk(w, Nat, Stop, Res, Go)
  <2> HIDE DEF Stop, Res, Go, size
  <2> QED
    BY <1>2, <1>3, WalkExists
<1>5. Walk(w)
  <2>1. \A x \in Nat : (IF x \in Stop THEN Res[x] ELSE w[Go[x]]) =
          IF Ends(x) THEN << >>
          ELSE IF U16(m, x) = 0 THEN HostInExtension(m, x + 4, After(x)) ELSE w[After(x)]
    <3> HIDE DEF Ends
    <3> QED
      OBVIOUS
  <2> HIDE DEF Stop, Res, Go, Ends
  <2> QED
    BY <1>4, <2>1 DEF IsWalk
<1> DEFINE a == CHOOSE f : Walk(f)
<1>6. Walk(a)
  <2> HIDE DEF Walk
  <2> QED
    BY <1>5
<1>7. \A x : ServerName(m, x, end) = a[x]
  BY DEF ServerName, After
<1> HIDE DEF a
<1>8. a[at] = IF Ends(at) THEN << >>
              ELSE IF U16(m, at) = 0 THEN HostInExtension(m, at + 4, After(at)) ELSE a[After(at)]
  <2> HIDE DEF Ends
  <2> QED
    BY <1>6
<1> QED
  BY <1>7, <1>8 DEF After

LEMMA ServerNameGrows ==
  ASSUME NEW m \in Seq(Bytes), NEW end \in Nat, NEW later \in Nat, end <= later,
         NEW start \in Nat, ServerName(m, start, end) # << >>
  PROVE  ServerName(m, start, later) = ServerName(m, start, end)
<1> DEFINE Grows(at) == ServerName(m, at, end) # << >> =>
                          ServerName(m, at, later) = ServerName(m, at, end)
           size == [at \in Nat |-> IF at <= end THEN end - at ELSE 0]
           G == {at \in Nat : Grows(at)}
<1>1. \A at \in Nat : size[at] \in Nat
  OBVIOUS
<1>2. ASSUME NEW at \in Nat, \A x \in Nat : size[x] < size[at] => x \in G
      PROVE  Grows(at)
  <2> DEFINE beyond == at + 4 + U16(m, at + 2)
  <2>1. beyond \in Nat /\ at < beyond
    <3>1. at + 2 \in Nat
      OBVIOUS
    <3>2. U16(m, at + 2) \in Nat
      BY <3>1, AtTyped
    <3> QED
      BY <3>2
  <2>2. ASSUME NEW e \in Nat
        PROVE  ServerName(m, at, e) =
                 IF at + 4 > e \/ beyond > e THEN << >>
                 ELSE IF U16(m, at) = 0 THEN HostInExtension(m, at + 4, beyond)
                 ELSE ServerName(m, beyond, e)
    BY ServerNameUnfolds
  <2> HIDE DEF beyond
  <2>3. CASE at + 4 > end \/ beyond > end
    BY <2>2, <2>3
  <2>4. CASE ~(at + 4 > end \/ beyond > end)
    <3>1. ~(at + 4 > later \/ beyond > later)
      BY <2>1, <2>4
    <3>2. size[beyond] < size[at]
      BY <2>1, <2>4
    <3>3. Grows(beyond)
      BY <1>2, <2>1, <3>2
    <3> QED
      BY <2>2, <2>4, <3>1, <3>3
  <2> QED
    BY <2>3, <2>4
<1> HIDE DEF Grows, size
<1>3. \A at \in Nat : at \in G
  <2>1. Inherits(Nat, size, G)
    BY <1>2 DEF Inherits
  <2>2. Sized(Nat, size)
    BY <1>1 DEF Sized
  <2> HIDE DEF G
  <2> QED
    BY <2>1, <2>2, SizeInductive
<1> QED
  BY <1>3 DEF Grows

LEMMA SniGrows ==
  ASSUME NEW m \in Seq(Bytes), NEW n \in Nat, NEW later \in Nat, n <= later,
         Sni(m, n) # << >>
  PROVE  Sni(m, later) = Sni(m, n)
<1>1. HasExtensions(m, n) /\ Sni(m, n) = ServerName(m, Extensions(m) + 2, ExtensionsEnd(m, n))
  BY DEF Sni
<1>2. /\ Suites(m) \in Nat /\ Methods(m) \in Nat /\ Extensions(m) \in Nat
      /\ U16(m, Extensions(m)) \in Nat
  BY HelloOffsets, AtTyped
<1>3. HasExtensions(m, later)
  BY <1>1, <1>2 DEF HasExtensions
<1>4. /\ ExtensionsEnd(m, n) \in Nat /\ ExtensionsEnd(m, later) \in Nat
      /\ ExtensionsEnd(m, n) <= ExtensionsEnd(m, later)
  <2> DEFINE announced == Extensions(m) + 2 + U16(m, Extensions(m))
  <2>1. announced \in Nat
    BY <1>2
  <2>2. /\ ExtensionsEnd(m, n) = Min({n, announced})
        /\ ExtensionsEnd(m, later) = Min({later, announced})
    BY DEF ExtensionsEnd
  <2> HIDE DEF announced
  <2>3. /\ Min({n, announced}) = IF n <= announced THEN n ELSE announced
        /\ Min({later, announced}) = IF later <= announced THEN later ELSE announced
    BY <2>1, SmallerOf
  <2> QED
    BY <2>1, <2>2, <2>3
<1>5. ServerName(m, Extensions(m) + 2, ExtensionsEnd(m, later))
        = ServerName(m, Extensions(m) + 2, ExtensionsEnd(m, n))
  BY <1>1, <1>2, <1>4, ServerNameGrows
<1> QED
  BY <1>1, <1>3, <1>5 DEF Sni

-----------------------------------------------------------------------------
(* HTTP, when more bytes have arrived.                                     *)

LEMMA PrefixOfSelf ==
  ASSUME NEW X, NEW s \in Seq(X)
  PROVE  IsPrefix(s, s)
BY DEF IsPrefix

LEMMA SliceFacts ==
  ASSUME NEW m \in Seq(Bytes), NEW from \in Nat, NEW to \in Nat, to <= Len(m)
  PROVE  /\ Slice(m, from, to) \in Seq(Bytes)
         /\ Slice(m, from, to) # << >> <=> from < to
         /\ from <= to => Len(Slice(m, from, to)) = to - from
<1>1. Slice(m, from, to) \in Seq(Bytes)
  BY SubSeqProperties DEF Slice
<1>2. from <= to => Len(Slice(m, from, to)) = to - from
  BY SubSeqProperties DEF Slice
<1>3. ~(from <= to) => Slice(m, from, to) = << >>
  BY DEF Slice
<1> QED
  BY <1>1, <1>2, <1>3, EmptySeq

LEMMA SlicesGrow ==
  ASSUME NEW m \in Seq(Bytes), NEW from \in Nat, NEW to \in Nat, NEW later \in Nat,
         from <= to, to <= later, later <= Len(m)
  PROVE  IsPrefix(Slice(m, from, to), Slice(m, from, later))
<1> DEFINE s == Slice(m, from, to)
           t == Slice(m, from, later)
<1>0. to <= Len(m) /\ from <= later
  OBVIOUS
<1>1. s \in Seq(Bytes) /\ t \in Seq(Bytes) /\ Len(s) = to - from /\ Len(t) = later - from
  BY <1>0, SliceFacts
<1>2. s = [i \in 1 .. to - from |-> m[from + i]] /\ t = [i \in 1 .. later - from |-> m[from + i]]
  BY DEF Slice
<1>3. \A i \in 1 .. to - from : s[i] = t[i]
  BY <1>2
<1> HIDE DEF s, t
<1>4. SubSeq(s, 1, Len(s)) = SubSeq(t, 1, Len(s))
  BY <1>1, <1>3
<1> QED
  BY <1>1, <1>4 DEF IsPrefix, s, t

LEMMA FindGrows ==
  ASSUME NEW m, NEW c, NEW from \in Nat, NEW to \in Nat, NEW later \in Nat,
         from <= to, to <= later
  PROVE  /\ Find(m, c, from, to) <= Find(m, c, from, later)
         /\ Find(m, c, from, to) < to => Find(m, c, from, later) = Find(m, c, from, to)
         /\ Find(m, c, from, to) = to => to <= Find(m, c, from, later)
<1> DEFINE f == Find(m, c, from, to)
           g == Find(m, c, from, later)
<1>1. /\ f \in Nat /\ f <= to /\ from <= f /\ (f < to => At(m, f) = c)
      /\ \A i \in Nat : from <= i /\ i < f => At(m, i) # c
  BY FindFacts
<1>2. /\ g \in Nat /\ g <= later /\ from <= g /\ (g < later => At(m, g) = c)
      /\ \A i \in Nat : from <= i /\ i < g => At(m, i) # c
  BY FindFacts
<1> HIDE DEF f, g
<1>3. ~(g < f)
  BY <1>1, <1>2
<1>4. f < to => ~(f < g)
  BY <1>1, <1>2
<1> QED
  BY <1>1, <1>2, <1>3, <1>4 DEF f, g

LEMMA HostValueTyped ==
  ASSUME NEW m \in Seq(Bytes), NEW from \in Nat, NEW to \in Nat, to <= Len(m)
  PROVE  HostValue(m, from, to) \in Seq(Bytes)
<1>1. CASE Solid(m, from, to) = {}
  <2>1. HostValue(m, from, to) = << >>
    BY <1>1, HostValueIs
  <2> QED
    BY <2>1
<1>2. CASE Solid(m, from, to) # {}
  <2> DEFINE lo == Min(Solid(m, from, to))
             hi == Max(Solid(m, from, to))
             f == Find(m, COLON, lo, hi + 1)
  <2>1. lo \in Nat /\ hi \in Nat /\ hi + 1 <= to
    BY <1>2, SolidFacts
  <2>2. HostValue(m, from, to) = Slice(m, lo, f)
    BY <1>2, HostValueIs
  <2> HIDE DEF lo, hi
  <2>3. hi + 1 \in Nat
    BY <2>1
  <2>4. f \in Nat /\ f <= hi + 1
    BY <2>1, <2>3, FindFacts
  <2> HIDE DEF f
  <2>5. f <= Len(m) /\ Len(m) \in Nat
    BY <2>1, <2>4
  <2> QED
    BY <2>1, <2>2, <2>4, <2>5, SliceFacts
<1> QED
  BY <1>1, <1>2

(* A header value that goes on has the same host, or a longer one.         *)
LEMMA HostValueGrows ==
  ASSUME NEW m \in Seq(Bytes), NEW from \in Nat, NEW to \in Nat, NEW later \in Nat,
         to <= later, later <= Len(m), HostValue(m, from, to) # << >>
  PROVE  /\ HostValue(m, from, later) # << >>
         /\ IsPrefix(HostValue(m, from, to), HostValue(m, from, later))
<1> DEFINE S == Solid(m, from, to)
           T == Solid(m, from, later)
           lo == Min(S)
           hi == Max(S)
           high == Max(T)
           f == Find(m, COLON, lo, hi + 1)
           g == Find(m, COLON, lo, high + 1)
<1>1. S # {} /\ HostValue(m, from, to) = Slice(m, lo, f)
  BY HostValueIs
<1>2. S \subseteq T /\ \A i \in T : i \in S \/ to <= i
  BY DEF Solid
<1>3. T # {}
  BY <1>1, <1>2
<1>4. /\ lo \in S /\ hi \in S /\ lo \in Nat /\ hi \in Nat /\ lo <= hi /\ hi + 1 <= to
      /\ \A i \in S : lo <= i /\ i <= hi
  BY <1>1, SolidFacts
<1>5. /\ Min(T) \in T /\ Min(T) \in Nat /\ high \in Nat /\ high + 1 <= later
      /\ \A i \in T : Min(T) <= i /\ i <= high
  BY <1>3, SolidFacts
<1>6. Min(T) = lo /\ hi <= high
  <2> HIDE DEF S, T, lo, hi, high
  <2>1. lo \in T /\ hi \in T
    BY <1>2, <1>4
  <2>2. Min(T) <= lo /\ hi <= high
    BY <1>5, <2>1
  <2>3. lo <= Min(T)
    BY <1>2, <1>4, <1>5
  <2> QED
    BY <1>4, <1>5, <2>2, <2>3
<1>7. HostValue(m, from, later) = Slice(m, lo, g)
  BY <1>3, <1>6, HostValueIs
<1> HIDE DEF S, T, lo, hi, high
<1>8. /\ hi + 1 \in Nat /\ high + 1 \in Nat /\ lo <= hi + 1 /\ hi + 1 <= high + 1
      /\ high + 1 <= Len(m)
  BY <1>4, <1>5, <1>6
<1>9. f \in Nat /\ g \in Nat /\ f <= hi + 1 /\ g <= high + 1 /\ f <= g
  BY <1>4, <1>8, FindFacts, FindGrows
<1> HIDE DEF f, g
<1>10. f <= Len(m) /\ g <= Len(m) /\ Len(m) \in Nat
  BY <1>8, <1>9
<1>11. lo < f
  BY <1>1, <1>4, <1>9, <1>10, SliceFacts
<1>12. lo < g /\ lo <= f
  BY <1>4, <1>9, <1>11
<1>13. Slice(m, lo, g) # << >>
  BY <1>4, <1>9, <1>10, <1>12, SliceFacts
<1>14. IsPrefix(Slice(m, lo, f), Slice(m, lo, g))
  BY <1>4, <1>9, <1>10, <1>12, SlicesGrow
<1> QED
  BY <1>1, <1>7, <1>13, <1>14

LEMMA HostOfLineTyped ==
  ASSUME NEW m \in Seq(Bytes), NEW p \in Nat, NEW end \in Nat, p <= end, end <= Len(m)
  PROVE  HostOfLine(m, p, end) \in Seq(Bytes)
<1> DEFINE s == LineStop(m, p, end)
           c == Find(m, COLON, p, s)
<1>1. s \in Nat /\ s <= Len(m)
  <2>1. s \in Nat /\ s <= end /\ Len(m) \in Nat
    BY LineStopFacts
  <2> HIDE DEF s
  <2> QED
    BY <2>1
<1> HIDE DEF s
<1>2. c + 1 \in Nat
  <2>1. c \in Nat
    BY <1>1, FindFacts
  <2> QED
    BY <2>1
<1> HIDE DEF c
<1>3. HostValue(m, c + 1, s) \in Seq(Bytes)
  BY <1>1, <1>2, HostValueTyped
<1>4. << >> \in Seq(Bytes)
  OBVIOUS
<1> QED
  BY <1>3, <1>4, HostOfLineIs DEF s, c

(* A line that has ended is what it will be.                               *)
LEMMA LineKept ==
  ASSUME NEW m \in Seq(Bytes), NEW p \in Nat, NEW end \in Nat, NEW later \in Nat,
         p <= end, end <= later, Find(m, LF, p, end) < end
  PROVE  /\ LineStop(m, p, later) = LineStop(m, p, end)
         /\ HostOfLine(m, p, later) = HostOfLine(m, p, end)
<1>1. Find(m, LF, p, later) = Find(m, LF, p, end)
  BY FindGrows
<1>2. LineStop(m, p, later) = LineStop(m, p, end)
  BY <1>1 DEF LineStop
<1> QED
  BY <1>2, HostOfLineIs

(* An empty line has no colon.                                             *)
LEMMA EmptyLineNamesNone ==
  ASSUME NEW m, NEW p \in Nat, NEW end, LineStop(m, p, end) = p
  PROVE  HostOfLine(m, p, end) = << >>
<1>1. Find(m, COLON, p, p) \in Nat /\ Find(m, COLON, p, p) <= p
  BY FindFacts
<1>2. ~(Find(m, COLON, p, p) = p + 1)
  BY <1>1
<1> QED
  BY <1>2, HostOfLineIs

(* The last line so far may grow: it decides still, and for no other host. *)
LEMMA LineGrows ==
  ASSUME NEW m \in Seq(Bytes), NEW p \in Nat, NEW end \in Nat, NEW later \in Nat,
         p < end, end <= later, later <= Len(m),
         p >= 1, At(m, p - 1) = LF, EmptyLinesEnd(m), Decides(m, p, end)
  PROVE  /\ Decides(m, p, later)
         /\ IsPrefix(HostOfLine(m, p, end), HostOfLine(m, p, later))
<1> DEFINE f == Find(m, LF, p, end)
           g == Find(m, LF, p, later)
           s == LineStop(m, p, end)
           t == LineStop(m, p, later)
<1>0. Len(m) \in Nat /\ p <= end /\ p <= later /\ end <= Len(m)
  OBVIOUS
<1>1. HostOfLine(m, p, end) \in Seq(Bytes)
  BY <1>0, HostOfLineTyped
<1>2. IsPrefix(HostOfLine(m, p, end), HostOfLine(m, p, end))
  BY <1>1, PrefixOfSelf
<1>3. /\ f \in Nat /\ f <= end /\ p <= f
      /\ g \in Nat /\ g <= later /\ p <= g
      /\ \A i \in Nat : p <= i /\ i < g => At(m, i) # LF
  BY <1>0, FindFacts
<1>4. CASE f < end
  <2>1. t = s /\ HostOfLine(m, p, later) = HostOfLine(m, p, end)
    BY <1>0, <1>4, LineKept
  <2> QED
    BY <1>2, <2>1 DEF Decides
<1>5. CASE ~(f < end)
  <2>1. f = end /\ end <= g
    <3>1. f = end
      BY <1>3, <1>5
    <3> QED
      BY <1>0, <3>1, FindGrows
  <2>2. s = WithoutCr(m, p, end) /\ t = WithoutCr(m, p, g)
    BY <2>1 DEF LineStop
  <2> HIDE DEF f, g
  <2>3. /\ WithoutCr(m, p, end) \in Nat /\ WithoutCr(m, p, end) <= end
        /\ end - 1 <= WithoutCr(m, p, end) /\ p <= WithoutCr(m, p, end)
        /\ (WithoutCr(m, p, end) # end => At(m, end - 1) = CR)
    BY <1>0, WithoutCrFacts
  <2>4. /\ WithoutCr(m, p, g) \in Nat /\ WithoutCr(m, p, g) <= g /\ g - 1 <= WithoutCr(m, p, g)
    BY <1>3, WithoutCrFacts
  <2>5. CASE s = p
    <3>1. end = p + 1 /\ At(m, p) = CR
      BY <2>2, <2>3, <2>5
    <3>2. g = end
      <4>1. CASE end = later
        BY <1>3, <2>1, <4>1
      <4>2. CASE end # later
        <5>1. p + 2 <= Len(m) /\ p \in 1 .. Len(m) - 2
          BY <1>0, <3>1, <4>2
        <5>2. m[p] = LF /\ m[p + 1] = CR
          <6>1. At(m, p - 1) = m[(p - 1) + 1] /\ At(m, p) = m[p + 1] /\ (p - 1) + 1 = p
            BY <1>0, <5>1 DEF At
          <6> QED
            BY <3>1, <6>1
        <5>3. m[p + 2] = LF
          BY <5>1, <5>2 DEF EmptyLinesEnd
        <5>4. At(m, p + 1) = LF
          BY <1>0, <5>1, <5>3 DEF At
        <5> QED
          BY <1>3, <2>1, <3>1, <5>4
      <4> QED
        BY <4>1, <4>2
    <3>3. t = p
      BY <2>2, <2>5, <3>2
    <3>4. HostOfLine(m, p, end) = << >> /\ HostOfLine(m, p, later) = << >>
      BY <2>5, <3>3, EmptyLineNamesNone
    <3> QED
      BY <1>2, <3>3, <3>4 DEF Decides
  <2>6. CASE s # p
    <3>1. HostOfLine(m, p, end) # << >>
      BY <2>6 DEF Decides
    <3>2. s \in Nat /\ t \in Nat /\ p <= s /\ s <= t /\ t <= Len(m)
      <4>1. g = end \/ end <= g - 1
        BY <1>3, <2>1
      <4> QED
        BY <1>0, <1>3, <2>1, <2>2, <2>3, <2>4, <4>1
    <3> DEFINE c == Find(m, COLON, p, s)
               d == Find(m, COLON, p, t)
    <3>3. /\ c = p + 1 /\ c < s /\ At(m, p) \in HostNames
          /\ HostOfLine(m, p, end) = HostValue(m, c + 1, s)
      BY <3>1, HostOfLineIs
    <3>4. d = c
      <4> HIDE DEF s, t
      <4> QED
        BY <3>2, <3>3, FindGrows
    <3>5. d < t
      BY <3>2, <3>3, <3>4
    <3>6. HostOfLine(m, p, later) = HostValue(m, c + 1, t)
      BY <3>3, <3>4, <3>5, HostOfLineIs
    <3>7. c + 1 \in Nat
      BY <3>3
    <3> HIDE DEF s, t, c, d
    <3>8. /\ HostValue(m, c + 1, t) # << >>
          /\ IsPrefix(HostValue(m, c + 1, s), HostValue(m, c + 1, t))
      BY <3>1, <3>2, <3>3, <3>7, HostValueGrows
    <3> QED
      BY <3>3, <3>6, <3>8 DEF Decides
  <2> QED
    BY <2>5, <2>6
<1> QED
  BY <1>4, <1>5

LEMMA HeadersGrow ==
  ASSUME NEW m \in Seq(Bytes), NEW start \in Nat, NEW end \in Nat, NEW later \in Nat,
         start >= 1, At(m, start - 1) = LF, end <= later, later <= Len(m), EmptyLinesEnd(m),
         Headers(m, start, end).app = "HTTP"
  PROVE  /\ Headers(m, start, later).app = "HTTP"
         /\ IsPrefix(Headers(m, start, end).host, Headers(m, start, later).host)
<1> DEFINE L == DecidingLines(m, start, end)
           K == DecidingLines(m, start, later)
           q == Min(L)
<1>1. L # {}
  BY DEF Headers, NoMatch
<1>2. L \in SUBSET Nat /\ K \in SUBSET Nat
  BY DecidingLinesAre
<1>3. q \in L /\ \A y \in L : q <= y
  <2> HIDE DEF L
  <2> QED
    BY <1>1, <1>2, MinFacts
<1>4. q \in Nat /\ start <= q /\ q < end /\ Begins(m, start, q) /\ Decides(m, q, end)
  BY <1>3, DecidingLinesAre
<1> HIDE DEF q
<1>5. q >= 1 /\ At(m, q - 1) = LF
  BY <1>4 DEF Begins
<1>6. /\ Decides(m, q, later)
      /\ IsPrefix(HostOfLine(m, q, end), HostOfLine(m, q, later))
  BY <1>4, <1>5, LineGrows
<1>7. q \in K
  <2>1. q \in start .. later - 1
    BY <1>4
  <2> QED
    BY <1>4, <1>6, <2>1, DecidingLinesAre
<1>8. ASSUME NEW y \in K, ~(q <= y)
      PROVE  FALSE
  <2>1. y \in Nat /\ start <= y /\ y < q /\ y < end /\ Begins(m, start, y) /\ Decides(m, y, later)
    <3>1. y \in start .. later - 1 /\ Begins(m, start, y) /\ Decides(m, y, later)
      BY DecidingLinesAre
    <3> QED
      BY <1>4, <1>8, <3>1
  <2>2. Find(m, LF, y, end) < end
    <3> DEFINE f == Find(m, LF, y, end)
    <3>1. f \in Nat /\ \A i \in Nat : y <= i /\ i < f => At(m, i) # LF
      BY <2>1, FindFacts
    <3> HIDE DEF f
    <3>2. q - 1 \in Nat /\ y <= q - 1 /\ q - 1 < end
      BY <1>4, <2>1
    <3>3. ~(q - 1 < f)
      BY <1>5, <3>1, <3>2
    <3>4. f < end
      BY <3>1, <3>2, <3>3
    <3> QED
      BY <3>4 DEF f
  <2>3. y <= end
    BY <2>1
  <2>4. Decides(m, y, end)
    BY <2>1, <2>2, <2>3, LineKept DEF Decides
  <2>5. y \in L
    <3>1. y \in start .. end - 1
      BY <2>1
    <3> QED
      BY <2>1, <2>4, <3>1, DecidingLinesAre
  <2> QED
    BY <1>3, <1>8, <2>5
<1>9. Min(K) = q
  <2> HIDE DEF K
  <2>1. Min(K) \in K /\ \A y \in K : Min(K) <= y
    BY <1>2, <1>7, MinFacts
  <2>2. q <= Min(K) /\ Min(K) <= q
    BY <1>7, <1>8, <2>1
  <2>3. Min(K) \in Nat
    BY <1>2, <2>1
  <2> HIDE DEF q
  <2> QED
    BY <1>4, <2>2, <2>3
<1>10. /\ Headers(m, start, end) = Found("HTTP", HostOfLine(m, q, end))
       /\ Headers(m, start, later) = Found("HTTP", HostOfLine(m, q, later))
  BY <1>1, <1>7, <1>9 DEF Headers, q
<1> QED
  BY <1>6, <1>10 DEF Found, NoMatch

LEMMA ParseRequestGrows ==
  ASSUME NEW m \in Seq(Bytes), NEW n \in Nat, NEW later \in Nat, n <= later,
         later <= Len(m), EmptyLinesEnd(m), ParseRequest(m, n).app = "HTTP"
  PROVE  /\ At(m, 0) = METHOD
         /\ ParseRequest(m, later).app = "HTTP"
         /\ IsPrefix(ParseRequest(m, n).host, ParseRequest(m, later).host)
<1> DEFINE f == Find(m, LF, 0, n)
           start == f + 1
<1>1. RequestLine(m, n)
  BY DEF ParseRequest, NoMatch
<1>2. /\ n >= MinRequest /\ At(m, 0) = METHOD /\ At(m, 1) = SP /\ f < n
  BY <1>1, RequestLineIs
<1>3. f \in Nat /\ At(m, f) = LF
  BY <1>2, FindFacts
<1>4. Find(m, LF, 0, later) = f
  BY <1>2, FindGrows
<1>5. RequestLine(m, later)
  <2>1. RequestStop(m, later) = RequestStop(m, n)
    BY <1>4 DEF RequestStop
  <2>2. later >= MinRequest /\ f < later
    BY <1>2, <1>3 DEF MinRequest
  <2> QED
    BY <1>1, <1>4, <2>1, <2>2, RequestLineIs
<1> DEFINE e == ScanEnd(n, start)
           l == ScanEnd(later, start)
<1> HIDE DEF f
<1>6. start \in Nat /\ start >= 1 /\ At(m, start - 1) = LF
  BY <1>3
<1>7. e \in Nat /\ l \in Nat /\ e <= l /\ l <= Len(m)
  <2>1. MaxScan \in Nat /\ Len(m) \in Nat
    BY DpiAssumption
  <2> QED
    BY <1>6, <2>1, ScanEndFacts
<1>8. ParseRequest(m, n) = Headers(m, start, e) /\ ParseRequest(m, later) = Headers(m, start, l)
  BY <1>1, <1>4, <1>5 DEF ParseRequest, f
<1> HIDE DEF start, e, l
<1> QED
  BY <1>2, <1>6, <1>7, <1>8, HeadersGrow

-----------------------------------------------------------------------------
(* The names of TLS are stretches of the message.                          *)

LEMMA HostNameUnfolds ==
  ASSUME NEW m \in Seq(Bytes), NEW end \in Nat, NEW at \in Nat
  PROVE  HostName(m, at, end) =
           LET beyond == at + 3 + U16(m, at + 1) IN
           IF at + 3 > end \/ beyond > end THEN << >>
           ELSE IF At(m, at) = 0 /\ U16(m, at + 1) > 0 THEN Slice(m, at + 3, beyond)
           ELSE HostName(m, beyond, end)
<1> DEFINE After(x) == x + 3 + U16(m, x + 1)
           Ends(x) == x + 3 > end \/ After(x) > end
           Named(x) == At(m, x) = 0 /\ U16(m, x + 1) > 0
           Stop == {x \in Nat : Ends(x) \/ Named(x)}
           Res == [x \in Nat |-> IF Ends(x) THEN << >> ELSE Slice(m, x + 3, After(x))]
           Go == [x \in Nat |-> After(x)]
           size == [x \in Nat |-> IF x <= end THEN end - x ELSE 0]
           Walk(f) == f = [x \in Nat |->
             IF Ends(x) THEN << >>
             ELSE IF Named(x) THEN Slice(m, x + 3, After(x)) ELSE f[After(x)]]
<1>1. \A x \in Nat : After(x) \in Nat /\ x < After(x)
  <2> SUFFICES ASSUME NEW x \in Nat PROVE After(x) \in Nat /\ x < After(x)
    OBVIOUS
  <2>1. x + 1 \in Nat
    OBVIOUS
  <2>2. U16(m, x + 1) \in Nat
    BY <2>1, AtTyped
  <2> QED
    BY <2>2
<1> HIDE DEF After, Named
<1>2. \A x \in Nat : size[x] \in Nat
  OBVIOUS
<1>3. \A x \in Nat : x \notin Stop => Go[x] \in Nat /\ size[Go[x]] < size[x]
  BY <1>1
<1>4. PICK w : IsWalk(w, Nat, Stop, Res, Go)
  <2> HIDE DEF Stop, Res, Go, size
  <2> QED
    BY <1>2, <1>3, WalkExists
<1>5. Walk(w)
  <2>1. \A x \in Nat : (IF x \in Stop THEN Res[x] ELSE w[Go[x]]) =
          IF Ends(x) THEN << >>
          ELSE IF Named(x) THEN Slice(m, x + 3, After(x)) ELSE w[After(x)]
    <3> HIDE DEF Ends
    <3> QED
      OBVIOUS
  <2> HIDE DEF Stop, Res, Go, Ends
  <2> QED
    BY <1>4, <2>1 DEF IsWalk
<1> DEFINE a == CHOOSE f : Walk(f)
<1>6. Walk(a)
  <2> HIDE DEF Walk
  <2> QED
    BY <1>5
<1>7. \A x : HostName(m, x, end) = a[x]
  BY DEF HostName, After, Named
<1> HIDE DEF a
<1>8. a[at] = IF Ends(at) THEN << >>
              ELSE IF Named(at) THEN Slice(m, at + 3, After(at)) ELSE a[After(at)]
  <2> HIDE DEF Ends
  <2> QED
    BY <1>6
<1> QED
  BY <1>7, <1>8 DEF After, Named

(* A server name is a stretch of the message.                              *)
LEMMA HostNameTyped ==
  ASSUME NEW m \in Seq(Bytes), NEW end \in Nat, end <= Len(m), NEW start \in Nat
  PROVE  HostName(m, start, end) \in Seq(Bytes)
<1> DEFINE size == [at \in Nat |-> IF at <= end THEN end - at ELSE 0]
           G == {at \in Nat : HostName(m, at, end) \in Seq(Bytes)}
<1>1. \A at \in Nat : size[at] \in Nat
  OBVIOUS
<1>2. ASSUME NEW at \in Nat, \A x \in Nat : size[x] < size[at] => x \in G
      PROVE  HostName(m, at, end) \in Seq(Bytes)
  <2> DEFINE beyond == at + 3 + U16(m, at + 1)
             named == At(m, at) = 0 /\ U16(m, at + 1) > 0
  <2>1. beyond \in Nat /\ at < beyond
    <3>1. at + 1 \in Nat
      OBVIOUS
    <3>2. U16(m, at + 1) \in Nat
      BY <3>1, AtTyped
    <3> QED
      BY <3>2
  <2>2. HostName(m, at, end) =
          IF at + 3 > end \/ beyond > end THEN << >>
          ELSE IF named THEN Slice(m, at + 3, beyond) ELSE HostName(m, beyond, end)
    BY HostNameUnfolds
  <2> HIDE DEF beyond, named
  <2>3. << >> \in Seq(Bytes)
    OBVIOUS
  <2>4. beyond <= end => Slice(m, at + 3, beyond) \in Seq(Bytes)
    <3>1. beyond <= end => beyond <= Len(m) /\ at + 3 \in Nat
      BY <2>1
    <3> QED
      BY <2>1, <3>1, SliceFacts
  <2>5. beyond <= end /\ at + 3 <= end => HostName(m, beyond, end) \in Seq(Bytes)
    <3>1. beyond <= end /\ at + 3 <= end => size[beyond] < size[at]
      BY <2>1
    <3> QED
      BY <1>2, <2>1, <3>1
  <2> QED
    BY <2>1, <2>2, <2>3, <2>4, <2>5
<1>3. \A at \in Nat : at \in G
  <2>1. Inherits(Nat, size, G)
    BY <1>2 DEF Inherits
  <2>2. Sized(Nat, size)
    BY <1>1 DEF Sized
  <2> HIDE DEF G, size
  <2> QED
    BY <2>1, <2>2, SizeInductive
<1> QED
  BY <1>3

LEMMA ServerNameTyped ==
  ASSUME NEW m \in Seq(Bytes), NEW end \in Nat, end <= Len(m), NEW start \in Nat
  PROVE  ServerName(m, start, end) \in Seq(Bytes)
<1> DEFINE size == [at \in Nat |-> IF at <= end THEN end - at ELSE 0]
           G == {at \in Nat : ServerName(m, at, end) \in Seq(Bytes)}
<1>1. \A at \in Nat : size[at] \in Nat
  OBVIOUS
<1>2. ASSUME NEW at \in Nat, \A x \in Nat : size[x] < size[at] => x \in G
      PROVE  ServerName(m, at, end) \in Seq(Bytes)
  <2> DEFINE beyond == at + 4 + U16(m, at + 2)
             named == U16(m, at) = 0
  <2>1. beyond \in Nat /\ at < beyond
    <3>1. at + 2 \in Nat
      OBVIOUS
    <3>2. U16(m, at + 2) \in Nat
      BY <3>1, AtTyped
    <3> QED
      BY <3>2
  <2>2. ServerName(m, at, end) =
          IF at + 4 > end \/ beyond > end THEN << >>
          ELSE IF named THEN HostInExtension(m, at + 4, beyond) ELSE ServerName(m, beyond, end)
    BY ServerNameUnfolds
  <2> HIDE DEF beyond, named
  <2>3. << >> \in Seq(Bytes)
    OBVIOUS
  <2>4. ASSUME beyond <= end
        PROVE  HostInExtension(m, at + 4, beyond) \in Seq(Bytes)
    <3> DEFINE body == at + 4
               stop == Min({beyond, body + 2 + U16(m, body)})
    <3>1. body \in Nat /\ body + 2 \in Nat /\ U16(m, body) \in Nat
      <4>1. body \in Nat /\ body + 2 \in Nat
        OBVIOUS
      <4> HIDE DEF body
      <4>2. U16(m, body) \in Nat
        BY <4>1, AtTyped
      <4> QED
        BY <4>1, <4>2
    <3>2. stop \in Nat /\ stop <= beyond
      BY <2>1, <3>1, SmallerOf
    <3> HIDE DEF stop, body
    <3>3. stop <= Len(m)
      <4>1. Len(m) \in Nat
        OBVIOUS
      <4> QED
        BY <2>1, <2>4, <3>2, <4>1
    <3>4. HostName(m, body + 2, stop) \in Seq(Bytes)
      BY <3>1, <3>2, <3>3, HostNameTyped
    <3> QED
      BY <2>3, <3>4 DEF HostInExtension, stop, body
  <2>5. beyond <= end /\ at + 4 <= end => ServerName(m, beyond, end) \in Seq(Bytes)
    <3>1. beyond <= end /\ at + 4 <= end => size[beyond] < size[at]
      BY <2>1
    <3> QED
      BY <1>2, <2>1, <3>1
  <2> QED
    BY <2>1, <2>2, <2>3, <2>4, <2>5
<1>3. \A at \in Nat : at \in G
  <2>1. Inherits(Nat, size, G)
    BY <1>2 DEF Inherits
  <2>2. Sized(Nat, size)
    BY <1>1 DEF Sized
  <2> HIDE DEF G, size
  <2> QED
    BY <2>1, <2>2, SizeInductive
<1> QED
  BY <1>3

LEMMA SniTyped ==
  ASSUME NEW m \in Seq(Bytes), NEW n \in Nat, n <= Len(m)
  PROVE  Sni(m, n) \in Seq(Bytes)
<1> DEFINE x == Extensions(m) + 2
           e == ExtensionsEnd(m, n)
<1>1. x \in Nat /\ e \in Nat /\ e <= Len(m)
  <2>1. Extensions(m) \in Nat /\ e \in Nat /\ e <= n /\ Len(m) \in Nat
    BY HelloOffsets
  <2> HIDE DEF e
  <2> QED
    BY <2>1
<1> HIDE DEF x, e
<1>2. ServerName(m, x, e) \in Seq(Bytes)
  BY <1>1, ServerNameTyped
<1>3. << >> \in Seq(Bytes)
  OBVIOUS
<1> QED
  BY <1>2, <1>3 DEF Sni, x, e

-----------------------------------------------------------------------------
(* DNS, when more bytes have arrived.                                      *)

(* The cursor that c leads to.                                             *)
Onward(m, c) == IF At(m, c.at) >= 192 THEN Followed(m, c) ELSE BehindLabel(m, c)

LEMMA OnwardFacts ==
  ASSUME NEW m \in Seq(Bytes), NEW n \in Nat, n <= Len(m), NEW c \in Cursors,
         ~Refused(m, n, c), At(m, c.at) # 0
  PROVE  /\ c.at \in 0 .. n - 1 /\ c.at \notin c.visited
         /\ Onward(m, c) \in Cursors
         /\ Onward(m, c).visited = c.visited \cup {c.at}
<1>1. /\ c.at \in Nat /\ c.visited \in SUBSET Nat /\ c.jumps \in Nat /\ c.after \in Nat
      /\ c.name \in Seq(Nat)
      /\ c = [at |-> c.at, visited |-> c.visited, jumps |-> c.jumps,
              after |-> c.after, name |-> c.name]
  BY DEF Cursors
<1>2. c.at < n /\ c.at \notin c.visited
  <2>1. ~(c.at >= n) /\ c.at \notin c.visited
    BY DEF Refused
  <2>2. c.at \in Nat
    BY <1>1
  <2> QED
    BY <2>1, <2>2
<1>3. At(m, c.at) \in Bytes /\ At(m, c.at + 1) \in Nat
  <2>1. c.at + 1 \in Nat
    BY <1>1
  <2> QED
    BY <1>1, <2>1, AtTyped
<1>4. CASE At(m, c.at) >= 192
  <2> DEFINE q == Pointer(m, c.at)
             behind == IF c.after = 0 THEN c.at + 2 ELSE c.after
  <2>1. q \in Nat
    <3>1. \A x \in Bytes, y \in Nat : 256 * (x % 64) + y \in Nat
      BY DEF Bytes
    <3> QED
      BY <1>3, <3>1 DEF Pointer
  <2>2. behind \in Nat /\ c.jumps + 1 \in Nat /\ c.visited \cup {c.at} \in SUBSET Nat
    BY <1>1
  <2>3. Followed(m, c) = [c EXCEPT !.at = q, !.visited = c.visited \cup {c.at},
                                   !.jumps = c.jumps + 1, !.after = behind]
    BY DEF Followed
  <2>4. /\ Followed(m, c) \in Cursors
        /\ Followed(m, c).visited = c.visited \cup {c.at}
    <3> HIDE DEF q, behind
    <3> QED
      BY <1>1, <2>1, <2>2, <2>3 DEF Cursors
  <2> QED
    BY <1>1, <1>2, <1>4, <2>4 DEF Onward
<1>5. CASE ~(At(m, c.at) >= 192)
  <2> DEFINE b == At(m, c.at)
             end == c.at + 1 + b
             dotted == IF c.name = << >> THEN << >> ELSE Append(c.name, 46)
  <2>1. b \in 1 .. 63 /\ c.at + 1 + b <= n
    <3>1. ~(b \in 64 .. 191) /\ ~(b \in 1 .. 63 /\ c.at + 1 + b > n)
      BY DEF Refused
    <3>2. b \in Bytes /\ b # 0 /\ ~(b >= 192)
      BY <1>3, <1>5
    <3>3. c.at \in Nat /\ n \in Nat
      BY <1>1
    <3> HIDE DEF b
    <3>4. b \in 1 .. 63
      BY <3>1, <3>2 DEF Bytes
    <3>5. ~(c.at + 1 + b > n)
      BY <3>1, <3>4
    <3> QED
      BY <3>3, <3>4, <3>5
  <2>2. end \in Nat /\ end <= Len(m) /\ c.at + 1 \in Nat
    <3>1. Len(m) \in Nat /\ c.at \in Nat
      BY <1>1
    <3> HIDE DEF b
    <3> QED
      BY <2>1, <3>1
  <2> HIDE DEF end
  <2>3. Slice(m, c.at + 1, end) \in Seq(Nat)
    <3>1. Slice(m, c.at + 1, end) \in Seq(Bytes)
      BY <2>2, SliceFacts
    <3>2. Bytes \subseteq Nat
      BY DEF Bytes
    <3> QED
      BY <3>1, <3>2, SeqMonotonic
  <2>4. dotted \in Seq(Nat)
    <3>1. 46 \in Nat
      OBVIOUS
    <3>2. Append(c.name, 46) \in Seq(Nat)
      BY <1>1, <3>1, AppendProperties
    <3>3. << >> \in Seq(Nat)
      OBVIOUS
    <3> QED
      BY <3>2, <3>3
  <2>5. dotted \o Slice(m, c.at + 1, end) \in Seq(Nat)
    <3> HIDE DEF dotted
    <3> QED
      BY <2>3, <2>4, ConcatProperties
  <2>6. BehindLabel(m, c) = [c EXCEPT !.at = end, !.visited = c.visited \cup {c.at},
                                      !.name = dotted \o Slice(m, c.at + 1, end)]
    BY DEF BehindLabel, end
  <2> DEFINE name == dotted \o Slice(m, c.at + 1, end)
  <2>7. /\ BehindLabel(m, c) \in Cursors
        /\ BehindLabel(m, c).visited = c.visited \cup {c.at}
    <3>1. BehindLabel(m, c) = [c EXCEPT !.at = end, !.visited = c.visited \cup {c.at},
                                        !.name = name]
      BY <2>6
    <3>2. name \in Seq(Nat)
      BY <2>5
    <3> HIDE DEF name, dotted
    <3> QED
      BY <1>1, <2>2, <3>1, <3>2 DEF Cursors
  <2> QED
    BY <1>1, <1>2, <1>5, <2>7 DEF Onward
<1> QED
  BY <1>4, <1>5

(* The offsets a walk has not been at: every step takes one away.          *)
Unvisited(n) == [c \in Cursors |-> Cardinality((0 .. n - 1) \ c.visited)]

LEMMA UnvisitedShrinks ==
  ASSUME NEW m \in Seq(Bytes), NEW n \in Nat, n <= Len(m), NEW c \in Cursors
  PROVE  /\ Unvisited(n)[c] \in Nat
         /\ ~Refused(m, n, c) /\ At(m, c.at) # 0 =>
              /\ Onward(m, c) \in Cursors
              /\ Unvisited(n)[Onward(m, c)] < Unvisited(n)[c]
<1> DEFINE left == (0 .. n - 1) \ c.visited
<1>1. IsFiniteSet(left)
  <2>1. 0 \in Int /\ n - 1 \in Int
    OBVIOUS
  <2>2. IsFiniteSet(0 .. n - 1)
    BY <2>1, FS_Interval
  <2> QED
    BY <2>2, FS_Difference
<1>2. Cardinality(left) \in Nat
  BY <1>1, FS_CardinalityType
<1>3. Unvisited(n)[c] = Cardinality(left)
  BY DEF Unvisited
<1>4. ASSUME ~Refused(m, n, c), At(m, c.at) # 0
      PROVE  /\ Onward(m, c) \in Cursors
             /\ Unvisited(n)[Onward(m, c)] < Unvisited(n)[c]
  <2> DEFINE d == Onward(m, c)
  <2>1. /\ c.at \in left /\ d \in Cursors /\ d.visited = c.visited \cup {c.at}
    BY <1>4, OnwardFacts
  <2> HIDE DEF d
  <2>2. (0 .. n - 1) \ d.visited = left \ {c.at}
    BY <2>1
  <2> HIDE DEF left
  <2>3. Cardinality(left \ {c.at}) = Cardinality(left) - 1
    BY <1>1, <2>1, FS_RemoveElement
  <2>4. Unvisited(n)[d] = Cardinality((0 .. n - 1) \ d.visited)
    BY <2>1 DEF Unvisited
  <2>5. Unvisited(n)[d] = Cardinality(left) - 1
    BY <2>2, <2>3, <2>4
  <2>6. Unvisited(n)[d] < Unvisited(n)[c]
    BY <1>2, <1>3, <2>5
  <2> QED
    BY <2>1, <2>6 DEF d
<1> QED
  BY <1>2, <1>3, <1>4

LEMMA QNameUnfolds ==
  ASSUME NEW m \in Seq(Bytes), NEW n \in Nat, n <= Len(m), NEW c \in Cursors
  PROVE  QName(m, n, c) =
           IF Refused(m, n, c) THEN NoMatch
           ELSE IF At(m, c.at) = 0 THEN Question(m, n, c)
           ELSE QName(m, n, Onward(m, c))
<1> DEFINE Stop == {x \in Cursors : Refused(m, n, x) \/ At(m, x.at) = 0}
           Res == [x \in Cursors |-> IF Refused(m, n, x) THEN NoMatch ELSE Question(m, n, x)]
           Go == [x \in Cursors |-> Onward(m, x)]
           Walk(f) == f = [x \in Cursors |->
             IF Refused(m, n, x) THEN NoMatch
             ELSE IF At(m, x.at) = 0 THEN Question(m, n, x) ELSE f[Onward(m, x)]]
<1>1. \A x \in Cursors : Unvisited(n)[x] \in Nat
  BY UnvisitedShrinks
<1>2. \A x \in Cursors : x \notin Stop =>
        Go[x] \in Cursors /\ Unvisited(n)[Go[x]] < Unvisited(n)[x]
  BY UnvisitedShrinks
<1>3. PICK w : IsWalk(w, Cursors, Stop, Res, Go)
  <2> HIDE DEF Stop, Res, Go
  <2> QED
    BY <1>1, <1>2, WalkExists
<1>4. Walk(w)
  <2>1. \A x \in Cursors : (IF x \in Stop THEN Res[x] ELSE w[Go[x]]) =
          IF Refused(m, n, x) THEN NoMatch
          ELSE IF At(m, x.at) = 0 THEN Question(m, n, x) ELSE w[Onward(m, x)]
    OBVIOUS
  <2> HIDE DEF Stop, Res, Go
  <2> QED
    BY <1>3, <2>1 DEF IsWalk
<1> DEFINE a == CHOOSE f : Walk(f)
<1>5. Walk(a)
  <2> HIDE DEF Walk
  <2> QED
    BY <1>4
<1>6. \A x : QName(m, n, x) = a[x]
  BY DEF QName, Onward
<1> HIDE DEF a
<1>7. a[c] = IF Refused(m, n, c) THEN NoMatch
             ELSE IF At(m, c.at) = 0 THEN Question(m, n, c) ELSE a[Onward(m, c)]
  BY <1>5
<1> QED
  BY <1>6, <1>7

(* A name that was read is read again: what was there is there still.      *)
LEMMA QNameGrows ==
  ASSUME NEW m \in Seq(Bytes), NEW n \in Nat, NEW later \in Nat, n <= later,
         later <= Len(m), NEW start \in Cursors, QName(m, n, start).app # "Unknown"
  PROVE  /\ QName(m, n, start).app = "DNS" /\ QName(m, later, start).app = "DNS"
         /\ QName(m, later, start).host = QName(m, n, start).host
         /\ QName(m, n, start).host \in Seq(Nat)
<1> DEFINE Grows(c) == QName(m, n, c).app # "Unknown" =>
                         /\ QName(m, n, c).app = "DNS" /\ QName(m, later, c).app = "DNS"
                         /\ QName(m, later, c).host = QName(m, n, c).host
                         /\ QName(m, n, c).host \in Seq(Nat)
           G == {c \in Cursors : Grows(c)}
<1>0. n <= Len(m)
  OBVIOUS
<1>1. \A c \in Cursors : Unvisited(n)[c] \in Nat
  BY <1>0, UnvisitedShrinks
<1>2. ASSUME NEW c \in Cursors, \A d \in Cursors : Unvisited(n)[d] < Unvisited(n)[c] => d \in G
      PROVE  Grows(c)
  <2>1. CASE Refused(m, n, c)
    <3>1. QName(m, n, c) = NoMatch
      BY <1>0, <2>1, QNameUnfolds
    <3> QED
      BY <3>1 DEF NoMatch
  <2>2. CASE ~Refused(m, n, c)
    <3>1. ~Refused(m, later, c)
      <4> DEFINE at == c.at
                 b == At(m, at)
                 q == Pointer(m, at)
      <4>1. at \in Nat /\ b \in Nat /\ q \in Nat
        <5>1. at \in Nat /\ at + 1 \in Nat
          BY DEF Cursors
        <5>2. b \in Bytes /\ b \in Nat /\ At(m, at + 1) \in Nat
          BY <5>1, AtTyped
        <5>3. \A x \in Bytes, y \in Nat : 256 * (x % 64) + y \in Nat
          BY DEF Bytes
        <5> QED
          BY <5>1, <5>2, <5>3 DEF Pointer
      <4>2. \A l : Refused(m, l, c) <=>
              \/ at >= l \/ at \in c.visited
              \/ b = 0 /\ c.name = << >>
              \/ b \in 1 .. 63 /\ at + 1 + b > l
              \/ b \in 64 .. 191
              \/ b >= 192 /\ (at + 1 >= l \/ c.jumps = MaxJumps \/ q >= l)
        BY DEF Refused
      <4> HIDE DEF at, b, q
      <4> QED
        BY <2>2, <4>1, <4>2
    <3>2. CASE At(m, c.at) = 0
      <4>1. QName(m, n, c) = Question(m, n, c) /\ QName(m, later, c) = Question(m, later, c)
        BY <1>0, <2>2, <3>1, <3>2, QNameUnfolds
      <4>2. \A l : Question(m, l, c).app = "DNS" /\ Question(m, l, c).host = c.name
        BY DEF Question, Found, NoMatch
      <4>3. c.name \in Seq(Nat)
        BY DEF Cursors
      <4> QED
        BY <4>1, <4>2, <4>3
    <3>3. CASE At(m, c.at) # 0
      <4> DEFINE d == Onward(m, c)
      <4>1. QName(m, n, c) = QName(m, n, d) /\ QName(m, later, c) = QName(m, later, d)
        BY <1>0, <2>2, <3>1, <3>3, QNameUnfolds
      <4>2. d \in Cursors /\ Unvisited(n)[d] < Unvisited(n)[c]
        BY <1>0, <2>2, <3>3, UnvisitedShrinks
      <4>3. Grows(d)
        BY <1>2, <4>2
      <4> QED
        BY <4>1, <4>3
    <3> QED
      BY <3>2, <3>3
  <2> QED
    BY <2>1, <2>2
<1> HIDE DEF Grows
<1>3. \A c \in Cursors : c \in G
  <2> DEFINE size == Unvisited(n)
  <2>1. Inherits(Cursors, size, G)
    BY <1>2 DEF Inherits
  <2>2. Sized(Cursors, size)
    BY <1>1 DEF Sized
  <2> HIDE DEF G, size
  <2> QED
    BY <2>1, <2>2, SizeInductive
<1> QED
  BY <1>3 DEF Grows

-----------------------------------------------------------------------------
(* A decision, when more bytes have arrived.                               *)

LEMMA EmptyIsPrefix ==
  ASSUME NEW X, NEW s \in Seq(X)
  PROVE  IsPrefix(<< >>, s)
<1>1. Len(s) \in Nat /\ Len(<< >>) = 0 /\ SubSeq(s, 1, 0) = << >> /\ SubSeq(<< >>, 1, 0) = << >>
  BY EmptySeq
<1> QED
  BY <1>1 DEF IsPrefix

LEMMA ParseRequestApp ==
  ASSUME NEW m, NEW n, ParseRequest(m, n).app # "Unknown"
  PROVE  ParseRequest(m, n).app = "HTTP"
BY DEF ParseRequest, Headers, Found, NoMatch

LEMMA OverTcpGrows ==
  ASSUME NEW m \in Seq(Bytes), NEW n \in Nat, NEW later \in Nat, n <= later, later <= Len(m),
         OverTcp(m, n).app # "Unknown", OverTcp(m, n).app = "HTTP" => EmptyLinesEnd(m)
  PROVE  /\ OverTcp(m, n).app \in {"TLS", "HTTP"}
         /\ OverTcp(m, later).app = OverTcp(m, n).app
         /\ IsPrefix(OverTcp(m, n).host, OverTcp(m, later).host)
<1>0. n <= Len(m)
  OBVIOUS
<1>1. CASE ClientHello(m, n)
  <2>1. ClientHello(m, later)
    BY <1>1 DEF ClientHello
  <2>2. OverTcp(m, n) = Found("TLS", Sni(m, n)) /\ OverTcp(m, later) = Found("TLS", Sni(m, later))
    BY <1>1, <2>1 DEF OverTcp
  <2>3. Sni(m, later) \in Seq(Bytes)
    BY SniTyped
  <2>4. IsPrefix(Sni(m, n), Sni(m, later))
    <3>1. CASE Sni(m, n) = << >>
      BY <2>3, <3>1, EmptyIsPrefix
    <3>2. CASE Sni(m, n) # << >>
      <4>1. Sni(m, later) = Sni(m, n)
        BY <3>2, SniGrows
      <4> QED
        BY <2>3, <4>1, PrefixOfSelf
    <3> QED
      BY <3>1, <3>2
  <2> QED
    BY <2>2, <2>4 DEF Found, NoMatch
<1>2. CASE ~ClientHello(m, n)
  <2>1. OverTcp(m, n) = ParseRequest(m, n)
    BY <1>2 DEF OverTcp
  <2>2. ParseRequest(m, n).app = "HTTP"
    BY <2>1, ParseRequestApp
  <2>3. /\ At(m, 0) = METHOD
        /\ ParseRequest(m, later).app = "HTTP"
        /\ IsPrefix(ParseRequest(m, n).host, ParseRequest(m, later).host)
    BY <2>1, <2>2, ParseRequestGrows
  <2>4. ~ClientHello(m, later)
    BY <2>3 DEF ClientHello, METHOD
  <2>5. OverTcp(m, later) = ParseRequest(m, later)
    BY <2>4 DEF OverTcp
  <2> QED
    BY <2>1, <2>2, <2>3, <2>5
<1> QED
  BY <1>1, <1>2

LEMMA ParseQueryGrows ==
  ASSUME NEW m \in Seq(Bytes), NEW n \in Nat, NEW later \in Nat, n <= later, later <= Len(m),
         ParseQuery(m, n).app # "Unknown"
  PROVE  /\ ParseQuery(m, n).app = "DNS" /\ ParseQuery(m, later).app = "DNS"
         /\ ParseQuery(m, later).host = ParseQuery(m, n).host
         /\ ParseQuery(m, n).host \in Seq(Nat)
<1>1. ~(n < 12 \/ U16(m, 4) = 0)
  BY DEF ParseQuery, NoMatch
<1>2. ~(later < 12 \/ U16(m, 4) = 0)
  BY <1>1
<1>3. /\ ParseQuery(m, n) = QName(m, n, FirstQuestion)
      /\ ParseQuery(m, later) = QName(m, later, FirstQuestion)
  BY <1>1, <1>2 DEF ParseQuery
<1>4. FirstQuestion \in Cursors
  BY DEF FirstQuestion, Cursors
<1> QED
  BY <1>3, <1>4, QNameGrows

LEMMA NothingInNothing ==
  ASSUME NEW m, NEW proto, NEW port53
  PROVE  Inspect(proto, port53, m, 0) = NoMatch
<1>1. ~ClientHello(m, 0)
  BY DEF ClientHello
<1>2. ParseRequest(m, 0) = NoMatch
  BY RequestLineIs DEF ParseRequest, MinRequest
<1> QED
  BY <1>1, <1>2 DEF Inspect, OverTcp

LEMMA InspectGrows ==
  ASSUME NEW m \in Seq(Bytes), NEW n \in Nat, NEW later \in Nat, n <= later, later <= Len(m),
         NEW proto \in {"TCP", "UDP"}, NEW port53 \in BOOLEAN, proto = "TCP" => ~port53,
         Inspect(proto, port53, m, n).app # "Unknown",
         Inspect(proto, port53, m, n).app = "HTTP" => EmptyLinesEnd(m)
  PROVE  LET a == Inspect(proto, port53, m, n)
             b == Inspect(proto, port53, m, later)
         IN  /\ b.app = a.app /\ IsPrefix(a.host, b.host)
             /\ a.app = "DNS" => b.host = a.host
<1>1. n # 0 /\ later # 0
  <2>1. n # 0
    <3> SUFFICES ASSUME n = 0 PROVE FALSE
      OBVIOUS
    <3>1. Inspect(proto, port53, m, n) = NoMatch
      BY NothingInNothing
    <3>2. NoMatch.app = "Unknown"
      BY DEF NoMatch
    <3> QED
      BY <3>1, <3>2
  <2> QED
    BY <2>1
<1>2. CASE proto = "TCP"
  <2>1. \A l : l # 0 => Inspect(proto, port53, m, l) = OverTcp(m, l)
    BY <1>2 DEF Inspect
  <2>2. /\ Inspect(proto, port53, m, n) = OverTcp(m, n)
        /\ Inspect(proto, port53, m, later) = OverTcp(m, later)
    BY <1>1, <2>1
  <2>3. /\ OverTcp(m, n).app \in {"TLS", "HTTP"}
        /\ OverTcp(m, later).app = OverTcp(m, n).app
        /\ IsPrefix(OverTcp(m, n).host, OverTcp(m, later).host)
    BY <2>2, OverTcpGrows
  <2>4. OverTcp(m, n).app # "DNS"
    BY <2>3
  <2> QED
    BY <2>2, <2>3, <2>4
<1>3. CASE proto = "UDP"
  <2>1. \A l : l # 0 => Inspect(proto, port53, m, l) = ParseQuery(m, l)
    BY <1>3 DEF Inspect
  <2>2. /\ Inspect(proto, port53, m, n) = ParseQuery(m, n)
        /\ Inspect(proto, port53, m, later) = ParseQuery(m, later)
    BY <1>1, <2>1
  <2>3. /\ ParseQuery(m, n).app = "DNS" /\ ParseQuery(m, later).app = "DNS"
        /\ ParseQuery(m, later).host = ParseQuery(m, n).host
        /\ ParseQuery(m, n).host \in Seq(Nat)
    BY <2>2, ParseQueryGrows
  <2>4. IsPrefix(ParseQuery(m, n).host, ParseQuery(m, later).host)
    BY <2>3, PrefixOfSelf
  <2> QED
    BY <2>2, <2>3, <2>4
<1> QED
  BY <1>2, <1>3

-----------------------------------------------------------------------------
(* What holds of the flow between two segments.                            *)
InspectInv ==
  /\ message \in Messages
  /\ seen \in 0 .. Len(message.data)
  /\ result = Inspected(seen)

LEMMA InspectInvariant == DpiSpec => []InspectInv
<1>1. DpiInit => InspectInv
  <2> SUFFICES ASSUME DpiInit PROVE InspectInv
    OBVIOUS
  <2>1. message.data \in Seq(Bytes)
    BY DpiAssumption DEF DpiInit
  <2>2. Len(message.data) \in Nat
    BY <2>1
  <2> QED
    BY <2>2, NothingInNothing DEF DpiInit, InspectInv, Inspected
<1>2. InspectInv /\ [DpiNext]_dpiVars => InspectInv'
  <2> SUFFICES ASSUME InspectInv, [DpiNext]_dpiVars PROVE InspectInv'
    OBVIOUS
  <2>1. CASE UNCHANGED dpiVars
    BY <2>1 DEF dpiVars, InspectInv, Inspected
  <2>2. ASSUME NEW n \in 1 .. Len(message.data), Segment(n)
        PROVE  InspectInv'
    <3>1. Len(message.data) \in Nat /\ MaxBuffer \in Nat
      <4>1. message.data \in Seq(Bytes)
        BY DpiAssumption DEF InspectInv
      <4> QED
        BY <4>1, DpiAssumption
    <3>2. Min({n, MaxBuffer}) \in 0 .. Len(message.data)
      BY <3>1, SmallerOf
    <3> QED
      BY <2>2, <3>2 DEF Segment, InspectInv, Inspected
  <2>3. ASSUME NEW n \in 1 .. Len(message.data), Datagram(n)
        PROVE  InspectInv'
    <3>1. Len(message.data) \in Nat
      <4>1. message.data \in Seq(Bytes)
        BY DpiAssumption DEF InspectInv
      <4> QED
        BY <4>1
    <3>2. n \in 0 .. Len(message.data)
      BY <3>1
    <3> QED
      BY <2>3, <3>2 DEF Datagram, InspectInv, Inspected
  <2> QED
    BY <2>1, <2>2, <2>3 DEF DpiNext
<1> QED
  BY <1>1, <1>2, PTL DEF DpiSpec

(* No answer of the parsers depends on bytes behind those that arrived:    *)
(* tls_parser.cpp, http_parser.cpp and dns_parser.cpp check every offset   *)
(* before they read there, whatever lengths the message announces.         *)
THEOREM NothingReadBehind == DpiSpec => []ReadsOnlyWhatArrived
<1>1. InspectInv => ReadsOnlyWhatArrived
  <2> SUFFICES ASSUME InspectInv, NEW b \in Behind
               PROVE  LET memory == [i \in 1 .. seen + 80 |->
                                       IF i <= seen THEN message.data[i] ELSE b]
                      IN  Inspect(message.proto, message.port53, memory, seen) = result
    BY DEF ReadsOnlyWhatArrived
  <2> DEFINE d == message.data
             memory == [i \in 1 .. seen + 80 |-> IF i <= seen THEN d[i] ELSE b]
  <2>1. d \in Seq(Bytes) /\ Len(d) \in Nat /\ seen \in Nat /\ seen <= Len(d)
    <3>1. d \in Seq(Bytes) /\ seen \in 0 .. Len(d)
      BY DpiAssumption DEF InspectInv
    <3> QED
      BY <3>1
  <2> HIDE DEF d
  <2>2. \A i \in 1 .. seen : d[i] \in Bytes
    BY <2>1
  <2>3. memory \in Seq(Bytes) /\ Len(memory) = seen + 80
    <3>1. b \in Bytes
      BY DEF Behind, Bytes
    <3>2. memory \in [1 .. seen + 80 -> Bytes] /\ seen + 80 \in Nat
      BY <2>1, <2>2, <3>1
    <3> QED
      BY <3>2
  <2>4. ASSUME NEW i \in Nat, i < seen
        PROVE  At(memory, i) = At(d, i)
    <3>1. i + 1 \in 1 .. seen + 80 /\ i + 1 <= seen /\ i < Len(d) /\ i < seen + 80
      BY <2>1, <2>4
    <3>2. memory[i + 1] = d[i + 1]
      BY <3>1
    <3> HIDE DEF memory
    <3> QED
      BY <2>3, <3>1, <3>2 DEF At
  <2>5. Alike(memory, d, seen)
    <3> HIDE DEF memory
    <3>1. seen <= Len(memory)
      BY <2>1, <2>3
    <3> QED
      BY <2>1, <2>3, <2>4, <3>1 DEF Alike
  <2>6. Inspect(message.proto, message.port53, memory, seen)
          = Inspect(message.proto, message.port53, d, seen)
    BY <2>5, InspectLocal
  <2> QED
    BY <2>6 DEF InspectInv, Inspected, d
<1> QED
  BY <1>1, InspectInvariant, PTL
(* A flow classified early keeps its classification: what the rest of the  *)
(* message adds changes neither the protocol nor a DNS name, and makes a   *)
(* host name longer at most (dpi_engine.cpp, inspect, which FlowTable      *)
(* calls again with every segment until it has an answer).                 *)
THEOREM SplitsChangeNothing == DpiSpec => []DecisionsSurviveSplits
<1>1. InspectInv => DecisionsSurviveSplits
  <2> SUFFICES ASSUME InspectInv, result.app # "Unknown",
                      message.proto = "TCP" => ~ message.port53,
                      result.app = "HTTP" => EmptyLinesEnd(message.data)
               PROVE  LET whole == Inspected(Len(message.data)) IN
                      /\ result.app = whole.app
                      /\ IsPrefix(result.host, whole.host)
                      /\ result.app = "DNS" => result.host = whole.host
    BY DEF DecisionsSurviveSplits
  <2> DEFINE d == message.data
             proto == message.proto
             port53 == message.port53
  <2>1. d \in Seq(Bytes) /\ proto \in {"TCP", "UDP"} /\ port53 \in BOOLEAN /\ seen \in 0 .. Len(d)
    BY DpiAssumption DEF InspectInv
  <2>2. result = Inspect(proto, port53, d, seen)
    BY DEF InspectInv, Inspected
  <2>3. Inspected(Len(d)) = Inspect(proto, port53, d, Len(d))
    BY DEF Inspected
  <2>4. /\ proto = "TCP" => ~port53
        /\ Inspect(proto, port53, d, seen).app # "Unknown"
        /\ Inspect(proto, port53, d, seen).app = "HTTP" => EmptyLinesEnd(d)
    BY <2>2
  <2> HIDE DEF d, proto, port53
  <2>5. Len(d) \in Nat /\ seen \in Nat /\ seen <= Len(d) /\ Len(d) <= Len(d)
    BY <2>1
  <2> DEFINE a == Inspect(proto, port53, d, seen)
             b == Inspect(proto, port53, d, Len(d))
  <2>6. b.app = a.app /\ IsPrefix(a.host, b.host) /\ (a.app = "DNS" => b.host = a.host)
    BY <2>1, <2>4, <2>5, InspectGrows
  <2> HIDE DEF a, b
  <2>7. result = a /\ Inspected(Len(d)) = b
    BY <2>2, <2>3 DEF a, b
  <2> QED
    BY <2>6, <2>7 DEF d
<1> QED
  BY <1>1, InspectInvariant, PTL
=============================================================================
