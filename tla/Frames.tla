------------------------------- MODULE Frames -------------------------------
(***************************************************************************)
(* What the program reads from one captured frame.  FlowRouter             *)
(* (src/pipeline/flow_router.cpp) looks at the frame on the dispatching    *)
(* thread to choose a worker, ProtocolParser                               *)
(* (src/protocols/protocol_parser.cpp) decodes it again on that worker,    *)
(* and both build a FlowKey (src/flow/flow_key.cpp) from what they read.   *)
(*                                                                         *)
(* A frame is the record of the header fields that steer the two, and len, *)
(* the number of captured bytes, which need not reach to all of them.      *)
(* tagged is a VLAN tag before the type, total the IPv4 total length or    *)
(* the IPv6 payload length, and ihl and doff count words of four bytes.    *)
(* Offsets are those of the C++ code: byte 0 is the first of the frame.    *)
(***************************************************************************)
EXTENDS Integers

TCP == 6
UDP == 17

Ips == [v : {4, 6}, a : Nat]

Frame ==
  [len : Nat, tagged : BOOLEAN, ether : {"IPV4", "IPV6", "VLAN", "other"},
   version : Nat, ihl : Nat, total : Nat, frag : Nat, proto : Nat,
   src : Ips, dst : Ips, sport : Nat, dport : Nat, doff : Nat, ulen : Nat]

(* Where the network and the transport header lie in the frame.            *)
L3At(f) == IF f.tagged THEN 18 ELSE 14
L4At(f) == L3At(f) + IF f.ether = "IPV4" THEN 4 * f.ihl ELSE 40

(* read_u16_be twice at offset off: the ports, or other bytes.             *)
PortsAt(f, off) ==
  IF off = L4At(f) THEN [src |-> f.sport, dst |-> f.dport]
                   ELSE [src |-> -off, dst |-> -off - 2]

-----------------------------------------------------------------------------
(* IPAddress and Endpoint order, and FlowKey::create.                      *)

IpLess(x, y) == x.v < y.v \/ (x.v = y.v /\ x.a < y.a)

(* A bug: ties of the addresses are not broken by the ports.               *)
AddressLess(p, q) == IpLess(p.ip, q.ip)

EndpointLess(p, q) ==
  IpLess(p.ip, q.ip) \/ (~ IpLess(q.ip, p.ip) /\ p.port < q.port)

Create(src, dst, proto) ==
  IF EndpointLess(src, dst)
  THEN [key |-> [src |-> src, dst |-> dst, proto |-> proto], dir |-> "Forward"]
  ELSE [key |-> [src |-> dst, dst |-> src, proto |-> proto], dir |-> "Reverse"]

KeyFrom(f, ports) ==
  Create([ip |-> f.src, port |-> ports.src], [ip |-> f.dst, port |-> ports.dst],
         f.proto)

-----------------------------------------------------------------------------
(* ProtocolParser.  It knows no VLAN tag, so a tagged frame has a type it  *)
(* does not support.                                                       *)

ParsesV4(f) == f.len >= 14 /\ ~ f.tagged /\ f.ether = "IPV4"
ParsesV6(f) == f.len >= 14 /\ ~ f.tagged /\ f.ether = "IPV6"

(* A bug: the announced length is not held against the captured one.      *)
IPv4LengthTrusted(f) ==
  /\ f.len - 14 >= 20
  /\ f.version = 4
  /\ f.ihl >= 5
  /\ f.len - 14 >= 4 * f.ihl
  /\ f.total >= 4 * f.ihl

IPv4Ok(f) ==
  /\ f.len - 14 >= 20
  /\ f.version = 4
  /\ f.ihl >= 5
  /\ f.len - 14 >= 4 * f.ihl
  /\ f.total >= 4 * f.ihl
  /\ f.len - 14 >= f.total

IPv6Ok(f) ==
  /\ f.len - 14 >= 40
  /\ f.version = 6
  /\ f.len - 14 - 40 >= f.total

(* The transport segment, where the network header says it lies.  Later    *)
(* fragments of an IPv4 packet have none.                                  *)
SegmentAt(f) == IF f.ether = "IPV4" THEN 14 + 4 * f.ihl ELSE 14 + 40
SegmentLen(f) == IF f.ether = "IPV4" THEN f.total - 4 * f.ihl ELSE f.total

HasSegment(f) ==
  \/ ParsesV4(f) /\ IPv4Ok(f) /\ f.frag = 0
  \/ ParsesV6(f) /\ IPv6Ok(f)

TcpOk(f) == SegmentLen(f) >= 20 /\ f.doff >= 5 /\ SegmentLen(f) >= 4 * f.doff

UdpOk(f) == SegmentLen(f) >= 8 /\ f.ulen >= 8 /\ SegmentLen(f) >= f.ulen

(* ParsedPacket::is_valid.                                                 *)
Valid(f) ==
  /\ HasSegment(f)
  /\ f.proto = TCP => TcpOk(f)
  /\ f.proto = UDP => UdpOk(f)

(* ParsedPacket::l7_payload of a valid packet.                             *)
Payload(f) ==
  CASE f.proto = TCP -> [at |-> SegmentAt(f) + 4 * f.doff,
                         size |-> SegmentLen(f) - 4 * f.doff]
    [] f.proto = UDP -> [at |-> SegmentAt(f) + 8, size |-> f.ulen - 8]
    [] OTHER         -> [at |-> SegmentAt(f), size |-> SegmentLen(f)]

(* Where each block of bytes the parser reads ends, valid frame or not:    *)
(* the Ethernet header, the fixed network header, the fixed transport      *)
(* header and the options behind either.                                   *)
ParserReads(f) ==
  {e \in {14} : f.len >= 14}
  \cup {e \in {14 + 20} : ParsesV4(f) /\ f.len - 14 >= 20}
  \cup {e \in {14 + 4 * f.ihl} : ParsesV4(f) /\ IPv4Ok(f)}
  \cup {e \in {14 + 40} : ParsesV6(f) /\ f.len - 14 >= 40}
  \cup {e \in {SegmentAt(f) + 20} :
          HasSegment(f) /\ f.proto = TCP /\ SegmentLen(f) >= 20}
  \cup {e \in {SegmentAt(f) + 4 * f.doff} :
          HasSegment(f) /\ f.proto = TCP /\ TcpOk(f)}
  \cup {e \in {SegmentAt(f) + 8} :
          HasSegment(f) /\ f.proto = UDP /\ SegmentLen(f) >= 8}

(* FlowKey::from_packet: no key for an invalid packet or another transport *)
(* protocol.                                                               *)
MakesFlow(f) == Valid(f) /\ f.proto \in {TCP, UDP}
FromPacket(f) == KeyFrom(f, PortsAt(f, SegmentAt(f)))

-----------------------------------------------------------------------------
(* FlowRouter::extract_flow_key.                                           *)

RouterSees(f) == f.len >= 14 /\ (f.tagged => f.len >= 18)

RouterV4(f) ==
  /\ f.ether = "IPV4"
  /\ f.len >= L3At(f) + 20
  /\ f.version = 4
  /\ f.ihl * 4 >= 20
  /\ f.len >= L3At(f) + 4 * f.ihl
  /\ f.frag = 0

RouterV6(f) == f.ether = "IPV6" /\ f.len >= L3At(f) + 40 /\ f.version = 6

(* A bug: the router forgets the IP options.                               *)
L4WithoutOptions(f) == L3At(f) + IF f.ether = "IPV4" THEN 20 ELSE 40

RouterL4At(f) == L3At(f) + IF f.ether = "IPV4" THEN f.ihl * 4 ELSE 40

Routable(f) ==
  /\ RouterSees(f)
  /\ RouterV4(f) \/ RouterV6(f)
  /\ f.proto \in {TCP, UDP} => f.len >= RouterL4At(f) + 4

ExtractFlowKey(f) ==
  KeyFrom(f, IF f.proto \in {TCP, UDP} THEN PortsAt(f, RouterL4At(f))
                                       ELSE [src |-> 0, dst |-> 0])

RouterReads(f) ==
  {e \in {14} : f.len >= 14}
  \cup {e \in {L3At(f)} : RouterSees(f)}
  \cup {e \in {L3At(f) + 20} :
          RouterSees(f) /\ f.ether = "IPV4" /\ f.len >= L3At(f) + 20}
  \cup {e \in {L3At(f) + 40} :
          RouterSees(f) /\ f.ether = "IPV6" /\ f.len >= L3At(f) + 40}
  \cup {e \in {RouterL4At(f) + 4} : Routable(f) /\ f.proto \in {TCP, UDP}}

-----------------------------------------------------------------------------
(* The direction WorkerThread::run gives the risk engine: by address only. *)
RiskForward(f) == f.src = FromPacket(f).key.src.ip

(* The frame of an answer.                                                 *)
Reversed(f) == [f EXCEPT !.src = f.dst, !.dst = f.src,
                         !.sport = f.dport, !.dport = f.sport]
=============================================================================
