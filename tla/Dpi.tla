-------------------------------- MODULE Dpi --------------------------------
(***************************************************************************)
(* Layer-7 inspection (src/dpi/dpi_engine.cpp and the TLS, HTTP and DNS    *)
(* parsers) of the payload that one flow has gathered so far, and the loop *)
(* of FlowTable::process_packet that inspects again with every segment.    *)
(*                                                                         *)
(* A message is a sequence of bytes, numbers below 256.  TLS and DNS read  *)
(* their bytes as on the wire; in an HTTP request a method, a version and  *)
(* the header name Host stand for one byte each.  Offsets are those of the *)
(* C++ code, the first byte at 0.  A parser is given the memory m it can   *)
(* reach and the number n of bytes it was told are there: that it never    *)
(* uses more is a property below and not built into the model.             *)
(***************************************************************************)
EXTENDS Integers, Sequences, FiniteSetsExt, SequencesExt

CONSTANTS
  Messages,      \* what the two ends may send: [proto, port53, data]
  MaxBuffer,     \* DEFAULT_MAX_DPI_BUFFER_SIZE, 8192 in the code
  MaxScan,       \* the 4096 bytes searched for the Host header
  MaxJumps       \* MAX_JUMPS, 5 in the code

Bytes == 0 .. 255

ASSUME DpiAssumption ==
  /\ Messages \subseteq [proto : {"TCP", "UDP"}, port53 : BOOLEAN, data : Seq(Bytes)]
  /\ {MaxBuffer, MaxScan} \subseteq Nat \ {0} /\ MaxJumps \in Nat

At(m, i) == IF i < Len(m) THEN m[i + 1] ELSE 0
U16(m, i) == 256 * At(m, i) + At(m, i + 1)
Slice(m, from, to) == SubSeq(m, from + 1, to)

(* The first offset of [from, to) that holds byte c, or to.                *)
Find(m, c, from, to) ==
  Min({i \in from .. to - 1 : At(m, i) = c} \cup {to})

NoMatch == [app |-> "Unknown", host |-> << >>, qtype |-> 0]
Found(app, host) == [NoMatch EXCEPT !.app = app, !.host = host]

-----------------------------------------------------------------------------
(* TlsParser::parse_client_hello.  Everything up to the session id length  *)
(* at offset 43 decides whether it is a ClientHello.                       *)

ClientHello(m, n) ==
  /\ n >= 44
  /\ At(m, 0) = 22 /\ U16(m, 1) \in 768 .. 772 /\ U16(m, 3) # 0
  /\ At(m, 5) = 1

(* Offsets of the cipher suites, compression methods and extensions.       *)
Suites(m) == 44 + At(m, 43)
Methods(m) == Suites(m) + 2 + U16(m, Suites(m))
Extensions(m) == Methods(m) + 1 + At(m, Methods(m))

HasExtensions(m, n) ==
  Suites(m) + 2 <= n /\ Methods(m) + 1 <= n /\ Extensions(m) + 2 <= n

(* A bug: the extensions' length is trusted.                               *)
ExtensionsEndTrusted(m, n) == Extensions(m) + 2 + U16(m, Extensions(m))

ExtensionsEnd(m, n) == Min({n, Extensions(m) + 2 + U16(m, Extensions(m))})

(* The first host name of a server name list in [start, end).              *)
HostName(m, start, end) ==
  LET walk[at \in Nat] ==
        LET len == U16(m, at + 1)
            next == at + 3 + len IN
        IF at + 3 > end \/ next > end THEN << >>
        ELSE IF At(m, at) = 0 /\ len > 0 THEN Slice(m, at + 3, next)
        ELSE walk[next] IN
  walk[start]

(* The host name in the server name extension whose body is [body, end).   *)
HostInExtension(m, body, end) ==
  IF end < body + 2 THEN << >>
  ELSE HostName(m, body + 2, Min({end, body + 2 + U16(m, body)}))

(* The walk over the extensions, up to the first of type 0.                *)
ServerName(m, start, end) ==
  LET walk[at \in Nat] ==
        LET body == at + 4
            next == body + U16(m, at + 2) IN
        IF body > end \/ next > end THEN << >>
        ELSE IF U16(m, at) = 0 THEN HostInExtension(m, body, next)
        ELSE walk[next] IN
  walk[start]

Sni(m, n) == IF HasExtensions(m, n)
             THEN ServerName(m, Extensions(m) + 2, ExtensionsEnd(m, n))
             ELSE << >>

-----------------------------------------------------------------------------
(* HttpParser::parse_request.                                              *)

TAB == 9
LF == 10
CR == 13
SP == 32
COLON == 58
METHOD == 71
VERSION == 86
HostNames == {72, 104}        \* equals_ci(header_name, "Host")
MinRequest == 5               \* payload.size() < 10, in these bytes

WithoutCr(m, from, to) ==
  IF to > from /\ At(m, to - 1) = CR THEN to - 1 ELSE to

RequestLine(m, n) ==
  LET end == Find(m, LF, 0, n)
      stop == WithoutCr(m, 0, end)
      spaces == {i \in 0 .. stop - 1 : At(m, i) = SP} IN
  /\ n >= MinRequest
  /\ At(m, 0) = METHOD /\ At(m, 1) = SP
  /\ end < n
  /\ Max(spaces) > Min(spaces)
  /\ Slice(m, Max(spaces) + 1, stop) = <<VERSION>>

(* The end of headers_section.  max_scan - headers_start wraps around when *)
(* the request line alone is longer than the limit, and the whole payload  *)
(* is searched.                                                            *)
ScanEnd(n, start) == IF start <= MaxScan THEN Min({n, MaxScan}) ELSE n

(* The host in a header value: without blanks around it, without a port.   *)
HostValue(m, from, to) ==
  LET solid == {i \in from .. to - 1 : At(m, i) \notin {SP, TAB}} IN
  IF solid = {} THEN << >>
  ELSE Slice(m, Min(solid), Find(m, COLON, Min(solid), Max(solid) + 1))

(* The host that the line at p names.  A line without its LF counts.       *)
LineStop(m, p, end) == WithoutCr(m, p, Find(m, LF, p, end))

HostOfLine(m, p, end) ==
  LET stop == LineStop(m, p, end)
      colon == Find(m, COLON, p, stop) IN
  IF colon = p + 1 /\ colon < stop /\ At(m, p) \in HostNames
  THEN HostValue(m, colon + 1, stop) ELSE << >>

(* The lines that end the search: an empty one and one that names a host.  *)
DecidingLines(m, start, end) ==
  {p \in start .. end - 1 :
     /\ p = start \/ At(m, p - 1) = LF
     /\ LineStop(m, p, end) = p \/ HostOfLine(m, p, end) # << >>}

(* A bug: the last Host line counts and not the first.                     *)
LastHeaders(m, start, end) ==
  LET lines == DecidingLines(m, start, end) IN
  IF lines = {} THEN NoMatch
  ELSE Found("HTTP", HostOfLine(m, Max(lines), end))

Headers(m, start, end) ==
  LET lines == DecidingLines(m, start, end) IN
  IF lines = {} THEN NoMatch
  ELSE Found("HTTP", HostOfLine(m, Min(lines), end))

ParseRequest(m, n) ==
  LET start == Find(m, LF, 0, n) + 1 IN
  IF RequestLine(m, n) THEN Headers(m, start, ScanEnd(n, start)) ELSE NoMatch

-----------------------------------------------------------------------------
(* DnsParser::parse_query: the name of the first question, following       *)
(* compression pointers, and its type.  after is the offset behind the     *)
(* name where it stands, or 0 while no pointer was followed.               *)

Cursors == [at : Nat, visited : SUBSET Nat, jumps : Nat, after : Nat, name : Seq(Nat)]
FirstQuestion == [at |-> 12, visited |-> {}, jumps |-> 0, after |-> 0, name |-> << >>]

Pointer(m, at) == 256 * (At(m, at) % 64) + At(m, at + 1)

(* The reasons to return false at a cursor.                                *)
Refused(m, n, c) ==
  \/ c.at >= n \/ c.at \in c.visited
  \/ At(m, c.at) = 0 /\ c.name = << >>
  \/ At(m, c.at) \in 1 .. 63 /\ c.at + 1 + At(m, c.at) > n
  \/ At(m, c.at) \in 64 .. 191
  \/ At(m, c.at) >= 192 /\ (c.at + 1 >= n \/ c.jumps = MaxJumps \/ Pointer(m, c.at) >= n)

(* The cursor behind a label, and the one a pointer leads to.              *)
BehindLabel(m, c) ==
  LET end == c.at + 1 + At(m, c.at) IN
  [c EXCEPT !.at = end, !.visited = @ \cup {c.at},
            !.name = (IF @ = << >> THEN << >> ELSE Append(@, 46)) \o Slice(m, c.at + 1, end)]

Followed(m, c) ==
  [c EXCEPT !.at = Pointer(m, c.at), !.visited = @ \cup {c.at}, !.jumps = @ + 1,
            !.after = IF @ = 0 THEN c.at + 2 ELSE @]

(* The type behind the name, if it is there.                               *)
Question(m, n, c) ==
  LET past == IF c.after = 0 THEN c.at + 1 ELSE c.after IN
  [Found("DNS", c.name) EXCEPT !.qtype = IF past + 4 <= n THEN U16(m, past) ELSE 0]

QName(m, n, start) ==
  LET walk[c \in Cursors] ==
        IF Refused(m, n, c) THEN NoMatch
        ELSE IF At(m, c.at) = 0 THEN Question(m, n, c)
        ELSE walk[IF At(m, c.at) >= 192 THEN Followed(m, c) ELSE BehindLabel(m, c)] IN
  walk[start]

ParseQuery(m, n) ==
  IF n < 12 \/ U16(m, 4) = 0 THEN NoMatch ELSE QName(m, n, FirstQuestion)

-----------------------------------------------------------------------------
(* DpiEngine::inspect.                                                     *)

OverTcp(m, n) ==
  IF ClientHello(m, n) THEN Found("TLS", Sni(m, n)) ELSE ParseRequest(m, n)

Inspect(proto, port53, m, n) ==
  LET tcp == IF proto = "TCP" THEN OverTcp(m, n) ELSE NoMatch IN
  IF n = 0 \/ tcp # NoMatch THEN tcp
  ELSE IF proto = "UDP" \/ port53 THEN ParseQuery(m, n) ELSE NoMatch

-----------------------------------------------------------------------------

VARIABLES
  message,   \* what one flow carries
  seen,      \* bytes of it in the buffer, or in the one datagram captured
  result,    \* what the last inspection said
  complete   \* dpi_complete_

dpiVars == <<message, seen, result, complete>>

DpiInit == message \in Messages /\ seen = 0 /\ result = NoMatch /\ complete = FALSE

Inspected(n) == Inspect(message.proto, message.port53, message.data, n)

(* process_packet with the next segment of a TCP flow: append_dpi_payload  *)
(* keeps no more than fits in the buffer, and DPI is given up when it is   *)
(* full and nothing was recognised.                                        *)
Segment(n) ==
  LET kept == Min({n, MaxBuffer}) IN
  /\ message.proto = "TCP" /\ ~ complete /\ n > seen
  /\ seen' = kept
  /\ result' = Inspected(kept)
  /\ complete' = (result'.app # "Unknown" \/ kept >= MaxBuffer)
  /\ UNCHANGED message

(* process_packet with a datagram, of which n bytes were captured: it is   *)
(* inspected by itself, and the first one settles the flow.                *)
Datagram(n) ==
  /\ message.proto = "UDP" /\ ~ complete
  /\ seen' = n /\ result' = Inspected(n) /\ complete' = TRUE
  /\ UNCHANGED message

DpiNext == \E n \in 1 .. Len(message.data) : Segment(n) \/ Datagram(n)

DpiSpec == DpiInit /\ [][DpiNext]_dpiVars

-----------------------------------------------------------------------------

(* What a parser makes of the bytes it was given depends on no byte behind *)
(* them: whatever lies there, the message's own continuation or a stretch  *)
(* of any one byte, the answer is the same (the bounds checks of           *)
(* tls_parser.cpp:13-120, http_parser.cpp and dns_parser.cpp:38-103).      *)
Behind == {0, 1, 255}

ReadsOnlyWhatArrived ==
  \A b \in Behind :
    LET memory == [i \in 1 .. seen + 80 |-> IF i <= seen THEN message.data[i] ELSE b]
    IN  Inspect(message.proto, message.port53, memory, seen) = result

(* Every line that begins with a carriage return is an empty one.          *)
EmptyLinesEnd(s) ==
  \A i \in 1 .. Len(s) - 2 : s[i] = LF /\ s[i + 1] = CR => s[i + 2] = LF

(* A flow classified from the bytes that had arrived is classified as the  *)
(* whole message would be, however it was cut into segments: the protocol  *)
(* and a DNS name are the same, and a host name is at most shorter.  A     *)
(* policy thus never blocks a flow for a name it does not begin with.      *)
(* Two cases are left out.  TCP to port 53: there the first bytes of a     *)
(* message may pass for a DNS header before TLS or HTTP recognises it.     *)
(* And a request with a stray carriage return: a segment that ends with it *)
(* seems to end the headers (http_parser.cpp:87-99).                       *)
DecisionsSurviveSplits ==
  LET whole == Inspected(Len(message.data)) IN
  /\ result.app # "Unknown"
  /\ message.proto = "TCP" => ~ message.port53
  /\ result.app = "HTTP" => EmptyLinesEnd(message.data)
  => /\ result.app = whole.app
     /\ IsPrefix(result.host, whole.host)
     /\ result.app = "DNS" => result.host = whole.host
=============================================================================
