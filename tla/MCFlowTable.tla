---------------------------- MODULE MCFlowTable ----------------------------
(* A TCP and a UDP flow between the same hosts, a two-piece buffer, and    *)
(* two rule sets to be swapped: address rules decide early, domain and     *)
(* application rules of higher and lower precedence decide late.  Rule 7   *)
(* asks for a misspelt protocol and comes before the address rule 6.       *)
EXTENDS FlowTable, TLC

CONSTANTS A, B, C, hello, junk, evil

tcpKey == [proto |-> "TCP", src |-> A, dst |-> B]
udpKey == [proto |-> "UDP", src |-> A, dst |-> C]
MCKeys == {tcpKey, udpKey}
MCPieces == {hello, junk}
MCPayloads == {<< >>, <<hello>>, <<junk, hello>>}

MCMetas == {NoMeta, [app |-> "TLS", host |-> evil], [app |-> "DNS", host |-> evil]}

(* Two pieces of hello are a TLS ClientHello, one is a DNS query, both for *)
(* the host evil.  A full buffer that does not begin so is given up, and   *)
(* <<hello>> followed by <<junk, hello>> is cut off at the limit.          *)
MCRecognise(k, s) ==
  IF k.proto = "TCP" /\ Len(s) >= 2 /\ s[1] = hello /\ s[2] = hello
  THEN [app |-> "TLS", host |-> evil]
  ELSE IF k.proto = "UDP" /\ s # << >> /\ Head(s) = hello
  THEN [app |-> "DNS", host |-> evil]
  ELSE NoMeta

Flags(syn, ack, fin, rst) == [syn |-> syn, ack |-> ack, fin |-> fin, rst |-> rst]
MCSegs == {Flags(TRUE, FALSE, FALSE, FALSE), Flags(TRUE, TRUE, FALSE, FALSE),
           Flags(FALSE, TRUE, FALSE, FALSE), Flags(FALSE, TRUE, TRUE, FALSE),
           Flags(FALSE, TRUE, FALSE, TRUE)}

AllHosts == {A, B, C}
AnyTraffic(id, priority, action) ==
  [id |-> id, priority |-> priority, enabled |-> TRUE, action |-> action,
   proto |-> {"TCP", "UDP"}, src |-> AllHosts, dst |-> AllHosts,
   domain |-> AnyDomain, app |-> "any"]

MCRuleSets ==
  {[default |-> "Allow",
    rules |-> <<[AnyTraffic(3, 20, "Block") EXCEPT !.src = {B}, !.dst = {A}],
                [AnyTraffic(2, 10, "Alert") EXCEPT !.domain = {evil}, !.app = "TLS"],
                [AnyTraffic(1, 30, "Block") EXCEPT !.app = "DNS"]>>],
   [default |-> "Block",
    rules |-> <<[AnyTraffic(5, 10, "Allow") EXCEPT !.enabled = FALSE],
                [AnyTraffic(7, 5, "Alert") EXCEPT !.app = "Unknown"],
                [AnyTraffic(6, 10, "Log") EXCEPT !.proto = {"UDP"}],
                [AnyTraffic(4, 10, "Allow") EXCEPT !.domain = {evil}]>>]}
=============================================================================
