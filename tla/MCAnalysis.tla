----------------------------- MODULE MCAnalysis -----------------------------
(* Three hosts: h1 probes and floods, h2 answers, and h3 pushes others out *)
(* of tables with room for two.                                            *)
EXTENDS Analysis

nothing == [payload |-> {}, uri |-> {}, host |-> {}]
Name(length, longest, entropy, labels) ==
  [length |-> length, longest |-> longest, entropy |-> entropy, labels |-> labels]

syn == [src |-> [v |-> 4, a |-> 1], dst |-> [v |-> 4, a |-> 2], sport |-> 5,
        dport |-> 80, proto |-> "TCP", flags |-> {"SYN"}, size |-> 0,
        app |-> "Unknown", name |-> Name(0, 0, 0, 0), text |-> nothing,
        policy |-> "Allow"]
h1 == syn.src
h2 == syn.dst
h3 == [v |-> 4, a |-> 3]

Scans == {syn, [syn EXCEPT !.dport = 81], [syn EXCEPT !.dst = h3]}
Reply == [syn EXCEPT !.src = h2, !.dst = h1, !.sport = 80, !.dport = 5,
                     !.flags = {"SYN", "ACK"}]
Upload == [syn EXCEPT !.dport = 82, !.flags = {"ACK"}, !.size = 2000, !.app = "HTTP",
                      !.text.payload = {3}, !.text.uri = {2}, !.policy = "Block"]
Query == [syn EXCEPT !.src = h3, !.sport = 53, !.dport = 2000, !.proto = "UDP",
                     !.flags = {}, !.size = 90, !.app = "DNS",
                     !.name = Name(40, 20, 390, 4), !.policy = "Alert"]

MCPackets == Scans \cup {Reply, Upload, Query}
MCSignatures == <<[severity |-> "High", target |-> "AnyPayload"],
                  [severity |-> "Critical", target |-> "AnyPayload"],
                  [severity |-> "Medium", target |-> "UserAgent"]>>

(* The packets of h1 come at any of the times, those of the others at two  *)
(* of them.                                                                *)
TimesOf(p) == IF p.src = h1 THEN Times ELSE {1, 5}

MCNext ==
  /\ Len(log) < MaxPackets
  /\ \E p \in Packets : \E now \in TimesOf(p) : Packet(p, now)

MCSpec == Init /\ [][MCNext]_vars
=============================================================================
