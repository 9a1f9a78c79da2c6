------------------------------ MODULE MCIngest ------------------------------
(* Captures of a single frame with every combination of header fields at   *)
(* the lengths where a check changes its mind, and captures of up to three *)
(* records that are damaged in every place a file can be.                  *)
EXTENDS Ingest

ip1 == [v |-> 4, a |-> 1]
ip2 == [v |-> 4, a |-> 2]
ip6 == [v |-> 6, a |-> 1]

whole == [len |-> 54, tagged |-> FALSE, ether |-> "IPV4", version |-> 4,
          ihl |-> 5, total |-> 40, frag |-> 0, proto |-> TCP, src |-> ip2,
          dst |-> ip1, sport |-> 1, dport |-> 2, doff |-> 5, ulen |-> 8]
whole6 == [whole EXCEPT !.len = 62, !.ether = "IPV6", !.version = 6, !.total = 8,
                        !.proto = UDP, !.src = ip6, !.dst = ip6]

IPv4Frames ==
  {[whole EXCEPT !.len = n, !.tagged = t, !.version = v, !.ihl = h, !.total = m,
                 !.frag = g, !.proto = x[1], !.doff = x[2], !.ulen = x[3]] :
     n \in {0, 13, 14, 17, 18, 33, 34, 37, 38, 41, 42, 45, 46, 53, 54, 57, 58, 62},
     t \in BOOLEAN, v \in {4, 6}, h \in {4, 5, 6}, m \in {19, 20, 24, 28, 40, 44, 48},
     g \in {0, 1},
     x \in {<<TCP, 4, 8>>, <<TCP, 5, 8>>, <<TCP, 6, 8>>, <<UDP, 5, 7>>,
            <<UDP, 5, 8>>, <<UDP, 5, 16>>, <<1, 5, 8>>}}

IPv6Frames ==
  {[whole6 EXCEPT !.len = n, !.tagged = t, !.version = v, !.total = m,
                  !.proto = x[1], !.doff = x[2], !.ulen = x[3]] :
     n \in {53, 54, 57, 58, 61, 62, 73, 74, 78}, t \in BOOLEAN, v \in {4, 6},
     m \in {0, 7, 8, 20, 24},
     x \in {<<TCP, 4, 8>>, <<TCP, 5, 8>>, <<TCP, 6, 8>>, <<UDP, 5, 7>>,
            <<UDP, 5, 8>>, <<UDP, 5, 16>>, <<58, 5, 8>>}}

(* Whole frames between all pairs of a few endpoints.                      *)
Conversations ==
  {[w EXCEPT !.src = s, !.dst = d, !.sport = p, !.dport = q] :
     w \in {whole, whole6}, s, d \in {ip1, ip2, ip6}, p, q \in {1, 2}}

OtherFrames ==
  {[whole EXCEPT !.len = n, !.tagged = t, !.ether = e] :
     n \in {14, 54, 58}, t \in BOOLEAN, e \in {"VLAN", "other"}}

Capture(records) ==
  [exists |-> TRUE, head |-> 24, magic |-> "micro", version |-> TRUE,
   snaplen |-> 100, records |-> records]
Rec(f) == [hdr |-> 16, incl |-> f.len, avail |-> f.len, frame |-> f]

(* The last record is whole, cut off in its header or in its data, or      *)
(* announces more than the file's or the reader's limit.                   *)
LastRecords ==
  {Rec(whole), [Rec(whole) EXCEPT !.hdr = 15], [Rec(whole) EXCEPT !.avail = 53],
   Rec([whole EXCEPT !.len = 101]), Rec([whole EXCEPT !.len = 81])}

Damaged ==
  {[Capture(rs) EXCEPT !.magic = m] : m \in {"micro", "nano"},
     rs \in {<< >>} \cup {<<l>> : l \in LastRecords}
            \cup {<<Rec(whole6), l>> : l \in LastRecords}
            \cup {<<Rec([whole EXCEPT !.len = 101]), l>> : l \in LastRecords}
            \cup {<<Rec(whole6), Rec(whole), l>> : l \in LastRecords}}
  \cup {[Capture(<<Rec(whole)>>) EXCEPT !.exists = FALSE],
        [Capture(<<Rec(whole)>>) EXCEPT !.head = 23],
        [Capture(<<Rec(whole)>>) EXCEPT !.magic = "bad"],
        [Capture(<<Rec(whole)>>) EXCEPT !.version = FALSE],
        [Capture(<<Rec(whole)>>) EXCEPT !.snaplen = 0]}

MCFiles == {Capture(<<Rec(f)>>) :
              f \in IPv4Frames \cup IPv6Frames \cup Conversations \cup OtherFrames}
           \cup Damaged
=============================================================================
