---------------------------- MODULE RuleLoading ----------------------------
(***************************************************************************)
(* RuleEngine with the parser of RuleDocuments: what is known of the rules *)
(* that a load is about to install.                                        *)
(***************************************************************************)
EXTENDS RuleEngine, RuleDocuments

CONSTANT Content(_)  \* the JSON value of a document

(* The texts of a rule are those that RuleMatchers is about.               *)
ASSUME LoadingAssumption ==
  /\ \A d \in Documents : Parse(d) = ParseString(Content(d))
  /\ \A r \in Rules : /\ r.srcIp \in IpText /\ r.dstIp \in IpText
                      /\ r.srcPort \in PortText /\ r.dstPort \in PortText
                      /\ r.domain \in Seq(STRING)

Addresses == {e.ip : e \in Endpoints}

HasWildcard(d) == \E i \in DOMAIN d : d[i] \in {"*", "?"}

(* Names in which a star is no character of the text.                      *)
PlainHosts == {h \in Hosts \ {<< >>} : \A i \in DOMAIN h : h[i] # "*"}

(* A rule that a document brings in is one that can match, and it matches  *)
(* what its text means.  Masks built byte by byte agree with the prefix    *)
(* they stand for, and the greedy glob matcher with the layouts of the     *)
(* pattern.  The suffix path reads further wildcards literally, so that    *)
(* patterns like *.ads.* are left out; so are names with a star in them,   *)
(* which the glob matcher takes for the star of a pattern                  *)
(* (ip_matcher.cpp:6-108, domain_matcher.cpp:16-91,                        *)
(* rule_parser.cpp:422-442, 459-502).                                      *)
LoadedRulesMeanTheirText ==
  \A c \in Callers : at[c] = "parsed" =>
    \A i \in DOMAIN res[c].rules : LET r == res[c].rules[i] IN
      /\ \A t \in {r.srcIp, r.dstIp} :
           IpIsAny(t) \/ \A ip \in Addresses : IpMatches(t, ip) <=> InSubnet(t, ip)
      /\ \E p \in 0..MaxPort : PortMatches(r.srcPort, p)
      /\ \E p \in 0..MaxPort : PortMatches(r.dstPort, p)
      /\ \/ DomainIsAny(r.domain)
         \/ /\ IsSuffixWildcard(r.domain)
            /\ HasWildcard(SubSeq(r.domain, 3, Len(r.domain)))
         \/ \A h \in PlainHosts :
              DomainMatches(r.domain, h) <=> DomainMeant(r.domain, h)
=============================================================================
