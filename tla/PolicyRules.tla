---------------------------- MODULE PolicyRules ----------------------------
(***************************************************************************)
(* dpi::CompiledRuleSet (src/rules/rule_engine.cpp): the evaluation of a   *)
(* flow key, and of what DPI found in the flow, against the policy rules.  *)
(*                                                                         *)
(* A rule set is [rules, default], rules being the sequence the rules were *)
(* added in.  The matchers of a rule are the sets they accept: src and dst *)
(* are sets of endpoints (address and port), domain a set of host names    *)
(* (AnyDomain, the empty set, for the empty matcher), proto a set of       *)
(* transport protocols.  app is the protocol the rule asks for: "any", a   *)
(* supported one, or "Unknown" for a name that parse_app_protocol_str does *)
(* not know.                                                               *)
(***************************************************************************)
EXTENDS Naturals, Sequences

AnyDomain == {}
NoHost == "no host"

(* L7Metadata{} of a flow that is not classified.                          *)
NoMeta == [app |-> "Unknown", host |-> NoHost]

HasL7Criteria(r) == r.domain # AnyDomain \/ r.app # "any"

MatchEndpoints(r, key) ==
  /\ key.proto \in r.proto
  /\ \/ key.src \in r.src /\ key.dst \in r.dst
     \/ key.dst \in r.src /\ key.src \in r.dst

MatchL7(r, meta) ==
  /\ r.domain # AnyDomain => meta.host # NoHost /\ meta.host \in r.domain
  /\ r.app # "any" => r.app = meta.app

(* Rule i is tried before rule j: std::stable_sort by priority, then id.   *)
TriedBefore(rs, i, j) ==
  LET a == rs.rules[i]
      b == rs.rules[j] IN
  \/ a.priority < b.priority
  \/ a.priority = b.priority /\ a.id < b.id
  \/ a.priority = b.priority /\ a.id = b.id /\ i <= j

First(rs, matching) ==
  CHOOSE i \in matching : \A j \in matching : TriedBefore(rs, i, j)

L34Matches(rs, key) ==
  {i \in DOMAIN rs.rules : /\ rs.rules[i].enabled
                           /\ ~HasL7Criteria(rs.rules[i])
                           /\ MatchEndpoints(rs.rules[i], key)}

L7Matches(rs, key, meta) ==
  {i \in DOMAIN rs.rules : /\ rs.rules[i].enabled
                           /\ MatchEndpoints(rs.rules[i], key)
                           /\ MatchL7(rs.rules[i], meta)}

VerdictOf(r) == [action |-> r.action, rule |-> r.id, final |-> TRUE]

EvaluateL34(rs, key) ==
  LET matching == L34Matches(rs, key) IN
  IF matching = {} THEN [action |-> rs.default, rule |-> 0, final |-> FALSE]
                   ELSE VerdictOf(rs.rules[First(rs, matching)])

EvaluateL7(rs, key, meta) ==
  LET matching == L7Matches(rs, key, meta) IN
  IF matching = {} THEN [action |-> rs.default, rule |-> 0, final |-> TRUE]
                   ELSE VerdictOf(rs.rules[First(rs, matching)])
=============================================================================
