--------------------------- MODULE RuleDocuments ---------------------------
(***************************************************************************)
(* RuleParser (src/rules/rule_parser.cpp), from the JSON value on, and     *)
(* RuleEngine::compile_rule (src/rules/rule_engine.cpp).                   *)
(*                                                                         *)
(* A JSON value is [t, v]: t is its type, v what it holds, a sequence of   *)
(* values for an array and a function from member names for an object.     *)
(* Strings hold the texts of RuleMatchers.  BrokenText stands for a text   *)
(* that is empty or that the JSON parser refuses.                          *)
(***************************************************************************)
EXTENDS RuleMatchers, PolicyRules

CONSTANTS Endpoints,  \* the [ip, port] a flow key may hold
          Hosts       \* the host names DPI may find

ASSUME DocumentsAssumption ==
  /\ \A e \in Endpoints : /\ e.ip.v \in {4, 6} /\ e.ip.a \in Nat
                          /\ e.ip.a < Pow2[Width[e.ip.v]]
  /\ Hosts \subseteq Seq(STRING)

BrokenText == [t |-> "broken"]
Refused == [success |-> FALSE, rules |-> << >>, default |-> "Allow"]

ToAction(name) ==
  IF name \in {"BLOCK", "DROP", "DENY"} THEN "Block"
  ELSE IF name = "ALERT" THEN "Alert"
  ELSE IF name = "LOG" THEN "Log" ELSE "Allow"

Has(obj, member, type) == member \in DOMAIN obj /\ obj[member].t = type

Field(obj, member, type, otherwise) ==
  IF Has(obj, member, type) THEN obj[member].v ELSE otherwise

PortField(obj, member) ==
  IF Has(obj, member, "number") THEN PortOfNumber(obj[member].v)
                                ELSE Field(obj, member, "string", << >>)

(* Rule{} and its members.                                                 *)
NewRule(id) ==
  [id |-> id, priority |-> 100, enabled |-> TRUE, action |-> "Block",
   srcIp |-> AnyIp, dstIp |-> AnyIp, srcPort |-> << >>, dstPort |-> << >>,
   proto |-> "ANY", domain |-> << >>, app |-> "ANY"]

(* One element of the array format; auto is its automatic id.              *)
ArrayRule(obj, auto) ==
  [id |-> Field(obj, "id", "number", auto),
   priority |-> Field(obj, "priority", "number", 100),
   enabled |-> Field(obj, "enabled", "bool", TRUE),
   action |-> IF Has(obj, "action", "string") THEN ToAction(obj["action"].v)
                                              ELSE "Block",
   srcIp |-> Field(obj, "src_ip", "string", Field(obj, "src_ip_cidr", "string", AnyIp)),
   dstIp |-> Field(obj, "dst_ip", "string", Field(obj, "dst_ip_cidr", "string", AnyIp)),
   srcPort |-> PortField(obj, "src_port"),
   dstPort |-> PortField(obj, "dst_port"),
   proto |-> Field(obj, "protocol", "string", "ANY"),
   domain |-> Field(obj, "domain", "string", << >>),
   app |-> Field(obj, "app_protocol", "string", "ANY")]

ValidRule(r) ==
  /\ IpIsValid(r.srcIp) /\ IpIsValid(r.dstIp)
  /\ PortIsValid(r.srcPort) /\ PortIsValid(r.dstPort)

IsString(x) == x.t = "string"

(* The items of a category that count, none if it is missing or no array.  *)
Items(categories, name) == Field(categories, name, "array", << >>)
Strings(categories, name) == SelectSeq(Items(categories, name), IsString)

(* The rules of a category, one for each of its items.                     *)
BlockedIps(items) ==
  [i \in DOMAIN items |->
     [NewRule(0) EXCEPT !.priority = 50, !.dstIp = items[i].v]]
BlockedDomains(items) ==
  [i \in DOMAIN items |->
     [NewRule(0) EXCEPT !.priority = 60, !.domain = items[i].v]]
BlockedApps(items) ==
  [i \in DOMAIN items |-> [NewRule(0) EXCEPT !.priority = 70, !.app = items[i].v]]

(* An item that is neither number nor string leaves the port text empty.   *)
BlockedPorts(items) ==
  [i \in DOMAIN items |->
     [NewRule(0) EXCEPT !.priority = 40,
        !.dstPort = CASE items[i].t = "number" -> PortOfNumber(items[i].v)
                      [] items[i].t = "string" -> items[i].v
                      [] OTHER -> << >>]]

(* The four categories in the order they are read, numbered throughout.    *)
CategoryRules(categories) ==
  LET all == BlockedIps(Strings(categories, "blocked_ips"))
             \o BlockedDomains(Strings(categories, "blocked_domains"))
             \o BlockedPorts(Items(categories, "blocked_ports"))
             \o BlockedApps(Strings(categories, "blocked_apps")) IN
  [i \in DOMAIN all |-> [all[i] EXCEPT !.id = i]]

SupportedApps == {"TLS", "HTTP", "DNS", "ANY"}

DefaultAction(root) ==
  IF Has(root, "default_action", "string") THEN ToAction(root["default_action"].v)
                                           ELSE "Allow"

Accepted(root, rules) ==
  [success |-> TRUE, rules |-> rules, default |-> DefaultAction(root)]

ParseArray(root, elements) ==
  LET rules == [i \in DOMAIN elements |-> ArrayRule(elements[i].v, i)] IN
  IF \A i \in DOMAIN elements : elements[i].t = "object" /\ ValidRule(rules[i])
  THEN Accepted(root, rules) ELSE Refused

ParseCategories(root, categories) ==
  LET rules == CategoryRules(categories) IN
  IF \A i \in DOMAIN rules : ValidRule(rules[i]) /\ rules[i].app \in SupportedApps
  THEN Accepted(root, rules) ELSE Refused

ParseString(json) ==
  IF json.t # "object" THEN Refused
  ELSE IF Has(json.v, "rules", "array") THEN ParseArray(json.v, json.v["rules"].v)
  ELSE IF Has(json.v, "rules", "object")
       THEN ParseCategories(json.v, json.v["rules"].v)
  ELSE Refused

-----------------------------------------------------------------------------
(* compile_rule, into the sets of PolicyRules.                             *)

ParseProtocol(name) ==
  IF name \in {"TCP", "UDP"} THEN {name} ELSE {"TCP", "UDP"}

ParseApp(name) ==
  IF name = "ANY" THEN "any"
  ELSE IF name \in {"TLS", "HTTP", "DNS"} THEN name ELSE "Unknown"

MatchingEndpoints(ip, port) ==
  {e \in Endpoints : IpMatches(ip, e.ip) /\ PortMatches(port, e.port)}

(* The empty name keeps a pattern that no host matches from AnyDomain.     *)
MatchingHosts(d) ==
  IF DomainIsAny(d) THEN AnyDomain
                    ELSE {h \in Hosts : DomainMatches(d, h)} \cup {<< >>}

CompileRule(r) ==
  [id |-> r.id, priority |-> r.priority, enabled |-> r.enabled,
   action |-> r.action, proto |-> ParseProtocol(r.proto),
   src |-> MatchingEndpoints(r.srcIp, r.srcPort),
   dst |-> MatchingEndpoints(r.dstIp, r.dstPort),
   domain |-> MatchingHosts(r.domain), app |-> ParseApp(r.app)]
=============================================================================
