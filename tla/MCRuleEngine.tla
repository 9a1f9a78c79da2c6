---------------------------- MODULE MCRuleEngine ----------------------------
(* Two callers and documents of both formats, accepted and refused, over   *)
(* addresses of three and six bits, ports up to seven and short names.     *)
EXTENDS RuleLoading, TLC

CONSTANTS c1, c2

MCCallers == {c1, c2}
MCWidth == 4 :> 3 @@ 6 :> 6

MCEndpoints ==
  {[ip |-> [v |-> 4, a |-> n], port |-> p] : n \in 0..7, p \in {0, 5}}
  \cup {[ip |-> [v |-> 6, a |-> n], port |-> 5] : n \in {0, 19, 21, 22, 31, 40, 63}}

MCHosts == {<<"a">>, <<"b", "A">>, <<"b", ".", "a">>, <<"a", ".", "b">>,
            <<"b", "a", ".", "a">>, <<"a", "b", ".", "b", ".", "b">>, <<".", "a">>,
            <<"b", "a", "b">>, <<"*", "b", "a", "b">>, << >>}

Str(x) == [t |-> "string", v |-> x]
Num(x) == [t |-> "number", v |-> x]
Arr(x) == [t |-> "array", v |-> x]
Obj(x) == [t |-> "object", v |-> x]
Null == [t |-> "null", v |-> 0]

Cidr(v, a, slash) == [kind |-> "cidr", v |-> v, a |-> a, slash |-> slash]
BadIp == [AnyIp EXCEPT !.kind = "bad"]
Range2(lo, hi) == [kind |-> "range", lo |-> lo, hi |-> hi]
NoPort == [kind |-> "bad", lo |-> 0, hi |-> 0]

ArrayDoc ==
  Obj("default_action" :> Str("DENY") @@ "rules" :>
      Arr(<<Obj("id" :> Num(9) @@ "src_ip" :> Str(Cidr(6, 21, 4))
                @@ "dst_ip" :> Str(Cidr(4, 5, 2)) @@ "action" :> Str("ALERT")
                @@ "priority" :> Null @@ "domain" :> Str(<<"b", "*", ".", "?">>)),
            Obj("src_ip" :> Num(1) @@ "src_ip_cidr" :> Str(Cidr(6, 40, NoSlash))
                @@ "enabled" :> [t |-> "bool", v |-> FALSE]
                @@ "dst_port" :> Str(<<Port(1), Range2(3, 5)>>)
                @@ "src_port" :> Num(13) @@ "protocol" :> Str("UDP")
                @@ "domain" :> Str(<<"*", ".", "a">>) @@ "app_protocol" :> Str("SSH"))>>))

CategoryDoc ==
  Obj("rules" :>
      Obj("blocked_ips" :> Arr(<<Str(Cidr(6, 21, 0)), Null>>)
          @@ "blocked_domains" :> Arr(<<Str(<<"*", "A", "*", "b">>), Str(<<"a", "n", "y">>)>>)
          @@ "blocked_ports" :> Arr(<<Num(7), Null>>)
          @@ "blocked_apps" :> Arr(<<Str("TLS")>>)))

WithRule(r) == Obj("rules" :> Arr(<<r>>))
WithItem(category, item) == Obj("rules" :> Obj(category :> Arr(<<item>>)))

(* The documents by name: one of each format, and one for each reason to   *)
(* refuse.                                                                 *)
Contents ==
  "array" :> ArrayDoc @@ "categories" :> CategoryDoc @@ "broken" :> BrokenText
  @@ "null" :> Null @@ "no rules" :> Obj("default_action" :> Str("ALLOW"))
  @@ "rules 1" :> Obj("rules" :> Num(1)) @@ "null rule" :> WithRule(Null)
  @@ "slash" :> WithRule(Obj("src_ip" :> Str(Cidr(4, 0, 4))))
  @@ "ip" :> WithRule(Obj("dst_ip" :> Str(BadIp)))
  @@ "range" :> WithRule(Obj("src_port" :> Str(<<Range2(5, 3)>>)))
  @@ "port" :> WithRule(Obj("dst_port" :> Str(<<Port(1), Port(8)>>)))
  @@ "blocked ip" :> WithItem("blocked_ips", Str(BadIp))
  @@ "blocked app" :> WithItem("blocked_apps", Str("SSH"))
  @@ "blocked port" :> WithItem("blocked_ports", Str(<<NoPort>>))

MCDocuments == DOMAIN Contents
MCContent(d) == Contents[d]
Parsed == [d \in MCDocuments |-> ParseString(Contents[d])]
MCParse(d) == Parsed[d]

AddedRule == [NewRule(4) EXCEPT !.srcIp = BadIp, !.action = "Log", !.app = "TLS"]

MCAdded == {AddedRule}
MCRules ==
  MCAdded \cup UNION {{MCParse(d).rules[i] : i \in DOMAIN MCParse(d).rules} :
                       d \in {"array", "categories"}}

Compiled == [r \in MCRules |-> CompileRule(r)]
MCCompile(r) == Compiled[r]
=============================================================================
