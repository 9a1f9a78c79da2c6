---------------------------- MODULE PolicyStore ----------------------------
(***************************************************************************)
(* What RuleEngine promises to the workers that evaluate flows: at any     *)
(* time there is one policy, and it changes only by one whole operation.   *)
(* A document replaces rules and default action together or not at all,    *)
(* and no policy is published that mixes two operations.                   *)
(*                                                                         *)
(* Whether clearing also resets the default action is left open:           *)
(* rule_engine.h:83 says that it does and rule_engine.cpp:205 does not.    *)
(***************************************************************************)
EXTENDS Sequences

CONSTANTS Documents, Rules, Actions, Parse(_), Compile(_)

VARIABLE policy

CompiledSet(rules, default) ==
  [rules |-> [i \in DOMAIN rules |-> Compile(rules[i])], default |-> default]

StoreInit == policy = CompiledSet(<< >>, "Allow")

Replace(d) ==
  /\ Parse(d).success
  /\ policy' = CompiledSet(Parse(d).rules, Parse(d).default)

Extend(r) == policy' = [policy EXCEPT !.rules = Append(@, Compile(r))]
Empty == \E a \in {policy.default, "Allow"} : policy' = CompiledSet(<< >>, a)
Default(a) == policy' = [policy EXCEPT !.default = a]

StoreNext ==
  \/ \E d \in Documents : Replace(d)
  \/ \E r \in Rules : Extend(r)
  \/ Empty
  \/ \E a \in Actions : Default(a)

Store == StoreInit /\ [][StoreNext]_policy
=============================================================================
