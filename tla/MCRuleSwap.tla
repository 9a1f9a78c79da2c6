----------------------------- MODULE MCRuleSwap -----------------------------
(* One worker and two reloads.                                             *)
EXTENDS RuleSwap

CONSTANT w1

MCReaders == {w1}
=============================================================================
