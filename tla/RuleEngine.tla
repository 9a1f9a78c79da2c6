----------------------------- MODULE RuleEngine -----------------------------
(***************************************************************************)
(* dpi::RuleEngine (src/rules/rule_engine.cpp): the raw rules and the      *)
(* default action behind a mutex, and the compiled set that workers read   *)
(* without it.  Several threads may change the rules at once, and somebody *)
(* may rewrite the rule file.                                              *)
(*                                                                         *)
(* Parsing happens before the mutex is taken, and each mutator assigns its *)
(* members one by one before rebuild_active_ruleset publishes the result.  *)
(* The publication is one step here, as the mutators mean it to be: that a *)
(* worker may see it half done is the subject of RuleSwap.                 *)
(***************************************************************************)
EXTENDS Naturals, Sequences

CONSTANTS
  Callers,     \* threads that change the rules
  Documents,   \* what the rule file and load_rules_from_json may contain
  NoFile,      \* the rule file cannot be opened
  Rules,       \* rules a document may contain
  Added,       \* those among them that add_rule may be given
  Actions,     \* RuleAction
  Parse(_),    \* RuleParser::parse_string, [success, rules, default]
  Compile(_),  \* RuleEngine::compile_rule
  MaxRules,    \* bound on raw_rules_
  Free         \* the mutex is not held

Result == [success : BOOLEAN, rules : Seq(Rules), default : Actions]

ASSUME RuleEngineAssumption ==
  /\ \A d \in Documents : Parse(d) \in Result
  /\ Added \subseteq Rules
  /\ NoFile \notin Documents
  /\ "Allow" \in Actions
  /\ Free \notin Callers

VARIABLES
  file,     \* the content of the rule file
  raw,      \* raw_rules_
  default,  \* default_action_
  active,   \* *active_rules_
  mutex,    \* the holder of mutex_
  at,       \* at[c]: where caller c is
  res       \* res[c]: RuleLoadResult of c's load
vars == <<file, raw, default, active, mutex, at, res>>

CompiledSet(rules, dflt) ==
  [rules |-> [i \in DOMAIN rules |-> Compile(rules[i])], default |-> dflt]

NoResult == [success |-> FALSE, rules |-> << >>, default |-> "Allow"]

Init ==
  /\ file \in Documents \cup {NoFile}
  /\ raw = << >>
  /\ default = "Allow"
  /\ active = CompiledSet(raw, default)
  /\ mutex = Free
  /\ at = [c \in Callers |-> "idle"]
  /\ res = [c \in Callers |-> NoResult]

-----------------------------------------------------------------------------

Go(c, place) == at' = [at EXCEPT ![c] = place]

(* A load that cannot be parsed returns at once.                           *)
Load(c, result) ==
  /\ at[c] = "idle"
  /\ res' = [res EXCEPT ![c] = IF result.success THEN result ELSE NoResult]
  /\ Go(c, IF result.success THEN "parsed" ELSE "idle")
  /\ UNCHANGED <<file, raw, default, active, mutex>>

ParseFile(f) == IF f = NoFile THEN NoResult ELSE Parse(f)

LoadRulesFromFile(c) == Load(c, ParseFile(file))
LoadRulesFromJson(c) == \E d \in Documents : Load(c, Parse(d))

Lock(c) == mutex = Free /\ mutex' = c

(* A bug: the rules are installed without the mutex.                       *)
AssignUnlocked(c) ==
  /\ at[c] = "parsed"
  /\ raw' = res[c].rules
  /\ Go(c, "assigning")
  /\ UNCHANGED <<file, default, active, mutex, res>>

AssignRules(c) ==
  /\ at[c] = "parsed"
  /\ Lock(c)
  /\ raw' = res[c].rules
  /\ Go(c, "assigning")
  /\ UNCHANGED <<file, default, active, res>>

AssignDefault(c) ==
  /\ at[c] = "assigning"
  /\ default' = res[c].default
  /\ Go(c, "loading")
  /\ UNCHANGED <<file, raw, active, mutex, res>>

AddRule(c) ==
  /\ at[c] = "idle"
  /\ Len(raw) < MaxRules
  /\ Lock(c)
  /\ \E r \in Added : raw' = Append(raw, r)
  /\ Go(c, "adding")
  /\ UNCHANGED <<file, default, active, res>>

ClearRules(c) ==
  /\ at[c] = "idle"
  /\ Lock(c)
  /\ raw' = << >>
  /\ Go(c, "clearing")
  /\ UNCHANGED <<file, default, active, res>>

(* A bug: the new default action is not published.                         *)
SetDefaultUnpublished(c) ==
  /\ at[c] = "idle"
  /\ mutex = Free
  /\ \E a \in Actions : default' = a
  /\ UNCHANGED <<file, raw, active, mutex, at, res>>

SetDefaultAction(c) ==
  /\ at[c] = "idle"
  /\ Lock(c)
  /\ \E a \in Actions : default' = a
  /\ Go(c, "setting")
  /\ UNCHANGED <<file, raw, active, res>>

(* rebuild_active_ruleset, the end of each mutator.                        *)
Rebuild(c) ==
  /\ at[c] \in {"loading", "adding", "clearing", "setting"}
  /\ active' = CompiledSet(raw, default)
  /\ mutex' = Free
  /\ Go(c, "idle")
  /\ res' = [res EXCEPT ![c] = NoResult]
  /\ UNCHANGED <<file, raw, default>>

(* The rule file is replaced or removed by its author.                     *)
EditFile ==
  /\ file' \in Documents \cup {NoFile}
  /\ UNCHANGED <<raw, default, active, mutex, at, res>>

CallerStep(c) ==
  \/ LoadRulesFromFile(c)
  \/ LoadRulesFromJson(c)
  \/ AssignRules(c)
  \/ AssignDefault(c)
  \/ AddRule(c)
  \/ ClearRules(c)
  \/ SetDefaultAction(c)
  \/ Rebuild(c)

Next == EditFile \/ \E c \in Callers : CallerStep(c)

Spec == Init /\ [][Next]_vars

-----------------------------------------------------------------------------

Places == {"idle", "parsed", "assigning", "loading", "adding", "clearing", "setting"}
Critical == {"assigning", "loading", "adding", "clearing", "setting"}

CompiledRules == {Compile(r) : r \in Rules}

(* Types, and the mutex is held by exactly the caller in its critical      *)
(* section.                                                                *)
TypeOK ==
  /\ file \in Documents \cup {NoFile}
  /\ raw \in Seq(Rules)
  /\ default \in Actions
  /\ active \in [rules : Seq(CompiledRules), default : Actions]
  /\ mutex \in Callers \cup {Free}
  /\ at \in [Callers -> Places]
  /\ res \in [Callers -> Result]
  /\ \A c \in Callers : mutex = c <=> at[c] \in Critical

(* Whenever nobody is changing the rules, what workers evaluate against is *)
(* compiled from the rules and the default action as they stand: no        *)
(* mutator returns with its change unpublished (rule_engine.cpp:167-215).  *)
PublishedPolicyCurrent == mutex = Free => active = CompiledSet(raw, default)

(* What is published is always one whole policy: members are assigned one  *)
(* by one and loads overlap, yet the published set changes only by whole   *)
(* operations (rule_engine.cpp:167-215).  It says what is published, not   *)
(* how: see RuleSwap.  Of clear_rules it says that no rule is left.        *)
Policy == INSTANCE PolicyStore WITH policy <- active
ImplementsPolicyStore == Policy!Store
=============================================================================
