------------------------- MODULE RuleEngine_proofs -------------------------
(***************************************************************************)
(* The theorems of RuleEngine, for any callers, documents and parser, and  *)
(* of RuleLoading, for any documents under the parser of the code.         *)
(*                                                                         *)
(* What a mutator has assigned so far is recorded by Sections, one         *)
(* conjunct per place in a critical section; the publication at its end    *)
(* then makes a step of PolicyStore out of it.                             *)
(*                                                                         *)
(* That loaded rules mean their text rests on three facts about the        *)
(* matchers.  A masked comparison, byte by byte, is one of prefixes: by    *)
(* induction over the bytes.  The greedy glob matcher finds a layout of    *)
(* the pattern if there is one: Kept holds at every turn of its loop, no   *)
(* turn changes what a cursor means, and the loop ends.  The suffix path   *)
(* is the layouts of a pattern without further wildcards.                  *)
(***************************************************************************)
EXTENDS RuleLoading, FoldLemmas, SequenceTheorems, TLAPS

Sections ==
  \A c \in Callers :
    /\ at[c] \in {"parsed", "assigning", "loading"} =>
         \E d \in Documents : Parse(d).success /\ res[c] = Parse(d)
    /\ at[c] \in {"assigning", "loading"} => raw = res[c].rules
    /\ at[c] = "loading" => default = res[c].default
    /\ at[c] = "adding" =>
         \E before \in Seq(Rules), r \in Added :
           raw = Append(before, r) /\ active = CompiledSet(before, default)
    /\ at[c] = "clearing" => raw = << >> /\ active.default = default
    /\ at[c] = "setting" => active.rules = CompiledSet(raw, default).rules

EngineInv == TypeOK /\ PublishedPolicyCurrent /\ Sections

-----------------------------------------------------------------------------

(* A compiled policy has its type.                                         *)
LEMMA CompiledTyped ==
  ASSUME NEW rules \in Seq(Rules), NEW dflt \in Actions
  PROVE CompiledSet(rules, dflt) \in [rules : Seq(CompiledRules), default : Actions]
<1>1. /\ DOMAIN rules = 1..Len(rules) /\ Len(rules) \in Nat
      /\ \A i \in DOMAIN rules : Compile(rules[i]) \in CompiledRules
  BY DEF CompiledRules
<1>2. [i \in DOMAIN rules |-> Compile(rules[i])] \in Seq(CompiledRules)
  BY <1>1
<1>q. QED BY <1>2 DEF CompiledSet

(* Compiling a sequence that was appended to.                              *)
LEMMA CompileAppend ==
  ASSUME NEW rules \in Seq(Rules), NEW r \in Rules
  PROVE [i \in DOMAIN Append(rules, r) |-> Compile(Append(rules, r)[i])]
          = Append([i \in DOMAIN rules |-> Compile(rules[i])], Compile(r))
<1> DEFINE a == Append(rules, r)
           s == [i \in DOMAIN rules |-> Compile(rules[i])]
<1>1. /\ a \in Seq(Rules) /\ Len(a) = Len(rules) + 1 /\ Len(rules) \in Nat
      /\ \A i \in 1..Len(rules) : a[i] = rules[i]
      /\ a[Len(rules) + 1] = r
  OBVIOUS
<1>2. DOMAIN a = 1..Len(rules) + 1 /\ DOMAIN rules = 1..Len(rules)
  BY <1>1
<1>3. s \in Seq(CompiledRules) /\ Len(s) = Len(rules)
  BY <1>2 DEF CompiledRules
<1>4. Compile(r) \in CompiledRules
  BY DEF CompiledRules
<1>5. /\ DOMAIN Append(s, Compile(r)) = 1..Len(rules) + 1
      /\ \A i \in 1..Len(rules) : Append(s, Compile(r))[i] = s[i]
      /\ Append(s, Compile(r))[Len(rules) + 1] = Compile(r)
      /\ Append(s, Compile(r)) \in Seq(CompiledRules)
  BY <1>3, <1>4
<1>6. Append(s, Compile(r)) = [i \in 1..Len(rules) + 1 |-> Append(s, Compile(r))[i]]
  BY <1>5
<1>7. \A i \in 1..Len(rules) + 1 : Append(s, Compile(r))[i] = Compile(a[i])
  BY <1>1, <1>2, <1>5
<1>q. QED BY <1>2, <1>6, <1>7

(* A failed parse has the type of a result.                                *)
LEMMA NoResultTyped == NoResult \in Result
  BY RuleEngineAssumption DEF NoResult, Result

(* A new engine satisfies the invariant.                                   *)
LEMMA InitEngineInv == Init => EngineInv
<1> SUFFICES ASSUME Init PROVE EngineInv
  OBVIOUS
<1>1. raw \in Seq(Rules) /\ default \in Actions
  BY RuleEngineAssumption DEF Init
<1>2. TypeOK
  BY <1>1, CompiledTyped, NoResultTyped, RuleEngineAssumption
  DEF Init, TypeOK, Places, Critical
<1>q. QED BY <1>2 DEF Init, EngineInv, PublishedPolicyCurrent, Sections

-----------------------------------------------------------------------------
(* A caller in a critical section holds the mutex, so that the others are  *)
(* elsewhere.                                                              *)
LEMMA OneInside ==
  ASSUME TypeOK, NEW c \in Callers, at[c] \in Critical \/ mutex = Free
  PROVE \A x \in Callers : at[x] \in Critical => x = c
BY RuleEngineAssumption DEF TypeOK

(* The parse of a load, of whatever document, touches the caller only.     *)
LEMMA LoadStep ==
  ASSUME EngineInv, NEW c \in Callers, NEW result,
         Load(c, result),
         result \in Result,
         result.success => \E d \in Documents : result = Parse(d)
  PROVE EngineInv'
<1> USE DEF EngineInv
<1>1. at[c] \notin Critical /\ at'[c] \in {"idle", "parsed"}
      /\ at'[c] \notin Critical
  BY DEF Load, Go, Critical, TypeOK
<1>2. TypeOK'
  BY <1>1, NoResultTyped DEF Load, Go, TypeOK, Places
<1>3. PublishedPolicyCurrent'
  BY DEF Load, PublishedPolicyCurrent
<1>4. ASSUME NEW x \in Callers, x # c
      PROVE  at'[x] = at[x] /\ res'[x] = res[x]
  BY <1>4 DEF Load, Go, TypeOK
<1>5. at'[c] = "parsed" => result.success /\ res'[c] = result
  BY DEF Load, Go, TypeOK
<1>6. UNCHANGED <<raw, default, active>>
  BY DEF Load
<1>7. Sections'
  BY <1>1, <1>4, <1>5, <1>6 DEF Sections
<1>q. QED BY <1>2, <1>3, <1>7

(* Every step keeps the invariant.                                         *)
LEMMA NextEngineInv == EngineInv /\ [Next]_vars => EngineInv'
<1> SUFFICES ASSUME EngineInv, [Next]_vars PROVE EngineInv'
  OBVIOUS
<1> USE DEF EngineInv
<1>1. CASE EditFile
  BY <1>1 DEF EditFile, TypeOK, PublishedPolicyCurrent, Sections
<1>2. ASSUME NEW c \in Callers, LoadRulesFromFile(c) PROVE EngineInv'
  <2>1. ParseFile(file) \in Result
        /\ (ParseFile(file).success => \E d \in Documents : ParseFile(file) = Parse(d))
    BY RuleEngineAssumption, NoResultTyped DEF ParseFile, TypeOK, NoResult
  <2>q. QED BY <1>2, <2>1, LoadStep DEF LoadRulesFromFile
<1>3. ASSUME NEW c \in Callers, LoadRulesFromJson(c) PROVE EngineInv'
  <2>1. PICK d \in Documents : Load(c, Parse(d))
    BY <1>3 DEF LoadRulesFromJson
  <2>q. QED BY <2>1, LoadStep, RuleEngineAssumption
<1>4. ASSUME NEW c \in Callers, AssignRules(c) PROVE EngineInv'
  <2>1. /\ at[c] = "parsed" /\ mutex = Free /\ mutex' = c /\ raw' = res[c].rules
        /\ at' = [at EXCEPT ![c] = "assigning"]
        /\ UNCHANGED <<file, default, active, res>>
    BY <1>4 DEF AssignRules, Lock, Go
  <2>2. \A x \in Callers : at[x] \notin Critical
    BY <2>1, RuleEngineAssumption DEF TypeOK
  <2>3. /\ at'[c] = "assigning"
        /\ \A x \in Callers \ {c} : at'[x] = at[x]
    BY <2>1 DEF TypeOK
  <2>4. res[c].rules \in Seq(Rules)
    BY DEF TypeOK, Result
  <2>5. TypeOK'
    BY <2>1, <2>2, <2>3, <2>4 DEF TypeOK, Places, Critical
  <2>6. Sections'
    BY <2>1, <2>2, <2>3 DEF Sections, Critical
  <2>q. QED BY <2>1, <2>5, <2>6, RuleEngineAssumption DEF PublishedPolicyCurrent
<1>5. ASSUME NEW c \in Callers, AssignDefault(c) PROVE EngineInv'
  <2>1. /\ at[c] = "assigning" /\ default' = res[c].default
        /\ at' = [at EXCEPT ![c] = "loading"]
        /\ UNCHANGED <<file, raw, active, mutex, res>>
    BY <1>5 DEF AssignDefault, Go
  <2>2. mutex = c /\ \A x \in Callers \ {c} : at[x] \notin Critical
    BY <2>1, OneInside DEF TypeOK, Critical
  <2>3. /\ at'[c] = "loading"
        /\ \A x \in Callers \ {c} : at'[x] = at[x]
    BY <2>1 DEF TypeOK
  <2>4. res[c].default \in Actions
    BY DEF TypeOK, Result
  <2>5. TypeOK'
    BY <2>1, <2>2, <2>3, <2>4 DEF TypeOK, Places, Critical
  <2>6. Sections'
    BY <2>1, <2>2, <2>3 DEF Sections, Critical
  <2>q. QED BY <2>1, <2>2, <2>5, <2>6, RuleEngineAssumption DEF PublishedPolicyCurrent
<1>6. ASSUME NEW c \in Callers, AddRule(c) PROVE EngineInv'
  <2>1. PICK r \in Added : /\ at[c] = "idle" /\ mutex = Free /\ mutex' = c
                           /\ raw' = Append(raw, r)
                           /\ at' = [at EXCEPT ![c] = "adding"]
                           /\ UNCHANGED <<file, default, active, res>>
    BY <1>6 DEF AddRule, Lock, Go
  <2>2. \A x \in Callers : at[x] \notin Critical
    BY <2>1, RuleEngineAssumption DEF TypeOK
  <2>3. /\ at'[c] = "adding"
        /\ \A x \in Callers \ {c} : at'[x] = at[x]
    BY <2>1 DEF TypeOK
  <2>4. raw \in Seq(Rules) /\ raw' \in Seq(Rules)
    BY <2>1, RuleEngineAssumption DEF TypeOK
  <2>5. TypeOK'
    BY <2>1, <2>2, <2>3, <2>4 DEF TypeOK, Places, Critical
  <2>6. active = CompiledSet(raw, default)
    BY <2>1 DEF PublishedPolicyCurrent
  <2>7. \E before \in Seq(Rules), x \in Added :
          raw' = Append(before, x) /\ active' = CompiledSet(before, default')
    BY <2>1, <2>4, <2>6
  <2>8. Sections'
    BY <2>1, <2>2, <2>3, <2>7 DEF Sections, Critical
  <2>q. QED BY <2>1, <2>5, <2>8, RuleEngineAssumption DEF PublishedPolicyCurrent
<1>7. ASSUME NEW c \in Callers, ClearRules(c) PROVE EngineInv'
  <2>1. /\ at[c] = "idle" /\ mutex = Free /\ mutex' = c /\ raw' = << >>
        /\ at' = [at EXCEPT ![c] = "clearing"]
        /\ UNCHANGED <<file, default, active, res>>
    BY <1>7 DEF ClearRules, Lock, Go
  <2>2. \A x \in Callers : at[x] \notin Critical
    BY <2>1, RuleEngineAssumption DEF TypeOK
  <2>3. /\ at'[c] = "clearing"
        /\ \A x \in Callers \ {c} : at'[x] = at[x]
    BY <2>1 DEF TypeOK
  <2>4. raw' \in Seq(Rules)
    BY <2>1
  <2>5. TypeOK'
    BY <2>1, <2>2, <2>3, <2>4 DEF TypeOK, Places, Critical
  <2>6. active.default = default
    BY <2>1 DEF PublishedPolicyCurrent, CompiledSet
  <2>7. Sections'
    BY <2>1, <2>2, <2>3, <2>6 DEF Sections, Critical
  <2>q. QED BY <2>1, <2>5, <2>7, RuleEngineAssumption DEF PublishedPolicyCurrent
<1>8. ASSUME NEW c \in Callers, SetDefaultAction(c) PROVE EngineInv'
  <2>1. /\ at[c] = "idle" /\ mutex = Free /\ mutex' = c /\ default' \in Actions
        /\ at' = [at EXCEPT ![c] = "setting"]
        /\ UNCHANGED <<file, raw, active, res>>
    BY <1>8 DEF SetDefaultAction, Lock, Go
  <2>2. \A x \in Callers : at[x] \notin Critical
    BY <2>1, RuleEngineAssumption DEF TypeOK
  <2>3. /\ at'[c] = "setting"
        /\ \A x \in Callers \ {c} : at'[x] = at[x]
    BY <2>1 DEF TypeOK
  <2>4. TypeOK'
    BY <2>1, <2>2, <2>3 DEF TypeOK, Places, Critical
  <2>5. active.rules = CompiledSet(raw, default').rules
    BY <2>1 DEF PublishedPolicyCurrent, CompiledSet
  <2>6. Sections'
    BY <2>1, <2>2, <2>3, <2>5 DEF Sections, Critical
  <2>q. QED BY <2>1, <2>4, <2>6, RuleEngineAssumption DEF PublishedPolicyCurrent
<1>9. ASSUME NEW c \in Callers, Rebuild(c) PROVE EngineInv'
  <2>1. /\ at[c] \in Critical /\ mutex' = Free
        /\ active' = CompiledSet(raw, default)
        /\ at' = [at EXCEPT ![c] = "idle"]
        /\ res' = [res EXCEPT ![c] = NoResult]
        /\ UNCHANGED <<file, raw, default>>
    BY <1>9 DEF Rebuild, Go, Critical
  <2>2. \A x \in Callers \ {c} : at[x] \notin Critical
    BY <2>1, OneInside
  <2>3. /\ at'[c] = "idle"
        /\ \A x \in Callers \ {c} : at'[x] = at[x] /\ res'[x] = res[x]
    BY <2>1 DEF TypeOK
  <2>4. CompiledSet(raw, default) \in [rules : Seq(CompiledRules), default : Actions]
    BY CompiledTyped DEF TypeOK
  <2>5. TypeOK'
    BY <2>1, <2>2, <2>3, <2>4, NoResultTyped, RuleEngineAssumption
    DEF TypeOK, Places, Critical
  <2>6. Sections'
    BY <2>1, <2>2, <2>3 DEF Sections, Critical
  <2>q. QED BY <2>1, <2>5, <2>6 DEF PublishedPolicyCurrent
<1>10. CASE UNCHANGED vars
  BY <1>10 DEF vars, TypeOK, PublishedPolicyCurrent, Sections
<1>q. QED
  BY <1>1, <1>2, <1>3, <1>4, <1>5, <1>6, <1>7, <1>8, <1>9, <1>10
  DEF Next, CallerStep

(* The inductive invariant of the engine.                                  *)
LEMMA EngineInvHolds == Spec => []EngineInv
  BY InitEngineInv, NextEngineInv, PTL DEF Spec

-----------------------------------------------------------------------------

(* Types, and mutual exclusion of the mutators (rule_engine.cpp:176-215).  *)
THEOREM TypeCorrectness == Spec => []TypeOK
<1>1. EngineInv => TypeOK
  BY DEF EngineInv
<1>q. QED BY <1>1, EngineInvHolds, PTL

(* No change is left unpublished (rule_engine.cpp:167-215).                *)
THEOREM ChangesPublished == Spec => []PublishedPolicyCurrent
<1>1. EngineInv => PublishedPolicyCurrent
  BY DEF EngineInv
<1>q. QED BY <1>1, EngineInvHolds, PTL

-----------------------------------------------------------------------------
(* Refinement: only Rebuild changes what workers see, and it does so by    *)
(* one operation of PolicyStore.                                           *)

(* A new engine is a new store.                                            *)
LEMMA StoreInitRefined == Init => Policy!StoreInit
  BY DEF Init, Policy!StoreInit, CompiledSet, Policy!CompiledSet

(* A rebuild publishes what its mutator assigned.                          *)
LEMMA RebuildRefined ==
  ASSUME EngineInv, NEW c \in Callers, Rebuild(c)
  PROVE Policy!StoreNext
<1> USE DEF EngineInv
<1>1. active' = CompiledSet(raw, default)
      /\ at[c] \in {"loading", "adding", "clearing", "setting"}
  BY DEF Rebuild
<1>2. active \in [rules : Seq(CompiledRules), default : Actions] /\ default \in Actions
  BY DEF TypeOK
<1>3. CASE at[c] = "loading"
  <2>1. PICK d \in Documents : Parse(d).success /\ res[c] = Parse(d)
    BY <1>3 DEF Sections
  <2>2. raw = Parse(d).rules /\ default = Parse(d).default
    BY <1>3, <2>1 DEF Sections
  <2>3. Policy!Replace(d)
    BY <1>1, <2>1, <2>2 DEF Policy!Replace, Policy!CompiledSet, CompiledSet
  <2>q. QED BY <2>3 DEF Policy!StoreNext
<1>4. CASE at[c] = "adding"
  <2>1. PICK before \in Seq(Rules), r \in Added :
          raw = Append(before, r) /\ active = CompiledSet(before, default)
    BY <1>4 DEF Sections
  <2>2. r \in Rules
    BY RuleEngineAssumption
  <2> DEFINE s == [i \in DOMAIN before |-> Compile(before[i])]
  <2>3. active = [rules |-> s, default |-> default]
    BY <2>1 DEF CompiledSet
  <2>4. active' = [rules |-> Append(s, Compile(r)), default |-> default]
    BY <1>1, <2>1, <2>2, CompileAppend DEF CompiledSet
  <2>5. Policy!Extend(r)
    <3>1. active.rules = s
      BY <2>3
    <3>2. active' = [active EXCEPT !.rules = Append(s, Compile(r))]
      <4> DEFINE longer == Append(s, Compile(r))
      <4>1. active' = [rules |-> longer, default |-> default]
        BY <2>4
      <4> HIDE DEF s, longer
      <4>2. [active EXCEPT !.rules = longer] = [rules |-> longer, default |-> default]
        BY <2>3
      <4>q. QED BY <4>1, <4>2 DEF longer
    <3>q. QED BY <3>1, <3>2 DEF Policy!Extend
  <2>q. QED BY <2>2, <2>5 DEF Policy!StoreNext
<1>5. CASE at[c] = "clearing"
  <2>1. raw = << >> /\ active.default = default
    BY <1>5 DEF Sections
  <2>2. active' = [rules |-> << >>, default |-> default]
    BY <1>1, <2>1 DEF CompiledSet
  <2>3. active' = Policy!CompiledSet(<< >>, default)
    BY <2>2 DEF Policy!CompiledSet
  <2>4. Policy!Empty
    BY <2>1, <2>3 DEF Policy!Empty
  <2>q. QED BY <2>4 DEF Policy!StoreNext
<1>6. CASE at[c] = "setting"
  <2>1. active.rules = CompiledSet(raw, default).rules
    BY <1>6 DEF Sections
  <2>2. active' = [rules |-> active.rules, default |-> default]
    BY <1>1, <2>1 DEF CompiledSet
  <2>3. Policy!Default(default)
    BY <1>2, <2>2 DEF Policy!Default
  <2>q. QED BY <1>2, <2>3 DEF Policy!StoreNext
<1>q. QED BY <1>1, <1>3, <1>4, <1>5, <1>6

(* Whole policies only are published (rule_engine.cpp:167-215).            *)
THEOREM ImplementsStore == Spec => ImplementsPolicyStore
<1>1. EngineInv /\ [Next]_vars => [Policy!StoreNext]_active
  <2> SUFFICES ASSUME EngineInv, [Next]_vars, active' # active
               PROVE Policy!StoreNext
    OBVIOUS
  <2>1. PICK c \in Callers : Rebuild(c)
    BY DEF Next, CallerStep, vars, EditFile, LoadRulesFromFile,
       LoadRulesFromJson, Load, AssignRules, AssignDefault, AddRule, ClearRules,
       SetDefaultAction
  <2>q. QED BY <2>1, RebuildRefined
<1>q. QED
  BY <1>1, StoreInitRefined, EngineInvHolds, PTL
  DEF Spec, ImplementsPolicyStore, Policy!Store

-----------------------------------------------------------------------------
(* Powers of two: the recursion, found as a walk that doubles as it goes.  *)
LEMMA Pow2Recursion ==
  /\ Pow2[0] = 1
  /\ \A n \in Nat : Pow2[n + 1] = 2 * Pow2[n]
<1> DEFINE X == [left : Nat, acc : Nat]
           At(n, a) == [left |-> n, acc |-> a]
           Stop == {x \in X : x.left = 0}
           Res == [x \in X |-> x.acc]
           Onward == [x \in X |-> At(x.left - 1, 2 * x.acc)]
           size == [x \in X |-> x.left]
           Defines(f) == f = [n \in Nat |-> IF n = 0 THEN 1 ELSE 2 * f[n - 1]]
<1>1. PICK w : IsWalk(w, X, Stop, Res, Onward)
  <2>1. \A x \in X : size[x] \in Nat
    OBVIOUS
  <2>2. \A x \in X : x \notin Stop => Onward[x] \in X /\ size[Onward[x]] < size[x]
    OBVIOUS
  <2> HIDE DEF X, Stop, Res, Onward, size
  <2> QED
    BY <2>1, <2>2, WalkExists
<1>2. \A n, a \in Nat : At(n, a) \in X
  OBVIOUS
<1>3. \A a \in Nat : w[At(0, a)] = a
  <2>1. \A a \in Nat : At(0, a) \in Stop /\ At(0, a) \in X /\ Res[At(0, a)] = a
    OBVIOUS
  <2> HIDE DEF X, Stop, Res, Onward, At
  <2> QED
    BY <1>1, <2>1 DEF IsWalk
<1>4. \A n, a \in Nat : w[At(n + 1, a)] = w[At(n, 2 * a)]
  <2>1. \A n, a \in Nat : /\ At(n + 1, a) \notin Stop /\ At(n + 1, a) \in X
                          /\ Onward[At(n + 1, a)] = At(n, 2 * a)
    OBVIOUS
  <2> HIDE DEF X, Stop, Res, Onward, At
  <2> QED
    BY <1>1, <2>1 DEF IsWalk
<1> HIDE DEF At, X, Stop, Res, Onward, size
<1>5. \A n \in Nat : \A a \in Nat : w[At(n, 2 * a)] = 2 * w[At(n, a)] /\ w[At(n, a)] \in Nat
  <2> DEFINE G == {n \in Nat : \A a \in Nat :
                     w[At(n, 2 * a)] = 2 * w[At(n, a)] /\ w[At(n, a)] \in Nat}
  <2>1. 0 \in G
    BY <1>3
  <2>2. ASSUME NEW n \in Nat, n \in G
        PROVE  n + 1 \in G
    <3> SUFFICES ASSUME NEW a \in Nat
                 PROVE  w[At(n + 1, 2 * a)] = 2 * w[At(n + 1, a)] /\ w[At(n + 1, a)] \in Nat
      OBVIOUS
    <3>1. 2 * a \in Nat /\ 2 * (2 * a) \in Nat
      OBVIOUS
    <3>2. w[At(n + 1, 2 * a)] = w[At(n, 2 * (2 * a))] /\ w[At(n + 1, a)] = w[At(n, 2 * a)]
      BY <1>4, <3>1
    <3> QED
      BY <2>2, <3>1, <3>2
  <2> HIDE DEF G
  <2>3. \A n \in Nat : n \in G
    BY <2>1, <2>2, NatInductive
  <2> QED
    BY <2>3 DEF G
<1> DEFINE f == [n \in Nat |-> w[At(n, 1)]]
<1>6. f[0] = 1 /\ \A n \in Nat : f[n + 1] = 2 * f[n]
  <2>1. \A n \in Nat : w[At(n + 1, 1)] = 2 * w[At(n, 1)]
    <3>1. \A n \in Nat : w[At(n + 1, 1)] = w[At(n, 2 * 1)] /\ w[At(n, 2 * 1)] = 2 * w[At(n, 1)]
      BY <1>4, <1>5
    <3> QED
      BY <3>1
  <2> QED
    BY <1>3, <2>1
<1>7. Defines(f)
  <2>1. \A n \in Nat : f[n] = IF n = 0 THEN 1 ELSE 2 * f[n - 1]
    <3> SUFFICES ASSUME NEW n \in Nat, n # 0
                 PROVE  f[n] = 2 * f[n - 1]
      BY <1>6
    <3>1. n - 1 \in Nat /\ (n - 1) + 1 = n
      OBVIOUS
    <3> HIDE DEF f
    <3> QED
      BY <1>6, <3>1
  <2> QED
    BY <2>1
<1> DEFINE p == CHOOSE g : Defines(g)
<1>8. Defines(p)
  <2> HIDE DEF Defines, f
  <2> QED
    BY <1>7
<1>9. Pow2 = p
  BY DEF Pow2
<1> HIDE DEF p
<1>10. \A n \in Nat : p[n] = IF n = 0 THEN 1 ELSE 2 * p[n - 1]
  BY <1>8
<1>11. p[0] = 1 /\ \A n \in Nat : p[n + 1] = 2 * p[n]
  BY <1>10
<1> QED
  BY <1>9, <1>11

(* Powers of two are positive numbers.                                     *)
LEMMA Pow2Type == \A n \in Nat : Pow2[n] \in Nat /\ Pow2[n] > 0
<1> DEFINE G == {n \in Nat : Pow2[n] \in Nat /\ Pow2[n] > 0}
<1>1. 0 \in G
  BY Pow2Recursion
<1>2. ASSUME NEW n \in Nat, n \in G PROVE n + 1 \in G
  <2>1. Pow2[n + 1] = 2 * Pow2[n]
    BY Pow2Recursion
  <2> QED
    BY <1>2, <2>1
<1> HIDE DEF G
<1>3. \A n \in Nat : n \in G
  BY <1>1, <1>2, NatInductive
<1> QED
  BY <1>3 DEF G

(* The power of a sum is the product of the powers.                        *)
LEMMA Pow2Sum == \A m, n \in Nat : Pow2[m + n] = Pow2[m] * Pow2[n]
<1> SUFFICES ASSUME NEW m \in Nat PROVE \A n \in Nat : Pow2[m + n] = Pow2[m] * Pow2[n]
  OBVIOUS
<1> DEFINE G == {n \in Nat : Pow2[m + n] = Pow2[m] * Pow2[n]}
<1>1. 0 \in G
  BY Pow2Recursion, Pow2Type
<1>2. ASSUME NEW n \in Nat, n \in G PROVE n + 1 \in G
  <2>1. Pow2[n + 1] = 2 * Pow2[n] /\ Pow2[m + (n + 1)] = 2 * Pow2[m + n]
    <3>1. m + (n + 1) = (m + n) + 1 /\ m + n \in Nat
      OBVIOUS
    <3> QED
      BY <3>1, Pow2Recursion
  <2>2. Pow2[m] \in Nat /\ Pow2[n] \in Nat /\ Pow2[m + n] = Pow2[m] * Pow2[n]
    BY <1>2, Pow2Type
  <2>3. \A a, b \in Nat : 2 * (a * b) = a * (2 * b)
    OBVIOUS
  <2> QED
    BY <2>1, <2>2, <2>3
<1> HIDE DEF G
<1>3. \A n \in Nat : n \in G
  BY <1>1, <1>2, NatInductive
<1> QED
  BY <1>3 DEF G

-----------------------------------------------------------------------------
(* Masks and prefixes.                                                     *)

(* Division with remainder.                                                *)
LEMMA DivMod ==
  /\ \A x \in Nat, k \in Nat \ {0} : x \div k \in Nat
  /\ \A x \in Nat, k \in Nat \ {0} : x % k \in 0 .. k - 1
  /\ \A x \in Nat, k \in Nat \ {0} : x = k * (x \div k) + (x % k)
<1>1. \A x \in Nat, k \in Nat \ {0} : x \div k \in Nat
  OBVIOUS
<1>2. \A x \in Nat, k \in Nat \ {0} : x % k \in 0 .. k - 1
  OBVIOUS
<1>3. \A x \in Nat, k \in Nat \ {0} : x = k * (x \div k) + (x % k)
  OBVIOUS
<1> QED
  BY <1>1, <1>2, <1>3

(* Quotient and remainder are the only ones of their kind.                 *)
LEMMA DivUnique ==
  \A k \in Nat \ {0} : \A q \in Nat, r \in 0 .. k - 1 :
    (k * q + r) \div k = q /\ (k * q + r) % k = r
OBVIOUS

(* Numbers agree exactly if all but their last digit and that digit do.    *)
LEMMA DigitsUnique ==
  \A f \in Nat \ {0}, x, y \in Nat : \A c, d \in 0 .. f - 1 :
    f * x + c = f * y + d => x = y /\ c = d
<1> SUFFICES ASSUME NEW f \in Nat \ {0}, NEW x \in Nat, NEW y \in Nat,
                    NEW c \in 0 .. f - 1, NEW d \in 0 .. f - 1, f * x + c = f * y + d
             PROVE  x = y /\ c = d
  OBVIOUS
<1>1. (f * x + c) \div f = x /\ (f * y + d) \div f = y
  BY DivUnique
<1>2. (f * x + c) % f = c /\ (f * y + d) % f = d
  BY DivUnique
<1> QED
  BY <1>1, <1>2

(* Dividing twice is dividing by the product.                              *)
LEMMA DivDiv ==
  \A x \in Nat, k, j \in Nat \ {0} : (x \div k) \div j = x \div (k * j)
OBVIOUS

(* Equal after the mask is equal in what the mask keeps.                   *)
LEMMA MaskedEqual ==
  ASSUME NEW a \in Nat, NEW b \in Nat, NEW w \in Nat, NEW ones \in 0 .. w
  PROVE  And(a, ones, w) = And(b, ones, w) <=> a \div Pow2[w - ones] = b \div Pow2[w - ones]
<1> DEFINE k == Pow2[w - ones]
<1>1. k \in Nat \ {0}
  BY Pow2Type
<1>2. And(a, ones, w) = k * (a \div k) /\ And(b, ones, w) = k * (b \div k)
  <2> HIDE DEF k
  <2>1. \A x \in Nat : x - (x % k) = k * (x \div k)
    BY <1>1, DivMod
  <2> QED
    BY <2>1 DEF And, k
<1>3. \A x, y \in Nat : k * x = k * y => x = y
  <2> HIDE DEF k
  <2> QED
    BY <1>1
<1>4. a \div k \in Nat /\ b \div k \in Nat
  <2> HIDE DEF k
  <2> QED
    BY <1>1, DivMod
<1> HIDE DEF k
<1>5. And(a, ones, w) = And(b, ones, w) <=> a \div k = b \div k
  BY <1>2, <1>3, <1>4
<1> QED
  BY <1>5 DEF k

(* The one mask of a version 4 address keeps the prefix.                   *)
LEMMA MatchesV4Right ==
  ASSUME NEW t \in IpText, NEW a \in Nat, t.v = 4, IpIsValid(t), ~IpIsAny(t)
  PROVE  MatchesV4(t, a) <=>
           a \div Pow2[Width[4] - PrefixLen(t)] = t.a \div Pow2[Width[4] - PrefixLen(t)]
<1>1. t.a \in Nat /\ PrefixLen(t) \in 0 .. Width[4] /\ Width[4] \in Nat
  BY MatchersAssumption DEF IpText, IpIsValid, IpIsAny, PrefixLen, NoSlash
<1> QED
  BY <1>1, MaskedEqual DEF MatchesV4

(* The first i bytes of an address, as a number.                           *)
Upper(a, i) == a \div Pow2[Width[6] - ByteBits * i]

(* An address of version 6 in bytes.                                       *)
Bytes == Width[6] \div ByteBits

(* The bytes fill an address of version 6.                                 *)
LEMMA BytesFill == Bytes \in Nat /\ Width[6] = ByteBits * Bytes /\ ByteBits \in Nat \ {0}
<1>1. \A x \in Nat, k \in Nat \ {0} : x % k = 0 => x = k * (x \div k)
  BY DivMod
<1> QED
  BY <1>1, DivMod, MatchersAssumption DEF Bytes

(* Each byte is the next digit of the address.                             *)
LEMMA UpperStep ==
  ASSUME NEW a \in Nat, NEW i \in 0 .. Bytes - 1
  PROVE  /\ Upper(a, i) \in Nat /\ Upper(a, i + 1) \in Nat
         /\ ByteOf(a, i) \in 0 .. Pow2[ByteBits] - 1
         /\ Upper(a, i + 1) = Pow2[ByteBits] * Upper(a, i) + ByteOf(a, i)
<1> DEFINE low == Width[6] - ByteBits * (i + 1)
           full == Pow2[ByteBits]
<1>1. low \in Nat /\ Width[6] - ByteBits * i = low + ByteBits
  <2>1. \A b \in Nat, n \in Nat : \A j \in 0 .. n - 1 :
          b * n - b * (j + 1) \in Nat /\ b * n - b * j = (b * n - b * (j + 1)) + b
    OBVIOUS
  <2> QED
    BY <2>1, BytesFill
<1> HIDE DEF low
<1>2. Pow2[low] \in Nat \ {0} /\ full \in Nat \ {0} /\ Pow2[low + ByteBits] = Pow2[low] * full
  <2>1. low \in Nat /\ ByteBits \in Nat
    BY <1>1, BytesFill
  <2>2. Pow2[low + ByteBits] = Pow2[low] * Pow2[ByteBits]
    BY <2>1, Pow2Sum
  <2>3. Pow2[low] \in Nat /\ Pow2[low] > 0 /\ Pow2[ByteBits] \in Nat /\ Pow2[ByteBits] > 0
    BY <2>1, Pow2Type
  <2> QED
    BY <2>2, <2>3
<1> HIDE DEF full
<1>3. Upper(a, i) = a \div (Pow2[low] * full)
  BY <1>1, <1>2 DEF Upper
<1>4. Upper(a, i + 1) = a \div Pow2[low] /\ ByteOf(a, i) = Upper(a, i + 1) % full
  BY DEF Upper, ByteOf, low, full
<1>5. Upper(a, i + 1) \in Nat
  BY <1>2, <1>4, DivMod
<1>6. Upper(a, i) = Upper(a, i + 1) \div full
  BY <1>2, <1>3, <1>4, DivDiv
<1>7. /\ Upper(a, i) \in Nat /\ ByteOf(a, i) \in 0 .. full - 1
      /\ Upper(a, i + 1) = full * Upper(a, i) + ByteOf(a, i)
  <2> DEFINE x == Upper(a, i + 1)
  <2>1. x \in Nat /\ full \in Nat \ {0}
    BY <1>2, <1>5
  <2> HIDE DEF x
  <2>2. x \div full \in Nat /\ x % full \in 0 .. full - 1 /\ x = full * (x \div full) + (x % full)
    BY <2>1, DivMod
  <2> QED
    BY <1>4, <1>6, <2>2 DEF x
<1> QED
  BY <1>5, <1>7 DEF full

(* Leading parts agree exactly if their bytes do, by induction.            *)
LEMMA UppersEqual ==
  ASSUME NEW a \in Nat, NEW b \in Nat, a < Pow2[Width[6]], b < Pow2[Width[6]],
         NEW n \in 0 .. Bytes
  PROVE  Upper(a, n) = Upper(b, n) <=> \A i \in 0 .. n - 1 : ByteOf(a, i) = ByteOf(b, i)
<1> DEFINE Same(k) == Upper(a, k) = Upper(b, k) <=>
                        \A i \in 0 .. k - 1 : ByteOf(a, i) = ByteOf(b, i)
           G == {k \in Nat : k <= Bytes => Same(k)}
<1>0. Bytes \in Nat
  BY BytesFill
<1>1. 0 \in G
  <2>1. \A x \in Nat : x < Pow2[Width[6]] => Upper(x, 0) = 0
    <3>1. Pow2[Width[6]] \in Nat \ {0}
      BY MatchersAssumption, Pow2Type
    <3>2. \A x \in Nat, k \in Nat \ {0} : x < k => x \div k = 0
      OBVIOUS
    <3>3. Width[6] - ByteBits * 0 = Width[6]
      BY MatchersAssumption
    <3> QED
      BY <3>1, <3>2, <3>3 DEF Upper
  <2> QED
    BY <2>1
<1>2. ASSUME NEW k \in Nat, k \in G
      PROVE  k + 1 \in G
  <2> SUFFICES ASSUME k + 1 <= Bytes PROVE Same(k + 1)
    OBVIOUS
  <2>1. k \in 0 .. Bytes - 1 /\ Same(k)
    BY <1>0, <1>2
  <2>2. Pow2[ByteBits] \in Nat \ {0}
    BY BytesFill, Pow2Type
  <2>3. /\ Upper(a, k) \in Nat /\ ByteOf(a, k) \in 0 .. Pow2[ByteBits] - 1
        /\ Upper(b, k) \in Nat /\ ByteOf(b, k) \in 0 .. Pow2[ByteBits] - 1
        /\ Upper(a, k + 1) = Pow2[ByteBits] * Upper(a, k) + ByteOf(a, k)
        /\ Upper(b, k + 1) = Pow2[ByteBits] * Upper(b, k) + ByteOf(b, k)
    BY <2>1, UpperStep
  <2>5. Upper(a, k + 1) = Upper(b, k + 1) <=>
          Upper(a, k) = Upper(b, k) /\ ByteOf(a, k) = ByteOf(b, k)
    BY <2>2, <2>3, DigitsUnique
  <2>6. 0 .. (k + 1) - 1 = (0 .. k - 1) \cup {k}
    OBVIOUS
  <2> QED
    BY <2>1, <2>5, <2>6
<1> HIDE DEF G
<1>3. \A k \in Nat : k \in G
  BY <1>1, <1>2, NatInductive
<1> QED
  BY <1>0, <1>3 DEF G

(* The bits that a prefix takes of the byte it ends in.                    *)
LEMMA UpperPart ==
  ASSUME NEW a \in Nat, NEW i \in 0 .. Bytes - 1, NEW r \in 0 .. ByteBits - 1
  PROVE  /\ ByteOf(a, i) \div Pow2[ByteBits - r] \in 0 .. Pow2[r] - 1
         /\ a \div Pow2[Width[6] - (ByteBits * i + r)]
              = Pow2[r] * Upper(a, i) + (ByteOf(a, i) \div Pow2[ByteBits - r])
<1> DEFINE c == Pow2[ByteBits - r]
           f == Pow2[r]
           low == Width[6] - ByteBits * (i + 1)
           b == ByteOf(a, i)
           u == Upper(a, i)
<1>1. low \in Nat /\ Width[6] - (ByteBits * i + r) = low + (ByteBits - r)
  <2>1. \A k \in Nat, n \in Nat : \A j \in 0 .. n - 1, l \in 0 .. k - 1 :
          k * n - k * (j + 1) \in Nat /\ k * n - (k * j + l) = (k * n - k * (j + 1)) + (k - l)
    OBVIOUS
  <2> QED
    BY <2>1, BytesFill
<1>2. ByteBits \in Nat /\ r \in Nat /\ ByteBits - r \in Nat /\ (ByteBits - r) + r = ByteBits
  BY BytesFill
<1>3. c \in Nat \ {0} /\ f \in Nat \ {0} /\ Pow2[ByteBits] = c * f
  <2>1. Pow2[(ByteBits - r) + r] = Pow2[ByteBits - r] * Pow2[r]
    BY <1>2, Pow2Sum
  <2> QED
    BY <2>1, <1>2, Pow2Type
<1>4. /\ u \in Nat /\ b \in 0 .. c * f - 1
      /\ Upper(a, i + 1) \in Nat /\ Upper(a, i + 1) = (c * f) * u + b
  BY <1>3, UpperStep
<1>5. a \div Pow2[Width[6] - (ByteBits * i + r)] = Upper(a, i + 1) \div c
  <2> HIDE DEF low
  <2>1. Pow2[low + (ByteBits - r)] = Pow2[low] * c /\ Pow2[low] \in Nat \ {0}
    <3> DEFINE e == ByteBits - r
    <3>1. low \in Nat /\ e \in Nat
      BY <1>1, <1>2
    <3> HIDE DEF e
    <3>2. Pow2[low + e] = Pow2[low] * Pow2[e] /\ Pow2[low] \in Nat /\ Pow2[low] > 0
      BY <3>1, Pow2Sum, Pow2Type
    <3> QED
      BY <3>2 DEF e
  <2>2. Upper(a, i + 1) = a \div Pow2[low]
    BY DEF Upper, low
  <2> HIDE DEF c
  <2> QED
    BY <1>1, <1>3, <2>1, <2>2, DivDiv
<1> HIDE DEF c, f, low, b, u
<1>6. b \div c \in Nat /\ b % c \in 0 .. c - 1 /\ b = c * (b \div c) + (b % c)
  <2>1. b \in Nat
    BY <1>3, <1>4
  <2> QED
    BY <1>3, <2>1, DivMod
<1>7. b \div c < f
  <2> DEFINE x == b \div c
             y == b % c
  <2>1. x \in Nat /\ y \in Nat /\ c * x + y < c * f
    BY <1>3, <1>4, <1>6
  <2> HIDE DEF x, y
  <2>2. x < f
    BY <1>3, <2>1
  <2> QED
    BY <2>2 DEF x
<1>8. Upper(a, i + 1) \div c = f * u + (b \div c)
  <2> DEFINE x == b \div c
             y == b % c
  <2>1. x \in Nat /\ y \in 0 .. c - 1 /\ Upper(a, i + 1) = (c * f) * u + (c * x + y)
    BY <1>4, <1>6
  <2> HIDE DEF x, y
  <2>2. (c * f) * u + (c * x + y) = c * (f * u + x) + y
    BY <1>3, <1>4, <2>1
  <2>3. f * u + x \in Nat
    BY <1>3, <1>4, <2>1
  <2>4. (c * (f * u + x) + y) \div c = f * u + x
    BY <1>3, <2>1, <2>3, DivUnique
  <2>5. Upper(a, i + 1) \div c = f * u + x
    BY <2>1, <2>2, <2>4
  <2> QED
    BY <2>5 DEF x
<1>9. b \div c \in 0 .. f - 1
  BY <1>3, <1>6, <1>7
<1> QED
  BY <1>5, <1>8, <1>9 DEF b, c, f, u

(* The masks of the bytes, taken together, keep the prefix.                *)
LEMMA MatchesV6Right ==
  ASSUME NEW t \in IpText, NEW a \in Nat, a < Pow2[Width[6]], t.v = 6, IpIsValid(t), ~IpIsAny(t)
  PROVE  MatchesV6(t, a) <=>
           a \div Pow2[Width[6] - PrefixLen(t)] = t.a \div Pow2[Width[6] - PrefixLen(t)]
<1> DEFINE p == PrefixLen(t)
           b == t.a
           q == p \div ByteBits
           r == p % ByteBits
           Masked(x, i) == And(ByteOf(x, i), MaskOnes(i, p), ByteBits)
           c == Pow2[ByteBits - r]
<1>1. /\ b \in Nat /\ b < Pow2[Width[6]] /\ p \in Nat /\ p <= ByteBits * Bytes
  BY MatchersAssumption, BytesFill DEF IpText, IpIsValid, IpIsAny, PrefixLen, NoSlash
<1> HIDE DEF p, b
<1>2. ByteBits \in Nat \ {0} /\ Bytes \in Nat
  BY BytesFill
<1>3. q \in Nat /\ r \in 0 .. ByteBits - 1 /\ p = ByteBits * q + r
  BY <1>1, <1>2, DivMod
<1> HIDE DEF q, r
<1>4. q <= Bytes /\ (q = Bytes => r = 0)
  <2>1. \A k \in Nat \ {0}, n, x \in Nat : \A y \in 0 .. k - 1 :
          k * x + y <= k * n => x <= n /\ (x = n => y = 0)
    OBVIOUS
  <2> QED
    BY <1>1, <1>2, <1>3, <2>1
<1>5. ASSUME NEW i \in 0 .. Bytes - 1
      PROVE  /\ ByteOf(a, i) \in Nat /\ ByteOf(b, i) \in Nat
             /\ ByteOf(a, i) < Pow2[ByteBits] /\ ByteOf(b, i) < Pow2[ByteBits]
  <2>1. Pow2[ByteBits] \in Nat
    BY <1>2, Pow2Type
  <2>2. ByteOf(a, i) \in 0 .. Pow2[ByteBits] - 1 /\ ByteOf(b, i) \in 0 .. Pow2[ByteBits] - 1
    BY <1>1, UpperStep
  <2> QED
    BY <2>1, <2>2
<1>6. ASSUME NEW i \in 0 .. q - 1
      PROVE  Masked(a, i) = Masked(b, i) <=> ByteOf(a, i) = ByteOf(b, i)
  <2>1. i \in 0 .. Bytes - 1
    BY <1>2, <1>3, <1>4
  <2>2. MaskOnes(i, p) = ByteBits
    BY <1>3 DEF MaskOnes, q
  <2>3. Pow2[ByteBits - ByteBits] = 1 /\ ByteBits \in 0 .. ByteBits
    BY <1>2, Pow2Recursion
  <2>4. \A x \in Nat : x \div 1 = x
    OBVIOUS
  <2>5. ByteOf(a, i) \div 1 = ByteOf(a, i) /\ ByteOf(b, i) \div 1 = ByteOf(b, i)
    BY <1>5, <2>1, <2>4
  <2>6. Masked(a, i) = Masked(b, i) <=> ByteOf(a, i) \div 1 = ByteOf(b, i) \div 1
    BY <1>2, <1>5, <2>1, <2>2, <2>3, MaskedEqual
  <2> QED
    BY <2>5, <2>6
<1>7. ASSUME q < Bytes
      PROVE  Masked(a, q) = Masked(b, q) <=> ByteOf(a, q) \div c = ByteOf(b, q) \div c
  <2>1. q \in 0 .. Bytes - 1 /\ r \in 0 .. ByteBits
    BY <1>2, <1>3, <1>7
  <2>2. MaskOnes(q, p) = r
    <3>1. ~(q < q)
      BY <1>3
    <3> QED
      BY <3>1 DEF MaskOnes, q, r
  <2>3. Masked(a, q) = Masked(b, q) <=>
          ByteOf(a, q) \div Pow2[ByteBits - r] = ByteOf(b, q) \div Pow2[ByteBits - r]
    BY <1>2, <1>5, <2>1, <2>2, MaskedEqual
  <2> QED
    BY <2>3
<1>8. ASSUME NEW i \in 0 .. Bytes - 1, i > q
      PROVE  Masked(a, i) = Masked(b, i)
  <2>1. MaskOnes(i, p) = 0
    <3>1. ~(i < q) /\ i # q
      BY <1>2, <1>3, <1>8
    <3> QED
      BY <3>1 DEF MaskOnes, q
  <2>2. Pow2[ByteBits - 0] = Pow2[ByteBits] /\ Pow2[ByteBits] \in Nat \ {0}
    BY <1>2, Pow2Type
  <2>3. \A x \in Nat, k \in Nat \ {0} : x < k => x \div k = 0
    OBVIOUS
  <2>4. ByteOf(a, i) \div Pow2[ByteBits] = ByteOf(b, i) \div Pow2[ByteBits]
    BY <1>5, <2>2, <2>3
  <2>5. 0 \in 0 .. ByteBits
    BY <1>2
  <2> QED
    BY <1>2, <1>5, <2>1, <2>2, <2>4, <2>5, MaskedEqual
<1>9. MatchesV6(t, a) <=> \A i \in 0 .. Bytes - 1 : Masked(a, i) = Masked(b, i)
  BY DEF MatchesV6, Bytes, p, b
<1> HIDE DEF Masked, c
<1>10. MatchesV6(t, a) <=>
         /\ \A i \in 0 .. q - 1 : ByteOf(a, i) = ByteOf(b, i)
         /\ q < Bytes => ByteOf(a, q) \div c = ByteOf(b, q) \div c
  <2>1. \A i \in 0 .. q - 1 : i \in 0 .. Bytes - 1
    BY <1>2, <1>3, <1>4
  <2>2. q < Bytes => q \in 0 .. Bytes - 1
    BY <1>2, <1>3
  <2>3. \A i \in 0 .. Bytes - 1 : i \in 0 .. q - 1 \/ (i = q /\ q < Bytes) \/ i > q
    BY <1>2, <1>3
  <2> QED
    BY <1>6, <1>7, <1>8, <1>9, <2>1, <2>2, <2>3
<1>11. Upper(a, q) = Upper(b, q) <=> \A i \in 0 .. q - 1 : ByteOf(a, i) = ByteOf(b, i)
  <2>1. q \in 0 .. Bytes
    BY <1>2, <1>3, <1>4
  <2> QED
    BY <1>1, <2>1, UppersEqual
<1>12. CASE q = Bytes
  <2>1. p = ByteBits * q
    BY <1>2, <1>3, <1>4, <1>12
  <2>2. ~(q < Bytes)
    BY <1>2, <1>12
  <2> QED
    BY <1>10, <1>11, <2>1, <2>2 DEF Upper, p, b
<1>13. CASE q < Bytes
  <2> DEFINE f == Pow2[r]
             x == ByteOf(a, q) \div c
             y == ByteOf(b, q) \div c
  <2>1. q \in 0 .. Bytes - 1
    BY <1>2, <1>3, <1>13
  <2>2. /\ x \in 0 .. f - 1 /\ a \div Pow2[Width[6] - p] = f * Upper(a, q) + x
        /\ y \in 0 .. f - 1 /\ b \div Pow2[Width[6] - p] = f * Upper(b, q) + y
    <3>1. /\ ByteOf(a, q) \div Pow2[ByteBits - r] \in 0 .. Pow2[r] - 1
          /\ a \div Pow2[Width[6] - (ByteBits * q + r)]
               = Pow2[r] * Upper(a, q) + (ByteOf(a, q) \div Pow2[ByteBits - r])
      BY <1>3, <2>1, UpperPart
    <3>2. /\ ByteOf(b, q) \div Pow2[ByteBits - r] \in 0 .. Pow2[r] - 1
          /\ b \div Pow2[Width[6] - (ByteBits * q + r)]
               = Pow2[r] * Upper(b, q) + (ByteOf(b, q) \div Pow2[ByteBits - r])
      BY <1>1, <1>3, <2>1, UpperPart
    <3>3. Width[6] - (ByteBits * q + r) = Width[6] - p
      BY <1>3
    <3> QED
      BY <3>1, <3>2, <3>3 DEF c
  <2>3. f \in Nat \ {0} /\ Upper(a, q) \in Nat /\ Upper(b, q) \in Nat
    <3>1. r \in Nat
      BY <1>2, <1>3
    <3>2. Pow2[r] \in Nat /\ Pow2[r] > 0
      BY <3>1, Pow2Type
    <3>3. Upper(a, q) \in Nat
      BY <2>1, UpperStep
    <3>4. Upper(b, q) \in Nat
      BY <1>1, <2>1, UpperStep
    <3> QED
      BY <3>2, <3>3, <3>4
  <2> HIDE DEF f, x, y
  <2>4. f * Upper(a, q) + x = f * Upper(b, q) + y <=> Upper(a, q) = Upper(b, q) /\ x = y
    <3> DEFINE u == Upper(a, q)
               v == Upper(b, q)
    <3>1. x \in 0 .. f - 1 /\ y \in 0 .. f - 1 /\ f \in Nat \ {0} /\ u \in Nat /\ v \in Nat
      BY <2>2, <2>3
    <3> HIDE DEF u, v
    <3>2. f * u + x = f * v + y => u = v /\ x = y
      BY <3>1, DigitsUnique
    <3>3. u = v /\ x = y => f * u + x = f * v + y
      OBVIOUS
    <3> QED
      BY <3>2, <3>3 DEF u, v
  <2> QED
    BY <1>10, <1>11, <1>13, <2>2, <2>4 DEF x, y, p, b
<1> QED
  BY <1>2, <1>3, <1>4, <1>12, <1>13

(* A mask means the prefix it stands for.                                  *)
LEMMA IpRight ==
  ASSUME NEW t \in IpText, IpIsValid(t), ~IpIsAny(t), NEW ip, ip.v \in {4, 6},
         ip.a \in Nat, ip.a < Pow2[Width[ip.v]]
  PROVE  IpMatches(t, ip) <=> InSubnet(t, ip)
<1>1. t.v \in {4, 6}
  BY DEF IpText
<1>2. CASE ip.v # t.v
  BY <1>2 DEF IpMatches, InSubnet
<1>3. CASE ip.v = t.v /\ t.v = 4
  <2>1. MatchesV4(t, ip.a) <=>
          ip.a \div Pow2[Width[4] - PrefixLen(t)] = t.a \div Pow2[Width[4] - PrefixLen(t)]
    BY <1>3, MatchesV4Right
  <2> QED
    BY <1>3, <2>1 DEF IpMatches, InSubnet
<1>4. CASE ip.v = t.v /\ t.v = 6
  <2>1. MatchesV6(t, ip.a) <=>
          ip.a \div Pow2[Width[6] - PrefixLen(t)] = t.a \div Pow2[Width[6] - PrefixLen(t)]
    BY <1>4, MatchesV6Right
  <2> QED
    BY <1>4, <2>1 DEF IpMatches, InSubnet
<1> QED
  BY <1>1, <1>2, <1>3, <1>4

-----------------------------------------------------------------------------
(* A port text that is not refused matches some port.                      *)
LEMMA PortReachable ==
  ASSUME NEW e \in PortText, PortIsValid(e)
  PROVE  \E p \in 0 .. MaxPort : PortMatches(e, p)
<1>1. CASE PortIsAny(e)
  <2>1. 0 \in 0 .. MaxPort
    BY MatchersAssumption
  <2> QED
    BY <1>1, <2>1 DEF PortMatches
<1>2. CASE ~PortIsAny(e)
  <2>1. PICK i \in DOMAIN e : e[i].kind # "empty"
    BY <1>2 DEF PortIsAny
  <2>2. e[i].lo \in Nat /\ e[i].hi \in Nat
    <3> DEFINE Tokens == [kind : {"empty", "bad", "port", "range"}, lo : Nat, hi : Nat]
    <3>1. e \in Seq(Tokens)
      BY DEF PortText
    <3>2. \A x \in Tokens : x.lo \in Nat /\ x.hi \in Nat
      OBVIOUS
    <3> HIDE DEF Tokens
    <3>3. e[i] \in Tokens
      BY <2>1, <3>1
    <3> QED
      BY <3>2, <3>3
  <2>3. e[i].hi <= MaxPort /\ e[i].lo <= e[i].hi
    BY <2>1, <2>2, MatchersAssumption DEF PortIsValid, PortRefused
  <2>4. e[i].lo \in 0 .. MaxPort /\ e[i].lo \in e[i].lo .. e[i].hi
    BY <2>2, <2>3, MatchersAssumption
  <2> QED
    BY <2>1, <2>4 DEF PortMatches
<1> QED
  BY <1>1, <1>2

-----------------------------------------------------------------------------
(* The characters of texts.  That a string constant is a string is not     *)
(* known to the provers.                                                   *)
(* The characters of a name are strings; the provers do not know the ones  *)
(* that the matcher tests for to be among them.                            *)
Chars == STRING \cup {"a", ".", "?"}

(* The characters the matcher tests for are characters.                    *)
LEMMA CharsFacts ==
  /\ "." \in Chars /\ "a" \in Chars /\ "?" \in Chars
  /\ \A s \in Seq(STRING) : s \in Seq(Chars)
BY DEF Chars

(* Layouts of the rest of a pattern, from place p, along the rest of a     *)
(* text, from place t.                                                     *)
Laid(text, pattern, end, i) ==
  IF pattern[i] = "*" THEN end[i] >= end[i - 1]
  ELSE end[i] = end[i - 1] + 1 /\ pattern[i] \in {"?", text[end[i]]}

Layout(text, pattern, t, p) ==
  \E end \in [p - 1 .. Len(pattern) -> 0 .. Len(text)] :
    /\ end[p - 1] = t - 1 /\ end[Len(pattern)] = Len(text)
    /\ \A i \in p .. Len(pattern) : Laid(text, pattern, end, i)

(* Glob asks for a layout of all of the pattern along all of the text.     *)
LEMMA LayoutOfAll ==
  ASSUME NEW text \in Seq(Chars), NEW pattern \in Seq(Chars)
  PROVE  Glob(text, pattern) <=> Layout(text, pattern, 1, 1)
BY DEF Glob, Layout, Laid

(* The empty rest of a pattern fits the empty rest of a text only.         *)
LEMMA LayoutAtEnd ==
  ASSUME NEW text \in Seq(Chars), NEW pattern \in Seq(Chars), NEW t \in 1 .. Len(text) + 1
  PROVE  Layout(text, pattern, t, Len(pattern) + 1) <=> t = Len(text) + 1
<1> DEFINE P == Len(pattern)
<1>1. P \in Nat /\ Len(text) \in Nat
  OBVIOUS
<1>2. (P + 1) - 1 = P /\ P + 1 .. P = {}
  BY <1>1
<1>3. ASSUME t = Len(text) + 1
      PROVE  Layout(text, pattern, t, P + 1)
  <2> DEFINE end == [i \in P .. P |-> t - 1]
  <2>1. end \in [P .. P -> 0 .. Len(text)] /\ end[P] = t - 1 /\ t - 1 = Len(text)
    BY <1>1, <1>3
  <2> HIDE DEF end
  <2> QED
    BY <1>2, <2>1 DEF Layout
<1>4. ASSUME Layout(text, pattern, t, P + 1)
      PROVE  t = Len(text) + 1
  BY <1>1, <1>2, <1>4 DEF Layout
<1> QED
  BY <1>3, <1>4

(* A layout is one of the next place of the pattern and one of its rest.   *)
LEMMA LayoutStep ==
  ASSUME NEW text \in Seq(Chars), NEW pattern \in Seq(Chars),
         NEW t \in 1 .. Len(text) + 1, NEW p \in 1 .. Len(pattern)
  PROVE  Layout(text, pattern, t, p) <=>
           \E u \in 1 .. Len(text) + 1 :
             /\ Layout(text, pattern, u, p + 1)
             /\ IF pattern[p] = "*" THEN u >= t
                ELSE u = t + 1 /\ pattern[p] \in {"?", text[t]}
<1> DEFINE P == Len(pattern)
           T == Len(text)
<1>0. P \in Nat /\ T \in Nat /\ p \in Nat /\ t \in Nat /\ p >= 1 /\ p <= P /\ t >= 1 /\ t <= T + 1
  OBVIOUS
<1>1. /\ (p + 1) - 1 = p /\ p \in p - 1 .. P /\ p - 1 \in p - 1 .. P
      /\ P \in p .. P /\ P # p - 1 /\ p # p - 1 /\ p \in p .. P /\ P \in p - 1 .. P
      /\ \A i \in p + 1 .. P : /\ i \in p .. P /\ i - 1 \in p .. P /\ i # p - 1 /\ i - 1 # p - 1
                               /\ i \in p - 1 .. P /\ i - 1 \in p - 1 .. P
      /\ \A i \in p .. P : i = p \/ i \in p + 1 .. P
      /\ \A i \in p .. P : i \in p - 1 .. P /\ i # p - 1
      /\ \A i \in p - 1 .. P : i = p - 1 \/ i \in p .. P
  BY <1>0
<1>2. ASSUME Layout(text, pattern, t, p)
      PROVE  \E u \in 1 .. T + 1 :
               /\ Layout(text, pattern, u, p + 1)
               /\ IF pattern[p] = "*" THEN u >= t
                  ELSE u = t + 1 /\ pattern[p] \in {"?", text[t]}
  <2>1. PICK end \in [p - 1 .. P -> 0 .. T] :
           /\ end[p - 1] = t - 1 /\ end[P] = T
           /\ \A i \in p .. P : Laid(text, pattern, end, i)
    BY <1>2 DEF Layout
  <2> DEFINE rest == [i \in p .. P |-> end[i]]
             u == end[p] + 1
  <2>2. u \in 1 .. T + 1 /\ end[p] \in 0 .. T /\ end[p] = u - 1
    BY <1>0, <1>1, <2>1
  <2>3. rest \in [p .. P -> 0 .. T] /\ rest[p] = u - 1 /\ rest[P] = T
    BY <1>1, <2>1, <2>2
  <2>4. \A i \in p + 1 .. P : rest[i] = end[i] /\ rest[i - 1] = end[i - 1]
    BY <1>1
  <2> HIDE DEF rest
  <2>5. \A i \in p + 1 .. P : Laid(text, pattern, rest, i)
    BY <1>1, <2>1, <2>4 DEF Laid
  <2>6. Layout(text, pattern, u, p + 1)
    <3> HIDE DEF u
    <3> QED
      BY <1>1, <2>3, <2>5 DEF Layout
  <2>7. IF pattern[p] = "*" THEN u >= t ELSE u = t + 1 /\ pattern[p] \in {"?", text[t]}
    <3>1. Laid(text, pattern, end, p)
      BY <1>1, <2>1
    <3>2. end[p] = (t - 1) + 1 => end[p] = t
      BY <1>0
    <3> QED
      BY <1>0, <2>1, <2>2, <3>1, <3>2 DEF Laid
  <2> HIDE DEF u
  <2> QED
    BY <2>2, <2>6, <2>7
<1>3. ASSUME NEW u \in 1 .. T + 1, Layout(text, pattern, u, p + 1),
             IF pattern[p] = "*" THEN u >= t
             ELSE u = t + 1 /\ pattern[p] \in {"?", text[t]}
      PROVE  Layout(text, pattern, t, p)
  <2>1. PICK rest \in [p .. P -> 0 .. T] :
           /\ rest[p] = u - 1 /\ rest[P] = T
           /\ \A i \in p + 1 .. P : Laid(text, pattern, rest, i)
    BY <1>1, <1>3 DEF Layout
  <2> DEFINE end == [i \in p - 1 .. P |-> IF i = p - 1 THEN t - 1 ELSE rest[i]]
  <2>2. t - 1 \in 0 .. T
    BY <1>0
  <2>3. end \in [p - 1 .. P -> 0 .. T]
    BY <1>1, <2>1, <2>2
  <2>4. /\ end[p - 1] = t - 1 /\ end[p] = u - 1 /\ end[P] = T
        /\ \A i \in p + 1 .. P : end[i] = rest[i] /\ end[i - 1] = rest[i - 1]
    BY <1>1, <2>1
  <2> HIDE DEF end
  <2>5. \A i \in p + 1 .. P : Laid(text, pattern, end, i)
    BY <2>1, <2>4 DEF Laid
  <2>6. Laid(text, pattern, end, p)
    <3>1. u >= t => u - 1 >= t - 1
      BY <1>0
    <3>2. u = t + 1 => u - 1 = t /\ u - 1 = (t - 1) + 1
      BY <1>0
    <3> QED
      BY <1>3, <2>4, <3>1, <3>2 DEF Laid
  <2>7. \A i \in p .. P : Laid(text, pattern, end, i)
    BY <1>1, <2>5, <2>6
  <2> QED
    BY <2>3, <2>4, <2>7 DEF Layout
<1> QED
  BY <1>2, <1>3

(* Behind the end of the text only stars can be laid out.                  *)
LEMMA LayoutOfNothing ==
  ASSUME NEW text \in Seq(Chars), NEW pattern \in Seq(Chars)
  PROVE  \A p \in 1 .. Len(pattern) + 1 :
           Layout(text, pattern, Len(text) + 1, p) <=>
             \A i \in p .. Len(pattern) : pattern[i] = "*"
<1> DEFINE T == Len(text) + 1
           P == Len(pattern) + 1
           Right(p) == Layout(text, pattern, T, p) <=> \A i \in p .. P - 1 : pattern[i] = "*"
           G == {n \in Nat : n < P => Right(P - n)}
<1>1. P \in Nat /\ P >= 1 /\ T \in Nat /\ T \in 1 .. T /\ P - 1 = Len(pattern)
  OBVIOUS
<1>2. 0 \in G
  <2>1. P - 0 = P /\ P .. P - 1 = {}
    BY <1>1
  <2>2. Layout(text, pattern, T, P)
    BY <1>1, LayoutAtEnd
  <2> HIDE DEF P, T
  <2> QED
    BY <2>1, <2>2
<1>3. ASSUME NEW n \in Nat, n \in G
      PROVE  n + 1 \in G
  <2> SUFFICES ASSUME n + 1 < P PROVE Right(P - (n + 1))
    OBVIOUS
  <2> DEFINE p == P - (n + 1)
  <2>1. p \in 1 .. Len(pattern) /\ p + 1 = P - n /\ n < P
    BY <1>1
  <2>2. Right(p + 1)
    BY <1>3, <2>1
  <2>3. Layout(text, pattern, T, p) <=>
           \E u \in 1 .. Len(text) + 1 :
             /\ Layout(text, pattern, u, p + 1)
             /\ IF pattern[p] = "*" THEN u >= T
                ELSE u = T + 1 /\ pattern[p] \in {"?", text[T]}
    BY <1>1, <2>1, LayoutStep
  <2>4. \A u \in 1 .. Len(text) + 1 : u # T + 1 /\ (u >= T <=> u = T)
    BY <1>1
  <2>5. Layout(text, pattern, T, p) <=> Layout(text, pattern, T, p + 1) /\ pattern[p] = "*"
    BY <1>1, <2>3, <2>4
  <2>6. \A i \in p .. P - 1 : i = p \/ i \in p + 1 .. P - 1
    BY <1>1, <2>1
  <2>7. p \in p .. P - 1 /\ \A i \in p + 1 .. P - 1 : i \in p .. P - 1
    BY <1>1, <2>1
  <2> HIDE DEF p
  <2>8. Right(p)
    BY <2>2, <2>5, <2>6, <2>7
  <2> QED
    BY <2>8 DEF p
<1>4. \A n \in Nat : n \in G
  <2> HIDE DEF G
  <2> QED
    BY <1>2, <1>3, NatInductive
<1> SUFFICES ASSUME NEW p \in 1 .. P PROVE Right(p)
  BY <1>1
<1>5. P - p \in Nat /\ P - p < P /\ P - (P - p) = p
  BY <1>1
<1>6. Right(P - (P - p))
  BY <1>4, <1>5
<1> QED
  BY <1>5, <1>6

(* Without stars a pattern is laid out character by character.             *)
LEMMA LayoutForward ==
  ASSUME NEW text \in Seq(Chars), NEW pattern \in Seq(Chars),
         NEW u \in 1 .. Len(text) + 1, NEW from \in 1 .. Len(pattern) + 1,
         NEW to \in from .. Len(pattern) + 1,
         \A i \in from .. to - 1 : pattern[i] # "*",
         Layout(text, pattern, u, from)
  PROVE  /\ u + (to - from) \in 1 .. Len(text) + 1
         /\ Layout(text, pattern, u + (to - from), to)
<1> DEFINE G == {n \in Nat : from + n <= to =>
                    /\ u + n \in 1 .. Len(text) + 1
                    /\ Layout(text, pattern, u + n, from + n)}
<1>0. u \in Nat /\ from \in Nat /\ to \in Nat /\ from >= 1 /\ from <= to /\ to <= Len(pattern) + 1
  OBVIOUS
<1>1. 0 \in G
  <2>1. u + 0 = u /\ from + 0 = from
    BY <1>0
  <2> QED
    BY <2>1
<1>2. ASSUME NEW n \in Nat, n \in G
      PROVE  n + 1 \in G
  <2> SUFFICES ASSUME from + (n + 1) <= to
               PROVE  /\ u + (n + 1) \in 1 .. Len(text) + 1
                      /\ Layout(text, pattern, u + (n + 1), from + (n + 1))
    OBVIOUS
  <2> DEFINE t == u + n
             p == from + n
  <2>1. /\ p \in 1 .. Len(pattern) /\ p \in from .. to - 1 /\ from + n <= to
        /\ u + (n + 1) = t + 1 /\ from + (n + 1) = p + 1
    BY <1>0
  <2>2. t \in 1 .. Len(text) + 1 /\ Layout(text, pattern, t, p)
    BY <1>2, <2>1
  <2>3. pattern[p] # "*"
    BY <2>1
  <2> HIDE DEF t, p
  <2>4. PICK v \in 1 .. Len(text) + 1 : Layout(text, pattern, v, p + 1) /\ v = t + 1
    BY <2>1, <2>2, <2>3, LayoutStep
  <2> QED
    BY <2>1, <2>4
<1> HIDE DEF G
<1>3. \A n \in Nat : n \in G
  BY <1>1, <1>2, NatInductive
<1>4. to - from \in Nat /\ from + (to - from) = to
  BY <1>0
<1> QED
  BY <1>3, <1>4 DEF G

-----------------------------------------------------------------------------
(* The loop of glob_match as a walk over cursors.                          *)
Fits(text, pattern, c) ==
  c.p < Len(pattern) + 1 /\ pattern[c.p] \in {"?", text[c.t]}

AtStar(pattern, c) == c.p < Len(pattern) + 1 /\ pattern[c.p] = "*"

Matched(c) == [c EXCEPT !.t = @ + 1, !.p = @ + 1]
Starred(c) == [c EXCEPT !.p = @ + 1, !.star = c.p, !.m = c.t]
Retried(c) == [c EXCEPT !.t = c.m + 1, !.p = c.star + 1, !.m = @ + 1]

(* The loop ends behind the text, or where neither the character nor a star*)
(* helps.                                                                  *)
Ended(text, pattern) ==
  {c \in Cursors(text, pattern) :
     \/ c.t = Len(text) + 1
     \/ ~Fits(text, pattern, c) /\ ~AtStar(pattern, c) /\ c.star = 0}

Outcome(text, pattern, c) ==
  c.t = Len(text) + 1 /\ \A i \in c.p .. Len(pattern) + 1 - 1 : pattern[i] = "*"

Advanced(text, pattern, c) ==
  IF Fits(text, pattern, c) THEN Matched(c)
  ELSE IF AtStar(pattern, c) THEN Starred(c) ELSE Retried(c)

(* Every step moves the last star, or the place to go on from, or the      *)
(* place in the pattern.                                                   *)
Weight(T, P, c) == (P - c.star) * ((T + 1) * (P + 1)) + (T - c.m) * (P + 1) + (P - c.p)

Ahead(text, pattern) ==
  [c \in Cursors(text, pattern) |-> Weight(Len(text) + 1, Len(pattern) + 1, c)]

(* Three bounded counters, as the digits of one number.                    *)
LEMMA Lexicographic ==
  ASSUME NEW N \in Nat, NEW K \in Nat,
         NEW a \in Nat, NEW b \in 0 .. N, NEW c \in 0 .. K,
         NEW x \in Nat, NEW y \in 0 .. N, NEW z \in 0 .. K,
         x < a \/ (x = a /\ y < b) \/ (x = a /\ y = b /\ z < c)
  PROVE  x * ((N + 1) * (K + 1)) + y * (K + 1) + z < a * ((N + 1) * (K + 1)) + b * (K + 1) + c
<1> DEFINE L == K + 1
           M == (N + 1) * L
<1>1. L \in Nat \ {0} /\ M \in Nat
  OBVIOUS
<1>2. y * L + z < M
  <2>1. y * L <= N * L
    BY <1>1
  <2>2. M = N * L + L
    OBVIOUS
  <2>3. y * L \in Nat /\ N * L \in Nat /\ z < L
    OBVIOUS
  <2> HIDE DEF L, M
  <2> QED
    BY <1>1, <2>1, <2>2, <2>3
<1>3. y * L \in Nat /\ b * L \in Nat /\ x * M \in Nat /\ a * M \in Nat
  BY <1>1
<1> HIDE DEF L, M
<1>4. CASE x < a
  <2>1. x * M + M <= a * M
    <3>1. (x + 1) * M <= a * M
      BY <1>1, <1>4
    <3> QED
      BY <1>1, <3>1
  <2>2. x * M + y * L + z < a * M + b * L + c
    BY <1>1, <1>2, <1>3, <2>1
  <2> QED
    BY <2>2 DEF L, M
<1>5. CASE x = a /\ y < b
  <2>1. y * L + L <= b * L
    <3>1. (y + 1) * L <= b * L
      BY <1>1, <1>5
    <3> QED
      BY <1>1, <3>1
  <2>2. z < L
    BY DEF L
  <2>3. x * M + y * L + z < a * M + b * L + c
    BY <1>1, <1>3, <1>5, <2>1, <2>2
  <2> QED
    BY <2>3 DEF L, M
<1>6. CASE x = a /\ y = b /\ z < c
  <2>1. x * M + y * L + z < a * M + b * L + c
    BY <1>1, <1>3, <1>6
  <2> QED
    BY <2>1 DEF L, M
<1> QED
  BY <1>4, <1>5, <1>6

(* Every turn of the loop leaves less ahead of the cursor.                 *)
LEMMA AheadShrinks ==
  ASSUME NEW text \in Seq(Chars), NEW pattern \in Seq(Chars),
         NEW c \in Cursors(text, pattern)
  PROVE  /\ Ahead(text, pattern)[c] \in Nat
         /\ c \notin Ended(text, pattern) =>
              /\ Advanced(text, pattern, c) \in Cursors(text, pattern)
              /\ Ahead(text, pattern)[Advanced(text, pattern, c)] < Ahead(text, pattern)[c]
<1> DEFINE T == Len(text) + 1
           P == Len(pattern) + 1
           X == Cursors(text, pattern)
           size == Ahead(text, pattern)
<1>1. T \in Nat /\ P \in Nat /\ T >= 1 /\ P >= 1
  OBVIOUS
<1>2. \A x : x \in X <=>
        /\ x \in [t : 1 .. T, p : 1 .. P, star : 0 .. P - 1, m : 1 .. T]
        /\ x.star < x.p /\ x.m <= x.t
  BY DEF Cursors
<1>3. \A x \in X : size[x] = Weight(T, P, x)
  BY DEF Ahead
<1> HIDE DEF T, P, X, size
<1>4. \A x \in X : P - x.star \in Nat /\ T - x.m \in 0 .. T /\ P - x.p \in 0 .. P
  BY <1>1, <1>2
<1>5. size[c] \in Nat
  <2>1. c \in X
    BY DEF X
  <2>2. \A x, y, z, k, l \in Nat : x * (k * l) + y * l + z \in Nat
    OBVIOUS
  <2>3. T + 1 \in Nat /\ P + 1 \in Nat /\ P - c.star \in Nat /\ T - c.m \in Nat /\ P - c.p \in Nat
    BY <1>1, <1>4, <2>1
  <2>4. (P - c.star) * ((T + 1) * (P + 1)) + (T - c.m) * (P + 1) + (P - c.p) \in Nat
    BY <2>2, <2>3
  <2> QED
    BY <1>3, <2>1, <2>4 DEF Weight
<1>6. ASSUME c \notin Ended(text, pattern)
      PROVE  Advanced(text, pattern, c) \in X /\ size[Advanced(text, pattern, c)] < size[c]
  <2> DEFINE d == Advanced(text, pattern, c)
  <2>1. /\ c \in X /\ c.t # T
        /\ Fits(text, pattern, c) \/ AtStar(pattern, c) \/ c.star # 0
    BY <1>6 DEF Ended, X, T
  <2>2. /\ c \in [t : 1 .. T, p : 1 .. P, star : 0 .. P - 1, m : 1 .. T]
        /\ c.star < c.p /\ c.m <= c.t
    BY <1>2, <2>1
  <2>3. /\ c.t \in Nat /\ c.t < T /\ c.t >= 1 /\ c.p \in Nat /\ c.p >= 1 /\ c.p <= P
        /\ c.star \in Nat /\ c.m \in Nat /\ c.m >= 1 /\ c.m < T
    BY <1>1, <2>1, <2>2
  <2>4. (Fits(text, pattern, c) => c.p < P) /\ (AtStar(pattern, c) => c.p < P)
    BY DEF Fits, AtStar, P
  <2>5. /\ d \in X
        /\ \/ d.star > c.star
           \/ d.star = c.star /\ d.m > c.m
           \/ d.star = c.star /\ d.m = c.m /\ d.p > c.p
    <3>1. CASE Fits(text, pattern, c)
      <4>1. d = Matched(c)
        BY <3>1 DEF Advanced
      <4>2. /\ Matched(c) \in [t : 1 .. T, p : 1 .. P, star : 0 .. P - 1, m : 1 .. T]
            /\ Matched(c).star = c.star /\ Matched(c).m = c.m
            /\ Matched(c).p = c.p + 1 /\ Matched(c).t = c.t + 1
        <5>1. c.t + 1 \in 1 .. T /\ c.p + 1 \in 1 .. P
          BY <1>1, <2>2, <2>3, <2>4, <3>1
        <5> DEFINE Q == 1 .. T
                   R == 1 .. P
                   S == 0 .. P - 1
        <5> HIDE DEF Q, R, S
        <5>2. c.t + 1 \in Q /\ c.p + 1 \in R
          BY <5>1 DEF Q, R, S
        <5>3. c \in [t : Q, p : R, star : S, m : Q]
          BY <2>2 DEF Q, R, S
        <5>4. /\ Matched(c) \in [t : Q, p : R, star : S, m : Q]
              /\ Matched(c).star = c.star /\ Matched(c).m = c.m
              /\ Matched(c).p = c.p + 1 /\ Matched(c).t = c.t + 1
          BY <5>2, <5>3 DEF Matched
        <5> QED
          BY <5>4 DEF Q, R, S
      <4> HIDE DEF d
      <4> QED
        BY <1>2, <2>2, <2>3, <4>1, <4>2
    <3>2. CASE ~Fits(text, pattern, c) /\ AtStar(pattern, c)
      <4>1. d = Starred(c)
        BY <3>2 DEF Advanced
      <4>2. /\ Starred(c) \in [t : 1 .. T, p : 1 .. P, star : 0 .. P - 1, m : 1 .. T]
            /\ Starred(c).star = c.p /\ Starred(c).m = c.t
            /\ Starred(c).p = c.p + 1 /\ Starred(c).t = c.t
        <5>1. c.p + 1 \in 1 .. P /\ c.p \in 0 .. P - 1 /\ c.t \in 1 .. T
          BY <1>1, <2>2, <2>3, <2>4, <3>2
        <5> DEFINE Q == 1 .. T
                   R == 1 .. P
                   S == 0 .. P - 1
        <5> HIDE DEF Q, R, S
        <5>2. c.p + 1 \in R /\ c.p \in S /\ c.t \in Q
          BY <5>1 DEF Q, R, S
        <5>3. c \in [t : Q, p : R, star : S, m : Q]
          BY <2>2 DEF Q, R, S
        <5>4. /\ Starred(c) \in [t : Q, p : R, star : S, m : Q]
              /\ Starred(c).star = c.p /\ Starred(c).m = c.t
              /\ Starred(c).p = c.p + 1 /\ Starred(c).t = c.t
          BY <5>2, <5>3 DEF Starred
        <5> QED
          BY <5>4 DEF Q, R, S
      <4> HIDE DEF d
      <4> QED
        BY <1>2, <2>2, <2>3, <4>1, <4>2
    <3>3. CASE ~Fits(text, pattern, c) /\ ~AtStar(pattern, c)
      <4>1. d = Retried(c)
        BY <3>3 DEF Advanced
      <4>2. /\ Retried(c) \in [t : 1 .. T, p : 1 .. P, star : 0 .. P - 1, m : 1 .. T]
            /\ Retried(c).star = c.star /\ Retried(c).m = c.m + 1
            /\ Retried(c).p = c.star + 1 /\ Retried(c).t = c.m + 1
        <5>1. c.m + 1 \in 1 .. T /\ c.star + 1 \in 1 .. P
          BY <1>1, <2>2, <2>3
        <5> DEFINE Q == 1 .. T
                   R == 1 .. P
                   S == 0 .. P - 1
        <5> HIDE DEF Q, R, S
        <5>2. c.m + 1 \in Q /\ c.star + 1 \in R
          BY <5>1 DEF Q, R, S
        <5>3. c \in [t : Q, p : R, star : S, m : Q]
          BY <2>2 DEF Q, R, S
        <5>4. /\ Retried(c) \in [t : Q, p : R, star : S, m : Q]
              /\ Retried(c).star = c.star /\ Retried(c).m = c.m + 1
              /\ Retried(c).p = c.star + 1 /\ Retried(c).t = c.m + 1
          BY <5>2, <5>3 DEF Retried
        <5> QED
          BY <5>4 DEF Q, R, S
      <4> HIDE DEF d
      <4> QED
        BY <1>2, <2>2, <2>3, <4>1, <4>2
    <3> QED
      BY <3>1, <3>2, <3>3
  <2> HIDE DEF d
  <2>6. /\ P - c.star \in Nat /\ T - c.m \in 0 .. T /\ P - c.p \in 0 .. P
        /\ P - d.star \in Nat /\ T - d.m \in 0 .. T /\ P - d.p \in 0 .. P
    BY <1>4, <2>1, <2>5
  <2>7. /\ d.star \in Nat /\ d.m \in Nat /\ d.p \in Nat
    BY <1>1, <1>2, <2>5
  <2>8. \/ P - d.star < P - c.star
        \/ P - d.star = P - c.star /\ T - d.m < T - c.m
        \/ P - d.star = P - c.star /\ T - d.m = T - c.m /\ P - d.p < P - c.p
    <3>1. \A k, x, y \in Nat : (x > y => k - x < k - y) /\ (x = y => k - x = k - y)
      OBVIOUS
    <3>2. /\ d.star > c.star => P - d.star < P - c.star
          /\ d.star = c.star => P - d.star = P - c.star
      BY <1>1, <2>3, <2>7, <3>1
    <3>3. /\ d.m > c.m => T - d.m < T - c.m
          /\ d.m = c.m => T - d.m = T - c.m
      BY <1>1, <2>3, <2>7, <3>1
    <3>4. d.p > c.p => P - d.p < P - c.p
      BY <1>1, <2>3, <2>7, <3>1
    <3> QED
      BY <2>5, <3>2, <3>3, <3>4
  <2>9. (P - d.star) * ((T + 1) * (P + 1)) + (T - d.m) * (P + 1) + (P - d.p)
          < (P - c.star) * ((T + 1) * (P + 1)) + (T - c.m) * (P + 1) + (P - c.p)
    BY <1>1, <2>6, <2>8, Lexicographic
  <2>10. size[d] < size[c]
    BY <1>3, <2>1, <2>5, <2>9 DEF Weight
  <2> QED
    BY <2>5, <2>10 DEF d
<1> QED
  BY <1>5, <1>6 DEF X, size

Start == [t |-> 1, p |-> 1, star |-> 0, m |-> 1]

(* w is what the loop answers from each cursor.                            *)
IsRun(w, text, pattern) ==
  \A c \in Cursors(text, pattern) :
    w[c] = IF c \in Ended(text, pattern) THEN Outcome(text, pattern, c)
           ELSE w[Advanced(text, pattern, c)]

(* The recursion of glob_match is defined at every cursor: it is a walk.   *)
LEMMA GlobMatchRuns ==
  ASSUME NEW text \in Seq(Chars), NEW pattern \in Seq(Chars)
  PROVE  \E w : IsRun(w, text, pattern) /\ GlobMatch(text, pattern) = w[Start]
<1> DEFINE X == Cursors(text, pattern)
           Stop == Ended(text, pattern)
           Res == [c \in X |-> Outcome(text, pattern, c)]
           Onward == [c \in X |-> Advanced(text, pattern, c)]
           size == Ahead(text, pattern)
           Body(f, c) ==
             IF c.t = Len(text) + 1 THEN \A i \in c.p .. Len(pattern) + 1 - 1 : pattern[i] = "*"
             ELSE IF c.p < Len(pattern) + 1 /\ pattern[c.p] \in {"?", text[c.t]}
                  THEN f[[c EXCEPT !.t = @ + 1, !.p = @ + 1]]
             ELSE IF c.p < Len(pattern) + 1 /\ pattern[c.p] = "*"
                  THEN f[[c EXCEPT !.p = @ + 1, !.star = c.p, !.m = c.t]]
             ELSE IF c.star # 0
                  THEN f[[c EXCEPT !.t = c.m + 1, !.p = c.star + 1, !.m = @ + 1]]
             ELSE FALSE
           Walk(f) == f = [c \in X |-> Body(f, c)]
<1>1. PICK w : IsWalk(w, X, Stop, Res, Onward)
  <2>1. \A c \in X : size[c] \in Nat
    BY AheadShrinks
  <2>2. \A c \in X : c \notin Stop => Onward[c] \in X /\ size[Onward[c]] < size[c]
    BY AheadShrinks
  <2> HIDE DEF X, Stop, Res, Onward, size
  <2> QED
    BY <2>1, <2>2, WalkExists
<1>2. \A f : \A c \in X : Body(f, c) = IF c \in Stop THEN Res[c] ELSE f[Onward[c]]
  <2> SUFFICES ASSUME NEW f, NEW c \in X
               PROVE  Body(f, c) = IF c \in Stop THEN Res[c] ELSE f[Onward[c]]
    OBVIOUS
  <2>1. Res[c] = Outcome(text, pattern, c) /\ Onward[c] = Advanced(text, pattern, c)
    OBVIOUS
  <2>2. Body(f, c) =
          IF c.t = Len(text) + 1 THEN \A i \in c.p .. Len(pattern) + 1 - 1 : pattern[i] = "*"
          ELSE IF Fits(text, pattern, c) THEN f[Matched(c)]
          ELSE IF AtStar(pattern, c) THEN f[Starred(c)]
          ELSE IF c.star # 0 THEN f[Retried(c)] ELSE FALSE
    BY DEF Fits, AtStar, Matched, Starred, Retried
  <2> HIDE DEF Res, Onward, Body
  <2>3. CASE c.t = Len(text) + 1
    BY <2>1, <2>2, <2>3 DEF Ended, Outcome
  <2>4. CASE c.t # Len(text) + 1 /\ c \in Stop
    BY <2>1, <2>2, <2>4 DEF Ended, Outcome
  <2>5. CASE c.t # Len(text) + 1 /\ c \notin Stop
    BY <2>1, <2>2, <2>5 DEF Ended, Advanced
  <2> QED
    BY <2>3, <2>4, <2>5
<1>3. Walk(w)
  <2> HIDE DEF X, Stop, Res, Onward, Body
  <2> QED
    BY <1>1, <1>2 DEF IsWalk
<1> DEFINE a == CHOOSE f : Walk(f)
<1>4. Walk(a)
  <2> HIDE DEF Walk
  <2> QED
    BY <1>3
<1>5. GlobMatch(text, pattern) = a[Start]
  BY DEF GlobMatch, Start
<1> HIDE DEF a
<1>6. IsRun(a, text, pattern)
  <2> HIDE DEF Body
  <2>1. \A c \in X : a[c] = Body(a, c)
    BY <1>4
  <2> HIDE DEF X
  <2>2. \A c \in X : a[c] = IF c \in Stop THEN Res[c] ELSE a[Onward[c]]
    BY <1>2, <2>1
  <2> QED
    BY <2>2 DEF IsRun, X
<1> QED
  BY <1>5, <1>6

(* What the matcher has still to find out: whether the rest of the pattern *)
(* can be laid out from here, or from behind the last star further on.     *)
Meant(text, pattern, c) ==
  \/ Layout(text, pattern, c.t, c.p)
  \/ c.star # 0 /\ \E u \in c.m + 1 .. Len(text) + 1 : Layout(text, pattern, u, c.star + 1)

(* Behind the last star the loop has met no other star, and it has moved   *)
(* through text and pattern at the same pace.                              *)
Kept(pattern, c) ==
  c.star # 0 =>
    /\ pattern[c.star] = "*"
    /\ \A i \in c.star + 1 .. c.p - 1 : pattern[i] # "*"
    /\ c.t - c.m = c.p - (c.star + 1)

(* No star is a character of the text.                                     *)
Plain(text) == \A i \in DOMAIN text : text[i] # "*"

(* The places a cursor holds.                                              *)
LEMMA CursorFacts ==
  ASSUME NEW text \in Seq(Chars), NEW pattern \in Seq(Chars),
         NEW c \in Cursors(text, pattern)
  PROVE  /\ c.t \in 1 .. Len(text) + 1 /\ c.p \in 1 .. Len(pattern) + 1
         /\ c.star \in 0 .. Len(pattern) /\ c.m \in 1 .. Len(text) + 1
         /\ c.star < c.p /\ c.m <= c.t
         /\ Len(text) \in Nat /\ Len(pattern) \in Nat
BY DEF Cursors

(* From behind the last star, the characters up to the cursor are laid out *)
(* one by one.                                                             *)
LEMMA FromStar ==
  ASSUME NEW text \in Seq(Chars), NEW pattern \in Seq(Chars),
         NEW c \in Cursors(text, pattern), Kept(pattern, c), c.star # 0,
         NEW u \in c.m + 1 .. Len(text) + 1, Layout(text, pattern, u, c.star + 1)
  PROVE  \E v \in c.t + 1 .. Len(text) + 1 : Layout(text, pattern, v, c.p)
<1> DEFINE from == c.star + 1
           v == u + (c.p - from)
<1>1. /\ from \in 1 .. Len(pattern) + 1 /\ c.p \in from .. Len(pattern) + 1
      /\ u \in 1 .. Len(text) + 1
  BY CursorFacts
<1>2. \A i \in from .. c.p - 1 : pattern[i] # "*"
  BY DEF Kept
<1>3. Layout(text, pattern, u, from)
  OBVIOUS
<1>4. v > c.t
  <2>1. c.t - c.m = c.p - from
    BY DEF Kept
  <2>2. /\ c.t \in Int /\ c.m \in Int /\ c.p \in Int /\ c.star \in Int
        /\ Len(text) \in Int
    BY CursorFacts
  <2>3. u \in Int /\ u > c.m /\ from \in Int
    BY <2>2
  <2> HIDE DEF from
  <2>4. \A t, m, p, f, k \in Int : t - m = p - f /\ k > m => k + (p - f) > t
    OBVIOUS
  <2> QED
    BY <2>1, <2>2, <2>3, <2>4
<1> HIDE DEF from
<1>5. v \in 1 .. Len(text) + 1 /\ Layout(text, pattern, v, c.p)
  BY <1>1, <1>2, <1>3, LayoutForward
<1> HIDE DEF v
<1>6. v \in c.t + 1 .. Len(text) + 1
  BY <1>4, <1>5, CursorFacts
<1> QED
  BY <1>5, <1>6

(* Where the loop ends, it answers what the layouts say.                   *)
LEMMA EndedRight ==
  ASSUME NEW text \in Seq(Chars), NEW pattern \in Seq(Chars),
         NEW c \in Ended(text, pattern), Kept(pattern, c)
  PROVE  Outcome(text, pattern, c) <=> Meant(text, pattern, c)
<1>0. c \in Cursors(text, pattern)
  BY DEF Ended
<1>f. /\ c.t \in 1 .. Len(text) + 1 /\ c.p \in 1 .. Len(pattern) + 1
      /\ Len(text) \in Nat /\ Len(pattern) \in Nat /\ (Len(pattern) + 1) - 1 = Len(pattern)
  BY <1>0, CursorFacts
<1>1. CASE c.t = Len(text) + 1
  <2>1. Layout(text, pattern, c.t, c.p) <=> \A i \in c.p .. Len(pattern) : pattern[i] = "*"
    BY <1>f, <1>1, LayoutOfNothing
  <2>2. ~ (c.star # 0 /\ \E u \in c.m + 1 .. Len(text) + 1 : Layout(text, pattern, u, c.star + 1))
    <3> SUFFICES ASSUME c.star # 0, NEW u \in c.m + 1 .. Len(text) + 1,
                        Layout(text, pattern, u, c.star + 1)
                 PROVE  FALSE
      OBVIOUS
    <3>1. \E v \in c.t + 1 .. Len(text) + 1 : Layout(text, pattern, v, c.p)
      BY <1>0, FromStar
    <3> QED
      BY <1>f, <1>1, <3>1
  <2> QED
    BY <1>f, <1>1, <2>1, <2>2 DEF Outcome, Meant
<1>2. CASE c.t # Len(text) + 1
  <2>1. c.star = 0 /\ ~Fits(text, pattern, c) /\ ~AtStar(pattern, c)
    BY <1>2 DEF Ended
  <2>2. ~Layout(text, pattern, c.t, c.p)
    <3>1. CASE c.p = Len(pattern) + 1
      BY <1>f, <1>2, <3>1, LayoutAtEnd
    <3>2. CASE c.p # Len(pattern) + 1
      <4>1. c.p \in 1 .. Len(pattern) /\ c.p < Len(pattern) + 1
        BY <1>f, <3>2
      <4>2. pattern[c.p] # "*" /\ pattern[c.p] \notin {"?", text[c.t]}
        BY <2>1, <4>1 DEF Fits, AtStar
      <4> QED
        BY <1>f, <4>1, <4>2, LayoutStep
    <3> QED
      BY <3>1, <3>2
  <2> QED
    BY <1>2, <2>1, <2>2 DEF Outcome, Meant
<1> QED
  BY <1>1, <1>2

(* A turn of the loop keeps the invariant and the meaning of the cursor.   *)
LEMMA AdvancedRight ==
  ASSUME NEW text \in Seq(Chars), Plain(text), NEW pattern \in Seq(Chars),
         NEW c \in Cursors(text, pattern), c \notin Ended(text, pattern), Kept(pattern, c)
  PROVE  /\ Kept(pattern, Advanced(text, pattern, c))
         /\ Meant(text, pattern, Advanced(text, pattern, c)) <=> Meant(text, pattern, c)
<1> DEFINE T == Len(text) + 1
           P == Len(pattern) + 1
           d == Advanced(text, pattern, c)
           Lay(t, p) == Layout(text, pattern, t, p)
<1>1. /\ c.t \in Nat /\ c.t >= 1 /\ c.t < T /\ c.p \in Nat /\ c.p >= 1 /\ c.p <= P
      /\ c.star \in Nat /\ c.star < c.p /\ c.m \in Nat /\ c.m >= 1 /\ c.m <= c.t
      /\ T \in Nat /\ P \in Nat /\ c.t \in 1 .. Len(text) /\ c.t \in 1 .. T
      /\ c.p < P => c.p \in 1 .. Len(pattern)
  BY CursorFacts DEF Ended
<1>2. CASE Fits(text, pattern, c)
  <2>1. d = Matched(c)
    BY <1>2 DEF Advanced
  <2>2. d.t = c.t + 1 /\ d.p = c.p + 1 /\ d.star = c.star /\ d.m = c.m
    BY <2>1 DEF Matched, Cursors
  <2> HIDE DEF d
  <2>3. /\ c.p < P /\ pattern[c.p] \in {"?", text[c.t]}
    BY <1>2 DEF Fits
  <2>4. pattern[c.p] # "*"
    BY <1>1, <2>3 DEF Plain
  <2>5. Lay(c.t, c.p) <=> Lay(c.t + 1, c.p + 1)
    <3>1. c.t + 1 \in 1 .. T
      BY <1>1
    <3> QED
      BY <1>1, <2>3, <2>4, <3>1, LayoutStep
  <2>6. Kept(pattern, d)
    <3> SUFFICES ASSUME c.star # 0
                 PROVE  /\ pattern[c.star] = "*"
                        /\ \A i \in c.star + 1 .. (c.p + 1) - 1 : pattern[i] # "*"
                        /\ (c.t + 1) - c.m = (c.p + 1) - (c.star + 1)
      BY <2>2 DEF Kept
    <3>1. \A i \in c.star + 1 .. (c.p + 1) - 1 : i = c.p \/ i \in c.star + 1 .. c.p - 1
      BY <1>1
    <3>2. c.t - c.m = c.p - (c.star + 1) => (c.t + 1) - c.m = (c.p + 1) - (c.star + 1)
      <4>1. c.t \in Nat /\ c.m \in Nat
        BY <1>1
      <4>2. c.p \in Nat /\ c.star \in Nat
        BY <1>1
      <4>3. (c.t + 1) - c.m = (c.t - c.m) + 1
        BY <4>1
      <4>4. (c.p + 1) - (c.star + 1) = (c.p - (c.star + 1)) + 1
        BY <4>2
      <4> QED
        BY <4>3, <4>4
    <3> QED
      BY <2>4, <3>1, <3>2 DEF Kept
  <2> QED
    BY <2>2, <2>5, <2>6 DEF Meant, d
<1>3. CASE ~Fits(text, pattern, c) /\ AtStar(pattern, c)
  <2>1. d = Starred(c)
    BY <1>3 DEF Advanced
  <2>2. d.t = c.t /\ d.p = c.p + 1 /\ d.star = c.p /\ d.m = c.t
    BY <2>1 DEF Starred, Cursors
  <2> HIDE DEF d
  <2>3. c.p < P /\ pattern[c.p] = "*"
    BY <1>3 DEF AtStar
  <2>4. Kept(pattern, d)
    <3>1. c.p + 1 .. (c.p + 1) - 1 = {} /\ c.t - c.t = (c.p + 1) - (c.p + 1)
      BY <1>1
    <3> QED
      BY <2>2, <2>3, <3>1 DEF Kept
  <2>5. \A t \in 1 .. T : Lay(t, c.p) <=> \E u \in 1 .. T : Lay(u, c.p + 1) /\ u >= t
    BY <1>1, <2>3, LayoutStep
  <2>6. Meant(text, pattern, d) <=> Lay(c.t, c.p)
    <3>1. Meant(text, pattern, d) <=>
            Lay(c.t, c.p + 1) \/ \E u \in c.t + 1 .. T : Lay(u, c.p + 1)
      <4>1. d.star # 0
        BY <1>1, <2>2
      <4> QED
        BY <2>2, <4>1 DEF Meant
    <3>2. \A u \in 1 .. T : u >= c.t <=> u = c.t \/ u \in c.t + 1 .. T
      BY <1>1
    <3>3. \A u \in c.t + 1 .. T : u \in 1 .. T /\ u >= c.t
      BY <1>1
    <3>4. c.t >= c.t
      BY <1>1
    <3> HIDE DEF Lay, T, P
    <3> QED
      BY <1>1, <2>5, <3>1, <3>2, <3>3, <3>4
  <2>7. Meant(text, pattern, c) <=> Lay(c.t, c.p)
    <3> SUFFICES ASSUME c.star # 0, NEW u \in c.m + 1 .. T, Lay(u, c.star + 1)
                 PROVE  Lay(c.t, c.p)
      BY DEF Meant
    <3>1. PICK v \in c.t + 1 .. T : Lay(v, c.p)
      BY FromStar
    <3>2. v \in 1 .. T /\ v > c.t /\ v \in Nat
      BY <1>1
    <3>3. PICK x \in 1 .. T : Lay(x, c.p + 1) /\ x >= v
      <4> HIDE DEF Lay, T, P
      <4> QED
        BY <2>5, <3>1, <3>2
    <3>4. x >= c.t
      BY <1>1, <3>2, <3>3
    <3> HIDE DEF Lay, T, P
    <3> QED
      BY <1>1, <2>5, <3>3, <3>4
  <2> QED
    BY <2>4, <2>6, <2>7 DEF d
<1>4. CASE ~Fits(text, pattern, c) /\ ~AtStar(pattern, c)
  <2>1. d = Retried(c) /\ c.star # 0
    BY <1>1, <1>4 DEF Advanced, Ended
  <2>2. d.t = c.m + 1 /\ d.p = c.star + 1 /\ d.star = c.star /\ d.m = c.m + 1
    BY <2>1 DEF Retried, Cursors
  <2> HIDE DEF d
  <2>3. Kept(pattern, d)
    <3>1. c.star + 1 .. (c.star + 1) - 1 = {}
          /\ (c.m + 1) - (c.m + 1) = (c.star + 1) - (c.star + 1)
      BY <1>1
    <3> QED
      BY <2>1, <2>2, <3>1 DEF Kept
  <2>4. ~Lay(c.t, c.p)
    <3>1. CASE c.p = P
      BY <1>1, <3>1, LayoutAtEnd
    <3>2. CASE c.p # P
      <4>1. c.p \in 1 .. Len(pattern) /\ c.p < P
        BY <1>1, <3>2
      <4>2. pattern[c.p] # "*" /\ pattern[c.p] \notin {"?", text[c.t]}
        BY <1>4, <4>1 DEF Fits, AtStar
      <4> QED
        BY <1>1, <4>1, <4>2, LayoutStep
    <3> QED
      BY <3>1, <3>2
  <2>5. Meant(text, pattern, c) <=> \E u \in c.m + 1 .. T : Lay(u, c.star + 1)
    BY <2>1, <2>4 DEF Meant
  <2>6. Meant(text, pattern, d) <=>
          Lay(c.m + 1, c.star + 1) \/ \E u \in c.m + 1 + 1 .. T : Lay(u, c.star + 1)
    BY <2>1, <2>2 DEF Meant
  <2>7. /\ c.m + 1 \in c.m + 1 .. T
        /\ \A u \in c.m + 1 + 1 .. T : u \in c.m + 1 .. T
        /\ \A u \in c.m + 1 .. T : u = c.m + 1 \/ u \in c.m + 1 + 1 .. T
    BY <1>1
  <2> HIDE DEF Lay, T, P
  <2>8. Meant(text, pattern, d) <=> Meant(text, pattern, c)
    BY <2>5, <2>6, <2>7
  <2> QED
    BY <2>3, <2>8 DEF d
<1> QED
  BY <1>2, <1>3, <1>4

(* The greedy matcher finds a layout whenever there is one.                *)
LEMMA GlobRight ==
  ASSUME NEW text \in Seq(Chars), Plain(text), NEW pattern \in Seq(Chars)
  PROVE  GlobMatch(text, pattern) <=> Glob(text, pattern)
<1>1. PICK w : IsRun(w, text, pattern) /\ GlobMatch(text, pattern) = w[Start]
  BY GlobMatchRuns
<1> DEFINE X == Cursors(text, pattern)
           G == {c \in X : Kept(pattern, c) => (w[c] <=> Meant(text, pattern, c))}
           size == Ahead(text, pattern)
<1>2. ASSUME NEW c \in X, \A d \in X : size[d] < size[c] => d \in G
      PROVE  c \in G
  <2> SUFFICES ASSUME Kept(pattern, c) PROVE w[c] <=> Meant(text, pattern, c)
    OBVIOUS
  <2>1. CASE c \in Ended(text, pattern)
    <3>1. w[c] = Outcome(text, pattern, c)
      BY <1>1, <2>1 DEF IsRun
    <3> QED
      BY <2>1, <3>1, EndedRight
  <2>2. CASE c \notin Ended(text, pattern)
    <3> DEFINE d == Advanced(text, pattern, c)
    <3>1. w[c] = w[d]
      BY <1>1, <2>2 DEF IsRun
    <3>2. d \in X /\ size[d] < size[c]
      BY <2>2, AheadShrinks
    <3>3. d \in G
      <4> HIDE DEF d, G
      <4> QED
        BY <1>2, <3>2
    <3>4. Kept(pattern, d) /\ (Meant(text, pattern, d) <=> Meant(text, pattern, c))
      BY <2>2, AdvancedRight
    <3> HIDE DEF d
    <3> QED
      BY <3>1, <3>3, <3>4
  <2> QED
    BY <2>1, <2>2
<1>3. \A c \in X : c \in G
  <2>1. Inherits(X, size, G)
    BY <1>2 DEF Inherits
  <2>2. Sized(X, size)
    BY AheadShrinks DEF Sized
  <2> HIDE DEF X, G, size
  <2> QED
    BY <2>1, <2>2, SizeInductive
<1>4. Start \in X /\ Kept(pattern, Start)
  BY DEF Start, Cursors, Kept
<1>5. w[Start] <=> Meant(text, pattern, Start)
  BY <1>3, <1>4
<1>6. Meant(text, pattern, Start) <=> Layout(text, pattern, 1, 1)
  BY DEF Meant, Start
<1> QED
  BY <1>1, <1>5, <1>6, LayoutOfAll

-----------------------------------------------------------------------------
(* Suffix patterns.                                                        *)

(* The rest of a pattern without wildcards is laid out in one way.         *)
LEMMA LayoutLiteral ==
  ASSUME NEW text \in Seq(Chars), NEW pattern \in Seq(Chars),
         NEW t \in 1 .. Len(text) + 1, NEW from \in 1 .. Len(pattern) + 1,
         \A i \in from .. Len(pattern) : pattern[i] \notin {"*", "?"}
  PROVE  Layout(text, pattern, t, from) <=>
           /\ t + (Len(pattern) + 1 - from) = Len(text) + 1
           /\ \A i \in from .. Len(pattern) : pattern[i] = text[t + (i - from)]
<1> DEFINE P == Len(pattern)
           T == Len(text)
<1>1. /\ P \in Nat /\ T \in Nat /\ t \in Nat /\ t >= 1 /\ t <= T + 1
      /\ from \in Nat /\ from >= 1 /\ from <= P + 1
  OBVIOUS
<1>2. ASSUME Layout(text, pattern, t, from), NEW i \in from .. P
      PROVE  pattern[i] = text[t + (i - from)]
  <2>1. i \in from .. P + 1 /\ i \in 1 .. P
    BY <1>1
  <2>2. \A j \in from .. i - 1 : pattern[j] # "*"
    BY <1>1
  <2> DEFINE x == t + (i - from)
  <2>3. x \in 1 .. T + 1 /\ Layout(text, pattern, x, i)
    BY <1>2, <2>1, <2>2, LayoutForward
  <2> HIDE DEF x
  <2>4. pattern[i] # "*" /\ pattern[i] # "?"
    OBVIOUS
  <2>5. pattern[i] \in {"?", text[x]}
    BY <2>1, <2>3, <2>4, LayoutStep
  <2> QED
    BY <2>4, <2>5 DEF x
<1>3. ASSUME Layout(text, pattern, t, from)
      PROVE  t + (P + 1 - from) = T + 1
  <2> DEFINE to == Len(pattern) + 1
             x == t + (to - from)
  <2>1. to \in from .. Len(pattern) + 1 /\ \A j \in from .. to - 1 : pattern[j] # "*"
    BY <1>1
  <2> HIDE DEF to
  <2>2. x \in 1 .. Len(text) + 1 /\ Layout(text, pattern, x, to)
    BY <1>3, <2>1, LayoutForward
  <2> HIDE DEF x
  <2>3. x = Len(text) + 1
    BY <2>2, LayoutAtEnd DEF to
  <2> QED
    BY <2>3 DEF x, to
<1>4. ASSUME t + (P + 1 - from) = T + 1, \A i \in from .. P : pattern[i] = text[t + (i - from)]
      PROVE  Layout(text, pattern, t, from)
  <2> DEFINE end == [i \in from - 1 .. P |-> t + (i - from)]
  <2>1. \A i \in from - 1 .. P : t + (i - from) \in 0 .. T
    BY <1>1, <1>4
  <2>2. from - 1 \in from - 1 .. P /\ P \in from - 1 .. P
    BY <1>1
  <2>3. t + ((from - 1) - from) = t - 1 /\ t + (P - from) = T
    BY <1>1, <1>4
  <2>4. end \in [from - 1 .. P -> 0 .. T] /\ end[from - 1] = t - 1 /\ end[P] = T
    BY <2>1, <2>2, <2>3
  <2>5. \A i \in from .. P : /\ i \in from - 1 .. P /\ i - 1 \in from - 1 .. P
                             /\ t + (i - from) = (t + ((i - 1) - from)) + 1
    BY <1>1
  <2>6. \A i \in from .. P : end[i] = t + (i - from) /\ end[i] = end[i - 1] + 1
    BY <2>5
  <2> HIDE DEF end
  <2>7. \A i \in from .. P : Laid(text, pattern, end, i)
    BY <1>4, <2>6 DEF Laid
  <2> QED
    BY <2>4, <2>7 DEF Layout
<1> QED
  BY <1>2, <1>3, <1>4

(* An end that follows at least one character is what ?* and the end mean. *)
LEMMA EndsWithRight ==
  ASSUME NEW h \in Seq(Chars), NEW w \in Seq(Chars), NEW g \in Seq(Chars),
         h # << >>, w # << >>,
         Len(g) = Len(w) + 2, g[1] = "?", g[2] = "*",
         \A i \in 3 .. Len(w) + 2 : g[i] = w[i - 2] /\ g[i] \notin {"*", "?"}
  PROVE  EndsWith(h, w) <=> Glob(h, g)
<1> DEFINE L == Len(w)
           T == Len(h)
           u == T - L + 1
           Lay(t, p) == Layout(h, g, t, p)
<1>1. L \in Nat /\ L >= 1 /\ T \in Nat /\ T >= 1 /\ Len(g) = L + 2
  <2>1. Len(h) # 0 /\ Len(w) # 0
    BY EmptySeq
  <2> QED
    BY <2>1
<1>2. Glob(h, g) <=> Lay(1, 1)
  BY LayoutOfAll
<1>3. Lay(1, 1) <=> Lay(2, 2)
  <2>1. 1 \in 1 .. T + 1 /\ 1 \in 1 .. Len(g) /\ 1 + 1 = 2 /\ 2 \in 1 .. T + 1 /\ "?" # "*"
    BY <1>1
  <2>2. \A t \in 1 .. T + 1, i \in 1 .. Len(g) : g[i] = "?" =>
          (Layout(h, g, t, i) <=>
             \E v \in 1 .. T + 1 : Layout(h, g, v, i + 1) /\ v = t + 1)
    BY LayoutStep
  <2>3. Layout(h, g, 1, 1) <=> \E v \in 1 .. T + 1 : Layout(h, g, v, 2) /\ v = 2
    BY <2>1, <2>2
  <2> QED
    BY <2>1, <2>3
<1>4. Lay(2, 2) <=> \E v \in 1 .. T + 1 : Lay(v, 3) /\ v >= 2
  <2>1. 2 \in 1 .. T + 1 /\ 2 \in 1 .. Len(g) /\ 2 + 1 = 3
    BY <1>1
  <2>2. \A t \in 1 .. T + 1, i \in 1 .. Len(g) : g[i] = "*" =>
          (Layout(h, g, t, i) <=>
             \E v \in 1 .. T + 1 : Layout(h, g, v, i + 1) /\ v >= t)
    BY LayoutStep
  <2>3. Layout(h, g, 2, 2) <=> \E v \in 1 .. T + 1 : Layout(h, g, v, 3) /\ v >= 2
    BY <2>1, <2>2
  <2> QED
    BY <2>3
<1>5. \A v \in 1 .. T + 1 : Lay(v, 3) <=>
        v = u /\ \A i \in 3 .. L + 2 : g[i] = h[v + (i - 3)]
  <2> SUFFICES ASSUME NEW v \in 1 .. T + 1
               PROVE  Lay(v, 3) <=> v = u /\ \A i \in 3 .. L + 2 : g[i] = h[v + (i - 3)]
    OBVIOUS
  <2>1. 3 \in 1 .. Len(g) + 1
    BY <1>1
  <2>2. Lay(v, 3) <=> /\ v + (Len(g) + 1 - 3) = T + 1
                      /\ \A i \in 3 .. Len(g) : g[i] = h[v + (i - 3)]
    <3> SUFFICES Layout(h, g, v, 3) <=>
                   /\ v + (Len(g) + 1 - 3) = T + 1
                   /\ \A i \in 3 .. Len(g) : g[i] = h[v + (i - 3)]
      OBVIOUS
    <3>1. \A i \in 3 .. Len(g) : g[i] \notin {"*", "?"}
      BY <1>1
    <3>2. \A t \in 1 .. Len(h) + 1 : \A from \in 1 .. Len(g) + 1 :
            (\A i \in from .. Len(g) : g[i] \notin {"*", "?"}) =>
            (Layout(h, g, t, from) <=>
               /\ t + (Len(g) + 1 - from) = Len(h) + 1
               /\ \A i \in from .. Len(g) : g[i] = h[t + (i - from)])
      BY LayoutLiteral, Zenon
    <3>3. v \in 1 .. Len(h) + 1
      OBVIOUS
    <3> QED
      BY <2>1, <3>1, <3>2, <3>3, Zenon
  <2>3. v + (Len(g) + 1 - 3) = T + 1 <=> v = u
    BY <1>1
  <2> QED
    BY <2>2, <2>3
<1>6. EndsWith(h, w) <=> T > L /\ \A i \in 1 .. L : h[(T - L) + i] = w[i]
  <2>1. CASE T > L
    <3> DEFINE e == SubSeq(h, T - L + 1, T)
    <3>1. /\ e \in Seq(Chars) /\ Len(e) = L
          /\ \A i \in 1 .. L : e[i] = h[(T - L) + i]
      <4>1. T - L + 1 \in 1 .. T /\ T \in Int /\ T - (T - L + 1) + 1 = L
        BY <1>1, <2>1
      <4>2. e \in Seq(Chars)
        BY <4>1, SubSeqProperties
      <4>3. Len(e) = L
        BY <4>1, <1>1, SubSeqProperties
      <4>4. \A i \in 1 .. L : e[i] = h[(T - L + 1) + i - 1]
        BY <4>1, <1>1, SubSeqProperties
      <4>5. \A i \in 1 .. L : (T - L + 1) + i - 1 = (T - L) + i
        BY <1>1
      <4> QED
        BY <4>2, <4>3, <4>4, <4>5
    <3> HIDE DEF e
    <3>2. e = w <=> \A i \in 1 .. L : e[i] = w[i]
      BY <3>1, SeqEqual
    <3> QED
      BY <2>1, <3>1, <3>2 DEF EndsWith, e
  <2>2. CASE ~(T > L)
    BY <2>2 DEF EndsWith
  <2> QED
    BY <2>1, <2>2
<1>7. T > L => /\ u \in 1 .. T + 1 /\ u >= 2
  BY <1>1
<1>8. u >= 2 => T > L
  BY <1>1
<1>9. (\A i \in 3 .. L + 2 : g[i] = h[u + (i - 3)]) <=> \A i \in 1 .. L : h[(T - L) + i] = w[i]
  <2>1. ASSUME NEW i \in 1 .. L
        PROVE  i + 2 \in 3 .. L + 2 /\ (i + 2) - 2 = i /\ u + ((i + 2) - 3) = (T - L) + i
    BY <1>1
  <2>2. ASSUME NEW i \in 3 .. L + 2
        PROVE  i - 2 \in 1 .. L /\ u + (i - 3) = (T - L) + (i - 2)
    BY <1>1
  <2> HIDE DEF u, T, L
  <2>3. \A i \in 3 .. L + 2 : g[i] = w[i - 2]
    BY DEF L
  <2>4. ASSUME \A i \in 3 .. L + 2 : g[i] = h[u + (i - 3)], NEW i \in 1 .. L
        PROVE  h[(T - L) + i] = w[i]
    <3> DEFINE j == i + 2
    <3>1. j \in 3 .. L + 2 /\ j - 2 = i /\ u + (j - 3) = (T - L) + i
      BY <2>1
    <3> HIDE DEF j
    <3> QED
      BY <2>3, <2>4, <3>1
  <2>5. ASSUME \A i \in 1 .. L : h[(T - L) + i] = w[i], NEW i \in 3 .. L + 2
        PROVE  g[i] = h[u + (i - 3)]
    BY <2>2, <2>3, <2>5
  <2> QED
    BY <2>4, <2>5
<1> HIDE DEF u, T, L, Lay
<1> QED
  BY <1>2, <1>3, <1>4, <1>5, <1>6, <1>7, <1>8, <1>9

(* Lower case changes no wildcard, no dot and no length.                   *)
LEMMA LowerFacts ==
  ASSUME NEW s \in Seq(Chars)
  PROVE  /\ Lower(s) \in Seq(Chars) /\ Len(Lower(s)) = Len(s)
         /\ \A i \in 1 .. Len(s), x \in {"*", "?", "."} : Lower(s)[i] = x <=> s[i] = x
<1>1. DOMAIN s = 1 .. Len(s) /\ Len(s) \in Nat
  OBVIOUS
<1> DEFINE l == [i \in 1 .. Len(s) |-> IF s[i] = "A" THEN "a" ELSE s[i]]
<1>2. Lower(s) = l
  BY <1>1 DEF Lower
<1>3. l \in Seq(Chars)
  BY CharsFacts
<1>4. Len(l) = Len(s)
  BY <1>1
<1>5. ASSUME NEW i \in 1 .. Len(s), NEW x \in {"*", "?", "."}
      PROVE  l[i] = x <=> s[i] = x
  <2>1. CASE s[i] = "A"
    BY <2>1
  <2>2. CASE s[i] # "A"
    BY <2>2
  <2> QED
    BY <2>1, <2>2
<1> HIDE DEF l
<1> QED
  BY <1>2, <1>3, <1>4, <1>5

(* The two paths of DomainMatcher::matches mean what the pattern means.    *)
LEMMA DomainRight ==
  ASSUME NEW d \in Seq(Chars), ~DomainIsAny(d),
         ~(IsSuffixWildcard(d) /\ HasWildcard(SubSeq(d, 3, Len(d)))),
         NEW host \in Seq(Chars), host # << >>, Plain(host)
  PROVE  DomainMatches(d, host) <=> DomainMeant(d, host)
<1> DEFINE p == Lower(d)
           h == Lower(host)
           s == SubSeq(p, 3, Len(p))
           w == <<".">> \o s
           g == <<"?">> \o p
<1>1. /\ p \in Seq(Chars) /\ Len(p) = Len(d) /\ h \in Seq(Chars) /\ h # << >>
      /\ Plain(h) /\ Len(d) \in Nat
  <2>1. /\ h \in Seq(Chars) /\ Len(h) = Len(host)
        /\ \A i \in 1 .. Len(host) : h[i] = "*" <=> host[i] = "*"
    BY LowerFacts
  <2>a. Plain(h)
    <3>1. DOMAIN h = 1 .. Len(h) /\ DOMAIN host = 1 .. Len(host)
      BY <2>1
    <3> HIDE DEF h
    <3> QED
      BY <2>1, <3>1 DEF Plain
  <2>2. Len(host) # 0
    BY EmptySeq
  <2>3. h # << >>
    BY <2>1, <2>2
  <2> QED
    BY <2>1, <2>a, <2>3, LowerFacts
<1>2. CASE ~IsSuffixWildcard(p)
  BY <1>1, <1>2, GlobRight DEF DomainMatches, DomainMeant
<1>3. CASE IsSuffixWildcard(p)
  <2>1. Len(d) >= 2 /\ p[1] = "*" /\ p[2] = "." /\ IsSuffixWildcard(d)
    <3>1. Len(p) >= 2 /\ p[1] = "*" /\ p[2] = "."
      BY <1>3 DEF IsSuffixWildcard
    <3>2. Len(d) >= 2 /\ 1 \in 1 .. Len(d) /\ 2 \in 1 .. Len(d)
      BY <1>1, <3>1
    <3>3. d[1] = "*" /\ d[2] = "."
      BY <3>1, <3>2, LowerFacts
    <3> QED
      BY <3>1, <3>2, <3>3 DEF IsSuffixWildcard
  <2> DEFINE n == Len(d)
  <2>2. /\ s \in Seq(Chars) /\ Len(s) = n - 2
        /\ \A i \in 1 .. n - 2 : s[i] = p[i + 2]
    <3>1. 3 \in 1 .. n + 1 /\ n - 3 + 1 = n - 2 /\ 3 <= n + 1
      BY <1>1, <2>1
    <3>2. s \in Seq(Chars)
      BY <1>1, <3>1, SubSeqProperties
    <3>3. Len(s) = n - 2
      BY <1>1, <2>1, <3>1, SubSeqProperties
    <3>4. \A i \in 1 .. n - 2 : s[i] = p[3 + i - 1]
      BY <1>1, <2>1, <3>1, SubSeqProperties
    <3>5. \A i \in 1 .. n - 2 : 3 + i - 1 = i + 2
      BY <1>1
    <3> QED
      BY <3>2, <3>3, <3>4, <3>5
  <2>3. \A i \in 3 .. n : p[i] \notin {"*", "?"}
    <3>1. ~HasWildcard(SubSeq(d, 3, n))
      BY <2>1
    <3> DEFINE e == SubSeq(d, 3, n)
    <3>2. e \in Seq(Chars) /\ Len(e) = n - 2
      <4>1. 3 <= n + 1 /\ n - 3 + 1 = n - 2
        BY <1>1, <2>1
      <4> QED
        BY <1>1, <2>1, <4>1, SubSeqProperties
    <3>3. \A i \in 1 .. n - 2 : e[i] = d[3 + i - 1]
      BY <1>1, <2>1, SubSeqProperties
    <3>4. \A i \in 1 .. n - 2 : e[i] \notin {"*", "?"}
      <4> HIDE DEF e
      <4> QED
        BY <1>1, <3>1, <3>2 DEF HasWildcard, e
    <3> SUFFICES ASSUME NEW i \in 3 .. n PROVE d[i] # "*" /\ d[i] # "?"
      <4>1. \A i \in 3 .. n : i \in 1 .. n
        BY <1>1
      <4>2. \A i \in 1 .. n : (p[i] = "*" <=> d[i] = "*") /\ (p[i] = "?" <=> d[i] = "?")
        <5>1. d \in Seq(Chars)
          OBVIOUS
        <5>2. \A i \in 1 .. Len(d), x \in {"*", "?", "."} : Lower(d)[i] = x <=> d[i] = x
          BY <5>1, LowerFacts
        <5> QED
          BY <5>2
      <4> HIDE DEF p
      <4> QED
        BY <4>1, <4>2
    <3> DEFINE j == i - 2
    <3>5. j \in 1 .. n - 2 /\ 3 + j - 1 = i
      BY <1>1
    <3> HIDE DEF e, j
    <3> QED
      BY <3>3, <3>4, <3>5
  <2> HIDE DEF p, h, s
  <2>4. /\ w \in Seq(Chars) /\ Len(w) = n - 1 /\ w # << >>
        /\ \A i \in 1 .. n - 1 : w[i] = p[i + 1]
    <3>1. <<".">> \in Seq(Chars) /\ Len(<<".">>) = 1 /\ <<".">>[1] = "."
      BY CharsFacts
    <3>2. w \in Seq(Chars) /\ Len(w) = n - 1
      BY <1>1, <2>1, <2>2, <3>1, ConcatProperties
    <3>3. \A i \in 1 .. n - 1 : w[i] = IF i <= 1 THEN "." ELSE s[i - 1]
      BY <1>1, <2>1, <2>2, <3>1, ConcatProperties
    <3>4. \A i \in 1 .. n - 1 : (i <= 1 => i + 1 = 2) /\
            (~(i <= 1) => i - 1 \in 1 .. n - 2 /\ (i - 1) + 2 = i + 1)
      BY <1>1
    <3>5. w # << >>
      <4>1. Len(w) # 0
        BY <1>1, <2>1, <3>2
      <4> HIDE DEF w
      <4> QED
        BY <4>1
    <3> HIDE DEF w
    <3> QED
      BY <2>1, <2>2, <3>2, <3>3, <3>4, <3>5
  <2>5. /\ g \in Seq(Chars) /\ Len(g) = Len(w) + 2 /\ g[1] = "?" /\ g[2] = "*"
        /\ \A i \in 3 .. Len(w) + 2 : g[i] = w[i - 2] /\ g[i] \notin {"*", "?"}
    <3>1. <<"?">> \in Seq(Chars) /\ Len(<<"?">>) = 1 /\ <<"?">>[1] = "?"
      BY CharsFacts
    <3>2. g \in Seq(Chars) /\ Len(g) = n + 1
      BY <1>1, <3>1, ConcatProperties
    <3>3. \A i \in 1 .. n + 1 : g[i] = IF i <= 1 THEN "?" ELSE p[i - 1]
      BY <1>1, <3>1, ConcatProperties
    <3>4. Len(w) + 2 = n + 1
      BY <1>1, <2>4
    <3>5. /\ 1 \in 1 .. n + 1 /\ 1 <= 1 /\ 2 \in 1 .. n + 1 /\ ~(2 <= 1) /\ 2 - 1 = 1
          /\ \A i \in 3 .. n + 1 : /\ i \in 1 .. n + 1 /\ ~(i <= 1)
                                   /\ i - 2 \in 1 .. n - 1 /\ (i - 2) + 1 = i - 1
      BY <1>1, <2>1
    <3> HIDE DEF w, g, n
    <3>6. \A i \in 3 .. n + 1 : g[i] = p[i - 1] /\ w[i - 2] = p[i - 1]
      <4>1. \A i \in 3 .. n + 1 : /\ i \in 1 .. n + 1 /\ ~(i <= 1)
                                  /\ i - 2 \in 1 .. n - 1 /\ (i - 2) + 1 = i - 1
        BY <3>5, <1>1 DEF n
      <4> QED
        BY <2>4, <3>3, <4>1
    <3>7. \A i \in 3 .. n + 1 : p[i - 1] \notin {"*", "?"}
      <4>1. \A i \in 3 .. n + 1 : i = 3 \/ i - 1 \in 3 .. n
        BY <1>1 DEF n
      <4>2. p[3 - 1] = "."
        BY <2>1
      <4> QED
        BY <2>3, <4>1, <4>2
    <3> QED
      BY <2>1, <3>2, <3>3, <3>4, <3>5, <3>6, <3>7
  <2>6. EndsWith(h, w) <=> Glob(h, g)
    <3> HIDE DEF w, g
    <3> QED
      BY <1>1, <2>4, <2>5, EndsWithRight
  <2>7. DomainMatches(d, host) <=> h = s \/ EndsWith(h, w)
    BY <1>3 DEF DomainMatches, p, h, s
  <2>8. DomainMeant(d, host) <=> Glob(h, g) \/ h = s
    BY <1>3 DEF DomainMeant, p, h, s
  <2> QED
    BY <2>6, <2>7, <2>8
<1> QED
  BY <1>2, <1>3

-----------------------------------------------------------------------------
(* The parser accepts a document only if every rule in it is valid.        *)
LEMMA AcceptedRulesValid ==
  ASSUME NEW json, ParseString(json).success,
         NEW i \in DOMAIN ParseString(json).rules
  PROVE  ValidRule(ParseString(json).rules[i])
<1>1. Refused.success = FALSE
  BY DEF Refused
<1>2. CASE /\ json.t = "object" /\ Has(json.v, "rules", "array")
  <2> DEFINE elements == json.v["rules"].v
             rules == [j \in DOMAIN elements |-> ArrayRule(elements[j].v, j)]
  <2>1. ParseString(json) = ParseArray(json.v, elements)
    BY <1>2 DEF ParseString
  <2>2. /\ \A j \in DOMAIN elements : ValidRule(rules[j])
        /\ ParseString(json) = Accepted(json.v, rules)
    BY <1>1, <2>1 DEF ParseArray
  <2>3. ParseString(json).rules = rules
    BY <2>2 DEF Accepted
  <2> HIDE DEF elements
  <2>4. DOMAIN rules = DOMAIN elements
    OBVIOUS
  <2> QED
    BY <2>2, <2>3, <2>4
<1>3. CASE /\ json.t = "object" /\ ~Has(json.v, "rules", "array")
           /\ Has(json.v, "rules", "object")
  <2> DEFINE rules == CategoryRules(json.v["rules"].v)
  <2>1. ParseString(json) = ParseCategories(json.v, json.v["rules"].v)
    BY <1>3 DEF ParseString
  <2>2. /\ \A j \in DOMAIN rules : ValidRule(rules[j])
        /\ ParseString(json) = Accepted(json.v, rules)
    BY <1>1, <2>1 DEF ParseCategories
  <2>3. ParseString(json).rules = rules
    BY <2>2 DEF Accepted
  <2> QED
    BY <2>2, <2>3
<1>4. CASE \/ json.t # "object"
           \/ ~Has(json.v, "rules", "array") /\ ~Has(json.v, "rules", "object")
  BY <1>1, <1>4 DEF ParseString
<1> QED
  BY <1>2, <1>3, <1>4

(* What a mutator is about to install matches what its text means          *)
(* (ip_matcher.cpp:6-108, port_matcher.cpp:17-96, domain_matcher.cpp:16-91,*)
(* rule_parser.cpp:422-502).                                               *)
THEOREM LoadedRulesRight == Spec => []LoadedRulesMeanTheirText
<1>1. ASSUME EngineInv PROVE LoadedRulesMeanTheirText
  <2> SUFFICES ASSUME NEW c \in Callers, at[c] = "parsed",
                      NEW i \in DOMAIN res[c].rules
               PROVE  LET r == res[c].rules[i] IN
      /\ \A t \in {r.srcIp, r.dstIp} :
           IpIsAny(t) \/ \A ip \in Addresses : IpMatches(t, ip) <=> InSubnet(t, ip)
      /\ \E p \in 0..MaxPort : PortMatches(r.srcPort, p)
      /\ \E p \in 0..MaxPort : PortMatches(r.dstPort, p)
      /\ \/ DomainIsAny(r.domain)
         \/ /\ IsSuffixWildcard(r.domain)
            /\ HasWildcard(SubSeq(r.domain, 3, Len(r.domain)))
         \/ \A h \in PlainHosts :
              DomainMatches(r.domain, h) <=> DomainMeant(r.domain, h)
    BY DEF LoadedRulesMeanTheirText
  <2> DEFINE r == res[c].rules[i]
  <2>1. PICK d \in Documents : Parse(d).success /\ res[c] = Parse(d)
    BY <1>1 DEF EngineInv, Sections
  <2>2. Parse(d) = ParseString(Content(d))
    BY LoadingAssumption
  <2>3. ValidRule(r)
    BY <2>1, <2>2, AcceptedRulesValid
  <2>4. r \in Rules
    <3>1. res[c].rules \in Seq(Rules)
      BY <1>1 DEF EngineInv, TypeOK, Result
    <3> QED
      BY <3>1
  <2>5. /\ r.srcIp \in IpText /\ r.dstIp \in IpText
        /\ r.srcPort \in PortText /\ r.dstPort \in PortText
        /\ r.domain \in Seq(Chars)
    BY <2>4, LoadingAssumption, CharsFacts
  <2>6. /\ IpIsValid(r.srcIp) /\ IpIsValid(r.dstIp)
        /\ PortIsValid(r.srcPort) /\ PortIsValid(r.dstPort)
    BY <2>3 DEF ValidRule
  <2> HIDE DEF r
  <2>7. ASSUME NEW t \in {r.srcIp, r.dstIp}, ~IpIsAny(t), NEW ip \in Addresses
        PROVE  IpMatches(t, ip) <=> InSubnet(t, ip)
    <3>1. ip.v \in {4, 6} /\ ip.a \in Nat /\ ip.a < Pow2[Width[ip.v]]
      BY DocumentsAssumption DEF Addresses
    <3>2. t \in IpText /\ IpIsValid(t)
      BY <2>5, <2>6
    <3> QED
      BY <2>7, <3>1, <3>2, IpRight
  <2>8. /\ \E p \in 0..MaxPort : PortMatches(r.srcPort, p)
        /\ \E p \in 0..MaxPort : PortMatches(r.dstPort, p)
    BY <2>5, <2>6, PortReachable
  <2>9. ASSUME ~DomainIsAny(r.domain), NEW h \in PlainHosts,
               ~(/\ IsSuffixWildcard(r.domain)
                 /\ HasWildcard(SubSeq(r.domain, 3, Len(r.domain))))
        PROVE  DomainMatches(r.domain, h) <=> DomainMeant(r.domain, h)
    <3>1. h \in Seq(Chars) /\ h # << >> /\ Plain(h)
      BY DocumentsAssumption, CharsFacts DEF PlainHosts, Plain
    <3> QED
      BY <2>5, <2>9, <3>1, DomainRight
  <2> QED
    BY <2>7, <2>8, <2>9 DEF r
<1> QED
  BY <1>1, EngineInvHolds, PTL
=============================================================================
