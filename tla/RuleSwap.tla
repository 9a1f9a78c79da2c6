------------------------------ MODULE RuleSwap ------------------------------
(***************************************************************************)
(* The publication of a rule set (RuleEngine::rebuild_active_ruleset,      *)
(* src/rules/rule_engine.cpp:173) against the workers that evaluate it.    *)
(* active_rules_ is a std::shared_ptr: a pointer to a rule set and one to  *)
(* the control block that counts its owners.  Readers use std::atomic_load *)
(* but the writer assigns plainly, a data race.  Of the outcomes the race  *)
(* may have, the module has those of the library's move assignment: the    *)
(* two words are exchanged one after the other, and then the old owner is  *)
(* given up.  A copy reads the two words in the same order.                *)
(*                                                                         *)
(* Rule sets are numbered; the set n lives while owners[n] > 0.            *)
(***************************************************************************)
EXTENDS Naturals

CONSTANTS Readers,  \* workers that evaluate flows
          MaxSet    \* bound on the rule sets published

Sets == 0..MaxSet

VARIABLES
  object,   \* the first word of active_rules_
  control,  \* the second word
  owners,   \* owners[n]: the use count of rule set n
  writer,   \* where the writer is; mutex_ admits one at a time
  old,      \* the rule set the writer has exchanged out
  reader    \* reader[r]: where a reader is and the two words it has
vars == <<object, control, owners, writer, old, reader>>

Away == [at |-> "away", object |-> 0, control |-> 0]

(* RuleEngine() has published the empty rule set.                          *)
Init ==
  /\ object = 0
  /\ control = 0
  /\ owners = [n \in Sets |-> IF n = 0 THEN 1 ELSE 0]
  /\ writer = "idle"
  /\ old = 0
  /\ reader = [r \in Readers |-> Away]

-----------------------------------------------------------------------------
(* The writer: make_shared, the two exchanges, and the end of the old.     *)

MakeShared ==
  /\ writer = "idle"
  /\ object < MaxSet
  /\ owners' = [owners EXCEPT ![object + 1] = 1]
  /\ writer' = "made"
  /\ UNCHANGED <<object, control, old, reader>>

SwapObject ==
  /\ writer = "made"
  /\ object' = object + 1
  /\ old' = object
  /\ writer' = "half"
  /\ UNCHANGED <<control, owners, reader>>

SwapControl ==
  /\ writer = "half"
  /\ control' = object
  /\ writer' = "swapped"
  /\ UNCHANGED <<object, owners, old, reader>>

ReleaseOld ==
  /\ writer = "swapped"
  /\ owners' = [owners EXCEPT ![old] = @ - 1]
  /\ writer' = "idle"
  /\ UNCHANGED <<object, control, old, reader>>

(* A reader: std::atomic_load copies the two words, the evaluation reads   *)
(* the rule set, and the copy is destroyed.                                *)

LoadObject(r) ==
  /\ reader[r].at = "away"
  /\ reader' = [reader EXCEPT ![r] = [at |-> "loading", object |-> object, control |-> 0]]
  /\ UNCHANGED <<object, control, owners, writer, old>>

LoadControl(r) ==
  /\ reader[r].at = "loading"
  /\ reader' = [reader EXCEPT ![r].at = "evaluating", ![r].control = control]
  /\ owners' = [owners EXCEPT ![control] = @ + 1]
  /\ UNCHANGED <<object, control, writer, old>>

EndEvaluation(r) ==
  /\ reader[r].at = "evaluating"
  /\ owners' = [owners EXCEPT ![reader[r].control] = @ - 1]
  /\ reader' = [reader EXCEPT ![r] = Away]
  /\ UNCHANGED <<object, control, writer, old>>

Next ==
  \/ MakeShared \/ SwapObject \/ SwapControl \/ ReleaseOld
  \/ \E r \in Readers : LoadObject(r) \/ LoadControl(r) \/ EndEvaluation(r)

Spec == Init /\ [][Next]_vars

-----------------------------------------------------------------------------

(* The rule set a worker evaluates against stays alive while it does: the  *)
(* swap of the snapshot is an atomic one (docs/ARCHITECTURE.md:104,        *)
(* rule_engine.cpp:173 against 227-241).                                   *)
ReadersHoldLiveRules ==
  \A r \in Readers :
    reader[r].at = "evaluating" => owners[reader[r].object] > 0
=============================================================================
