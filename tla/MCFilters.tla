------------------------------ MODULE MCFilters ----------------------------
(* Filters that share no state, each in a part of the run of its own: the   *)
(* one in focus moves, the others stay as they begin.                       *)
EXTENDS Admission, CircuitBreak, HttpRule

CONSTANTS s1, s2, s3, s4, t1, t2, k1, k2

VARIABLE focus

others == <<admissionVars, breakVars, ruleVars>>

Init ==
  /\ focus \in {"rule", "admission", "break"} /\ RuleInit /\ AdmissionInit /\ BreakInit
  /\ focus # "admission" => filter = "rate"
  /\ focus # "rule" => level = "rule"

Next ==
  /\ UNCHANGED focus
  /\ \/ focus = "admission" /\ AdmissionNext /\ UNCHANGED <<breakVars, ruleVars>>
     \/ focus = "break" /\ BreakNext /\ UNCHANGED <<admissionVars, ruleVars>>
     \/ focus = "rule" /\ RuleNext /\ UNCHANGED <<admissionVars, breakVars>>
Spec == Init /\ [][Next]_<<focus, others>>
============================================================================
