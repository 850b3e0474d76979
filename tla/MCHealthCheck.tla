--------------------------- MODULE MCHealthCheck ---------------------------
(* One target under an active policy, a stricter one, a passive one, one    *)
(* that does not cover it and one that findTargets() throws on.             *)
EXTENDS HealthCheck, TLC

CONSTANTS t1

P(covers, max, interval, wait, bad) ==
  [covers |-> covers, max |-> max, interval |-> interval, wait |-> wait, bad |-> bad]

MCPolicies ==
  {P(Target, 2, 1, 0, FALSE), P(Target, 1, 2, 0, FALSE), P(Target, 2, 0, 1, FALSE),
   P({}, 1, 1, 0, FALSE), P(Target, 1, 1, 0, TRUE)}
=============================================================================
