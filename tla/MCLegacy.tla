------------------------------ MODULE MCLegacy -----------------------------
(* The legacy gateway, a part at a time: its health check with two probes   *)
(* of a target at once, forwarded requests, and its circuit breaker.        *)
EXTENDS LegacyForward, LegacyCircuitBreaker, TLC

CONSTANTS t1, t2, r1, c1, c2, c3

VARIABLE focus  \* the part that runs

HC(maxFails, interval, failTimeout, path) ==
  [maxFails |-> maxFails, interval |-> interval, failTimeout |-> failTimeout, path |-> path]

Passive    == HC(1, 0, 2, FALSE)
Connecting == HC(2, 1, 0, FALSE)
Active     == HC(2, 1, 0, TRUE)
Checks     == {Passive, HC(2, 0, 2, FALSE), HC(2, 2, 1, TRUE), Connecting, Active}

\* A quota of one failure, half of the requests slow
Amounts == "error" :> 2 @@ "slow" :> 0
Ratios  == "error" :> [num |-> 0, den |-> 1] @@ "slow" :> [num |-> 1, den |-> 2]

LegacyInit ==
  /\ focus \in {"health", "forward", "breaker"} /\ ForwardInit /\ BreakerInit
  /\ focus = "forward" => hc \in {Passive, Active}
  /\ focus = "breaker" => hc = Passive

\* Requests are followed with one probe at a time
LegacyNext ==
  /\ UNCHANGED focus
  /\ \/ focus = "health" /\ Health /\ UNCHANGED breakerVars
     \/ focus = "forward" /\ ForwardNext /\ UNCHANGED breakerVars
        /\ \A t \in Target : flight'[t] <= 1
     \/ focus = "breaker" /\ BreakerNext /\ UNCHANGED allVars

allLegacy == <<focus, allVars, breakerVars>>

\* Tasks run, probes that connect end, replays are sent and attempts end
LegacySpec ==
  /\ LegacyInit /\ [][LegacyNext]_allLegacy
  /\ WF_allLegacy(focus = "health" /\ Check /\ UNCHANGED <<req, attempts, breakerVars, focus>>)
  /\ \A t \in Target :
       WF_allLegacy(/\ focus = "health" /\ ~hc.path /\ \E good \in BOOLEAN : ProbeEnds(t, good)
                    /\ UNCHANGED <<req, attempts, breakerVars, focus>>)
  /\ \A r \in Request :
       /\ WF_allLegacy(focus = "forward" /\ Again(r) /\ UNCHANGED <<breakerVars, focus>>)
       /\ WF_allLegacy(focus = "forward" /\ Answered(r) /\ UNCHANGED <<breakerVars, focus>>)

\* Recovers is about the health check alone: a refused connection that a request reports
\* late takes a target down again that no probe finds failing (pjs/http/forward.js:333).
HealthRecovers == focus = "health" => Recovers
=============================================================================
