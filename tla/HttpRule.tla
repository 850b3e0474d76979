------------------------------ MODULE HttpRule -----------------------------
(***************************************************************************)
(* A request on its way through the rule that matched it                   *)
(* (modules/router-http.js, makeBackendSelectorForRule;                    *)
(* modules/balancer-http.js; modules/session-persistence.js): a race with  *)
(* the timeouts, retries with a growing pause, the choice of a target and  *)
(* its being kept for a session.                                           *)
(*                                                                         *)
(* Both timeouts are outside the retries and race all attempts together.   *)
(* Whether the branch that lost the race goes on is up to Pipy.  A session *)
(* is kept by the rule, for a backend, or by a policy of the backend, for  *)
(* one of its targets: "level" says which.                                 *)
(***************************************************************************)
EXTENDS Naturals

CONSTANTS Request, Target, Key, NoKey, NoTarget,
          Attempts,   \* retry.attempts
          Timeouts    \* whether a timeout of the request or of the backend is set

ASSUME RuleAssumption ==
  /\ Attempts \in Nat \ {0} /\ Timeouts \in BOOLEAN
  /\ NoKey \notin Key /\ NoTarget \notin Target

VARIABLES
  level,     \* "rule" or "backend"
  healthy,   \* targets that are healthy; a rule does not ask
  sessions,  \* sessionCache
  request    \* the requests: phase is "asking" for a target, in a "pause" or "idle"

ruleVars == <<level, healthy, sessions, request>>

\* counter is $retryCounter, and answered says that the client has its response.
\* Histories: tries is the number of attempts, and last the target of the former one if
\* the session has since been kept for it and no other
Fresh == [phase |-> "idle", answered |-> FALSE, key |-> NoKey, target |-> NoTarget,
          counter |-> 0, tries |-> 0, last |-> NoTarget]

Live(r) == request[r].phase # "idle"

----------------------------------------------------------------------------
(* Sessions and targets *)

Hint(k) == IF k = NoKey THEN NoTarget ELSE sessions[k]

Candidates == IF level = "rule" THEN Target ELSE healthy

\* Mutant: the hint is not looked at
AnyTarget(k) == Candidates

\* balancer.allocate(): the hint if it is a candidate, otherwise any
Allocation(k) == IF Hint(k) \in Candidates THEN {Hint(k)} ELSE Candidates

\* preserve(): under the key of the response, or else the one of the request
Preserve(k, t) == IF k = NoKey THEN sessions ELSE [sessions EXCEPT ![k] = t]

----------------------------------------------------------------------------
(* Attempts *)

\* Mutant: the count begins after the first failure
OneMore(counter) == counter <= Attempts

Again(counter) == counter < Attempts

GivesUp(req) == ~Again(req.counter + 1)

\* A response that is to be retried leads to a pause, until the counter says no
After(req, failed) ==
  IF failed /\ ~GivesUp(req)
  THEN [req EXCEPT !.phase = "pause", !.counter = @ + 1]
  ELSE [req EXCEPT !.phase = "idle", !.answered = TRUE]

\* An attempt finds a target, or none and is answered with a 500.  A rule has chosen
\* its backend once.
Attempt(r, req) ==
  LET tried  == [req EXCEPT !.tries = @ + 1]
      choice == IF level = "rule" /\ req.tries > 0 THEN {req.target} ELSE Allocation(req.key)
  IN  \/ \E t \in choice :
           request' = [request EXCEPT ![r] = [tried EXCEPT !.phase = "asking", !.target = t]]
      \/ choice = {} /\ request' = [request EXCEPT ![r] = After(tried, TRUE)]

Begin(r, k) ==
  /\ ~Live(r) /\ Attempt(r, [Fresh EXCEPT !.key = k])
  /\ UNCHANGED <<level, healthy, sessions>>

Retry(r) ==
  /\ request[r].phase = "pause" /\ Attempt(r, request[r])
  /\ UNCHANGED <<level, healthy, sessions>>

\* A target responds, and may name a session.  A policy keeps each response, a rule the
\* one the client gets.
Respond(r, failed, named) ==
  LET req   == request[r]
      key   == IF named = NoKey THEN req.key ELSE named
      keeps == level = "backend" \/ (~req.answered /\ ~(failed /\ ~GivesUp(req)))
      last  == IF named = NoKey THEN req.target ELSE NoTarget
  IN  /\ req.phase = "asking"
      /\ sessions' = IF keeps THEN Preserve(key, req.target) ELSE sessions
      /\ request' = [q \in Request |->
           IF q = r THEN [After(req, failed) EXCEPT !.last = last]
           ELSE IF keeps /\ request[q].key = key THEN [request[q] EXCEPT !.last = NoTarget]
           ELSE request[q]]
      /\ UNCHANGED <<level, healthy>>

----------------------------------------------------------------------------

\* A timeout wins the race: the client gets a 504, which the rule keeps as a response of
\* its backend.  The attempts may go on.
TimeOut(r) ==
  /\ Timeouts /\ Live(r) /\ ~request[r].answered
  /\ sessions' = IF level = "rule" THEN Preserve(request[r].key, request[r].target) ELSE sessions
  /\ \E phase \in {"idle", request[r].phase} :
       request' = [request EXCEPT ![r].answered = TRUE, ![r].phase = phase]
  /\ UNCHANGED <<level, healthy>>

Abort(r) ==
  /\ Live(r) /\ request' = [request EXCEPT ![r].phase = "idle"]
  /\ UNCHANGED <<level, healthy, sessions>>

HealthChanges(t) ==
  /\ healthy' = (healthy \cup {t}) \ (healthy \cap {t})
  /\ UNCHANGED <<level, sessions, request>>

RuleInit ==
  /\ level \in {"rule", "backend"} /\ healthy = Target
  /\ sessions = [k \in Key |-> NoTarget] /\ request = [r \in Request |-> Fresh]

RuleNext ==
  \/ \E r \in Request :
       \/ \E k \in Key \cup {NoKey} : Begin(r, k) \/ \E failed \in BOOLEAN : Respond(r, failed, k)
       \/ Retry(r) \/ TimeOut(r) \/ Abort(r)
  \/ \E t \in Target : HealthChanges(t)

RuleSpec == RuleInit /\ [][RuleNext]_ruleVars
----------------------------------------------------------------------------
(* Properties *)

\* A failure reaches the client when there have been as many attempts as the rule says,
\* the first one included: never sooner and never later.
GivesUpWhenSpent ==
  [][\A r \in Request :
       /\ request'[r].tries <= Attempts
       /\ (\E k \in Key \cup {NoKey} : Respond(r, TRUE, k)) /\ request'[r].phase = "idle"
            => request[r].tries = Attempts]_ruleVars

\* A retry within a session goes to the target that has just failed as long as it counts
\* as healthy: its response was kept for the session before the retry was decided.
RetriesStick ==
  [][\A r \in Request :
       Retry(r) /\ request[r].key # NoKey /\ request[r].last \in Candidates
         => request'[r].target = request[r].last]_ruleVars
============================================================================
