---------------------------- MODULE HealthCheck ----------------------------
(***************************************************************************)
(* Health checks of the targets of one backend                             *)
(* (src/modules/health-check.js), driven by the passes of src/gateway.js.  *)
(*                                                                         *)
(* The cached health check of a backend subscribes to changes of its       *)
(* policy and of the backend itself; each update builds new checkers with  *)
(* clean counts, while checks begun for the old ones may still be in the   *)
(* air and report to those.  A loop checks every due target, waits for all *)
(* of the checks, then for a second.  What counts for load balancing is a  *)
(* set of unhealthy addresses shared by all threads, that updates do not   *)
(* touch.                                                                  *)
(*                                                                         *)
(* A health check whose backend was deleted is replaced by a new one only  *)
(* when nothing of the old one runs any more.                              *)
(***************************************************************************)
EXTENDS Naturals, FiniteSets

CONSTANTS Target, None,
          Policies,  \* [covers, max, interval, wait, bad]
          MaxWait    \* bound: seconds a turn of the loop may be late

Checker == [config : Policies, fails : Nat, healthy : BOOLEAN, since : Nat]

\* A check in the air, of the checker in use or of a former one
OwnCheck     == [own |-> TRUE]
RetiredCheck == [own : {FALSE}, fails : Nat, max : Nat \ {0}]

ASSUME PoliciesAssumption ==
  /\ Policies \subseteq [covers   : SUBSET Target,  \* targets on a checked port
                         max      : Nat \ {0},      \* maxFails
                         interval : Nat,            \* 0: no interval, passive
                         wait     : Nat,            \* failTimeout
                         bad      : BOOLEAN]        \* findTargets() throws on it
  /\ None \notin Policies \cup Checker \cup RetiredCheck \cup {OwnCheck}
  /\ \A ts \in SUBSET Target : ts # None
  /\ MaxWait \in Nat \ {0}

VARIABLES
  backend, policy,  \* the resources: the targets of the Backend, its policy
  dirty, pending,   \* changes not passed on yet, and whether a pass is due
  cached,           \* whether the health check is in the cache
  subscribed,       \* the kinds of resources whose change runs update()
  inUse,            \* healthCheckPolicy, on thread 0
  checkers,         \* allTargets: counts of failures and seconds by address
  flight,           \* by address, the check in the air: the checker's own, or
                    \* that of a former one, with its count and maxFails
  loop,             \* healthCheckAll(): "exited", "checking" or "waiting"
  unhealthy,        \* unhealthySet
  streak, last      \* history: failed checks in a row, and how the last ended

vars == <<backend, policy, dirty, pending, cached, subscribed, inUse, checkers, flight,
          loop, unhealthy, streak, last>>
resources == <<backend, policy, dirty, pending>>
history   == <<streak, last>>

Checked == {t \in Target : checkers[t] # None}
InAir   == {t \in Target : flight[t] # None}
Own(t)  == t \in InAir /\ flight[t].own

HealthTypeOK ==
  /\ backend \in {None} \cup SUBSET Target /\ policy \in Policies \cup {None}
  /\ dirty \subseteq {"Backend", "Policy"} /\ pending \in BOOLEAN
  /\ cached \in BOOLEAN /\ subscribed \subseteq {"Backend", "Policy"}
  /\ inUse \in Policies \cup {None}
  /\ \A t \in Target : /\ t \in Checked => checkers[t] \in Checker
                       /\ flight[t] \in RetiredCheck \cup {None, OwnCheck}
                       /\ Own(t) => t \in Checked
  /\ loop \in {"exited", "checking", "waiting"}
  /\ loop = "checking" <=> InAir # {}
  /\ unhealthy \subseteq Target

----------------------------------------------------------------------------
(* update() and the passes that run it *)

NewChecker(p) == [config |-> p, fails |-> 0, healthy |-> TRUE, since |-> 0]

\* findTargets(); when it throws, some of the targets may be there
NewCheckers(found) == [t \in Target |-> IF t \in found THEN NewChecker(policy) ELSE None]

\* The checks in the air go on reporting to the checkers that began them
Retired == [t \in Target |-> IF Own(t)
                             THEN [own |-> FALSE, fails |-> checkers[t].fails,
                                   max |-> checkers[t].config.max]
                             ELSE flight[t]]

\* The targets that a checker is made for, and whether that throws
Found  == IF policy = None \/ backend = None THEN {} ELSE policy.covers \cap backend
Throws == Found # {} /\ policy.bad

\* update() run for the changes in kinds; these subscriptions are spent
Update(kinds) ==
  /\ inUse' = IF backend = None THEN None ELSE policy
  /\ IF backend = None
     THEN cached' = FALSE /\ UNCHANGED <<checkers, flight>>
     ELSE /\ checkers' = NewCheckers(Found)
          /\ flight' = Retired /\ UNCHANGED cached
  /\ subscribed' = IF backend = None THEN subscribed \ kinds ELSE {"Backend", "Policy"}

\* The pass is abandoned with its marks, the subscription that ran is spent
UpdateThrows(kind) ==
  /\ inUse' = policy /\ flight' = Retired
  /\ \E found \in SUBSET Found \ {Found} : checkers' = NewCheckers(found)
  /\ subscribed' = subscribed \ {kind}
  /\ UNCHANGED <<cached, dirty>>

ChangeBackend(ts) ==
  /\ ts # backend /\ backend' = ts
  /\ dirty' = dirty \cup {"Backend"} /\ pending' = TRUE
  /\ UNCHANGED <<policy, cached, subscribed, inUse, checkers, flight, loop, unhealthy, history>>

ChangePolicy(p) ==
  /\ p # policy /\ policy' = p
  /\ dirty' = dirty \cup {"Policy"} /\ pending' = TRUE
  /\ UNCHANGED <<backend, cached, subscribed, inUse, checkers, flight, loop, unhealthy, history>>

\* updateDirtyResources(): backends first, then policies
Pass ==
  /\ pending /\ pending' = FALSE
  /\ LET kinds == dirty \cap subscribed IN
     CASE kinds = {} -> dirty' = {} /\ UNCHANGED <<cached, subscribed, inUse, checkers, flight>>
       [] kinds # {} /\ ~Throws -> dirty' = {} /\ Update(kinds)
       [] OTHER -> UpdateThrows(IF "Backend" \in kinds THEN "Backend" ELSE "Policy")
  /\ UNCHANGED <<backend, policy, loop, unhealthy, history>>

\* The cache factory, run for a balancer of the backend
Make ==
  /\ ~cached /\ backend # None /\ ~Throws
  /\ loop = "exited" /\ inUse = None
  /\ cached' = TRUE /\ inUse' = policy
  /\ checkers' = NewCheckers(Found)
  /\ subscribed' = {"Backend", "Policy"}
  /\ loop' = IF policy = None THEN "exited" ELSE "waiting"
  /\ UNCHANGED <<resources, flight, unhealthy, history>>

----------------------------------------------------------------------------
(* The loop *)

Up(n, d, top) == IF n + d > top THEN top ELSE n + d

\* An active check is due interval seconds after the one before; a passive
\* one resets an address failTimeout seconds after its failure
Config(t)   == checkers[t].config

\* Mutant: addresses that are down are not checked any more
DueIfHealthy(t, d) == /\ Config(t).interval > 0 /\ checkers[t].healthy
                      /\ checkers[t].since + d >= Config(t).interval

Due(t, d)   == Config(t).interval > 0 /\ checkers[t].since + d >= Config(t).interval
Reset(t, d) == /\ Config(t).interval = 0 /\ ~checkers[t].healthy
               /\ checkers[t].since + d >= Config(t).wait

Turned(t, d) ==
  IF Due(t, d) THEN [checkers[t] EXCEPT !.since = 0]
  ELSE IF Reset(t, d) THEN [checkers[t] EXCEPT !.fails = 0, !.healthy = TRUE]
  ELSE [checkers[t] EXCEPT !.since = Up(@, d, Config(t).interval + Config(t).wait)]

\* d seconds after the turn before, which waited for one
Turn(d) ==
  /\ loop = "waiting" /\ inUse # None
  /\ LET due == {t \in Checked : Due(t, d)} IN
     /\ flight' = [t \in Target |-> IF t \in due THEN OwnCheck ELSE None]
     /\ loop' = IF due = {} THEN "waiting" ELSE "checking"
  /\ checkers' = [t \in Target |-> IF t \in Checked THEN Turned(t, d) ELSE None]
  /\ unhealthy' = unhealthy \ {t \in Checked : Reset(t, d)}
  /\ UNCHANGED <<resources, cached, subscribed, inUse, history>>

Exit ==
  /\ loop = "waiting" /\ inUse = None
  /\ loop' = "exited"
  /\ UNCHANGED <<resources, cached, subscribed, inUse, checkers, flight, unhealthy, history>>

Landed(t) == /\ flight' = [flight EXCEPT ![t] = None]
             /\ loop' = IF InAir = {t} THEN "waiting" ELSE "checking"
             /\ UNCHANGED <<resources, cached, subscribed, inUse>>

\* Mutant: a success does not clear the count
ClearedHealth(c) == [c EXCEPT !.healthy = TRUE]

\* reset() of the checker of an address
Cleared(c) == [c EXCEPT !.fails = 0, !.healthy = TRUE]

\* Mutant: a checker that is healthy leaves the shared set alone
PutBackIfDown(t) == IF Own(t) /\ checkers[t].healthy THEN {} ELSE {t}

\* unhealthySet.delete() of reset()
PutBack(t) == {t}

Success(t) ==
  /\ t \in InAir
  /\ checkers' = IF Own(t) THEN [checkers EXCEPT ![t] = Cleared(@)] ELSE checkers
  /\ unhealthy' = unhealthy \ PutBack(t)
  /\ streak' = [streak EXCEPT ![t] = 0] /\ last' = [last EXCEPT ![t] = "ok"]
  /\ Landed(t)

\* What the check in the air of t counts up, and to where
Count(t) == IF Own(t) THEN checkers[t].fails ELSE flight[t].fails
Limit(t) == IF Own(t) THEN Config(t).max ELSE flight[t].max

\* failCount >= healthCheck.maxFails, in fail()
Down(t) == Count(t) + 1 >= Limit(t)

Failure(t) ==
  /\ t \in InAir
  /\ checkers' = IF ~Own(t) THEN checkers
                 ELSE [checkers EXCEPT ![t].fails = Up(@, 1, Config(t).max),
                                       ![t].healthy = @ /\ ~Down(t)]
  /\ unhealthy' = IF Down(t) THEN unhealthy \cup {t} ELSE unhealthy
  /\ streak' = [streak EXCEPT ![t] = IF @ > Limit(t) THEN @ ELSE @ + 1]
  /\ last' = [last EXCEPT ![t] = "fail"]
  /\ Landed(t)

\* The pipeline of a check ends with no response
NoAnswer(t) ==
  /\ t \in InAir
  /\ last' = [last EXCEPT ![t] = "lost"]
  /\ Landed(t) /\ UNCHANGED <<checkers, unhealthy, streak>>

----------------------------------------------------------------------------
Init ==
  /\ backend \in {None} \cup SUBSET Target /\ policy \in Policies \cup {None}
  /\ dirty = {} /\ pending = FALSE /\ cached = FALSE /\ subscribed = {}
  /\ inUse = None /\ loop = "exited" /\ unhealthy = {}
  /\ checkers = [t \in Target |-> None] /\ flight = [t \in Target |-> None]
  /\ streak = [t \in Target |-> 0] /\ last = [t \in Target |-> "none"]

Change == \/ \E ts \in {None} \cup SUBSET Target : ChangeBackend(ts)
          \/ \E p \in Policies \cup {None} : ChangePolicy(p)
Turns == \E d \in 1..MaxWait : Turn(d)
Lands(t) == Success(t) \/ Failure(t) \/ NoAnswer(t)

Next == Change \/ Pass \/ Make \/ Turns \/ Exit \/ \E t \in Target : Lands(t)

\* Timers fire, and every check ends: it has timeouts of five seconds
Spec == /\ Init /\ [][Next]_vars
        /\ WF_vars(Pass) /\ WF_vars(Make) /\ WF_vars(Turns) /\ WF_vars(Exit)
        /\ \A t \in Target : WF_vars(Lands(t))

----------------------------------------------------------------------------
\* An address goes down only after as many failures in a row as the policy
\* of the check that fails asks for, whatever updates came in between
\* (health-check.js:92-112).
DownAfterStreak ==
  [][\A t \in unhealthy' \ unhealthy : streak'[t] >= Limit(t)]_vars

\* An address that is down has been checked, and its last check was no
\* success: that of any check, also of one begun before an update, puts it
\* back (health-check.js:92-100).
DownHasFailedLast == \A t \in unhealthy : last[t] \in {"fail", "lost"}

\* Whether the checker of t makes checks, now and later
Assessed(t) == /\ cached /\ inUse # None /\ loop # "exited"
               /\ t \in Checked /\ Config(t).interval > 0

\* An address that is assessed and never fails again comes back, if updates
\* leave its checker alone: each of them puts off the next check by a whole
\* interval (health-check.js:42, 114-144).
Recovers ==
  \A t \in Target : <>[][~Failure(t) /\ ~NoAnswer(t) /\ ~Pass]_vars /\ <>[]Assessed(t)
                      => <>[](t \notin unhealthy)

\* While a policy with an interval is in use, the targets it covers are
\* being assessed: "The FGW actively conducts health assessments on the
\* upstreams" (README.md:58).
InUseIsAssessed ==
  cached /\ inUse # None => \A t \in Checked : Config(t).interval > 0 => Assessed(t)
=============================================================================
