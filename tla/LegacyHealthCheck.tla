------------------------- MODULE LegacyHealthCheck -------------------------
(***************************************************************************)
(* Health of the endpoints of one service in the legacy gateway            *)
(* (pjs/common/health-check.js), as it is reported by the probes of the    *)
(* health check itself and by forwarded TCP connections                    *)
(* (pjs/tcp/forward.js).                                                   *)
(*                                                                         *)
(* A service with an Interval is checked actively, by HTTP when it has a   *)
(* Path and by connecting otherwise; one without it passively, where a     *)
(* target that is down returns after FailTimeout seconds.  Balancers read  *)
(* the cache of unavailable targets, which is made at the first failure.   *)
(*                                                                         *)
(* errorCount is only compared with MaxFails, so it is counted up to that. *)
(***************************************************************************)
EXTENDS Naturals

CONSTANTS Target, None,
          Configs,              \* the values of HealthCheck considered
          MaxFlight, MaxConns   \* bounds, for each target

\* In seconds; path tells whether probes are HTTP requests
ASSUME HealthAssumption ==
  /\ Configs \subseteq
       [maxFails : Nat \ {0}, interval : Nat, failTimeout : Nat, path : BOOLEAN]
  /\ \A c \in Configs : c.interval > 0 \/ c.failTimeout > 0
  /\ MaxFlight \in Nat \ {0} /\ MaxConns \in Nat
  /\ \A ts \in SUBSET Target : ts # None

VARIABLES
  hc,           \* HealthCheck of the service, read once
  alive, errorCount, failTick, tick,  \* healthCheckTargets
  unavailable,  \* healthCheckServices[name]: None before the first failure
  flight,       \* probes in the air, for each target
  conns,        \* forwarded TCP connections, for each target
  streak,       \* history: failures of the target itself in a row
  downFor       \* history: seconds since it went down

records == <<alive, errorCount, failTick, unavailable>>
vars    == <<hc, alive, errorCount, failTick, tick, unavailable, flight, conns, streak,
             downFor>>

Unavailable == IF unavailable = None THEN {} ELSE unavailable

UpTo(n, max) == IF n < max THEN n ELSE max

\* The records have their types, and a live target has errors left to make.
HealthTypeOK ==
  /\ hc \in Configs /\ \A t \in Target : alive[t] => errorCount[t] < hc.maxFails
  /\ alive \in [Target -> BOOLEAN] /\ errorCount \in [Target -> 0..hc.maxFails]
  /\ failTick \in [Target -> 0..hc.failTimeout] /\ tick \in [Target -> 0..hc.interval]
  /\ unavailable \in {None} \cup SUBSET Target
  /\ flight \in [Target -> 0..MaxFlight] /\ conns \in [Target -> 0..MaxConns]
  /\ streak \in [Target -> 0..hc.maxFails] /\ downFor \in [Target -> 0..hc.failTimeout]

----------------------------------------------------------------------------
(* ok() and fail() *)

\* Mutant: ok() leaves the target in the cache of the unavailable
KeptOut(ts) == unavailable

\* What ok() leaves in the cache when the targets ts return
Readmitted(ts) == IF unavailable = None THEN None ELSE unavailable \ ts

\* ok() for each of ts: nothing happens to those that are alive
Ok(ts) ==
  LET back == {t \in ts : ~alive[t]} IN
  /\ alive' = [t \in Target |-> alive[t] \/ t \in back]
  /\ errorCount' = [t \in Target |-> IF t \in back THEN 0 ELSE errorCount[t]]
  /\ unavailable' = IF back = {} THEN unavailable ELSE Readmitted(back)

\* Mutant: fail() leaves the seconds of the last time the target was down
Resumed(t) == failTick

Restarted(t) == [failTick EXCEPT ![t] = 0]

\* ++target.errorCount >= maxFails
Exhausted(t) == errorCount[t] + 1 >= hc.maxFails

Fail(t) ==
  /\ errorCount' = [errorCount EXCEPT ![t] = UpTo(@ + 1, hc.maxFails)]
  /\ IF Exhausted(t) /\ alive[t]
     THEN /\ alive' = [alive EXCEPT ![t] = FALSE] /\ failTick' = Restarted(t)
          /\ unavailable' = Unavailable \cup {t}
          /\ downFor' = [downFor EXCEPT ![t] = 0]
     ELSE UNCHANGED <<alive, failTick, unavailable, downFor>>

\* What the target itself did, whatever the records say
Succeeded(t) == streak' = [streak EXCEPT ![t] = 0]
Failed(t)    == streak' = [streak EXCEPT ![t] = UpTo(@ + 1, hc.maxFails)]

Report(t, good) == IF good THEN Succeeded(t) /\ Ok({t}) /\ UNCHANGED <<failTick, downFor>>
                           ELSE Failed(t) /\ Fail(t)

----------------------------------------------------------------------------
(* The two tasks, each once a second *)

\* Mutant: targets that are down are not checked any more
DueIfAlive(t) == alive[t] /\ tick[t] + 1 >= hc.interval

\* ++target.tick >= target.service.interval
Due(t) == tick[t] + 1 >= hc.interval

\* A probe starts for each target that is due
Check ==
  /\ hc.interval > 0
  /\ tick' = [t \in Target |-> IF tick[t] + 1 >= hc.interval THEN 0 ELSE tick[t] + 1]
  /\ flight' = [t \in Target |-> IF Due(t) THEN UpTo(flight[t] + 1, MaxFlight) ELSE flight[t]]
  /\ UNCHANGED <<hc, records, conns, streak, downFor>>

ProbeEnds(t, good) ==
  /\ flight[t] > 0 /\ flight' = [flight EXCEPT ![t] = @ - 1]
  /\ Report(t, good) /\ UNCHANGED <<hc, tick, conns>>

TimingDown == {t \in Target : ~alive[t] /\ hc.failTimeout > 0 /\ hc.interval = 0}

\* ++target.failTick >= target.service.failTimeout
TimedOut == {t \in TimingDown : failTick[t] + 1 >= hc.failTimeout}

ResetDown ==
  /\ TimingDown # {}
  /\ failTick' = [t \in Target |-> IF t \in TimingDown THEN UpTo(failTick[t] + 1, hc.failTimeout)
                                                       ELSE failTick[t]]
  /\ downFor' = [t \in Target |-> UpTo(downFor[t] + 1, hc.failTimeout)]
  /\ Ok(TimedOut)
  /\ UNCHANGED <<hc, tick, flight, conns, streak>>

----------------------------------------------------------------------------
(* TCP connections of the service *)

Connect(t) ==
  /\ conns[t] < MaxConns /\ t \notin Unavailable
  /\ conns' = [conns EXCEPT ![t] = @ + 1]
  /\ UNCHANGED <<hc, records, tick, flight, streak, downFor>>

\* Its end reports how it went: a time-out of an established one is no failure
Disconnect(t, good) ==
  /\ conns[t] > 0 /\ conns' = [conns EXCEPT ![t] = @ - 1]
  /\ Report(t, good) /\ UNCHANGED <<hc, tick, flight>>

Success(t) == ProbeEnds(t, TRUE) \/ Disconnect(t, TRUE)
Failure(t) == ProbeEnds(t, FALSE) \/ Disconnect(t, FALSE)

HealthInit ==
  /\ hc \in Configs /\ alive = [t \in Target |-> TRUE] /\ unavailable = None
  /\ errorCount = [t \in Target |-> 0] /\ failTick = errorCount /\ tick = errorCount
  /\ flight = errorCount /\ conns = errorCount
  /\ streak = errorCount /\ downFor = errorCount

HealthNext ==
  \/ Check \/ ResetDown
  \/ \E t \in Target : Connect(t) \/ Success(t) \/ Failure(t)

\* Tasks run.  A probe that only connects has a time limit, an HTTP one has none.
TasksRun == WF_vars(Check) /\ WF_vars(ResetDown)
ProbesEnd == \A t \in Target : WF_vars(~hc.path /\ \E good \in BOOLEAN : ProbeEnds(t, good))

HealthSpec == HealthInit /\ [][HealthNext]_vars /\ TasksRun /\ ProbesEnd

----------------------------------------------------------------------------
(* Properties *)

\* Balancers avoid exactly the targets that are down: healthCheckServices, made at
\* the first failure of any target, never differs from healthCheckTargets.
UnavailableIsDown == Unavailable = {t \in Target : ~alive[t]}

\* A target that comes back without a success was down for all of FailTimeout,
\* also when it had been down before: failTick starts again.
DownLongEnough ==
  [][\A t \in Target : ~alive[t] /\ alive'[t] /\ streak'[t] > 0
       => downFor'[t] >= hc.failTimeout]_vars

\* With active checks that connect, a target that stops failing comes back for good.
Recovers == hc.interval > 0 /\ ~hc.path =>
  \A t \in Target : <>[][~Failure(t)]_vars => <>[]alive[t]

\* docs/README.md, 4.1.1: a target becomes unavailable after MaxFails failures in a
\* row ("lian xu").  Not so: ok() of a live target leaves errorCount.
DownAfterStreak ==
  [][\A t \in Target : alive[t] /\ ~alive'[t] => streak'[t] >= hc.maxFails]_vars
=============================================================================
