---------------------------- MODULE Legacy_proofs ---------------------------
(* Proofs about the health records of the legacy gateway and how long a      *)
(* target stays down, alone and under forwarded requests, about the attempts *)
(* of a request and its sticky cookie, and about its circuit breaker.        *)
EXTENDS LegacyForward, LegacyCircuitBreaker, TLAPS


----------------------------------------------------------------------------
(* The cache of the unavailable *)

HealthInv ==
  /\ alive \in [Target -> BOOLEAN] /\ unavailable \in {None} \cup SUBSET Target
  /\ UnavailableIsDown

LEMMA OkKeeps ==
  ASSUME HealthInv, NEW ts \in SUBSET Target, Ok(ts)
  PROVE  HealthInv'
<1>1. unavailable # None => unavailable \in SUBSET Target
  BY DEF HealthInv
<1> DEFINE back == {t \in ts : ~alive[t]}
<1>2. unavailable' = IF back = {} THEN unavailable ELSE Readmitted(back)
  BY DEF Ok
<1>3. alive' = [t \in Target |-> alive[t] \/ t \in back]
  BY DEF Ok
<1>4. CASE unavailable = None
  <2>1. unavailable' = None
    BY <1>2, <1>4 DEF Readmitted
  <2>2. \A t \in Target : alive[t]
    BY <1>4 DEF HealthInv, UnavailableIsDown, Unavailable
  <2> QED
    BY <2>1, <2>2, <1>3, <1>4 DEF HealthInv, UnavailableIsDown, Unavailable
<1>5. CASE unavailable # None
  <2>1. unavailable' = unavailable \ back
    BY <1>2, <1>5 DEF Readmitted
  <2>2. unavailable' \in SUBSET Target /\ unavailable' # None
    BY <2>1, <1>1, <1>5, HealthAssumption DEF HealthAssumption
  <2>3. unavailable = {t \in Target : ~alive[t]}
    BY <1>5 DEF HealthInv, UnavailableIsDown, Unavailable
  <2>4. unavailable' = {t \in Target : ~alive'[t]}
    BY <2>1, <2>3, <1>3 DEF HealthInv
  <2> QED
    BY <2>2, <2>4, <1>3 DEF HealthInv, UnavailableIsDown, Unavailable
<1> QED
  BY <1>4, <1>5

LEMMA FailKeeps ==
  ASSUME HealthInv, NEW t \in Target, Fail(t)
  PROVE  HealthInv'
<1>1. CASE Exhausted(t) /\ alive[t]
  <2>1. alive' = [alive EXCEPT ![t] = FALSE] /\ unavailable' = Unavailable \cup {t}
    BY <1>1 DEF Fail
  <2>2. Unavailable = {u \in Target : ~alive[u]}
    BY DEF HealthInv, UnavailableIsDown
  <2>3. unavailable' \in SUBSET Target /\ unavailable' # None
    BY <2>1, <2>2, HealthAssumption DEF HealthAssumption
  <2>4. unavailable' = {u \in Target : ~alive'[u]}
    BY <2>1, <2>2 DEF HealthInv
  <2> QED
    BY <2>1, <2>3, <2>4 DEF HealthInv, UnavailableIsDown, Unavailable
<1>2. CASE ~(Exhausted(t) /\ alive[t])
  BY <1>2 DEF Fail, HealthInv, UnavailableIsDown, Unavailable
<1> QED
  BY <1>1, <1>2

LEMMA RecordsKept ==
  ASSUME HealthInv, UNCHANGED records
  PROVE  HealthInv'
BY DEF HealthInv, UnavailableIsDown, Unavailable, records

LEMMA HealthStarts == HealthInit => HealthInv
BY DEF HealthInit, HealthInv, UnavailableIsDown, Unavailable

LEMMA ReportKeeps ==
  ASSUME HealthInv, NEW t \in Target, NEW good \in BOOLEAN, Report(t, good)
  PROVE  HealthInv'
<1>1. CASE good
  BY <1>1, OkKeeps, {t} \in SUBSET Target DEF Report
<1>2. CASE ~good
  BY <1>2, FailKeeps DEF Report
<1> QED
  BY <1>1, <1>2

LEMMA TasksKeep ==
  ASSUME HealthInv, Check \/ ResetDown
  PROVE  HealthInv'
<1>1. CASE Check
  BY <1>1, RecordsKept DEF Check
<1>2. CASE ResetDown
  <2>1. TimedOut \in SUBSET Target
    BY DEF TimedOut, TimingDown
  <2> QED
    BY <1>2, <2>1, OkKeeps DEF ResetDown
<1> QED
  BY <1>1, <1>2

LEMMA HealthKeeps == HealthInv /\ [HealthNext]_vars => HealthInv'
<1> SUFFICES ASSUME HealthInv, [HealthNext]_vars PROVE HealthInv'
  OBVIOUS
<1>1. CASE Check \/ ResetDown
  BY <1>1, TasksKeep
<1>2. ASSUME NEW t \in Target, Connect(t) PROVE HealthInv'
  BY <1>2, RecordsKept DEF Connect
<1>3. ASSUME NEW t \in Target, NEW good \in BOOLEAN,
             ProbeEnds(t, good) \/ Disconnect(t, good)
      PROVE  HealthInv'
  BY <1>3, ReportKeeps DEF ProbeEnds, Disconnect
<1>4. CASE UNCHANGED vars
  BY <1>4, RecordsKept DEF vars, records
<1> QED
  BY <1>1, <1>2, <1>3, <1>4 DEF HealthNext, Success, Failure

(* Balancers avoid exactly the targets whose records say they are down,     *)
(* under any sequence of probes, time-outs and TCP connections.             *)
THEOREM UnavailableAlwaysDown == HealthSpec => []UnavailableIsDown
<1>1. HealthInv => UnavailableIsDown
  BY DEF HealthInv
<1> QED
  BY <1>1, HealthStarts, HealthKeeps, PTL DEF HealthSpec

----------------------------------------------------------------------------
(* Types of the records, and how long a target was down *)

LEMMA ConfigFacts ==
  ASSUME HealthTypeOK
  PROVE  /\ hc.maxFails \in Nat \ {0} /\ hc.interval \in Nat /\ hc.failTimeout \in Nat
         /\ MaxFlight \in Nat \ {0} /\ MaxConns \in Nat
BY HealthAssumption DEF HealthAssumption, HealthTypeOK

\* The part of the types that reports leave alone, and the rest
TimersOK ==
  /\ hc \in Configs /\ tick \in [Target -> 0..hc.interval]
  /\ flight \in [Target -> 0..MaxFlight] /\ conns \in [Target -> 0..MaxConns]

RecordsOK ==
  /\ \A t \in Target : alive[t] => errorCount[t] < hc.maxFails
  /\ alive \in [Target -> BOOLEAN] /\ errorCount \in [Target -> 0..hc.maxFails]
  /\ failTick \in [Target -> 0..hc.failTimeout]
  /\ unavailable \in {None} \cup SUBSET Target
  /\ streak \in [Target -> 0..hc.maxFails] /\ downFor \in [Target -> 0..hc.failTimeout]

\* failTick never runs ahead of the time a target is down
ClockOK == \A t \in Target : ~alive[t] => failTick[t] <= downFor[t]

DownInv == TimersOK /\ RecordsOK /\ ClockOK

LEMMA DownTypes == DownInv => HealthTypeOK
BY DEF DownInv, TimersOK, RecordsOK, HealthTypeOK

LEMMA DownStarts == HealthInit => DownInv
<1> SUFFICES ASSUME HealthInit PROVE DownInv
  OBVIOUS
<1>1. hc \in Configs /\ hc.maxFails \in Nat \ {0} /\ hc.interval \in Nat /\ hc.failTimeout \in Nat
  BY HealthAssumption DEF HealthAssumption, HealthInit
<1>2. MaxFlight \in Nat /\ MaxConns \in Nat
  BY HealthAssumption DEF HealthAssumption
<1>3. TimersOK
  BY <1>1, <1>2 DEF HealthInit, TimersOK
<1>4. alive \in [Target -> BOOLEAN]
  BY DEF HealthInit
<1>5. RecordsOK
  BY <1>1, <1>4 DEF HealthInit, RecordsOK
<1> QED
  BY <1>3, <1>5 DEF DownInv, ClockOK, HealthInit

\* ok() of some targets, apart from their clocks
LEMMA OkTypes ==
  ASSUME DownInv, NEW ts \in SUBSET Target, Ok(ts), hc' = hc
  PROVE  /\ alive' \in [Target -> BOOLEAN] /\ errorCount' \in [Target -> 0..hc.maxFails]
         /\ unavailable' \in {None} \cup SUBSET Target
         /\ \A t \in Target : alive'[t] => errorCount'[t] < hc.maxFails
         /\ \A t \in Target : ~alive'[t] => ~alive[t]
         /\ \A t \in Target \ ts : alive'[t] = alive[t]
<1> DEFINE back == {t \in ts : ~alive[t]}
<1>1. /\ alive' = [t \in Target |-> alive[t] \/ t \in back]
      /\ errorCount' = [t \in Target |-> IF t \in back THEN 0 ELSE errorCount[t]]
      /\ unavailable' = IF back = {} THEN unavailable ELSE Readmitted(back)
  BY DEF Ok
<1>2. hc.maxFails \in Nat \ {0}
  BY DownTypes, ConfigFacts
<1>3. alive \in [Target -> BOOLEAN] /\ errorCount \in [Target -> 0..hc.maxFails]
  BY DEF DownInv, RecordsOK
<1>4. alive' \in [Target -> BOOLEAN]
  BY <1>1, <1>3
<1>5. errorCount' \in [Target -> 0..hc.maxFails]
  BY <1>1, <1>2, <1>3
<1>6. unavailable' \in {None} \cup SUBSET Target
  BY <1>1 DEF Readmitted, DownInv, RecordsOK
<1>7. ASSUME NEW t \in Target, alive'[t] PROVE errorCount'[t] < hc.maxFails
  <2>1. alive[t] \/ t \in back
    BY <1>1, <1>7
  <2>2. CASE t \in back
    BY <2>2, <1>1, <1>2
  <2>3. CASE t \notin back
    BY <2>1, <2>3, <1>1 DEF DownInv, RecordsOK
  <2> QED
    BY <2>2, <2>3
<1>8. \A t \in Target : ~alive'[t] => ~alive[t]
  BY <1>1
<1>9. \A t \in Target \ ts : alive'[t] = alive[t]
  BY <1>1, <1>3
<1> QED
  BY <1>4, <1>5, <1>6, <1>7, <1>8, <1>9

LEMMA FailTypes ==
  ASSUME DownInv, NEW u \in Target, Fail(u), hc' = hc, streak' \in [Target -> 0..hc.maxFails]
  PROVE  RecordsOK' /\ ClockOK' /\ \A t \in Target : alive'[t] => alive[t]
<1>1. errorCount' = [errorCount EXCEPT ![u] = UpTo(@ + 1, hc.maxFails)]
  BY DEF Fail
<1>2. hc.maxFails \in Nat \ {0} /\ hc.failTimeout \in Nat
  BY DownTypes, ConfigFacts
<1>3. /\ alive \in [Target -> BOOLEAN] /\ errorCount \in [Target -> 0..hc.maxFails]
      /\ failTick \in [Target -> 0..hc.failTimeout] /\ downFor \in [Target -> 0..hc.failTimeout]
      /\ unavailable \in {None} \cup SUBSET Target
  BY DEF DownInv, RecordsOK
<1>4. /\ UpTo(errorCount[u] + 1, hc.maxFails) \in 0..hc.maxFails
      /\ UpTo(errorCount[u] + 1, hc.maxFails) <= errorCount[u] + 1
  BY <1>2, <1>3 DEF UpTo
<1>5. errorCount' \in [Target -> 0..hc.maxFails] /\ errorCount'[u] <= errorCount[u] + 1
  BY <1>1, <1>3, <1>4
<1>6. CASE Exhausted(u) /\ alive[u]
  <2>1. /\ alive' = [alive EXCEPT ![u] = FALSE] /\ failTick' = [failTick EXCEPT ![u] = 0]
        /\ unavailable' = Unavailable \cup {u} /\ downFor' = [downFor EXCEPT ![u] = 0]
    BY <1>6 DEF Fail, Restarted
  <2>2. unavailable' \in {None} \cup SUBSET Target
    BY <2>1, <1>3 DEF Unavailable
  <2>3. failTick' \in [Target -> 0..hc.failTimeout] /\ downFor' \in [Target -> 0..hc.failTimeout]
    BY <2>1, <1>2, <1>3
  <2>4. alive' \in [Target -> BOOLEAN]
    BY <2>1, <1>3
  <2>5. ASSUME NEW t \in Target
        PROVE  (alive'[t] => alive[t] /\ errorCount'[t] < hc.maxFails)
               /\ (~alive'[t] => failTick'[t] <= downFor'[t])
    <3>1. CASE t = u
      BY <2>1, <3>1, <1>3
    <3>2. CASE t # u
      <4>1. alive'[t] = alive[t] /\ failTick'[t] = failTick[t] /\ downFor'[t] = downFor[t]
            /\ errorCount'[t] = errorCount[t]
        BY <2>1, <3>2, <1>1, <1>3
      <4> QED
        BY <4>1 DEF DownInv, RecordsOK, ClockOK
    <3> QED
      BY <3>1, <3>2
  <2> QED
    BY <2>2, <2>3, <2>4, <2>5, <1>5 DEF RecordsOK, ClockOK
<1>7. CASE ~(Exhausted(u) /\ alive[u])
  <2>1. UNCHANGED <<alive, failTick, unavailable, downFor>>
    BY <1>7 DEF Fail
  <2>2. ASSUME NEW t \in Target, alive[t] PROVE errorCount'[t] < hc.maxFails
    <3>1. CASE t = u
      BY <3>1, <2>2, <1>7, <1>5, <1>2, <1>3 DEF Exhausted
    <3>2. CASE t # u
      <4>1. errorCount'[t] = errorCount[t]
        BY <3>2, <1>1, <1>3
      <4> QED
        BY <4>1, <2>2 DEF DownInv, RecordsOK
    <3> QED
      BY <3>1, <3>2
  <2> QED
    BY <2>1, <2>2, <1>5, <1>3 DEF RecordsOK, ClockOK, DownInv
<1> QED
  BY <1>6, <1>7

\* What DownLongEnough says of a step
BackInTime ==
  \A t \in Target : ~alive[t] /\ alive'[t] /\ streak'[t] > 0 => downFor'[t] >= hc.failTimeout

LEMMA StreakTypes ==
  ASSUME DownInv, NEW u \in Target, Succeeded(u) \/ Failed(u)
  PROVE  streak' \in [Target -> 0..hc.maxFails]
<1>1. hc.maxFails \in Nat \ {0} /\ streak \in [Target -> 0..hc.maxFails]
  BY DownTypes, ConfigFacts DEF DownInv, RecordsOK
<1>2. CASE Succeeded(u)
  BY <1>1, <1>2 DEF Succeeded
<1>3. CASE Failed(u)
  <2>1. UpTo(streak[u] + 1, hc.maxFails) \in 0..hc.maxFails
    BY <1>1 DEF UpTo
  <2> QED
    BY <1>1, <1>3, <2>1 DEF Failed
<1> QED
  BY <1>2, <1>3

LEMMA ReportTypes ==
  ASSUME DownInv, NEW u \in Target, NEW good \in BOOLEAN, Report(u, good), hc' = hc
  PROVE  RecordsOK' /\ ClockOK' /\ BackInTime
<1>1. CASE good
  <2>1. Succeeded(u) /\ Ok({u}) /\ UNCHANGED <<failTick, downFor>>
    BY <1>1 DEF Report
  <2>2. {u} \in SUBSET Target
    OBVIOUS
  <2>3. /\ alive' \in [Target -> BOOLEAN] /\ errorCount' \in [Target -> 0..hc.maxFails]
        /\ unavailable' \in {None} \cup SUBSET Target
        /\ \A t \in Target : alive'[t] => errorCount'[t] < hc.maxFails
        /\ \A t \in Target : ~alive'[t] => ~alive[t]
        /\ \A t \in Target \ {u} : alive'[t] = alive[t]
    BY <2>1, <2>2, OkTypes
  <2>4. streak' \in [Target -> 0..hc.maxFails]
    BY <2>1, StreakTypes
  <2>5. streak'[u] = 0
    BY <2>1 DEF Succeeded, DownInv, RecordsOK
  <2> QED
    BY <2>1, <2>3, <2>4, <2>5 DEF DownInv, RecordsOK, ClockOK, BackInTime
<1>2. CASE ~good
  <2>1. Failed(u) /\ Fail(u)
    BY <1>2 DEF Report
  <2> QED
    BY <2>1, StreakTypes, FailTypes DEF BackInTime
<1> QED
  BY <1>1, <1>2

LEMMA ResetDownTypes ==
  ASSUME DownInv, ResetDown
  PROVE  DownInv' /\ BackInTime
<1>0. /\ hc.failTimeout \in Nat
      /\ failTick \in [Target -> 0..hc.failTimeout] /\ downFor \in [Target -> 0..hc.failTimeout]
  BY DownTypes, ConfigFacts DEF DownInv, RecordsOK
<1>1. TimedOut \in SUBSET Target
  BY DEF TimedOut, TimingDown
<1>2. hc' = hc /\ streak' = streak /\ Ok(TimedOut)
  BY DEF ResetDown
<1>3. /\ alive' \in [Target -> BOOLEAN] /\ errorCount' \in [Target -> 0..hc.maxFails]
      /\ unavailable' \in {None} \cup SUBSET Target
      /\ \A t \in Target : alive'[t] => errorCount'[t] < hc.maxFails
      /\ \A t \in Target : ~alive'[t] => ~alive[t]
      /\ \A t \in Target \ TimedOut : alive'[t] = alive[t]
  BY <1>1, <1>2, OkTypes
<1>4. ASSUME NEW t \in Target
      PROVE  /\ failTick'[t] \in 0..hc.failTimeout /\ downFor'[t] \in 0..hc.failTimeout
             /\ ~alive[t] => failTick'[t] <= downFor'[t]
             /\ ~alive[t] /\ alive'[t] => downFor'[t] >= hc.failTimeout
  <2>1. failTick[t] + 1 \in Nat /\ downFor[t] + 1 \in Nat
    BY <1>0
  <2>2. downFor'[t] = UpTo(downFor[t] + 1, hc.failTimeout)
    BY DEF ResetDown
  <2>3. failTick'[t] = IF t \in TimingDown THEN UpTo(failTick[t] + 1, hc.failTimeout) ELSE failTick[t]
    BY DEF ResetDown
  <2>4. ~alive[t] => failTick[t] <= downFor[t]
    BY DEF DownInv, ClockOK
  <2>5. failTick'[t] \in 0..hc.failTimeout /\ downFor'[t] \in 0..hc.failTimeout
    BY <1>0, <2>1, <2>2, <2>3 DEF UpTo
  <2>6. ~alive[t] => failTick'[t] <= downFor'[t]
    <3>1. SUFFICES ASSUME ~alive[t] PROVE failTick'[t] <= downFor'[t]
      OBVIOUS
    <3>2. CASE t \in TimingDown
      BY <1>0, <2>2, <2>3, <2>4, <3>1, <3>2 DEF UpTo
    <3>3. CASE t \notin TimingDown
      <4>1. failTick[t] <= downFor[t] + 1 /\ failTick[t] <= hc.failTimeout
        BY <1>0, <2>4, <3>1
      <4> QED
        BY <1>0, <2>2, <2>3, <3>3, <4>1 DEF UpTo
    <3> QED
      BY <3>2, <3>3
  <2>7. ASSUME ~alive[t], alive'[t] PROVE downFor'[t] >= hc.failTimeout
    <3>1. t \in TimedOut
      BY <1>3, <2>7
    <3>2. failTick[t] + 1 >= hc.failTimeout
      BY <3>1 DEF TimedOut
    <3>3. downFor[t] + 1 >= hc.failTimeout
      BY <1>0, <2>4, <2>7, <3>2
    <3> QED
      BY <1>0, <2>2, <3>3 DEF UpTo
  <2> QED
    BY <2>5, <2>6, <2>7
<1>5. failTick' \in [Target -> 0..hc.failTimeout] /\ downFor' \in [Target -> 0..hc.failTimeout]
  <2>1. DOMAIN failTick' = Target /\ DOMAIN downFor' = Target
    BY DEF ResetDown
  <2>2. /\ failTick' = [t \in Target |-> failTick'[t]] /\ downFor' = [t \in Target |-> downFor'[t]]
    BY DEF ResetDown
  <2> QED
    BY <1>4, <2>2
<1>6. RecordsOK' /\ ClockOK'
  BY <1>2, <1>3, <1>4, <1>5 DEF DownInv, RecordsOK, ClockOK
<1>7. TimersOK'
  BY DEF ResetDown, DownInv, TimersOK
<1> QED
  BY <1>4, <1>6, <1>7 DEF DownInv, BackInTime

LEMMA CheckTypes ==
  ASSUME DownInv, Check
  PROVE  DownInv' /\ BackInTime
<1>1. /\ hc.interval \in Nat /\ MaxFlight \in Nat \ {0}
      /\ tick \in [Target -> 0..hc.interval] /\ flight \in [Target -> 0..MaxFlight]
  BY DownTypes, ConfigFacts DEF DownInv, TimersOK
<1>2. /\ hc' = hc /\ conns' = conns /\ streak' = streak /\ downFor' = downFor
      /\ UNCHANGED records
  BY DEF Check
<1>3. tick' \in [Target -> 0..hc.interval]
  <2>1. tick' = [t \in Target |-> IF tick[t] + 1 >= hc.interval THEN 0 ELSE tick[t] + 1]
    BY DEF Check
  <2> QED
    BY <1>1, <2>1
<1>4. flight' \in [Target -> 0..MaxFlight]
  <2>1. flight' = [t \in Target |-> IF Due(t) THEN UpTo(flight[t] + 1, MaxFlight) ELSE flight[t]]
    BY DEF Check
  <2>2. \A t \in Target : UpTo(flight[t] + 1, MaxFlight) \in 0..MaxFlight
    BY <1>1 DEF UpTo
  <2> QED
    BY <1>1, <2>1, <2>2
<1>5. TimersOK'
  BY <1>2, <1>3, <1>4 DEF DownInv, TimersOK
<1> QED
  BY <1>2, <1>5 DEF DownInv, RecordsOK, ClockOK, BackInTime, records

LEMMA EndTypes ==
  ASSUME DownInv, NEW u \in Target, NEW good \in BOOLEAN, ProbeEnds(u, good) \/ Disconnect(u, good)
  PROVE  DownInv' /\ BackInTime
<1>1. Report(u, good) /\ hc' = hc /\ tick' = tick
  BY DEF ProbeEnds, Disconnect
<1>2. /\ flight \in [Target -> 0..MaxFlight] /\ conns \in [Target -> 0..MaxConns]
      /\ MaxFlight \in Nat /\ MaxConns \in Nat
  BY DownTypes, ConfigFacts DEF DownInv, TimersOK
<1>3. flight' \in [Target -> 0..MaxFlight] /\ conns' \in [Target -> 0..MaxConns]
  <2>1. CASE ProbeEnds(u, good)
    BY <1>2, <2>1 DEF ProbeEnds
  <2>2. CASE Disconnect(u, good)
    BY <1>2, <2>2 DEF Disconnect
  <2> QED
    BY <2>1, <2>2
<1>4. TimersOK'
  BY <1>1, <1>3 DEF DownInv, TimersOK
<1> QED
  BY <1>1, <1>4, ReportTypes DEF DownInv

LEMMA ConnectTypes ==
  ASSUME DownInv, NEW u \in Target, Connect(u)
  PROVE  DownInv' /\ BackInTime
<1>1. conns \in [Target -> 0..MaxConns] /\ MaxConns \in Nat
  BY DownTypes, ConfigFacts DEF DownInv, TimersOK
<1>2. conns[u] < MaxConns /\ conns' = [conns EXCEPT ![u] = @ + 1]
  BY DEF Connect
<1>3. conns' \in [Target -> 0..MaxConns]
  BY <1>1, <1>2
<1>4. TimersOK'
  BY <1>3 DEF DownInv, TimersOK, Connect
<1> QED
  BY <1>4 DEF DownInv, RecordsOK, ClockOK, BackInTime, Connect, records

LEMMA DownStutters ==
  ASSUME DownInv, UNCHANGED vars
  PROVE  DownInv' /\ BackInTime
BY DEF DownInv, TimersOK, RecordsOK, ClockOK, BackInTime, vars

LEMMA DownKeeps == DownInv /\ [HealthNext]_vars => DownInv' /\ BackInTime
<1> SUFFICES ASSUME DownInv, [HealthNext]_vars PROVE DownInv' /\ BackInTime
  OBVIOUS
<1>1. CASE Check
  BY <1>1, CheckTypes
<1>2. CASE ResetDown
  BY <1>2, ResetDownTypes
<1>3. ASSUME NEW t \in Target, Connect(t) PROVE DownInv' /\ BackInTime
  BY <1>3, ConnectTypes
<1>4. ASSUME NEW t \in Target, NEW good \in BOOLEAN,
             ProbeEnds(t, good) \/ Disconnect(t, good)
      PROVE  DownInv' /\ BackInTime
  BY <1>4, EndTypes
<1> QED
  BY <1>1, <1>2, <1>3, <1>4, DownStutters DEF HealthNext, Success, Failure

(* The records, timers and counters of the health check keep their types,    *)
(* and a target that is alive has errors left to make (health-check.js).     *)
THEOREM HealthTyped == HealthSpec => []HealthTypeOK
BY DownStarts, DownKeeps, DownTypes, PTL DEF HealthSpec

(* A target without active checks comes back after FailTimeout seconds and   *)
(* not before, unless it had a success, however often it was down before.    *)
THEOREM AlwaysDownLongEnough == HealthSpec => DownLongEnough
<1>1. DownInv /\ [HealthNext]_vars => [BackInTime]_vars
  BY DownKeeps
<1>2. HealthSpec => [][BackInTime]_vars
  BY <1>1, DownStarts, DownKeeps, PTL DEF HealthSpec
<1> QED
  BY <1>2 DEF DownLongEnough, BackInTime

----------------------------------------------------------------------------
(* The attempts of a request *)

\* The attempts that were at the disposal of the balancers before this one
Spent(q) == IF q.balancer = "failover" THEN NumRetries + 1 ELSE 0

\* A context and the number of its attempts
Bounded(q, n) ==
  /\ q \in Context /\ n \in Nat
  /\ q.spare => q.balancer = "target" /\ Backup # {}
  /\ q.balancer = "failover" => Backup # {}
  /\ CASE q.phase = "sent"    -> n <= Spent(q) + q.retries + 1 /\ q.target \in Target
       [] q.phase = "backoff" -> n <= Spent(q) + q.retries
       [] OTHER               -> n <= Limit

AttemptsInv ==
  /\ req \in [Request -> Context] /\ attempts \in [Request -> Nat]
  /\ \A r \in Request : Bounded(req[r], attempts[r])

LEMMA LimitFacts ==
  /\ Limit \in Nat /\ NumRetries + 1 <= Limit
  /\ Backup # {} => Limit = (NumRetries + 1) + (NumRetries + 1)
<1>1. NumRetries \in Nat
  BY ForwardAssumption DEF ForwardAssumption
<1>2. CASE Backup = {}
  BY <1>1, <1>2 DEF Limit
<1>3. CASE Backup # {}
  BY <1>1, <1>3 DEF Limit
<1> QED
  BY <1>2, <1>3

LEMMA BoundedByLimit ==
  ASSUME NEW q, NEW n, Bounded(q, n)
  PROVE  n <= Limit
<1>1. NumRetries \in Nat /\ q.retries \in 0..NumRetries /\ n \in Nat
  BY ForwardAssumption DEF ForwardAssumption, Bounded, Context
<1>2. CASE q.balancer = "failover"
  BY <1>1, <1>2, LimitFacts DEF Bounded, Spent
<1>3. CASE q.balancer # "failover"
  BY <1>1, <1>3, LimitFacts DEF Bounded, Spent
<1> QED
  BY <1>2, <1>3

\* Choosing a target touches nothing that the bound depends on
LEMMA ChosenFacts ==
  ASSUME NEW q \in Context, unavailable \in {None} \cup SUBSET Target, NEW c \in Chosen(q)
  PROVE  /\ c \in Context
         /\ c.spare = q.spare /\ c.balancer = q.balancer /\ c.retries = q.retries
<1>1. CASE ByCookie(q)
  <2>1. c = [q EXCEPT !.target = q.cookie, !.cookieId = None]
    BY <1>1 DEF Chosen
  <2> QED
    BY <2>1 DEF Context
<1>2. CASE ~ByCookie(q)
  <2>1. PICK t \in (IF Pool(q) = {} THEN {q.target} ELSE Pool(q)) :
               c = [q EXCEPT !.target = t, !.cookieId = CookieFor(q, t)]
    BY <1>2 DEF Chosen
  <2>2. t \in {None} \cup Target
    BY <2>1, ForwardAssumption DEF ForwardAssumption, Pool, Balanced, Context
  <2>3. CookieFor(q, t) \in {None} \cup Target
    BY <2>2 DEF CookieFor
  <2> QED
    BY <2>1, <2>2, <2>3 DEF Context
<1> QED
  BY <1>1, <1>2

\* Whatever shouldRetry() answers to a response, after an attempt or without one
LEMMA SettledKeeps ==
  ASSUME NEW q \in Context, NEW n \in Nat, NEW status,
         q.spare => q.balancer = "target" /\ Backup # {},
         q.balancer = "failover" => Backup # {},
         n <= Spent(q) + q.retries + 1
  PROVE  Bounded(Settled(Retried(q, status)), n)
<1> DEFINE s == Settled(Retried(q, status))
<1>0. NumRetries \in Nat /\ q.retries \in 0..NumRetries
  BY ForwardAssumption DEF ForwardAssumption, Context
<1>1. CASE MayRetry(q, status)
  <2>1. s = [[q EXCEPT !.retries = @ + 1, !.isRetry = TRUE] EXCEPT !.phase = "backoff"]
    BY <1>1 DEF Settled, Retried
  <2>2. q.retries < NumRetries
    BY <1>1 DEF MayRetry
  <2>3. q.retries + 1 \in 0..NumRetries
    BY <2>2, <1>0
  <2> HIDE DEF s
  <2>4. /\ s \in Context /\ s.phase = "backoff" /\ s.spare = q.spare
        /\ s.balancer = q.balancer /\ s.retries = q.retries + 1
    BY <2>1, <2>3 DEF Context
  <2>5. Spent(s) = Spent(q)
    BY <2>4 DEF Spent
  <2>6. n <= Spent(s) + s.retries
    BY <2>4, <2>5, <1>0 DEF Spent
  <2> QED
    BY <2>4, <2>6 DEF Bounded, s
<1>2. CASE ~MayRetry(q, status) /\ q.spare /\ status = "server"
  <2>1. s = [[Failover(q) EXCEPT !.retries = 0] EXCEPT !.phase = "backoff"]
    BY <1>2 DEF Settled, Retried
  <2> HIDE DEF s
  <2>2. /\ s \in Context /\ s.phase = "backoff" /\ ~s.spare
        /\ s.balancer = "failover" /\ s.retries = 0
    <3>1. 0 \in 0..NumRetries
      BY <1>0
    <3>2. s = [q EXCEPT !.balancer = "failover", !.spare = FALSE, !.isRetry = TRUE,
                        !.retries = 0, !.phase = "backoff"]
      BY <2>1 DEF Failover, Context
    <3> QED
      BY <3>1, <3>2 DEF Context
  <2>3. n <= Spent(s) + s.retries
    BY <2>2, <1>0, <1>2 DEF Spent
  <2> QED
    BY <1>2, <2>2, <2>3 DEF Bounded, s
<1>3. CASE ~MayRetry(q, status) /\ ~(q.spare /\ status = "server")
  <2>1. s = [q EXCEPT !.phase = "done"]
    BY <1>3 DEF Settled, Retried
  <2> HIDE DEF s
  <2>2. /\ s \in Context /\ s.phase = "done"
        /\ s.spare = q.spare /\ s.balancer = q.balancer
    BY <2>1 DEF Context
  <2>3. n <= Limit
    BY <1>0, LimitFacts DEF Spent
  <2> QED
    BY <2>2, <2>3 DEF Bounded, s
<1> QED
  BY <1>1, <1>2, <1>3

LEMMA UpstreamKeeps ==
  ASSUME AttemptsInv, unavailable \in {None} \cup SUBSET Target,
         NEW r \in Request, NEW q \in Context, NEW n \in Nat,
         q.spare => q.balancer = "target" /\ Backup # {},
         q.balancer = "failover" => Backup # {},
         n <= Spent(q) + q.retries,
         Upstream(r, q, n)
  PROVE  AttemptsInv'
<1>0. NumRetries \in Nat /\ q.retries \in 0..NumRetries /\ Limit \in Nat
  BY ForwardAssumption, LimitFacts DEF ForwardAssumption, Context
<1>1. PICK c \in Chosen(q) :
        /\ req' = [req EXCEPT ![r] = IF c.target # None THEN [c EXCEPT !.phase = "sent"]
                                     ELSE WithoutTarget(c)]
        /\ attempts' = [attempts EXCEPT ![r] = IF c.target # None
                                               THEN UpTo(n + 1, Limit + 1) ELSE n]
  BY DEF Upstream
<1>2. /\ c \in Context
      /\ c.spare = q.spare /\ c.balancer = q.balancer /\ c.retries = q.retries
  BY ChosenFacts
<1>3. Spent(c) = Spent(q)
  BY <1>2 DEF Spent
<1>4. Bounded(req'[r], attempts'[r])
  <2>1. CASE c.target # None
    <3>1. req'[r] = [c EXCEPT !.phase = "sent"] /\ attempts'[r] = UpTo(n + 1, Limit + 1)
      BY <1>1, <2>1 DEF AttemptsInv
    <3>2. UpTo(n + 1, Limit + 1) \in Nat /\ UpTo(n + 1, Limit + 1) <= n + 1
      BY <1>0 DEF UpTo
    <3>3. req'[r] \in Context /\ req'[r].target \in Target
      BY <3>1, <1>2, <2>1 DEF Context
    <3>4. Spent(req'[r]) = Spent(q) /\ Spent(q) \in Nat /\ req'[r].retries = q.retries
      BY <3>1, <1>2, <1>0 DEF Spent, Context
    <3>5. attempts'[r] <= Spent(req'[r]) + req'[r].retries + 1
      BY <3>1, <3>2, <3>4, <1>0
    <3>6. /\ req'[r].spare = q.spare /\ req'[r].balancer = q.balancer
          /\ req'[r].phase = "sent"
      BY <3>1, <1>2 DEF Context
    <3> QED
      BY <3>1, <3>2, <3>3, <3>5, <3>6 DEF Bounded
  <2>2. CASE c.target = None /\ c.spare
    <3>1. req'[r] = [Failover(c) EXCEPT !.phase = "backoff"] /\ attempts'[r] = n
      BY <1>1, <2>2 DEF AttemptsInv, WithoutTarget
    <3>2. /\ req'[r] \in Context /\ req'[r].balancer = "failover" /\ ~req'[r].spare
          /\ req'[r].phase = "backoff" /\ req'[r].retries = q.retries
      BY <3>1, <1>2 DEF Context, Failover
    <3>3. Spent(q) = 0 /\ Spent(req'[r]) = NumRetries + 1
      BY <3>2, <2>2, <1>2 DEF Spent
    <3>4. attempts'[r] <= Spent(req'[r]) + req'[r].retries
      BY <3>1, <3>2, <3>3, <1>0
    <3> QED
      BY <3>1, <3>2, <3>4, <2>2, <1>2 DEF Bounded
  <2>3. CASE c.target = None /\ ~c.spare
    <3>1. req'[r] = Settled(Retried(c, "server")) /\ attempts'[r] = n
      BY <1>1, <2>3 DEF AttemptsInv, WithoutTarget
    <3>2. n <= Spent(c) + c.retries + 1 /\ (c.balancer = "failover" => Backup # {})
      BY <1>0, <1>2, <1>3 DEF Spent
    <3> QED
      BY <3>1, <3>2, <2>3, <1>2, SettledKeeps
  <2> QED
    BY <2>1, <2>2, <2>3
<1>5. \A s \in Request \ {r} : req'[s] = req[s] /\ attempts'[s] = attempts[s]
  BY <1>1 DEF AttemptsInv
<1>6. req' \in [Request -> Context] /\ attempts' \in [Request -> Nat]
  <2> DEFINE new == IF c.target # None THEN [c EXCEPT !.phase = "sent"]
                    ELSE WithoutTarget(c)
             m == IF c.target # None THEN UpTo(n + 1, Limit + 1) ELSE n
  <2>1. req' = [req EXCEPT ![r] = new] /\ attempts' = [attempts EXCEPT ![r] = m]
    BY <1>1
  <2> HIDE DEF new, m
  <2>2. new \in Context /\ m \in Nat
    BY <2>1, <1>4 DEF AttemptsInv, Bounded
  <2> QED
    BY <2>1, <2>2 DEF AttemptsInv
<1> QED
  BY <1>4, <1>5, <1>6 DEF AttemptsInv, Bounded, Spent

LEMMA AnswerKeeps ==
  ASSUME AttemptsInv, NEW r \in Request, NEW status \in Status,
         NEW error \in {"none", "refused", "other"}, Answer(r, status, error)
  PROVE  AttemptsInv'
<1> DEFINE refused == error = "refused" \/ (error = "none" /\ req[r].refused)
           q       == [req[r] EXCEPT !.refused = refused]
           next    == Retried(q, status)
<1>1. /\ req[r].phase = "sent" /\ attempts' = attempts
      /\ req' = [req EXCEPT ![r] = Settled(next)]
  BY DEF Answer
<1>2. /\ Bounded(req[r], attempts[r]) /\ req[r] \in Context /\ attempts[r] \in Nat
      /\ attempts[r] <= Spent(req[r]) + req[r].retries + 1
      /\ req[r].retries \in 0..NumRetries
  BY <1>1 DEF AttemptsInv, Bounded, Context
<1>3. /\ q \in Context /\ q.spare = req[r].spare /\ q.balancer = req[r].balancer
      /\ q.retries = req[r].retries /\ Spent(q) = Spent(req[r])
  <2>1. refused \in BOOLEAN
    BY <1>2 DEF Context
  <2> QED
    BY <1>2, <2>1 DEF Context, Spent
<1>4. Bounded(req'[r], attempts[r])
  <2>1. req'[r] = Settled(Retried(q, status))
    BY <1>1 DEF AttemptsInv
  <2>2. /\ q.spare => q.balancer = "target" /\ Backup # {}
        /\ q.balancer = "failover" => Backup # {}
        /\ attempts[r] <= Spent(q) + q.retries + 1
    BY <1>2, <1>3 DEF Bounded
  <2> HIDE DEF q
  <2> QED
    BY <2>1, <2>2, <1>2, <1>3, SettledKeeps
<1>5. \A s \in Request \ {r} : req'[s] = req[s]
  BY <1>1 DEF AttemptsInv
<1>6. req' \in [Request -> Context]
  <2> DEFINE new == Settled(next)
  <2>1. req' = [req EXCEPT ![r] = new]
    BY <1>1
  <2> HIDE DEF new
  <2>2. new \in Context
    BY <2>1, <1>4 DEF AttemptsInv, Bounded
  <2> QED
    BY <2>1, <2>2 DEF AttemptsInv
<1> QED
  BY <1>1, <1>4, <1>5, <1>6 DEF AttemptsInv, Bounded, Spent

\* A new request has no attempts behind it
LEMMA FreshFacts ==
  ASSUME NEW cookie \in {None} \cup Target
  PROVE  /\ Fresh(cookie) \in Context /\ Fresh(cookie).phase = "idle"
         /\ Fresh(cookie).balancer = "target" /\ Fresh(cookie).retries = 0
         /\ Fresh(cookie).spare => Backup # {}
<1>1. 0 \in 0..NumRetries
  BY ForwardAssumption DEF ForwardAssumption
<1>2. (unavailable # None) \in BOOLEAN /\ (Backup # {}) \in BOOLEAN
  OBVIOUS
<1>3. PICK some \in BOOLEAN, spare \in BOOLEAN :
        /\ spare => Backup # {}
        /\ Fresh(cookie) =
             [phase |-> "idle", cache |-> some, balancer |-> "target", spare |-> spare,
              retries |-> 0, isRetry |-> FALSE, cookie |-> cookie,
              target |-> None, cookieId |-> None, refused |-> FALSE]
  BY <1>2, Zenon DEF Fresh
<1> QED
  BY <1>1, <1>3 DEF Context

----------------------------------------------------------------------------
(* Both together, under forwarded requests *)

ForwardInv == HealthInv /\ AttemptsInv

LEMMA ForwardStarts == ForwardInit => ForwardInv
<1> SUFFICES ASSUME ForwardInit PROVE ForwardInv
  OBVIOUS
<1>1. HealthInv
  BY HealthStarts DEF ForwardInit
<1>2. ASSUME NEW r \in Request PROVE Bounded(req[r], attempts[r])
  <2>1. req[r] = Fresh(None) /\ attempts[r] = 0
    BY DEF ForwardInit
  <2> QED
    BY <2>1, FreshFacts, LimitFacts DEF Bounded
<1>3. req \in [Request -> Context] /\ attempts \in [Request -> Nat]
  BY FreshFacts DEF ForwardInit
<1> QED
  BY <1>1, <1>2, <1>3 DEF ForwardInv, AttemptsInv

LEMMA ServeKeeps ==
  ASSUME ForwardInv, NEW r \in Request, Serve(r)
  PROVE  ForwardInv'
<1>0. unavailable \in {None} \cup SUBSET Target
  BY DEF ForwardInv, HealthInv
<1>1. ASSUME NEW cookie \in {None} \cup Target, Begin(r, cookie) PROVE ForwardInv'
  <2>1. AttemptsInv'
    <3>1. 0 <= Spent(Fresh(cookie)) + Fresh(cookie).retries
      BY FreshFacts DEF Spent
    <3> QED
      BY <1>0, <1>1, <3>1, FreshFacts, UpstreamKeeps DEF Begin, ForwardInv
  <2> QED
    BY <1>1, <2>1, RecordsKept DEF Begin, ForwardInv, vars, records
<1>2. CASE Again(r)
  <2>1. /\ req[r] \in Context /\ attempts[r] \in Nat
        /\ req[r].spare => req[r].balancer = "target" /\ Backup # {}
        /\ req[r].balancer = "failover" => Backup # {}
        /\ attempts[r] <= Spent(req[r]) + req[r].retries
    BY <1>2 DEF Again, ForwardInv, AttemptsInv, Bounded
  <2>2. AttemptsInv'
    BY <1>0, <1>2, <2>1, UpstreamKeeps DEF Again, ForwardInv
  <2> QED
    BY <1>2, <2>2, RecordsKept DEF Again, ForwardInv, vars, records
<1>3. ASSUME NEW status \in Status, NEW error \in {"none", "refused", "other"},
             Answer(r, status, error)
      PROVE  ForwardInv'
  <2>1. AttemptsInv'
    BY <1>3, AnswerKeeps DEF ForwardInv
  <2>2. req[r].target \in Target
    BY <1>3 DEF Answer, ForwardInv, AttemptsInv, Bounded
  <2>3. Fail(req[r].target) \/ UNCHANGED records
    BY <1>3 DEF Answer, ReportRefused
  <2>4. HealthInv'
    BY <2>2, <2>3, FailKeeps, RecordsKept DEF ForwardInv
  <2> QED
    BY <2>1, <2>4 DEF ForwardInv
<1> QED
  BY <1>1, <1>2, <1>3 DEF Serve

LEMMA ForwardKeeps == ForwardInv /\ [ForwardNext]_allVars => ForwardInv'
<1> SUFFICES ASSUME ForwardInv, [ForwardNext]_allVars PROVE ForwardInv'
  OBVIOUS
<1>1. CASE Health
  BY <1>1, HealthKeeps DEF Health, ForwardInv, AttemptsInv, Bounded, Spent
<1>2. ASSUME NEW r \in Request, Serve(r) PROVE ForwardInv'
  BY <1>2, ServeKeeps
<1>3. CASE UNCHANGED allVars
  BY <1>3, RecordsKept
  DEF allVars, vars, records, ForwardInv, AttemptsInv, Bounded, Spent
<1> QED
  BY <1>1, <1>2, <1>3 DEF ForwardNext

(* A request goes upstream at most NumRetries + 1 times for each of the two  *)
(* balancers, although shouldRetry() starts counting again at failover, and  *)
(* rounds without a target are replayed as well: at once by failover, which  *)
(* keeps the count, or for the 502 of http/default.js, which adds to it.     *)
THEOREM AttemptsAlwaysBounded == ForwardSpec => []AttemptsBounded
<1>1. ForwardInv => AttemptsBounded
  BY BoundedByLimit DEF ForwardInv, AttemptsInv, AttemptsBounded
<1> QED
  BY <1>1, ForwardStarts, ForwardKeeps, PTL DEF ForwardSpec

(* Forwarded requests, that report refused connections only, leave the cache *)
(* of the unavailable and the records in agreement too.                      *)
THEOREM UnavailableAlwaysDownForwarding == ForwardSpec => []UnavailableIsDown
<1>1. ForwardInv => UnavailableIsDown
  BY DEF ForwardInv, HealthInv
<1> QED
  BY <1>1, ForwardStarts, ForwardKeeps, PTL DEF ForwardSpec

----------------------------------------------------------------------------
(* Sticky cookies *)

\* The cookie that the client is left with names the target, whatever the phase
Follows(q) ==
  Sticky /\ q.target # None =>
    (IF q.cookieId = None THEN q.cookie ELSE q.cookieId) = q.target

FollowInv == \A r \in Request : Follows(req[r])

\* Whichever way a target is chosen, its cookie goes with it
LEMMA ChosenFollows ==
  ASSUME NEW q \in Context, NEW c \in Chosen(q)
  PROVE  Follows(c)
<1>1. CASE ByCookie(q)
  <2>1. c = [q EXCEPT !.target = q.cookie, !.cookieId = None]
    BY <1>1 DEF Chosen
  <2>2. c.target = q.cookie /\ c.cookieId = None /\ c.cookie = q.cookie
    BY <2>1 DEF Context
  <2> QED
    BY <2>2 DEF Follows
<1>2. CASE ~ByCookie(q)
  <2>1. PICK t : c = [q EXCEPT !.target = t, !.cookieId = CookieFor(q, t)]
    BY <1>2 DEF Chosen
  <2>2. c.target = t /\ c.cookieId = CookieFor(q, t)
    BY <2>1 DEF Context
  <2> QED
    BY <2>2 DEF Follows, CookieFor
<1> QED
  BY <1>1, <1>2

\* Contexts that differ in neither target nor cookies
LEMMA SameCookies ==
  ASSUME NEW q, NEW p, p.target = q.target, p.cookie = q.cookie, p.cookieId = q.cookieId,
         Follows(q)
  PROVE  Follows(p)
BY DEF Follows

\* shouldRetry() leaves target and cookies alone
LEMMA SettledCookies ==
  ASSUME NEW q \in Context, NEW status
  PROVE  LET s == Settled(Retried(q, status))
         IN s.target = q.target /\ s.cookie = q.cookie /\ s.cookieId = q.cookieId
<1> DEFINE next == Retried(q, status)
<1>1. /\ DOMAIN next.q = DOMAIN q
      /\ next.q.target = q.target /\ next.q.cookie = q.cookie /\ next.q.cookieId = q.cookieId
  <2>1. \/ next.q = q
        \/ next.q = [q EXCEPT !.retries = @ + 1, !.isRetry = TRUE]
        \/ next.q = [q EXCEPT !.balancer = "failover", !.spare = FALSE, !.isRetry = TRUE,
                              !.retries = 0]
    BY DEF Retried, Failover, Context
  <2> QED
    BY <2>1 DEF Context
<1> HIDE DEF next
<1>2. \A phase : LET s == [next.q EXCEPT !.phase = phase]
                 IN s.target = q.target /\ s.cookie = q.cookie /\ s.cookieId = q.cookieId
  BY <1>1 DEF Context
<1> QED
  BY <1>2 DEF Settled, next

LEMMA UpstreamFollows ==
  ASSUME AttemptsInv, FollowInv, unavailable \in {None} \cup SUBSET Target,
         NEW r \in Request, NEW q \in Context, NEW n, Upstream(r, q, n)
  PROVE  FollowInv'
<1>1. PICK c \in Chosen(q) :
        req' = [req EXCEPT ![r] = IF c.target # None THEN [c EXCEPT !.phase = "sent"]
                                  ELSE WithoutTarget(c)]
  BY DEF Upstream
<1>2. c \in Context /\ Follows(c)
  BY ChosenFacts, ChosenFollows
<1>3. req'[r] = IF c.target # None THEN [c EXCEPT !.phase = "sent"]
                ELSE WithoutTarget(c)
  BY <1>1 DEF AttemptsInv
<1>4. /\ req'[r].target = c.target /\ req'[r].cookie = c.cookie
      /\ req'[r].cookieId = c.cookieId
  <2>1. CASE c.target # None
    BY <1>2, <1>3, <2>1 DEF Context
  <2>2. CASE c.target = None /\ c.spare
    BY <1>2, <1>3, <2>2 DEF WithoutTarget, Failover, Context
  <2>3. CASE c.target = None /\ ~c.spare
    BY <1>2, <1>3, <2>3, SettledCookies DEF WithoutTarget
  <2> QED
    BY <2>1, <2>2, <2>3
<1>5. \A s \in Request \ {r} : req'[s] = req[s]
  BY <1>1 DEF AttemptsInv
<1> QED
  BY <1>2, <1>4, <1>5, SameCookies DEF FollowInv

LEMMA AnswerFollows ==
  ASSUME AttemptsInv, FollowInv, NEW r \in Request, NEW status \in Status,
         NEW error \in {"none", "refused", "other"}, Answer(r, status, error)
  PROVE  FollowInv'
<1> DEFINE refused == error = "refused" \/ (error = "none" /\ req[r].refused)
           q       == [req[r] EXCEPT !.refused = refused]
<1>1. req' = [req EXCEPT ![r] = Settled(Retried(q, status))]
  BY DEF Answer
<1>2. req[r] \in Context /\ Follows(req[r])
  BY DEF AttemptsInv, Bounded, FollowInv
<1>3. /\ q \in Context /\ q.target = req[r].target /\ q.cookie = req[r].cookie
      /\ q.cookieId = req[r].cookieId
  <2>1. refused \in BOOLEAN
    BY <1>2 DEF Context
  <2>2. q = [req[r] EXCEPT !.refused = refused]
    OBVIOUS
  <2> HIDE DEF refused, q
  <2> QED
    BY <1>2, <2>1, <2>2 DEF Context
<1> HIDE DEF q
<1>4. /\ req'[r].target = q.target /\ req'[r].cookie = q.cookie
      /\ req'[r].cookieId = q.cookieId
  BY <1>1, <1>3, SettledCookies DEF AttemptsInv
<1>5. \A s \in Request \ {r} : req'[s] = req[s]
  BY <1>1 DEF AttemptsInv
<1> QED
  BY <1>2, <1>3, <1>4, <1>5, SameCookies DEF FollowInv

LEMMA FollowKeeps ==
  ASSUME ForwardInv, FollowInv, [ForwardNext]_allVars
  PROVE  FollowInv'
<1>1. CASE Health \/ UNCHANGED allVars
  BY <1>1 DEF Health, allVars, FollowInv, Follows
<1>2. ASSUME NEW r \in Request, Serve(r) PROVE FollowInv'
  <2>0. unavailable \in {None} \cup SUBSET Target /\ AttemptsInv
    BY DEF ForwardInv, HealthInv
  <2>1. ASSUME NEW cookie \in {None} \cup Target, Begin(r, cookie) PROVE FollowInv'
    BY <2>0, <2>1, FreshFacts, UpstreamFollows DEF Begin
  <2>2. CASE Again(r)
    <3>1. req[r] \in Context
      BY <2>0 DEF AttemptsInv, Bounded
    <3> QED
      BY <2>0, <2>2, <3>1, UpstreamFollows DEF Again
  <2>3. ASSUME NEW status \in Status, NEW error \in {"none", "refused", "other"},
               Answer(r, status, error)
        PROVE  FollowInv'
    BY <2>0, <2>3, AnswerFollows
  <2> QED
    BY <1>2, <2>1, <2>2, <2>3 DEF Serve
<1> QED
  BY <1>1, <1>2 DEF ForwardNext

(* The client of a sticky service ends up with a cookie for the target that  *)
(* was asked last, through retries, failover and replays of rounds that      *)
(* found no target (forward.js).                                             *)
THEOREM CookieAlwaysNamesTarget == ForwardSpec => []CookieNamesTarget
<1>1. ForwardInit => FollowInv
  <2>1. \A cookie : Fresh(cookie).target = None
    BY DEF Fresh
  <2> QED
    BY <2>1 DEF ForwardInit, FollowInv, Follows
<1>2. FollowInv => CookieNamesTarget
  BY DEF FollowInv, Follows, CookieNamesTarget
<1> QED
  BY <1>1, <1>2, ForwardStarts, ForwardKeeps, FollowKeeps, PTL DEF ForwardSpec

----------------------------------------------------------------------------
(* Time-outs under forwarded requests *)

\* A request that is served reports failures only, and its outcomes
LEMMA ServeTypes ==
  ASSUME DownInv, ForwardInv, NEW r \in Request, Serve(r)
  PROVE  DownInv' /\ BackInTime
<1>1. CASE UNCHANGED vars
  BY <1>1, DownStutters
<1>2. ASSUME NEW status \in Status, NEW error \in {"none", "refused", "other"},
             Answer(r, status, error)
      PROVE  DownInv' /\ BackInTime
  <2>1. req[r].target \in Target
    BY <1>2 DEF Answer, ForwardInv, AttemptsInv, Bounded
  <2>2. /\ Succeeded(req[r].target) \/ Failed(req[r].target)
        /\ Fail(req[r].target) \/ UNCHANGED <<records, downFor>>
        /\ UNCHANGED <<hc, tick, flight, conns>>
    BY <1>2 DEF Answer, ReportRefused
  <2>3. streak' \in [Target -> 0..hc.maxFails]
    BY <2>1, <2>2, StreakTypes
  <2>4. RecordsOK' /\ ClockOK' /\ \A t \in Target : alive'[t] => alive[t]
    <3>1. CASE Fail(req[r].target)
      BY <2>1, <2>2, <2>3, <3>1, FailTypes
    <3>2. CASE UNCHANGED <<records, downFor>>
      BY <2>2, <2>3, <3>2 DEF DownInv, RecordsOK, ClockOK, records
    <3> QED
      BY <2>2, <3>1, <3>2
  <2>5. TimersOK'
    BY <2>2 DEF DownInv, TimersOK
  <2> QED
    BY <2>4, <2>5 DEF DownInv, BackInTime
<1> QED
  BY <1>1, <1>2 DEF Serve, Begin, Again

(* Whatever is forwarded and answered, the context of a request and the      *)
(* records of the targets keep their types: retries are never counted beyond *)
(* NumRetries and no cookie names what is no target (forward.js).            *)
THEOREM ForwardTypeCorrect == ForwardSpec => []ForwardTypeOK
<1>1. ForwardInit => DownInv
  BY DownStarts DEF ForwardInit
<1>2. DownInv /\ ForwardInv /\ [ForwardNext]_allVars => DownInv'
  BY DownKeeps, ServeTypes, DownStutters DEF ForwardNext, Health, allVars
<1>3. DownInv /\ ForwardInv => ForwardTypeOK
  <2> SUFFICES ASSUME DownInv, ForwardInv PROVE ForwardTypeOK
    OBVIOUS
  <2>1. HealthTypeOK
    BY DownTypes
  <2>2. ASSUME NEW r \in Request PROVE attempts[r] \in 0..(Limit + 1)
    <3>1. attempts[r] <= Limit /\ attempts[r] \in Nat /\ Limit \in Nat
      BY BoundedByLimit, LimitFacts DEF ForwardInv, AttemptsInv
    <3> QED
      BY <3>1
  <2> QED
    BY <2>1, <2>2 DEF ForwardTypeOK, ForwardInv, AttemptsInv
<1> QED
  BY <1>1, <1>2, <1>3, ForwardStarts, ForwardKeeps, PTL DEF ForwardSpec

(* Forwarded requests, whose failures are reported at any time, bring no     *)
(* target back early either.                                                 *)
THEOREM AlwaysDownLongEnoughForwarding == ForwardSpec => DownLongEnough
<1>1. ForwardInit => DownInv
  BY DownStarts DEF ForwardInit
<1>2. ASSUME DownInv, ForwardInv, [ForwardNext]_allVars
      PROVE  DownInv' /\ BackInTime
  BY <1>2, DownKeeps, ServeTypes, DownStutters DEF ForwardNext, Health, allVars
<1>3. DownInv /\ ForwardInv /\ [ForwardNext]_allVars => DownInv' /\ [BackInTime]_vars
  BY <1>2
<1>4. ForwardSpec => [][BackInTime]_vars
  BY <1>1, <1>3, ForwardStarts, ForwardKeeps, PTL DEF ForwardSpec
<1> QED
  BY <1>4 DEF DownLongEnough, BackInTime

----------------------------------------------------------------------------
(* The circuit breaker *)


(* A closed breaker has no delay left over, and an open one counts it from  *)
(* the moment it opened: without this it could close early.                 *)
DelayCounts == IF degraded THEN openFor = delay ELSE delay = 0 /\ openFor = 0

BreakerInv == BreakerTypeOK /\ ShareAtMostOne /\ DelayCounts

LEMMA Numbers ==
  /\ StatTimeWindow \in Nat /\ DegradedTimeWindow \in Nat /\ MaxTotal \in Nat
  /\ \A c \in Cause : Full(c) \in Nat
<1>1. \A c \in Cause : AmountThreshold[c] \in Nat
  BY BreakerAssumption DEF BreakerAssumption
<1> QED
  BY <1>1, BreakerAssumption DEF BreakerAssumption, Full

LEMMA BreakerStarts == BreakerInit => BreakerInv
<1> SUFFICES ASSUME BreakerInit PROVE BreakerInv
  OBVIOUS
<1>1. quota \in [Cause -> Nat] /\ amount \in [Cause -> Nat]
  BY Numbers DEF BreakerInit
<1>2. ShareAtMostOne /\ DelayCounts
  BY DEF BreakerInit, ShareAtMostOne, DelayCounts
<1>3. second \in 0..StatTimeWindow /\ delay \in 0..DegradedTimeWindow /\ total \in 0..MaxTotal
  BY Numbers DEF BreakerInit
<1>4. openFor \in Nat /\ degraded \in BOOLEAN /\ underway \subseteq Caller
  BY DEF BreakerInit
<1> QED
  BY <1>1, <1>2, <1>3, <1>4 DEF BreakerInv, BreakerTypeOK

LEMMA AdmitKeeps ==
  ASSUME BreakerInv, NEW r \in Caller, Admit(r)
  PROVE  BreakerInv'
BY Numbers DEF Admit, BreakerInv, BreakerTypeOK, ShareAtMostOne, DelayCounts

LEMMA AbortKeeps ==
  ASSUME BreakerInv, NEW r \in Caller, Abort(r)
  PROVE  BreakerInv'
BY DEF Abort, BreakerInv, BreakerTypeOK, ShareAtMostOne, DelayCounts

LEMMA AnswersKeep ==
  ASSUME BreakerInv, NEW r \in Caller, NEW causes \in SUBSET Cause, Answers(r, causes)
  PROVE  BreakerInv'
<1>1. \A c \in Cause : Counted(c) \in Nat /\ Counted(c) <= total
  BY Numbers DEF Counted, BreakerInv, BreakerTypeOK, ShareAtMostOne
<1>2. /\ amount' \in [Cause -> Nat] /\ \A c \in Cause : amount'[c] <= total
      /\ quota' \in [Cause -> Nat] /\ underway' \subseteq Caller
      /\ UNCHANGED <<second, delay, total, openFor>>
  BY <1>1 DEF Answers, BreakerInv, BreakerTypeOK, ShareAtMostOne
<1> DEFINE opens == \E c \in {d \in causes : Enabled(d)} : ByAmount(c) \/ ByRatio(c)
<1>3. degraded' = (degraded \/ opens)
  BY DEF Answers
<1> HIDE DEF opens
<1>4. degraded' \in BOOLEAN /\ DelayCounts'
  <2>1. CASE degraded
    BY <2>1, <1>2, <1>3 DEF BreakerInv, DelayCounts
  <2>2. CASE ~degraded
    BY <2>2, <1>2, <1>3 DEF BreakerInv, DelayCounts
  <2> QED
    BY <2>1, <2>2
<1> QED
  BY <1>2, <1>4 DEF BreakerInv, BreakerTypeOK, ShareAtMostOne

LEMMA TimerKeeps ==
  ASSUME BreakerInv, RefreshTimer
  PROVE  BreakerInv'
<1>1. CASE StayOpen
  BY <1>1, Numbers
  DEF RefreshTimer, StayOpen, Over, BreakerInv, BreakerTypeOK, ShareAtMostOne, DelayCounts
<1>2. ASSUME Clean PROVE total' = 0 /\ amount' \in [Cause -> Nat] /\ ShareAtMostOne'
  BY <1>2 DEF Clean, ShareAtMostOne
<1>3. \A t \in 0..StatTimeWindow : Ticked(t) \in 0..StatTimeWindow
  BY Numbers DEF Ticked
<1>4. CASE Close
  <2>1. second' \in 0..StatTimeWindow
    BY <1>3, <1>4, Numbers DEF Close
  <2>2. /\ total' = 0 /\ amount' \in [Cause -> Nat] /\ ShareAtMostOne'
        /\ degraded' = FALSE /\ delay' = 0 /\ openFor' = 0 /\ UNCHANGED <<quota, underway>>
    BY <1>2, <1>4 DEF RefreshTimer, Close, DelayReset
  <2>3. DelayCounts'
    BY <2>2 DEF DelayCounts
  <2>4. /\ delay' \in 0..DegradedTimeWindow /\ total' \in 0..MaxTotal /\ openFor' \in Nat
    BY <2>2, Numbers
  <2>5. degraded' \in BOOLEAN
    BY <2>2
  <2>6. quota' \in [Cause -> Nat] /\ underway' \subseteq Caller
    BY <2>2 DEF BreakerInv, BreakerTypeOK
  <2> QED
    BY <2>1, <2>2, <2>3, <2>4, <2>5, <2>6 DEF BreakerInv, BreakerTypeOK
<1>5. CASE Count
  <2>1. second' \in 0..StatTimeWindow
    BY <1>3, <1>5 DEF Count, BreakerInv, BreakerTypeOK
  <2>2. total' \in 0..MaxTotal /\ amount' \in [Cause -> Nat] /\ ShareAtMostOne'
    BY <1>2, <1>5, Numbers DEF Count, BreakerInv, BreakerTypeOK, ShareAtMostOne
  <2> QED
    BY <1>5, <2>1, <2>2 DEF RefreshTimer, Count, BreakerInv, BreakerTypeOK, DelayCounts
<1> QED
  BY <1>1, <1>4, <1>5 DEF RefreshTimer

LEMMA BreakerKeeps == BreakerInv /\ [BreakerNext]_breakerVars => BreakerInv'
<1> SUFFICES ASSUME BreakerInv, [BreakerNext]_breakerVars PROVE BreakerInv'
  OBVIOUS
<1>1. ASSUME NEW c \in Cause, Refill(c) PROVE BreakerInv'
  BY <1>1, Numbers DEF Refill, BreakerInv, BreakerTypeOK, ShareAtMostOne, DelayCounts
<1>2. CASE UNCHANGED breakerVars
  BY <1>2 DEF breakerVars, BreakerInv, BreakerTypeOK, ShareAtMostOne, DelayCounts
<1> QED
  BY <1>1, <1>2, AdmitKeeps, AbortKeeps, AnswersKeep, TimerKeeps DEF BreakerNext

(* The counters stay within their windows (circuit-breaker.js:50-100).      *)
THEOREM BreakerTypeCorrect == BreakerSpec => []BreakerTypeOK
<1> QED
  BY BreakerStarts, BreakerKeeps, PTL DEF BreakerSpec, BreakerInv

(* No more failures are counted in a window than it has requests, however   *)
(* many answers to requests of former windows come in.                      *)
THEOREM ShareAlwaysAtMostOne == BreakerSpec => []ShareAtMostOne
<1> QED
  BY BreakerStarts, BreakerKeeps, PTL DEF BreakerSpec, BreakerInv

(* An open breaker stays open for DegradedTimeWindow, each time.            *)
THEOREM AlwaysOpenLongEnough == BreakerSpec => OpenLongEnough
<1>1. ASSUME BreakerInv, [BreakerNext]_breakerVars, degraded, ~degraded'
      PROVE  openFor >= DegradedTimeWindow
  <2>1. CASE Close
    BY <1>1, <2>1, Numbers DEF Close, Over, BreakerInv, BreakerTypeOK, DelayCounts
  <2> QED
    BY <1>1, <2>1 DEF BreakerNext, breakerVars, Admit, Abort, Answers, RefreshTimer, StayOpen,
                      Count, Refill
<1>2. BreakerInv /\ [BreakerNext]_breakerVars
        => [degraded /\ ~degraded' => openFor >= DegradedTimeWindow]_breakerVars
  BY <1>1
<1> QED
  BY <1>2, BreakerStarts, BreakerKeeps, PTL DEF BreakerSpec, OpenLongEnough
=============================================================================
