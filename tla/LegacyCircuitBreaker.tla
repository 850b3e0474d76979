----------------------- MODULE LegacyCircuitBreaker ------------------------
(***************************************************************************)
(* The circuit breaker of one service in the legacy gateway                *)
(* (pjs/http/circuit-breaker.js).                                          *)
(*                                                                         *)
(* It opens on an amount of failed or slow requests, counted by a quota    *)
(* that fills up by itself, or on their share of all requests of the       *)
(* statistics window.  A task counts the seconds of the window, or those   *)
(* since it opened, and starts a clean window when either is over, while   *)
(* requests of the former one may still be under way.                      *)
(*                                                                         *)
(* The quota is native.  That it fills up once in StatTimeWindow is not    *)
(* tied to the ticks here: it may at any time.                             *)
(***************************************************************************)
EXTENDS Naturals

CONSTANTS Caller,
          MinRequestAmount, StatTimeWindow, DegradedTimeWindow,
          AmountThreshold,  \* [Cause -> Nat], 0 when there is none
          RatioThreshold,   \* [Cause -> [num, den]], a num of 0 when there is none
          MaxTotal          \* bound: requests in one window

Cause == {"error", "slow"}

ASSUME BreakerAssumption ==
  /\ MinRequestAmount \in Nat \ {0} /\ StatTimeWindow \in Nat /\ DegradedTimeWindow \in Nat
  /\ AmountThreshold \in [Cause -> Nat] /\ MaxTotal \in Nat
  /\ RatioThreshold \in [Cause -> [num : Nat, den : Nat \ {0}]]

VARIABLES
  second, delay,  \* seconds of the window, and since the breaker opened
  total,        \* requests let through in the window
  amount,       \* errorAmount and slowAmount
  quota,        \* what is left of errorQuota and slowQuota
  degraded,     \* the breaker is open
  underway,     \* requests let through and not answered
  openFor       \* history: ticks since the breaker opened

breakerVars == <<second, delay, total, amount, quota, degraded, underway, openFor>>

\* The counters have their types.
BreakerTypeOK ==
  /\ second \in 0..StatTimeWindow /\ delay \in 0..DegradedTimeWindow
  /\ total \in 0..MaxTotal /\ amount \in [Cause -> Nat] /\ openFor \in Nat
  /\ quota \in [Cause -> Nat] /\ degraded \in BOOLEAN /\ underway \subseteq Caller

Enabled(c) == AmountThreshold[c] > 0 \/ RatioThreshold[c].num > 0
Full(c)    == IF AmountThreshold[c] > 0 THEN AmountThreshold[c] - 1 ELSE 0

----------------------------------------------------------------------------
(* Requests *)

Admit(r) ==
  /\ ~degraded /\ r \notin underway /\ total < MaxTotal
  /\ total' = total + 1 /\ underway' = underway \cup {r}
  /\ UNCHANGED <<second, delay, amount, quota, degraded, openFor>>

\* Mutant: a late answer of a former window counts in any case
CountedAlways(c) == amount[c] + 1

\* (errorAmount < total) && ++errorAmount
Counted(c) == IF amount[c] < total THEN amount[c] + 1 ELSE amount[c]

ByAmount(c) == AmountThreshold[c] > 0 /\ quota[c] = 0

ByRatio(c) ==
  /\ RatioThreshold[c].num > 0 /\ total >= MinRequestAmount
  /\ Counted(c) * RatioThreshold[c].den >= RatioThreshold[c].num * total

\* checkError() and checkSlow() for an answer with these causes of complaint; an open
\* breaker goes on counting
Answers(r, causes) ==
  /\ r \in underway /\ underway' = underway \ {r}
  /\ LET counting == {c \in causes : Enabled(c)} IN
     /\ amount' = [c \in Cause |-> IF c \in counting THEN Counted(c) ELSE amount[c]]
     /\ quota' = [c \in Cause |-> IF c \in counting /\ quota[c] > 0 THEN quota[c] - 1
                                                                     ELSE quota[c]]
     /\ degraded' = (degraded \/ \E c \in counting : ByAmount(c) \/ ByRatio(c))
  /\ UNCHANGED <<second, delay, total, openFor>>

\* The request goes away without an answer
Abort(r) ==
  /\ r \in underway /\ underway' = underway \ {r}
  /\ UNCHANGED <<second, delay, total, amount, quota, degraded, openFor>>

----------------------------------------------------------------------------
(* refreshTimer(), and the refill of the quotas *)

\* Mutant: the seconds since it opened are kept for the next time
DelayKept(d) == d

DelayReset(d) == 0

Over == delay + 1 > DegradedTimeWindow

Clean     == total' = 0 /\ amount' = [c \in Cause |-> 0]
Ticked(t) == IF t + 1 > StatTimeWindow THEN 0 ELSE t + 1

StayOpen ==
  /\ degraded /\ ~Over /\ delay' = delay + 1 /\ openFor' = openFor + 1
  /\ UNCHANGED <<second, total, amount, degraded>>

\* The tick that closes the breaker counts for its new window too
Close ==
  /\ degraded /\ Over /\ degraded' = FALSE /\ Clean
  /\ delay' = DelayReset(delay + 1) /\ second' = Ticked(0) /\ openFor' = 0

Count ==
  /\ ~degraded /\ second' = Ticked(second)
  /\ IF second' = 0 THEN Clean ELSE UNCHANGED <<total, amount>>
  /\ UNCHANGED <<delay, degraded, openFor>>

RefreshTimer == (StayOpen \/ Close \/ Count) /\ UNCHANGED <<quota, underway>>

Refill(c) ==
  /\ quota[c] < Full(c) /\ quota' = [quota EXCEPT ![c] = Full(c)]
  /\ UNCHANGED <<second, delay, total, amount, degraded, underway, openFor>>

BreakerInit ==
  /\ second = 0 /\ delay = 0 /\ total = 0 /\ amount = [c \in Cause |-> 0]
  /\ quota = [c \in Cause |-> Full(c)] /\ degraded = FALSE /\ underway = {} /\ openFor = 0

BreakerNext ==
  \/ \E r \in Caller : Admit(r) \/ Abort(r) \/ \E causes \in SUBSET Cause : Answers(r, causes)
  \/ RefreshTimer \/ \E c \in Cause : Refill(c)

\* The task runs every second
BreakerSpec == BreakerInit /\ [][BreakerNext]_breakerVars /\ WF_breakerVars(RefreshTimer)
----------------------------------------------------------------------------
(* Properties *)

\* However many answers to requests of former windows come in, no more failures and slow
\* requests are counted in a window than it has requests: a share is never above one.
ShareAtMostOne == \A c \in Cause : amount[c] <= total

\* An open breaker stays open for DegradedTimeWindow, also the second time.
OpenLongEnough == [][degraded /\ ~degraded' => openFor >= DegradedTimeWindow]_breakerVars
=============================================================================
