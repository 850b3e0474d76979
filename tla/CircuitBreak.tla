----------------------------- MODULE CircuitBreak --------------------------
(***************************************************************************)
(* The circuit breaker of the new gateway (filters/http/CircuitBreak.js):  *)
(* five numbers in a map that all threads share.  Each call on the map is  *)
(* atomic, check() is a row of them, and checks of different threads mix.  *)
(* Two requests never share a thread here.                                 *)
(*                                                                         *)
(* Times are kept as distances from now: what is left until brokenBefore,  *)
(* and the age of start, up to CheckInterval.                              *)
(***************************************************************************)
EXTENDS Integers, FiniteSets

CONSTANTS Caller,                       \* requests
          ConcurrencyThreshold, ErrorCountThreshold,
          RatioNum, RatioDen,           \* errorRatioThreshold
          CheckInterval, BreakInterval,
          MaxStat,                      \* bound: answers counted in one window
          MaxAborted                    \* bound: requests that go away unanswered

ASSUME BreakAssumption ==
  /\ IsFiniteSet(Caller)
  /\ ConcurrencyThreshold \in Nat /\ ErrorCountThreshold \in Nat
  /\ RatioNum \in Nat /\ RatioDen \in Nat \ {0}
  /\ CheckInterval \in Nat \ {0} /\ BreakInterval \in Nat \ {0}
  /\ MaxStat \in Nat /\ MaxAborted \in Nat

VARIABLES
  broken,       \* time left until brokenBefore
  start,        \* age of the window, or NoStart
  concurrency, stat,    \* the shared map: concurrency, and total and error
  step,         \* where a request is: outside, passed, or at which call of its check
  local,        \* what its check has read: total, error and concurrency
  aborted,      \* history: requests that went away unanswered
  strangers,    \* history: requests counted before the filter was last built, and
                \* requests gone by then
  slowSince,    \* history: slow answers since the last trip, up to ErrorCountThreshold
  overlaps      \* history: requests whose check may have read what a trip left to clear

history   == <<aborted, strangers, slowSince, overlaps>>
breakVars == <<broken, start, concurrency, stat, step, local, history>>

NoStart == -1
Zero    == [total |-> 0, error |-> 0]
NoneRead == [total |-> 0, error |-> 0, concurrency |-> 0]

Checking == {c \in Caller : step[c] \notin {"outside", "passed"}}
Tripping == {c \in Caller : step[c] \in {"tripTotal", "tripError"}}

Goto(c, to) == step' = [step EXCEPT ![c] = to]

----------------------------------------------------------------------------
(* Requests *)

\* isBroken(): a request that is denied leaves no trace
Pass(c) ==
  /\ step[c] = "outside" /\ broken = 0
  /\ concurrency' = concurrency + 1 /\ Goto(c, "passed")
  /\ UNCHANGED <<broken, start, stat, local, history>>

\* The request goes away without a response: nothing is subtracted
GoAway(c) ==
  /\ step[c] = "passed" /\ aborted < MaxAborted
  /\ aborted' = aborted + 1 /\ Goto(c, "outside")
  /\ UNCHANGED <<broken, start, concurrency, stat, local, strangers, slowSince, overlaps>>

Reply(c) ==
  /\ step[c] = "passed" /\ concurrency' = concurrency - 1 /\ Goto(c, "total")
  /\ overlaps' = IF Tripping # {} THEN overlaps \cup {c} ELSE overlaps \ {c}
  /\ UNCHANGED <<broken, start, stat, local, aborted, strangers, slowSince>>

----------------------------------------------------------------------------
(* check() *)

AddTotal(c) ==
  /\ step[c] = "total" /\ stat.total < MaxStat
  /\ stat' = [stat EXCEPT !.total = @ + 1]
  /\ local' = [local EXCEPT ![c].total = stat.total + 1] /\ Goto(c, "error")
  /\ UNCHANGED <<broken, start, concurrency, history>>

AddError(c, slow) ==
  /\ step[c] = "error"
  /\ LET error == IF slow THEN stat.error + 1 ELSE stat.error IN
     /\ stat' = [stat EXCEPT !.error = error]
     /\ local' = [local EXCEPT ![c].error = error, ![c].concurrency = concurrency]
  /\ slowSince' = IF slow /\ slowSince < ErrorCountThreshold THEN slowSince + 1
                                                                 ELSE slowSince
  /\ Goto(c, "judge")
  /\ UNCHANGED <<broken, start, concurrency, aborted, strangers, overlaps>>

Trips(c) ==
  /\ local[c].total > 0
  /\ local[c].concurrency >= ConcurrencyThreshold
  /\ local[c].error >= ErrorCountThreshold
  /\ local[c].error * RatioDen >= RatioNum * local[c].total

\* brokenBefore and start are set; the totals are cleared next.  A check that is under
\* way now may have read the old ones.
Trip(c) ==
  /\ step[c] = "judge" /\ Trips(c)
  /\ broken' = BreakInterval /\ start' = NoStart /\ Goto(c, "tripTotal")
  /\ overlaps' = overlaps \cup Checking /\ slowSince' = 0
  /\ UNCHANGED <<concurrency, stat, local, aborted, strangers>>

\* Each check begins the window anew, so that it is over only when none came for so long
Judge(c) ==
  /\ step[c] = "judge" /\ ~Trips(c)
  /\ start' = 0 /\ Goto(c, IF start >= CheckInterval THEN "clearTotal" ELSE "outside")
  /\ local' = [local EXCEPT ![c] = NoneRead]
  /\ UNCHANGED <<broken, concurrency, stat, history>>

ClearTotal(c) ==
  /\ step[c] \in {"tripTotal", "clearTotal"} /\ stat' = [stat EXCEPT !.total = 0]
  /\ Goto(c, IF step[c] = "tripTotal" THEN "tripError" ELSE "clearError")
  /\ UNCHANGED <<broken, start, concurrency, local, history>>

\* Mutant: only the total is cleared
KeepError(error) == error

Cleared(error) == 0

ClearError(c) ==
  /\ step[c] \in {"tripError", "clearError"}
  /\ stat' = [stat EXCEPT !.error = Cleared(@)] /\ Goto(c, "outside")
  /\ local' = [local EXCEPT ![c] = NoneRead]
  /\ UNCHANGED <<broken, start, concurrency, history>>

----------------------------------------------------------------------------

Elapse ==
  /\ broken' = (IF broken > 0 THEN broken - 1 ELSE 0)
  /\ start' = (IF start \in 0..CheckInterval - 1 THEN start + 1 ELSE start)
  /\ UNCHANGED <<concurrency, stat, step, local, history>>

Passed == {c \in Caller : step[c] = "passed"}

\* Mutant: what is under way when the filter is built anew stays counted
KeepConcurrency == concurrency

Forgotten == 0

\* Whoever builds the filter, for a new router or on another thread, begins at zero
Rebuild ==
  /\ broken' = 0 /\ start' = NoStart /\ concurrency' = Forgotten /\ stat' = Zero
  /\ strangers' = Cardinality(Passed) + aborted
  /\ slowSince' = 0 /\ overlaps' = overlaps \cup Checking
  /\ UNCHANGED <<step, local, aborted>>

BreakInit ==
  /\ broken = 0 /\ start = NoStart /\ concurrency = 0 /\ stat = Zero
  /\ step = [c \in Caller |-> "outside"] /\ local = [c \in Caller |-> NoneRead]
  /\ aborted = 0 /\ strangers = 0 /\ slowSince = 0 /\ overlaps = {}

BreakNext ==
  \/ \E c \in Caller : \/ Pass(c) \/ GoAway(c) \/ Reply(c) \/ AddTotal(c)
                       \/ \E slow \in BOOLEAN : AddError(c, slow)
                       \/ Trip(c) \/ Judge(c) \/ ClearTotal(c) \/ ClearError(c)
  \/ Elapse \/ Rebuild

BreakSpec == BreakInit /\ [][BreakNext]_breakVars
----------------------------------------------------------------------------
(* Properties *)

\* The load a breaker is tripped by is that of the requests under way, but for the ones
\* that went away unanswered, which count for ever, and those the filter was built over,
\* which are subtracted without having been added.
LoadDrifts == concurrency = Cardinality(Passed) + aborted - strangers

\* However the checks of several threads mix, a breaker that has tripped takes as many
\* slow answers again to trip once more, unless the check was begun before the totals
\* of the former trip were cleared.
TripNeedsErrors ==
  [][\A c \in Caller \ overlaps : Trip(c) => slowSince >= ErrorCountThreshold]_breakVars
============================================================================
