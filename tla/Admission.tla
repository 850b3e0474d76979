------------------------------ MODULE Admission ----------------------------
(***************************************************************************)
(* Three filters that let a limited number of streams in and turn the      *)
(* others away, each with an account of its own way of counting:           *)
(*   "concurrency"  filters/tcp/ConcurrencyLimit.js, connections: a quota  *)
(*                  is drawn on at the start and paid back at the end;     *)
(*   "rate"         filters/http/RateLimit.js, requests: the backlog quota *)
(*                  is paid back when the response starts, and only then;  *)
(*   "throttle"     pjs/http/throttle-route.js and throttle-domain.js,     *)
(*                  requests: a counter goes up with the request and down  *)
(*                  with its response or at the end of the stream.         *)
(*                                                                         *)
(* Quota.consume is atomic, and a keyed quota is one for all threads.  The *)
(* counter of a throttle belongs to its thread, which goes from the test   *)
(* in .branch() to the increment without a break.                          *)
(***************************************************************************)
EXTENDS Naturals, FiniteSets

CONSTANTS Stream,
          Limit      \* maxConnections, backlog, Backlog: zero stands for no limit

ASSUME AdmissionAssumption == Limit \in Nat \ {0} /\ IsFiniteSet(Stream)

VARIABLES
  filter,    \* the filter at work
  left,      \* what is left of the quota of "concurrency" or "rate"
  count,     \* _rateLimit.count of "throttle"
  stream     \* where a stream is

admissionVars == <<filter, left, count, stream>>

Filter == {"concurrency", "rate", "throttle"}
\* "lost" is a request of "rate" that went away before its response and left its
\* place taken; the stream does not come back
Where == {"away", "inside", "answered", "refused", "lost"}

In(places) == {s \in Stream : stream[s] \in places}

Move(s, to) == stream' = [stream EXCEPT ![s] = to] /\ UNCHANGED filter

----------------------------------------------------------------------------
(* "concurrency" and "rate" *)

Draw(s) ==
  /\ filter # "throttle" /\ stream[s] = "away" /\ left > 0
  /\ left' = left - 1 /\ Move(s, "inside") /\ UNCHANGED count

TurnAway(s) ==
  /\ filter # "throttle" /\ stream[s] = "away" /\ left = 0
  /\ Move(s, "refused") /\ UNCHANGED <<left, count>>

\* Mutant: a connection that was rejected gives a place back too
PayBackAlways(s) == 1

\* onEnd of a connection: if (!$rejected)
PayBack(s) == IF stream[s] = "inside" THEN 1 ELSE 0

Disconnect(s) ==
  /\ filter = "concurrency" /\ stream[s] \in {"inside", "refused"}
  /\ left' = left + PayBack(s) /\ Move(s, "away") /\ UNCHANGED count

\* The response starts
RateRespond(s) ==
  /\ filter = "rate" /\ stream[s] = "inside"
  /\ left' = left + 1 /\ Move(s, "answered") /\ UNCHANGED count

\* Nothing is done when the stream ends
Finish(s) ==
  /\ filter = "rate" /\ stream[s] \in {"inside", "answered", "refused"}
  /\ Move(s, IF stream[s] = "inside" THEN "lost" ELSE "away") /\ UNCHANGED <<left, count>>

----------------------------------------------------------------------------
(* "throttle" *)

Full == count > Limit

Queue(s) ==
  /\ filter = "throttle" /\ stream[s] = "away" /\ ~Full
  /\ count' = count + 1 /\ Move(s, "inside") /\ UNCHANGED left

Overflow(s) ==
  /\ filter = "throttle" /\ stream[s] = "away" /\ Full
  /\ Move(s, "refused") /\ UNCHANGED <<left, count>>

Answered(s) ==
  /\ filter = "throttle" /\ stream[s] = "inside"
  /\ count' = count - 1 /\ Move(s, "answered") /\ UNCHANGED left

\* _localWaitCounter.n
Owed(s) == IF stream[s] = "inside" THEN 1 ELSE 0

Hangup(s) ==
  /\ filter = "throttle" /\ stream[s] \in {"inside", "answered", "refused"}
  /\ count' = count - Owed(s) /\ Move(s, "away") /\ UNCHANGED left

----------------------------------------------------------------------------

AdmissionInit ==
  /\ filter \in Filter /\ left = (IF filter = "throttle" THEN 0 ELSE Limit)
  /\ count = 0 /\ stream = [s \in Stream |-> "away"]

AdmissionNext == \E s \in Stream :
  \/ Draw(s) \/ TurnAway(s) \/ Disconnect(s) \/ RateRespond(s) \/ Finish(s)
  \/ Queue(s) \/ Overflow(s) \/ Answered(s) \/ Hangup(s)

AdmissionSpec == AdmissionInit /\ [][AdmissionNext]_admissionVars
----------------------------------------------------------------------------
(* Properties *)

\* The throttle has one place more than Backlog says, as it compares before it counts.
Room == IF filter = "throttle" THEN Limit + 1 ELSE Limit

Promise == INSTANCE Places WITH capacity <- Room, holders <- In({"inside", "lost"}),
                                refused <- In({"refused"})

\* Each filter keeps the promise of Places: never more streams inside than there is
\* room, nobody refused while there is, and no place given back twice or by a stream that
\* had none.  For "rate" the holders include the requests that went away unanswered.
KeepsPlaces == Promise!Spec
============================================================================
