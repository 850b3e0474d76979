--------------------------- MODULE Filters_proofs --------------------------
(* Proofs about the filters that let a limited number of streams in, the    *)
(* circuit breaker of the new gateway, and retries and sessions of a rule.  *)
EXTENDS Admission, CircuitBreak, HttpRule, FiniteSetTheorems, TLAPS

----------------------------------------------------------------------------
(* Admission implements Places *)

Holders == In({"inside", "lost"})
Refused == In({"refused"})

(* What is left of a quota are the places that nobody holds, and a throttle *)
(* counts its holders.                                                      *)
AdmissionInv ==
  /\ filter \in Filter /\ left \in Nat /\ count \in Nat /\ stream \in [Stream -> Where]
  /\ filter # "throttle" => left + Cardinality(Holders) = Limit
  /\ filter = "throttle" => count = Cardinality(Holders)
  /\ filter # "rate" => \A s \in Stream : stream[s] # "lost"

LEMMA OneCardinality ==
  ASSUME NEW S
  PROVE  Promise!Cardinality(S) = Cardinality(S)
BY DEF Promise!Cardinality, Cardinality

LEMMA FiniteHolders == IsFiniteSet(Holders) /\ Cardinality(Holders) \in Nat
<1>1. Holders \subseteq Stream /\ IsFiniteSet(Stream)
  BY AdmissionAssumption DEF Holders, In
<1> QED
  BY <1>1, FS_Subset, FS_CardinalityType

(* A stream that enters, one that leaves and one that keeps its place.      *)
LEMMA Moved ==
  ASSUME AdmissionInv, NEW s \in Stream, NEW to \in Where, Move(s, to)
  PROVE  /\ stream' \in [Stream -> Where] /\ filter' = filter
         /\ Holders' = IF to \in {"inside", "lost"} THEN Holders \cup {s} ELSE Holders \ {s}
         /\ Refused' = IF to = "refused" THEN Refused \cup {s} ELSE Refused \ {s}
         /\ filter # "rate" /\ to # "lost" => \A q \in Stream : stream'[q] # "lost"
BY DEF AdmissionInv, Move, Holders, Refused, In

LEMMA Counts ==
  ASSUME AdmissionInv, NEW s \in Stream
  PROVE  /\ Cardinality(Holders \cup {s}) = IF s \in Holders THEN Cardinality(Holders)
                                                            ELSE Cardinality(Holders) + 1
         /\ Cardinality(Holders \ {s}) = IF s \in Holders THEN Cardinality(Holders) - 1
                                                         ELSE Cardinality(Holders)
BY FiniteHolders, FS_AddElement, FS_RemoveElement

LEMMA AdmissionStarts == AdmissionInit => AdmissionInv /\ Promise!Init
<1> SUFFICES ASSUME AdmissionInit PROVE AdmissionInv /\ Promise!Init
  OBVIOUS
<1>1. Holders = {} /\ Refused = {}
  BY DEF AdmissionInit, Holders, Refused, In
<1>2. Cardinality(Holders) = 0
  BY <1>1, FS_EmptySet
<1>3. stream \in [Stream -> Where] /\ Room \in Nat
  BY AdmissionAssumption DEF AdmissionInit, Where, Room
<1> QED
  BY <1>1, <1>2, <1>3, AdmissionAssumption
  DEF AdmissionInit, AdmissionInv, Promise!Init, Filter, Holders, Refused

(* Each step of a filter is a step of Places for its stream, or none.       *)
LEMMA AdmissionStep ==
  ASSUME AdmissionInv, NEW s \in Stream,
         \/ Draw(s) \/ TurnAway(s) \/ Disconnect(s) \/ RateRespond(s) \/ Finish(s)
         \/ Queue(s) \/ Overflow(s) \/ Answered(s) \/ Hangup(s)
  PROVE  /\ AdmissionInv'
         /\ \/ Promise!Enter(s) \/ Promise!Refuse(s) \/ Promise!Leave(s)
            \/ UNCHANGED <<Holders, Refused, Room>>
<1> DEFINE n == Cardinality(Holders)
           Goal == /\ AdmissionInv'
                   /\ \/ Promise!Enter(s) \/ Promise!Refuse(s) \/ Promise!Leave(s)
                      \/ UNCHANGED <<Holders, Refused, Room>>
<1>n. n \in Nat /\ Limit \in Nat \ {0}
  BY FiniteHolders, AdmissionAssumption
<1>h. /\ stream[s] \in {"inside", "lost"} <=> s \in Holders
      /\ stream[s] = "refused" <=> s \in Refused
  BY DEF Holders, Refused, In
<1>c. /\ Cardinality(Holders \cup {s}) = IF s \in Holders THEN n ELSE n + 1
      /\ Cardinality(Holders \ {s}) = IF s \in Holders THEN n - 1 ELSE n
  BY Counts
<1>w. {"away", "inside", "answered", "refused", "lost"} = Where
  BY DEF Where
<1>e. ASSUME Promise!Outside(s), n < Room, Move(s, "inside"), left' \in Nat, count' \in Nat,
             filter # "throttle" => left' = left - 1, filter = "throttle" => count' = count + 1
      PROVE  Goal
  <2>1. s \notin Holders /\ s \notin Refused
    BY <1>e, <1>h DEF Promise!Outside, Holders, Refused
  <2>2. /\ stream' \in [Stream -> Where] /\ filter' = filter
        /\ Holders' = Holders \cup {s} /\ Refused' = Refused \ {s}
        /\ filter # "rate" => \A q \in Stream : stream'[q] # "lost"
    BY <1>e, <1>w, Moved
  <2>3. Cardinality(Holders') = n + 1 /\ Refused' = Refused
    BY <2>1, <2>2, <1>c
  <2>4. AdmissionInv'
    BY <2>2, <2>3, <1>e, <1>n DEF AdmissionInv
  <2>5. Promise!Enter(s)
    BY <1>e, <2>2, <2>3, OneCardinality DEF Promise!Enter, Room, Holders, Refused
  <2> QED
    BY <2>4, <2>5
<1>r. ASSUME stream[s] = "away", n >= Room, Move(s, "refused"), UNCHANGED <<left, count>>
      PROVE  Goal
  <2>1. s \notin Holders /\ s \notin Refused
    BY <1>r, <1>h
  <2>2. /\ stream' \in [Stream -> Where] /\ filter' = filter
        /\ Holders' = Holders \ {s} /\ Refused' = Refused \cup {s}
        /\ filter # "rate" => \A q \in Stream : stream'[q] # "lost"
    BY <1>r, <1>w, Moved
  <2>3. Holders' = Holders
    BY <2>1, <2>2
  <2>4. AdmissionInv'
    BY <2>2, <2>3, <1>r DEF AdmissionInv
  <2>5. Promise!Refuse(s)
    BY <1>r, <2>1, <2>2, <2>3, OneCardinality DEF Promise!Refuse, Promise!Outside, Room, Holders, Refused
  <2> QED
    BY <2>4, <2>5
<1>l. ASSUME NEW to \in {"away", "answered"}, Move(s, to), left' \in Nat, count' \in Nat,
             filter # "throttle" => left' = left + (IF s \in Holders THEN 1 ELSE 0),
             filter = "throttle" => count' = count - (IF s \in Holders THEN 1 ELSE 0)
      PROVE  Goal
  <2>1. /\ stream' \in [Stream -> Where] /\ filter' = filter
        /\ Holders' = Holders \ {s} /\ Refused' = Refused \ {s}
        /\ filter # "rate" => \A q \in Stream : stream'[q] # "lost"
    BY <1>l, <1>w, Moved
  <2>2. AdmissionInv'
    BY <2>1, <1>l, <1>c, <1>n DEF AdmissionInv
  <2>3. Promise!Leave(s)
    BY <2>1 DEF Promise!Leave, Room, Holders, Refused
  <2> QED
    BY <2>2, <2>3
<1>1. CASE Draw(s)
  <2>1. n < Room /\ left - 1 \in Nat
    BY <1>1, <1>n DEF Draw, AdmissionInv, Room
  <2> QED
    BY <1>1, <1>e, <1>h, <2>1 DEF Draw, AdmissionInv, Promise!Outside, Holders, Refused
<1>2. CASE TurnAway(s)
  <2>1. n >= Room
    BY <1>2, <1>n DEF TurnAway, AdmissionInv, Room
  <2> QED
    BY <1>2, <1>r, <2>1 DEF TurnAway
<1>3. CASE Disconnect(s)
  <2>1. PayBack(s) = IF s \in Holders THEN 1 ELSE 0
    BY <1>3, <1>h DEF Disconnect, PayBack
  <2> QED
    BY <1>3, <1>l, <2>1 DEF Disconnect, AdmissionInv
<1>4. CASE RateRespond(s)
  BY <1>4, <1>l, <1>h DEF RateRespond, AdmissionInv
<1>5. CASE Finish(s) /\ stream[s] = "inside"
  <2>1. /\ stream' \in [Stream -> Where] /\ filter' = filter /\ s \in Holders
        /\ Holders' = Holders \cup {s} /\ Refused' = Refused \ {s} /\ s \notin Refused
    BY <1>5, <1>w, <1>h, Moved DEF Finish
  <2>2. UNCHANGED <<Holders, Refused, filter, left, count>>
    BY <2>1, <1>5 DEF Finish
  <2> QED
    BY <2>1, <2>2, <1>5 DEF Finish, AdmissionInv, Room
<1>6. CASE Finish(s) /\ stream[s] # "inside"
  BY <1>6, <1>l, <1>h DEF Finish, AdmissionInv
<1>7. CASE Queue(s)
  <2>1. n < Room
    BY <1>7, <1>n DEF Queue, Full, AdmissionInv, Room
  <2> QED
    BY <1>7, <1>e, <1>h, <2>1 DEF Queue, AdmissionInv, Promise!Outside, Holders, Refused
<1>8. CASE Overflow(s)
  <2>1. n >= Room
    BY <1>8, <1>n DEF Overflow, Full, AdmissionInv, Room
  <2> QED
    BY <1>8, <1>r, <2>1 DEF Overflow
<1>9. CASE Answered(s) \/ Hangup(s)
  <2>1. filter = "throttle" /\ count = n /\ UNCHANGED left
    BY <1>9 DEF Answered, Hangup, AdmissionInv
  <2>2. count' = count - (IF s \in Holders THEN 1 ELSE 0)
    BY <1>9, <1>h, <2>1 DEF Answered, Hangup, Owed, AdmissionInv
  <2>3. count' \in Nat
    <3>1. s \in Holders => Cardinality(Holders \ {s}) = n - 1 /\ Cardinality(Holders \ {s}) \in Nat
      BY <1>c, FiniteHolders, FS_RemoveElement, FS_CardinalityType
    <3> QED
      BY <3>1, <2>1, <2>2, <1>n
  <2> QED
    BY <1>9, <1>l, <2>1, <2>2, <2>3 DEF Answered, Hangup, AdmissionInv
<1> QED
  BY <1>1, <1>2, <1>3, <1>4, <1>5, <1>6, <1>7, <1>8, <1>9

(* The three filters keep the promise of Places, each with its own account: *)
(* no more streams inside than there is room, none refused while there is,  *)
(* and no place given back twice (ConcurrencyLimit.js, RateLimit.js and     *)
(* pjs/http/throttle-route.js).                                             *)
THEOREM AdmissionImplementsPlaces == AdmissionSpec => KeepsPlaces
<1>1. AdmissionInv /\ [AdmissionNext]_admissionVars
        => AdmissionInv' /\ [Promise!Next]_<<Room, Holders, Refused>>
  <2> SUFFICES ASSUME AdmissionInv, [AdmissionNext]_admissionVars
               PROVE  AdmissionInv' /\ [Promise!Next]_<<Room, Holders, Refused>>
    OBVIOUS
  <2>1. CASE AdmissionNext
    BY <2>1, AdmissionStep DEF AdmissionNext, Promise!Next
  <2>2. CASE UNCHANGED admissionVars
    BY <2>2 DEF admissionVars, AdmissionInv, Holders, Refused, In, Room
  <2> QED
    BY <2>1, <2>2
<1> QED
  BY <1>1, AdmissionStarts, PTL
  DEF AdmissionSpec, KeepsPlaces, Promise!Spec, Promise!vars, Holders, Refused

----------------------------------------------------------------------------
(* The circuit breaker *)

Step == {"outside", "passed", "total", "error", "judge", "tripTotal", "tripError",
         "clearTotal", "clearError"}

(* What history has to do with the shared totals: unless a trip has still   *)
(* to clear them, the errors they hold came after the last trip.            *)
SinceTrip(errors) == errors <= slowSince \/ slowSince = ErrorCountThreshold

BreakInv ==
  /\ step \in [Caller -> Step] /\ concurrency \in Int /\ aborted \in Nat /\ strangers \in Int
  /\ stat \in [total : Nat, error : Nat] /\ slowSince \in 0..ErrorCountThreshold
  /\ local \in [Caller -> [total : Nat, error : Nat, concurrency : Int]]
  /\ Tripping = {} => SinceTrip(stat.error)
  /\ \A c \in Checking \ overlaps :
       Tripping = {} /\ (step[c] = "judge" => SinceTrip(local[c].error))

BreakDrift == BreakInv /\ LoadDrifts

LEMMA FinitePassed == IsFiniteSet(Passed) /\ Cardinality(Passed) \in Nat
<1>1. Passed \subseteq Caller /\ IsFiniteSet(Caller)
  BY BreakAssumption DEF Passed, BreakAssumption
<1> QED
  BY <1>1, FS_Subset, FS_CardinalityType

LEMMA BreakStarts == BreakInit => BreakDrift
<1> SUFFICES ASSUME BreakInit PROVE BreakDrift
  OBVIOUS
<1>1. Passed = {} /\ Checking = {} /\ Tripping = {}
  BY DEF BreakInit, Passed, Checking, Tripping
<1>2. Cardinality(Passed) = 0
  BY <1>1, FS_EmptySet
<1>3. LoadDrifts
  BY <1>2 DEF BreakInit, LoadDrifts
<1>4. BreakInv
  BY <1>1, BreakAssumption
  DEF BreakInit, BreakInv, BreakAssumption, Step, Zero, NoneRead, SinceTrip
<1> QED
  BY <1>3, <1>4 DEF BreakDrift

(* Where a request goes decides on the sets that the counts speak of.       *)
LEMMA Gone ==
  ASSUME BreakInv, NEW c \in Caller, NEW to \in Step, Goto(c, to)
  PROVE  /\ step' \in [Caller -> Step] /\ step'[c] = to
         /\ \A d \in Caller \ {c} : step'[d] = step[d]
         /\ Passed' = IF to = "passed" THEN Passed \cup {c} ELSE Passed \ {c}
         /\ Checking' = IF to \in {"outside", "passed"} THEN Checking \ {c} ELSE Checking \cup {c}
         /\ Tripping' = IF to \in {"tripTotal", "tripError"} THEN Tripping \cup {c}
                                                             ELSE Tripping \ {c}
BY DEF BreakInv, Goto, Passed, Checking, Tripping

LEMMA Drifts ==
  ASSUME BreakDrift, NEW c \in Caller, NEW to \in Step, Goto(c, to),
         concurrency' - aborted' + strangers' = concurrency - aborted + strangers
           + (IF to = "passed" THEN 1 ELSE 0) - (IF step[c] = "passed" THEN 1 ELSE 0),
         concurrency' \in Int, aborted' \in Nat, strangers' \in Int
  PROVE  LoadDrifts'
<1>1. /\ Passed' = IF to = "passed" THEN Passed \cup {c} ELSE Passed \ {c}
      /\ c \in Passed <=> step[c] = "passed"
  BY Gone DEF BreakDrift, Passed
<1>2. Cardinality(Passed') = Cardinality(Passed)
        + (IF to = "passed" THEN 1 ELSE 0) - (IF step[c] = "passed" THEN 1 ELSE 0)
  <2>1. /\ Cardinality(Passed \cup {c}) = IF c \in Passed THEN Cardinality(Passed)
                                                         ELSE Cardinality(Passed) + 1
        /\ Cardinality(Passed \ {c}) = IF c \in Passed THEN Cardinality(Passed) - 1
                                                       ELSE Cardinality(Passed)
    BY FinitePassed, FS_AddElement, FS_RemoveElement
  <2> QED
    BY <1>1, <2>1, FinitePassed
<1> QED
  BY <1>2, FinitePassed DEF BreakDrift, BreakInv, LoadDrifts

LEMMA BreakKeeps == BreakDrift /\ [BreakNext]_breakVars => BreakDrift'
<1> SUFFICES ASSUME BreakDrift, [BreakNext]_breakVars PROVE BreakDrift'
  OBVIOUS
<1> USE DEF BreakDrift
<1>t. /\ ErrorCountThreshold \in Nat
      /\ BreakInv /\ LoadDrifts
  BY BreakAssumption DEF BreakAssumption
<1>1. ASSUME NEW c \in Caller, Pass(c) PROVE BreakDrift'
  <2>1. Goto(c, "passed") /\ "passed" \in Step /\ step[c] = "outside"
    BY <1>1 DEF Pass, Step
  <2>2. LoadDrifts'
    BY <1>1, <2>1, Drifts DEF Pass, history, BreakInv
  <2>3. BreakInv'
    BY <1>1, <2>1, <1>t, Gone DEF Pass, history, BreakInv, SinceTrip, Checking, Tripping
  <2> QED
    BY <2>2, <2>3
<1>2. ASSUME NEW c \in Caller, GoAway(c) PROVE BreakDrift'
  <2>1. Goto(c, "outside") /\ "outside" \in Step /\ step[c] = "passed"
    BY <1>2 DEF GoAway, Step
  <2>2. LoadDrifts'
    BY <1>2, <2>1, Drifts DEF GoAway, BreakInv
  <2>3. BreakInv'
    BY <1>2, <2>1, <1>t, Gone DEF GoAway, BreakInv, SinceTrip, Checking, Tripping
  <2> QED
    BY <2>2, <2>3
<1>3. ASSUME NEW c \in Caller, Reply(c) PROVE BreakDrift'
  <2>1. Goto(c, "total") /\ "total" \in Step /\ step[c] = "passed"
    BY <1>3 DEF Reply, Step
  <2>2. LoadDrifts'
    BY <1>3, <2>1, Drifts DEF Reply, BreakInv
  <2>3. /\ Tripping' = Tripping /\ Checking' = Checking \cup {c}
        /\ step' \in [Caller -> Step] /\ \A d \in Caller : d # c => step'[d] = step[d]
        /\ step'[c] = "total"
    BY <2>1, Gone DEF Tripping
  <2>4. UNCHANGED <<stat, local, aborted, strangers, slowSince>> /\ concurrency' \in Int
    BY <1>3 DEF Reply, BreakInv
  <2>5. \A d \in Checking' \ overlaps' :
          Tripping' = {} /\ (step'[d] = "judge" => SinceTrip(local[d].error)')
    <3> SUFFICES ASSUME NEW d \in Checking', d \notin overlaps'
                 PROVE  Tripping' = {} /\ (step'[d] = "judge" => SinceTrip(local[d].error)')
      OBVIOUS
    <3>1. CASE d = c
      BY <1>3, <2>3, <3>1 DEF Reply
    <3>2. CASE d # c
      <4>1. d \in Checking \ overlaps /\ d \in Caller
        BY <1>3, <2>3, <3>2 DEF Reply, Checking
      <4> QED
        BY <4>1, <3>2, <2>3, <2>4 DEF BreakInv, SinceTrip
    <3> QED
      BY <3>1, <3>2
  <2>6. BreakInv'
    BY <2>3, <2>4, <2>5 DEF BreakInv, SinceTrip
  <2> QED
    BY <2>2, <2>6
<1>4. ASSUME NEW c \in Caller, AddTotal(c) PROVE BreakDrift'
  <2>1. Goto(c, "error") /\ "error" \in Step /\ step[c] = "total"
    BY <1>4 DEF AddTotal, Step
  <2>2. LoadDrifts'
    BY <1>4, <2>1, Drifts DEF AddTotal, history, BreakInv
  <2>3. /\ Tripping' = Tripping /\ Checking' = Checking
        /\ step' \in [Caller -> Step] /\ \A d \in Caller : d # c => step'[d] = step[d]
        /\ step'[c] = "error"
    BY <2>1, Gone DEF Tripping, Checking
  <2>4. /\ stat'.error = stat.error /\ stat' \in [total : Nat, error : Nat]
        /\ local' \in [Caller -> [total : Nat, error : Nat, concurrency : Int]]
        /\ \A d \in Caller : local'[d].error = local[d].error
    BY <1>4 DEF AddTotal, BreakInv
  <2>5. BreakInv'
    BY <1>4, <2>3, <2>4, <1>t DEF AddTotal, history, BreakInv, SinceTrip, Checking
  <2> QED
    BY <2>2, <2>5
<1>5. ASSUME NEW c \in Caller, NEW slow \in BOOLEAN, AddError(c, slow) PROVE BreakDrift'
  <2>1. Goto(c, "judge") /\ "judge" \in Step /\ step[c] = "error"
    BY <1>5 DEF AddError, Step
  <2>2. LoadDrifts'
    BY <1>5, <2>1, Drifts DEF AddError, BreakInv
  <2>3. /\ Tripping' = Tripping /\ Checking' = Checking /\ c \in Checking
        /\ step' \in [Caller -> Step] /\ \A d \in Caller : d # c => step'[d] = step[d]
        /\ step'[c] = "judge"
    BY <2>1, Gone DEF Tripping, Checking
  <2> DEFINE error == IF slow THEN stat.error + 1 ELSE stat.error
  <2>4. /\ stat' = [stat EXCEPT !.error = error] /\ error \in Nat
        /\ local' = [local EXCEPT ![c].error = error, ![c].concurrency = concurrency]
    BY <1>5 DEF AddError, BreakInv
  <2>5. /\ stat'.error = error /\ stat' \in [total : Nat, error : Nat]
        /\ local' \in [Caller -> [total : Nat, error : Nat, concurrency : Int]]
        /\ \A d \in Caller : d # c => local'[d].error = local[d].error
        /\ local'[c].error = error
    BY <2>4 DEF BreakInv
  <2>6. /\ slowSince' \in 0..ErrorCountThreshold
        /\ slowSince \in 0..ErrorCountThreshold
        /\ slowSince' = IF slow /\ slowSince < ErrorCountThreshold THEN slowSince + 1
                                                                     ELSE slowSince
    BY <1>5, <1>t DEF AddError, BreakInv
  <2>7. SinceTrip(stat.error) => SinceTrip(stat.error)'
    BY <2>5, <2>6, <1>t DEF SinceTrip, BreakInv
  <2>8. \A d \in Caller \ {c} : SinceTrip(local[d].error) => SinceTrip(local[d].error)'
    BY <2>5, <2>6, <1>t DEF SinceTrip, BreakInv
  <2>9. SinceTrip(stat.error)' => SinceTrip(local[c].error)'
    BY <2>5 DEF SinceTrip
  <2>10. Tripping' = {} => SinceTrip(stat.error)'
    BY <2>3, <2>7 DEF BreakInv
  <2>11. \A d \in Checking' \ overlaps' :
           Tripping' = {} /\ (step'[d] = "judge" => SinceTrip(local[d].error)')
    <3> SUFFICES ASSUME NEW d \in Checking' \ overlaps'
                 PROVE  Tripping' = {} /\ (step'[d] = "judge" => SinceTrip(local[d].error)')
      OBVIOUS
    <3>1. d \in Checking \ overlaps /\ d \in Caller /\ Tripping' = {}
      BY <1>5, <2>3 DEF AddError, BreakInv, Checking
    <3>2. CASE d = c
      BY <3>1, <3>2, <2>9, <2>10
    <3>3. CASE d # c
      BY <3>1, <3>3, <2>3, <2>8 DEF BreakInv
    <3> QED
      BY <3>2, <3>3
  <2>12. BreakInv'
    BY <1>5, <2>3, <2>5, <2>6, <2>10, <2>11 DEF AddError, BreakInv, SinceTrip
  <2> QED
    BY <2>2, <2>12
<1>6. ASSUME NEW c \in Caller, Trip(c) PROVE BreakDrift'
  <2>1. Goto(c, "tripTotal") /\ "tripTotal" \in Step /\ step[c] = "judge"
    BY <1>6 DEF Trip, Step
  <2>2. LoadDrifts'
    BY <1>6, <2>1, Drifts DEF Trip, BreakInv
  <2>3. /\ c \in Tripping' /\ Checking' = Checking
        /\ step' \in [Caller -> Step]
    BY <2>1, Gone DEF Tripping, Checking
  <2>4. BreakInv'
    BY <1>6, <2>3, <1>t DEF Trip, BreakInv
  <2> QED
    BY <2>2, <2>4
<1>7. ASSUME NEW c \in Caller, Judge(c) PROVE BreakDrift'
  <2> DEFINE to == IF start >= CheckInterval THEN "clearTotal" ELSE "outside"
  <2>1. Goto(c, to) /\ to \in Step /\ step[c] = "judge"
    BY <1>7 DEF Judge, Step
  <2>2. LoadDrifts'
    BY <1>7, <2>1, Drifts DEF Judge, history, BreakInv
  <2>3. /\ Tripping' = Tripping /\ Checking' \subseteq Checking
        /\ step' \in [Caller -> Step] /\ \A d \in Caller : d # c => step'[d] = step[d]
        /\ step'[c] # "judge"
    BY <2>1, Gone DEF Tripping, Checking
  <2>4. /\ local' \in [Caller -> [total : Nat, error : Nat, concurrency : Int]]
        /\ \A d \in Caller : d # c => local'[d].error = local[d].error
    BY <1>7 DEF Judge, BreakInv, NoneRead
  <2>5. BreakInv'
    BY <1>7, <2>3, <2>4, <1>t DEF Judge, history, BreakInv, SinceTrip, Checking
  <2> QED
    BY <2>2, <2>5
<1>8. ASSUME NEW c \in Caller, ClearTotal(c) PROVE BreakDrift'
  <2> DEFINE to == IF step[c] = "tripTotal" THEN "tripError" ELSE "clearError"
  <2>1. Goto(c, to) /\ to \in Step /\ step[c] \in {"tripTotal", "clearTotal"}
    BY <1>8 DEF ClearTotal, Step
  <2>2. LoadDrifts'
    BY <1>8, <2>1, Drifts DEF ClearTotal, history, BreakInv
  <2>3. /\ Tripping' = Tripping /\ Checking' = Checking
        /\ step' \in [Caller -> Step] /\ \A d \in Caller : d # c => step'[d] = step[d]
        /\ step'[c] # "judge"
    BY <2>1, Gone DEF Tripping, Checking
  <2>4. stat'.error = stat.error /\ stat' \in [total : Nat, error : Nat]
    BY <1>8 DEF ClearTotal, BreakInv
  <2>5. BreakInv'
    BY <1>8, <2>3, <2>4, <1>t DEF ClearTotal, history, BreakInv, SinceTrip, Checking
  <2> QED
    BY <2>2, <2>5
<1>9. ASSUME NEW c \in Caller, ClearError(c) PROVE BreakDrift'
  <2>1. Goto(c, "outside") /\ "outside" \in Step /\ step[c] \in {"tripError", "clearError"}
    BY <1>9 DEF ClearError, Step
  <2>2. LoadDrifts'
    BY <1>9, <2>1, Drifts DEF ClearError, history, BreakInv
  <2>3. /\ Tripping' = Tripping \ {c} /\ Checking' = Checking \ {c}
        /\ step' \in [Caller -> Step] /\ \A d \in Caller : d # c => step'[d] = step[d]
    BY <2>1, Gone
  <2>4. stat'.error = 0 /\ stat' \in [total : Nat, error : Nat]
    BY <1>9 DEF ClearError, Cleared, BreakInv
  <2>5. /\ local' \in [Caller -> [total : Nat, error : Nat, concurrency : Int]]
        /\ \A d \in Caller : d # c => local'[d].error = local[d].error
    BY <1>9 DEF ClearError, BreakInv, NoneRead
  <2>6. BreakInv'
    BY <1>9, <2>3, <2>4, <2>5, <1>t DEF ClearError, history, BreakInv, SinceTrip, Checking
  <2> QED
    BY <2>2, <2>6
<1>10. CASE Elapse \/ UNCHANGED breakVars
  <2>1. UNCHANGED <<concurrency, stat, step, local, history>>
    BY <1>10 DEF Elapse, breakVars
  <2> QED
    BY <2>1 DEF history, BreakInv, LoadDrifts, SinceTrip, Checking, Tripping, Passed
<1>11. CASE Rebuild
  <2>1. Passed' = Passed /\ Checking' = Checking /\ Tripping' = Tripping
    BY <1>11 DEF Rebuild, Passed, Checking, Tripping
  <2>2. LoadDrifts'
    BY <1>11, <2>1, FinitePassed DEF Rebuild, Forgotten, LoadDrifts, BreakInv
  <2>3. BreakInv'
    BY <1>11, <2>1, FinitePassed, <1>t DEF Rebuild, Forgotten, BreakInv, Zero, SinceTrip
  <2> QED
    BY <2>2, <2>3
<1> QED
  BY <1>1, <1>2, <1>3, <1>4, <1>5, <1>6, <1>7, <1>8, <1>9, <1>10, <1>11 DEF BreakNext

(* The load that trips a breaker is off by exactly the requests that went   *)
(* away unanswered and those it was built anew over (CircuitBreak.js).      *)
THEOREM LoadAlwaysDrifts == BreakSpec => []LoadDrifts
<1> QED
  BY BreakStarts, BreakKeeps, PTL DEF BreakSpec, BreakDrift

(* However the checks of several threads mix, as many slow answers as the   *)
(* threshold come in between two trips, but for the checks that overlap the *)
(* clearing of the totals.                                                  *)
THEOREM TripAlwaysNeedsErrors == BreakSpec => TripNeedsErrors
<1>1. ASSUME BreakInv
      PROVE  \A c \in Caller \ overlaps : Trip(c) => slowSince >= ErrorCountThreshold
  <2> SUFFICES ASSUME NEW c \in Caller \ overlaps, Trip(c)
               PROVE  slowSince >= ErrorCountThreshold
    OBVIOUS
  <2>1. step[c] = "judge" /\ local[c].error >= ErrorCountThreshold
    BY DEF Trip, Trips
  <2>2. SinceTrip(local[c].error)
    BY <2>1, <1>1 DEF BreakInv, Checking
  <2>3. ErrorCountThreshold \in Nat /\ slowSince \in 0..ErrorCountThreshold
    BY <1>1, BreakAssumption DEF BreakInv, BreakAssumption
  <2>4. local[c].error \in Nat
    BY <1>1 DEF BreakInv
  <2> QED
    BY <2>1, <2>2, <2>3, <2>4 DEF SinceTrip
<1> QED
  BY <1>1, BreakStarts, BreakKeeps, PTL DEF BreakSpec, BreakDrift, TripNeedsErrors

----------------------------------------------------------------------------
(* Retries and sessions *)

Req == [phase : {"asking", "pause", "idle"}, answered : BOOLEAN, key : Key \cup {NoKey},
        target : Target \cup {NoTarget}, counter : Nat, tries : Nat,
        last : Target \cup {NoTarget}]

(* The counter of a request that goes on is behind its attempts by the one  *)
(* under way.                                                               *)
Spent(req) ==
  /\ req.tries <= Attempts
  /\ req.phase = "asking" => req.tries = req.counter + 1 /\ req.counter < Attempts
  /\ req.phase = "pause" => req.tries = req.counter /\ req.counter \in 1..Attempts - 1

(* The target that failed is kept: by the request for a rule, that has      *)
(* chosen once, and in its session for a policy.                            *)
Kept(req) ==
  req.last # NoTarget =>
    IF level = "rule" THEN req.last = req.target
                      ELSE req.key # NoKey => sessions[req.key] = req.last

RuleInv ==
  /\ level \in {"rule", "backend"} /\ healthy \subseteq Target
  /\ sessions \in [Key -> Target \cup {NoTarget}] /\ request \in [Request -> Req]
  /\ \A r \in Request : Spent(request[r]) /\ Kept(request[r])

LEMMA FreshFacts ==
  /\ Fresh \in Req /\ Fresh.phase = "idle" /\ Fresh.tries = 0 /\ Fresh.counter = 0
  /\ Fresh.last = NoTarget /\ 0 < Attempts /\ Attempts \in Nat
BY RuleAssumption DEF RuleAssumption, Fresh, Req

LEMMA RuleStarts == RuleInit => RuleInv
<1> SUFFICES ASSUME RuleInit PROVE RuleInv
  OBVIOUS
<1>1. Fresh \in Req /\ Spent(Fresh) /\ Kept(Fresh)
  BY FreshFacts DEF Spent, Kept
<1> QED
  BY <1>1 DEF RuleInit, RuleInv

LEMMA AfterFacts ==
  ASSUME NEW req \in Req, NEW failed \in BOOLEAN,
         req.tries = req.counter + 1, req.counter < Attempts
  PROVE  /\ After(req, failed) \in Req /\ Spent(After(req, failed))
         /\ After(req, failed).last = req.last /\ After(req, failed).key = req.key
         /\ After(req, failed).target = req.target
         /\ failed /\ After(req, failed).phase = "idle" => req.tries = Attempts
<1>1. Attempts \in Nat \ {0} /\ req.counter \in Nat /\ req.tries \in Nat
  BY RuleAssumption DEF RuleAssumption, Req
<1>2. CASE failed /\ ~GivesUp(req)
  <2>1. After(req, failed) = [req EXCEPT !.phase = "pause", !.counter = @ + 1]
    BY <1>2 DEF After
  <2>2. req.counter + 1 < Attempts
    BY <1>2, <1>1 DEF GivesUp, Again
  <2>3. /\ After(req, failed) \in Req
        /\ After(req, failed).phase = "pause"
        /\ After(req, failed).counter = req.counter + 1
        /\ After(req, failed).tries = req.tries
        /\ After(req, failed).last = req.last /\ After(req, failed).key = req.key
        /\ After(req, failed).target = req.target
    BY <2>1 DEF Req
  <2> QED
    BY <2>2, <2>3, <1>1 DEF Spent
<1>3. CASE ~(failed /\ ~GivesUp(req))
  <2>1. After(req, failed) = [req EXCEPT !.phase = "idle", !.answered = TRUE]
    BY <1>3 DEF After
  <2>2. /\ After(req, failed) \in Req
        /\ After(req, failed).phase = "idle"
        /\ After(req, failed).tries = req.tries
        /\ After(req, failed).last = req.last /\ After(req, failed).key = req.key
        /\ After(req, failed).target = req.target
    BY <2>1 DEF Req
  <2>3. failed => req.tries = Attempts
    BY <1>3, <1>1 DEF GivesUp, Again
  <2> QED
    BY <2>2, <2>3, <1>1 DEF Spent
<1> QED
  BY <1>2, <1>3

(* An attempt counts one try, and keeps what is known of the former one.    *)
LEMMA AttemptKeeps ==
  ASSUME RuleInv, NEW r \in Request, NEW req \in Req, Kept(req), Attempt(r, req),
         req.tries = req.counter, req.counter < Attempts,
         req.tries = 0 => req.last = NoTarget, UNCHANGED <<level, healthy, sessions>>
  PROVE  RuleInv'
<1> DEFINE tried == [req EXCEPT !.tries = @ + 1]
           choice == IF level = "rule" /\ req.tries > 0 THEN {req.target}
                                                       ELSE Allocation(req.key)
<1>1. /\ tried \in Req /\ tried.tries = req.counter + 1 /\ tried.counter = req.counter
      /\ tried.last = req.last /\ tried.key = req.key /\ tried.target = req.target
  BY DEF Req
<1>a. Attempts \in Nat \ {0} /\ req.counter \in Nat
  BY RuleAssumption DEF RuleAssumption, Req
<1>2. choice \subseteq Target \cup {NoTarget}
  BY DEF RuleInv, Allocation, Candidates, Hint, Req
<1>3. ASSUME NEW new \in Req, request' = [request EXCEPT ![r] = new], Spent(new), Kept(new)
      PROVE  RuleInv'
  BY <1>3 DEF RuleInv, Spent, Kept
<1>4. CASE \E t \in choice :
             request' = [request EXCEPT ![r] = [tried EXCEPT !.phase = "asking", !.target = t]]
  <2>1. PICK t \in choice :
          request' = [request EXCEPT ![r] = [tried EXCEPT !.phase = "asking", !.target = t]]
    BY <1>4
  <2> DEFINE new == [tried EXCEPT !.phase = "asking", !.target = t]
  <2>2. /\ new \in Req /\ new.phase = "asking" /\ new.tries = req.counter + 1
        /\ new.counter = req.counter /\ new.last = req.last /\ new.key = req.key
        /\ new.target = t
    BY <1>1, <1>2 DEF Req
  <2>3. Spent(new)
    BY <2>2, <1>a DEF Spent
  <2>4. Kept(new)
    <3>1. level = "rule" /\ req.last # NoTarget => t = req.target
      BY <1>a DEF Req
    <3> HIDE DEF new
    <3> QED
      BY <2>2, <3>1 DEF Kept
  <2> QED
    BY <2>1, <2>2, <2>3, <2>4, <1>3
<1>5. CASE choice = {} /\ request' = [request EXCEPT ![r] = After(tried, TRUE)]
  <2>1. /\ After(tried, TRUE) \in Req /\ Spent(After(tried, TRUE))
        /\ After(tried, TRUE).last = req.last /\ After(tried, TRUE).key = req.key
        /\ After(tried, TRUE).target = req.target
    BY <1>1, AfterFacts
  <2>2. Kept(After(tried, TRUE))
    BY <2>1 DEF Kept
  <2> QED
    BY <1>5, <2>1, <2>2, <1>3
<1> QED
  BY <1>4, <1>5 DEF Attempt

LEMMA RespondKeeps ==
  ASSUME RuleInv, NEW r \in Request, NEW failed \in BOOLEAN, NEW named \in Key \cup {NoKey},
         Respond(r, failed, named)
  PROVE  RuleInv'
<1> DEFINE req   == request[r]
           key   == IF named = NoKey THEN req.key ELSE named
           keeps == level = "backend" \/ (~req.answered /\ ~(failed /\ ~GivesUp(req)))
           last  == IF named = NoKey THEN req.target ELSE NoTarget
           new   == [After(req, failed) EXCEPT !.last = last]
<1>1. /\ req \in Req /\ Spent(req) /\ req.phase = "asking"
      /\ key \in Key \cup {NoKey} /\ last \in Target \cup {NoTarget}
      /\ req.target \in Target \cup {NoTarget}
  BY DEF RuleInv, Respond, Req
<1>2. /\ After(req, failed) \in Req /\ Spent(After(req, failed))
      /\ After(req, failed).key = req.key /\ After(req, failed).target = req.target
  BY <1>1, AfterFacts DEF Spent
<1>3. /\ new \in Req /\ Spent(new) /\ new.last = last /\ new.key = req.key
      /\ new.target = req.target
  BY <1>1, <1>2 DEF Req, Spent
<1>4. /\ sessions' = IF keeps /\ key # NoKey THEN [sessions EXCEPT ![key] = req.target]
                                             ELSE sessions
      /\ UNCHANGED <<level, healthy>>
  BY DEF Respond, Preserve
<1>5. sessions' \in [Key -> Target \cup {NoTarget}]
  BY <1>1, <1>4 DEF RuleInv
<1>6. /\ request'[r] = new /\ DOMAIN request' = Request
      /\ \A q \in Request \ {r} :
           request'[q] = IF keeps /\ request[q].key = key
                         THEN [request[q] EXCEPT !.last = NoTarget] ELSE request[q]
      /\ request' = [q \in Request |-> request'[q]]
  BY DEF Respond
<1> HIDE DEF new
<1>7. Kept(request[r])'
  <2>1. CASE level = "rule"
    BY <2>1, <1>3, <1>4, <1>6 DEF Kept
  <2>2. CASE level # "rule"
    <3>1. level = "backend" /\ keeps
      BY <2>2 DEF RuleInv
    <3>2. CASE named = NoKey /\ req.key # NoKey
      <4>1. sessions'[req.key] = req.target
        BY <3>1, <3>2, <1>1, <1>4 DEF RuleInv, Req
      <4> QED
        BY <4>1, <3>1, <3>2, <1>3, <1>4, <1>6 DEF Kept
    <3>3. CASE ~(named = NoKey /\ req.key # NoKey)
      BY <3>1, <3>3, <1>3, <1>4, <1>6 DEF Kept
    <3> QED
      BY <3>2, <3>3
  <2> QED
    BY <2>1, <2>2
<1>8. ASSUME NEW q \in Request \ {r}
      PROVE  request'[q] \in Req /\ Spent(request'[q]) /\ Kept(request[q])'
  <2>1. request[q] \in Req /\ Spent(request[q]) /\ Kept(request[q])
    BY DEF RuleInv
  <2>2. CASE keeps /\ request[q].key = key
    <3>1. request'[q] = [request[q] EXCEPT !.last = NoTarget]
      BY <1>6, <2>2
    <3>2. request'[q] \in Req /\ request'[q].last = NoTarget /\ Spent(request'[q])
      BY <3>1, <2>1 DEF Req, Spent
    <3> QED
      BY <3>2 DEF Kept
  <2>3. CASE ~(keeps /\ request[q].key = key)
    <3>1. request'[q] = request[q]
      BY <1>6, <2>3
    <3>2. request[q].key # NoKey => sessions'[request[q].key] = sessions[request[q].key]
      BY <2>1, <2>3, <1>1, <1>4 DEF RuleInv, Req
    <3> QED
      BY <3>1, <3>2, <2>1, <1>4 DEF Kept
  <2> QED
    BY <2>2, <2>3
<1>9. request' \in [Request -> Req]
  BY <1>3, <1>6, <1>8
<1> QED
  <2>1. \A q \in Request : Spent(request'[q]) /\ Kept(request[q])'
    <3> SUFFICES ASSUME NEW q \in Request PROVE Spent(request'[q]) /\ Kept(request[q])'
      OBVIOUS
    <3>1. CASE q = r
      BY <3>1, <1>3, <1>6, <1>7
    <3>2. CASE q # r
      BY <3>2, <1>8
    <3> QED
      BY <3>1, <3>2
  <2> QED
    BY <2>1, <1>4, <1>5, <1>9 DEF RuleInv, Spent, Kept

LEMMA RuleKeeps == RuleInv /\ [RuleNext]_ruleVars => RuleInv'
<1> SUFFICES ASSUME RuleInv, [RuleNext]_ruleVars PROVE RuleInv'
  OBVIOUS
<1>1. ASSUME NEW r \in Request, NEW k \in Key \cup {NoKey}, Begin(r, k) PROVE RuleInv'
  <2> DEFINE req == [Fresh EXCEPT !.key = k]
  <2>1. /\ req \in Req /\ req.tries = 0 /\ req.counter = 0 /\ req.last = NoTarget
        /\ 0 < Attempts
    BY FreshFacts DEF Req
  <2>2. Kept(req)
    BY <2>1 DEF Kept
  <2>3. Attempt(r, req) /\ UNCHANGED <<level, healthy, sessions>>
    BY <1>1 DEF Begin
  <2> HIDE DEF req
  <2> QED
    BY <2>1, <2>2, <2>3, AttemptKeeps
<1>2. ASSUME NEW r \in Request, Retry(r) PROVE RuleInv'
  <2>1. /\ request[r] \in Req /\ Spent(request[r]) /\ Kept(request[r])
        /\ request[r].phase = "pause" /\ Attempt(r, request[r])
        /\ UNCHANGED <<level, healthy, sessions>>
    BY <1>2 DEF Retry, RuleInv
  <2>2. /\ request[r].tries = request[r].counter /\ request[r].counter < Attempts
        /\ request[r].tries # 0
    BY <2>1, RuleAssumption DEF Spent, RuleAssumption
  <2> QED
    BY <2>1, <2>2, AttemptKeeps
<1>3. ASSUME NEW r \in Request, NEW failed \in BOOLEAN, NEW k \in Key \cup {NoKey},
             Respond(r, failed, k)
      PROVE  RuleInv'
  BY <1>3, RespondKeeps
<1>4. ASSUME NEW r \in Request, TimeOut(r) PROVE RuleInv'
  <2>1. /\ request[r] \in Req /\ Spent(request[r]) /\ Kept(request[r])
    BY DEF RuleInv
  <2>2. PICK phase \in {"idle", request[r].phase} :
          request' = [request EXCEPT ![r].answered = TRUE, ![r].phase = phase]
    BY <1>4 DEF TimeOut
  <2>3. /\ request' \in [Request -> Req]
        /\ \A q \in Request : /\ request'[q].last = request[q].last
                              /\ request'[q].key = request[q].key
                              /\ request'[q].target = request[q].target
                              /\ Spent(request'[q])
    BY <2>1, <2>2 DEF RuleInv, Req, Spent
  <2>4. /\ sessions' \in [Key -> Target \cup {NoTarget}] /\ UNCHANGED <<level, healthy>>
        /\ level # "rule" => sessions' = sessions
    BY <1>4, <2>1 DEF TimeOut, Preserve, RuleInv, Req
  <2> QED
    BY <2>3, <2>4 DEF RuleInv, Spent, Kept
<1>5. ASSUME NEW r \in Request, Abort(r) PROVE RuleInv'
  <2>1. /\ request' \in [Request -> Req] /\ UNCHANGED <<level, healthy, sessions>>
        /\ \A q \in Request : /\ request'[q].last = request[q].last
                              /\ request'[q].key = request[q].key
                              /\ request'[q].target = request[q].target
                              /\ Spent(request'[q])
    BY <1>5 DEF Abort, RuleInv, Req, Spent
  <2> QED
    BY <2>1 DEF RuleInv, Spent, Kept
<1>6. ASSUME NEW t \in Target, HealthChanges(t) PROVE RuleInv'
  BY <1>6 DEF HealthChanges, RuleInv, Spent, Kept
<1>7. CASE UNCHANGED ruleVars
  BY <1>7 DEF ruleVars, RuleInv, Spent, Kept
<1> QED
  BY <1>1, <1>2, <1>3, <1>4, <1>5, <1>6, <1>7 DEF RuleNext

(* A failure reaches the client after as many attempts as the rule says,    *)
(* whatever timeouts, sessions and changes of health come in between        *)
(* (router-http.js, makeBackendSelectorForRule).                            *)
THEOREM AlwaysGivesUpWhenSpent == RuleSpec => GivesUpWhenSpent
<1>1. ASSUME RuleInv, RuleInv', NEW r \in Request
      PROVE  /\ request'[r].tries <= Attempts
             /\ (\E k \in Key \cup {NoKey} : Respond(r, TRUE, k)) /\ request'[r].phase = "idle"
                  => request[r].tries = Attempts
  <2>1. request'[r].tries <= Attempts
    BY <1>1 DEF RuleInv, Spent
  <2>2. ASSUME NEW k \in Key \cup {NoKey}, Respond(r, TRUE, k), request'[r].phase = "idle"
        PROVE  request[r].tries = Attempts
    <3>1. /\ request[r] \in Req /\ Spent(request[r]) /\ request[r].phase = "asking"
      BY <1>1, <2>2 DEF RuleInv, Respond
    <3>2. /\ After(request[r], TRUE) \in Req
          /\ After(request[r], TRUE).phase = "idle" => request[r].tries = Attempts
      BY <3>1, AfterFacts DEF Spent
    <3>3. PICK last \in Target \cup {NoTarget} :
            request'[r] = [After(request[r], TRUE) EXCEPT !.last = last]
      BY <2>2, <3>1 DEF Respond, Req
    <3> QED
      BY <3>2, <3>3, <2>2 DEF Req
  <2> QED
    BY <2>1, <2>2
<1>2. RuleInv /\ RuleInv' => [\A r \in Request :
       /\ request'[r].tries <= Attempts
       /\ (\E k \in Key \cup {NoKey} : Respond(r, TRUE, k)) /\ request'[r].phase = "idle"
            => request[r].tries = Attempts]_ruleVars
  BY <1>1
<1> QED
  BY <1>2, RuleStarts, RuleKeeps, PTL DEF RuleSpec, GivesUpWhenSpent

(* A retry within a session goes back to the target that has just failed,   *)
(* as long as it counts as healthy: its response was kept before the retry  *)
(* was decided (balancer-http.js).                                          *)
THEOREM RetriesAlwaysStick == RuleSpec => RetriesStick
<1>1. ASSUME RuleInv, NEW r \in Request, Retry(r), request[r].key # NoKey,
             request[r].last \in Candidates
      PROVE  request'[r].target = request[r].last
  <2> DEFINE req == request[r]
             choice == IF level = "rule" /\ req.tries > 0 THEN {req.target}
                                                         ELSE Allocation(req.key)
  <2>1. /\ req \in Req /\ Kept(req) /\ Spent(req) /\ req.phase = "pause" /\ req.last \in Target /\ req.last # NoTarget
        /\ req.key \in Key /\ level \in {"rule", "backend"}
    BY <1>1, RuleAssumption DEF RuleInv, RuleAssumption, Retry, Req, Candidates
  <2>2. choice = {req.last}
    <3>1. CASE level = "rule"
      BY <2>1, <3>1, RuleAssumption DEF Kept, Spent, RuleAssumption
    <3>2. CASE level = "backend"
      BY <1>1, <2>1, <3>2 DEF Kept, Allocation, Hint
    <3> QED
      BY <2>1, <3>1, <3>2
  <2>3. \E t \in choice : request' =
          [request EXCEPT ![r] = [[req EXCEPT !.tries = @ + 1] EXCEPT !.phase = "asking",
                                                                      !.target = t]]
    BY <1>1, <2>2 DEF Retry, Attempt
  <2> QED
    BY <2>1, <2>2, <2>3, <1>1 DEF RuleInv, Req
<1>2. RuleInv => [\A r \in Request :
        Retry(r) /\ request[r].key # NoKey /\ request[r].last \in Candidates
          => request'[r].target = request[r].last]_ruleVars
  BY <1>1
<1> QED
  BY <1>2, RuleStarts, RuleKeeps, PTL DEF RuleSpec, RetriesStick
============================================================================
