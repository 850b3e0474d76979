------------------------- MODULE HealthCheck_proofs ------------------------
(* Proofs about the health check of a backend: when an address goes down.   *)
EXTENDS HealthCheck, TLAPS

Air == RetiredCheck \cup {None, OwnCheck}

(* No check counts more failures than there were in a row, and a checker    *)
(* that was made while a check of its predecessor is in the air has not     *)
(* counted any.                                                             *)
CountsStreak ==
  /\ \A t \in Checked : checkers[t].fails <= streak[t]
  /\ \A t \in InAir : ~flight[t].own =>
       flight[t].fails <= streak[t] /\ (t \in Checked => checkers[t].fails = 0)

HealthInv ==
  /\ HealthTypeOK /\ CountsStreak /\ DownHasFailedLast
  /\ checkers \in [Target -> Checker \cup {None}] /\ flight \in [Target -> Air]
  /\ streak \in [Target -> Nat] /\ last \in [Target -> {"none", "ok", "fail", "lost"}]

LEMMA Distinct ==
  /\ \A c \in Checker : c # None
  /\ OwnCheck # None /\ OwnCheck.own = TRUE
  /\ \A a \in RetiredCheck : a # None /\ a.own = FALSE /\ a.fails \in Nat /\ a.max \in Nat \ {0}
  /\ \A p \in Policies : p # None /\ p.max \in Nat \ {0} /\ p.interval \in Nat /\ p.wait \in Nat
<1>1. None \notin Checker /\ None \notin RetiredCheck /\ None # OwnCheck /\ None \notin Policies
  BY PoliciesAssumption DEF PoliciesAssumption
<1>2. \A p \in Policies : p.max \in Nat \ {0} /\ p.interval \in Nat /\ p.wait \in Nat
  BY PoliciesAssumption DEF PoliciesAssumption
<1> QED
  BY <1>1, <1>2 DEF OwnCheck, RetiredCheck

LEMMA HealthStarts == Init => HealthInv
<1> SUFFICES ASSUME Init PROVE HealthInv
  OBVIOUS
<1>1. Checked = {} /\ InAir = {} /\ \A t \in Target : ~Own(t)
  BY DEF Init, Checked, InAir, Own
<1>2. HealthTypeOK
  BY <1>1 DEF Init, HealthTypeOK
<1>3. CountsStreak /\ DownHasFailedLast
  BY <1>1 DEF Init, CountsStreak, DownHasFailedLast
<1> QED
  BY <1>2, <1>3 DEF Init, HealthInv, Air

(* What can be in the air, and for which address there is a checker.        *)
LEMMA Facts ==
  ASSUME HealthInv, NEW t \in Target
  PROVE  /\ t \in Checked <=> checkers[t] \in Checker
         /\ t \notin Checked <=> checkers[t] = None
         /\ Own(t) <=> flight[t] = OwnCheck
         /\ t \in InAir /\ ~flight[t].own <=> flight[t] \in RetiredCheck
         /\ t \in InAir <=> flight[t] \in RetiredCheck \cup {OwnCheck}
         /\ Own(t) => checkers[t] \in Checker
BY Distinct DEF HealthInv, HealthTypeOK, Checked, InAir, Own, Air

----------------------------------------------------------------------------
(* Updates *)

LEMMA FoundTypes ==
  ASSUME HealthInv
  PROVE  Found \subseteq Target /\ (Found # {} => policy \in Policies)
<1>1. policy \in Policies => policy.covers \subseteq Target
  BY PoliciesAssumption DEF PoliciesAssumption
<1> QED
  BY <1>1 DEF HealthInv, HealthTypeOK, Found

(* Making new checkers retires the checks in the air.                       *)
LEMMA RenewKeeps ==
  ASSUME HealthInv, NEW found \in SUBSET Found,
         checkers' = NewCheckers(found), flight' = Retired \/ (flight' = flight /\ InAir = {}),
         UNCHANGED <<unhealthy, history>>, loop' = "checking" <=> loop = "checking",
         HealthTypeOK => HealthTypeOK'
  PROVE  HealthInv'
<1>1. \A t \in found : NewChecker(policy) \in Checker
  BY FoundTypes DEF NewChecker, Checker
<1>2. checkers' \in [Target -> Checker \cup {None}]
  BY <1>1 DEF NewCheckers
<1>3. \A t \in Target : checkers'[t] # None => checkers'[t].fails = 0
  BY <1>1, FoundTypes DEF NewCheckers, NewChecker
<1>4. \A t \in Target : /\ flight'[t] \in Air
                        /\ flight'[t] # None /\ ~flight'[t].own => flight'[t].fails <= streak[t]
  <2> SUFFICES ASSUME NEW t \in Target
               PROVE  /\ flight'[t] \in Air
                      /\ flight'[t] # None /\ ~flight'[t].own => flight'[t].fails <= streak[t]
    OBVIOUS
  <2>1. CASE flight' = Retired /\ Own(t)
    <3> DEFINE r == [own |-> FALSE, fails |-> checkers[t].fails, max |-> checkers[t].config.max]
    <3>1. flight'[t] = r
      BY <2>1 DEF Retired
    <3>2. checkers[t] \in Checker /\ checkers[t].fails <= streak[t]
      BY <2>1, Facts DEF HealthInv, CountsStreak
    <3>3. r \in RetiredCheck
      BY <3>2, Distinct DEF Checker, RetiredCheck
    <3> QED
      BY <3>1, <3>2, <3>3 DEF Air
  <2>2. CASE ~(flight' = Retired /\ Own(t))
    <3>1. flight'[t] = flight[t]
      BY <2>2 DEF Retired
    <3> QED
      BY <3>1 DEF HealthInv, CountsStreak, InAir
  <2> QED
    BY <2>1, <2>2
<1>5. flight' \in [Target -> Air]
  BY <1>4 DEF Retired, HealthInv
<1>6. CountsStreak'
  <2>1. \A t \in Target : streak[t] \in Nat
    BY DEF HealthInv
  <2> QED
    BY <1>3, <1>4, <2>1 DEF CountsStreak, Checked, InAir, history
<1> QED
  BY <1>2, <1>5, <1>6 DEF HealthInv, DownHasFailedLast, history

(* An update leaves nothing in the air that belongs to a checker in use.    *)
LEMMA RenewTypes ==
  ASSUME HealthInv, NEW found \in SUBSET Found,
         checkers' = NewCheckers(found), flight' = Retired \/ (flight' = flight /\ InAir = {})
  PROVE  /\ InAir' = InAir
         /\ \A t \in Target : /\ t \in Checked' => checkers'[t] \in Checker
                              /\ flight'[t] \in Air /\ ~Own(t)'
<1>1. \A t \in found : NewChecker(policy) \in Checker
  BY FoundTypes DEF NewChecker, Checker
<1>2. ASSUME NEW t \in Target
      PROVE  /\ t \in Checked' => checkers'[t] \in Checker
             /\ flight'[t] \in Air /\ ~Own(t)' /\ (t \in InAir' <=> t \in InAir)
  <2>1. t \in Checked' => checkers'[t] \in Checker
    BY <1>1 DEF NewCheckers, Checked
  <2>2. CASE flight' = Retired /\ Own(t)
    <3> DEFINE r == [own |-> FALSE, fails |-> checkers[t].fails, max |-> checkers[t].config.max]
    <3>1. flight'[t] = r
      BY <2>2 DEF Retired
    <3>2. checkers[t] \in Checker
      BY <2>2, Facts
    <3>3. r \in RetiredCheck
      BY <3>2, Distinct DEF Checker, RetiredCheck
    <3> QED
      BY <2>1, <2>2, <3>1, <3>3, Distinct DEF Air, Own, InAir
  <2>3. CASE ~(flight' = Retired /\ Own(t))
    <3>1. flight'[t] = flight[t] /\ ~Own(t)
      BY <2>3 DEF Retired, Own
    <3> QED
      BY <2>1, <3>1 DEF HealthInv, Own, InAir
  <2> QED
    BY <2>2, <2>3
<1> QED
  BY <1>2 DEF InAir

LEMMA PassKeeps ==
  ASSUME HealthInv, Pass
  PROVE  HealthInv'
<1> DEFINE kinds == dirty \cap subscribed
<1>t. /\ dirty \subseteq {"Backend", "Policy"} /\ subscribed \subseteq {"Backend", "Policy"}
      /\ kinds \subseteq {"Backend", "Policy"} /\ HealthTypeOK
  BY DEF HealthInv, HealthTypeOK
<1>u. UNCHANGED <<backend, policy, loop, unhealthy, history>> /\ pending' = FALSE
  BY DEF Pass
<1>1. ASSUME UNCHANGED <<checkers, flight>>, dirty' \subseteq {"Backend", "Policy"},
             cached' \in BOOLEAN, subscribed' \subseteq {"Backend", "Policy"},
             inUse' \in Policies \cup {None}
      PROVE  HealthInv'
  <2>1. HealthTypeOK'
    BY <1>1, <1>u DEF HealthInv, HealthTypeOK, Checked, InAir, Own
  <2> QED
    BY <1>1, <1>u, <2>1
    DEF HealthInv, CountsStreak, DownHasFailedLast, Checked, InAir, history
<1>2. ASSUME NEW found \in SUBSET Found, checkers' = NewCheckers(found), flight' = Retired,
             dirty' \subseteq {"Backend", "Policy"},
             cached' \in BOOLEAN, subscribed' \subseteq {"Backend", "Policy"},
             inUse' \in Policies \cup {None}
      PROVE  HealthInv'
  <2>1. HealthTypeOK'
    BY <1>2, <1>u, <1>t, RenewTypes DEF HealthTypeOK, Air
  <2> QED
    BY <1>2, <1>u, <2>1, RenewKeeps
<1>3. CASE kinds = {}
  BY <1>1, <1>3, <1>t DEF Pass, HealthTypeOK
<1>4. CASE kinds # {} /\ ~Throws
  <2>1. dirty' = {} /\ Update(kinds)
    BY <1>4 DEF Pass
  <2>2. /\ inUse' \in Policies \cup {None} /\ cached' \in BOOLEAN
        /\ subscribed' \subseteq {"Backend", "Policy"}
    BY <2>1, <1>t DEF Update, HealthTypeOK
  <2>3. CASE backend = None
    BY <1>1, <2>1, <2>2, <2>3 DEF Update
  <2>4. CASE backend # None
    BY <1>2, <2>1, <2>2, <2>4 DEF Update
  <2> QED
    BY <2>3, <2>4
<1>5. CASE kinds # {} /\ Throws
  <2>1. PICK kind \in {"Backend", "Policy"} : UpdateThrows(kind)
    BY <1>5 DEF Pass
  <2> QED
    BY <1>2, <1>t, <2>1 DEF UpdateThrows, HealthTypeOK
<1> QED
  BY <1>3, <1>4, <1>5

LEMMA MakeKeeps ==
  ASSUME HealthInv, Make
  PROVE  HealthInv'
<1>1. /\ checkers' = NewCheckers(Found) /\ flight' = flight /\ InAir = {}
      /\ UNCHANGED <<resources, unhealthy, history>> /\ loop = "exited"
      /\ loop' \in {"exited", "waiting"}
  BY DEF Make, HealthInv, HealthTypeOK
<1>2. HealthTypeOK'
  BY <1>1, RenewTypes DEF Make, HealthInv, HealthTypeOK, Air, resources
<1> QED
  BY <1>1, <1>2, RenewKeeps

----------------------------------------------------------------------------
(* The loop *)

LEMMA TurnKeeps ==
  ASSUME HealthInv, NEW d \in 1..MaxWait, Turn(d)
  PROVE  HealthInv'
<1> DEFINE due == {t \in Checked : Due(t, d)}
<1>1. /\ flight' = [t \in Target |-> IF t \in due THEN OwnCheck ELSE None]
      /\ loop' = IF due = {} THEN "waiting" ELSE "checking"
      /\ checkers' = [t \in Target |-> IF t \in Checked THEN Turned(t, d) ELSE None]
      /\ UNCHANGED <<resources, cached, subscribed, inUse, history>>
      /\ due \subseteq Target
  BY DEF Turn, Checked
<1>2. ASSUME NEW t \in Checked
      PROVE  /\ Turned(t, d) \in Checker
             /\ Turned(t, d).fails = checkers[t].fails \/ Turned(t, d).fails = 0
  <2> DEFINE c == checkers[t]
             since == Up(c.since, d, Config(t).interval + Config(t).wait)
  <2>1. c \in Checker /\ Config(t) \in Policies /\ Config(t) = c.config
    BY Facts DEF Checked, Config, Checker
  <2>2. since \in Nat
    <3>1. d \in Nat
      BY PoliciesAssumption DEF PoliciesAssumption
    <3>2. Config(t).interval \in Nat /\ Config(t).wait \in Nat
      BY <2>1, Distinct
    <3>3. c.since \in Nat
      BY <2>1 DEF Checker
    <3> QED
      BY <3>1, <3>2, <3>3 DEF Up
  <2>3. CASE Due(t, d)
    BY <2>1, <2>3 DEF Turned, Checker
  <2>4. CASE ~Due(t, d) /\ Reset(t, d)
    <3>1. Turned(t, d) = [c EXCEPT !.fails = 0, !.healthy = TRUE]
      BY <2>4 DEF Turned
    <3>2. /\ [c EXCEPT !.fails = 0, !.healthy = TRUE] \in Checker
          /\ [c EXCEPT !.fails = 0, !.healthy = TRUE].fails = 0
      BY <2>1 DEF Checker
    <3> QED
      BY <3>1, <3>2
  <2>5. CASE ~Due(t, d) /\ ~Reset(t, d)
    <3>1. Turned(t, d) = [c EXCEPT !.since = since]
      BY <2>5 DEF Turned
    <3> HIDE DEF since
    <3>2. [c EXCEPT !.since = since] \in Checker /\ [c EXCEPT !.since = since].fails = c.fails
      BY <2>1, <2>2 DEF Checker
    <3> QED
      BY <3>1, <3>2
  <2> QED
    BY <2>3, <2>4, <2>5
<1>3. checkers' \in [Target -> Checker \cup {None}]
  BY <1>1, <1>2
<1>4. Checked' = Checked
  BY <1>1, <1>2, Distinct DEF Checked
<1>5. InAir' = due /\ \A t \in Target : Own(t)' => t \in due
  BY <1>1, Distinct DEF InAir, Own
<1>6. unhealthy' \subseteq unhealthy
  BY DEF Turn
<1>7. \A t \in Target : /\ t \in Checked' => checkers'[t] \in Checker
                        /\ flight'[t] \in Air
  BY <1>1, <1>2, <1>4 DEF Air
<1>8. HealthTypeOK'
  BY <1>1, <1>4, <1>5, <1>6, <1>7 DEF HealthInv, HealthTypeOK, Air, resources
<1>9. CountsStreak'
  <2>1. \A t \in Checked' : checkers'[t].fails <= streak'[t]
    <3> SUFFICES ASSUME NEW t \in Checked' PROVE checkers'[t].fails <= streak'[t]
      OBVIOUS
    <3>1. t \in Checked /\ t \in Target /\ streak'[t] = streak[t] /\ streak[t] \in Nat
      BY <1>1, <1>4 DEF Checked, history, HealthInv
    <3>2. checkers'[t] = Turned(t, d) /\ checkers[t].fails <= streak[t]
      BY <1>1, <3>1 DEF HealthInv, CountsStreak
    <3> QED
      BY <1>2, <3>1, <3>2
  <2>2. \A t \in InAir' : flight'[t].own
    BY <1>1, <1>5, Distinct
  <2> QED
    BY <2>1, <2>2 DEF CountsStreak
<1> QED
  BY <1>1, <1>3, <1>6, <1>7, <1>8, <1>9 DEF HealthInv, DownHasFailedLast, history

(* A check that ends leaves the air; the counts of others are as before.    *)
LEMMA LandedKeeps ==
  ASSUME HealthInv, NEW t \in InAir, Landed(t), UNCHANGED resources,
         NEW c, checkers' = IF Own(t) THEN [checkers EXCEPT ![t] = c] ELSE checkers,
         Own(t) => c \in Checker /\ c.fails <= streak'[t],
         streak' \in [Target -> Nat], \A u \in Target \ {t} : streak'[u] = streak[u],
         last' \in [Target -> {"none", "ok", "fail", "lost"}],
         \A u \in Target \ {t} : last'[u] = last[u],
         unhealthy' \subseteq unhealthy \cup {t},
         t \in unhealthy' => last'[t] \in {"fail", "lost"}
  PROVE  HealthInv'
<1>1. /\ flight' = [flight EXCEPT ![t] = None] /\ t \in Target
      /\ loop' = IF InAir = {t} THEN "waiting" ELSE "checking"
      /\ UNCHANGED <<cached, subscribed, inUse>>
  BY DEF Landed, InAir
<1>2. InAir' = InAir \ {t} /\ flight' \in [Target -> Air]
  BY <1>1 DEF InAir, HealthInv, Air
<1>3. Checked' = Checked /\ checkers' \in [Target -> Checker \cup {None}]
  <2>1. Own(t) => t \in Checked
    BY <1>1 DEF HealthInv, HealthTypeOK
  <2>2. checkers' \in [Target -> Checker \cup {None}]
    BY DEF HealthInv
  <2>3. \A u \in Target : checkers'[u] # None <=> checkers[u] # None
    BY <2>1, Distinct, <1>1 DEF HealthInv, Checked
  <2> QED
    BY <2>2, <2>3 DEF Checked
<1>4. ASSUME NEW u \in Target
      PROVE  /\ u \in Checked' => checkers'[u] \in Checker
             /\ flight'[u] \in Air
             /\ Own(u)' => u \in Checked'
    <2>1. u \in Checked' => checkers'[u] \in Checker
      BY <1>3 DEF Checked
    <2>2. Own(u)' => u # t /\ flight'[u] = flight[u]
      BY <1>1, <1>2 DEF Own, HealthInv
    <2>3. Own(u)' => Own(u)
      BY <1>2, <2>2 DEF Own
    <2> QED
      BY <1>2, <1>3, <2>1, <2>3 DEF HealthInv, HealthTypeOK
<1>5. loop' = "checking" <=> InAir' # {}
  BY <1>1, <1>2
<1>6. HealthTypeOK'
  BY <1>1, <1>4, <1>5 DEF HealthInv, HealthTypeOK, Air, resources
<1>7. CountsStreak'
  <2>1. ASSUME NEW u \in Checked' PROVE checkers'[u].fails <= streak'[u]
    <3>1. u \in Checked /\ u \in Target /\ checkers[u].fails <= streak[u]
      BY <1>3, <2>1 DEF HealthInv, CountsStreak, Checked
    <3>2. CASE u # t
      BY <3>1, <3>2 DEF HealthInv
    <3>3. CASE u = t /\ Own(t)
      BY <3>1, <3>3 DEF HealthInv
    <3>4. CASE u = t /\ ~Own(t)
      <4>1. checkers[t].fails = 0
        BY <3>1, <3>4 DEF HealthInv, CountsStreak, Own
      <4> QED
        BY <4>1, <3>1, <3>4
    <3> QED
      BY <3>2, <3>3, <3>4
  <2>2. ASSUME NEW u \in InAir', ~flight'[u].own
        PROVE  flight'[u].fails <= streak'[u] /\ (u \in Checked' => checkers'[u].fails = 0)
    <3>1. u \in InAir /\ u # t /\ u \in Target /\ flight'[u] = flight[u]
      BY <1>1, <1>2, <2>2 DEF InAir, HealthInv
    <3>2. checkers'[u] = checkers[u] /\ streak'[u] = streak[u]
      BY <3>1 DEF HealthInv
    <3> QED
      BY <1>3, <2>2, <3>1, <3>2 DEF HealthInv, CountsStreak
  <2> QED
    BY <2>1, <2>2 DEF CountsStreak
<1>8. DownHasFailedLast'
  BY <1>1 DEF HealthInv, HealthTypeOK, DownHasFailedLast
<1> QED
  BY <1>2, <1>3, <1>6, <1>7, <1>8 DEF HealthInv

LEMMA SuccessKeeps ==
  ASSUME HealthInv, NEW t \in Target, Success(t)
  PROVE  HealthInv'
<1> DEFINE c == Cleared(checkers[t])
<1>1. /\ t \in InAir /\ Landed(t) /\ UNCHANGED resources
      /\ checkers' = IF Own(t) THEN [checkers EXCEPT ![t] = c] ELSE checkers
      /\ unhealthy' = unhealthy \ {t}
      /\ streak' = [streak EXCEPT ![t] = 0] /\ last' = [last EXCEPT ![t] = "ok"]
  BY DEF Success, PutBack, Landed
<1>2. Own(t) => c \in Checker /\ c.fails = 0
  BY Facts DEF Cleared, Checker
<1>3. /\ streak' \in [Target -> Nat] /\ streak'[t] = 0
      /\ \A u \in Target \ {t} : streak'[u] = streak[u]
      /\ last' \in [Target -> {"none", "ok", "fail", "lost"}]
      /\ \A u \in Target \ {t} : last'[u] = last[u]
  BY <1>1 DEF HealthInv
<1> HIDE DEF c
<1> QED
  BY <1>1, <1>2, <1>3, LandedKeeps

(* A failure counts one more, and takes an address down at the limit.       *)
LEMMA FailureCounts ==
  ASSUME HealthInv, NEW t \in InAir
  PROVE  /\ Count(t) \in Nat /\ Limit(t) \in Nat \ {0} /\ Count(t) <= streak[t]
         /\ streak[t] \in Nat /\ t \in Target
         /\ Own(t) => /\ checkers[t] \in Checker /\ Count(t) = checkers[t].fails
                      /\ Limit(t) = checkers[t].config.max
<1>1. t \in Target /\ streak[t] \in Nat
  BY DEF InAir, HealthInv
<1>2. CASE Own(t)
  <2>1. checkers[t] \in Checker /\ checkers[t].fails <= streak[t]
    BY <1>1, <1>2, Facts DEF HealthInv, CountsStreak
  <2>2. checkers[t].fails \in Nat /\ checkers[t].config \in Policies
    BY <2>1 DEF Checker
  <2> QED
    BY <1>1, <1>2, <2>1, <2>2, Distinct DEF Count, Limit, Config
<1>3. CASE ~Own(t)
  <2>1. flight[t] \in RetiredCheck /\ flight[t].fails <= streak[t]
    BY <1>1, <1>3, Facts DEF HealthInv, CountsStreak, Own
  <2> QED
    BY <1>1, <1>3, <2>1, Distinct DEF Count, Limit
<1> QED
  BY <1>2, <1>3

LEMMA FailureKeeps ==
  ASSUME HealthInv, NEW t \in Target, Failure(t)
  PROVE  HealthInv'
<1> DEFINE fails == Up(checkers[t].fails, 1, Config(t).max)
           healthy == checkers[t].healthy /\ ~Down(t)
           c == [checkers[t] EXCEPT !.fails = fails, !.healthy = healthy]
<1>1. /\ t \in InAir /\ Landed(t) /\ UNCHANGED resources
      /\ unhealthy' \subseteq unhealthy \cup {t} /\ last' = [last EXCEPT ![t] = "fail"]
      /\ streak' = [streak EXCEPT ![t] = IF @ > Limit(t) THEN @ ELSE @ + 1]
  BY DEF Failure, Landed
<1>2. checkers' = IF Own(t) THEN [checkers EXCEPT ![t] = c] ELSE checkers
  <2>1. CASE Own(t)
    BY <2>1 DEF Failure, HealthInv
  <2> QED
    BY <2>1 DEF Failure
<1>3. /\ streak'[t] = IF streak[t] > Limit(t) THEN streak[t] ELSE streak[t] + 1
      /\ streak' \in [Target -> Nat] /\ \A u \in Target \ {t} : streak'[u] = streak[u]
      /\ last' \in [Target -> {"none", "ok", "fail", "lost"}] /\ last'[t] = "fail"
      /\ \A u \in Target \ {t} : last'[u] = last[u]
  BY <1>1 DEF HealthInv
<1>4. Own(t) => c \in Checker /\ c.fails <= streak'[t]
  <2> SUFFICES ASSUME Own(t) PROVE c \in Checker /\ c.fails <= streak'[t]
    OBVIOUS
  <2>1. /\ checkers[t] \in Checker /\ Count(t) = checkers[t].fails /\ Count(t) <= streak[t]
        /\ Limit(t) = Config(t).max /\ Limit(t) \in Nat \ {0} /\ streak[t] \in Nat
        /\ Count(t) \in Nat
    BY <1>1, FailureCounts DEF Config
  <2>2. fails \in Nat /\ fails <= streak'[t]
    BY <1>3, <2>1 DEF Up
  <2>3. healthy \in BOOLEAN
    BY <2>1 DEF Checker
  <2> HIDE DEF fails, healthy
  <2> QED
    BY <2>1, <2>2, <2>3 DEF Checker
<1> HIDE DEF c
<1> QED
  BY <1>1, <1>2, <1>3, <1>4, LandedKeeps

LEMMA NoAnswerKeeps ==
  ASSUME HealthInv, NEW t \in Target, NoAnswer(t)
  PROVE  HealthInv'
<1>1. /\ t \in InAir /\ Landed(t) /\ UNCHANGED resources
      /\ last' = [last EXCEPT ![t] = "lost"] /\ UNCHANGED <<checkers, unhealthy, streak>>
  BY DEF NoAnswer, Landed
<1>2. checkers = IF Own(t) THEN [checkers EXCEPT ![t] = checkers[t]] ELSE checkers
  BY DEF HealthInv
<1>3. Own(t) => checkers[t] \in Checker /\ checkers[t].fails <= streak'[t]
  BY <1>1, Facts DEF HealthInv, CountsStreak
<1>4. /\ streak' \in [Target -> Nat] /\ \A u \in Target \ {t} : streak'[u] = streak[u]
      /\ last' \in [Target -> {"none", "ok", "fail", "lost"}] /\ last'[t] = "lost"
      /\ \A u \in Target \ {t} : last'[u] = last[u]
  BY <1>1 DEF HealthInv
<1> QED
  BY <1>1, <1>2, <1>3, <1>4, LandedKeeps

LEMMA HealthKeeps == HealthInv /\ [Next]_vars => HealthInv'
<1> SUFFICES ASSUME HealthInv, [Next]_vars PROVE HealthInv'
  OBVIOUS
<1>1. ASSUME UNCHANGED <<cached, subscribed, inUse, checkers, flight, unhealthy, history>>,
             backend' \in {None} \cup SUBSET Target, policy' \in Policies \cup {None},
             dirty' \subseteq {"Backend", "Policy"}, pending' \in BOOLEAN,
             loop' \in {"exited", "checking", "waiting"},
             loop' = "checking" <=> loop = "checking"
      PROVE  HealthInv'
  <2>1. HealthTypeOK'
    BY <1>1 DEF HealthInv, HealthTypeOK, Checked, InAir, Own
  <2> QED
    BY <1>1, <2>1 DEF HealthInv, CountsStreak, DownHasFailedLast, Checked, InAir, history
<1>2. CASE Change
  <2>1. HealthTypeOK
    BY DEF HealthInv
  <2>2. ASSUME NEW ts \in {None} \cup SUBSET Target, ChangeBackend(ts) PROVE HealthInv'
    BY <1>1, <2>1, <2>2 DEF ChangeBackend, HealthTypeOK
  <2>3. ASSUME NEW p \in Policies \cup {None}, ChangePolicy(p) PROVE HealthInv'
    BY <1>1, <2>1, <2>3 DEF ChangePolicy, HealthTypeOK
  <2> QED
    BY <1>2, <2>2, <2>3 DEF Change
<1>3. CASE Exit
  <2>1. /\ UNCHANGED <<backend, policy, dirty, pending, cached, subscribed, inUse, checkers,
                       flight, unhealthy, history>>
        /\ loop = "waiting" /\ loop' = "exited"
    BY <1>3 DEF Exit, resources
  <2>2. /\ backend \in {None} \cup SUBSET Target /\ policy \in Policies \cup {None}
        /\ dirty \subseteq {"Backend", "Policy"} /\ pending \in BOOLEAN
    BY DEF HealthInv, HealthTypeOK
  <2>3. /\ UNCHANGED <<cached, subscribed, inUse, checkers, flight, unhealthy, history>>
        /\ loop' \in {"exited", "checking", "waiting"}
        /\ loop' = "checking" <=> loop = "checking"
    BY <2>1
  <2> QED
    BY <1>1, <2>1, <2>2, <2>3
<1>4. CASE UNCHANGED vars
  <2>1. HealthTypeOK'
    BY <1>4 DEF vars, HealthInv, HealthTypeOK, Checked, InAir, Own
  <2> QED
    BY <1>4, <2>1 DEF vars, HealthInv, CountsStreak, DownHasFailedLast, Checked, InAir
<1> QED
  BY <1>2, <1>3, <1>4, PassKeeps, MakeKeeps, TurnKeeps, SuccessKeeps, FailureKeeps,
     NoAnswerKeeps DEF Next, Turns, Lands

(* The types, and that the loop waits exactly for the checks in the air.    *)
THEOREM HealthTypeCorrect == Spec => []HealthTypeOK
<1> QED
  BY HealthStarts, HealthKeeps, PTL DEF Spec, HealthInv

(* The last check of an address that is down was no success, not even one   *)
(* begun before an update (health-check.js:92-100).                         *)
THEOREM DownAlwaysFailedLast == Spec => []DownHasFailedLast
<1> QED
  BY HealthStarts, HealthKeeps, PTL DEF Spec, HealthInv

(* An address goes down only after as many failures in a row as the policy  *)
(* of the check that fails asks for, whatever updates came in between       *)
(* (health-check.js:92-112).                                                *)
THEOREM AlwaysDownAfterStreak == Spec => DownAfterStreak
<1>1. ASSUME HealthInv, [Next]_vars, NEW t \in unhealthy' \ unhealthy
      PROVE  streak'[t] >= Limit(t)
  <2>1. Failure(t) /\ t \in Target
    BY <1>1 DEF Next, Change, ChangeBackend, ChangePolicy, Pass, Make, Turns, Turn, Exit, Lands,
                Success, Failure, NoAnswer, vars
  <2>2. Down(t) /\ t \in InAir
    BY <1>1, <2>1 DEF Failure
  <2>3. streak'[t] = IF streak[t] > Limit(t) THEN streak[t] ELSE streak[t] + 1
    BY <1>1, <2>1 DEF Failure, HealthInv
  <2> QED
    BY <1>1, <2>2, <2>3, FailureCounts DEF Down
<1>2. HealthInv /\ [Next]_vars => [\A t \in unhealthy' \ unhealthy : streak'[t] >= Limit(t)]_vars
  BY <1>1
<1> QED
  BY <1>2, HealthStarts, HealthKeeps, PTL DEF Spec, DownAfterStreak
============================================================================
