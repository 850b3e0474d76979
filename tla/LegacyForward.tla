--------------------------- MODULE LegacyForward ---------------------------
(***************************************************************************)
(* Forwarding of HTTP requests to the endpoints of one service in the      *)
(* legacy gateway (pjs/http/forward.js): choice of an endpoint, sticky     *)
(* cookies, retries, failover, and what it reports to the health check.    *)
(*                                                                         *)
(* Endpoints of weight 0 are the failover balancer; the first one leaves   *)
(* them out only where the algorithm is set to round robin by name.  A     *)
(* round that finds no target gets a 502 of http/default.js, which is      *)
(* retried as any other.                                                   *)
(*                                                                         *)
(* The cache of unavailable targets is fetched once, when a request        *)
(* begins, and is nothing before the first failure of the service.  What   *)
(* is kept for a request, the kind of its last connection error included,  *)
(* lives through its retries.                                              *)
(*                                                                         *)
(* The algorithm of a balancer is native: it yields any of its targets     *)
(* that are not in the cache it is given.  The fail() for a refused        *)
(* attempt that is retried may be cut off by the retry.  The service may   *)
(* be the target of TCP ports as well.                                     *)
(***************************************************************************)
EXTENDS LegacyHealthCheck

CONSTANTS Request,
          Backup,     \* the targets of weight 0
          RoundRobin, \* whether the Algorithm is "RoundRobinLoadBalancer" by name
          NumRetries,
          RetryOn,    \* the classes of status that are retried
          Sticky      \* whether the service has a StickyCookieName

Status == {"ok", "client", "server"}

ASSUME ForwardAssumption ==
  /\ Backup \subseteq Target /\ NumRetries \in Nat
  /\ RetryOn \subseteq Status \ {"ok"} /\ None \notin Target
  /\ Sticky \in BOOLEAN /\ RoundRobin \in BOOLEAN

VARIABLES
  req,       \* the context of each request
  attempts   \* history: how often a request was sent upstream

allVars == <<vars, req, attempts>>

Context ==
  [phase    : {"idle", "sent", "backoff", "done"},
   cache    : BOOLEAN,                \* _unhealthCache is a cache
   balancer : {"target", "failover"}, \* _targetBalancer
   spare    : BOOLEAN,                \* _failoverBalancer is still there
   retries  : 0..NumRetries, isRetry : BOOLEAN,
   cookie   : {None} \cup Target,     \* the target that the client's cookie names
   target   : {None} \cup Target,
   cookieId : {None} \cup Target,     \* the target that the response's cookie names
   refused  : BOOLEAN]                \* __upstreamError is "ConnectionRefused"

Limit == (NumRetries + 1) * (IF Backup = {} THEN 1 ELSE 2)

ForwardTypeOK ==
  /\ HealthTypeOK /\ req \in [Request -> Context]
  /\ attempts \in [Request -> 0..(Limit + 1)]

----------------------------------------------------------------------------
(* Failover and shouldRetry() *)

\* Mutant: the failover balancer stays available
FailoverAgain(q) == [q EXCEPT !.balancer = "failover", !.isRetry = TRUE]

Failover(q) == [q EXCEPT !.balancer = "failover", !.spare = FALSE, !.isRetry = TRUE]

MayRetry(q, status) == status \in RetryOn /\ q.retries < NumRetries

\* The context after shouldRetry(), and whether it answers true
Retried(q, status) ==
  CASE MayRetry(q, status) ->
         [again |-> TRUE, q |-> [q EXCEPT !.retries = @ + 1, !.isRetry = TRUE]]
    [] ~MayRetry(q, status) /\ q.spare /\ status = "server" ->
         [again |-> TRUE, q |-> [Failover(q) EXCEPT !.retries = 0]]
    [] OTHER -> [again |-> FALSE, q |-> q]

\* A response that shouldRetry() answers true to is replaced by a replay
Settled(next) == [next.q EXCEPT !.phase = IF next.again THEN "backoff" ELSE "done"]

----------------------------------------------------------------------------
(* The pipeline 'upstream', on the way to the endpoint *)

\* makeServiceConfig(), failover()
Balanced(q) == IF q.balancer = "failover" THEN Backup
               ELSE IF RoundRobin THEN Target \ Backup ELSE Target

Pool(q) == Balanced(q) \ (IF q.cache THEN Unavailable ELSE {})

\* The client's cookie counts on the first attempt, unless its target is unavailable
ByCookie(q) == /\ Sticky /\ ~q.isRetry /\ q.cookie # None
               /\ ~(q.cache /\ q.cookie \in Unavailable)

\* Mutant: the cookie for the response is made for the first target only
CookieOnce(q, t) == IF Sticky /\ ~q.isRetry THEN t ELSE q.cookieId

CookieFor(q, t) == IF Sticky THEN t ELSE None

\* A balancer that has nothing to offer leaves the former target in place
Chosen(q) ==
  IF ByCookie(q) THEN {[q EXCEPT !.target = q.cookie, !.cookieId = None]}
  ELSE {[q EXCEPT !.target = t, !.cookieId = CookieFor(q, t)] :
          t \in IF Pool(q) = {} THEN {q.target} ELSE Pool(q)}

\* Mutant: rounds that find no target are replayed and not counted
Uncounted(q) == [(IF q.spare THEN Failover(q) ELSE q) EXCEPT !.phase = "backoff"]

\* A round without a target is sent again to the failover balancer, or else it gets the
\* 502 of http/default.js, and shouldRetry() is asked
WithoutTarget(q) == IF q.spare THEN [Failover(q) EXCEPT !.phase = "backoff"]
                    ELSE Settled(Retried(q, "server"))

\* One round of the pipeline after n attempts
Upstream(r, q, n) ==
  \E c \in Chosen(q) :
    \/ /\ c.target # None
       /\ req' = [req EXCEPT ![r] = [c EXCEPT !.phase = "sent"]]
       /\ attempts' = [attempts EXCEPT ![r] = UpTo(n + 1, Limit + 1)]
    \/ /\ c.target = None
       /\ req' = [req EXCEPT ![r] = WithoutTarget(c)]
       /\ attempts' = [attempts EXCEPT ![r] = n]

Fresh(cookie) ==
  [phase |-> "idle", cache |-> unavailable # None, balancer |-> "target",
   spare |-> Backup # {}, retries |-> 0, isRetry |-> FALSE, cookie |-> cookie,
   target |-> None, cookieId |-> None, refused |-> FALSE]

Begin(r, cookie) ==
  /\ req[r].phase \in {"idle", "done"} /\ (Sticky \/ cookie = None)
  /\ Upstream(r, Fresh(cookie), 0)
  /\ UNCHANGED vars

\* The replay, after its delay
Again(r) ==
  /\ req[r].phase = "backoff"
  /\ Upstream(r, req[r], attempts[r])
  /\ UNCHANGED vars

----------------------------------------------------------------------------
(* The way back: the report to the health check, then shouldRetry() *)

\* fail() is called on the target of an attempt whose context says it was refused.
\* The history is that of the target, whose success is a response below 500.
ReportRefused(t, refused, status, cut) ==
  /\ IF status = "server" THEN Failed(t) ELSE Succeeded(t)
  /\ IF refused /\ ~cut THEN Fail(t) ELSE UNCHANGED <<records, downFor>>

\* An attempt ends with a response of some status, or with an error of the connection,
\* that becomes a response of the class "server" and is remembered
Answer(r, status, error) ==
  /\ req[r].phase = "sent" /\ (error # "none" => status = "server")
  /\ LET q       == req[r]
         refused == error = "refused" \/ (error = "none" /\ q.refused)
         next    == Retried([q EXCEPT !.refused = refused], status)
     IN /\ req' = [req EXCEPT ![r] = Settled(next)]
        /\ \E cut \in (IF next.again THEN BOOLEAN ELSE {FALSE}) :
             ReportRefused(q.target, refused, status, cut)
  /\ UNCHANGED <<hc, tick, flight, conns, attempts>>

ForwardInit ==
  /\ HealthInit
  /\ req = [r \in Request |-> Fresh(None)] /\ attempts = [r \in Request |-> 0]

Serve(r) ==
  \/ \E cookie \in {None} \cup Target : Begin(r, cookie)
  \/ Again(r)
  \/ \E status \in Status, error \in {"none", "refused", "other"} : Answer(r, status, error)

Health == HealthNext /\ UNCHANGED <<req, attempts>>

ForwardNext == Health \/ \E r \in Request : Serve(r)

Answered(r) == \E status \in Status, error \in {"none", "refused", "other"} :
                 Answer(r, status, error)

\* Replays are sent, and attempts end: a SocketTimeout limits each of them
AttemptsEnd == \A r \in Request : WF_allVars(Again(r)) /\ WF_allVars(Answered(r))

ForwardSpec == ForwardInit /\ [][ForwardNext]_allVars /\ AttemptsEnd

----------------------------------------------------------------------------
(* Properties *)

\* A request is sent at most NumRetries + 1 times to each of the two balancers, though
\* the count of retries starts again at failover, and rounds without a target are replayed
\* in between.
AttemptsBounded == \A r \in Request : attempts[r] <= Limit

\* Retries, failover and rounds without a target come to an end: each request is answered.
Completes == \A r \in Request : req[r].phase \in {"sent", "backoff"} ~> req[r].phase = "done"

\* The session follows the request: the client's cookie, or the new one in the response,
\* names the target that the last attempt went to, whatever was tried before.
CookieNamesTarget ==
  Sticky => \A r \in Request : req[r].phase \in {"sent", "done"} /\ req[r].target # None =>
    (IF req[r].cookieId = None THEN req[r].cookie ELSE req[r].cookieId) = req[r].target
=============================================================================
