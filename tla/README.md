# A specification of FGW, the Flomesh gateway

This directory models the control logic of FGW in TLA+: how configuration files
become listeners, routers and balancers and are kept up to date while the files change;
how a request finds its rule, is limited, retried and kept in its session; how unhealthy
upstreams are found. Of the legacy gateway in `pjs/` it models health checks, forwarding,
the circuit breaker and the throttles, and how a request finds its route and is allowed
on it. Of the programs around the gateway it models the client that fills the repository,
and the device of the iot gateway. The models are checked with TLC on small instances,
and their invariants and action properties are proved with TLAPS for all instances. Paths below are relative to the repository root.

## 1. The system

FGW is a gateway in JavaScript on the Pipy runtime. One thread runs JavaScript
to completion; between two runs anything may happen: timers, promises, file
watches, requests. The parts:

| part | state it keeps | operations | talks to |
|---|---|---|---|
| resource store, `src/resources.js` | `files`, `resourceMap` (a list and a dictionary per kind), `updaters`, secrets | load, reload a changed file, find, list, subscribe, run updaters | file watch or mesh; calls the watcher |
| reconciler, `src/gateway.js` | the dirty marks, the debounce timer, `currentListeners` | mark, arm, pass over backends, routers, policies, gateways; start a gateway | store, routers, `pipy.listen()` |
| routers, `src/modules/router-*.js` | the routing table of one listener, the subscription of its key; for Dubbo a cache of selections | build, update, match a request | backend selector |
| backends, `src/modules/backend.js`, `backend-selector.js` | the cache of balancers with their targets and load | make, provision, remove, connect | store |
| health check, `src/modules/health-check.js` | checkers by address, the shared set of unhealthy addresses, the loop | update, check, fail, reset | store, balancers |
| balancers and sessions, `src/modules/balancer-*.js`, `session-persistence.js` | sessions, the tries of a request | choose a target, time out, retry, preserve a session | backend, health check |
| filters, `src/filters/**` | quotas, and the numbers of a circuit breaker, shared by all threads | admit, pay back, check, trip | none |
| mesh application, `src/main.ztm.js` | none of its own | local gateways, tunnels, command line | store over the mesh |
| legacy gateway, health: `pjs/common/health-check.js` | a record per endpoint, the cache of unavailable ones | probe, report, reset after a time | forwarding |
| legacy gateway, forwarding: `pjs/*/forward.js` | the context of each request: balancer, retries, cookie, error | choose, send, retry, fail over | health |
| legacy gateway, limits: `pjs/http/circuit-breaker.js`, `throttle-*.js` | counts of a window, delays, backlogs | admit, count, open, close | none |
| legacy gateway, routing: `pjs/config.js`, `pjs/http/route.js`, `auth.js`, `service.js`, access control, `pjs/server/web-server.js`; `pjs/common/tls-termination.js` | the tables made of the configuration, open directories, the consumer of a TLS connection | find the entry, the route and the service; admit; serve a file | forwarding |
| repository client, `main.go`, `pkg/**` | codebases on a Pipy repo | create, derive, upload, commit | HTTP |
| iot gateway, `iot-gateway/pjs/**` | three files and what is in memory of them, a token, samples | log in, query, write, restart; collect, post, unlink | HTTP |
| GUI, demos | none of interest here | | |

What makes it hard:

* Configuration changes arrive while the former ones are still being worked off.
  What must be rebuilt is found by following references of routes and policies,
  from both the old and the new content.
* Subscriptions are one-shot. An exception at the wrong place leaves a router or
  a backend unreachable for later changes, or the store deaf.
* Objects outlive their names: a cached backend, a router and a health checker
  live on in closures after they were replaced.
* Results of asynchronous calls (health checks, reads of a mesh, answers to requests of a
  former window, posts of samples) arrive after the state they were asked for has changed.
* Ports are shared between gateways, names between files, sessions between requests, and
  the numbers of a circuit breaker between threads that read and add call by call.
* A request may end at any point: before its turn in a backlog, between two tries, behind
  a timeout that has answered already.
* Programs end between two calls or two writes, and calls fail with and without effect.

What makes each part correct is stated by the properties of section 3; the list
of hazards in `PROJECT.json` names the lines where they bite.

## 2. The modules

| module | models | extends |
|---|---|---|
| `ResourceStore` | the indexes of the store and one reload (`changeFile()`) | |
| `FileStore` | the store over a directory with a watch, or over a mesh | `ResourceStore` |
| `Reconciler` | marks, timer, pass, listeners, routers, cached backends | |
| `HealthCheck` | the health check of one backend with its policy and passes | |
| `RouteMatch` | how an HTTP router finds the rule for a request | |
| `DubboRoute` | how a Dubbo router finds the target of a call, and keeps it | |
| `HttpRule` | timeouts, retries, balancing and sessions of one HTTP rule | |
| `Places` | what a filter that limits streams promises (abstract) | |
| `Admission` | three filters that limit streams, each of which implements `Places` | `Places` (instance) |
| `CircuitBreak` | the circuit breaker of the new gateway, shared by threads | |
| `LegacyHealthCheck` | health of the endpoints of a service in `pjs/` | |
| `LegacyForward` | HTTP requests forwarded to that service: retries, failover, sticky cookies | `LegacyHealthCheck` |
| `LegacyCircuitBreaker` | the circuit breaker of a service in `pjs/` | |
| `LegacyRoute` | access lists, domains, routes, authorization and files in `pjs/` | |
| `Codebase` | what a codebase promises to those that poll it (abstract) | |
| `RepoClient` | the client that fills the repository, and implements `Codebase` | `Codebase` (instance) |
| `IotDevice` | the three tasks of a device | |
| `MCFileStore`, `MCReconciler`, `MCHealthCheck`, `MCLegacyHealthCheck`, `MCRouteMatch` | small instances of one module | the module |
| `MCFilters` | `Admission`, `CircuitBreak`, `HttpRule`, one at a time | these |
| `MCLegacy` | health, `LegacyForward`, `LegacyCircuitBreaker`, one at a time | these |
| `MCMatching` | `RouteMatch`, `DubboRoute`, `LegacyRoute`, one at a time | these |
| `MCRemote` | `RepoClient` and `IotDevice`, one at a time | these |
| `Store_proofs`, `Reconciler_proofs`, `HealthCheck_proofs`, `Filters_proofs`, `Legacy_proofs`, `Remote_proofs`, `Matching_proofs` | theorems | the modules named |
| `DataLemmas` | lemmas about finite sets, orders and sequences | |

The modules with several parts have a variable `focus`: parts that share no state with each
other are run one at a time, since their interleavings would show nothing. Those that
do share state are composed by `EXTENDS`: `LegacyForward` and its requests report to and read
from `LegacyHealthCheck`, `FileStore` reloads through `ResourceStore`.

Operators whose comment starts with "Mutant:" are not part of a model. Each is
a wrong version of the operator below it, and shows that a property notices the
difference.

### ResourceStore

A resource is a JavaScript object. Two loads of one text are two objects, but a
file holds at most one live object, so the record of its path and document
stands for it. `files`, `list` and `dict` are the variables of the same names of
`src/resources.js`; the lists of all kinds are one set, so their order is lost.
`ChangeFile` is `changeFile()` with everything it calls: removal from both
indexes, insertion into both, and the calls of the watcher, kept in `notices`, up
to the first one that throws. `LoadFile` is a file that is loaded before there is a watcher,
which nobody is told of. The watcher throws on a `BackendLBPolicy` without
`targetRefs` (`gateway.js:255`): the constant `Poison` says which documents these
are. `clashed` is a history variable, the names that two live resources ever had
at once.

### FileStore

Adds the place the files are in. `disk` is what `readFile()` would return for each path, so
a file that is missing or cannot be parsed is `None`. `WriteSome` is any other process.

With a directory, `WatchResolves` is the resolution of `pipy.watch()`, with all paths
written since it was armed, `ReloadSome` one round of the loop over them. An exception in the
loop ends it and skips the call of `watch()`: `watch` is then `"dead"`.

With a mesh (`initZTM()`), `reads` holds the promises that are under way for each path: a
read is asked for, gets what the file holds at some moment, and is resolved in any order with
the others (`ReadSome`). `BeginWatch` comes after all reads of the first listing,
`MeshResolves` arms the watch again at once and asks for reads of what changed. `lost` is
history: the paths of which two reads overlapped, or that were written before there was a
watch. The code promises nothing of those, and an older content may stay.

### Reconciler

Resources are functions from names to contents (`gw`, `rt`, `be`, `lb`). The
contents are cut down to what the pass tells apart. A listener of a gateway is
good, or throws in `makeListener()` before or after its router is built. A route
has its parent references, the backends it names, and a flag for a rule that
`makeFilters()` throws on. A backend is an opaque value, some of them unusable
for `getTargets()`. A reference is known by the gateway it names and the
listeners its `sectionName` or `port` agree with. `Change...` are
`onResourceChange()` for each kind, including the marks for the former content.
`Arm` cancels the timer and sets it anew.

The pass, `updateDirtyResources()`, is one synchronous run. It is taken in steps,
`BeginPass`, one step per mark or listener, `BeginRouters`, `BeginGateways`,
`EndPass`, and changes wait until it is over (their guard is `phase = "idle"`).
The steps may be taken in any order within a part. That is more than the code
does, whose order is that of the marks. `Abort` is an exception in the first two
parts: the marks stay and no timer is pending. In the third part it costs the
listener only.

`router[l]` is the table of the router last served for a listener, with the
contents of the routes it was built from, the policies read for it, and for each
backend whether its balancer is the cached one (`"live"`), or one that has been
removed from the cache (`"orphan"`). `subRouter` and `subBackend` are the updater
registry: a router key leads to the served router, to one that was built but
never listened (`"unserved"`), or to nothing. `inst` is the cache of backends.
`failed`, `threw` and `aborted` are history variables that the properties use to
say after what exception they promise nothing.

The start of the process (`startGateway()` for every local gateway) is the third
part of a pass with every gateway dirty and no port open, which is the initial
state.

`Mesh` and `Local` are the gateway filter of `main.ztm.js`: it lets local gateways
through, and reads the content of a gateway that may not be there.

### HealthCheck

One backend, its targets and its policy. `Pass` is the part of a pass that concerns
them; it runs `update()` when a subscription for the changed kind is there.
`update()` makes new checkers; `flight` holds the checks in the air, which report to
the checker that began them, in use or not. `Turn` is one round of
`healthCheckAll()`, `Success`, `Failure` and `NoAnswer` the end of one check.
The round waits for all checks and one second. `unhealthy` is the map shared by all
threads. A policy is the set of targets on its ports, `maxFails`, `interval`,
`failTimeout`, and a flag for one that `findTargets()` throws on.

Named bounds: `MaxWait`, how many seconds a round may be late; a replaced health
check must have nothing running any more before its successor is made.

### RouteMatch

A table of routes, a request, and the match found for it. The routes are searched in the
two ways that `router-http.js` has: `Search` tries one match after another in the order
of priority (`USE_FAST_MATCH = false`), `FastSearch` asks an index of paths, then one of
methods, and tests only what is left of a match (`USE_FAST_MATCH = true`, what is in use).
Hosts are sequences of labels and paths sequences of segments, since lengths and prefixes
are all that counts. `BestPattern` is external: `algo.URLRouter` is native, and is taken to
find the most specific pattern, and `base/*` for `base` itself. `Begin` is a request that is
routed, `End` its end: `$selection` belongs to one request.

### DubboRoute

`Found` is the search over the matches of the present routes, and `Handle` a call: it takes
what is kept for its key, or selects and keeps it. `UpdateRules` is a new router with a new
cache, `Outdate` the hour. Which of the targets of a rule a selector gives is left open.

### HttpRule

Requests that a rule has matched. `tries` counts the attempts of a request, `last` the target
of the former one. `Begin` and `Retry` start an attempt, `Respond` is its end, `TimeOut` one
of the two timeouts, which are outside the retries and race all of them; the branch that lost
may go on (Pipy decides), so retries go on behind an answer. A session is kept by a policy of the
backend at each response, before the retry is decided, or by the rule with the response that the
client gets (`level`). `Candidates` are the targets the choice is made of: for a policy those that
are healthy, for a rule its backends.

### Places, Admission, CircuitBreak

`Places` is the abstract promise: who enters holds a place until it leaves, never more holders
than places, nobody refused while there is one. `Admission` has three ways to keep it, chosen by
`filter`: the quota of `ConcurrencyLimit`, the backlog of `RateLimit`, the counter of the legacy
throttles. `Promise` maps them: holders are the streams inside and, for `RateLimit`, those that
went away before their response and never paid back. The throttle has one place more than its
`Backlog`. That quotas do their steps atomically is Pipy's.

`CircuitBreak` has the five numbers of the shared map. A check is a row of calls, and each
call is a step, from `AddTotal` over `Judge` or `Trip` to the clearing of the totals; checks
of other threads, aborted requests (`GoAway`) and a filter that is built anew (`Rebuild`)
come in between. Times are distances from now.

### LegacyHealthCheck, LegacyForward, LegacyCircuitBreaker

`LegacyHealthCheck` has the record of each endpoint (`alive`, `errorCount`, `failTick`,
`tick`), its `HealthCheck` (`hc`, any of `Configs`) and the cache that balancers avoid,
`unavailable`, which is made by the first failure. `Check` and `ResetDown` are the two
tasks, `ProbeEnds` an answer to a probe, `Disconnect` the end of a forwarded TCP connection.
`streak` and `downFor` are history: what the endpoint itself did, and for how long it has
been down.

`LegacyForward` adds HTTP requests. `Begin` is `onStart` with the first round of the pipeline
`upstream`, `Again` a replay, `Answer` what comes back: the report to the health check and
`shouldRetry()`. The context of a request is kept through its retries: the handle of the
cache, the balancer in use, the connection error. It is assumed that `__upstreamError`, which
the connection sets, is the one that `forward.js` reads: contexts are native. When a response
is replaced by a replay, the report of the same attempt may be cut off.

A round that finds no target (`WithoutTarget`) is sent again at once to the failover balancer;
without one left it goes on to `http/default.js`, whose 502 (`service.js` has set the header it
looks for) comes back to `shouldRetry()` like any response, and is counted and replayed while
`RetryOn` and `NumRetries` allow. The health check hears nothing of such a round. `RetryOn`
names classes of status. `RoundRobin` is whether the service's `Algorithm` is given as
`"RoundRobinLoadBalancer"`: only then are endpoints of weight 0 kept out of the first balancer
(`forward.js:29`).

`LegacyCircuitBreaker` has the counters of `makeCircuitBreaker()`. `Admit`, and `Answers` or
`Abort`, are the two ends of a request, `RefreshTimer` is the task. Requests of a former window are
answered in a later one. `algo.Quota` is native: it may fill up at any time (`Refill`).

Named bounds: `MaxFlight` probes in the air and `MaxConns` connections per endpoint,
`MaxTotal` requests per window. `errorCount` counts up to `MaxFails` and `attempts` up to one
more than the limit: above that they are only compared.

### LegacyRoute

A configuration with two or more entries, and one call at a time. `Serve` is a request from
the access list of the whole configuration to its reply: the entry by its host (the table that
`config.js` makes, in full or by the suffix), the list of the entry, the route by path and
method, the list of the route, authorization, the service, or the file. `dirs` are the
directories that are open, each with the index files of the route that needed it first.

A port with TLS (`tls` of its configuration) makes an object for each connection, its consumer.
`http/auth.js`, which runs before the routes are looked at, copies what it finds of a request's
credentials into it, so they count for later requests of the connection too: `consumers` are the
connections where that has happened, `Noted` the copying, `Identified` a request with what is
known of it. Without TLS each request has a consumer of its own. `Close` is the end of a
connection, and `shown` is history: over which open connections credentials came.

The chains of `config.js` do not name the plugins `access-control-domain` and
`access-control-route`; the model has them where their names put them, before the service.

### RepoClient, IotDevice

`RepoClient` is a row of calls, each of which may be refused, lost on the way, or lost on the
way back. `Crash` ends the program before any of them, and it starts again with the same or
another release. `base` and `local` are the two codebases on the server, `misread` is history: an
error page was taken for `config.json`, as `GetFile()` does not look at the status. `Promise` maps the
server's side of it to `Codebase`: clients poll a version, and for each version there is one content, the
whole of a release. The first commit may repeat the version of the empty codebase, which shows nothing.

`IotDevice` has its disk, its memory and the server. An answer to the query leads to writes, one
per step, and a restart; `Fail` is the device failing at any point, `Boot` what it does then.
`Collect`, `Post` and `Posted` are samples; `Poison` are those that the server refuses for good.

Named bounds: `MaxVersion`, `MaxSamples`, `MaxReads`, `MaxStat` and `MaxAborted` (requests that
one circuit breaker counts).

## 3. What is checked

| run | bounds | shows |
|---|---|---|
| `file_store` | 2 files, 2 kinds, 2 names, documents without kind, without spec, and one the watcher throws on; in a mesh 2 reads at once of a file | `ListIsFiles`: the lists are exactly the files. `FoundUnlessClashed`: a resource is lost for `find()` only if its name was shared. `RemovalTold`: what leaves is announced, with the exception the code has. `OutdatedIsPending`: the store is behind only on files about to be read, or the watch is dead. `CatchesUp`: when the files are left alone the store catches up with all of them, or the watch is dead |
| `routers` | 1 gateway, 2 listeners, 3 references, routes that may be unbuildable, a timer of two ticks that changes put off | `RoutersConverge`: whenever nothing is pending, live routers route by the present routes |
| `ports` | 2 gateways sharing a port, listeners of all kinds | `OpenPortsAreDeclared`, `DeclaredPortsAreOpen`, `MarksAreScheduled` |
| `backends` | mesh mode, a local and a foreign gateway, a route, 1 backend with 3 contents, its policy | `BackendsConverge`, `PoliciesConverge`, `SubscribedUnlessThrew`. `PassEnds`: when changes cease, the pass is over for good, complete or aborted |
| `health` | 1 target, 5 policies: active, stricter, passive, one for other ports, one broken | `DownAfterStreak`: an address goes down only after a full streak of failures. `DownHasFailedLast`: any success brings it back. `Recovers`: so it does, if no update disturbs its checker |
| `health_assessed` | the same | violated, see section 5 |
| `legacy` | 2 endpoints (one for failover), 5 health checks (passive, by HTTP, by connecting), 2 probes in the air and 1 connection each; 1 sticky request with 1 retry, the endpoint of weight 0 in both balancers (no `RoundRobin`); 3 requests at the breaker, windows of 2 seconds, an amount of 2 failures, half of the requests slow | `UnavailableIsDown`: the cache holds exactly the endpoints that are down. `DownLongEnough`, `HealthRecovers`: without probes one is down for `FailTimeout`, not less and not for good; with probes it comes back. `AttemptsBounded`, `CookieNamesTarget`, `Completes`: attempts, and rounds without a target between them, end, and the client's cookie names the endpoint that was asked last. `ShareAtMostOne`: a window never counts more failures than requests. `OpenLongEnough`: the breaker is open for its time, each time |
| `legacy_streak` | 2 endpoints, 1 connection each | violated, see section 5 |
| `requests` | 4 streams for 2 places; 2 callers at a breaker with thresholds of 1 and 2; 2 requests to 2 targets in 1 session with 3 attempts and timeouts | `KeepsPlaces`: the three filters implement `Places`. `LoadDrifts`: the load a breaker is tripped by is off by exactly the requests that went away and those it was built anew over. `TripNeedsErrors`: from one trip to the next it takes as many slow answers, however checks mix. `GivesUpWhenSpent`: a failure reaches the client after all attempts, no sooner and no later. `RetriesStick`: within a session a retry goes back to the target that failed, while it counts as healthy and no other response has changed the session |
| `remote` | 2 releases of 2 and 3 files, 5 versions; 2 scripts and 2 values, one of them an object; 4 samples, 2 at once, one refused for good | `LiveIsWhole`: clients of the repository see the whole of the release committed last. `IsCodebase`: the client implements `Codebase`, each commit serves a whole release under the next version. `DeviceConverges`: the device ends up running what the server has. `NoSampleLost`, `DeviceDelivers`: samples are not lost and get through |
| `repo_derive` | the same | violated, see section 5 |
| `matching` | HTTP: all tables of 2 matches (7 paths, methods, a header), of 3 without headers, and of 3 routes with overlapping hosts. Dubbo: pairs of 6 matches. Legacy: 2 entries with overlapping hosts, or with lists, routes and files that differ; requests without TLS, and over 2 connections, 1 of which brings credentials with some | `FoundFits`: what the index finds fits the request. `HostIsClosest`: the rule is one for the closest name of the host. `FastIsSearch`: where indexed matches ask for no more than their path, both ways of searching agree. `KeptIsSelected`: no Dubbo call is sent by a selection of another key or of former rules. `HistoryFree`: where routes that share a directory share its index files, a reply depends on the request and on the credentials shown over its connection, and on nothing else that was asked before or elsewhere. `NamedIsFound`: a host leads to an entry that names it, in full if there is one |

The bounds are the least at which what the properties speak of can happen: two
files for a shared name, two listeners of one port number for a reference that
matches both, two gateways for a shared port, two usable contents of a backend and
an unusable one, `maxFails` of one and two for a count that crosses an update, two probes
in the air for one that reports late, one retry for each balancer for a count that starts
again, one endpoint left to fail over
to while the other is down, or both down, for rounds that find a target, fail over, or are
replayed for their 502; two connections for credentials that must not reach the other;
three requests for one that is left from the former window; four streams for one
refused beyond a place that only the throttle has; two callers for a check between the two
halves of another; three attempts for a retry that is not the last; two releases of different
files for a half uploaded one to show; a batch of two for a refused sample that takes a place
in it. Targets of one health
check share nothing but the updates, and other requests reach a request only by the records of
the endpoints, which TCP connections change as well: one of each is enough.

Deadlock is checked in every run.

Fairness. `ReloadSome` and `WatchResolves` are weakly fair, and in a mesh `ReadSome`,
`BeginWatch` and `MeshResolves`: the event loop resolves the watch, runs its loop, and resolves
the promises of reads. `Tick` and the steps of the pass are weakly fair: time
passes and a synchronous run ends. In `HealthCheck` timers fire and each check ends,
since its connection has timeouts of five seconds (`health-check.js:63`). In the legacy
modules the tasks run every second; probes that connect end after a tenth of a second
(`pjs/common/health-check.js:290`), those by HTTP have no time limit and get no fairness.
Replays are sent, and attempts end because the connection has the socket time-outs of the
configuration. On the device the three tasks come back by their timers (`Write`, `Login`,
`Query`, `Post`, and each post is answered or lost). Strongly fair are `Restart`, which failures
of the device may put off but not for ever, and the answer to a sample that the server does
not refuse: what is sent again and again gets through once. Nothing is
assumed of whoever changes the configuration or of the targets: liveness properties
say under which end of changes or failures they hold.

## 4. What is proved

Each theorem is about the specification of its own module, whose runs in `MCLegacy`,
`MCFilters`, `MCMatching` and `MCRemote` only choose the part in focus.

`Store_proofs` proves, for any paths, kinds, names and documents, and for directories and
meshes alike:

* `StoreInvariant`, of `ResourceStore` with any content at the start and any reload at any
  time: the conjunction of type correctness, the agreement of list and files, of dictionary
  and list, and that `clashed` covers the clashes of the present list. Without the last one
  `FoundUnlessClashed` is not inductive, since a removal can only harm another resource if
  both were live at once.
* of `FileSpec`: `ListAlwaysFiles`, `FindAlwaysLive`, `FoundUnlessEverClashed`,
  `RemovalAlwaysTold`, since each step of `FileStore` is a step of the store or leaves it
  alone.
* `OutdatedAlwaysPending`. `FileInv` adds what the reads of a mesh are like: unless a path
  is lost no more than one of its reads is under way (`OneGoodRead`), while there is no
  watch it is the one of the first listing (`FirstRead`), and a directory has none
  (`OnlyMeshReads`).
* `FileTypeCorrect`, of all variables, with the watch as a directory or a mesh has it.
* `AdditionAlwaysTold`: what appears in the list is announced as new, unless the watcher threw
  on the notice of what the file held before. Together with `RemovalAlwaysTold` it says what
  the reconciler, which learns of changes by notices only, can miss.
* `FileStoreIsStore`: `FileSpec => StoreSpec`. Every step of the files, of a watch or of
  reads is a reload, a silent first load, or leaves the store alone, so the theorems of
  `StoreSpec` hold of directories and meshes. That a silent load never replaces anything needs
  `FirstRead`: until there is a watch each path is read once.

`Reconciler_proofs` proves of `Spec`, for any sets and any contents that the
assumptions of `Reconciler` allow:

* `ReconcilerTypeCorrect` and `MarksAlwaysScheduled`, each inductive (given types).
* `RoutersAlwaysConverge`. The property speaks of settled states only, so it is
  strengthened to `RoutersCovered`: at any time a live router that is behind on a
  route is about to be visited. Either a mark that leads to it waits for this or the
  next pass, or its gateway is dirty and the listener is still to be rebuilt. This
  needs `TodoInv` (what is to be visited are marks that are still there),
  `ServedIsLocal`, and `MarksAreScheduled` to conclude that a settled state has no
  mark. `ReconcilerInv` is the conjunction.
* `AlwaysSubscribedUnlessThrew`: each step that spends a subscription renews it or
  records the exception.
* `BackendsAlwaysConverge`, from `BackendsCovered` (a cached backend that is behind is
  marked and still to be visited) and the theorem before it.
* `OpenPortsAlwaysDeclared` and `DeclaredPortsAlwaysOpen`, from `PortsInv`, which says what the two
  are within the third part of a pass: an open port is in the former or already in the new set of
  listeners (`OpenInv`), every declared listener is in the new set or still to be visited
  (`WantedInv`), and one without its port belongs to a gateway that is still marked
  (`OpenOrPending`).
* `PoliciesAlwaysConverge`, from `PoliciesCovered`: a live router that has the present content of a
  route but a former policy of one of its backends is still to be visited. The other routers are
  covered by `RoutersConverge`.

`HealthCheck_proofs`: `HealthTypeCorrect`, `DownAlwaysFailedLast`, `AlwaysDownAfterStreak`, for any
targets and policies. An address may go down by the count of a checker that was replaced while its
check was in the air. `CountsStreak`, in `HealthInv`, says why that is no harm: neither checker
has counted more than the streak of the address, and while a check of a replaced one is in the air
the new one has counted nothing.

`Filters_proofs`:

* `AdmissionImplementsPlaces`: `AdmissionSpec => Promise!Spec`, for any streams and limit.
  Every step maps to a step of `Places` or a stutter. `AdmissionInv` is the account: what is
  left of a quota and the number of holders make the limit; the counter of a throttle is the
  number of holders. That a quota is not paid back by a stream that was refused is what the
  first part needs.
* `LoadAlwaysDrifts`, `TripAlwaysNeedsErrors`, for any number of threads. `BreakInv` says by
  `SinceTrip` that the slow answers in the map, and those a check has read unless it
  overlaps the clearing of a trip, are no more than there were since the last trip.
* `AlwaysGivesUpWhenSpent`, `RetriesAlwaysStick` (`RuleInv`): what the attempts of a request
  have to do with its counter of retries (`Spent`), and that the target of its last response
  is kept, by the request itself or in its session, unless another response changed the
  session (`Kept`).

`Legacy_proofs` proves, for any endpoints, requests and parameters:

* `UnavailableAlwaysDown` and `UnavailableAlwaysDownForwarding`: cache and records agree,
  under probes, time-outs and TCP connections, and under forwarded HTTP requests. The
  inductive invariant adds only types: `ok()` and `fail()` each change both sides together.
* `HealthTyped` and `ForwardTypeCorrect`, type correctness of the two.
* `AlwaysDownLongEnough` and `AlwaysDownLongEnoughForwarding`: without probes an endpoint that
  comes back was down for `failTimeout`. The code goes by `failTick`, which starts again with failures, so `DownInv`
  adds `ClockOK`: it never runs ahead of the time the endpoint has been down.
* `AttemptsAlwaysBounded`. The count of retries starts again at failover, so the bound needs
  `Bounded`: a request has spent at most the share of the balancers before the present one
  (`Spent`) plus its retries, and the failover balancer is never there twice. A replayed 502
  of a round without a target adds a retry and no attempt; `SettledKeeps` is what `shouldRetry()`
  does to the bound, for both.
* `CookieAlwaysNamesTarget`, from `Follows`: the same in every phase, also between two
  attempts, where a balancer that has nothing to offer may leave the former target in place.
  These hold with and without `RoundRobin`.

* `BreakerTypeCorrect`, `ShareAlwaysAtMostOne` and `AlwaysOpenLongEnough`, of the circuit breaker,
  for any thresholds and windows. `ShareAtMostOne` is inductive with types, as an answer of a
  former window is counted only up to the total of the present one; the last theorem needs
  `DelayCounts`: the delay of an open breaker is the time since it opened, and that of a closed
  one is zero.

`Remote_proofs` proves of `RepoClient`, for any releases:

* `LiveAlwaysWhole`. `Uploaded` says that a file of the release that is not still to be uploaded
  is in the working copy as it should be, also when another program ended half way before.
* `AlwaysIsCodebase`: `RepoSpec => Promise!Spec`. A commit that takes effect maps to `Publish`, the
  creation to `Create`, and all else to a stutter. `Versioned` says that the version read before
  the upload is the present one, or zero for a codebase that has just been created, and that
  nothing is served before the first commit.

and of `IotDevice`, for any scripts and values:

* `NoSampleEverLost`: what is unlinked was received.
* `ActiveAlwaysApplied`: memory and files agree, but for a script that waits for the restart
  (`DiskIsKnown`), and an active device runs the script and the values that it was last given,
  with at most `config.json` still to write (`ActiveIsApplied`). They need each other:
  whether `updateConfig()` writes a file is decided by the memory, and what a device boots
  with by the files.
* `AlwaysSurvivesFailure`: a device that fails between two configurations is active again at once,
  with what it ran, without asking the server.

`Matching_proofs`, for any tables, configurations, rules and requests:

* of `RouteMatch`: `SelectionInv` says that the selection is what `Find` gives for the request,
  and the rest is about that function. `AlwaysFoundFits` and `HostAlwaysClosest` follow from what
  the head of a sorted list is (`FirstIsTop`), what the best pattern is (`BestPatternFacts`)
  and which hosts a table has (`HostKeysFinite`). `FastIsAlwaysSearch` compares the two
  searches: `Above`, by which matches are sorted, is lexicographic, so among matches that ask for
  no more than path and method the index, which decides by the path first (`SearchByPath`) and
  then by the method (`SearchByMethod`), ends at the same match.
* of `LegacyRoute`: `NamedAlwaysFound`, from what the table made of the entries holds
  (`NamedFacts`), and `AlwaysHistoryFree`. `HistoryInv` adds `DirsOfRoutes`: a directory that is
  open was opened by a route that names it, and that the connections whose consumer has
  credentials are exactly those over which they came.
* of `DubboRoute`: `KeptAlwaysSelected`. The rules see no more of a call than its key
  (`KeyDecides`), so calls of one key have the same selections. `KeptAlwaysBest`: no
  match that answers a call has a higher priority than the one kept for it, since the order of
  matches is total and the list of them finite. `AlwaysSelectsAsSearch`: every call gets what a
  search without a cache could give.

`DataLemmas` has what these proofs share. The library's induction takes an operator as parameter;
here it is done over a set of numbers, which a set can be instantiated with (`Induction`). With it
every finite set that is totally ordered has a greatest element (`TopOfFinite`), and the elements
of a flattened sequence of sequences are those of its parts (`FlattenFacts`).

Assumptions: the named `ASSUME`s of the modules, which say that the constants are of
the right shape (tables, matches and entries are finite, lists are sequences) and that `None` and
its like are none of the values. TLC evaluates them in every run.

Only model-checked: liveness (`CatchesUp`, `PassEnds`, `Recovers`, `HealthRecovers`,
`Completes`, `DeviceConverges`, `DeviceDelivers`), which is out of reach of the proof
system.

## 5. Disagreements with the documentation

`README.md:58` says: "The FGW actively conducts health assessments on the upstreams,
considering only those with a `200` response status code as healthy, while expunging
others from the load balance list."

* `health_assessed`: the loop of a health check ends when there is no policy
  (`health-check.js:138`) and `update()` does not start it again. A policy that is added
  to a running gateway is in use, but nothing is ever checked under it.

`src/pkg/repo/client.go:278` says of the last step of a codebase: "commit the repo, so that changes
can take effect".

* `repo_derive`: `DeriveCodebase()` passes over a codebase that exists (`client.go:299`). When the
  program ends, or its commit is refused, after the codebase was created, no later start commits it.

`docs/README.md:314`, on the legacy gateway:

* `legacy_streak`: the line says of `MaxFails` that an endpoint becomes unavailable after so many
  failures in a row. `ok()` of an endpoint that is alive leaves its `errorCount`
  (`pjs/common/health-check.js:50`), so failures with successes between them add up.

Met on the way, and not contradicting any text: `update()` of a health check runs on thread
0 only (`health-check.js:146`), so other threads know no policy and take every address for
healthy unless the shared set says otherwise; a mark visits only the first listener a
reference matches, and references without `kind` attach a route but never lead to an update
(`gateway.js:163-169`, `292-301`); `DubboRoute` has no case in the watcher; a listener whose
rebuild fails is closed although it worked, and stays closed when the cause, a route, is
repaired (`gateway.js:326-347`); a mark for a missing gateway aborts every pass in mesh
mode; a backend with `algorithm` or `timeouts` in its policy keeps those it was cached with
(`backend.js:8-10`); an address that is down when its policy becomes passive stays down
(`health-check.js:29-30, 120`); a rule with a path of higher rank in the index, or with the
method of the request at that path, hides rules of lower rank even if its own headers do not
fit (`router-http.js:260-266`); a path without a type is indexed nowhere and taken for any
path; of two equal matches the later one wins; routes of different kinds under one hostname
are all read as the kind of the first; requests that are aborted in the backlog of
`RateLimit` use it up for good (`RateLimit.js:44`); the load of `CircuitBreak` drifts by
aborted requests and by rebuilding (`CircuitBreak.js:59`); a session is kept with the
response of an attempt that fails (`balancer-http.js:112`); a Dubbo selection taken from the
cache allocates no target of its own, but each call frees one.

Of the legacy gateway: the connection error of an attempt is still in the context when its
retry is answered elsewhere, and `fail()` is called for that endpoint too
(`pjs/http/forward.js:334`); the cache of unavailable endpoints is looked up when a request
begins, and before the first failure of the service there is none, so its retries know of no
endpoint to avoid (`pjs/http/forward.js:191`); `MinRequestAmount`, by `docs/README.md:347`
the number of requests that must be reached for the breaker to open, is compared for the
ratios only (`pjs/http/circuit-breaker.js:63-64`). A throttle lets one request more wait
than its `Backlog`, by `docs/README.md:183` the number that may wait, as it compares before
it counts (`pjs/http/throttle-route.js:24`), and `tests/shpec/shell/throttle-route_shpec.sh`
expects the same; endpoints
of weight 0 take part in the first balancer unless the algorithm is round robin by name
(`pjs/http/forward.js:29`); a service whose endpoints are all down answers 502 after as many
replays as a failing endpoint would get (`pjs/http/forward.js:204`, `307`); credentials that
came with one request of a TLS connection count for all that follow on it
(`pjs/http/auth.js:31`); of
several wildcards in one entry only the last is matched (`pjs/http/route.js:33`); a
directory is served with the index files of the route that opened it
(`pjs/server/web-server.js:103`).

Of the other programs: `GetFile()` ignores the status of the answer, so an error page may be
uploaded again as `config.json` (`client.go`); a configuration of the device whose `init`
has an object as a value never compares equal, and restarts the device for ever (`rest.js`);
ten samples that the server refuses keep all older ones from it (`worker.js:104`).

## 6. What is not modelled, and the plan

Left out for good: native code of Pipy (protocol codecs, TLS, the algorithms of balancers
and quotas), stateless filters, logs and metrics, the command line, the GUI and the demos.
They keep no state between messages, or their state is not in this repository.

Left out of modules that are there: query parameters and GRPC routes of `RouteMatch`; the
routers of TCP, UDP and TLS, which have one choice to make; regular expressions, conditions
on headers and parameters, content types and compression of `LegacyRoute`; a throttle
without a backlog, which is a native quota; in `HttpRule`, a repeat after a retry that
succeeded; the single configuration file of the store, which is read once; secrets.

What would come next, in this order: an abstract gateway that serves some recent
configuration, implemented by `FileStore` and `Reconciler` together; an abstract health
check that both health checks are compared with; what an orphaned balancer serves in a
router that was not rebuilt; the sharing of health and sessions between threads.
