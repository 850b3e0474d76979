----------------------------- MODULE Reconciler -----------------------------
(***************************************************************************)
(* How FGW brings its running listeners, routers and backend balancers up  *)
(* to date with the resources (src/gateway.js with the updater registry of *)
(* src/resources.js, src/modules/router-*.js and src/modules/backend.js).  *)
(*                                                                         *)
(* A change of a resource marks what it may affect as dirty and arms a     *)
(* timer anew.  When the timer fires one pass visits everything dirty:     *)
(* backends, then routers, then gateways.  Routers and backends are        *)
(* reached through one-shot subscriptions that an update renews at its     *)
(* end.  A pass is one synchronous run of JavaScript: it is taken here in  *)
(* steps, between which nothing else happens.  An exception in the first   *)
(* two parts abandons the pass; in the third it costs one listener.        *)
(*                                                                         *)
(* A listener is known by its key, the address, port and wire protocol it  *)
(* listens on.  Of a parent reference only what it matches is kept: the    *)
(* listeners its sectionName or port agrees with.                          *)
(***************************************************************************)
EXTENDS Naturals, FiniteSets

CONSTANTS Gateway, Key, Route, Backend, Ref,
          None       \* undefined: no resource, no listener, no policy

\* What the content of a resource may be
ListenerSpec == {"absent",     \* the gateway has no listener at this key
                 "good",
                 "badType",    \* makeListener() throws before the router exists
                 "badFilter"}  \* it throws between the router and pipy.listen()
RouteSpec == [refs : SUBSET Ref, backends : SUBSET Backend, bad : BOOLEAN]

CONSTANTS GatewaySpecs,  \* contents a Gateway may have
          RouteSpecs,    \* contents a route may have
          BackendSpecs,  \* contents a Backend may have
          BadBackends,   \* those with a target that getTargets() throws on
          PolicySpecs,   \* contents a BackendLBPolicy may have
          RefGateway,    \* RefGateway[ref]: the gateway that ref names
          RefKeys,       \* RefKeys[ref]: the keys of the listeners ref matches
          KindedRefs,    \* references that spell out kind: Gateway
          KeyRank,       \* the order of the listeners in a gateway
          Unwatched,     \* routes of a kind the watcher has no case for
          Local,         \* gateways that gatewayFilter() lets through
          Mesh,          \* whether gatewayFilter() needs a gateway to look at
          Debounce       \* seconds from the last change to the pass

ASSUME SpecsAssumption == /\ GatewaySpecs \subseteq [Key -> ListenerSpec]
                          /\ RouteSpecs \subseteq RouteSpec
                          /\ BadBackends \subseteq BackendSpecs
ASSUME NoneAssumption == /\ None \notin GatewaySpecs \cup RouteSpecs
                         /\ None \notin BackendSpecs \cup PolicySpecs
                         /\ None \notin Gateway \cup Key
ASSUME RefAssumption == /\ RefGateway \in [Ref -> Gateway]
                        /\ RefKeys \in [Ref -> SUBSET Key]
                        /\ KindedRefs \subseteq Ref
                        /\ KeyRank \in [Key -> Nat]
                        /\ \A j, k \in Key : KeyRank[j] = KeyRank[k] => j = k
ASSUME ModeAssumption == /\ Unwatched \subseteq Route
                         /\ Local \subseteq Gateway
                         /\ Mesh \in BOOLEAN
                         /\ Debounce \in Nat \ {0}

Maybe(S) == S \cup {None}
Listener == Gateway \X Key
Router == [routes : [Route -> Maybe(RouteSpecs)],
           hold   : [Backend -> {"none", "live", "orphan"}],
           policy : [Backend -> Maybe(PolicySpecs)]]

VARIABLES
  gw, rt, be, lb,  \* the resources: Gateways, routes, Backends, BackendLBPolicies
  dirtyGateways, dirtyRouters, dirtyBackends,
  timer,           \* seconds to the pass, 0 when no timer is pending
  phase,           \* "idle", or the part of the pass under way
  todoBackends, todoRouters, todoListeners,  \* what it has still to visit
  updated,         \* updatedListeners
  current,         \* currentListeners
  serving,         \* serving[k]: the gateway whose pipeline has the port of k
  router,          \* router[l]: the router in the last pipeline served for l
  subRouter,       \* whose update() the registry has for the router key of l
  inst,            \* the cached backend: the targets its balancer has
  subBackend,      \* whether the registry has the updater of the cached backend
  aborted,         \* history: the last pass ended in an exception
  failed,          \* history: listeners that threw and were not made since
  threw            \* history: backends whose last update threw

resources == <<gw, rt, be, lb>>
marks     == <<dirtyGateways, dirtyRouters, dirtyBackends>>
todo      == <<todoBackends, todoRouters, todoListeners>>
ports     == <<current, serving>>
backends  == <<inst, subBackend, threw>>
routers   == <<router, subRouter, failed>>
vars == <<resources, marks, timer, phase, todo, updated, ports, backends, routers,
          aborted>>

ResourcesOK ==
  /\ gw \in [Gateway -> Maybe(GatewaySpecs)]
  /\ rt \in [Route -> Maybe(RouteSpecs)]
  /\ be \in [Backend -> Maybe(BackendSpecs)]
  /\ lb \in [Backend -> Maybe(PolicySpecs)]

MarksOK ==
  /\ dirtyGateways \subseteq Gateway
  /\ dirtyRouters \subseteq Ref
  /\ dirtyBackends \subseteq Backend

PassOK ==
  /\ timer \in 0..Debounce
  /\ phase \in {"idle", "backends", "routers", "gateways"}
  /\ todoBackends \subseteq Backend /\ (todoBackends # {} => phase = "backends")
  /\ todoRouters \subseteq Ref /\ (todoRouters # {} => phase = "routers")
  /\ todoListeners \subseteq Listener /\ (todoListeners # {} => phase = "gateways")
  /\ updated \subseteq Key
  /\ aborted \in BOOLEAN

BuiltOK ==
  /\ current \subseteq Key
  /\ serving \in [Key -> Maybe(Gateway)]
  /\ router \in [Listener -> Router]
  /\ subRouter \in [Listener -> {"none", "served", "unserved"}]
  /\ inst \in [Backend -> Maybe(BackendSpecs)]
  /\ subBackend \in [Backend -> BOOLEAN]
  /\ failed \subseteq Listener
  /\ threw \subseteq Backend

TypeOK == ResourcesOK /\ MarksOK /\ PassOK /\ BuiltOK

----------------------------------------------------------------------------
(* What the resources say *)

Declares(g, k) == gw[g] # None /\ gw[g][k] # "absent"

\* gateways.forEach(... gw.spec.listeners.forEach(...)), of local gateways
Declared == {l \in Listener : l[1] \in Local /\ Declares(l[1], l[2])}

\* The listener an update of ref goes to: the first one it matches
FirstMatch(g, ref, k) ==
  /\ Declares(g, k) /\ k \in RefKeys[ref]
  /\ \A j \in RefKeys[ref] : Declares(g, j) => KeyRank[k] <= KeyRank[j]

\* findRouteResources(): the routes any of whose references matches l
RefersTo(spec, l) ==
  \E ref \in spec.refs : RefGateway[ref] = l[1] /\ l[2] \in RefKeys[ref]
View(l) == [r \in Route |-> IF rt[r] # None /\ RefersTo(rt[r], l) THEN rt[r] ELSE None]

----------------------------------------------------------------------------
(* Building a router *)

\* Backends that exist and that the routes of l name: each gets a balancer
Used(l) == {b \in Backend : /\ be[b] # None
                            /\ \E r \in Route : View(l)[r] # None /\ b \in View(l)[r].backends}

\* The balancers that have yet to be made for that, through the cache
Uncached(l) == {b \in Used(l) : inst[b] = None}

\* A rule may name a filter that does not exist, a target may lack a port
RouterThrows(l) == \/ \E r \in Route : View(l)[r] # None /\ View(l)[r].bad
                   \/ \E b \in Uncached(l) : be[b] \in BadBackends

NewRouter(l) == [routes |-> View(l),
                 hold   |-> [b \in Backend |-> IF b \in Used(l) THEN "live" ELSE "none"],
                 policy |-> [b \in Backend |-> IF b \in Used(l) THEN lb[b] ELSE None]]

\* Mutant: the cache factory does not subscribe the balancers it makes
MakeBackendsOnly(bs) ==
  /\ inst' = [b \in Backend |-> IF b \in bs THEN be[b] ELSE inst[b]]
  /\ threw' = threw \ bs /\ UNCHANGED subBackend

\* The cache factory makes the balancers of bs and subscribes them
MakeBackends(bs) ==
  /\ inst' = [b \in Backend |-> IF b \in bs THEN be[b] ELSE inst[b]]
  /\ subBackend' = [b \in Backend |-> b \in bs \/ subBackend[b]]
  /\ threw' = threw \ bs

\* makeRouter() throws after making some of its balancers
MakeSomeBackends(l) ==
  \E bs \in SUBSET {b \in Uncached(l) : be[b] \notin BadBackends} : MakeBackends(bs)

----------------------------------------------------------------------------
(* Changes of resources: onResourceChange() *)

\* Mutant: the pending timer is cancelled and no other one is set
Cancel == timer' = 0 /\ aborted' = FALSE

Arm == timer' = Debounce /\ aborted' = FALSE

ChangeGateway(g, s) ==
  /\ phase = "idle" /\ (s # None \/ gw[g] # None)
  /\ gw' = [gw EXCEPT ![g] = s]
  /\ dirtyGateways' = dirtyGateways \cup {g}
  /\ dirtyRouters' = IF g \in dirtyGateways THEN dirtyRouters
                     ELSE {ref \in dirtyRouters : ref \in KindedRefs => RefGateway[ref] # g}
  /\ Arm
  /\ UNCHANGED <<rt, be, lb, dirtyBackends, phase, todo, updated, ports, backends, routers>>

RefsOf(spec) == IF spec = None THEN {} ELSE spec.refs

\* Mutant: the references that a route gives up are not marked
MarkedNewRefs(r, s) == IF r \in Unwatched THEN {} ELSE RefsOf(s)

MarkedRefs(r, s) == IF r \in Unwatched THEN {} ELSE RefsOf(s) \cup RefsOf(rt[r])

ChangeRoute(r, s) ==
  /\ phase = "idle" /\ (s # None \/ rt[r] # None)
  /\ rt' = [rt EXCEPT ![r] = s]
  /\ dirtyRouters' = dirtyRouters \cup MarkedRefs(r, s)
  /\ Arm
  /\ UNCHANGED <<gw, be, lb, dirtyGateways, dirtyBackends, phase, todo, updated, ports,
                 backends, routers>>

ChangeBackend(b, s) ==
  /\ phase = "idle" /\ (s # None \/ be[b] # None)
  /\ be' = [be EXCEPT ![b] = s]
  /\ dirtyBackends' = dirtyBackends \cup {b}
  /\ Arm
  /\ UNCHANGED <<gw, rt, lb, dirtyGateways, dirtyRouters, phase, todo, updated, ports,
                 backends, routers>>

\* Mutant: only the creation of a policy marks anything
MarkedByNewPolicy(b) ==
  UNION {rt[r].refs : r \in {q \in Route : lb[b] = None /\ rt[q] # None /\ b \in rt[q].backends}}

\* addDirtyRoutersByPolicy()
MarkedByPolicy(b) ==
  UNION {rt[r].refs : r \in {q \in Route : rt[q] # None /\ b \in rt[q].backends}}

\* A BackendLBPolicy of b
ChangePolicy(b, s) ==
  /\ phase = "idle" /\ (s # None \/ lb[b] # None)
  /\ lb' = [lb EXCEPT ![b] = s]
  /\ dirtyRouters' = dirtyRouters \cup MarkedByPolicy(b)
  /\ Arm
  /\ UNCHANGED <<gw, rt, be, dirtyGateways, dirtyBackends, phase, todo, updated, ports,
                 backends, routers>>

----------------------------------------------------------------------------
(* The timer and the pass: updateDirtyResources() *)

Tick ==
  /\ phase = "idle" /\ timer > 1
  /\ timer' = timer - 1
  /\ UNCHANGED <<resources, marks, phase, todo, updated, ports, backends, routers, aborted>>

BeginPass ==
  /\ phase = "idle" /\ timer = 1
  /\ timer' = 0
  /\ phase' = "backends" /\ todoBackends' = dirtyBackends
  /\ UNCHANGED <<resources, marks, todoRouters, todoListeners, updated, ports, backends,
                 routers, aborted>>

\* An exception leaves the pass: the marks stay, no timer is pending
Abort ==
  /\ phase' = "idle" /\ todoBackends' = {} /\ todoRouters' = {} /\ aborted' = TRUE
  /\ UNCHANGED <<resources, marks, timer, todoListeners, updated, ports>>

\* The updater of a cached backend, when it is subscribed
UpdateBackend(b) ==
  /\ b \in todoBackends
  /\ IF subBackend[b] /\ be[b] = None
     THEN /\ inst' = [inst EXCEPT ![b] = None]           \* cache.remove()
          /\ subBackend' = [subBackend EXCEPT ![b] = FALSE]
          /\ router' = [l \in Listener |->
                          IF router[l].hold[b] = "live"
                          THEN [router[l] EXCEPT !.hold[b] = "orphan"] ELSE router[l]]
     ELSE /\ inst' = IF subBackend[b] THEN [inst EXCEPT ![b] = be[b]] ELSE inst
          /\ UNCHANGED <<subBackend, router>>
  /\ subBackend[b] => be[b] \notin BadBackends
  /\ todoBackends' = todoBackends \ {b}
  /\ UNCHANGED <<resources, marks, timer, phase, todoRouters, todoListeners, updated,
                 ports, threw, subRouter, failed, aborted>>

\* getTargets() throws: the subscription is spent and not renewed
BackendThrows(b) ==
  /\ b \in todoBackends /\ subBackend[b] /\ be[b] \in BadBackends
  /\ subBackend' = [subBackend EXCEPT ![b] = FALSE]
  /\ threw' = threw \cup {b}
  /\ Abort
  /\ UNCHANGED <<inst, routers>>

BeginRouters ==
  /\ phase = "backends" /\ todoBackends = {}
  /\ phase' = "routers" /\ todoRouters' = dirtyRouters
  /\ UNCHANGED <<resources, marks, timer, todoBackends, todoListeners, updated, ports,
                 backends, routers, aborted>>

\* gatewayFilter() of main.ztm.js reads the spec of a gateway that is not there
FilterThrows(ref) == Mesh /\ gw[RefGateway[ref]] = None

\* The listener whose updater a mark runs, if any
Reaches(ref, l) ==
  /\ ref \in KindedRefs /\ RefGateway[ref] = l[1] /\ l[1] \in Local
  /\ FirstMatch(l[1], ref, l[2]) /\ subRouter[l] # "none"

UpdateRouter(ref, l) ==
  /\ ref \in todoRouters /\ Reaches(ref, l) /\ ~RouterThrows(l)
  /\ MakeBackends(Uncached(l))
  /\ IF subRouter[l] = "served"
     THEN router' = [router EXCEPT ![l] = NewRouter(l)]
     ELSE UNCHANGED router
  /\ todoRouters' = todoRouters \ {ref}
  /\ UNCHANGED <<resources, marks, timer, phase, todoBackends, todoListeners, updated,
                 ports, subRouter, failed, aborted>>

\* makeRouter() throws: the subscription is spent and not renewed
RouterUpdateThrows(ref, l) ==
  /\ ref \in todoRouters /\ Reaches(ref, l) /\ RouterThrows(l)
  /\ MakeSomeBackends(l)
  /\ subRouter' = [subRouter EXCEPT ![l] = "none"]
  /\ failed' = failed \cup {l}
  /\ Abort
  /\ UNCHANGED router

FilterAborts(ref) ==
  /\ ref \in todoRouters \cap KindedRefs /\ FilterThrows(ref)
  /\ Abort
  /\ UNCHANGED <<backends, routers>>

\* A mark that leads to no updater
SkipRouter(ref) ==
  /\ ref \in todoRouters /\ \A l \in Listener : ~Reaches(ref, l)
  /\ ref \in KindedRefs => ~FilterThrows(ref)
  /\ todoRouters' = todoRouters \ {ref}
  /\ UNCHANGED <<resources, marks, timer, phase, todoBackends, todoListeners, updated,
                 ports, backends, routers, aborted>>

BeginGateways ==
  /\ phase = "routers" /\ todoRouters = {}
  /\ phase' = "gateways" /\ updated' = {}
  /\ todoListeners' = IF dirtyGateways = {} THEN {} ELSE Declared
  /\ UNCHANGED <<resources, marks, timer, todoBackends, todoRouters, ports, backends,
                 routers, aborted>>

VisitRest == UNCHANGED <<resources, marks, timer, phase, todoBackends, todoRouters,
                         current, aborted>>

\* Mutant: only the listeners of dirty gateways are counted as wanted
KeepNothing(l) ==
  /\ l \in todoListeners /\ l[1] \notin dirtyGateways
  /\ todoListeners' = todoListeners \ {l}
  /\ VisitRest /\ UNCHANGED <<updated, serving, backends, routers>>

\* A listener of a gateway that is not dirty keeps its port
KeepListener(l) ==
  /\ l \in todoListeners /\ l[1] \notin dirtyGateways
  /\ updated' = updated \cup {l[2]}
  /\ todoListeners' = todoListeners \ {l}
  /\ VisitRest /\ UNCHANGED <<serving, backends, routers>>

BuildThrows(l) == gw[l[1]][l[2]] # "good" \/ RouterThrows(l)

MakeListener(l) ==
  /\ l \in todoListeners /\ l[1] \in dirtyGateways /\ ~BuildThrows(l)
  /\ MakeBackends(Uncached(l))
  /\ router' = [router EXCEPT ![l] = NewRouter(l)]
  /\ subRouter' = [subRouter EXCEPT ![l] = "served"]
  /\ failed' = failed \ {l}
  /\ serving' = [serving EXCEPT ![l[2]] = l[1]]
  /\ updated' = updated \cup {l[2]}
  /\ todoListeners' = todoListeners \ {l}
  /\ VisitRest

\* The exception is caught: the key is not in updatedListeners
MakeListenerThrows(l) ==
  /\ l \in todoListeners /\ l[1] \in dirtyGateways /\ BuildThrows(l)
  /\ CASE gw[l[1]][l[2]] = "badType" -> UNCHANGED <<backends, subRouter>>
       [] gw[l[1]][l[2]] # "badType" /\ RouterThrows(l) ->
            MakeSomeBackends(l) /\ UNCHANGED subRouter
       [] OTHER -> /\ MakeBackends(Uncached(l))
                   /\ subRouter' = [subRouter EXCEPT ![l] = "unserved"]
  /\ failed' = failed \cup {l}
  /\ todoListeners' = todoListeners \ {l}
  /\ VisitRest /\ UNCHANGED <<updated, serving, router>>

\* Mutant: no listener is ever stopped
ClosedNever == {}

\* The listeners that are not wanted any more
Closed == current \ updated

\* Mutant: the marks of routers are not cleared
ForgetSomeMarks == dirtyGateways' = {} /\ dirtyBackends' = {} /\ UNCHANGED dirtyRouters

ForgetMarks == dirtyGateways' = {} /\ dirtyRouters' = {} /\ dirtyBackends' = {}

EndPass ==
  /\ phase = "gateways" /\ todoListeners = {}
  /\ IF dirtyGateways = {} THEN UNCHANGED ports
     ELSE /\ serving' = [k \in Key |-> IF k \in Closed THEN None ELSE serving[k]]
          /\ current' = updated
  /\ phase' = "idle" /\ updated' = {}
  /\ ForgetMarks /\ aborted' = FALSE
  /\ UNCHANGED <<resources, timer, todo, backends, routers>>

----------------------------------------------------------------------------
(* Start-up, main.js: startGateway() for every gateway.  It builds each    *)
(* listener as the third part of a pass does with every gateway dirty, and *)
(* finds no listener to stop.                                              *)

NoRouter == [routes |-> [r \in Route |-> None],
             hold   |-> [b \in Backend |-> "none"],
             policy |-> [b \in Backend |-> None]]

Init ==
  /\ gw \in [Gateway -> Maybe(GatewaySpecs)]
  /\ rt \in [Route -> Maybe(RouteSpecs)]
  /\ be \in [Backend -> Maybe(BackendSpecs)]
  /\ lb \in [Backend -> Maybe(PolicySpecs)]
  /\ dirtyGateways = {g \in Local : gw[g] # None}
  /\ dirtyRouters = {} /\ dirtyBackends = {}
  /\ timer = 0 /\ phase = "gateways"
  /\ todoBackends = {} /\ todoRouters = {} /\ todoListeners = Declared
  /\ updated = {} /\ current = {}
  /\ serving = [k \in Key |-> None]
  /\ router = [l \in Listener |-> NoRouter]
  /\ subRouter = [l \in Listener |-> "none"]
  /\ inst = [b \in Backend |-> None]
  /\ subBackend = [b \in Backend |-> FALSE]
  /\ aborted = FALSE /\ failed = {} /\ threw = {}

Change == \/ \E g \in Gateway, s \in Maybe(GatewaySpecs) : ChangeGateway(g, s)
          \/ \E r \in Route, s \in Maybe(RouteSpecs) : ChangeRoute(r, s)
          \/ \E b \in Backend, s \in Maybe(BackendSpecs) : ChangeBackend(b, s)
          \/ \E b \in Backend, s \in Maybe(PolicySpecs) : ChangePolicy(b, s)

Pass == \/ BeginPass \/ BeginRouters \/ BeginGateways \/ EndPass
        \/ \E b \in Backend : UpdateBackend(b) \/ BackendThrows(b)
        \/ \E ref \in Ref, l \in Listener : UpdateRouter(ref, l) \/ RouterUpdateThrows(ref, l)
        \/ \E ref \in Ref : FilterAborts(ref) \/ SkipRouter(ref)
        \/ \E l \in Listener : KeepListener(l) \/ MakeListener(l) \/ MakeListenerThrows(l)

Next == Change \/ Tick \/ Pass

\* Time passes and JavaScript runs to completion; resources may stop changing
Spec == Init /\ [][Next]_vars /\ WF_vars(Tick) /\ WF_vars(Pass)

----------------------------------------------------------------------------
(* Properties *)

Marked  == dirtyGateways \cup dirtyRouters \cup dirtyBackends # {}
Settled == phase = "idle" /\ timer = 0 /\ ~aborted

\* The router of l has its port, and updates of its key go to it
Live(l) == serving[l[2]] = l[1] /\ subRouter[l] = "served" /\ l \notin failed

\* Some reference of a route leads the pass to l, in its present content or
\* in the content that the router of l was built from
Leads(spec, l) ==
  spec # None /\ \E ref \in spec.refs : /\ ref \in KindedRefs /\ RefGateway[ref] = l[1]
                                        /\ FirstMatch(l[1], ref, l[2])
Tracked(r, l) == r \notin Unwatched /\ (Leads(rt[r], l) \/ Leads(router[l].routes[r], l))

\* When the marks have been worked off, every live router routes by the
\* present content of every route that some reference leads to it for,
\* whatever the order of changes, passes and failed passes before
\* (gateway.js:225-361 with resources.js:178-197).
RoutersConverge ==
  Settled => \A l \in Listener, r \in Route :
               Live(l) /\ Tracked(r, l) => router[l].routes[r] = View(l)[r]

\* ... and it was built under the present load balancing policy of every
\* backend such a route names (gateway.js:253-265).
PoliciesConverge ==
  Settled => \A l \in Listener, r \in Route, b \in Backend :
               /\ Live(l) /\ Tracked(r, l) /\ View(l)[r] # None
               /\ b \in rt[r].backends /\ router[l].hold[b] # "none"
               => router[l].policy[b] = lb[b]

\* When the marks have been worked off, every cached backend balances over
\* its present targets, and none is cached that has been deleted, unless an
\* update of it threw (backend.js:125-138).
BackendsConverge ==
  Settled => \A b \in Backend \ threw : inst[b] # None => inst[b] = be[b]

\* A router or backend is out of the reach of updates only after an update
\* or a build of it threw: a subscription is spent by running it, and
\* renewed at the end of the run (resources.js:178-197).
SubscribedUnlessThrew ==
  /\ \A l \in Listener : serving[l[2]] = l[1] /\ subRouter[l] # "served" => l \in failed
  /\ \A b \in Backend : inst[b] # None /\ ~subBackend[b] => b \in threw

\* Marks are worked off by a pass the timer is set for; only a pass that
\* threw leaves them with no timer set (gateway.js:222-224).
MarksAreScheduled ==
  phase = "idle" /\ Marked => timer > 0 \/ aborted

\* Outside a pass every open port is in currentListeners, and unless some
\* gateway is dirty a local gateway still declares it: a listener that is
\* removed, or whose gateway is, does not stay open (gateway.js:320-349).
OpenPortsAreDeclared ==
  phase = "idle" =>
    \A k \in Key : serving[k] # None => /\ k \in current
                                        /\ \/ \E g \in Local : Declares(g, k)
                                           \/ dirtyGateways # {}

\* When the marks have been worked off, the port of every declared listener
\* is open unless the last build of it threw, also where two gateways share
\* it (gateway.js:320-349).
DeclaredPortsAreOpen ==
  Settled => \A l \in Declared \ failed : serving[l[2]] # None

\* Once the resources are left alone the pass is over for good: everything
\* dirty was visited, or the pass threw (gateway.js:222-224).
PassEnds ==
  <>[][~Change]_vars => <>[](phase = "idle" /\ timer = 0 /\ (aborted \/ ~Marked))
=============================================================================
