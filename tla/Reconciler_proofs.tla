------------------------- MODULE Reconciler_proofs -------------------------
(***************************************************************************)
(* Proofs about the reconciler, for every set of gateways, listeners,      *)
(* routes, backends and references, and every order of changes and passes. *)
(***************************************************************************)
EXTENDS Reconciler, TLAPS

\* What a part of a pass has still to visit is what was marked for it
TodoInv == /\ todoBackends \subseteq dirtyBackends
           /\ todoRouters \subseteq dirtyRouters
           /\ todoListeners \subseteq Declared

\* Only listeners of local gateways are ever served
ServedIsLocal == \A k \in Key : serving[k] # None => serving[k] \in Local

\* The router of l was built from another content of r than it would be now,
\* and ref is a reference of one of the two that leads updates to l
Behind(l, r, ref) ==
  /\ Live(l)
  /\ r \notin Unwatched
  /\ router[l].routes[r] # View(l)[r]
  /\ ref \in RefsOf(rt[r]) \cup RefsOf(router[l].routes[r])
  /\ ref \in KindedRefs /\ RefGateway[ref] = l[1] /\ FirstMatch(l[1], ref, l[2])

\* The pass to come, or the rest of the one under way, will visit l, either
\* with its gateway or through ref
Pending(l, ref) ==
  \/ l[1] \in dirtyGateways /\ (phase = "gateways" => l \in todoListeners)
  \/ ref \in dirtyRouters /\ phase \in {"idle", "backends"}
  \/ ref \in todoRouters /\ phase = "routers"

RoutersCovered ==
  \A l \in Listener, r \in Route, ref \in Ref : Behind(l, r, ref) => Pending(l, ref)

\* The same for the balancers of cached backends
BackendsCovered ==
  \A b \in Backend \ threw :
    inst[b] # None /\ inst[b] # be[b] =>
      \/ phase = "idle" /\ b \in dirtyBackends
      \/ phase = "backends" /\ b \in todoBackends

----------------------------------------------------------------------------
(* Types *)

LEMMA ViewType ==
  ASSUME ResourcesOK, NEW l \in Listener
  PROVE  View(l) \in [Route -> Maybe(RouteSpecs)]
BY DEF ResourcesOK, View, Maybe

LEMMA NewRouterType ==
  ASSUME ResourcesOK, NEW l \in Listener
  PROVE  NewRouter(l) \in Router
<1>1. View(l) \in [Route -> Maybe(RouteSpecs)]
  BY ViewType
<1>2. [b \in Backend |-> IF b \in Used(l) THEN lb[b] ELSE None] \in [Backend -> Maybe(PolicySpecs)]
  BY DEF ResourcesOK, Maybe
<1>3. [b \in Backend |-> IF b \in Used(l) THEN "live" ELSE "none"]
        \in [Backend -> {"none", "live", "orphan"}]
  OBVIOUS
<1> QED BY <1>1, <1>2, <1>3 DEF NewRouter, Router

LEMMA MakeBackendsType ==
  ASSUME TypeOK, NEW bs, bs \subseteq Backend, MakeBackends(bs)
  PROVE  /\ inst' \in [Backend -> Maybe(BackendSpecs)]
         /\ subBackend' \in [Backend -> BOOLEAN]
         /\ threw' \subseteq Backend
BY DEF TypeOK, ResourcesOK, BuiltOK, MakeBackends

LEMMA OrphanType ==
  ASSUME NEW rr \in Router, NEW b \in Backend
  PROVE  /\ [rr EXCEPT !.hold[b] = "orphan"] \in Router
         /\ [rr EXCEPT !.hold[b] = "orphan"].routes = rr.routes
BY DEF Router

LEMMA InitType == Init => TypeOK
<1> SUFFICES ASSUME Init PROVE TypeOK
  OBVIOUS
<1>1. router \in [Listener -> Router]
  <2>1. NoRouter \in Router
    BY DEF NoRouter, Router, Maybe
  <2> QED BY <2>1 DEF Init
<1>2. todoListeners \subseteq Listener
  BY DEF Init, Declared
<1>3. dirtyGateways \subseteq Gateway
  BY ModeAssumption DEF Init
<1>4. BuiltOK
  BY <1>1 DEF Init, BuiltOK, Maybe
<1>5. PassOK
  <2>1. aborted \in BOOLEAN
    BY DEF Init
  <2>2. timer \in 0..Debounce
    BY ModeAssumption DEF Init
  <2> QED BY <1>2, <2>1, <2>2 DEF Init, PassOK
<1> QED BY <1>3, <1>4, <1>5 DEF Init, TypeOK, ResourcesOK, MarksOK

LEMMA ChangeType == TypeOK /\ Change => TypeOK'
<1> SUFFICES ASSUME TypeOK, Change PROVE TypeOK'
  OBVIOUS
<1>1. Change => /\ Arm
                /\ UNCHANGED <<phase, todo, updated, ports, backends, routers>>
  BY DEF Change, ChangeGateway, ChangeRoute, MarkedRefs, ChangeBackend, ChangePolicy, MarkedByPolicy
<1>2. PassOK'
  <2>1. aborted' \in BOOLEAN
    BY <1>1 DEF Arm
  <2>2. timer' \in 0..Debounce
    BY <1>1, ModeAssumption DEF Arm
  <2> QED BY <1>1, <2>1, <2>2 DEF TypeOK, PassOK, todo
<1>3. BuiltOK'
  BY <1>1 DEF TypeOK, BuiltOK, ports, backends, routers
<1>4. ASSUME NEW g \in Gateway, NEW s \in Maybe(GatewaySpecs), ChangeGateway(g, s)
      PROVE  ResourcesOK' /\ MarksOK'
  BY <1>4 DEF TypeOK, ResourcesOK, MarksOK, ChangeGateway
<1>5. ASSUME NEW r \in Route, NEW s \in Maybe(RouteSpecs), ChangeRoute(r, s)
      PROVE  ResourcesOK' /\ MarksOK'
  <2>1. \A spec \in Maybe(RouteSpecs) : RefsOf(spec) \subseteq Ref
    BY SpecsAssumption DEF RefsOf, Maybe, RouteSpec
  <2> QED BY <1>5, <2>1 DEF TypeOK, ResourcesOK, MarksOK, ChangeRoute, MarkedRefs
<1>6. ASSUME NEW b \in Backend, NEW s \in Maybe(BackendSpecs), ChangeBackend(b, s)
      PROVE  ResourcesOK' /\ MarksOK'
  BY <1>6 DEF TypeOK, ResourcesOK, MarksOK, ChangeBackend
<1>7. ASSUME NEW b \in Backend, NEW s \in Maybe(PolicySpecs), ChangePolicy(b, s)
      PROVE  ResourcesOK' /\ MarksOK'
  <2>1. \A r \in Route : rt[r] # None => rt[r].refs \subseteq Ref
    BY SpecsAssumption DEF TypeOK, ResourcesOK, Maybe, RouteSpec
  <2> QED BY <1>7, <2>1 DEF TypeOK, ResourcesOK, MarksOK, ChangePolicy, MarkedByPolicy
<1> QED BY <1>2, <1>3, <1>4, <1>5, <1>6, <1>7 DEF Change, TypeOK
\* The balancers a router build may make
LEMMA UncachedType ==
  ASSUME NEW l \in Listener
  PROVE  Uncached(l) \subseteq Used(l) /\ Used(l) \subseteq Backend
BY DEF Uncached, Used

LEMMA MakeSomeType ==
  ASSUME TypeOK, NEW l \in Listener, MakeSomeBackends(l)
  PROVE  /\ inst' \in [Backend -> Maybe(BackendSpecs)]
         /\ subBackend' \in [Backend -> BOOLEAN]
         /\ threw' \subseteq Backend
<1> PICK bs \in SUBSET {b \in Uncached(l) : be[b] \notin BadBackends} : MakeBackends(bs)
  BY DEF MakeSomeBackends
<1>1. bs \subseteq Backend
  BY UncachedType
<1> QED BY <1>1, MakeBackendsType

\* Steps that only move the pass on to its next part, and the clock
LEMMA PhaseType ==
  ASSUME TypeOK, Tick \/ BeginPass \/ BeginRouters \/ BeginGateways
  PROVE  TypeOK'
<1>1. UNCHANGED <<resources, marks, ports, backends, routers, aborted>>
  BY DEF Tick, BeginPass, BeginRouters, BeginGateways
<1>2. ResourcesOK' /\ MarksOK'
  BY <1>1 DEF TypeOK, ResourcesOK, MarksOK, resources, marks
<1>3. BuiltOK'
  BY <1>1 DEF TypeOK, BuiltOK, ports, backends, routers
<1>4. aborted' \in BOOLEAN
  BY <1>1 DEF TypeOK, PassOK
<1>5. CASE Tick
  <2>1. timer' \in 0..Debounce
    BY <1>5, ModeAssumption DEF Tick, TypeOK, PassOK
  <2> QED BY <1>2, <1>3, <1>4, <1>5, <2>1 DEF Tick, TypeOK, PassOK, todo
<1>6. CASE BeginPass
  <2>1. timer' \in 0..Debounce
    BY <1>6, ModeAssumption DEF BeginPass
  <2> QED BY <1>2, <1>3, <1>4, <1>6, <2>1 DEF BeginPass, TypeOK, PassOK, MarksOK
<1>7. CASE BeginRouters
  BY <1>2, <1>3, <1>4, <1>7 DEF BeginRouters, TypeOK, PassOK, MarksOK
<1>8. CASE BeginGateways
  <2>1. todoListeners' \subseteq Listener
    BY <1>8 DEF BeginGateways, Declared
  <2> QED BY <1>2, <1>3, <1>4, <1>8, <2>1 DEF BeginGateways, TypeOK, PassOK
<1> QED BY <1>5, <1>6, <1>7, <1>8

\* An abandoned pass
LEMMA AbortType ==
  ASSUME TypeOK, phase # "gateways", Abort, BuiltOK'
  PROVE  TypeOK'
<1>1. aborted' \in BOOLEAN
  BY DEF Abort
<1>2. UNCHANGED <<resources, marks, timer, todoListeners, updated>>
  BY DEF Abort, ports
<1>3. ResourcesOK' /\ MarksOK'
  BY <1>2 DEF TypeOK, ResourcesOK, MarksOK, resources, marks
<1>4. PassOK'
  BY <1>1, <1>2 DEF Abort, TypeOK, PassOK
<1> QED BY <1>3, <1>4 DEF TypeOK

\* Visiting a backend or a router
LEMMA VisitType ==
  ASSUME TypeOK,
         \/ \E b \in Backend : UpdateBackend(b) \/ BackendThrows(b)
         \/ \E ref \in Ref, l \in Listener : UpdateRouter(ref, l) \/ RouterUpdateThrows(ref, l)
         \/ \E ref \in Ref : FilterAborts(ref) \/ SkipRouter(ref)
  PROVE  TypeOK'
<1>1. ASSUME NEW b \in Backend, UpdateBackend(b)
      PROVE  TypeOK'
  <2>1. inst' \in [Backend -> Maybe(BackendSpecs)] /\ subBackend' \in [Backend -> BOOLEAN]
    BY <1>1 DEF UpdateBackend, TypeOK, ResourcesOK, BuiltOK, Maybe
  <2>2. router' \in [Listener -> Router]
    <3>1. \A l \in Listener : router[l] \in Router
      BY DEF TypeOK, BuiltOK
    <3>2. \A l \in Listener : [router[l] EXCEPT !.hold[b] = "orphan"] \in Router
      BY <3>1, OrphanType
    <3> QED BY <1>1, <3>1, <3>2 DEF UpdateBackend, TypeOK, BuiltOK
  <2>3. UNCHANGED <<resources, marks, timer, phase, todoRouters, todoListeners, updated,
                    ports, threw, subRouter, failed, aborted>>
    BY <1>1 DEF UpdateBackend
  <2>4. BuiltOK'
    BY <2>1, <2>2, <2>3 DEF TypeOK, BuiltOK, ports
  <2>5. ResourcesOK' /\ MarksOK'
    BY <2>3 DEF TypeOK, ResourcesOK, MarksOK, resources, marks
  <2>6. todoBackends' \subseteq todoBackends
    BY <1>1 DEF UpdateBackend
  <2>7. aborted' \in BOOLEAN
    BY <2>3 DEF TypeOK, PassOK
  <2> QED BY <2>3, <2>4, <2>5, <2>6, <2>7 DEF TypeOK, PassOK
<1>2. ASSUME NEW b \in Backend, BackendThrows(b)
      PROVE  TypeOK'
  <2>1. phase # "gateways" /\ Abort /\ UNCHANGED <<inst, routers, ports>>
    BY <1>2 DEF BackendThrows, TypeOK, PassOK, Abort
  <2>2. BuiltOK'
    BY <1>2, <2>1 DEF BackendThrows, TypeOK, BuiltOK, routers, ports
  <2> QED BY <2>1, <2>2, AbortType
<1>3. ASSUME NEW ref \in Ref, NEW l \in Listener, UpdateRouter(ref, l)
      PROVE  TypeOK'
  <2>1. /\ inst' \in [Backend -> Maybe(BackendSpecs)]
        /\ subBackend' \in [Backend -> BOOLEAN]
        /\ threw' \subseteq Backend
    BY <1>3, UncachedType, MakeBackendsType DEF UpdateRouter
  <2>2. router' \in [Listener -> Router]
    BY <1>3, NewRouterType DEF UpdateRouter, TypeOK, BuiltOK
  <2>3. UNCHANGED <<resources, marks, timer, phase, todoBackends, todoListeners, updated,
                    ports, subRouter, failed, aborted>>
    BY <1>3 DEF UpdateRouter
  <2>4. BuiltOK'
    BY <2>1, <2>2, <2>3 DEF TypeOK, BuiltOK, ports
  <2>5. ResourcesOK' /\ MarksOK'
    BY <2>3 DEF TypeOK, ResourcesOK, MarksOK, resources, marks
  <2>6. todoRouters' \subseteq todoRouters
    BY <1>3 DEF UpdateRouter
  <2>7. aborted' \in BOOLEAN
    BY <2>3 DEF TypeOK, PassOK
  <2> QED BY <2>3, <2>4, <2>5, <2>6, <2>7 DEF TypeOK, PassOK
<1>4. ASSUME NEW ref \in Ref, NEW l \in Listener, RouterUpdateThrows(ref, l)
      PROVE  TypeOK'
  <2>1. phase # "gateways" /\ Abort /\ UNCHANGED <<router, ports>>
    BY <1>4 DEF RouterUpdateThrows, TypeOK, PassOK, Abort
  <2>2. /\ inst' \in [Backend -> Maybe(BackendSpecs)]
        /\ subBackend' \in [Backend -> BOOLEAN]
        /\ threw' \subseteq Backend
    BY <1>4, MakeSomeType DEF RouterUpdateThrows
  <2>3. BuiltOK'
    BY <1>4, <2>1, <2>2 DEF RouterUpdateThrows, TypeOK, BuiltOK, ports
  <2> QED BY <2>1, <2>3, AbortType
<1>5. ASSUME NEW ref \in Ref, FilterAborts(ref)
      PROVE  TypeOK'
  <2>1. phase # "gateways" /\ Abort /\ UNCHANGED <<ports, backends, routers>>
    BY <1>5 DEF FilterAborts, TypeOK, PassOK, Abort
  <2>2. BuiltOK'
    BY <2>1 DEF TypeOK, BuiltOK, ports, backends, routers
  <2> QED BY <2>1, <2>2, AbortType
<1>6. ASSUME NEW ref \in Ref, SkipRouter(ref)
      PROVE  TypeOK'
  <2>1. UNCHANGED <<resources, marks, timer, phase, todoBackends, todoListeners, updated,
                    ports, backends, routers, aborted>>
    BY <1>6 DEF SkipRouter
  <2>2. ResourcesOK' /\ MarksOK' /\ BuiltOK'
    BY <2>1 DEF TypeOK, ResourcesOK, MarksOK, BuiltOK, resources, marks, ports, backends,
                routers
  <2>3. todoRouters' \subseteq todoRouters
    BY <1>6 DEF SkipRouter
  <2>4. aborted' \in BOOLEAN
    BY <2>1 DEF TypeOK, PassOK
  <2> QED BY <2>1, <2>2, <2>3, <2>4 DEF TypeOK, PassOK
<1> QED BY <1>1, <1>2, <1>3, <1>4, <1>5, <1>6

\* Visiting a listener
LEMMA ListenerType ==
  ASSUME TypeOK, NEW l \in Listener,
         KeepListener(l) \/ MakeListener(l) \/ MakeListenerThrows(l)
  PROVE  TypeOK'
<1>1. /\ l[1] \in Gateway /\ l[2] \in Key
      /\ UNCHANGED <<resources, marks, timer, phase, todoBackends, todoRouters, current,
                     aborted>>
      /\ todoListeners' \subseteq todoListeners
  BY DEF Listener, KeepListener, MakeListener, MakeListenerThrows, VisitRest
<1>2. ResourcesOK' /\ MarksOK'
  BY <1>1 DEF TypeOK, ResourcesOK, MarksOK, resources, marks
<1>3. updated' \subseteq Key
  BY <1>1 DEF TypeOK, PassOK, KeepListener, MakeListener, MakeListenerThrows
<1>4. aborted' \in BOOLEAN
  BY <1>1 DEF TypeOK, PassOK
<1>5. PassOK'
  BY <1>1, <1>3, <1>4 DEF TypeOK, PassOK
<1>6. BuiltOK'
  <2>1. CASE KeepListener(l)
    BY <1>1, <2>1 DEF KeepListener, TypeOK, BuiltOK, backends, routers
  <2>2. CASE MakeListener(l)
    <3>1. /\ inst' \in [Backend -> Maybe(BackendSpecs)]
          /\ subBackend' \in [Backend -> BOOLEAN]
          /\ threw' \subseteq Backend
      BY <2>2, UncachedType, MakeBackendsType DEF MakeListener
    <3>2. router' \in [Listener -> Router]
      BY <2>2, NewRouterType DEF MakeListener, TypeOK, BuiltOK
    <3>3. /\ subRouter' \in [Listener -> {"none", "served", "unserved"}]
          /\ failed' \subseteq Listener
          /\ serving' \in [Key -> Maybe(Gateway)]
      BY <1>1, <2>2 DEF MakeListener, TypeOK, BuiltOK, Maybe
    <3> QED BY <1>1, <3>1, <3>2, <3>3 DEF TypeOK, BuiltOK
  <2>3. CASE MakeListenerThrows(l)
    <3>1. /\ inst' \in [Backend -> Maybe(BackendSpecs)]
          /\ subBackend' \in [Backend -> BOOLEAN]
          /\ threw' \subseteq Backend
      <4>1. \/ UNCHANGED backends \/ MakeSomeBackends(l) \/ MakeBackends(Uncached(l))
        BY <2>3 DEF MakeListenerThrows
      <4>2. CASE UNCHANGED backends
        BY <4>2 DEF TypeOK, BuiltOK, backends
      <4> QED BY <4>1, <4>2, MakeSomeType, UncachedType, MakeBackendsType
    <3>2. subRouter' \in [Listener -> {"none", "served", "unserved"}]
      BY <2>3 DEF MakeListenerThrows, TypeOK, BuiltOK
    <3>3. UNCHANGED <<serving, router>> /\ failed' = failed \cup {l}
      BY <2>3 DEF MakeListenerThrows
    <3> QED BY <1>1, <3>1, <3>2, <3>3 DEF TypeOK, BuiltOK
  <2> QED BY <2>1, <2>2, <2>3
<1> QED BY <1>2, <1>5, <1>6 DEF TypeOK

LEMMA EndPassType ==
  ASSUME TypeOK, EndPass
  PROVE  TypeOK'
<1>1. UNCHANGED <<resources, timer, todo, backends, routers>>
  BY DEF EndPass, Closed, ForgetMarks
<1>2. serving' \in [Key -> Maybe(Gateway)] /\ current' \subseteq Key
  BY DEF EndPass, Closed, ForgetMarks, TypeOK, BuiltOK, PassOK, Maybe, ports
<1>3. BuiltOK'
  BY <1>1, <1>2 DEF TypeOK, BuiltOK, backends, routers
<1>4. aborted' \in BOOLEAN
  BY DEF EndPass, Closed, ForgetMarks
<1>5. PassOK'
  BY <1>1, <1>4 DEF EndPass, Closed, ForgetMarks, TypeOK, PassOK, todo
<1>6. ResourcesOK'
  BY <1>1 DEF TypeOK, ResourcesOK, resources
<1>7. MarksOK'
  BY DEF EndPass, Closed, ForgetMarks, MarksOK
<1> QED BY <1>3, <1>5, <1>6, <1>7 DEF TypeOK

LEMMA StutterType == TypeOK /\ UNCHANGED vars => TypeOK'
<1> SUFFICES ASSUME TypeOK, UNCHANGED vars PROVE TypeOK'
  OBVIOUS
<1>1. ResourcesOK' /\ MarksOK'
  BY DEF TypeOK, ResourcesOK, MarksOK, vars, resources, marks
<1>2. PassOK'
  BY DEF TypeOK, PassOK, vars, todo
<1>3. BuiltOK'
  BY DEF TypeOK, BuiltOK, vars, ports, backends, routers
<1> QED BY <1>1, <1>2, <1>3 DEF TypeOK

LEMMA NextType == TypeOK /\ [Next]_vars => TypeOK'
BY ChangeType, PhaseType, VisitType, ListenerType, EndPassType, StutterType
   DEF Next, Pass

\* Every variable of the reconciler keeps its type
THEOREM ReconcilerTypeCorrect == Spec => []TypeOK
BY InitType, NextType, PTL DEF Spec
----------------------------------------------------------------------------
(* The marks *)

LEMMA TodoStep ==
  ASSUME TypeOK, TodoInv, [Next]_vars
  PROVE  TodoInv'
<1>1. ASSUME phase = "idle"
      PROVE  todoBackends = {} /\ todoRouters = {} /\ todoListeners = {}
  BY <1>1 DEF TypeOK, PassOK
<1>2. CASE Change
  BY <1>1, <1>2 DEF Change, ChangeGateway, ChangeRoute, ChangeBackend, ChangePolicy, todo,
                    TodoInv
<1>3. CASE Tick \/ BeginPass
  BY <1>1, <1>3 DEF Tick, BeginPass, todo, marks, TodoInv
<1>4. CASE BeginRouters \/ BeginGateways
  <2>1. Declared' = Declared
    BY <1>4 DEF BeginRouters, BeginGateways, resources, Declared, Declares
  <2> QED BY <1>4, <2>1 DEF BeginRouters, BeginGateways, marks, TodoInv
<1>5. CASE EndPass
  <2>1. todoListeners' = {} /\ todoBackends' = {} /\ todoRouters' = {}
    BY <1>5 DEF EndPass, Closed, ForgetMarks, todo, TypeOK, PassOK
  <2> QED BY <2>1 DEF TodoInv
<1>6. CASE \/ \E b \in Backend : UpdateBackend(b) \/ BackendThrows(b)
           \/ \E ref \in Ref, l \in Listener : UpdateRouter(ref, l) \/ RouterUpdateThrows(ref, l)
           \/ \E ref \in Ref : FilterAborts(ref) \/ SkipRouter(ref)
           \/ \E l \in Listener : KeepListener(l) \/ MakeListener(l) \/ MakeListenerThrows(l)
  <2>1. UNCHANGED <<resources, marks>>
    BY <1>6 DEF UpdateBackend, BackendThrows, UpdateRouter, RouterUpdateThrows, FilterAborts,
                SkipRouter, KeepListener, MakeListener, MakeListenerThrows, VisitRest, Abort
  <2>2. Declared' = Declared
    BY <2>1 DEF resources, Declared, Declares
  <2>3. /\ todoBackends' \subseteq todoBackends
        /\ todoRouters' \subseteq todoRouters
        /\ todoListeners' \subseteq todoListeners
    BY <1>6 DEF UpdateBackend, BackendThrows, UpdateRouter, RouterUpdateThrows, FilterAborts,
                SkipRouter, KeepListener, MakeListener, MakeListenerThrows, VisitRest, Abort
  <2> QED BY <2>1, <2>2, <2>3 DEF TodoInv, marks
<1>7. CASE UNCHANGED vars
  BY <1>7 DEF vars, todo, marks, resources, TodoInv, Declared, Declares
<1> QED BY <1>2, <1>3, <1>4, <1>5, <1>6, <1>7 DEF Next, Pass

LEMMA ScheduledStep ==
  ASSUME TypeOK, MarksAreScheduled, [Next]_vars
  PROVE  MarksAreScheduled'
<1>1. CASE Change
  <2>1. timer' = Debounce
    BY <1>1 DEF Change, ChangeGateway, ChangeRoute, ChangeBackend, ChangePolicy, Arm
  <2> QED BY <2>1, ModeAssumption DEF MarksAreScheduled
<1>2. CASE Tick
  <2>1. timer' > 0
    BY <1>2, ModeAssumption DEF Tick, TypeOK, PassOK
  <2> QED BY <2>1 DEF MarksAreScheduled
<1>3. CASE EndPass
  BY <1>3 DEF EndPass, Closed, ForgetMarks, MarksAreScheduled, Marked
<1>4. CASE UNCHANGED vars
  BY <1>4 DEF vars, marks, MarksAreScheduled, Marked
<1>5. CASE \/ BeginPass \/ BeginRouters \/ BeginGateways
           \/ \E ref \in Ref : SkipRouter(ref)
           \/ \E b \in Backend : UpdateBackend(b)
           \/ \E ref \in Ref, l \in Listener : UpdateRouter(ref, l)
           \/ \E l \in Listener : KeepListener(l) \/ MakeListener(l) \/ MakeListenerThrows(l)
  <2>1. phase' # "idle"
    BY <1>5 DEF BeginPass, BeginRouters, BeginGateways, SkipRouter, UpdateBackend,
                UpdateRouter, KeepListener, MakeListener, MakeListenerThrows, VisitRest,
                TypeOK, PassOK
  <2> QED BY <2>1 DEF MarksAreScheduled
<1>6. CASE \/ \E b \in Backend : BackendThrows(b)
           \/ \E ref \in Ref, l \in Listener : RouterUpdateThrows(ref, l)
           \/ \E ref \in Ref : FilterAborts(ref)
  <2>1. aborted'
    BY <1>6 DEF BackendThrows, RouterUpdateThrows, FilterAborts, Abort
  <2> QED BY <2>1 DEF MarksAreScheduled
<1> QED BY <1>1, <1>2, <1>3, <1>4, <1>5, <1>6 DEF Next, Pass

\* Outside a pass that threw, marks always have a timer (gateway.js:222-224)
THEOREM MarksAlwaysScheduled == Spec => []MarksAreScheduled
<1>1. Init => MarksAreScheduled
  BY DEF Init, MarksAreScheduled
<1>2. TypeOK /\ MarksAreScheduled /\ [Next]_vars => MarksAreScheduled'
  BY ScheduledStep
<1> QED BY <1>1, <1>2, ReconcilerTypeCorrect, PTL DEF Spec
----------------------------------------------------------------------------
(* Ports *)

LEMMA ServedIsLocalStep ==
  ASSUME TypeOK, TodoInv, ServedIsLocal, [Next]_vars
  PROVE  ServedIsLocal'
<1>1. ASSUME NEW l \in Listener, MakeListener(l)
      PROVE  ServedIsLocal'
  <2>1. l[1] \in Local
    BY <1>1 DEF MakeListener, TodoInv, Declared
  <2>2. \A k \in Key : serving'[k] = serving[k] \/ serving'[k] = l[1]
    BY <1>1 DEF MakeListener, TypeOK, BuiltOK
  <2> QED BY <2>1, <2>2 DEF ServedIsLocal
<1>2. CASE EndPass
  <2>1. \A k \in Key : serving'[k] = serving[k] \/ serving'[k] = None
    BY <1>2 DEF EndPass, Closed, ForgetMarks, ports
  <2> QED BY <2>1 DEF ServedIsLocal
<1>3. CASE UNCHANGED ports \/ UNCHANGED serving
  BY <1>3 DEF ports, ServedIsLocal
<1>4. ASSUME Next, ~EndPass, \A l \in Listener : ~MakeListener(l)
      PROVE  UNCHANGED ports \/ UNCHANGED serving
  BY <1>4 DEF Next, Pass, Change, ChangeGateway, ChangeRoute, ChangeBackend, ChangePolicy,
              Tick, BeginPass, BeginRouters, BeginGateways, UpdateBackend, BackendThrows,
              UpdateRouter, RouterUpdateThrows, FilterAborts, SkipRouter, KeepListener,
              MakeListenerThrows, VisitRest, Abort, ports
<1> QED BY <1>1, <1>2, <1>3, <1>4 DEF vars

----------------------------------------------------------------------------
(* Routers *)

\* An update that a reference leads to goes to one listener
LEMMA FirstMatchUnique ==
  ASSUME NEW g, NEW ref, NEW j \in Key, NEW k \in Key,
         FirstMatch(g, ref, j), FirstMatch(g, ref, k)
  PROVE  j = k
<1>1. KeyRank[j] \in Nat /\ KeyRank[k] \in Nat
  BY RefAssumption
<1>2. KeyRank[j] <= KeyRank[k] /\ KeyRank[k] <= KeyRank[j]
  BY DEF FirstMatch
<1> QED BY <1>1, <1>2, RefAssumption

\* Routers stay as they are, and so does what they ought to be
LEMMA SameRouters ==
  ASSUME UNCHANGED <<gw, rt, serving, router, subRouter, failed>>,
         NEW l \in Listener, NEW r \in Route, NEW ref \in Ref, Behind(l, r, ref)'
  PROVE  Behind(l, r, ref)
BY DEF Behind, Live, View, RefersTo, FirstMatch, Declares, RefsOf

LEMMA ChangeGatewayCovered ==
  ASSUME TypeOK, RoutersCovered,
         NEW g \in Gateway, NEW s \in Maybe(GatewaySpecs), ChangeGateway(g, s)
  PROVE  RoutersCovered'
<1> SUFFICES ASSUME NEW l \in Listener, NEW r \in Route, NEW ref \in Ref,
                    Behind(l, r, ref)'
             PROVE  Pending(l, ref)'
  BY DEF RoutersCovered
<1>1. phase' = "idle" /\ phase = "idle"
  BY DEF ChangeGateway
<1>2. CASE l[1] = g
  BY <1>1, <1>2 DEF ChangeGateway, Pending
<1>3. CASE l[1] # g
  <2>1. l[1] \in Gateway /\ gw'[l[1]] = gw[l[1]]
    BY <1>3 DEF Listener, ChangeGateway, TypeOK, ResourcesOK
  <2>2. UNCHANGED <<rt, serving, router, subRouter, failed>>
    BY DEF ChangeGateway, ports, routers
  <2>3. Behind(l, r, ref)
    BY <2>1, <2>2 DEF Behind, Live, View, RefersTo, FirstMatch, Declares, RefsOf
  <2>4. l[1] \in dirtyGateways \/ ref \in dirtyRouters
    BY <1>1, <2>3 DEF RoutersCovered, Pending
  <2>5. RefGateway[ref] # g
    BY <1>3, <2>3 DEF Behind
  <2> QED BY <1>1, <2>4, <2>5 DEF ChangeGateway, Pending
<1> QED BY <1>2, <1>3

LEMMA ChangeRouteCovered ==
  ASSUME TypeOK, RoutersCovered,
         NEW q \in Route, NEW s \in Maybe(RouteSpecs), ChangeRoute(q, s)
  PROVE  RoutersCovered'
<1> SUFFICES ASSUME NEW l \in Listener, NEW r \in Route, NEW ref \in Ref,
                    Behind(l, r, ref)'
             PROVE  Pending(l, ref)'
  BY DEF RoutersCovered
<1>1. /\ phase' = "idle" /\ phase = "idle"
      /\ UNCHANGED <<gw, serving, router, subRouter, failed, dirtyGateways>>
      /\ dirtyRouters \subseteq dirtyRouters'
  BY DEF ChangeRoute, MarkedRefs, ports, routers
<1>2. rt' = [rt EXCEPT ![q] = s] /\ rt \in [Route -> Maybe(RouteSpecs)]
  BY DEF ChangeRoute, MarkedRefs, TypeOK, ResourcesOK
<1>3. ASSUME Behind(l, r, ref) PROVE Pending(l, ref)'
  BY <1>1, <1>3 DEF RoutersCovered, Pending
<1>4. /\ Live(l) /\ r \notin Unwatched
      /\ ref \in KindedRefs /\ RefGateway[ref] = l[1] /\ FirstMatch(l[1], ref, l[2])
      /\ router[l].routes[r] # View(l)'[r]
      /\ ref \in RefsOf(rt'[r]) \cup RefsOf(router[l].routes[r])
  BY <1>1 DEF Behind, Live, FirstMatch, Declares, RefsOf
<1>5. CASE r # q
  <2>1. rt'[r] = rt[r]
    BY <1>2, <1>5
  <2>2. View(l)'[r] = View(l)[r]
    BY <2>1 DEF View, RefersTo
  <2> QED BY <1>3, <1>4, <2>1, <2>2 DEF Behind
<1>6. CASE r = q
  <2>1. RefsOf(s) \cup RefsOf(rt[r]) \subseteq dirtyRouters'
    BY <1>4, <1>6 DEF ChangeRoute, MarkedRefs
  <2>2. CASE ref \in RefsOf(rt'[r])
    BY <1>1, <1>2, <1>6, <2>1, <2>2 DEF Pending
  <2>3. CASE ref \in RefsOf(router[l].routes[r])
    <3>1. CASE router[l].routes[r] # View(l)[r]
      BY <1>3, <1>4, <2>3, <3>1 DEF Behind
    <3>2. CASE router[l].routes[r] = View(l)[r]
      <4>1. ref \in RefsOf(rt[r])
        BY <2>3, <3>2 DEF View, RefsOf
      <4> QED BY <1>1, <2>1, <4>1 DEF Pending
    <3> QED BY <3>1, <3>2
  <2> QED BY <1>4, <2>2, <2>3
<1> QED BY <1>5, <1>6

\* A step that leaves routers and routes alone, and no visit undone
LEMMA OtherCovered ==
  ASSUME RoutersCovered, UNCHANGED <<gw, rt, serving, router, subRouter, failed>>,
         \A l \in Listener, ref \in Ref : Pending(l, ref) => Pending(l, ref)'
  PROVE  RoutersCovered'
BY SameRouters DEF RoutersCovered

LEMMA ChangeCovered ==
  ASSUME TypeOK, RoutersCovered, Change
  PROVE  RoutersCovered'
<1>1. ASSUME NEW b \in Backend, NEW s \in Maybe(BackendSpecs), ChangeBackend(b, s)
      PROVE  RoutersCovered'
  <2>1. UNCHANGED <<gw, rt, serving, router, subRouter, failed>>
    BY <1>1 DEF ChangeBackend, ports, routers
  <2>2. \A l \in Listener, ref \in Ref : Pending(l, ref) => Pending(l, ref)'
    BY <1>1 DEF ChangeBackend, Pending, todo
  <2> QED BY <2>1, <2>2, OtherCovered
<1>2. ASSUME NEW b \in Backend, NEW s \in Maybe(PolicySpecs), ChangePolicy(b, s)
      PROVE  RoutersCovered'
  <2>1. UNCHANGED <<gw, rt, serving, router, subRouter, failed>>
    BY <1>2 DEF ChangePolicy, MarkedByPolicy, ports, routers
  <2>2. /\ UNCHANGED <<dirtyGateways, phase, todoListeners, todoRouters>>
        /\ dirtyRouters \subseteq dirtyRouters'
    BY <1>2 DEF ChangePolicy, MarkedByPolicy, todo
  <2>3. \A l \in Listener, ref \in Ref : Pending(l, ref) => Pending(l, ref)'
    BY <2>2 DEF Pending
  <2> QED BY <2>1, <2>3, OtherCovered
<1> QED BY <1>1, <1>2, ChangeGatewayCovered, ChangeRouteCovered DEF Change
LEMMA PhaseCovered ==
  ASSUME TypeOK, TodoInv, ServedIsLocal, RoutersCovered,
         Tick \/ BeginPass \/ BeginRouters \/ BeginGateways
  PROVE  RoutersCovered'
<1>1. UNCHANGED <<gw, rt, serving, router, subRouter, failed>>
  BY DEF Tick, BeginPass, BeginRouters, BeginGateways, resources, ports, routers
<1>2. CASE Tick \/ BeginPass \/ BeginRouters
  <2>1. \A l \in Listener, ref \in Ref : Pending(l, ref) => Pending(l, ref)'
    BY <1>2 DEF Tick, BeginPass, BeginRouters, Pending, marks, todo
  <2> QED BY <1>1, <2>1, OtherCovered
<1>3. CASE BeginGateways
  <2> SUFFICES ASSUME NEW l \in Listener, NEW r \in Route, NEW ref \in Ref,
                      Behind(l, r, ref)'
               PROVE  Pending(l, ref)'
    BY DEF RoutersCovered
  <2>1. Behind(l, r, ref)
    BY <1>1, SameRouters
  <2>2. l[1] \in dirtyGateways
    BY <1>3, <2>1 DEF RoutersCovered, Pending, BeginGateways
  <2>3. l \in Declared
    BY <2>1, NoneAssumption
       DEF Behind, Live, FirstMatch, Declared, ServedIsLocal, Listener
  <2>4. todoListeners' = Declared /\ dirtyGateways' = dirtyGateways
    BY <1>3, <2>2 DEF BeginGateways, marks
  <2> QED BY <2>2, <2>3, <2>4 DEF Pending
<1> QED BY <1>2, <1>3

\* A pass that is abandoned keeps its marks
LEMMA AbortPending ==
  ASSUME TodoInv, phase # "gateways", Abort
  PROVE  \A l \in Listener, ref \in Ref : Pending(l, ref) => Pending(l, ref)'
BY DEF TodoInv, Abort, marks, Pending

LEMMA BackendStepCovered ==
  ASSUME TypeOK, TodoInv, RoutersCovered, NEW b \in Backend,
         UpdateBackend(b) \/ BackendThrows(b)
  PROVE  RoutersCovered'
<1>1. CASE UpdateBackend(b)
  <2> SUFFICES ASSUME NEW l \in Listener, NEW r \in Route, NEW ref \in Ref,
                      Behind(l, r, ref)'
               PROVE  Pending(l, ref)'
    BY DEF RoutersCovered
  <2>1. UNCHANGED <<gw, rt, serving, subRouter, failed, phase, dirtyGateways, dirtyRouters,
                    todoListeners, todoRouters>>
    BY <1>1 DEF UpdateBackend, resources, marks, ports
  <2>2. router'[l].routes = router[l].routes
    <3>1. router[l] \in Router /\ router \in [Listener -> Router]
      BY DEF TypeOK, BuiltOK
    <3>2. router'[l] = router[l] \/ router'[l] = [router[l] EXCEPT !.hold[b] = "orphan"]
      BY <1>1, <3>1 DEF UpdateBackend
    <3> QED BY <3>1, <3>2, OrphanType
  <2>3. Behind(l, r, ref)
    BY <2>1, <2>2 DEF Behind, Live, View, RefersTo, FirstMatch, Declares, RefsOf
  <2> QED BY <2>1, <2>3 DEF RoutersCovered, Pending
<1>2. CASE BackendThrows(b)
  <2>1. UNCHANGED <<gw, rt, serving, router, subRouter, failed>>
    BY <1>2 DEF BackendThrows, Abort, resources, ports, routers
  <2>2. phase # "gateways" /\ Abort
    BY <1>2 DEF BackendThrows, TypeOK, PassOK
  <2> QED BY <2>1, <2>2, AbortPending, OtherCovered
<1> QED BY <1>1, <1>2

LEMMA UpdateRouterCovered ==
  ASSUME TypeOK, RoutersCovered, NEW mark \in Ref, NEW m \in Listener,
         UpdateRouter(mark, m)
  PROVE  RoutersCovered'
<1> SUFFICES ASSUME NEW l \in Listener, NEW r \in Route, NEW ref \in Ref,
                    Behind(l, r, ref)'
             PROVE  Pending(l, ref)'
  BY DEF RoutersCovered
<1>1. UNCHANGED <<gw, rt, serving, subRouter, failed, phase, dirtyGateways, dirtyRouters,
                  todoListeners>>
  BY DEF UpdateRouter, resources, marks, ports
<1>2. router \in [Listener -> Router]
  BY DEF TypeOK, BuiltOK
<1>3. ASSUME l = m PROVE FALSE
  <2>1. subRouter[m] = "served"
    BY <1>1, <1>3 DEF Behind, Live
  <2>2. router'[m].routes = View(m)
    BY <1>2, <2>1 DEF UpdateRouter, NewRouter
  <2>3. View(m)' = View(m)
    BY <1>1 DEF View, RefersTo
  <2> QED BY <1>3, <2>2, <2>3 DEF Behind
<1>4. router'[l] = router[l]
  BY <1>2, <1>3 DEF UpdateRouter
<1>5. Behind(l, r, ref)
  BY <1>1, <1>4 DEF Behind, Live, View, RefersTo, FirstMatch, Declares, RefsOf
<1>6. ref # mark
  <2> SUFFICES ASSUME ref = mark PROVE FALSE
    OBVIOUS
  <2>1. l[1] = m[1] /\ FirstMatch(l[1], ref, l[2]) /\ FirstMatch(l[1], ref, m[2])
    BY <1>5 DEF Behind, UpdateRouter, Reaches
  <2>2. l[2] = m[2]
    BY <2>1, FirstMatchUnique DEF Listener
  <2> QED BY <1>3, <2>1, <2>2 DEF Listener
<1>7. todoRouters' = todoRouters \ {mark}
  BY DEF UpdateRouter
<1> QED BY <1>1, <1>5, <1>6, <1>7 DEF RoutersCovered, Pending

LEMMA RouterThrowsCovered ==
  ASSUME TypeOK, TodoInv, RoutersCovered, NEW mark \in Ref, NEW m \in Listener,
         RouterUpdateThrows(mark, m)
  PROVE  RoutersCovered'
<1> SUFFICES ASSUME NEW l \in Listener, NEW r \in Route, NEW ref \in Ref,
                    Behind(l, r, ref)'
             PROVE  Pending(l, ref)'
  BY DEF RoutersCovered
<1>1. UNCHANGED <<gw, rt, serving, router>> /\ failed \subseteq failed'
  BY DEF RouterUpdateThrows, Abort, resources, ports
<1>2. phase # "gateways" /\ Abort
  BY DEF RouterUpdateThrows, TypeOK, PassOK
<1>3. l # m
  BY DEF Behind, Live, RouterUpdateThrows
<1>4. subRouter'[l] = subRouter[l]
  BY <1>3 DEF RouterUpdateThrows, TypeOK, BuiltOK
<1>5. Behind(l, r, ref)
  BY <1>1, <1>4 DEF Behind, Live, View, RefersTo, FirstMatch, Declares, RefsOf
<1> QED BY <1>2, <1>5, AbortPending DEF RoutersCovered

LEMMA SkipCovered ==
  ASSUME TypeOK, TodoInv, ServedIsLocal, RoutersCovered, NEW mark \in Ref,
         FilterAborts(mark) \/ SkipRouter(mark)
  PROVE  RoutersCovered'
<1>1. UNCHANGED <<gw, rt, serving, router, subRouter, failed>>
  BY DEF FilterAborts, SkipRouter, Abort, resources, ports, routers
<1>2. CASE FilterAborts(mark)
  <2>1. phase # "gateways" /\ Abort
    BY <1>2 DEF FilterAborts, TypeOK, PassOK
  <2> QED BY <1>1, <2>1, AbortPending, OtherCovered
<1>3. CASE SkipRouter(mark)
  <2> SUFFICES ASSUME NEW l \in Listener, NEW r \in Route, NEW ref \in Ref,
                      Behind(l, r, ref)'
               PROVE  Pending(l, ref)'
    BY DEF RoutersCovered
  <2>1. Behind(l, r, ref)
    BY <1>1, SameRouters
  <2>2. l[1] \in Local
    BY <2>1, NoneAssumption DEF Behind, Live, ServedIsLocal, Listener
  <2>3. ref # mark
    BY <1>3, <2>1, <2>2 DEF SkipRouter, Reaches, Behind, Live
  <2>4. /\ UNCHANGED <<phase, dirtyGateways, dirtyRouters, todoListeners>>
        /\ todoRouters' = todoRouters \ {mark}
    BY <1>3 DEF SkipRouter, marks
  <2> QED BY <2>1, <2>3, <2>4 DEF RoutersCovered, Pending
<1> QED BY <1>2, <1>3

LEMMA ListenerStepCovered ==
  ASSUME TypeOK, TodoInv, RoutersCovered, NEW m \in Listener,
         KeepListener(m) \/ MakeListener(m) \/ MakeListenerThrows(m)
  PROVE  RoutersCovered'
<1> SUFFICES ASSUME NEW l \in Listener, NEW r \in Route, NEW ref \in Ref,
                    Behind(l, r, ref)'
             PROVE  Pending(l, ref)'
  BY DEF RoutersCovered
<1>1. /\ phase = "gateways"
      /\ UNCHANGED <<gw, rt, phase, dirtyGateways, dirtyRouters, todoRouters>>
      /\ todoListeners' = todoListeners \ {m}
  BY DEF KeepListener, MakeListener, MakeListenerThrows, VisitRest, resources, marks,
         TypeOK, PassOK
<1>2. ASSUME l # m, Behind(l, r, ref) PROVE Pending(l, ref)'
  BY <1>1, <1>2 DEF RoutersCovered, Pending
<1>3. CASE KeepListener(m)
  <2>1. UNCHANGED <<gw, rt, serving, router, subRouter, failed>>
    BY <1>1, <1>3 DEF KeepListener, routers
  <2>2. Behind(l, r, ref)
    BY <2>1, SameRouters
  <2>3. l # m
    BY <1>1, <1>3, <2>2 DEF RoutersCovered, Pending, KeepListener
  <2> QED BY <1>2, <2>2, <2>3
<1>4. CASE MakeListener(m)
  <2>1. l # m
    <3> SUFFICES ASSUME l = m PROVE FALSE
      OBVIOUS
    <3>1. router'[m].routes = View(m)
      BY <1>4 DEF MakeListener, NewRouter, TypeOK, BuiltOK
    <3>2. View(m)' = View(m)
      BY <1>1 DEF View, RefersTo
    <3> QED BY <3>1, <3>2 DEF Behind
  <2>2. l[2] # m[2]
    BY <1>4, <2>1 DEF MakeListener, Behind, Live, Listener, TypeOK, BuiltOK
  <2>3. /\ router'[l] = router[l] /\ subRouter'[l] = subRouter[l]
        /\ serving'[l[2]] = serving[l[2]] /\ (l \in failed => l \in failed')
    BY <1>4, <2>1, <2>2 DEF MakeListener, TypeOK, BuiltOK, Listener
  <2>4. Behind(l, r, ref)
    BY <1>1, <2>3 DEF Behind, Live, View, RefersTo, FirstMatch, Declares, RefsOf
  <2> QED BY <1>2, <2>1, <2>4
<1>5. CASE MakeListenerThrows(m)
  <2>1. l # m
    BY <1>5 DEF MakeListenerThrows, Behind, Live
  <2>2. /\ router'[l] = router[l] /\ subRouter'[l] = subRouter[l]
        /\ serving'[l[2]] = serving[l[2]] /\ (l \in failed => l \in failed')
    BY <1>5, <2>1 DEF MakeListenerThrows, TypeOK, BuiltOK
  <2>3. Behind(l, r, ref)
    BY <1>1, <2>2 DEF Behind, Live, View, RefersTo, FirstMatch, Declares, RefsOf
  <2> QED BY <1>2, <2>1, <2>3
<1> QED BY <1>3, <1>4, <1>5

LEMMA EndPassCovered ==
  ASSUME TypeOK, RoutersCovered, EndPass
  PROVE  RoutersCovered'
<1> SUFFICES ASSUME NEW l \in Listener, NEW r \in Route, NEW ref \in Ref,
                    Behind(l, r, ref)'
             PROVE  FALSE
  BY DEF RoutersCovered
<1>1. UNCHANGED <<gw, rt, router, subRouter, failed>>
  BY DEF EndPass, Closed, ForgetMarks, resources, routers
<1>2. l[1] # None /\ l[2] \in Key
  BY NoneAssumption DEF Listener
<1>3. serving[l[2]] = l[1]
  BY <1>2 DEF Behind, Live, EndPass, Closed, ForgetMarks, ports
<1>4. Behind(l, r, ref)
  BY <1>1, <1>3 DEF Behind, Live, View, RefersTo, FirstMatch, Declares, RefsOf
<1>5. ~Pending(l, ref)
  BY DEF EndPass, Closed, ForgetMarks, Pending
<1> QED BY <1>4, <1>5 DEF RoutersCovered

LEMMA CoveredStep ==
  ASSUME TypeOK, TodoInv, ServedIsLocal, RoutersCovered, [Next]_vars
  PROVE  RoutersCovered'
<1>1. CASE UNCHANGED vars
  <2>1. UNCHANGED <<gw, rt, serving, router, subRouter, failed>>
    BY <1>1 DEF vars, resources, ports, routers
  <2>2. \A l \in Listener, ref \in Ref : Pending(l, ref) => Pending(l, ref)'
    BY <1>1 DEF vars, marks, todo, Pending
  <2> QED BY <2>1, <2>2, OtherCovered
<1> QED BY <1>1, ChangeCovered, PhaseCovered, BackendStepCovered, UpdateRouterCovered,
           RouterThrowsCovered, SkipCovered, ListenerStepCovered, EndPassCovered
           DEF Next, Pass

----------------------------------------------------------------------------
ReconcilerInv == TypeOK /\ TodoInv /\ MarksAreScheduled /\ ServedIsLocal /\ RoutersCovered

LEMMA ReconcilerInvInit == Init => ReconcilerInv
<1> SUFFICES ASSUME Init PROVE ReconcilerInv
  OBVIOUS
<1>1. TypeOK
  BY InitType
<1>2. TodoInv /\ MarksAreScheduled
  BY DEF Init, TodoInv, MarksAreScheduled
<1>3. ServedIsLocal
  BY DEF Init, ServedIsLocal
<1>4. RoutersCovered
  <2>1. \A l \in Listener : ~Live(l)
    BY DEF Init, Live
  <2> QED BY <2>1 DEF RoutersCovered, Behind
<1> QED BY <1>1, <1>2, <1>3, <1>4 DEF ReconcilerInv

\* The inductive invariant of the reconciler
THEOREM ReconcilerInvariant == Spec => []ReconcilerInv
<1>1. Init => ReconcilerInv
  BY ReconcilerInvInit
<1>2. ReconcilerInv /\ [Next]_vars => ReconcilerInv'
  BY NextType, TodoStep, ScheduledStep, ServedIsLocalStep, CoveredStep DEF ReconcilerInv
<1> QED BY <1>1, <1>2, PTL DEF Spec

\* Once the marks are worked off, every live router routes by the present
\* content of every route that a reference leads to it for
\* (gateway.js:225-361 with resources.js:178-197)
THEOREM RoutersAlwaysConverge == Spec => []RoutersConverge
<1>1. ReconcilerInv => RoutersConverge
  <2> SUFFICES ASSUME ReconcilerInv, Settled, NEW l \in Listener, NEW r \in Route,
                      Live(l), Tracked(r, l), router[l].routes[r] # View(l)[r]
               PROVE  FALSE
    BY DEF RoutersConverge
  <2>1. ~Marked /\ phase = "idle"
    BY DEF ReconcilerInv, MarksAreScheduled, Settled
  <2>2. \A ref \in Ref : ~Pending(l, ref)
    BY <2>1 DEF Pending, Marked
  <2>3. RefsOf(rt[r]) \subseteq Ref /\ RefsOf(router[l].routes[r]) \subseteq Ref
    <3>1. rt[r] \in Maybe(RouteSpecs) /\ router[l].routes[r] \in Maybe(RouteSpecs)
      BY DEF ReconcilerInv, TypeOK, ResourcesOK, BuiltOK, Router
    <3> QED BY <3>1, SpecsAssumption DEF Maybe, RefsOf, RouteSpec
  <2>4. PICK ref \in Ref : Behind(l, r, ref)
    BY <2>3 DEF Tracked, Leads, Behind, RefsOf
  <2> QED BY <2>2, <2>4 DEF ReconcilerInv, RoutersCovered
<1> QED BY <1>1, ReconcilerInvariant, PTL
----------------------------------------------------------------------------
(* Subscriptions and cached backends *)

\* Making balancers subscribes them with their present targets
LEMMA MakeBackendsEffect ==
  ASSUME TypeOK, NEW bs, bs \subseteq Backend, MakeBackends(bs), NEW b \in Backend
  PROVE  \/ inst'[b] = be[b] /\ subBackend'[b] /\ b \notin threw'
         \/ inst'[b] = inst[b] /\ subBackend'[b] = subBackend[b] /\ (b \in threw <=> b \in threw')
<1>1. inst'[b] = IF b \in bs THEN be[b] ELSE inst[b]
  BY DEF MakeBackends
<1>2. b \in threw' <=> b \in threw /\ b \notin bs
  BY DEF MakeBackends
<1>3. subBackend'[b] = (b \in bs \/ subBackend[b])
  BY DEF MakeBackends
<1>4. subBackend[b] \in BOOLEAN
  BY DEF TypeOK, BuiltOK
<1>5. CASE b \in bs
  BY <1>1, <1>2, <1>3, <1>5
<1>6. CASE b \notin bs
  BY <1>1, <1>2, <1>3, <1>4, <1>6
<1> QED BY <1>5, <1>6

\* What a step outside the backends part does to a backend: nothing, or it
\* makes its balancer
BuildStep ==
  \/ \E ref \in Ref, l \in Listener : UpdateRouter(ref, l) \/ RouterUpdateThrows(ref, l)
  \/ \E l \in Listener : MakeListener(l) \/ MakeListenerThrows(l)

LEMMA BuildEffect ==
  ASSUME TypeOK, BuildStep, NEW b \in Backend
  PROVE  \/ inst'[b] = be[b] /\ subBackend'[b] /\ b \notin threw'
         \/ inst'[b] = inst[b] /\ subBackend'[b] = subBackend[b] /\ (b \in threw <=> b \in threw')
<1>1. \/ UNCHANGED backends
      \/ \E l \in Listener : MakeSomeBackends(l) \/ MakeBackends(Uncached(l))
  BY DEF BuildStep, UpdateRouter, RouterUpdateThrows, MakeListener, MakeListenerThrows
<1>2. CASE UNCHANGED backends
  BY <1>2 DEF backends
<1>3. ASSUME NEW l \in Listener, MakeSomeBackends(l)
      PROVE  \E bs : bs \subseteq Backend /\ MakeBackends(bs)
  BY <1>3, UncachedType DEF MakeSomeBackends
<1>4. ASSUME NEW l \in Listener, MakeBackends(Uncached(l))
      PROVE  \E bs : bs \subseteq Backend /\ MakeBackends(bs)
  BY <1>4, UncachedType
<1> QED BY <1>1, <1>2, <1>3, <1>4, MakeBackendsEffect

\* Every step is a build, a visit of a backend, or leaves the backends alone
LEMMA BackendFrame ==
  ASSUME [Next]_vars
  PROVE  \/ BuildStep
         \/ \E b \in Backend : UpdateBackend(b) \/ BackendThrows(b)
         \/ UNCHANGED backends
BY DEF Next, Pass, Change, BuildStep, ChangeGateway, ChangeRoute, ChangeBackend, ChangePolicy,
       Tick, BeginPass, BeginRouters, BeginGateways, EndPass, Closed, ForgetMarks, FilterAborts, SkipRouter,
       KeepListener, vars

LEMMA BackendsSubscribedStep ==
  ASSUME TypeOK, SubscribedUnlessThrew, [Next]_vars,
         NEW b \in Backend, inst'[b] # None, ~subBackend'[b]
  PROVE  b \in threw'
<1>1. CASE BuildStep
  BY <1>1, BuildEffect DEF SubscribedUnlessThrew
<1>2. ASSUME NEW c \in Backend, UpdateBackend(c) PROVE b \in threw'
  BY <1>2 DEF UpdateBackend, SubscribedUnlessThrew, TypeOK, BuiltOK
<1>3. ASSUME NEW c \in Backend, BackendThrows(c) PROVE b \in threw'
  BY <1>3 DEF BackendThrows, SubscribedUnlessThrew, TypeOK, BuiltOK
<1>4. CASE UNCHANGED backends
  BY <1>4 DEF backends, SubscribedUnlessThrew
<1> QED BY <1>1, <1>2, <1>3, <1>4, BackendFrame

LEMMA ListenersSubscribedStep ==
  ASSUME TypeOK, SubscribedUnlessThrew, [Next]_vars,
         NEW l \in Listener, serving'[l[2]] = l[1], subRouter'[l] # "served"
  PROVE  l \in failed'
<1>0. l[1] # None /\ l[2] \in Key
  BY NoneAssumption DEF Listener
<1>1. ASSUME NEW m \in Listener, MakeListener(m)
      PROVE  l \in failed'
  <2>1. l # m
    BY <1>1 DEF MakeListener, TypeOK, BuiltOK
  <2>2. l[2] # m[2]
    BY <1>1, <2>1 DEF MakeListener, Listener, TypeOK, BuiltOK
  <2> QED BY <1>1, <2>1, <2>2 DEF MakeListener, SubscribedUnlessThrew, TypeOK, BuiltOK, Listener
<1>2. ASSUME NEW m \in Listener, MakeListenerThrows(m)
      PROVE  l \in failed'
  <2>1. CASE l = m
    BY <1>2, <2>1 DEF MakeListenerThrows
  <2>2. CASE l # m
    BY <1>2, <2>2 DEF MakeListenerThrows, SubscribedUnlessThrew, TypeOK, BuiltOK
  <2> QED BY <2>1, <2>2
<1>3. ASSUME NEW ref \in Ref, NEW m \in Listener, RouterUpdateThrows(ref, m)
      PROVE  l \in failed'
  BY <1>3 DEF RouterUpdateThrows, Abort, ports, SubscribedUnlessThrew, TypeOK, BuiltOK
<1>4. CASE EndPass
  BY <1>0, <1>4 DEF EndPass, Closed, ForgetMarks, ports, routers, SubscribedUnlessThrew
<1>5. CASE UNCHANGED <<serving, subRouter, failed>>
  BY <1>5 DEF SubscribedUnlessThrew
<1>6. ASSUME Next, ~EndPass, \A m \in Listener : ~MakeListener(m) /\ ~MakeListenerThrows(m),
             \A ref \in Ref, m \in Listener : ~RouterUpdateThrows(ref, m)
      PROVE  UNCHANGED <<serving, subRouter, failed>>
  BY <1>6 DEF Next, Pass, Change, ChangeGateway, ChangeRoute, ChangeBackend, ChangePolicy,
              Tick, BeginPass, BeginRouters, BeginGateways, UpdateBackend, BackendThrows,
              UpdateRouter, FilterAborts, SkipRouter, KeepListener, VisitRest, Abort, ports,
              routers
<1> QED BY <1>1, <1>2, <1>3, <1>4, <1>5, <1>6 DEF vars, ports, routers

\* Subscriptions are lost only to exceptions (resources.js:178-197)
THEOREM AlwaysSubscribedUnlessThrew == Spec => []SubscribedUnlessThrew
<1>1. Init => SubscribedUnlessThrew
  <2> SUFFICES ASSUME Init PROVE SubscribedUnlessThrew
    OBVIOUS
  <2>1. \A l \in Listener : serving[l[2]] # l[1]
    BY NoneAssumption DEF Init, Listener
  <2> QED BY <2>1 DEF Init, SubscribedUnlessThrew
<1>2. TypeOK /\ SubscribedUnlessThrew /\ [Next]_vars => SubscribedUnlessThrew'
  BY BackendsSubscribedStep, ListenersSubscribedStep DEF SubscribedUnlessThrew
<1> QED BY <1>1, <1>2, ReconcilerTypeCorrect, PTL DEF Spec

LEMMA BackendsCoveredStep ==
  ASSUME TypeOK, TodoInv, SubscribedUnlessThrew, BackendsCovered, [Next]_vars
  PROVE  BackendsCovered'
<1> SUFFICES ASSUME NEW b \in Backend, b \notin threw', inst'[b] # None, inst'[b] # be'[b]
             PROVE  \/ phase' = "idle" /\ b \in dirtyBackends'
                    \/ phase' = "backends" /\ b \in todoBackends'
  BY DEF BackendsCovered
<1>1. CASE BuildStep
  <2>1. be' = be /\ phase \in {"routers", "gateways"}
    BY <1>1 DEF BuildStep, UpdateRouter, RouterUpdateThrows, MakeListener, MakeListenerThrows,
                VisitRest, Abort, resources, TypeOK, PassOK
  <2>2. b \notin threw /\ inst[b] # None /\ inst[b] # be[b]
    BY <1>1, <2>1, BuildEffect
  <2> QED BY <2>1, <2>2 DEF BackendsCovered
<1>2. ASSUME NEW c \in Backend, UpdateBackend(c)
      PROVE  phase' = "backends" /\ b \in todoBackends'
  <2>1. /\ phase = "backends" /\ phase' = phase /\ be' = be /\ threw' = threw
        /\ todoBackends' = todoBackends \ {c}
    BY <1>2 DEF UpdateBackend, resources, TypeOK, PassOK
  <2>2. inst'[b] = inst[b] /\ b # c
    <3>1. inst \in [Backend -> Maybe(BackendSpecs)]
      BY DEF TypeOK, BuiltOK
    <3>2. b = c => ~subBackend[c]
      BY <1>2, <2>1, <3>1 DEF UpdateBackend
    <3>3. b = c => inst[b] # None
      BY <1>2, <3>2 DEF UpdateBackend
    <3> QED BY <1>2, <2>1, <3>1, <3>2, <3>3 DEF UpdateBackend, SubscribedUnlessThrew
  <2> QED BY <2>1, <2>2 DEF BackendsCovered
<1>3. ASSUME NEW c \in Backend, BackendThrows(c)
      PROVE  phase' = "idle" /\ b \in dirtyBackends'
  <2>1. /\ phase = "backends" /\ phase' = "idle" /\ be' = be /\ inst' = inst
        /\ b \notin threw /\ dirtyBackends' = dirtyBackends
    BY <1>3 DEF BackendThrows, Abort, resources, marks, TypeOK, PassOK
  <2> QED BY <2>1 DEF BackendsCovered, TodoInv
<1>4. CASE UNCHANGED backends
  <2>1. inst' = inst /\ threw' = threw
    BY <1>4 DEF backends
  <2>2. ASSUME NEW c \in Backend, NEW s \in Maybe(BackendSpecs), ChangeBackend(c, s)
        PROVE  phase' = "idle" /\ b \in dirtyBackends'
    <3>1. phase = "idle" /\ phase' = "idle" /\ dirtyBackends' = dirtyBackends \cup {c}
      BY <2>2 DEF ChangeBackend
    <3>2. b # c => be'[b] = be[b]
      BY <2>2 DEF ChangeBackend, TypeOK, ResourcesOK
    <3> QED BY <2>1, <3>1, <3>2 DEF BackendsCovered
  <2>3. CASE BeginPass \/ BeginRouters
    BY <2>1, <2>3 DEF BeginPass, BeginRouters, resources, marks, BackendsCovered, TypeOK,
                      PassOK
  <2>4. CASE EndPass \/ BeginGateways
    BY <2>1, <2>4 DEF EndPass, Closed, ForgetMarks, BeginGateways, resources, BackendsCovered
  <2>5. ASSUME NEW ref \in Ref, FilterAborts(ref)
        PROVE  FALSE
    BY <2>1, <2>5 DEF FilterAborts, Abort, resources, BackendsCovered, TypeOK, PassOK
  <2>6. CASE UNCHANGED <<be, dirtyBackends, phase, todoBackends>>
    BY <2>1, <2>6 DEF BackendsCovered
  <2>7. ASSUME Next, ~BuildStep, \A c \in Backend : ~UpdateBackend(c) /\ ~BackendThrows(c),
               ~(BeginPass \/ BeginRouters \/ EndPass \/ BeginGateways),
               \A ref \in Ref : ~FilterAborts(ref),
               \A c \in Backend, s \in Maybe(BackendSpecs) : ~ChangeBackend(c, s)
        PROVE  UNCHANGED <<be, dirtyBackends, phase, todoBackends>>
    BY <2>7 DEF Next, Pass, Change, BuildStep, ChangeGateway, ChangeRoute, ChangePolicy, Tick,
                SkipRouter, KeepListener, VisitRest, resources, marks, todo
  <2>8. CASE UNCHANGED vars
    BY <2>6, <2>8 DEF vars, resources, marks, todo
  <2> QED BY <1>1, <1>2, <1>3, <2>2, <2>3, <2>4, <2>5, <2>6, <2>7, <2>8
<1> QED BY <1>1, <1>2, <1>3, <1>4, BackendFrame

\* Once the marks are worked off, cached backends balance over their present
\* targets unless an update of them threw (backend.js:125-138)
THEOREM BackendsAlwaysConverge == Spec => []BackendsConverge
<1>1. Init => BackendsCovered
  BY DEF Init, BackendsCovered
<1>2. /\ ReconcilerInv /\ SubscribedUnlessThrew /\ BackendsCovered
      /\ [Next]_vars
      => BackendsCovered'
  BY BackendsCoveredStep DEF ReconcilerInv
<1>3. ReconcilerInv /\ BackendsCovered => BackendsConverge
  BY DEF ReconcilerInv, MarksAreScheduled, Marked, BackendsCovered, BackendsConverge, Settled
<1> QED BY <1>1, <1>2, <1>3, ReconcilerInvariant, AlwaysSubscribedUnlessThrew, PTL DEF Spec
----------------------------------------------------------------------------
(* Ports.  A pass with a dirty gateway first opens, then closes: while it  *)
(* is in its last part, a port is accounted for by currentListeners or by  *)
(* updatedListeners, and a listener by its visit to come or by the latter. *)

LocallyDeclared(k) == \E g \in Local : Declares(g, k)

OpenInv ==
  /\ \A k \in Key : serving[k] # None =>
       k \in current \/ (phase = "gateways" /\ dirtyGateways # {} /\ k \in updated)
  /\ dirtyGateways = {} => \A k \in Key : serving[k] # None => LocallyDeclared(k)
  /\ phase = "gateways" => /\ \A k \in updated : LocallyDeclared(k)
                           /\ dirtyGateways = {} => todoListeners = {}

\* The last part of a pass with a dirty gateway wants every declared listener
WantedInv ==
  phase = "gateways" /\ dirtyGateways # {} =>
    \A l \in Declared \ failed : l \in todoListeners \/ l[2] \in updated

\* A declared listener without its port will be visited
OpenOrPending ==
  \A l \in Declared \ failed :
    serving[l[2]] = None => /\ l[1] \in dirtyGateways
                            /\ phase = "gateways" => l \in todoListeners

PortsInv == OpenInv /\ WantedInv /\ OpenOrPending

\* Before the last part nothing happens to ports but that an update of a
\* router may throw
LEMMA PortsFrame ==
  ASSUME TypeOK, [Next]_vars
  PROVE  \/ \E g \in Gateway, s \in Maybe(GatewaySpecs) : ChangeGateway(g, s)
         \/ BeginGateways \/ EndPass
         \/ \E l \in Listener : KeepListener(l) \/ MakeListener(l) \/ MakeListenerThrows(l)
         \/ /\ UNCHANGED <<gw, dirtyGateways, todoListeners, updated, current, serving>>
            /\ failed \subseteq failed'
            /\ phase' = phase \/ (phase # "gateways" /\ phase' # "gateways")
<1>1. CASE Change \/ Tick \/ BeginPass \/ BeginRouters
  BY <1>1 DEF Change, ChangeRoute, ChangeBackend, ChangePolicy, Tick, BeginPass, BeginRouters,
              resources, marks, todo, ports, routers
<1>2. CASE \/ \E b \in Backend : UpdateBackend(b) \/ BackendThrows(b)
           \/ \E ref \in Ref, l \in Listener : UpdateRouter(ref, l) \/ RouterUpdateThrows(ref, l)
           \/ \E ref \in Ref : FilterAborts(ref) \/ SkipRouter(ref)
  BY <1>2 DEF UpdateBackend, BackendThrows, UpdateRouter, RouterUpdateThrows, FilterAborts,
              SkipRouter, Abort, resources, marks, ports, routers, TypeOK, PassOK
<1>3. CASE UNCHANGED vars
  BY <1>3 DEF vars, resources, marks, todo, ports, routers
<1> QED BY <1>1, <1>2, <1>3 DEF Next, Pass, Change

LEMMA ChangeGatewayPorts ==
  ASSUME TypeOK, PortsInv, NEW g \in Gateway, NEW s \in Maybe(GatewaySpecs),
         ChangeGateway(g, s)
  PROVE  PortsInv'
<1>1. /\ phase = "idle" /\ phase' = "idle"
      /\ UNCHANGED <<todoListeners, updated, current, serving, failed>>
      /\ dirtyGateways' = dirtyGateways \cup {g}
      /\ gw' = [gw EXCEPT ![g] = s] /\ gw \in [Gateway -> Maybe(GatewaySpecs)]
  BY DEF ChangeGateway, todo, ports, routers, TypeOK, ResourcesOK
<1>2. OpenInv' /\ WantedInv'
  BY <1>1 DEF PortsInv, OpenInv, WantedInv
<1>3. ASSUME NEW l \in Listener, l \in Declared', l[1] # g
      PROVE  l \in Declared
  BY <1>1, <1>3 DEF Declared, Declares, Listener
<1>4. OpenOrPending'
  <2> SUFFICES ASSUME NEW l \in Declared', l \notin failed', serving'[l[2]] = None
               PROVE  l[1] \in dirtyGateways'
    BY <1>1 DEF OpenOrPending
  <2>1. l \in Listener
    BY DEF Declared
  <2> QED BY <1>1, <1>3, <2>1 DEF PortsInv, OpenOrPending
<1> QED BY <1>2, <1>4 DEF PortsInv

LEMMA BeginGatewaysPorts ==
  ASSUME TypeOK, PortsInv, BeginGateways
  PROVE  PortsInv'
<1>1. /\ phase = "routers" /\ phase' = "gateways" /\ updated' = {}
      /\ todoListeners' = IF dirtyGateways = {} THEN {} ELSE Declared
      /\ UNCHANGED <<gw, dirtyGateways, current, serving, failed>>
  BY DEF BeginGateways, resources, marks, ports, routers
<1>2. Declared' = Declared /\ \A k : LocallyDeclared(k)' = LocallyDeclared(k)
  BY <1>1 DEF Declared, LocallyDeclared, Declares
<1>3. OpenInv' /\ WantedInv'
  BY <1>1, <1>2 DEF PortsInv, OpenInv, WantedInv
<1>4. OpenOrPending'
  BY <1>1, <1>2 DEF PortsInv, OpenOrPending
<1> QED BY <1>3, <1>4 DEF PortsInv

LEMMA ListenerPorts ==
  ASSUME TypeOK, TodoInv, PortsInv, NEW m \in Listener,
         KeepListener(m) \/ MakeListener(m) \/ MakeListenerThrows(m)
  PROVE  PortsInv'
<1>1. /\ m \in todoListeners /\ phase = "gateways" /\ phase' = "gateways"
      /\ dirtyGateways # {} /\ todoListeners' = todoListeners \ {m}
      /\ UNCHANGED <<gw, dirtyGateways, current>>
  BY DEF KeepListener, MakeListener, MakeListenerThrows, VisitRest, resources, marks, TypeOK,
         PassOK, PortsInv, OpenInv
<1>2. Declared' = Declared /\ \A k : LocallyDeclared(k)' = LocallyDeclared(k)
  BY <1>1 DEF Declared, LocallyDeclared, Declares
<1>3. m[2] \in Key /\ LocallyDeclared(m[2]) /\ m[1] # None
  BY <1>1, NoneAssumption DEF TodoInv, Declared, LocallyDeclared, Listener
<1>4. CASE KeepListener(m)
  <2>1. UNCHANGED <<serving, failed>> /\ updated' = updated \cup {m[2]}
    BY <1>4 DEF KeepListener, routers
  <2>2. OpenInv' /\ WantedInv'
    BY <1>1, <1>2, <1>3, <2>1 DEF PortsInv, OpenInv, WantedInv
  <2>3. OpenOrPending'
    BY <1>1, <1>2, <1>4, <2>1 DEF PortsInv, OpenOrPending, KeepListener
  <2> QED BY <2>2, <2>3 DEF PortsInv
<1>5. CASE MakeListener(m)
  <2>1. /\ failed' = failed \ {m} /\ updated' = updated \cup {m[2]}
        /\ \A k \in Key : serving'[k] = IF k = m[2] THEN m[1] ELSE serving[k]
    BY <1>5 DEF MakeListener, TypeOK, BuiltOK
  <2>2. OpenInv' /\ WantedInv'
    BY <1>1, <1>2, <1>3, <2>1 DEF PortsInv, OpenInv, WantedInv
  <2>3. OpenOrPending'
    <3> SUFFICES ASSUME NEW l \in Declared, l \notin failed', serving'[l[2]] = None
                 PROVE  l[1] \in dirtyGateways /\ l \in todoListeners'
      BY <1>1, <1>2 DEF OpenOrPending
    <3>1. l[2] \in Key
      BY DEF Declared, Listener
    <3>2. l # m /\ serving[l[2]] = None
      BY <1>3, <2>1, <3>1
    <3> QED BY <1>1, <2>1, <3>2 DEF PortsInv, OpenOrPending
  <2> QED BY <2>2, <2>3 DEF PortsInv
<1>6. CASE MakeListenerThrows(m)
  <2>1. UNCHANGED <<serving, updated>> /\ failed' = failed \cup {m}
    BY <1>6 DEF MakeListenerThrows
  <2>2. OpenInv' /\ WantedInv'
    BY <1>1, <1>2, <1>3, <2>1 DEF PortsInv, OpenInv, WantedInv
  <2>3. OpenOrPending'
    BY <1>1, <1>2, <2>1 DEF PortsInv, OpenOrPending
  <2> QED BY <2>2, <2>3 DEF PortsInv
<1> QED BY <1>4, <1>5, <1>6

LEMMA EndPassPorts ==
  ASSUME TypeOK, PortsInv, EndPass
  PROVE  PortsInv'
<1>1. /\ phase = "gateways" /\ phase' = "idle" /\ todoListeners = {}
      /\ dirtyGateways' = {} /\ UNCHANGED <<gw, failed>>
  BY DEF EndPass, ForgetMarks, resources, routers
<1>2. Declared' = Declared /\ \A k : LocallyDeclared(k)' = LocallyDeclared(k)
  BY <1>1 DEF Declared, LocallyDeclared, Declares
<1>3. WantedInv'
  BY <1>1 DEF WantedInv
<1>4. CASE dirtyGateways = {}
  <2>1. UNCHANGED <<serving, current>>
    BY <1>4 DEF EndPass, ports
  <2> QED BY <1>1, <1>2, <1>3, <1>4, <2>1 DEF PortsInv, OpenInv, OpenOrPending
<1>5. CASE dirtyGateways # {}
  <2>1. /\ current' = updated
        /\ \A k \in Key : serving'[k] = IF k \in current \ updated THEN None ELSE serving[k]
    BY <1>5 DEF EndPass, Closed
  <2>2. OpenInv'
    BY <1>1, <1>2, <1>5, <2>1 DEF PortsInv, OpenInv
  <2>3. OpenOrPending'
    <3> SUFFICES ASSUME NEW l \in Declared, l \notin failed, serving'[l[2]] = None
                 PROVE  FALSE
      BY <1>1, <1>2 DEF OpenOrPending
    <3>1. l[2] \in Key
      BY DEF Declared, Listener
    <3>2. l[2] \in updated
      BY <1>1, <1>5 DEF PortsInv, WantedInv
    <3> QED BY <1>1, <2>1, <3>1, <3>2 DEF PortsInv, OpenOrPending
  <2> QED BY <1>3, <2>2, <2>3 DEF PortsInv
<1> QED BY <1>4, <1>5

LEMMA PortsStep ==
  ASSUME TypeOK, TodoInv, PortsInv, [Next]_vars
  PROVE  PortsInv'
<1>1. ASSUME UNCHANGED <<gw, dirtyGateways, todoListeners, updated, current, serving>>,
             failed \subseteq failed',
             phase' = phase \/ (phase # "gateways" /\ phase' # "gateways")
      PROVE  PortsInv'
  <2>1. Declared' = Declared /\ \A k : LocallyDeclared(k)' = LocallyDeclared(k)
    BY <1>1 DEF Declared, LocallyDeclared, Declares
  <2> QED BY <1>1, <2>1 DEF PortsInv, OpenInv, WantedInv, OpenOrPending
<1> QED BY <1>1, PortsFrame, ChangeGatewayPorts, BeginGatewaysPorts, ListenerPorts,
           EndPassPorts

LEMMA PortsAlways == Spec => []PortsInv
<1>1. Init => PortsInv
  <2> SUFFICES ASSUME Init PROVE PortsInv
    OBVIOUS
  <2>1. \A l \in Declared : l[1] \in dirtyGateways
    BY DEF Init, Declared, Declares
  <2>2. dirtyGateways = {} => todoListeners = {}
    BY <2>1 DEF Init
  <2>3. OpenInv
    BY <2>2 DEF Init, OpenInv
  <2>4. WantedInv /\ OpenOrPending
    BY <2>1 DEF Init, WantedInv, OpenOrPending
  <2> QED BY <2>3, <2>4 DEF PortsInv
<1>2. ReconcilerInv /\ PortsInv /\ [Next]_vars => PortsInv'
  BY PortsStep DEF ReconcilerInv
<1> QED BY <1>1, <1>2, ReconcilerInvariant, PTL DEF Spec

\* Outside a pass the open ports are in currentListeners, and declared unless
\* some gateway is dirty (gateway.js:320-349)
THEOREM OpenPortsAlwaysDeclared == Spec => []OpenPortsAreDeclared
<1>1. PortsInv => OpenPortsAreDeclared
  BY DEF PortsInv, OpenInv, OpenPortsAreDeclared, LocallyDeclared
<1> QED BY <1>1, PortsAlways, PTL

\* Once the marks are worked off, the port of every declared listener is
\* open unless its last build threw (gateway.js:320-349)
THEOREM DeclaredPortsAlwaysOpen == Spec => []DeclaredPortsAreOpen
<1>1. ReconcilerInv /\ PortsInv => DeclaredPortsAreOpen
  <2> SUFFICES ASSUME ReconcilerInv, PortsInv, Settled, NEW l \in Declared \ failed,
                      serving[l[2]] = None
               PROVE  FALSE
    BY DEF DeclaredPortsAreOpen
  <2>1. dirtyGateways = {}
    BY DEF ReconcilerInv, MarksAreScheduled, Settled, Marked
  <2> QED BY <2>1 DEF PortsInv, OpenOrPending
<1> QED BY <1>1, PortsAlways, ReconcilerInvariant, PTL
----------------------------------------------------------------------------
(* Policies.  A router that has the present content of a route may be      *)
(* behind on the policy of a backend the route names.                      *)

\* The reference ref leads updates to l, and l is there to be updated
Led(l, ref) == /\ Live(l)
               /\ ref \in KindedRefs /\ RefGateway[ref] = l[1]
               /\ FirstMatch(l[1], ref, l[2])

OldPolicy(l, r, b) ==
  /\ router[l].routes[r] = View(l)[r] /\ View(l)[r] # None
  /\ b \in rt[r].backends /\ router[l].hold[b] # "none"
  /\ router[l].policy[b] # lb[b]

PoliciesCovered ==
  \A l \in Listener, r \in Route \ Unwatched, b \in Backend :
    OldPolicy(l, r, b) =>
      \A ref \in rt[r].refs : Led(l, ref) => Pending(l, ref)

\* What a router says of routes and policies
SameRouter(l) == /\ router'[l].routes = router[l].routes
                 /\ router'[l].policy = router[l].policy
                 /\ \A b \in Backend : router'[l].hold[b] = "none" <=> router[l].hold[b] = "none"

\* Changes of resources leave what is built alone, and the marks that led to
\* a live router before
LEMMA ChangeFrame ==
  ASSUME Change
  PROVE  /\ phase = "idle" /\ phase' = "idle"
         /\ UNCHANGED <<serving, router, subRouter, failed>>
         /\ dirtyGateways \subseteq dirtyGateways'
BY DEF Change, ChangeGateway, ChangeRoute, MarkedRefs, ChangeBackend, ChangePolicy,
       MarkedByPolicy, ports, routers

\* A step of the pass visits a live router that is led to, or leaves the
\* router as it is and its visit pending
LEMMA PassLeads ==
  ASSUME TypeOK, TodoInv, ServedIsLocal, Tick \/ Pass,
         NEW l \in Listener, NEW ref \in Ref, Led(l, ref)'
  PROVE  \/ router'[l] = NewRouter(l)
         \/ SameRouter(l) /\ Led(l, ref) /\ (Pending(l, ref) => Pending(l, ref)')
<1>1. gw' = gw
  BY DEF Tick, Pass, BeginPass, BeginRouters, BeginGateways, EndPass, ForgetMarks,
         UpdateBackend, BackendThrows, UpdateRouter, RouterUpdateThrows, FilterAborts, SkipRouter, Abort,
         KeepListener, MakeListener, MakeListenerThrows, VisitRest, resources
<1>2. FirstMatch(l[1], ref, l[2])' = FirstMatch(l[1], ref, l[2])
  BY <1>1 DEF FirstMatch, Declares
<1>3. l[1] \in Gateway /\ l[2] \in Key /\ l[1] # None /\ router \in [Listener -> Router]
  BY NoneAssumption DEF Listener, TypeOK, BuiltOK
<1>4. CASE Tick \/ BeginPass \/ BeginRouters \/ BeginGateways
  <2>1. UNCHANGED <<serving, router, subRouter, failed>>
    BY <1>4 DEF Tick, BeginPass, BeginRouters, BeginGateways, ports, routers
  <2>2. SameRouter(l) /\ Led(l, ref)
    BY <1>2, <2>1 DEF SameRouter, Led, Live
  <2>3. CASE Tick \/ BeginPass \/ BeginRouters
    BY <2>2, <2>3 DEF Tick, BeginPass, BeginRouters, Pending, marks, todo
  <2>4. CASE BeginGateways
    <3>1. l \in Declared
      BY <1>3, <2>2 DEF Led, Live, FirstMatch, Declared, ServedIsLocal
    <3> QED BY <2>2, <2>4, <3>1 DEF BeginGateways, Pending, marks
  <2> QED BY <1>4, <2>3, <2>4
<1>5. ASSUME NEW b \in Backend, UpdateBackend(b) PROVE SameRouter(l) /\ Led(l, ref) /\ (Pending(l, ref) => Pending(l, ref)')
  <2>1. UNCHANGED <<serving, subRouter, failed, phase, dirtyGateways, dirtyRouters,
                    todoListeners, todoRouters>>
    BY <1>5 DEF UpdateBackend, marks, ports
  <2>2. router'[l] = router[l]
        \/ (router'[l] = [router[l] EXCEPT !.hold[b] = "orphan"] /\ router[l].hold[b] = "live")
    BY <1>3, <1>5 DEF UpdateBackend
  <2>3. router[l] \in Router
    BY <1>3
  <2>4. SameRouter(l)
    BY <2>2, <2>3 DEF SameRouter, Router
  <2> QED BY <1>2, <2>1, <2>4 DEF Led, Live, Pending
<1>6. ASSUME Abort, phase # "gateways", UNCHANGED router, failed \subseteq failed',
             subRouter'[l] = subRouter[l]
      PROVE  SameRouter(l) /\ Led(l, ref) /\ (Pending(l, ref) => Pending(l, ref)')
  <2>1. UNCHANGED serving
    BY <1>6 DEF Abort, ports
  <2>2. SameRouter(l) /\ Led(l, ref)
    BY <1>2, <1>6, <2>1 DEF SameRouter, Led, Live
  <2> QED BY <1>6, <2>2, AbortPending
<1>7. ASSUME NEW b \in Backend, BackendThrows(b)
      PROVE  Abort /\ phase # "gateways" /\ UNCHANGED routers
  BY <1>7 DEF BackendThrows, TypeOK, PassOK
<1>8. ASSUME NEW mark \in Ref, FilterAborts(mark)
      PROVE  Abort /\ phase # "gateways" /\ UNCHANGED routers
  BY <1>8 DEF FilterAborts, TypeOK, PassOK
<1>9. ASSUME NEW mark \in Ref, NEW m \in Listener, RouterUpdateThrows(mark, m)
      PROVE  /\ Abort /\ phase # "gateways" /\ UNCHANGED router /\ failed \subseteq failed'
             /\ subRouter'[l] = subRouter[l]
  <2>1. l # m
    BY <1>9 DEF Led, Live, RouterUpdateThrows
  <2> QED BY <1>9, <2>1 DEF RouterUpdateThrows, TypeOK, PassOK, BuiltOK
<1>10. ASSUME NEW mark \in Ref, NEW m \in Listener, UpdateRouter(mark, m)
       PROVE  \/ router'[l] = NewRouter(l)
              \/ SameRouter(l) /\ Led(l, ref) /\ (Pending(l, ref) => Pending(l, ref)')
  <2>1. UNCHANGED <<serving, subRouter, failed, phase, dirtyGateways, dirtyRouters,
                    todoListeners>> /\ todoRouters' = todoRouters \ {mark}
    BY <1>10 DEF UpdateRouter, marks, ports
  <2>2. Led(l, ref)
    BY <1>2, <2>1 DEF Led, Live
  <2>3. CASE l = m
    BY <1>3, <1>10, <2>2, <2>3 DEF UpdateRouter, Led, Live
  <2>4. CASE l # m
    <3>1. router'[l] = router[l]
      BY <1>3, <1>10, <2>4 DEF UpdateRouter
    <3>2. ref # mark
      <4> SUFFICES ASSUME ref = mark PROVE FALSE
        OBVIOUS
      <4>1. l[1] = m[1] /\ FirstMatch(l[1], ref, l[2]) /\ FirstMatch(l[1], ref, m[2])
        BY <1>10, <2>2 DEF Led, UpdateRouter, Reaches
      <4>2. l[2] = m[2]
        BY <4>1, FirstMatchUnique DEF Listener
      <4> QED BY <2>4, <4>1, <4>2 DEF Listener
    <3> QED BY <2>1, <2>2, <3>1, <3>2 DEF SameRouter, Pending
  <2> QED BY <2>3, <2>4
<1>11. ASSUME NEW mark \in Ref, SkipRouter(mark)
       PROVE  SameRouter(l) /\ Led(l, ref) /\ (Pending(l, ref) => Pending(l, ref)')
  <2>1. UNCHANGED <<serving, router, subRouter, failed, phase, dirtyGateways, dirtyRouters,
                    todoListeners>> /\ todoRouters' = todoRouters \ {mark}
    BY <1>11 DEF SkipRouter, marks, ports, routers
  <2>2. SameRouter(l) /\ Led(l, ref)
    BY <1>2, <2>1 DEF SameRouter, Led, Live
  <2>3. l[1] \in Local
    BY <1>3, <2>2 DEF Led, Live, ServedIsLocal
  <2>4. ref # mark
    BY <1>11, <2>2, <2>3 DEF SkipRouter, Reaches, Led, Live
  <2> QED BY <2>1, <2>2, <2>4 DEF Pending
<1>12. ASSUME NEW m \in Listener, KeepListener(m) \/ MakeListener(m) \/ MakeListenerThrows(m)
       PROVE  \/ router'[l] = NewRouter(l)
              \/ SameRouter(l) /\ Led(l, ref) /\ (Pending(l, ref) => Pending(l, ref)')
  <2>1. /\ phase = "gateways" /\ m \in todoListeners
        /\ UNCHANGED <<phase, dirtyGateways, dirtyRouters, todoRouters>>
        /\ todoListeners' = todoListeners \ {m}
    BY <1>12 DEF KeepListener, MakeListener, MakeListenerThrows, VisitRest, marks, TypeOK,
                 PassOK
  <2>2. CASE KeepListener(m)
    BY <1>2, <2>1, <2>2 DEF KeepListener, routers, SameRouter, Led, Live, Pending
  <2>3. CASE MakeListener(m) /\ l = m
    BY <1>3, <2>3 DEF MakeListener
  <2>4. CASE MakeListener(m) /\ l # m
    <3>1. l[2] # m[2]
      BY <2>4 DEF MakeListener, Led, Live, Listener, TypeOK, BuiltOK
    <3>2. /\ router'[l] = router[l] /\ subRouter'[l] = subRouter[l]
          /\ serving'[l[2]] = serving[l[2]] /\ (l \in failed => l \in failed')
      BY <2>4, <3>1 DEF MakeListener, TypeOK, BuiltOK, Listener
    <3> QED BY <1>2, <2>1, <2>4, <3>2 DEF SameRouter, Led, Live, Pending
  <2>5. CASE MakeListenerThrows(m)
    <3>1. l # m
      BY <2>5 DEF MakeListenerThrows, Led, Live
    <3>2. /\ router'[l] = router[l] /\ subRouter'[l] = subRouter[l]
          /\ serving'[l[2]] = serving[l[2]] /\ (l \in failed => l \in failed')
      BY <2>5, <3>1 DEF MakeListenerThrows, TypeOK, BuiltOK
    <3> QED BY <1>2, <2>1, <3>1, <3>2 DEF SameRouter, Led, Live, Pending
  <2> QED BY <1>12, <2>2, <2>3, <2>4, <2>5
<1>13. CASE EndPass
  <2>1. UNCHANGED <<router, subRouter, failed>>
    BY <1>13 DEF EndPass, routers
  <2>2. serving[l[2]] = l[1]
    BY <1>3, <1>13 DEF Led, Live, EndPass, Closed, ports
  <2>3. ~Pending(l, ref)
    BY <1>13 DEF EndPass, Pending
  <2> QED BY <1>2, <2>1, <2>2, <2>3 DEF SameRouter, Led, Live
<1> QED BY <1>4, <1>5, <1>6, <1>7, <1>8, <1>9, <1>10, <1>11, <1>12, <1>13 DEF Pass, routers

\* The view of a listener has the present content of a route, or none
LEMMA ViewIsContent ==
  ASSUME NEW l \in Listener, NEW r \in Route, View(l)[r] # None
  PROVE  View(l)[r] = rt[r] /\ rt[r] # None
BY DEF View

LEMMA RefsType ==
  ASSUME TypeOK, NEW r \in Route, rt[r] # None
  PROVE  rt[r].refs \subseteq Ref
<1>1. rt[r] \in RouteSpecs
  BY DEF TypeOK, ResourcesOK, Maybe
<1> QED BY <1>1, SpecsAssumption DEF RouteSpec

LEMMA PassPolicies ==
  ASSUME TypeOK, TodoInv, ServedIsLocal, PoliciesCovered, Tick \/ Pass
  PROVE  PoliciesCovered'
<1>1. UNCHANGED <<rt, be, lb>>
  BY DEF Tick, Pass, BeginPass, BeginRouters, BeginGateways, EndPass, ForgetMarks,
         UpdateBackend, BackendThrows, UpdateRouter, RouterUpdateThrows, FilterAborts,
         SkipRouter, Abort, KeepListener, MakeListener, MakeListenerThrows, VisitRest,
         resources
<1> SUFFICES ASSUME NEW l \in Listener, NEW r \in Route \ Unwatched, NEW b \in Backend,
                    OldPolicy(l, r, b)', NEW ref \in rt[r].refs, Led(l, ref)'
             PROVE  Pending(l, ref)'
  BY <1>1 DEF PoliciesCovered
<1>2. View(l)' = View(l)
  BY <1>1 DEF View, RefersTo
<1>3. ref \in Ref
  BY <1>2, ViewIsContent, RefsType DEF OldPolicy
<1>4. router'[l] # NewRouter(l)
  <2> SUFFICES ASSUME router'[l] = NewRouter(l) PROVE FALSE
    OBVIOUS
  <2>1. /\ router'[l].hold[b] = IF b \in Used(l) THEN "live" ELSE "none"
        /\ router'[l].policy[b] = IF b \in Used(l) THEN lb[b] ELSE None
    BY DEF NewRouter
  <2> QED BY <1>1, <2>1 DEF OldPolicy
<1>5. SameRouter(l) /\ Led(l, ref) /\ (Pending(l, ref) => Pending(l, ref)')
  BY <1>3, <1>4, PassLeads
<1>6. OldPolicy(l, r, b)
  BY <1>1, <1>2, <1>5 DEF OldPolicy, SameRouter
<1> QED BY <1>5, <1>6 DEF PoliciesCovered

LEMMA ChangePolicies ==
  ASSUME TypeOK, PoliciesCovered, Change
  PROVE  PoliciesCovered'
<1> SUFFICES ASSUME NEW l \in Listener, NEW r \in Route \ Unwatched, NEW b \in Backend,
                    OldPolicy(l, r, b)', NEW ref \in rt'[r].refs, Led(l, ref)'
             PROVE  Pending(l, ref)'
  BY DEF PoliciesCovered
<1>1. /\ phase = "idle" /\ phase' = "idle"
      /\ UNCHANGED <<serving, router, subRouter, failed>>
      /\ dirtyGateways \subseteq dirtyGateways'
  BY ChangeFrame
<1>2. rt'[r] # None
  BY DEF OldPolicy, View
<1>3. ASSUME UNCHANGED <<gw, lb>>, rt'[r] = rt[r],
             dirtyRouters \subseteq dirtyRouters'
      PROVE  Pending(l, ref)'
  <2>1. View(l)'[r] = View(l)[r]
    BY <1>3 DEF View, RefersTo
  <2>2. OldPolicy(l, r, b) /\ Led(l, ref)
    BY <1>1, <1>3, <2>1 DEF OldPolicy, Led, Live, FirstMatch, Declares
  <2> QED BY <1>1, <1>3, <2>2 DEF PoliciesCovered, Pending
<1>4. ASSUME NEW g \in Gateway, NEW s \in Maybe(GatewaySpecs), ChangeGateway(g, s)
      PROVE  Pending(l, ref)'
  <2>1. CASE l[1] = g
    BY <1>1, <1>4, <2>1 DEF ChangeGateway, Pending
  <2>2. CASE l[1] # g
    <3>1. gw'[l[1]] = gw[l[1]]
      BY <1>4, <2>2 DEF ChangeGateway, TypeOK, ResourcesOK, Listener
    <3>2. UNCHANGED <<rt, lb>>
      BY <1>4 DEF ChangeGateway
    <3>3. OldPolicy(l, r, b) /\ Led(l, ref)
      BY <1>1, <3>1, <3>2 DEF OldPolicy, Led, Live, FirstMatch, Declares, View, RefersTo
    <3>4. l[1] \in dirtyGateways \/ ref \in dirtyRouters
      BY <1>1, <3>2, <3>3 DEF PoliciesCovered, Pending
    <3>5. RefGateway[ref] # g
      BY <2>2, <3>3 DEF Led
    <3> QED BY <1>1, <1>4, <3>2, <3>4, <3>5, RefsType DEF ChangeGateway, Pending, OldPolicy
  <2> QED BY <2>1, <2>2
<1>5. ASSUME NEW q \in Route, NEW s \in Maybe(RouteSpecs), ChangeRoute(q, s)
      PROVE  Pending(l, ref)'
  <2>1. /\ dirtyRouters' = dirtyRouters \cup MarkedRefs(q, s)
        /\ UNCHANGED <<gw, lb>>
        /\ rt' = [rt EXCEPT ![q] = s] /\ rt \in [Route -> Maybe(RouteSpecs)]
    BY <1>5 DEF ChangeRoute, TypeOK, ResourcesOK
  <2>2. CASE r = q
    <3>1. ref \in MarkedRefs(q, s)
      BY <1>2, <2>1, <2>2 DEF MarkedRefs, RefsOf
    <3> QED BY <1>1, <2>1, <3>1 DEF Pending
  <2>3. CASE r # q
    BY <1>3, <2>1, <2>3
  <2> QED BY <2>2, <2>3
<1>6. ASSUME NEW c \in Backend, NEW s \in Maybe(BackendSpecs), ChangeBackend(c, s)
      PROVE  Pending(l, ref)'
  BY <1>3, <1>6 DEF ChangeBackend
<1>7. ASSUME NEW c \in Backend, NEW s \in Maybe(PolicySpecs), ChangePolicy(c, s)
      PROVE  Pending(l, ref)'
  <2>1. /\ dirtyRouters' = dirtyRouters \cup MarkedByPolicy(c)
        /\ UNCHANGED <<gw, rt>>
        /\ lb' = [lb EXCEPT ![c] = s] /\ lb \in [Backend -> Maybe(PolicySpecs)]
    BY <1>7 DEF ChangePolicy, TypeOK, ResourcesOK
  <2>2. b \in rt[r].backends /\ rt[r] # None
    BY <1>2, <2>1 DEF OldPolicy
  <2>3. CASE b = c
    <3>1. ref \in MarkedByPolicy(c)
      BY <2>1, <2>2, <2>3 DEF MarkedByPolicy
    <3> QED BY <1>1, <2>1, <3>1 DEF Pending
  <2>4. CASE b # c
    <3>1. View(l)' = View(l)
      BY <2>1 DEF View, RefersTo
    <3>2. lb'[b] = lb[b]
      BY <2>1, <2>4
    <3>3. OldPolicy(l, r, b) /\ Led(l, ref)
      BY <1>1, <2>1, <3>1, <3>2 DEF OldPolicy, Led, Live, FirstMatch, Declares
    <3> QED BY <1>1, <2>1, <3>3 DEF PoliciesCovered, Pending
  <2> QED BY <2>3, <2>4
<1> QED BY <1>4, <1>5, <1>6, <1>7 DEF Change

LEMMA StutterPolicies == PoliciesCovered /\ UNCHANGED vars => PoliciesCovered'
BY DEF PoliciesCovered, OldPolicy, View, RefersTo, Led, Live, FirstMatch, Declares, Pending,
       vars, resources, marks, todo, ports, routers

\* Once the marks are worked off, live routers were built under the present
\* policies of the backends they route to (gateway.js:253-265)
THEOREM PoliciesAlwaysConverge == Spec => []PoliciesConverge
<1>1. Init => PoliciesCovered
  <2>1. Init => \A l \in Listener : ~Live(l)
    BY DEF Init, Live
  <2> QED BY <2>1 DEF PoliciesCovered, Led
<1>2. ReconcilerInv /\ PoliciesCovered /\ [Next]_vars => PoliciesCovered'
  BY ChangePolicies, PassPolicies, StutterPolicies DEF ReconcilerInv, Next
<1>3. ReconcilerInv /\ RoutersConverge /\ PoliciesCovered => PoliciesConverge
  <2> SUFFICES ASSUME ReconcilerInv, RoutersConverge, PoliciesCovered, Settled,
                      NEW l \in Listener, NEW r \in Route, NEW b \in Backend,
                      Live(l), Tracked(r, l), View(l)[r] # None,
                      b \in rt[r].backends, router[l].hold[b] # "none",
                      router[l].policy[b] # lb[b]
               PROVE  FALSE
    BY DEF PoliciesConverge
  <2>1. ~Marked /\ phase = "idle"
    BY DEF ReconcilerInv, MarksAreScheduled, Settled
  <2>2. \A ref \in Ref : ~Pending(l, ref)
    BY <2>1 DEF Pending, Marked
  <2>3. router[l].routes[r] = View(l)[r]
    BY DEF RoutersConverge
  <2>4. router[l].routes[r] = rt[r]
    BY <2>3, ViewIsContent
  <2>5. OldPolicy(l, r, b) /\ r \notin Unwatched
    BY <2>3 DEF OldPolicy, Tracked
  <2>6. PICK ref \in rt[r].refs : Led(l, ref)
    BY <2>4 DEF Tracked, Leads, Led
  <2>7. ref \in Ref
    BY <2>6, ViewIsContent, RefsType DEF ReconcilerInv
  <2> QED BY <2>2, <2>5, <2>6, <2>7 DEF PoliciesCovered
<1> QED BY <1>1, <1>2, <1>3, ReconcilerInvariant, RoutersAlwaysConverge, PTL DEF Spec
=============================================================================
