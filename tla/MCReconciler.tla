---------------------------- MODULE MCReconciler ----------------------------
(***************************************************************************)
(* Small gateways for the reconciler, one per question:                    *)
(*   routers   one gateway, two listeners of one port number on two        *)
(*             addresses.  A reference by section name matches one of      *)
(*             them, one by port both, and one without a kind is attached  *)
(*             but never followed.  A route that moves between them and    *)
(*             may name a filter that does not exist.                      *)
(*   ports     two gateways that share a key.                              *)
(*   backends  a local and a foreign gateway in mesh mode, a route that    *)
(*             refers to both or uses a backend, whose targets may be      *)
(*             unusable, and the load balancing policy of that.            *)
(***************************************************************************)
EXTENDS Reconciler, TLC

CONSTANTS g1, g2, k1, k2, r1, b1, byName, byPort, noKind, toOther, v1, v2, noPort, sticky

R(refs, bs, bad) == [refs |-> refs, backends |-> bs, bad |-> bad]
Rank == [k \in Key |-> IF k = k1 THEN 1 ELSE 2]

\* routers
TwoListeners == {k1 :> "good" @@ k2 :> "good",
                 k1 :> "badFilter" @@ k2 :> "good",
                 k1 :> "absent" @@ k2 :> "good"}
MovingRoutes == {R({byName}, {}, FALSE), R({byPort}, {}, FALSE),
                 R({byName, noKind}, {}, FALSE), R({byPort}, {}, TRUE)}
RouterRefGateway == byName :> g1 @@ byPort :> g1 @@ noKind :> g1
RouterRefKeys    == byName :> {k2} @@ byPort :> {k1, k2} @@ noKind :> {k1}

\* ports
SharedListeners == {k1 :> "good" @@ k2 :> "absent",
                    k1 :> "good" @@ k2 :> "badType",
                    k1 :> "badFilter" @@ k2 :> "good"}
PortRefGateway == byPort :> g1
PortRefKeys    == byPort :> {k1}
PortRoutes     == {R({byPort}, {}, FALSE), R({byPort}, {}, TRUE)}

\* backends
MeshListeners == {k1 :> "good"}
MeshRoutes    == {R({byName}, {b1}, FALSE), R({toOther, byName}, {}, FALSE)}
MeshRefGateway == byName :> g1 @@ toOther :> g2
MeshRefKeys    == byName :> {k1} @@ toOther :> {k1}
=============================================================================
