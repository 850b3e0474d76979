----------------------------- MODULE MCMatching ----------------------------
(* One search at a time: of an HTTP listener, of a Dubbo listener, and of   *)
(* the legacy gateway.                                                      *)
EXTENDS MCRouteMatch, LegacyRoute, DubboRoute

VARIABLE focus  \* the search that runs

----------------------------------------------------------------------------
(* Dubbo: exact matches that name more or less of a call, a regular        *)
(* expression and a match without a type                                   *)

Words(ws) == [words |-> ws, weight |-> 2]

Exactly(s, m, g) ==
  [type |-> "Exact", targets |-> {"t1", "t2"},
   patterns |-> [k \in (IF s = "" THEN {} ELSE {1}) \cup (IF m = "" THEN {} ELSE {3})
                         \cup (IF g = "" THEN {} ELSE {4}) |->
                   Words({CASE k = 1 -> s [] k = 3 -> m [] OTHER -> g})]]

SmallMatches ==
  {Exactly("s", "", ""), Exactly("s", "m", ""), Exactly("", "m", "g"), Exactly("s", "", "h"),
   [type |-> "RegularExpression", targets |-> {"t1"}, patterns |-> [k \in {1} |-> Words({"s", "r"})]],
   [type |-> "none", targets |-> {"t2"}, patterns |-> <<>>]}

SmallRuleSets == {<<m, n>> : m, n \in SmallMatches}

SmallBodies == {<<"2.0", s, "1", m, g>> : s \in {"s", "r"}, m \in {"m"}, g \in {"g", "h"}}

----------------------------------------------------------------------------
(* The legacy gateway: two entries whose hosts overlap, and routes that    *)
(* share a directory or have one of their own                              *)

Open == [white |-> {}, black |-> {}, xff |-> FALSE]
Guarded == [white |-> {}, black |-> {2}, xff |-> TRUE]
Closed == [white |-> {1}, black |-> {1, 2}, xff |-> FALSE]

File(after) == [status |-> 0, after |-> after]

Files(root, index, try) ==
  [path |-> [type |-> "Prefix", of |-> <<>>], methods |-> {}, acl |-> Guarded, auth |-> FALSE,
   limit |-> FALSE, root |-> root, index |-> index, tryFiles |-> try, service |-> Nothing]

Forwarded(type, of, methods, auth, service) ==
  [path |-> [type |-> type, of |-> of], methods |-> methods, acl |-> Open, auth |-> auth,
   limit |-> TRUE, root |-> Nothing, index |-> <<>>, tryFiles |-> <<File(<<>>)>>, service |-> service]

RouteLists ==
  {<<Forwarded("Exact", <<"a">>, {"POST"}, TRUE, "web"), Files("r1", <<"i", "j">>, <<File(<<>>)>>)>>,
   <<Files("r1", <<"j", "i">>, <<File(<<>>)>>)>>,
   <<Forwarded("Prefix", <<"a">>, {}, FALSE, Nothing),
     Files("r2", <<"i", "j">>, <<File(<<"i">>), [status |-> 410, after |-> <<>>]>>)>>}

LegacyHosts == {<<Wild(<<>>)>>, <<Wild(<<"z">>)>>, <<Full(<<"y", "z">>), Wild(<<"z">>)>>,
                <<Full(<<"y", "z">>)>>, <<Wild(<<"z">>), Wild(<<>>)>>}

Configured(t, a, b, hs, is, rs, ss) ==
  [tls |-> t, acl |-> a,
   entries |-> <<[type |-> "HTTP", acl |-> b, hosts |-> hs, routes |-> rs],
                 [type |-> "", acl |-> Open, hosts |-> is, routes |-> ss]>>]

\* Hosts that overlap, or everything else that may differ
SmallConfigs ==
  {Configured(TRUE, Open, Open, hs, is, <<Files("r1", <<"i">>, <<File(<<>>)>>)>>,
              <<Files("r2", <<"j">>, <<File(<<>>)>>)>>) : hs, is \in LegacyHosts}
  \cup {Configured(p[1], p[2], b, <<Full(<<"y", "z">>)>>, <<Wild(<<>>)>>, rs, ss) :
          p \in {<<TRUE, Open>>, <<FALSE, Open>>, <<FALSE, Closed>>}, b \in {Open, Guarded},
          rs, ss \in RouteLists}

From(over, sni, ip, consumer) ==
  [over |-> over, sni |-> sni, ip |-> ip, consumer |-> consumer]

\* Two clients without TLS, and two connections, of which one may bring credentials
Clients ==
  {From(Nothing, Nothing, 1, TRUE), From(Nothing, Nothing, 2, FALSE),
   From("k1", <<"x", "z">>, 1, TRUE), From("k1", <<"x", "z">>, 1, FALSE),
   From("k2", Nothing, 2, FALSE)}

SmallCalls ==
  {[host |-> h, port |-> p, path |-> q, method |-> m, xff |-> x, big |-> b /\ m = "POST",
    over |-> w.over, sni |-> w.sni, ip |-> w.ip, consumer |-> w.consumer] :
     w \in Clients, h \in {<<"y", "z">>, <<"x", "y">>}, p \in BOOLEAN, q \in {<<>>, <<"a">>},
     m \in {"GET", "POST"}, x \in {<<>>, <<1, 2>>}, b \in BOOLEAN}

SmallPages == [r \in {"r1", "r2"} |-> IF r = "r1" THEN {<<"i">>, <<"j">>} ELSE {<<"a", "j">>, <<"j">>}]

----------------------------------------------------------------------------
SomeInit ==
  \/ focus = "http" /\ Init /\ matches = <<>> /\ kept = [k \in Keys |-> Unset] /\ body = None /\ chosen = None
     /\ config = None /\ dirs = None /\ consumers = {} /\ shown = {} /\ call = None /\ reply = None
  \/ focus = "dubbo" /\ DubboInit /\ table = <<>> /\ request = None /\ selection = None
     /\ config = None /\ dirs = None /\ consumers = {} /\ shown = {} /\ call = None /\ reply = None
  \/ focus = "legacy" /\ RouteInit /\ matches = <<>> /\ kept = [k \in Keys |-> Unset] /\ body = None /\ chosen = None
     /\ table = <<>> /\ request = None /\ selection = None

SomeNext ==
  \/ focus = "http" /\ Next /\ UNCHANGED <<focus, dubboVars, routeVars>>
  \/ focus = "dubbo" /\ DubboNext /\ UNCHANGED <<focus, vars, routeVars>>
  \/ focus = "legacy" /\ RouteNext /\ UNCHANGED <<focus, vars, dubboVars>>

MatchingSpec == SomeInit /\ [][SomeNext]_<<focus, vars, dubboVars, routeVars>>
=============================================================================
