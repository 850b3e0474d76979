---------------------------- MODULE MCRouteMatch ---------------------------
(* Tables of up to three matches for any host, and of two routes whose      *)
(* hostnames overlap, against all requests over a few paths and hosts.      *)
EXTENDS RouteMatch, TLC

M(type, path, method, headers) ==
  [type |-> type, path |-> path, method |-> method, headers |-> headers]

Paths == {<<"Exact", <<"a">>>>, <<"Exact", <<"a", "b">>>>, <<"PathPrefix", <<>>>>,
          <<"PathPrefix", <<"a">>>>, <<"RegularExpression", <<>>>>,
          <<"untyped", <<"a">>>>, <<"none", <<>>>>}

Matches(methods, headers) == {M(p[1], p[2], m, h) : p \in Paths, m \in methods, h \in headers}

Full(name) == [wild |-> FALSE, name |-> name]
Wild(name) == [wild |-> TRUE, name |-> name]

Route(hosts, matches) == [hosts |-> hosts, matches |-> matches]

HostLists == {<<Wild(<<>>)>>, <<Wild(<<"z">>)>>, <<Wild(<<"y", "z">>)>>, <<Full(<<"y", "z">>)>>,
              <<Full(<<"x", "y", "z">>), Wild(<<"z">>)>>}

All == M("none", <<>>, None, {})
Get == M("none", <<>>, "GET", {})

SmallTables ==
  {<<Route(<<Wild(<<>>)>>, ms)>> :
     ms \in UNION {[1..2 -> Matches({None, "GET"}, {{}, {"h"}})],
                   [1..3 -> Matches({None, "GET"}, {{}})]}}
  \cup {<<Route(hs, <<All>>), Route(is, <<Get>>), Route(js, <<M("Exact", <<"a">>, None, {})>>)>> :
          hs, is, js \in HostLists}

SmallRequests ==
  {[host |-> h, path |-> p, method |-> m, headers |-> hs] :
     h \in {<<"z">>, <<"y", "z">>, <<"x", "y", "z">>},
     p \in {<<>>, <<"a">>, <<"a", "b">>, <<"c">>}, m \in {"GET", "POST"}, hs \in {{}, {"h"}}}

SmallRegex == {<<"a">>, <<"c">>}
=============================================================================
