----------------------------- MODULE RouteMatch ----------------------------
(***************************************************************************)
(* How a listener finds the rule for an HTTP request                       *)
(* (makeRouter() of src/modules/router-http.js).                           *)
(*                                                                         *)
(* A table is a sequence of routes, each with the hostnames it names and   *)
(* the matches of its rules.  The code searches them in two ways, chosen   *)
(* by USE_FAST_MATCH: one match after another in the order of priority,    *)
(* or by an index of paths and methods first.  The index is in use.        *)
(*                                                                         *)
(* Names and paths are sequences, of labels and of segments.  Conditions   *)
(* on query parameters work as those on headers and are left out, and so   *)
(* are GRPCRoutes, which are never indexed.  algo.URLRouter is native: it  *)
(* finds the most specific pattern, and base/* for base itself, as         *)
(* test/http-routing expects.                                              *)
(***************************************************************************)
EXTENDS Naturals, FiniteSets, Sequences, SequencesExt

CONSTANTS Tables,      \* the tables considered: sequences of routes
          Requests,    \* [host, path, method, headers]
          RegexPaths,  \* the paths that the regular expression finds
          RegexLength, \* its length, as its priority counts it
          None

\* "untyped" is a path without a type, "none" no path at all
PathTypes == {"Exact", "PathPrefix", "RegularExpression", "untyped", "none"}

\* Lists are sequences, whatever they are of
ASSUME TablesAssumption ==
  /\ RegexLength \in Nat
  /\ \A req \in Requests : req.host \in Seq(ToSet(req.host)) /\ req.path \in Seq(ToSet(req.path))
  /\ \A table \in Tables : table \in Seq(ToSet(table)) /\ \A i \in DOMAIN table :
       /\ table[i].hosts \in Seq(ToSet(table[i].hosts)) /\ table[i].hosts # <<>>
       /\ \A key \in ToSet(table[i].hosts) :
            key.wild \in BOOLEAN /\ key.name \in Seq(ToSet(key.name))
       /\ table[i].matches \in Seq(ToSet(table[i].matches))
       /\ \A m \in ToSet(table[i].matches) :
            m.type \in PathTypes /\ m.path \in Seq(ToSet(m.path)) /\ IsFiniteSet(m.headers)

VARIABLES table, request, selection  \* selection: the match found, or None

vars == <<table, request, selection>>

----------------------------------------------------------------------------
(* Hosts: the routes under one key of hostFullnames or hostPostfixes *)

HostKeys == UNION {ToSet(table[i].hosts) : i \in DOMAIN table}

\* *.b.c is the postfix .b.c, which has one label in front
HostFits(key, host) ==
  IF key.wild THEN IsSuffix(key.name, host) /\ Len(host) > Len(key.name)
              ELSE key.name = host

\* Mutant: the shortest postfix is found first
LeastSpecific(keys) == CHOOSE k \in keys : \A j \in keys :
  ~k.wild \/ (j.wild /\ Len(k.name) <= Len(j.name))

\* A full name comes first, then the longest postfix
MostSpecific(keys) == CHOOSE k \in keys : \A j \in keys :
  ~k.wild \/ (j.wild /\ Len(k.name) >= Len(j.name))

FittingHosts(host) == {k \in HostKeys : HostFits(k, host)}

\* All matches of the routes under a key, in their order
MatchesOf(key) ==
  FlattenSeq([i \in DOMAIN table |->
    IF key \in ToSet(table[i].hosts) THEN table[i].matches ELSE <<>>])

----------------------------------------------------------------------------
(* getMatchPriority(), with the length of a path in segments *)

TypeRank(m) == CASE m.type = "Exact" -> 3 [] m.type = "PathPrefix" -> 2
                 [] m.type = "RegularExpression" -> 1 [] OTHER -> 0

Length(m) == CASE m.type = "PathPrefix" -> Len(m.path)
               [] m.type = "RegularExpression" -> RegexLength [] OTHER -> 0

\* The index comes last: of equal matches the later one is preferred
Rank(ms, i) == <<TypeRank(ms[i]), Length(ms[i]), IF ms[i].method = None THEN 0 ELSE 1,
                 Cardinality(ms[i].headers), i>>

Above(a, b) == \E k \in 1..5 : a[k] > b[k] /\ \A j \in 1..(k - 1) : a[j] = b[j]

\* The first of the matches at these indices in the order of priority, or None
First(ms, is) ==
  IF is = {} THEN None
  ELSE ms[CHOOSE i \in is : \A j \in is \ {i} : Above(Rank(ms, i), Rank(ms, j))]

----------------------------------------------------------------------------
(* The search in the order of priority, USE_FAST_MATCH = false *)

PathFits(m, path) ==
  CASE m.type \in {"Exact", "untyped"} -> path = m.path
    [] m.type = "PathPrefix"            -> IsPrefix(m.path, path)
    [] m.type = "RegularExpression"     -> path \in RegexPaths
    [] OTHER                            -> TRUE

Fits(m, req) == /\ PathFits(m, req.path) /\ m.method \in {None, req.method}
                /\ m.headers \subseteq req.headers

Search(ms, req) == First(ms, {i \in DOMAIN ms : Fits(ms[i], req)})

----------------------------------------------------------------------------
(* The search by index *)

\* Mutant: prefixes are left to the lists where paths are not tested
ExactIndexed(m) == m.type = "Exact"

Indexed(m) == m.type \in {"Exact", "PathPrefix"}

\* pathMatches.find(): the most specific pattern, <<path, is it a prefix>>
Patterns(ms, path) ==
  {<<ms[i].path, ms[i].type = "PathPrefix">> :
     i \in {j \in DOMAIN ms : Indexed(ms[j]) /\ PathFits(ms[j], path)}}

BestPattern(ps) == CHOOSE p \in ps : \A q \in ps :
  Len(p[1]) > Len(q[1]) \/ (Len(p[1]) = Len(q[1]) /\ (p[2] => q[2]))

At(ms, p) == {i \in DOMAIN ms : Indexed(ms[i]) /\ <<ms[i].path, ms[i].type = "PathPrefix">> = p}

\* Mutant: the checks of a pattern for any method are used whatever the method is
CheckedAll(ms, is, method) == is

\* pm[head.method] || pm['*']
Checked(ms, is, method) ==
  LET own == {i \in is : ms[i].method = method}
  IN IF own # {} THEN own ELSE {i \in is : ms[i].method = None}

\* The functions left of the matches: paths and methods of the index are not tested again
HeadersFit(m, req) ==
  /\ m.type = "RegularExpression" => req.path \in RegexPaths
  /\ m.headers \subseteq req.headers

Passing(ms, is, req) == {i \in is : HeadersFit(ms[i], req)}

\* First by path, then by method, then one after another
FastSearch(ms, req) ==
  LET ps     == Patterns(ms, req.path)
      byPath == IF ps = {} THEN {} ELSE Checked(ms, At(ms, BestPattern(ps)), req.method)
      rest   == {i \in DOMAIN ms : ~Indexed(ms[i])}
      byMethod == {i \in rest : ms[i].method = req.method}
      slow   == {i \in rest : ms[i].method = None}
  IN IF Passing(ms, byPath, req) # {} THEN First(ms, Passing(ms, byPath, req))
     ELSE IF Passing(ms, byMethod, req) # {} THEN First(ms, Passing(ms, byMethod, req))
     ELSE First(ms, Passing(ms, slow, req))

----------------------------------------------------------------------------
(* A router serves requests by one table until it is updated *)

Find(req) ==
  LET keys == FittingHosts(req.host)
  IN IF keys = {} THEN None ELSE FastSearch(MatchesOf(MostSpecific(keys)), req)

Init == table \in Tables /\ request = None /\ selection = None

Begin ==
  /\ request = None
  /\ \E req \in Requests : request' = req /\ selection' = Find(req)
  /\ UNCHANGED table

\* What was selected belongs to the request, and goes with it
End == request # None /\ request' = None /\ selection' = None /\ UNCHANGED table

Next == Begin \/ End

Spec == Init /\ [][Next]_vars

----------------------------------------------------------------------------
(* Properties *)

\* What the index finds fits the request in every respect, though neither paths nor
\* methods are tested once it is found.  Paths without a type are taken for any path.
FoundFits ==
  selection # None /\ selection.type # "untyped" => Fits(selection, request)

\* How many labels of a host a name determines
Covered(key, host) == IF key.wild THEN Len(key.name) ELSE Len(host)

\* The rule found is one of a route that names the host, and no route names it more
\* closely, whatever the order of the routes and of their names.
HostIsClosest ==
  selection # None =>
    \E i \in DOMAIN table : \E key \in ToSet(table[i].hosts) :
      /\ selection \in ToSet(table[i].matches) /\ HostFits(key, request.host)
      /\ \A other \in HostKeys :
           \/ Covered(other, request.host) <= Covered(key, request.host)
           \/ ~(IF other.wild THEN Len(other.name) < Len(request.host)
                                   /\ IsSuffix(other.name, request.host)
                              ELSE other.name = request.host)

\* Matches that the index does not rank differently: those with an indexed path ask for
\* nothing else, and regular expressions do not compete with mere methods
Plain(ms) ==
  LET all == ToSet(ms) IN
  /\ \A m \in all : /\ Indexed(m) => m.method = None /\ m.headers = {}
                    /\ m.type # "untyped"
  /\ ~ \E m, n \in all : /\ m.type = "RegularExpression" /\ m.method = None
                         /\ n.type = "none" /\ n.method # None

\* For such matches USE_FAST_MATCH makes no difference to any request.
FastIsSearch ==
  request # None /\ FittingHosts(request.host) # {} =>
    LET ms == MatchesOf(MostSpecific(FittingHosts(request.host)))
    IN Plain(ms) => selection = Search(ms, request)
=============================================================================
