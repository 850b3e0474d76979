--------------------------- MODULE Matching_proofs --------------------------
(* Proofs about the searches: of the rules of a listener for HTTP requests   *)
(* and for Dubbo calls, and of domains, routes and files of the legacy       *)
(* gateway.                                                                  *)
EXTENDS RouteMatch, LegacyRoute, DubboRoute, DataLemmas

----------------------------------------------------------------------------
(* The order of priority *)

\* What the assumption says of a list of matches
MatchList(ms) ==
  /\ ms \in Seq(ToSet(ms))
  /\ \A i \in DOMAIN ms :
       /\ ms[i].type \in PathTypes /\ ms[i].path \in Seq(ToSet(ms[i].path))
       /\ IsFiniteSet(ms[i].headers)

LEMMA AboveSpelled ==
  ASSUME NEW a, NEW b
  PROVE  Above(a, b) <=>
           \/ a[1] > b[1]
           \/ a[1] = b[1] /\ a[2] > b[2]
           \/ a[1] = b[1] /\ a[2] = b[2] /\ a[3] > b[3]
           \/ a[1] = b[1] /\ a[2] = b[2] /\ a[3] = b[3] /\ a[4] > b[4]
           \/ a[1] = b[1] /\ a[2] = b[2] /\ a[3] = b[3] /\ a[4] = b[4] /\ a[5] > b[5]
<1>1. 1..5 = {1, 2, 3, 4, 5}
  OBVIOUS
<1>2. /\ 1..(1 - 1) = {} /\ 1..(2 - 1) = {1} /\ 1..(3 - 1) = {1, 2} /\ 1..(4 - 1) = {1, 2, 3}
      /\ 1..(5 - 1) = {1, 2, 3, 4}
  OBVIOUS
<1> QED
  BY <1>1, <1>2 DEF Above

LEMMA RankFacts ==
  ASSUME NEW ms, MatchList(ms), NEW i \in DOMAIN ms
  PROVE  /\ Rank(ms, i)[1] = TypeRank(ms[i]) /\ Rank(ms, i)[1] \in Nat
         /\ Rank(ms, i)[2] = Length(ms[i]) /\ Rank(ms, i)[2] \in Nat
         /\ Rank(ms, i)[3] = (IF ms[i].method = None THEN 0 ELSE 1) /\ Rank(ms, i)[3] \in Nat
         /\ Rank(ms, i)[4] = Cardinality(ms[i].headers) /\ Rank(ms, i)[4] \in Nat
         /\ Rank(ms, i)[5] = i /\ Rank(ms, i)[5] \in Nat
<1>1. TypeRank(ms[i]) \in Nat
  BY DEF TypeRank
<1>2. Length(ms[i]) \in Nat
  <2>1. RegexLength \in Nat
    BY TablesAssumption DEF TablesAssumption
  <2>2. Len(ms[i].path) \in Nat
    BY LenProperties DEF MatchList
  <2> QED
    BY <2>1, <2>2 DEF Length
<1>3. Cardinality(ms[i].headers) \in Nat
  BY FS_CardinalityType DEF MatchList
<1>4. i \in Nat
  BY LenProperties DEF MatchList
<1>5. (IF ms[i].method = None THEN 0 ELSE 1) \in Nat
  OBVIOUS
<1> HIDE DEF MatchList
<1> QED
  BY <1>1, <1>2, <1>3, <1>4, <1>5 DEF Rank

\* Above is a strict total order of the indices
LEMMA AboveOrders ==
  ASSUME NEW ms, MatchList(ms)
  PROVE  /\ \A i, j \in DOMAIN ms :
              i = j \/ Above(Rank(ms, i), Rank(ms, j)) \/ Above(Rank(ms, j), Rank(ms, i))
         /\ \A i, j \in DOMAIN ms :
              ~(Above(Rank(ms, i), Rank(ms, j)) /\ Above(Rank(ms, j), Rank(ms, i)))
         /\ \A i, j, k \in DOMAIN ms :
              Above(Rank(ms, i), Rank(ms, j)) /\ Above(Rank(ms, j), Rank(ms, k))
                => Above(Rank(ms, i), Rank(ms, k))
<1> DEFINE r(i) == Rank(ms, i)
<1>1. ASSUME NEW i \in DOMAIN ms
      PROVE  /\ r(i)[1] \in Nat /\ r(i)[2] \in Nat /\ r(i)[3] \in Nat /\ r(i)[4] \in Nat
             /\ r(i)[5] = i /\ i \in Nat
  BY RankFacts
<1> HIDE DEF r
<1>2. ASSUME NEW i \in DOMAIN ms, NEW j \in DOMAIN ms
      PROVE  i = j \/ Above(r(i), r(j)) \/ Above(r(j), r(i))
  BY <1>1, AboveSpelled
<1>3. ASSUME NEW i \in DOMAIN ms, NEW j \in DOMAIN ms, Above(r(i), r(j)), Above(r(j), r(i))
      PROVE  FALSE
  BY <1>1, <1>3, AboveSpelled
<1>4. ASSUME NEW i \in DOMAIN ms, NEW j \in DOMAIN ms, NEW k \in DOMAIN ms,
             Above(r(i), r(j)), Above(r(j), r(k))
      PROVE  Above(r(i), r(k))
  BY <1>1, <1>4, AboveSpelled
<1> QED
  BY <1>2, <1>3, <1>4 DEF r

\* The index that is above all others in a set
IsTop(ms, is, i) == i \in is /\ \A j \in is \ {i} : Above(Rank(ms, i), Rank(ms, j))

LEMMA FirstIsTop ==
  ASSUME NEW ms, MatchList(ms), NEW is \in SUBSET DOMAIN ms, NEW i, IsTop(ms, is, i)
  PROVE  First(ms, is) = ms[i]
<1> DEFINE c == CHOOSE j \in is : \A k \in is \ {j} : Above(Rank(ms, j), Rank(ms, k))
<1>1. c \in is /\ \A k \in is \ {c} : Above(Rank(ms, c), Rank(ms, k))
  BY DEF IsTop
<1>2. First(ms, is) = ms[c]
  BY DEF First, IsTop
<1> HIDE DEF c
<1>3. c = i
  <2>1. SUFFICES ASSUME c # i PROVE FALSE
    OBVIOUS
  <2>2. Above(Rank(ms, c), Rank(ms, i)) /\ Above(Rank(ms, i), Rank(ms, c))
    BY <1>1, <2>1 DEF IsTop
  <2> QED
    BY <2>2, <1>1, AboveOrders DEF IsTop
<1> QED
  BY <1>2, <1>3

LEMMA TopExists ==
  ASSUME NEW ms, MatchList(ms), NEW is \in SUBSET DOMAIN ms, is # {}
  PROVE  \E i \in is : IsTop(ms, is, i)
<1> DEFINE R == {p \in is \X is : p[1] = p[2] \/ Above(Rank(ms, p[1]), Rank(ms, p[2]))}
<1>1. IsFiniteSet(is)
  <2>1. DOMAIN ms = 1..Len(ms) /\ Len(ms) \in Nat
    BY LenProperties DEF MatchList
  <2>2. IsFiniteSet(1..Len(ms))
    BY <2>1, FS_Interval
  <2> QED
    BY <2>1, <2>2, FS_Subset
<1>2. \A i, j \in is : <<i, j>> \in R <=> (i = j \/ Above(Rank(ms, i), Rank(ms, j)))
  OBVIOUS
<1> HIDE DEF R
<1>3. TotalOn(R, is)
  BY <1>2, AboveOrders DEF TotalOn
<1>4. PICK i \in is : \A j \in is : <<i, j>> \in R
  BY <1>1, <1>3, TopOfFinite
<1> QED
  BY <1>2, <1>4 DEF IsTop

LEMMA FirstIsAmong ==
  ASSUME NEW ms, MatchList(ms), NEW is \in SUBSET DOMAIN ms, First(ms, is) # None
  PROVE  \E i \in is : First(ms, is) = ms[i]
<1>1. is # {}
  BY DEF First
<1> QED
  BY <1>1, TopExists, FirstIsTop

----------------------------------------------------------------------------
(* The hosts and the matches of a table *)

TableOK ==
  /\ table \in Seq(ToSet(table)) /\ \A i \in DOMAIN table :
       /\ table[i].hosts \in Seq(ToSet(table[i].hosts)) /\ table[i].hosts # <<>>
       /\ \A key \in ToSet(table[i].hosts) :
            key.wild \in BOOLEAN /\ key.name \in Seq(ToSet(key.name))
       /\ table[i].matches \in Seq(ToSet(table[i].matches))
       /\ \A m \in ToSet(table[i].matches) :
            m.type \in PathTypes /\ m.path \in Seq(ToSet(m.path)) /\ IsFiniteSet(m.headers)

LEMMA TablesAreOK == table \in Tables => TableOK
BY TablesAssumption DEF TablesAssumption, TableOK

LEMMA MatchesOfFacts ==
  ASSUME TableOK, NEW key
  PROVE  /\ MatchList(MatchesOf(key))
         /\ \A m \in ToSet(MatchesOf(key)) : \E i \in DOMAIN table :
              key \in ToSet(table[i].hosts) /\ m \in ToSet(table[i].matches)
<1> DEFINE S == UNION {ToSet(table[i].matches) : i \in DOMAIN table}
           pick(i) == IF key \in ToSet(table[i].hosts) THEN table[i].matches ELSE <<>>
           ss == [i \in DOMAIN table |-> pick(i)]
<1>1. \A i \in DOMAIN table : pick(i) \in Seq(S)
  <2>1. ASSUME NEW i \in DOMAIN table PROVE table[i].matches \in Seq(S) /\ <<>> \in Seq(S)
    <3>1. ToSet(table[i].matches) \subseteq S
      OBVIOUS
    <3>2. table[i].matches \in Seq(ToSet(table[i].matches))
      BY DEF TableOK
    <3> HIDE DEF S
    <3> QED
      BY <3>1, <3>2, SeqMonotonic, EmptySeq
  <2> HIDE DEF S
  <2> QED
    BY <2>1
<1>2. ss \in Seq(Seq(S))
  <2>1. DOMAIN table = 1..Len(table) /\ Len(table) \in Nat
    BY LenProperties DEF TableOK
  <2>2. ss \in [1..Len(table) -> Seq(S)]
    <3> HIDE DEF S, pick
    <3> QED
      BY <1>1, <2>1
  <2> HIDE DEF ss, S
  <2> QED
    BY <2>1, <2>2, SeqDef
<1>3. MatchesOf(key) = FlattenSeq(ss)
  BY DEF MatchesOf
<1>4. /\ MatchesOf(key) \in Seq(S)
      /\ ToSet(MatchesOf(key)) = UNION {ToSet(ss[i]) : i \in DOMAIN ss}
  <2> HIDE DEF S, ss
  <2> QED
    BY <1>2, <1>3, FlattenFacts
<1>5. ASSUME NEW m \in ToSet(MatchesOf(key))
      PROVE  \E i \in DOMAIN table :
               key \in ToSet(table[i].hosts) /\ m \in ToSet(table[i].matches)
  <2>1. PICK i \in DOMAIN table : m \in ToSet(pick(i))
    <3>1. \E i \in DOMAIN ss : m \in ToSet(ss[i])
      <4> HIDE DEF ss, S
      <4> QED
        BY <1>4
    <3> HIDE DEF pick
    <3> QED
      BY <3>1
  <2>2. ToSet(<<>>) = {}
    BY DEF ToSet
  <2> QED
    BY <2>1, <2>2
<1>6. MatchList(MatchesOf(key))
  <2> DEFINE ms == MatchesOf(key)
  <2>0. ms \in Seq(S)
    BY <1>4
  <2> HIDE DEF ms, S
  <2>1. DOMAIN ms = 1..Len(ms) /\ Len(ms) \in Nat /\ ms \in [1..Len(ms) -> S]
    BY <2>0, LenProperties
  <2>2. ms \in Seq(ToSet(ms))
    <3>1. ms \in [1..Len(ms) -> ToSet(ms)]
      BY <2>1 DEF ToSet
    <3> QED
      BY <2>1, <3>1, SeqDef
  <2>3. ASSUME NEW i \in DOMAIN ms
        PROVE  /\ ms[i].type \in PathTypes /\ ms[i].path \in Seq(ToSet(ms[i].path))
               /\ IsFiniteSet(ms[i].headers)
    <3>1. ms[i] \in S
      BY <2>1
    <3>2. PICK j \in DOMAIN table : ms[i] \in ToSet(table[j].matches)
      BY <3>1 DEF S
    <3> QED
      BY <3>2 DEF TableOK
  <2> QED
    BY <2>2, <2>3 DEF ms, MatchList
<1> QED
  BY <1>5, <1>6

LEMMA HostKeysFinite ==
  ASSUME TableOK
  PROVE  IsFiniteSet(HostKeys)
<1> DEFINE f == [i \in DOMAIN table |-> ToSet(table[i].hosts)]
<1>1. DOMAIN table = 1..Len(table) /\ Len(table) \in Nat
  BY LenProperties DEF TableOK
<1>2. ASSUME NEW i \in DOMAIN table PROVE IsFiniteSet(f[i])
  <2> DEFINE h == table[i].hosts
  <2>1. DOMAIN h = 1..Len(h) /\ Len(h) \in Nat
    BY LenProperties DEF TableOK
  <2>2. f[i] = {h[j] : j \in 1..Len(h)}
    BY <2>1 DEF ToSet
  <2> HIDE DEF h, f
  <2>3. IsFiniteSet({h[j] : j \in 1..Len(h)})
    BY <2>1, ImageIsFinite, Zenon
  <2> QED
    BY <2>2, <2>3
<1>3. HostKeys = UNION {f[i] : i \in 1..Len(table)}
  BY <1>1 DEF HostKeys
<1> HIDE DEF f
<1> QED
  BY <1>1, <1>2, <1>3, UnionIsFinite

LEMMA MostSpecificFacts ==
  ASSUME TableOK, NEW ks \in SUBSET HostKeys, ks # {}
  PROVE  /\ MostSpecific(ks) \in ks
         /\ \A j \in ks : LET k == MostSpecific(ks) IN
              ~k.wild \/ (j.wild /\ Len(k.name) >= Len(j.name))
<1> DEFINE over(k, j) == ~k.wild \/ (j.wild /\ Len(k.name) >= Len(j.name))
           R == {p \in ks \X ks : over(p[1], p[2])}
<1>1. ASSUME NEW k \in ks PROVE k.wild \in BOOLEAN /\ Len(k.name) \in Nat
  <2>1. PICK i \in DOMAIN table : k \in ToSet(table[i].hosts)
    BY DEF HostKeys
  <2>2. k.wild \in BOOLEAN /\ k.name \in Seq(ToSet(k.name))
    BY <2>1 DEF TableOK
  <2> QED
    BY <2>2, LenProperties
<1>2. \A k, j \in ks : <<k, j>> \in R <=> over(k, j)
  OBVIOUS
<1>3. TotalOn(R, ks)
  <2> HIDE DEF R
  <2>1. ASSUME NEW k \in ks, NEW j \in ks PROVE over(k, j) \/ over(j, k)
    BY <1>1
  <2>2. ASSUME NEW k \in ks, NEW j \in ks, NEW l \in ks, over(k, j), over(j, l) PROVE over(k, l)
    BY <1>1, <2>2
  <2> HIDE DEF over
  <2> QED
    BY <1>2, <2>1, <2>2 DEF TotalOn
<1>4. IsFiniteSet(ks)
  BY HostKeysFinite, FS_Subset
<1>5. \E k \in ks : \A j \in ks : over(k, j)
  <2>1. PICK k \in ks : \A j \in ks : <<k, j>> \in R
    <3> HIDE DEF R
    <3> QED
      BY <1>3, <1>4, TopOfFinite
  <2> QED
    BY <2>1
<1> QED
  BY <1>5 DEF MostSpecific

----------------------------------------------------------------------------
(* The requests of a router *)

\* What was selected was found for the request
SelectionInv ==
  /\ table \in Tables
  /\ \/ request = None /\ selection = None
     \/ request \in Requests /\ selection = Find(request)

LEMMA SelectionStarts == Init => SelectionInv
BY DEF Init, SelectionInv

LEMMA SelectionKeeps == SelectionInv /\ [Next]_vars => SelectionInv'
<1> SUFFICES ASSUME SelectionInv, [Next]_vars PROVE SelectionInv'
  OBVIOUS
<1>1. ASSUME table' = table, NEW req PROVE Find(req)' = Find(req)
  BY <1>1 DEF Find, FittingHosts, HostKeys, MatchesOf
<1>2. CASE Begin
  <2>1. PICK req \in Requests : request' = req /\ selection' = Find(req)
    BY <1>2 DEF Begin
  <2>2. table' = table
    BY <1>2 DEF Begin
  <2> QED
    BY <1>1, <2>1, <2>2 DEF SelectionInv
<1>3. CASE End
  BY <1>3 DEF End, SelectionInv
<1>4. CASE UNCHANGED vars
  <2>1. table' = table /\ request' = request /\ selection' = selection
    BY <1>4 DEF vars
  <2>2. Find(request)' = Find(request)
    BY <2>1 DEF Find, FittingHosts, HostKeys, MatchesOf
  <2> QED
    BY <2>1, <2>2 DEF SelectionInv
<1> QED
  BY <1>2, <1>3, <1>4 DEF Next

LEMMA FoundKey ==
  ASSUME SelectionInv, selection = Find(request), request \in Requests,
         FittingHosts(request.host) # {}
  PROVE  LET key == MostSpecific(FittingHosts(request.host)) IN
         /\ TableOK
         /\ key \in FittingHosts(request.host) /\ MatchList(MatchesOf(key))
         /\ \A j \in FittingHosts(request.host) :
              ~key.wild \/ (j.wild /\ Len(key.name) >= Len(j.name))
         /\ \A m \in ToSet(MatchesOf(key)) : \E i \in DOMAIN table :
              key \in ToSet(table[i].hosts) /\ m \in ToSet(table[i].matches)
         /\ selection = FastSearch(MatchesOf(key), request)
<1>1. request \in Requests /\ selection = Find(request) /\ TableOK
  BY TablesAreOK DEF SelectionInv
<1>2. FittingHosts(request.host) \in SUBSET HostKeys
  BY DEF FittingHosts
<1>3. selection = FastSearch(MatchesOf(MostSpecific(FittingHosts(request.host))), request)
  BY <1>1 DEF Find
<1> QED
  BY <1>1, <1>2, <1>3, MostSpecificFacts, MatchesOfFacts

\* The most specific of the patterns that fit a path
LEMMA BestPatternFacts ==
  ASSUME NEW ms, MatchList(ms), NEW path, Patterns(ms, path) # {}
  PROVE  LET ps == Patterns(ms, path) IN
         /\ BestPattern(ps) \in ps
         /\ \A q \in ps : LET p == BestPattern(ps) IN
              Len(p[1]) > Len(q[1]) \/ (Len(p[1]) = Len(q[1]) /\ (p[2] => q[2]))
<1> DEFINE ps == Patterns(ms, path)
           over(p, q) == Len(p[1]) > Len(q[1]) \/ (Len(p[1]) = Len(q[1]) /\ (p[2] => q[2]))
           R == {pair \in ps \X ps : over(pair[1], pair[2])}
           f == [i \in DOMAIN ms |-> <<ms[i].path, ms[i].type = "PathPrefix">>]
<1>1. DOMAIN ms = 1..Len(ms) /\ Len(ms) \in Nat
  BY LenProperties DEF MatchList
<1>2. IsFiniteSet(ps)
  <2>1. IsFiniteSet({f[i] : i \in 1..Len(ms)})
    <3> HIDE DEF f
    <3> QED
      BY <1>1, ImageIsFinite
  <2>2. ps \in SUBSET {f[i] : i \in 1..Len(ms)}
    BY <1>1 DEF Patterns
  <2> QED
    BY <2>1, <2>2, FS_Subset
<1>3. \A p \in ps : Len(p[1]) \in Nat
  <2>1. ASSUME NEW i \in DOMAIN ms PROVE Len(ms[i].path) \in Nat
    BY LenProperties DEF MatchList
  <2>2. ASSUME NEW p \in ps PROVE \E i \in DOMAIN ms : p = <<ms[i].path, ms[i].type = "PathPrefix">>
    BY DEF Patterns
  <2> QED
    BY <2>1, <2>2
<1>4. \A p, q \in ps : <<p, q>> \in R <=> over(p, q)
  OBVIOUS
<1>5. TotalOn(R, ps)
  <2> HIDE DEF R, ps
  <2>1. ASSUME NEW p \in ps, NEW q \in ps PROVE over(p, q) \/ over(q, p)
    BY <1>3
  <2>2. ASSUME NEW p \in ps, NEW q \in ps, NEW r \in ps, over(p, q), over(q, r) PROVE over(p, r)
    BY <1>3, <2>2
  <2> HIDE DEF over
  <2> QED
    BY <1>4, <2>1, <2>2 DEF TotalOn
<1>6. \E p \in ps : \A q \in ps : over(p, q)
  <2>1. PICK p \in ps : \A q \in ps : <<p, q>> \in R
    <3> HIDE DEF R, ps
    <3>1. ps # {}
      BY DEF ps
    <3> QED
      BY <3>1, <1>2, <1>5, TopOfFinite
  <2> QED
    BY <1>4, <2>1
<1> QED
  BY <1>6 DEF BestPattern

\* The selection comes from one of the three lists
LEMMA FastSearchFacts ==
  ASSUME NEW ms, MatchList(ms), NEW req, FastSearch(ms, req) # None
  PROVE  \E i \in DOMAIN ms :
           /\ FastSearch(ms, req) = ms[i] /\ HeadersFit(ms[i], req)
           /\ ms[i].method \in {None, req.method}
           /\ Indexed(ms[i]) => PathFits(ms[i], req.path)
<1> DEFINE ps     == Patterns(ms, req.path)
           byPath == IF ps = {} THEN {} ELSE Checked(ms, At(ms, BestPattern(ps)), req.method)
           rest   == {i \in DOMAIN ms : ~Indexed(ms[i])}
           byMethod == {i \in rest : ms[i].method = req.method}
           slow   == {i \in rest : ms[i].method = None}
<1>1. ASSUME NEW is \in SUBSET DOMAIN ms, FastSearch(ms, req) = First(ms, Passing(ms, is, req)),
             \A i \in is : /\ ms[i].method \in {None, req.method}
                           /\ Indexed(ms[i]) => PathFits(ms[i], req.path)
      PROVE  \E i \in DOMAIN ms :
               /\ FastSearch(ms, req) = ms[i] /\ HeadersFit(ms[i], req)
               /\ ms[i].method \in {None, req.method}
               /\ Indexed(ms[i]) => PathFits(ms[i], req.path)
  <2>1. Passing(ms, is, req) \in SUBSET DOMAIN ms
    BY DEF Passing
  <2>2. PICK i \in Passing(ms, is, req) : First(ms, Passing(ms, is, req)) = ms[i]
    BY <1>1, <2>1, FirstIsAmong
  <2> QED
    BY <1>1, <2>2 DEF Passing
<1>2. /\ byPath \in SUBSET DOMAIN ms
      /\ \A i \in byPath : /\ ms[i].method \in {None, req.method}
                           /\ Indexed(ms[i]) => PathFits(ms[i], req.path)
  <2>1. CASE ps = {}
    BY <2>1
  <2>2. CASE ps # {}
    <3>1. BestPattern(ps) \in ps
      BY <2>2, BestPatternFacts
    <3>2. ASSUME NEW i \in byPath
          PROVE  /\ i \in DOMAIN ms /\ ms[i].method \in {None, req.method}
                 /\ Indexed(ms[i]) /\ PathFits(ms[i], req.path)
      <4>1. i \in At(ms, BestPattern(ps)) /\ ms[i].method \in {None, req.method}
        BY <2>2 DEF Checked
      <4>2. PICK j \in DOMAIN ms : /\ Indexed(ms[j]) /\ PathFits(ms[j], req.path)
                                   /\ BestPattern(ps) = <<ms[j].path, ms[j].type = "PathPrefix">>
        BY <3>1 DEF Patterns
      <4>3. /\ i \in DOMAIN ms /\ Indexed(ms[i]) /\ ms[i].path = ms[j].path
            /\ (ms[i].type = "PathPrefix") = (ms[j].type = "PathPrefix")
        BY <4>1, <4>2 DEF At
      <4> QED
        BY <4>1, <4>2, <4>3 DEF Indexed, PathFits
    <3> QED
      BY <3>2
  <2> QED
    BY <2>1, <2>2
<1>3. /\ byMethod \in SUBSET DOMAIN ms /\ slow \in SUBSET DOMAIN ms
      /\ \A i \in byMethod \cup slow : ms[i].method \in {None, req.method} /\ ~Indexed(ms[i])
  OBVIOUS
<1>4. \/ FastSearch(ms, req) = First(ms, Passing(ms, byPath, req))
      \/ FastSearch(ms, req) = First(ms, Passing(ms, byMethod, req))
      \/ FastSearch(ms, req) = First(ms, Passing(ms, slow, req))
  BY DEF FastSearch
<1> HIDE DEF byPath, byMethod, slow
<1> QED
  BY <1>1, <1>2, <1>3, <1>4

(* The rule that the index finds fits the request in its path, its method    *)
(* and its headers, though a path without a type is never tested             *)
(* (router-http.js).                                                         *)
THEOREM AlwaysFoundFits == Spec => []FoundFits
<1>1. SelectionInv => FoundFits
  <2> SUFFICES ASSUME SelectionInv, selection # None, selection.type # "untyped"
               PROVE  Fits(selection, request)
    BY DEF FoundFits
  <2>1. request \in Requests /\ selection = Find(request) /\ FittingHosts(request.host) # {}
    BY DEF SelectionInv, Find
  <2> DEFINE ms == MatchesOf(MostSpecific(FittingHosts(request.host)))
  <2>2. MatchList(ms) /\ selection = FastSearch(ms, request)
    BY <2>1, FoundKey
  <2> HIDE DEF ms
  <2>3. PICK i \in DOMAIN ms :
          /\ selection = ms[i] /\ HeadersFit(ms[i], request)
          /\ ms[i].method \in {None, request.method}
          /\ Indexed(ms[i]) => PathFits(ms[i], request.path)
    BY <2>2, FastSearchFacts
  <2>4. PathFits(ms[i], request.path)
    BY <2>2, <2>3 DEF Indexed, HeadersFit, PathFits, MatchList, PathTypes
  <2> QED
    BY <2>3, <2>4 DEF Fits, HeadersFit
<1> QED
  BY <1>1, SelectionStarts, SelectionKeeps, PTL DEF Spec

(* The rule found belongs to a route that names the host, and no route names *)
(* it more closely, however routes and names are ordered (router-http.js).   *)
THEOREM HostAlwaysClosest == Spec => []HostIsClosest
<1>1. SelectionInv => HostIsClosest
  <2> SUFFICES ASSUME SelectionInv, selection # None
               PROVE  HostIsClosest
    BY DEF HostIsClosest
  <2>1. request \in Requests /\ selection = Find(request) /\ FittingHosts(request.host) # {}
    BY DEF SelectionInv, Find
  <2> DEFINE key == MostSpecific(FittingHosts(request.host))
  <2>2. /\ TableOK /\ key \in FittingHosts(request.host) /\ MatchList(MatchesOf(key))
        /\ \A j \in FittingHosts(request.host) :
             ~key.wild \/ (j.wild /\ Len(key.name) >= Len(j.name))
        /\ \A m \in ToSet(MatchesOf(key)) : \E i \in DOMAIN table :
             key \in ToSet(table[i].hosts) /\ m \in ToSet(table[i].matches)
        /\ selection = FastSearch(MatchesOf(key), request)
    BY <2>1, FoundKey
  <2> HIDE DEF key
  <2>3. selection \in ToSet(MatchesOf(key))
    BY <2>2, FastSearchFacts DEF ToSet
  <2>4. PICK i \in DOMAIN table : key \in ToSet(table[i].hosts) /\ selection \in ToSet(table[i].matches)
    BY <2>2, <2>3
  <2>5. HostFits(key, request.host) /\ Len(request.host) \in Nat
    BY <2>1, <2>2, LenProperties, TablesAssumption DEF FittingHosts, TablesAssumption
  <2>6. \A k \in HostKeys : k.wild \in BOOLEAN /\ Len(k.name) \in Nat
    <3>1. ASSUME NEW k \in HostKeys PROVE k.wild \in BOOLEAN /\ k.name \in Seq(ToSet(k.name))
      BY <2>2 DEF HostKeys, TableOK
    <3> QED
      BY <3>1, LenProperties
  <2>7. ASSUME NEW other \in HostKeys,
               IF other.wild THEN Len(other.name) < Len(request.host)
                                  /\ IsSuffix(other.name, request.host)
                             ELSE other.name = request.host
        PROVE  Covered(other, request.host) <= Covered(key, request.host)
    <3>1. other \in FittingHosts(request.host)
      BY <2>5, <2>6, <2>7 DEF FittingHosts, HostFits
    <3>2. ~key.wild \/ (other.wild /\ Len(key.name) >= Len(other.name))
      BY <2>2, <3>1
    <3>3. key \in HostKeys
      BY <2>2 DEF FittingHosts
    <3> QED
      BY <2>5, <2>6, <2>7, <3>2, <3>3 DEF Covered
  <2> QED
    BY <2>4, <2>5, <2>7 DEF HostIsClosest
<1> QED
  BY <1>1, SelectionStarts, SelectionKeeps, PTL DEF Spec

----------------------------------------------------------------------------
(* The index and the order of priority *)

LEMMA PrefixIsPart ==
  ASSUME NEW s, s \in Seq(ToSet(s)), NEW t, t \in Seq(ToSet(t)), IsPrefix(s, t)
  PROVE  Len(s) \in Nat /\ Len(t) \in Nat /\ Len(s) <= Len(t) /\ s = SubSeq(t, 1, Len(s))
BY SubSeqFull, LenProperties DEF IsPrefix

LEMMA PlainFacts ==
  ASSUME NEW ms, MatchList(ms), Plain(ms), NEW i \in DOMAIN ms
  PROVE  /\ ms[i].type \in {"Exact", "PathPrefix", "RegularExpression", "none"}
         /\ Indexed(ms[i]) => ms[i].method = None /\ ms[i].headers = {}
<1>1. ms[i] \in ToSet(ms)
  BY DEF ToSet
<1> QED
  BY <1>1 DEF Plain, MatchList, PathTypes

\* With a pattern that fits, the top of all that fits has the best one
LEMMA SearchByPath ==
  ASSUME NEW ms, MatchList(ms), Plain(ms), NEW req, req.path \in Seq(ToSet(req.path)),
         Patterns(ms, req.path) # {}
  PROVE  FastSearch(ms, req) = Search(ms, req)
<1> DEFINE ps == Patterns(ms, req.path)
           p  == BestPattern(ps)
           A  == At(ms, p)
           F  == {i \in DOMAIN ms : Fits(ms[i], req)}
<1>1. /\ p \in ps
      /\ \A q \in ps : Len(p[1]) > Len(q[1]) \/ (Len(p[1]) = Len(q[1]) /\ (p[2] => q[2]))
  BY BestPatternFacts
<1>2. PICK b \in DOMAIN ms : /\ Indexed(ms[b]) /\ PathFits(ms[b], req.path)
                             /\ p = <<ms[b].path, ms[b].type = "PathPrefix">>
  <2> HIDE DEF p
  <2> QED
    BY <1>1 DEF Patterns
<1> HIDE DEF p
<1>3. ASSUME NEW i \in A
      PROVE  /\ i \in DOMAIN ms /\ Indexed(ms[i]) /\ ms[i].path = ms[b].path
             /\ (ms[i].type = "PathPrefix") = (ms[b].type = "PathPrefix")
             /\ PathFits(ms[i], req.path) /\ ms[i].method = None /\ ms[i].headers = {}
  <2>1. /\ i \in DOMAIN ms /\ Indexed(ms[i])
        /\ <<ms[i].path, ms[i].type = "PathPrefix">> = <<ms[b].path, ms[b].type = "PathPrefix">>
    BY <1>2 DEF At
  <2>2. ms[i].path = ms[b].path /\ (ms[i].type = "PathPrefix") = (ms[b].type = "PathPrefix")
    BY <2>1
  <2>3. PathFits(ms[i], req.path)
    BY <1>2, <2>1, <2>2 DEF Indexed, PathFits
  <2> QED
    BY <2>1, <2>2, <2>3, PlainFacts
<1>4. A \subseteq F /\ \A i \in A : HeadersFit(ms[i], req)
  <2>1. ASSUME NEW i \in A PROVE i \in F /\ HeadersFit(ms[i], req)
    BY <1>3 DEF Fits, HeadersFit, Indexed
  <2> QED
    BY <2>1
<1>5. b \in A
  BY <1>2 DEF At
<1>6. FastSearch(ms, req) = First(ms, A)
  <2>1. Checked(ms, A, req.method) = A
    BY <1>3 DEF Checked
  <2>2. Passing(ms, A, req) = A
    BY <1>4 DEF Passing
  <2> HIDE DEF A
  <2> QED
    BY <1>5, <2>1, <2>2 DEF FastSearch, A, p
<1>7. PICK t \in F : IsTop(ms, F, t)
  BY <1>4, <1>5, TopExists
<1>8. t = b \/ Above(Rank(ms, t), Rank(ms, b))
  BY <1>4, <1>5, <1>7 DEF IsTop
<1>9. /\ TypeRank(ms[t]) >= TypeRank(ms[b])
      /\ TypeRank(ms[t]) = TypeRank(ms[b]) => Length(ms[t]) >= Length(ms[b])
  <2> DEFINE x == Rank(ms, t)
             y == Rank(ms, b)
  <2>1. t \in DOMAIN ms
    BY <1>7
  <2>2. x[1] = TypeRank(ms[t]) /\ x[2] = Length(ms[t]) /\ x[1] \in Nat /\ x[2] \in Nat
    BY <2>1, RankFacts
  <2>3. y[1] = TypeRank(ms[b]) /\ y[2] = Length(ms[b]) /\ y[1] \in Nat /\ y[2] \in Nat
    BY <1>2, RankFacts
  <2> HIDE DEF x, y, F
  <2>4. \/ x[1] > y[1]
        \/ x[1] = y[1] /\ (x[2] > y[2] \/ x[2] = y[2])
    <3>1. CASE t = b
      BY <3>1 DEF x, y
    <3>2. CASE Above(x, y)
      BY <3>2, AboveSpelled, Zenon
    <3> QED
      BY <1>8, <3>1, <3>2 DEF x, y
  <2> QED
    BY <2>2, <2>3, <2>4
<1>10. /\ t \in DOMAIN ms /\ PathFits(ms[t], req.path)
       /\ ms[t].type \in {"Exact", "PathPrefix", "RegularExpression", "none"}
       /\ ms[b].type \in {"Exact", "PathPrefix"}
  BY <1>2, <1>7, PlainFacts DEF Fits, Indexed
<1>11. ms[t].type \in {"Exact", "PathPrefix"} /\ (ms[b].type = "Exact" => ms[t].type = "Exact")
  BY <1>9, <1>10 DEF TypeRank
<1>12. /\ Len(ms[t].path) \in Nat /\ Len(ms[b].path) \in Nat /\ Len(req.path) \in Nat
       /\ ms[t].path \in Seq(ToSet(ms[t].path)) /\ ms[b].path \in Seq(ToSet(ms[b].path))
  BY <1>10, LenProperties DEF MatchList
<1>13. \/ Len(ms[b].path) > Len(ms[t].path)
       \/ /\ Len(ms[b].path) = Len(ms[t].path)
          /\ ms[b].type = "PathPrefix" => ms[t].type = "PathPrefix"
  <2>1. <<ms[t].path, ms[t].type = "PathPrefix">> \in ps
    BY <1>10, <1>11 DEF Patterns, Indexed
  <2> QED
    BY <1>1, <1>2, <2>1
<1>14. ms[t].path = ms[b].path /\ (ms[t].type = "PathPrefix") = (ms[b].type = "PathPrefix")
  <2>1. CASE ms[t].type = "Exact"
    <3>1. ms[t].path = req.path
      BY <1>10, <2>1 DEF PathFits
    <3>2. CASE ms[b].type = "Exact"
      <4>1. ms[b].path = req.path
        BY <1>2, <3>2 DEF PathFits
      <4> QED
        BY <2>1, <3>1, <3>2, <4>1
    <3>3. CASE ms[b].type = "PathPrefix"
      <4>1. IsPrefix(ms[b].path, req.path)
        BY <1>2, <3>3 DEF PathFits
      <4>2. Len(ms[b].path) <= Len(req.path)
        BY <4>1 DEF IsPrefix
      <4> QED
        BY <1>12, <1>13, <2>1, <3>1, <3>3, <4>2
    <3> QED
      BY <1>10, <3>2, <3>3
  <2>2. CASE ms[t].type = "PathPrefix"
    <3>1. ms[b].type = "PathPrefix"
      BY <1>10, <1>11, <2>2
    <3>2. Len(ms[t].path) = Len(ms[b].path)
      BY <1>9, <1>12, <1>13, <2>2, <3>1 DEF TypeRank, Length
    <3>3. IsPrefix(ms[t].path, req.path) /\ IsPrefix(ms[b].path, req.path)
      BY <1>2, <1>10, <2>2, <3>1 DEF PathFits
    <3>4. ms[t].path = SubSeq(req.path, 1, Len(ms[t].path))
      BY <1>12, <3>3, PrefixIsPart
    <3>5. ms[b].path = SubSeq(req.path, 1, Len(ms[b].path))
      BY <1>12, <3>3, PrefixIsPart
    <3> QED
      BY <2>2, <3>1, <3>2, <3>4, <3>5
  <2> QED
    BY <1>11, <2>1, <2>2
<1>15. t \in A
  BY <1>2, <1>10, <1>11, <1>14 DEF At, Indexed
<1>16. IsTop(ms, A, t)
  BY <1>4, <1>7, <1>15 DEF IsTop
<1>17. First(ms, A) = ms[t] /\ First(ms, F) = ms[t]
  <2>1. A \in SUBSET DOMAIN ms /\ F \in SUBSET DOMAIN ms
    BY <1>4
  <2> QED
    BY <1>7, <1>16, <2>1, FirstIsTop
<1> QED
  BY <1>6, <1>17 DEF Search

\* With none, a match for the method of the request is above those for any
LEMMA SearchByMethod ==
  ASSUME NEW ms, MatchList(ms), Plain(ms), NEW req, Patterns(ms, req.path) = {}
  PROVE  FastSearch(ms, req) = Search(ms, req)
<1> DEFINE F == {i \in DOMAIN ms : Fits(ms[i], req)}
           rest == {i \in DOMAIN ms : ~Indexed(ms[i])}
           M == Passing(ms, {i \in rest : ms[i].method = req.method}, req)
           N == Passing(ms, {i \in rest : ms[i].method = None}, req)
<1>1. FastSearch(ms, req) = IF M # {} THEN First(ms, M) ELSE First(ms, N)
  <2>1. Passing(ms, {}, req) = {}
    BY DEF Passing
  <2> QED
    BY <2>1 DEF FastSearch
<1>2. ASSUME NEW i \in DOMAIN ms
      PROVE  /\ i \in F => ~Indexed(ms[i])
             /\ ~Indexed(ms[i]) => (PathFits(ms[i], req.path)
                  <=> (ms[i].type = "RegularExpression" => req.path \in RegexPaths))
  <2>1. i \in F => ~Indexed(ms[i])
    BY DEF Fits, Patterns
  <2>2. ms[i].type \in {"Exact", "PathPrefix", "RegularExpression", "none"}
    BY PlainFacts
  <2> QED
    BY <2>1, <2>2 DEF Indexed, PathFits
<1>3. /\ M = {i \in F : ms[i].method = req.method}
      /\ N = {i \in F : ms[i].method = None}
      /\ F = M \cup N
  <2>1. \A i \in DOMAIN ms : i \in M <=> i \in F /\ ms[i].method = req.method
    BY <1>2 DEF Passing, HeadersFit, Fits
  <2>2. \A i \in DOMAIN ms : i \in N <=> i \in F /\ ms[i].method = None
    BY <1>2 DEF Passing, HeadersFit, Fits
  <2>3. M \subseteq DOMAIN ms /\ N \subseteq DOMAIN ms
    BY DEF Passing
  <2>4. \A i \in F : ms[i].method \in {None, req.method}
    BY DEF Fits
  <2> HIDE DEF M, N, F
  <2>5. F \subseteq DOMAIN ms
    BY DEF F
  <2> QED
    BY <2>1, <2>2, <2>3, <2>4, <2>5
<1> HIDE DEF M, N
<1>4. CASE M = {}
  BY <1>1, <1>3, <1>4 DEF Search
<1>5. CASE M # {}
  <2>1. PICK t \in F : IsTop(ms, F, t)
    BY <1>3, <1>5, TopExists
  <2>2. t \in M
    <3>1. SUFFICES ASSUME t \notin M PROVE FALSE
      OBVIOUS
    <3>2. ms[t].method = None /\ req.method # None
      BY <1>3, <2>1, <3>1
    <3>3. PICK m \in M : TRUE
      BY <1>5
    <3>4. ms[m].method = req.method /\ m \in F /\ m # t
      BY <1>3, <3>1, <3>3
    <3>5. Above(Rank(ms, t), Rank(ms, m))
      BY <2>1, <3>4 DEF IsTop
    <3>6. /\ ms[t].type \in {"RegularExpression", "none"}
          /\ ms[m].type \in {"RegularExpression", "none"}
      BY <1>2, <2>1, <3>4, PlainFacts DEF Indexed
    <3>7. ~(ms[t].type = "RegularExpression" /\ ms[m].type = "none")
      BY <2>1, <3>2, <3>4 DEF Plain, ToSet
    <3>8. TypeRank(ms[t]) <= TypeRank(ms[m])
      BY <3>6, <3>7 DEF TypeRank
    <3>9. TypeRank(ms[t]) = TypeRank(ms[m]) => Length(ms[t]) = Length(ms[m])
      BY <3>6 DEF TypeRank, Length
    <3> QED
      BY <2>1, <3>2, <3>4, <3>5, <3>8, <3>9, RankFacts, AboveSpelled
  <2>3. IsTop(ms, M, t)
    BY <1>3, <2>1, <2>2 DEF IsTop
  <2>4. First(ms, M) = ms[t] /\ First(ms, F) = ms[t]
    <3>1. M \in SUBSET DOMAIN ms /\ F \in SUBSET DOMAIN ms
      BY <1>3
    <3> QED
      BY <2>1, <2>3, <3>1, FirstIsTop
  <2> QED
    BY <1>1, <1>5, <2>4 DEF Search
<1> QED
  BY <1>4, <1>5

(* USE_FAST_MATCH (router-http.js) makes no difference to any request whose *)
(* rules are plain: the index of paths, then the lists of methods and then  *)
(* the rest select the match that the search of all of them in the order of *)
(* priority selects, for every table of rules and every request.            *)
THEOREM FastIsAlwaysSearch == Spec => []FastIsSearch
<1>1. SelectionInv => FastIsSearch
  <2> SUFFICES ASSUME SelectionInv, request # None, FittingHosts(request.host) # {},
                      Plain(MatchesOf(MostSpecific(FittingHosts(request.host))))
               PROVE  selection = Search(MatchesOf(MostSpecific(FittingHosts(request.host))), request)
    BY DEF FastIsSearch
  <2> DEFINE ms == MatchesOf(MostSpecific(FittingHosts(request.host)))
  <2>1. request \in Requests /\ selection = Find(request)
    BY DEF SelectionInv
  <2>2. MatchList(ms) /\ selection = FastSearch(ms, request)
    BY <2>1, FoundKey
  <2>3. request.path \in Seq(ToSet(request.path))
    BY <2>1, TablesAssumption DEF TablesAssumption
  <2> HIDE DEF ms
  <2>4. Plain(ms)
    BY DEF ms
  <2>5. FastSearch(ms, request) = Search(ms, request)
    BY <2>2, <2>3, <2>4, SearchByPath, SearchByMethod
  <2> QED
    BY <2>2, <2>5 DEF ms
<1> QED
  BY <1>1, SelectionStarts, SelectionKeeps, PTL DEF Spec

----------------------------------------------------------------------------
(* The hosts of the legacy gateway *)

\* What the assumption says of a configuration
EntryOK(e) ==
  /\ e.hosts \in Seq(ToSet(e.hosts))
  /\ \A h \in ToSet(e.hosts) : h.wild \in BOOLEAN /\ h = [wild |-> h.wild, name |-> h.name]
  /\ e.routes \in Seq(ToSet(e.routes))
  /\ \A r \in ToSet(e.routes) :
       /\ r.root \in Root \cup {Nothing}
       /\ r.tryFiles \in Seq(ToSet(r.tryFiles)) /\ r.tryFiles # <<>>
       /\ \A t \in ToSet(r.tryFiles) : t.status \in Nat

ConfigOK ==
  /\ config.entries \in Seq(ToSet(config.entries))
  /\ \A i \in DOMAIN config.entries : EntryOK(config.entries[i])

LEMMA ConfigsAreOK == config \in Configs => ConfigOK
<1> SUFFICES ASSUME config \in Configs PROVE ConfigOK
  OBVIOUS
<1>1. \A i \in DOMAIN config.entries : config.entries[i] \in ToSet(config.entries)
  BY DEF ToSet
<1> QED
  BY <1>1, LegacyRouteAssumption DEF LegacyRouteAssumption, ConfigOK, EntryOK

\* The names in their order are exactly those of the entries
LEMMA NamedFacts ==
  ASSUME ConfigOK
  PROVE  /\ DOMAIN Named = 1..Len(Named) /\ Len(Named) \in Nat
         /\ \A i \in DOMAIN Named : \E e \in DOMAIN config.entries :
              \E k \in DOMAIN config.entries[e].hosts : Named[i] = <<config.entries[e].hosts[k], e>>
         /\ \A e \in DOMAIN config.entries : \A k \in DOMAIN config.entries[e].hosts :
              \E i \in DOMAIN Named : Named[i] = <<config.entries[e].hosts[k], e>>
<1> DEFINE es == config.entries
           H == UNION {ToSet(es[e].hosts) : e \in DOMAIN es}
           S == H \X DOMAIN es
           part(e) == [k \in DOMAIN es[e].hosts |-> <<es[e].hosts[k], e>>]
           ss == [e \in DOMAIN es |-> part(e)]
<1>1. Named = FlattenSeq(ss)
  BY DEF Named
<1>2. ASSUME NEW e \in DOMAIN es PROVE part(e) \in Seq(S)
  <2>1. DOMAIN es[e].hosts = 1..Len(es[e].hosts) /\ Len(es[e].hosts) \in Nat
    BY LenProperties DEF ConfigOK, EntryOK
  <2>2. \A k \in DOMAIN es[e].hosts : es[e].hosts[k] \in H
    BY DEF ToSet
  <2>3. part(e) \in [1..Len(es[e].hosts) -> S]
    <3> HIDE DEF H
    <3> QED
      BY <2>1, <2>2
  <2> HIDE DEF part, S
  <2> QED
    BY <2>1, <2>3, SeqDef
<1>3. ss \in Seq(Seq(S))
  <2>1. DOMAIN es = 1..Len(es) /\ Len(es) \in Nat
    BY LenProperties DEF ConfigOK
  <2>2. ss \in [1..Len(es) -> Seq(S)]
    <3> HIDE DEF S, part
    <3> QED
      BY <1>2, <2>1
  <2> HIDE DEF ss, S
  <2> QED
    BY <2>1, <2>2, SeqDef
<1>4. /\ Named \in Seq(S)
      /\ ToSet(Named) = UNION {ToSet(ss[e]) : e \in DOMAIN ss}
  <2> HIDE DEF S, ss
  <2> QED
    BY <1>1, <1>3, FlattenFacts
<1>5. DOMAIN Named = 1..Len(Named) /\ Len(Named) \in Nat
  <2> HIDE DEF S, ss
  <2> QED
    BY <1>4, LenProperties
<1>6. \A x : x \in ToSet(Named) <=>
        \E e \in DOMAIN es : \E k \in DOMAIN es[e].hosts : x = <<es[e].hosts[k], e>>
  <2>1. \A e \in DOMAIN es : ToSet(ss[e]) = {<<es[e].hosts[k], e>> : k \in DOMAIN es[e].hosts}
    BY DEF ToSet
  <2>2. DOMAIN ss = DOMAIN es
    OBVIOUS
  <2> HIDE DEF ss
  <2> QED
    BY <1>4, <2>1, <2>2
<1>7. \A x : x \in ToSet(Named) <=> \E i \in DOMAIN Named : x = Named[i]
  BY DEF ToSet
<1> QED
  BY <1>5, <1>6, <1>7

LEMMA OwnerFacts ==
  ASSUME ConfigOK, NEW i \in DOMAIN Named
  PROVE  /\ \E j \in DOMAIN Named : Named[j] = <<Named[i][1], Owner(Named[i][1])>>
         /\ Owner(Named[i][1]) \in DOMAIN config.entries /\ Owner(Named[i][1]) # Nothing
<1> DEFINE name == Named[i][1]
           is == {k \in DOMAIN Named : Named[k][1] = name}
<1>1. PICK m \in is : \A k \in is : k <= m
  <2>1. is # {} /\ is \in SUBSET (1..Len(Named))
    BY NamedFacts
  <2> HIDE DEF is
  <2> QED
    BY <2>1, NamedFacts, GreatestNatural
<1> DEFINE c == CHOOSE k \in DOMAIN Named : Named[k][1] = name
                  /\ \A j \in DOMAIN Named : Named[j][1] = name => j <= k
<1>2. c \in DOMAIN Named /\ Named[c][1] = name
  BY <1>1
<1>3. Owner(name) = Named[c][2]
  BY DEF Owner
<1> HIDE DEF c
<1>4. PICK e \in DOMAIN config.entries : \E k \in DOMAIN config.entries[e].hosts :
        Named[c] = <<config.entries[e].hosts[k], e>>
  BY <1>2, NamedFacts
<1>5. Named[c] = <<name, Owner(name)>>
  BY <1>2, <1>3, <1>4
<1>6. e \in Nat
  BY LenProperties DEF ConfigOK
<1> QED
  BY <1>2, <1>3, <1>4, <1>5, <1>6, LegacyRouteAssumption DEF LegacyRouteAssumption

LEMMA FirstStarFacts ==
  ASSUME ConfigOK, NEW is \in SUBSET DOMAIN Named, is # {}
  PROVE  \E k \in is : FirstStar(is) = Owner(Named[k][1])
<1>1. is \in SUBSET Nat
  BY NamedFacts
<1>2. PICK k \in is : \A j \in is : k <= j
  BY <1>1, LeastNatural
<1> QED
  BY <1>2 DEF FirstStar

\* A domain that is found is the owner of a name that is exact, or a star that fits
LEMMA DomainOfFacts ==
  ASSUME ConfigOK, NEW name, NEW port, DomainOf(name, port) # Nothing
  PROVE  \E i \in DOMAIN Named :
           /\ DomainOf(name, port) = Owner(Named[i][1])
           /\ IF IsExact(name, port) THEN Named[i][1] = [wild |-> FALSE, name |-> name]
                                     ELSE i \in Stars(name, port)
<1>1. CASE IsExact(name, port)
  BY <1>1 DEF DomainOf, IsExact
<1>2. CASE ~IsExact(name, port)
  <2>1. Stars(name, port) # {} /\ DomainOf(name, port) = FirstStar(Stars(name, port))
    BY <1>2 DEF DomainOf
  <2>2. Stars(name, port) \in SUBSET DOMAIN Named
    BY DEF Stars
  <2> QED
    BY <1>2, <2>1, <2>2, FirstStarFacts
<1> QED
  BY <1>1, <1>2

LEMMA DomainIsEntry ==
  ASSUME ConfigOK, NEW c, Domain(c) # Nothing
  PROVE  Domain(c) \in DOMAIN config.entries
<1>1. ASSUME NEW name, NEW port, DomainOf(name, port) # Nothing
      PROVE  DomainOf(name, port) \in DOMAIN config.entries
  <2>1. PICK i \in DOMAIN Named : DomainOf(name, port) = Owner(Named[i][1])
    BY <1>1, DomainOfFacts
  <2> QED
    BY <2>1, OwnerFacts
<1>2. \/ Domain(c) = DomainOf(c.host, c.port)
      \/ Domain(c) = DomainOf(c.sni, FALSE)
      \/ Domain(c) = DomainOf(c.host, FALSE)
  BY DEF Domain
<1>3. CASE Domain(c) = DomainOf(c.host, c.port)
  <2>1. DomainOf(c.host, c.port) # Nothing
    BY <1>3
  <2> QED
    BY <1>1, <1>3, <2>1
<1>4. CASE Domain(c) = DomainOf(c.sni, FALSE)
  <2>1. DomainOf(c.sni, FALSE) # Nothing
    BY <1>4
  <2> QED
    BY <1>1, <1>4, <2>1
<1>5. CASE Domain(c) = DomainOf(c.host, FALSE)
  <2>1. DomainOf(c.host, FALSE) # Nothing
    BY <1>5
  <2> QED
    BY <1>1, <1>5, <2>1
<1> QED
  BY <1>2, <1>3, <1>4, <1>5

LEMMA RouteIsOfEntry ==
  ASSUME ConfigOK, NEW c, RouteFor(c) # Nothing
  PROVE  /\ RouteFor(c) \in AllRoutes
         /\ RouteFor(c).root \in Root \cup {Nothing}
         /\ RouteFor(c).tryFiles \in Seq(ToSet(RouteFor(c).tryFiles)) /\ RouteFor(c).tryFiles # <<>>
         /\ \A t \in ToSet(RouteFor(c).tryFiles) : t.status \in Nat
<1> DEFINE e == Domain(c)
           d == config.entries[e]
           is == {i \in DOMAIN d.routes : RouteFits(d.routes[i], c)}
<1>1. e # Nothing /\ e \in DOMAIN config.entries
  BY DomainIsEntry DEF RouteFor
<1>2. RouteFor(c) = RouteOf(d, c)
  BY <1>1 DEF RouteFor, Entry
<1>3. is # {} /\ RouteOf(d, c) = d.routes[CHOOSE i \in is : \A j \in is : i <= j]
  BY <1>2 DEF RouteOf
<1>4. is \in SUBSET Nat
  <2>1. d.routes \in Seq(ToSet(d.routes))
    BY <1>1 DEF ConfigOK, EntryOK
  <2>2. DOMAIN d.routes = 1..Len(d.routes)
    BY <2>1, LenProperties
  <2> QED
    BY <2>2
<1>5. PICK k \in is : \A j \in is : k <= j
  <2> HIDE DEF is
  <2> QED
    BY <1>3, <1>4, LeastNatural
<1>6. RouteFor(c) \in ToSet(d.routes)
  <2> DEFINE m == CHOOSE i \in is : \A j \in is : i <= j
  <2>1. m \in is
    <3> HIDE DEF is
    <3> QED
      BY <1>5
  <2>2. RouteFor(c) = d.routes[m] /\ m \in DOMAIN d.routes
    BY <1>2, <1>3, <2>1
  <2> QED
    BY <2>2 DEF ToSet
<1>7. RouteFor(c) \in AllRoutes
  BY <1>1, <1>6 DEF AllRoutes
<1> QED
  BY <1>1, <1>6, <1>7 DEF ConfigOK, EntryOK

----------------------------------------------------------------------------
(* Names and stars *)

OneStar ==
  \A e \in DOMAIN config.entries : \A i, j \in DOMAIN config.entries[e].hosts :
    config.entries[e].hosts[i].wild /\ config.entries[e].hosts[j].wild => i = j

\* With one star in each entry, starName of an entry is the star that it owns
LEMMA StarNameFacts ==
  ASSUME ConfigOK, OneStar, NEW i \in DOMAIN Named, FirstNamed(i), Named[i][1].wild
  PROVE  StarName(Owner(Named[i][1])) = Named[i][1].name
<1> DEFINE e == Owner(Named[i][1])
           is == {k \in DOMAIN Named : FirstNamed(k) /\ Named[k][1].wild /\ Owner(Named[k][1]) = e}
           m == CHOOSE k \in is : \A j \in is : j <= k
<1>1. m \in is
  <2>1. is # {} /\ is \in SUBSET (1..Len(Named))
    BY NamedFacts
  <2> HIDE DEF is
  <2> QED
    BY <2>1, NamedFacts, GreatestNatural
<1>2. StarName(e) = Named[m][1].name
  BY DEF StarName
<1> HIDE DEF m
<1>3. ASSUME NEW k \in is
      PROVE  /\ e \in DOMAIN config.entries
             /\ \E h \in DOMAIN config.entries[e].hosts :
                  config.entries[e].hosts[h] = Named[k][1] /\ Named[k][1].wild
  <2>1. PICK j \in DOMAIN Named : Named[j] = <<Named[k][1], e>>
    BY OwnerFacts
  <2>2. PICK f \in DOMAIN config.entries : \E h \in DOMAIN config.entries[f].hosts :
          Named[j] = <<config.entries[f].hosts[h], f>>
    BY NamedFacts
  <2>3. f = e /\ \E h \in DOMAIN config.entries[f].hosts : config.entries[f].hosts[h] = Named[k][1]
    <3> HIDE DEF e
    <3> QED
      BY <2>1, <2>2
  <2> QED
    BY <2>2, <2>3
<1>4. i \in is
  OBVIOUS
<1>5. PICK h \in DOMAIN config.entries[e].hosts :
        config.entries[e].hosts[h] = Named[m][1] /\ Named[m][1].wild
  BY <1>1, <1>3
<1>6. PICK g \in DOMAIN config.entries[e].hosts :
        config.entries[e].hosts[g] = Named[i][1] /\ Named[i][1].wild
  BY <1>4, <1>3
<1>7. h = g
  <2> HIDE DEF e
  <2>1. e \in DOMAIN config.entries
    BY <1>3, <1>4
  <2> QED
    BY <1>5, <1>6, <2>1 DEF OneStar
<1> QED
  BY <1>2, <1>5, <1>6, <1>7

\* Each name has a first place
LEMMA FirstPlace ==
  ASSUME ConfigOK, NEW i \in DOMAIN Named
  PROVE  \E f \in DOMAIN Named : Named[f][1] = Named[i][1] /\ FirstNamed(f)
<1> DEFINE is == {k \in DOMAIN Named : Named[k][1] = Named[i][1]}
<1>1. PICK f \in is : \A k \in is : f <= k
  <2>1. is # {} /\ is \in SUBSET Nat
    BY NamedFacts
  <2> HIDE DEF is
  <2> QED
    BY <2>1, LeastNatural
<1>2. FirstNamed(f)
  <2>1. ASSUME NEW j \in 1..(f - 1) PROVE Named[j][1] # Named[f][1]
    <3>1. f \in 1..Len(Named) /\ Len(Named) \in Nat
      BY NamedFacts
    <3>2. j \in DOMAIN Named /\ j < f
      BY <3>1, NamedFacts
    <3>3. j \notin is
      BY <1>1, <3>1, <3>2, NamedFacts
    <3> QED
      BY <1>1, <3>2, <3>3
  <2> QED
    BY <2>1 DEF FirstNamed
<1> QED
  BY <1>1, <1>2

LEMMA NamedIsAlwaysFound == ConfigOK => NamedIsFound
<1> SUFFICES ASSUME ConfigOK, call # Nothing, OneStar,
                    NEW i \in DOMAIN Named, NameFits(Named[i][1], call)
             PROVE  \E j \in DOMAIN Named :
                      /\ Named[j][2] = Domain(call) /\ NameFits(Named[j][1], call)
                      /\ ~Named[i][1].wild => ~Named[j][1].wild
  BY DEF NamedIsFound, OneStar
<1> DEFINE exact == [wild |-> FALSE, name |-> call.host]
<1>1. ~Named[i][1].wild => IsExact(call.host, call.port)
  <2>1. PICK e \in DOMAIN config.entries : \E k \in DOMAIN config.entries[e].hosts :
          Named[i] = <<config.entries[e].hosts[k], e>>
    BY NamedFacts
  <2>2. /\ Named[i][1].wild \in BOOLEAN
        /\ Named[i][1] = [wild |-> Named[i][1].wild, name |-> Named[i][1].name]
    <3>1. EntryOK(config.entries[e])
      BY DEF ConfigOK
    <3>2. PICK k \in DOMAIN config.entries[e].hosts : Named[i] = <<config.entries[e].hosts[k], e>>
      BY <2>1
    <3>3. config.entries[e].hosts[k] \in ToSet(config.entries[e].hosts)
      BY DEF ToSet
    <3>4. Named[i][1] = config.entries[e].hosts[k]
      BY <3>2
    <3> HIDE DEF EntryOK
    <3>5. LET h == config.entries[e].hosts[k] IN
            h.wild \in BOOLEAN /\ h = [wild |-> h.wild, name |-> h.name]
      BY <3>1, <3>3, Zenon DEF EntryOK
    <3> QED
      BY <3>4, <3>5, Zenon
  <2>3. SUFFICES ASSUME ~Named[i][1].wild PROVE IsExact(call.host, call.port)
    OBVIOUS
  <2>4. ~call.port /\ Named[i][1].name = call.host
    BY <2>3 DEF NameFits
  <2>5. Named[i][1].wild = FALSE
    BY <2>2, <2>3
  <2>6. Named[i][1] = exact
    BY <2>2, <2>4, <2>5
  <2> QED
    BY <2>4, <2>6 DEF IsExact
<1>2. Named[i][1].wild /\ ~IsExact(call.host, call.port) => Stars(call.host, call.port) # {}
  <2> SUFFICES ASSUME Named[i][1].wild PROVE Stars(call.host, call.port) # {}
    OBVIOUS
  <2>1. PICK f \in DOMAIN Named : Named[f][1] = Named[i][1] /\ FirstNamed(f)
    BY FirstPlace
  <2>2. StarName(Owner(Named[f][1])) = Named[f][1].name
    BY <2>1, StarNameFacts
  <2>3. Ends(Named[f][1].name, call.host, call.port)
    BY <2>1 DEF NameFits
  <2>4. f \in Stars(call.host, call.port)
    BY <2>1, <2>2, <2>3 DEF Stars
  <2> QED
    BY <2>4
<1>3. DomainOf(call.host, call.port) # Nothing
  <2>1. CASE IsExact(call.host, call.port)
    <3>1. PICK k \in DOMAIN Named : Named[k][1] = exact
      BY <2>1 DEF IsExact
    <3> QED
      BY <2>1, <3>1, OwnerFacts DEF DomainOf
  <2>2. CASE ~IsExact(call.host, call.port)
    <3>1. Stars(call.host, call.port) # {}
      BY <1>1, <1>2, <2>2
    <3>2. Stars(call.host, call.port) \in SUBSET DOMAIN Named
      BY DEF Stars
    <3> QED
      BY <2>2, <3>1, <3>2, FirstStarFacts, OwnerFacts DEF DomainOf
  <2> QED
    BY <2>1, <2>2
<1>4. PICK k \in DOMAIN Named :
        /\ DomainOf(call.host, call.port) = Owner(Named[k][1])
        /\ IF IsExact(call.host, call.port) THEN Named[k][1] = exact
                                            ELSE k \in Stars(call.host, call.port)
  BY <1>3, DomainOfFacts
<1>5. Domain(call) = Owner(Named[k][1])
  BY <1>3, <1>4 DEF Domain
<1>6. PICK j \in DOMAIN Named : Named[j] = <<Named[k][1], Owner(Named[k][1])>>
  BY OwnerFacts
<1>7. Named[j][1] = Named[k][1] /\ Named[j][2] = Domain(call)
  BY <1>5, <1>6
<1>8. CASE IsExact(call.host, call.port)
  <2>1. ~call.port
    BY <1>8 DEF IsExact
  <2>2. ~Named[j][1].wild /\ Named[j][1].name = call.host
    BY <1>4, <1>7, <1>8
  <2> QED
    BY <1>7, <2>1, <2>2 DEF NameFits
<1>9. CASE ~IsExact(call.host, call.port)
  <2>1. /\ FirstNamed(k) /\ Named[k][1].wild
        /\ Ends(StarName(Owner(Named[k][1])), call.host, call.port)
    BY <1>4, <1>9 DEF Stars
  <2>2. StarName(Owner(Named[k][1])) = Named[k][1].name
    BY <2>1, StarNameFacts
  <2> QED
    BY <1>1, <1>7, <1>9, <2>1, <2>2 DEF NameFits
<1> QED
  BY <1>8, <1>9

----------------------------------------------------------------------------
(* The cache of directories *)

\* With a status for the first name no directory is looked at
LEMMA StatusFirst ==
  ASSUME NEW r, NEW c, r.tryFiles \in Seq(ToSet(r.tryFiles)), r.tryFiles # <<>>,
         r.tryFiles[1].status \in Nat, r.tryFiles[1].status > 0,
         NEW index
  PROVE  FromFiles(r, index, c) = <<"status", r.tryFiles[1].status>>
<1> DEFINE is == {i \in DOMAIN r.tryFiles : Tried(r, index, c, r.tryFiles[i]) # Nothing}
<1>1. DOMAIN r.tryFiles = 1..Len(r.tryFiles) /\ 1 \in DOMAIN r.tryFiles
  BY LenProperties, EmptySeq
<1>2. Tried(r, index, c, r.tryFiles[1]) = <<"status", r.tryFiles[1].status>>
  BY DEF Tried
<1>3. <<"status", r.tryFiles[1].status>> # Nothing
  BY LegacyRouteAssumption DEF LegacyRouteAssumption
<1>4. 1 \in is /\ \A j \in is : 1 <= j
  BY <1>1, <1>2, <1>3
<1> HIDE DEF is
<1>5. (CHOOSE i \in is : \A j \in is : i <= j) = 1
  <2>1. \A i \in is : i \in Nat /\ i >= 1
    BY <1>1 DEF is
  <2> DEFINE m == CHOOSE i \in is : \A j \in is : i <= j
  <2>2. m \in is /\ \A j \in is : m <= j
    BY <1>4
  <2> HIDE DEF m
  <2>3. m <= 1 /\ m \in Nat /\ m >= 1
    BY <1>4, <2>1, <2>2
  <2> QED
    BY <2>3 DEF m
<1> QED
  BY <1>2, <1>4, <1>5 DEF FromFiles, is

SharedAlike == \A r, s \in AllRoutes : r.root = s.root => r.index = s.index

\* The answer to a call of which q is known
Expected(c, q) ==
  LET r == RouteFor(c)
  IN IF ~Admits(config.acl, c.ip) THEN "reset"
     ELSE Outcome(Entry(Domain(c)), r, IF r = Nothing THEN Nothing ELSE r.index, q)

\* A directory was opened for some route that has it
DirsOfRoutes ==
  /\ DOMAIN dirs = Root
  /\ \A root \in Root : dirs[root] # Nothing =>
       \E r \in AllRoutes : r.root = root /\ r.index = dirs[root]

HistoryInv ==
  /\ config \in Configs /\ DirsOfRoutes /\ consumers = shown
  /\ call # Nothing /\ SharedAlike => reply = Expected(call, Known(call))

LEMMA ConfigFixed ==
  ASSUME config' = config
  PROVE  /\ AllRoutes' = AllRoutes /\ SharedAlike' = SharedAlike
         /\ \A c, q : Expected(c, q)' = Expected(c, q)
<1>0. Named' = Named
  BY DEF Named
<1>1. \A n : Owner(n)' = Owner(n)
  BY <1>0 DEF Owner
<1>2. \A i : FirstNamed(i)' = FirstNamed(i)
  BY <1>0 DEF FirstNamed
<1>3. \A e : StarName(e)' = StarName(e)
  BY <1>0, <1>1, <1>2 DEF StarName
<1>4. \A n, p : IsExact(n, p)' = IsExact(n, p)
  BY <1>0 DEF IsExact
<1>5. \A n, p : Stars(n, p)' = Stars(n, p)
  BY <1>0, <1>1, <1>2, <1>3 DEF Stars
<1>6. \A is : FirstStar(is)' = FirstStar(is)
  BY <1>0, <1>1 DEF FirstStar
<1>7. \A n, p : DomainOf(n, p)' = DomainOf(n, p)
  BY <1>1, <1>4, <1>5, <1>6 DEF DomainOf
<1>8. \A c : Domain(c)' = Domain(c)
  BY <1>7 DEF Domain
<1>9. \A e : Entry(e)' = Entry(e)
  BY DEF Entry
<1>10. \A c : RouteFor(c)' = RouteFor(c)
  BY <1>8, <1>9 DEF RouteFor
<1>11. AllRoutes' = AllRoutes
  BY DEF AllRoutes
<1>12. SharedAlike' = SharedAlike
  BY <1>11 DEF SharedAlike
<1>13. \A c, q : Expected(c, q)' = Expected(c, q)
  BY <1>8, <1>9, <1>10 DEF Expected
<1> QED
  BY <1>11, <1>12, <1>13

\* What a call brings is known of it, whether or not it is noted for later ones
LEMMA ShownIsKnown ==
  ASSUME HistoryInv, NEW c \in Calls, Serve(c), Admits(config.acl, c.ip)
  PROVE  Identified(c) = Known(c)'
<1>1. shown' = IF c.consumer THEN shown \cup ({c.over} \cap Connection) ELSE shown
  BY DEF Serve
<1>2. c.consumer \in BOOLEAN /\ consumers = shown
  BY LegacyRouteAssumption DEF LegacyRouteAssumption, HistoryInv
<1>3. (c.consumer \/ c.over \in consumers) = (c.consumer \/ c.over \in shown')
  BY <1>1, <1>2
<1> QED
  BY <1>3 DEF Identified, Known

LEMMA ServeAnswers ==
  ASSUME HistoryInv, NEW c \in Calls, Serve(c)
  PROVE  HistoryInv'
<1> DEFINE r == RouteFor(c)
           d == Entry(Domain(c))
           q == Identified(c)
           served == IF Serves(d, r, q) THEN dirs'[DirKey(r.root)] ELSE Nothing
<1>1. config' = config /\ call' = c /\ ConfigOK
  BY ConfigsAreOK DEF Serve, HistoryInv
<1>2. r # Nothing => /\ r \in AllRoutes /\ r.root \in Root \cup {Nothing}
                     /\ r.tryFiles \in Seq(ToSet(r.tryFiles)) /\ r.tryFiles # <<>>
                     /\ r.tryFiles[1].status \in Nat
  <2>1. SUFFICES ASSUME r # Nothing
                 PROVE  /\ r \in AllRoutes /\ r.root \in Root \cup {Nothing}
                        /\ r.tryFiles \in Seq(ToSet(r.tryFiles)) /\ r.tryFiles # <<>>
                        /\ r.tryFiles[1].status \in Nat
    OBVIOUS
  <2>2. /\ r \in AllRoutes /\ r.root \in Root \cup {Nothing}
        /\ r.tryFiles \in Seq(ToSet(r.tryFiles)) /\ r.tryFiles # <<>>
        /\ \A t \in ToSet(r.tryFiles) : t.status \in Nat
    BY <1>1, <2>1, RouteIsOfEntry
  <2> HIDE DEF r
  <2>3. r.tryFiles[1] \in ToSet(r.tryFiles)
    BY <2>2, LenProperties, EmptySeq DEF ToSet
  <2> QED
    BY <2>2, <2>3
<1> HIDE DEF r, d, q
<1>3. CASE ~Admits(config.acl, c.ip)
  <2>1. reply' = "reset" /\ UNCHANGED <<dirs, consumers, shown>>
    BY <1>3 DEF Serve
  <2>2. \A known : Expected(c, known) = "reset"
    BY <1>3 DEF Expected
  <2> QED
    BY <1>1, <2>1, <2>2, ConfigFixed DEF HistoryInv, DirsOfRoutes
<1>4. CASE Admits(config.acl, c.ip)
  <2>1. /\ dirs' = IF Opens(d, r, q) THEN [dirs EXCEPT ![r.root] = r.index] ELSE dirs
        /\ reply' = Outcome(d, r, served, q)
    BY <1>4 DEF Serve, DirKey, r, d, q
  <2>2. DirsOfRoutes'
    <3>1. CASE Opens(d, r, q)
      <4>1. r # Nothing /\ r.root \in Root
        BY <1>2, <3>1 DEF Opens, Serves
      <4>2. dirs' = [dirs EXCEPT ![r.root] = r.index]
        BY <2>1, <3>1
      <4>3. r \in AllRoutes
        BY <1>2, <4>1
      <4>4. AllRoutes' = AllRoutes
        BY <1>1, ConfigFixed
      <4> QED
        BY <4>1, <4>2, <4>3, <4>4 DEF HistoryInv, DirsOfRoutes
    <3>2. CASE ~Opens(d, r, q)
      BY <1>1, <2>1, <3>2, ConfigFixed DEF HistoryInv, DirsOfRoutes
    <3> QED
      BY <3>1, <3>2
  <2>3. ASSUME SharedAlike PROVE reply' = Expected(c, q)
    <3>0. Expected(c, q) = Outcome(d, r, IF r = Nothing THEN Nothing ELSE r.index, q)
      BY <1>4 DEF Expected, r, d
    <3>1. CASE ~Serves(d, r, q)
      BY <2>1, <3>0, <3>1 DEF Outcome
    <3>2. CASE Serves(d, r, q)
      <4>1. r # Nothing /\ r.root \in Root
        BY <1>2, <3>2 DEF Serves
      <4>2. served = dirs'[r.root]
        BY <3>2 DEF DirKey
      <4> HIDE DEF served
      <4>3. CASE Opens(d, r, q)
        <5>1. dirs'[r.root] = r.index
          BY <2>1, <4>1, <4>3 DEF HistoryInv, DirsOfRoutes
        <5> QED
          BY <2>1, <3>0, <4>1, <4>2, <5>1
      <4>4. CASE ~Opens(d, r, q) /\ dirs[r.root] # Nothing
        <5>1. PICK s \in AllRoutes : s.root = r.root /\ s.index = dirs[r.root]
          BY <4>1, <4>4 DEF HistoryInv, DirsOfRoutes
        <5>2. dirs'[r.root] = r.index
          BY <1>2, <2>1, <2>3, <4>1, <4>4, <5>1 DEF SharedAlike
        <5> QED
          BY <2>1, <3>0, <4>1, <4>2, <5>2
      <4>5. CASE ~Opens(d, r, q) /\ dirs[r.root] = Nothing
        <5>1. r.tryFiles[1].status # 0
          BY <3>2, <4>5 DEF Opens, Index, DirKey
        <5>2. r.tryFiles[1].status > 0
          BY <1>2, <4>1, <5>1
        <5>3. FromFiles(r, served, q) = FromFiles(r, r.index, q)
          BY <1>2, <4>1, <5>2, StatusFirst
        <5>4. Outcome(d, r, served, q) = FromFiles(r, served, q)
          BY <3>2 DEF Outcome, Serves
        <5>5. Outcome(d, r, r.index, q) = FromFiles(r, r.index, q)
          BY <3>2 DEF Outcome, Serves
        <5> QED
          BY <2>1, <3>0, <4>1, <5>3, <5>4, <5>5
      <4> QED
        BY <4>3, <4>4, <4>5
    <3> QED
      BY <3>1, <3>2
  <2>4. consumers' = shown'
    BY <1>4 DEF Serve, Noted, HistoryInv
  <2>5. q = Known(c)'
    BY <1>4, ShownIsKnown DEF q
  <2> QED
    BY <1>1, <2>2, <2>3, <2>4, <2>5, ConfigFixed DEF HistoryInv
<1> QED
  BY <1>3, <1>4

LEMMA HistoryStarts == RouteInit => HistoryInv
BY DEF RouteInit, HistoryInv, DirsOfRoutes

LEMMA HistoryKeeps == HistoryInv /\ [RouteNext]_routeVars => HistoryInv'
<1> SUFFICES ASSUME HistoryInv, [RouteNext]_routeVars PROVE HistoryInv'
  OBVIOUS
<1>1. ASSUME NEW c \in Calls, Serve(c) PROVE HistoryInv'
  BY <1>1, ServeAnswers
<1>2. CASE Done
  BY <1>2, ConfigFixed DEF Done, HistoryInv, DirsOfRoutes
<1>3. ASSUME NEW root \in Root, Forget(root) PROVE HistoryInv'
  <2>1. dirs' = [dirs EXCEPT ![root] = Nothing] /\ UNCHANGED <<config, consumers, shown, call, reply>>
    BY <1>3 DEF Forget
  <2>2. /\ AllRoutes' = AllRoutes /\ SharedAlike' = SharedAlike
        /\ \A c, q : Expected(c, q)' = Expected(c, q)
    BY <2>1, ConfigFixed
  <2>3. DirsOfRoutes'
    BY <2>1, <2>2 DEF HistoryInv, DirsOfRoutes
  <2> QED
    BY <2>1, <2>2, <2>3 DEF HistoryInv, Known
<1>4. ASSUME NEW k \in Connection, Close(k) PROVE HistoryInv'
  <2>1. /\ UNCHANGED <<config, dirs>>
        /\ consumers' = consumers \ {k} /\ shown' = shown \ {k}
    BY <1>4 DEF Close
  <2>2. DirsOfRoutes' /\ consumers' = shown'
    BY <2>1, ConfigFixed DEF HistoryInv, DirsOfRoutes
  <2>3. ASSUME call' # Nothing, SharedAlike' PROVE reply' = Expected(call, Known(call))' 
    <3>1. call' = call /\ reply' = reply /\ call.over # k
      BY <1>4, <2>3 DEF Close
    <3>2. (call.over \in shown') = (call.over \in shown)
      BY <2>1, <3>1
    <3>3. Known(call)' = Known(call)
      BY <3>1, <3>2 DEF Known
    <3> QED
      BY <2>1, <2>3, <3>1, <3>3, ConfigFixed DEF HistoryInv
  <2> QED
    BY <2>1, <2>2, <2>3 DEF HistoryInv
<1>5. CASE UNCHANGED routeVars
  BY <1>5, ConfigFixed DEF routeVars, HistoryInv, DirsOfRoutes, Known
<1> QED
  BY <1>1, <1>2, <1>3, <1>4, <1>5 DEF RouteNext

(* While routes that share a root also share its index files, the cache of  *)
(* directories of the legacy gateway (dirCache, server/web-server.js) never *)
(* shows: the answer to a call depends on the call and on the credentials   *)
(* that came over its TLS connection (http/auth.js), whatever else was      *)
(* asked before and whatever was dropped from the cache.                    *)
THEOREM AlwaysHistoryFree == RouteSpec => []HistoryFree
<1>1. HistoryInv => HistoryFree
  BY DEF HistoryInv, HistoryFree, SharedAlike, Expected
<1> QED
  BY <1>1, HistoryStarts, HistoryKeeps, PTL DEF RouteSpec

(* Where no entry names two stars, a call whose host is named is served by  *)
(* an entry that names it, and by one that names it in full if there is one *)
(* (makeMatchDomainHandler), though the stars of an entry are written over  *)
(* each other and a name that comes twice belongs to the last entry.        *)
THEOREM NamedAlwaysFound == RouteSpec => []NamedIsFound
<1>1. HistoryInv => NamedIsFound
  BY ConfigsAreOK, NamedIsAlwaysFound DEF HistoryInv
<1> QED
  BY <1>1, HistoryStarts, HistoryKeeps, PTL DEF RouteSpec

----------------------------------------------------------------------------
(* The selections that are kept for Dubbo calls *)

\* Of the body of a call, the rules see no more than its key
LEMMA KeyDecides ==
  ASSUME NEW b \in Bodies, NEW c \in Bodies, Key(b) = Key(c), NEW k \in 1..4
  PROVE  b[k + 1] = c[k + 1]
<1>1. ASSUME NEW d \in Bodies PROVE Key(d)[k] = d[k + 1]
  <2> DEFINE S == {d[j] : j \in 1..5}
  <2>1. d \in Seq(S) /\ Len(d) = 5
    BY DubboAssumption DEF DubboAssumption
  <2> HIDE DEF S
  <2> QED
    BY <2>1 DEF Key
<1> QED
  BY <1>1

LEMMA AnswersAlike ==
  ASSUME matches \in RuleSets, NEW i \in DOMAIN matches,
         NEW b \in Bodies, NEW c \in Bodies, Key(b) = Key(c)
  PROVE  Answers(matches[i], b) <=> Answers(matches[i], c)
<1>1. \A k \in DOMAIN matches[i].patterns : b[k + 1] = c[k + 1]
  BY DubboAssumption, KeyDecides DEF DubboAssumption
<1> QED
  BY <1>1 DEF Answers

LEMMA SelectedAlike ==
  ASSUME matches \in RuleSets, NEW b \in Bodies, NEW c \in Bodies, Key(b) = Key(c)
  PROVE  Selections(b) = Selections(c)
<1> DEFINE fit(d) == {i \in DOMAIN matches : Answers(matches[i], d)}
<1>1. fit(b) = fit(c)
  BY AnswersAlike
<1>2. Found(b) = Found(c)
  <2> DEFINE best(F) == IF F = {} THEN Unset
                        ELSE CHOOSE i \in F : \A j \in F \ {i} :
                               \/ Precedes(Priority(matches[i]), Priority(matches[j]))
                               \/ Priority(matches[i]) = Priority(matches[j]) /\ i < j
  <2>1. Found(b) = best(fit(b)) /\ Found(c) = best(fit(c))
    BY DEF Found
  <2> HIDE DEF best, fit
  <2> QED
    BY <1>1, <2>1
<1> QED
  BY <1>2 DEF Selections

DubboInv == matches \in RuleSets /\ DOMAIN kept = Keys /\ KeptIsSelected

LEMMA HandleKeeps ==
  ASSUME DubboInv, NEW b \in Bodies, Handle(b)
  PROVE  DubboInv'
<1> USE DEF DubboInv
<1>1. /\ matches' = matches /\ kept' = [kept EXCEPT ![Key(b)] = chosen']
      /\ chosen' \in (IF kept[Key(b)] # Unset THEN {kept[Key(b)]} ELSE Selections(b))
  BY DEF Handle
<1>2. chosen' # Unset => chosen' \in Selections(b)
  BY <1>1 DEF KeptIsSelected
<1>3. ASSUME NEW c \in Bodies, kept'[Key(c)] # Unset
      PROVE  kept'[Key(c)] \in Selections(c)
  <2>1. Key(c) \in Keys
    BY DEF Keys
  <2>2. CASE Key(c) = Key(b)
    <3>1. kept'[Key(c)] = chosen' /\ chosen' # Unset
      BY <1>1, <1>3, <2>1, <2>2
    <3>2. Selections(b) = Selections(c)
      BY <2>2, SelectedAlike
    <3> QED
      BY <1>2, <3>1, <3>2
  <2>3. CASE Key(c) # Key(b)
    BY <1>1, <1>3, <2>1, <2>3 DEF KeptIsSelected
  <2> QED
    BY <2>2, <2>3
<1>4. \A c : Selections(c)' = Selections(c)
  BY <1>1 DEF Selections, Found
<1> QED
  BY <1>1, <1>3, <1>4 DEF KeptIsSelected

LEMMA DubboStarts == DubboInit => DubboInv
<1>1. DubboInit => \A b \in Bodies : kept[Key(b)] = Unset
  BY DEF DubboInit, Keys
<1> QED
  BY <1>1 DEF DubboInit, DubboInv, KeptIsSelected

LEMMA DubboKeeps ==
  ASSUME DubboInv, [DubboNext]_dubboVars
  PROVE  DubboInv'
<1>1. CASE UNCHANGED <<matches, kept>>
  <2>1. \A b : Selections(b)' = Selections(b)
    BY <1>1 DEF Selections, Found
  <2> QED
    BY <1>1, <2>1 DEF DubboInv, KeptIsSelected
<1>2. ASSUME NEW b \in Bodies, Handle(b) PROVE DubboInv'
  BY <1>2, HandleKeeps
<1>3. ASSUME NEW rs \in RuleSets, UpdateRules(rs) PROVE DubboInv'
  <2>1. matches' \in RuleSets /\ kept' = [k \in Keys |-> Unset]
    BY <1>3 DEF UpdateRules
  <2>2. \A b \in Bodies : Key(b) \in Keys
    BY DEF Keys
  <2>3. \A b \in Bodies : kept'[Key(b)] = Unset
    BY <2>1, <2>2
  <2>4. DOMAIN kept' = Keys
    BY <2>1
  <2>5. KeptIsSelected'
    BY <2>3 DEF KeptIsSelected
  <2> QED
    BY <2>1, <2>4, <2>5 DEF DubboInv
<1>4. ASSUME NEW k \in Keys, Outdate(k) PROVE DubboInv'
  <2>1. matches' = matches /\ kept' = [kept EXCEPT ![k] = Unset]
    BY <1>4 DEF Outdate
  <2>2. \A b \in Bodies : Key(b) \in Keys
    BY DEF Keys
  <2>3. \A b \in Bodies : kept'[Key(b)] # Unset => kept'[Key(b)] = kept[Key(b)]
    BY <2>1, <2>2 DEF DubboInv
  <2>4. \A b : Selections(b)' = Selections(b)
    BY <2>1 DEF Selections, Found
  <2> QED
    BY <2>1, <2>3, <2>4 DEF DubboInv, KeptIsSelected
<1>5. CASE Reply404OrForward \/ UNCHANGED dubboVars
  BY <1>1, <1>5 DEF Reply404OrForward, dubboVars
<1> QED
  BY <1>2, <1>3, <1>4, <1>5 DEF DubboNext

(* No Dubbo call is sent by a selection that was not made for it: what the  *)
(* cache of a router holds is always an answer of its present rules to      *)
(* every call of that key (router-dubbo.js: the cache, update of its rules).   *)
THEOREM KeptAlwaysSelected == DubboSpec => []KeptIsSelected
<1>1. DubboInv => KeptIsSelected
  BY DEF DubboInv
<1> QED
  BY <1>1, DubboStarts, DubboKeeps, PTL DEF DubboSpec

\* What the assumption says of the matches of the present routes
LEMMA DubboMatches ==
  ASSUME matches \in RuleSets
  PROVE  /\ DOMAIN matches = 1..Len(matches) /\ Len(matches) \in Nat
         /\ \A i \in DOMAIN matches :
              /\ matches[i].type \in {"Exact", "RegularExpression", "none"}
              /\ \A k \in DOMAIN matches[i].patterns : matches[i].patterns[k].weight \in Nat
<1> DEFINE S == {matches[i] : i \in DOMAIN matches}
<1>1. matches \in Seq(S)
  BY DubboAssumption DEF DubboAssumption
<1>2. DOMAIN matches = 1..Len(matches) /\ Len(matches) \in Nat
  <2> HIDE DEF S
  <2> QED
    BY <1>1, LenProperties
<1> QED
  BY <1>2, DubboAssumption DEF DubboAssumption

\* A priority is five numbers
LEMMA PriorityFacts ==
  ASSUME matches \in RuleSets, NEW i \in DOMAIN matches
  PROVE  /\ Priority(matches[i]) \in Seq(Nat) /\ DOMAIN Priority(matches[i]) = 1..5
         /\ \A k \in 1..5 : Priority(matches[i])[k] \in Nat
<1> DEFINE m == matches[i]
           head == CASE m.type = "Exact" -> 3 [] m.type = "RegularExpression" -> 1 [] OTHER -> 0
           tail == [k \in 1..4 |-> Weight(m, k)]
<1>1. \A k \in 1..4 : Weight(m, k) \in Nat
  BY DubboMatches DEF Weight
<1>2. tail \in Seq(Nat) /\ Len(tail) = 4
  <2>1. tail \in [1..4 -> Nat] /\ DOMAIN tail = 1..4
    BY <1>1
  <2> HIDE DEF tail
  <2>2. tail \in Seq(Nat)
    BY <2>1, SeqDef
  <2> QED
    BY <2>1, <2>2, LenProperties
<1>3. head \in Nat
  BY DubboMatches
<1>4. Priority(m) = <<head>> \o tail
  BY DEF Priority
<1> HIDE DEF head, tail, m
<1> DEFINE one == <<head>>
<1>5. one \in Seq(Nat) /\ Len(one) = 1 /\ Priority(m) = one \o tail
  BY <1>3, <1>4
<1> HIDE DEF one
<1>6. Priority(m) \in Seq(Nat) /\ Len(Priority(m)) = 5
  <2>1. Len(one \o tail) = Len(one) + Len(tail) /\ one \o tail \in Seq(Nat)
    BY <1>2, <1>5, ConcatProperties
  <2> QED
    BY <2>1, <1>2, <1>5
<1>7. \A k \in 1..5 : Priority(m)[k] \in Nat
  BY <1>6, ElementOfSeq
<1>8. DOMAIN Priority(m) = 1..5
  BY <1>6, LenProperties
<1> QED
  BY <1>6, <1>7, <1>8 DEF m

LEMMA PrecedesSpelled ==
  ASSUME NEW p, NEW q
  PROVE  Precedes(p, q) <=>
           \/ p[1] > q[1]
           \/ p[1] = q[1] /\ p[2] > q[2]
           \/ p[1] = q[1] /\ p[2] = q[2] /\ p[3] > q[3]
           \/ p[1] = q[1] /\ p[2] = q[2] /\ p[3] = q[3] /\ p[4] > q[4]
           \/ p[1] = q[1] /\ p[2] = q[2] /\ p[3] = q[3] /\ p[4] = q[4] /\ p[5] > q[5]
BY AboveSpelled DEF Above, Precedes

\* The order of the matches of a rule set: by priority, and then by their places
Before(i, j) ==
  \/ Precedes(Priority(matches[i]), Priority(matches[j]))
  \/ Priority(matches[i]) = Priority(matches[j]) /\ i < j

LEMMA BeforeOrders ==
  ASSUME matches \in RuleSets
  PROVE  /\ \A i, j \in DOMAIN matches : i = j \/ Before(i, j) \/ Before(j, i)
         /\ \A i, j, k \in DOMAIN matches : Before(i, j) /\ Before(j, k) => Before(i, k)
         /\ \A i, j \in DOMAIN matches :
              Before(i, j) => ~Precedes(Priority(matches[j]), Priority(matches[i]))
<1> DEFINE p(i) == Priority(matches[i])
<1>1. ASSUME NEW i \in DOMAIN matches
      PROVE  /\ p(i)[1] \in Nat /\ p(i)[2] \in Nat /\ p(i)[3] \in Nat /\ p(i)[4] \in Nat
             /\ p(i)[5] \in Nat /\ i \in Nat
  BY PriorityFacts, DubboMatches
<1>2. ASSUME NEW i \in DOMAIN matches, NEW j \in DOMAIN matches,
             p(i)[1] = p(j)[1], p(i)[2] = p(j)[2], p(i)[3] = p(j)[3], p(i)[4] = p(j)[4],
             p(i)[5] = p(j)[5]
      PROVE  p(i) = p(j)
  <2>1. /\ p(i) \in Seq(Nat) /\ p(j) \in Seq(Nat) /\ DOMAIN p(i) = 1..5 /\ DOMAIN p(j) = 1..5
    BY PriorityFacts
  <2> HIDE DEF p
  <2>2. \A k \in 1..5 : k \in {1, 2, 3, 4, 5}
    OBVIOUS
  <2>3. \A k \in 1..5 : p(i)[k] = p(j)[k]
    BY <1>2, <2>2
  <2>4. p(i) \in Seq(Nat) /\ p(j) \in Seq(Nat) /\ Len(p(i)) = 5 /\ Len(p(j)) = 5
    BY <2>1, LenProperties
  <2> QED
    BY <2>3, <2>4, SeqEqual
<1>3. \A i, j : Before(i, j) <=> Precedes(p(i), p(j)) \/ (p(i) = p(j) /\ i < j)
  BY DEF Before
<1> HIDE DEF p
<1>4. ASSUME NEW i \in DOMAIN matches, NEW j \in DOMAIN matches
      PROVE  i = j \/ Before(i, j) \/ Before(j, i)
  <2>1. Precedes(p(i), p(j)) \/ Precedes(p(j), p(i)) \/ p(i) = p(j)
    BY <1>1, <1>2, PrecedesSpelled
  <2> QED
    BY <1>1, <1>3, <2>1
<1>5. ASSUME NEW i \in DOMAIN matches, NEW j \in DOMAIN matches, NEW k \in DOMAIN matches,
             Precedes(p(i), p(j)), Precedes(p(j), p(k))
      PROVE  Precedes(p(i), p(k))
  BY <1>1, <1>5, PrecedesSpelled
<1>6. ASSUME NEW i \in DOMAIN matches, NEW j \in DOMAIN matches, NEW k \in DOMAIN matches,
             Before(i, j), Before(j, k)
      PROVE  Before(i, k)
  <2>1. CASE Precedes(p(i), p(j)) /\ Precedes(p(j), p(k))
    BY <1>3, <1>5, <2>1
  <2>2. CASE p(i) = p(j) /\ i < j /\ Precedes(p(j), p(k))
    BY <1>3, <2>2
  <2>3. CASE Precedes(p(i), p(j)) /\ p(j) = p(k) /\ j < k
    BY <1>3, <2>3
  <2>4. CASE p(i) = p(j) /\ i < j /\ p(j) = p(k) /\ j < k
    <3>1. i < k /\ p(i) = p(k)
      BY <1>1, <2>4
    <3> QED
      BY <1>3, <3>1
  <2> QED
    BY <1>3, <1>6, <2>1, <2>2, <2>3, <2>4
<1>7. ASSUME NEW i \in DOMAIN matches, NEW j \in DOMAIN matches, Before(i, j)
      PROVE  ~Precedes(p(j), p(i))
  <2>1. CASE Precedes(p(i), p(j))
    BY <1>1, <2>1, PrecedesSpelled
  <2>2. CASE p(i) = p(j)
    BY <1>1, <2>2, PrecedesSpelled
  <2> QED
    BY <1>3, <1>7, <2>1, <2>2
<1> QED
  BY <1>4, <1>6, <1>7 DEF p

\* The search finds the first in that order of all that answer the call
LEMMA FoundFacts ==
  ASSUME matches \in RuleSets, NEW b \in Bodies, Found(b) # Unset
  PROVE  /\ Found(b) \in DOMAIN matches /\ Answers(matches[Found(b)], b)
         /\ \A j \in DOMAIN matches : j # Found(b) /\ Answers(matches[j], b) => Before(Found(b), j)
<1> DEFINE fit == {i \in DOMAIN matches : Answers(matches[i], b)}
           R == {q \in fit \X fit : q[1] = q[2] \/ Before(q[1], q[2])}
<1>1. fit # {} /\ Found(b) = CHOOSE i \in fit : \A j \in fit \ {i} : Before(i, j)
  BY DEF Found, Before
<1>2. IsFiniteSet(fit)
  <2>1. IsFiniteSet(DOMAIN matches)
    BY DubboMatches, FS_Interval
  <2> QED
    BY <2>1, FS_Subset
<1>3. \A i, j \in fit : <<i, j>> \in R <=> (i = j \/ Before(i, j))
  OBVIOUS
<1>4. fit \subseteq DOMAIN matches
  OBVIOUS
<1>5. \A i \in DOMAIN matches : i \in fit <=> Answers(matches[i], b)
  OBVIOUS
<1> HIDE DEF fit, R
<1>6. TotalOn(R, fit)
  BY <1>3, <1>4, BeforeOrders DEF TotalOn
<1>7. PICK i \in fit : \A j \in fit : <<i, j>> \in R
  BY <1>1, <1>2, <1>6, TopOfFinite
<1>8. \A j \in fit \ {i} : Before(i, j)
  BY <1>3, <1>7
<1>9. Found(b) \in fit /\ \A j \in fit \ {Found(b)} : Before(Found(b), j)
  BY <1>1, <1>8
<1> QED
  BY <1>4, <1>5, <1>9

\* What is kept for the key of a call is a match that answers the call, with one of its
\* targets, and none that answers it is preferred to it.
KeptIsBest ==
  \A b \in Bodies : kept[Key(b)] # Unset => \E i \in DOMAIN matches : \E t \in matches[i].targets :
    /\ kept[Key(b)] = [match |-> i, target |-> t] /\ Answers(matches[i], b)
    /\ \A j \in DOMAIN matches :
         Answers(matches[j], b) => ~Precedes(Priority(matches[j]), Priority(matches[i]))

(* The cache of a Dubbo router never sends a call by the wrong rule: what it *)
(* holds for the key of a call answers that very call, and no match that     *)
(* answers it has a higher priority, whatever the rules are, whatever calls  *)
(* came before and however often the rules were replaced                     *)
(* (router-dubbo.js: the search, the cache and update).                      *)
THEOREM KeptAlwaysBest == DubboSpec => []KeptIsBest
<1>1. DubboInv => KeptIsBest
  <2> SUFFICES ASSUME DubboInv, NEW b \in Bodies, kept[Key(b)] # Unset
               PROVE  \E i \in DOMAIN matches : \E t \in matches[i].targets :
                        /\ kept[Key(b)] = [match |-> i, target |-> t] /\ Answers(matches[i], b)
                        /\ \A j \in DOMAIN matches : Answers(matches[j], b) =>
                             ~Precedes(Priority(matches[j]), Priority(matches[i]))
    BY DEF KeptIsBest
  <2> DEFINE i == Found(b)
  <2>1. matches \in RuleSets /\ kept[Key(b)] \in Selections(b)
    BY DEF DubboInv, KeptIsSelected
  <2>2. i # Unset /\ kept[Key(b)] \in [match : {i}, target : matches[i].targets]
    BY <2>1 DEF Selections
  <2>3. /\ i \in DOMAIN matches /\ Answers(matches[i], b)
        /\ \A j \in DOMAIN matches : j # i /\ Answers(matches[j], b) => Before(i, j)
    BY <2>1, <2>2, FoundFacts
  <2> HIDE DEF i
  <2>4. PICK t \in matches[i].targets : kept[Key(b)] = [match |-> i, target |-> t]
    BY <2>2
  <2>5. ASSUME NEW j \in DOMAIN matches, Answers(matches[j], b)
        PROVE  ~Precedes(Priority(matches[j]), Priority(matches[i]))
    <3>1. CASE j = i
      <4>1. \A k \in 1..5 : Priority(matches[i])[k] \in Nat
        BY <2>1, <2>3, PriorityFacts
      <4>2. \A k \in 1..5 : ~(Priority(matches[i])[k] > Priority(matches[i])[k])
        BY <4>1
      <4> QED
        BY <3>1, <4>2 DEF Precedes
    <3>2. CASE j # i
      BY <2>1, <2>3, <2>5, <3>2, BeforeOrders
    <3> QED
      BY <3>1, <3>2
  <2> QED
    BY <2>3, <2>4, <2>5
<1> QED
  BY <1>1, DubboStarts, DubboKeeps, PTL DEF DubboSpec

\* A call is given what the search of the present rules gives it.
SelectsAsSearch == [][\A b \in Bodies : Handle(b) => chosen' \in Selections(b)]_dubboVars

(* Nobody can tell that a Dubbo router has a cache, but by which of the      *)
(* targets of the match is taken: every call gets what the search of the     *)
(* present rules would give it (router-dubbo.js, handleRequest).             *)
THEOREM AlwaysSelectsAsSearch == DubboSpec => SelectsAsSearch
<1>1. ASSUME DubboInv, NEW b \in Bodies, Handle(b)
      PROVE  chosen' \in Selections(b)
  BY <1>1 DEF Handle, DubboInv, KeptIsSelected
<1>2. DubboInv /\ [DubboNext]_dubboVars
        => [\A b \in Bodies : Handle(b) => chosen' \in Selections(b)]_dubboVars
  BY <1>1
<1> QED
  BY <1>2, DubboStarts, DubboKeeps, PTL DEF DubboSpec, SelectsAsSearch
=============================================================================
