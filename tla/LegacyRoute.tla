----------------------------- MODULE LegacyRoute ---------------------------
(***************************************************************************)
(* How the legacy gateway answers an HTTP request: the lists of addresses  *)
(* (common/access-control.js and its variants for domains and routes),     *)
(* the domain and the route (config.js, http/route.js), who may ask        *)
(* (http/auth.js, http/service.js), and the files of a route that has a    *)
(* ServerRoot (server/web-server.js).                                      *)
(*                                                                         *)
(* A configuration is a sequence of entries, each with the hosts it names  *)
(* and the routes they share.  Names and paths are sequences of labels and *)
(* of segments.  Conditions on parameters work as those on headers and are *)
(* left out with them; so are regular expressions, contents, types and     *)
(* compression.                                                            *)
(*                                                                         *)
(* A port with TLS has one consumer for each connection, made by           *)
(* common/tls-termination.js; auth.js copies into it what it knows of the  *)
(* credentials of a request, for the requests to come on the connection.   *)
(***************************************************************************)
EXTENDS Naturals, Sequences, SequencesExt

CONSTANTS Configs,      \* [tls, acl, entries] of one port
          Connection,   \* the TLS connections
          Calls,        \* [host, port, sni, path, method, ip, xff, consumer, big, over]
          Root,         \* the directories
          Pages,        \* the paths of the files in each of them
          StripPort,    \* StripAnyHostPort
          Nothing

\* Lists are sequences.  Nothing is no index and no reply.
ASSUME LegacyRouteAssumption ==
  /\ StripPort \in BOOLEAN /\ DOMAIN Pages = Root
  /\ Nothing \notin Nat /\ Nothing \notin {"status"} \X Nat /\ Nothing \notin Connection
  /\ \A c \in Calls : c.consumer \in BOOLEAN /\ c.over \in Connection \cup {Nothing}
  /\ \A c, d \in Calls : c.over \in Connection /\ c.over = d.over => c.sni = d.sni /\ c.ip = d.ip
  /\ \A c \in Configs : c.entries \in Seq(ToSet(c.entries)) /\ \A e \in ToSet(c.entries) :
       /\ e.hosts \in Seq(ToSet(e.hosts))
       /\ \A h \in ToSet(e.hosts) : h.wild \in BOOLEAN /\ h = [wild |-> h.wild, name |-> h.name]
       /\ e.routes \in Seq(ToSet(e.routes))
       /\ \A r \in ToSet(e.routes) :
            /\ r.root \in Root \cup {Nothing}
            /\ r.tryFiles \in Seq(ToSet(r.tryFiles)) /\ r.tryFiles # <<>>
            /\ \A t \in ToSet(r.tryFiles) : t.status \in Nat

VARIABLES
  config,    \* the configuration
  dirs,      \* dirCache: the index files a directory was opened with, or Nothing
  consumers, \* the connections whose __consumer has credentials
  shown,     \* history: the open connections over which credentials came
  call,      \* the request, or Nothing
  reply      \* what it was answered with

routeVars == <<config, dirs, consumers, shown, call, reply>>

----------------------------------------------------------------------------
(* Addresses *)

\* checkACLs(): with a whitelist the blacklist is not looked at
Admits(acl, ip) == IF acl.white # {} THEN ip \in acl.white ELSE ip \notin acl.black

\* With EnableXFF the addresses the header names count, and the peer's does not
Asked(acl, c) == IF acl.xff /\ c.xff # <<>> THEN ToSet(c.xff) ELSE {c.ip}

Denies(acl, c) == \E ip \in Asked(acl, c) : ~Admits(acl, ip)

----------------------------------------------------------------------------
(* Domains *)

\* Lists of hosts are taken apart: each host in its order, as <<name, entry>>
Named == FlattenSeq([e \in DOMAIN config.entries |->
           [i \in DOMAIN config.entries[e].hosts |-> <<config.entries[e].hosts[i], e>>]])

\* A host that is named twice belongs to the last entry, at its first place
Owner(name) ==
  Named[CHOOSE i \in DOMAIN Named : Named[i][1] = name
          /\ \A j \in DOMAIN Named : Named[j][1] = name => j <= i][2]

FirstNamed(i) == \A j \in 1..(i - 1) : Named[j][1] # Named[i][1]

\* The wildcards of an entry write starName one over the other: the last one stays
StarName(e) ==
  LET is == {i \in DOMAIN Named : FirstNamed(i) /\ Named[i][1].wild /\ Owner(Named[i][1]) = e}
  IN Named[CHOOSE i \in is : \A j \in is : j <= i][1].name

\* The name ends with the labels of the wildcard, one label in front at least; a port at
\* the end of it fits nothing but a bare star
Ends(star, name, port) ==
  star = <<>> \/ (~port /\ IsSuffix(star, name) /\ Len(name) > Len(star))

IsExact(name, port) ==
  ~port /\ \E i \in DOMAIN Named : Named[i][1] = [wild |-> FALSE, name |-> name]

\* starDomains whose name fits, at their places in the order
Stars(name, port) ==
  {i \in DOMAIN Named : /\ FirstNamed(i) /\ Named[i][1].wild
                        /\ Ends(StarName(Owner(Named[i][1])), name, port)}

FirstStar(is) == Owner(Named[CHOOSE i \in is : \A j \in is : i <= j][1])

\* Mutant: the stars are asked first
DomainByStar(name, port) ==
  IF Stars(name, port) # {} THEN FirstStar(Stars(name, port))
  ELSE IF IsExact(name, port) THEN Owner([wild |-> FALSE, name |-> name]) ELSE Nothing

\* makeMatchDomainHandler(): the exact name, or else the first star in order that fits
DomainOf(name, port) ==
  IF IsExact(name, port) THEN Owner([wild |-> FALSE, name |-> name])
  ELSE IF Stars(name, port) = {} THEN Nothing ELSE FirstStar(Stars(name, port))

\* handleMessage(): by Host, or else by SNI, or else by Host without its port
Domain(c) ==
  LET byHost == DomainOf(c.host, c.port)
      bySni  == IF c.sni = Nothing THEN Nothing ELSE DomainOf(c.sni, FALSE)
  IN IF byHost # Nothing THEN byHost
     ELSE IF bySni # Nothing \/ ~StripPort THEN bySni
     ELSE DomainOf(c.host, FALSE)

----------------------------------------------------------------------------
(* Routes *)

\* makeHttpMatches(): a route without a path takes any, an unknown type none
RouteFits(r, c) ==
  /\ r.methods = {} \/ c.method \in r.methods
  /\ CASE r.path.type = "Prefix" -> IsPrefix(r.path.of, c.path)
       [] r.path.type = "Exact"  -> r.path.of = c.path
       [] r.path.type = "none"   -> TRUE
       [] OTHER                  -> FALSE

\* makeRouteMatchesHandler(): the first of the domain that fits, in their order
RouteOf(d, c) ==
  LET is == {i \in DOMAIN d.routes : RouteFits(d.routes[i], c)}
  IN IF is = {} THEN Nothing ELSE d.routes[CHOOSE i \in is : \A j \in is : i <= j]

\* Only the type "HTTP" by name has a limit
TooLarge(d, r, c) == d.type = "HTTP" /\ r.limit /\ c.big

Unauthorized(r, c) == r.auth /\ ~c.consumer

----------------------------------------------------------------------------
(* Consumers: http/auth.js finds them by a header *)

\* Mutant: what is copied for one connection counts for all of them
NotedForAll(c) == IF c.consumer THEN Connection ELSE consumers

\* What it finds is copied into the consumer of the connection, if there is one
Noted(c) == IF c.consumer THEN consumers \cup ({c.over} \cap Connection) ELSE consumers

\* The request with what is known of its consumer
Identified(c) == [c EXCEPT !.consumer = @ \/ c.over \in consumers]

----------------------------------------------------------------------------
(* Files *)

\* Mutant: all directories are one in the cache
OneDirectory(root) == CHOOSE r \in Root : TRUE

DirKey(root) == root

Index(root) == dirs[DirKey(root)]

\* The file, or the first index file of the directory
Served(root, index, path) ==
  IF path \in Pages[root] THEN path
  ELSE LET is == {i \in DOMAIN index : Append(path, index[i]) \in Pages[root]}
       IN IF is = {} THEN Nothing
          ELSE Append(path, index[CHOOSE i \in is : \A j \in is : i <= j])

\* A name of TryFiles: the path and something after it, or a status
Tried(r, index, c, t) == IF t.status > 0 THEN <<"status", t.status>>
                         ELSE LET page == Served(r.root, index, c.path \o t.after) IN
                              IF page = Nothing THEN Nothing ELSE <<"page", page>>

\* The first name that gives a message
FromFiles(r, index, c) ==
  LET is == {i \in DOMAIN r.tryFiles : Tried(r, index, c, r.tryFiles[i]) # Nothing}
  IN IF is = {} THEN <<"status", 404>>
     ELSE Tried(r, index, c, r.tryFiles[CHOOSE i \in is : \A j \in is : i <= j])

----------------------------------------------------------------------------
(* A request, through the chain of route, both access controls, service *)

\* The first of them that turns it down, or Nothing
Refusal(d, r, c) ==
  IF r # Nothing /\ TooLarge(d, r, c) THEN <<"status", 413>>
  ELSE IF (d # Nothing /\ Denies(d.acl, c)) \/ (r # Nothing /\ Denies(r.acl, c))
  THEN <<"status", 403>>
  ELSE IF r # Nothing /\ Unauthorized(r, c) THEN <<"status", 401>> ELSE Nothing

Serves(d, r, c) == r # Nothing /\ r.root # Nothing /\ Refusal(d, r, c) = Nothing

\* http/default.js blames a proxy if there was one
Unserved(c) == <<"status", IF c.xff # <<>> THEN 502 ELSE 404>>

Outcome(d, r, index, c) ==
  IF Refusal(d, r, c) # Nothing THEN Refusal(d, r, c)
  ELSE IF Serves(d, r, c) THEN FromFiles(r, index, c)
  ELSE IF r # Nothing /\ r.service # Nothing THEN <<"service", r.service>> ELSE Unserved(c)

\* A directory is opened with the index of the route that needs it first
Opens(d, r, c) == Serves(d, r, c) /\ r.tryFiles[1].status = 0 /\ Index(r.root) = Nothing

Entry(e) == IF e = Nothing THEN Nothing ELSE config.entries[e]

RouteFor(c) == IF Domain(c) = Nothing THEN Nothing ELSE RouteOf(Entry(Domain(c)), c)

Serve(c) ==
  LET d == Entry(Domain(c))
      r == RouteFor(c)
      q == Identified(c)
  IN
  /\ call = Nothing /\ (c.over \in Connection) = config.tls
  /\ call' = c /\ UNCHANGED config
  /\ IF ~Admits(config.acl, c.ip) THEN reply' = "reset" /\ UNCHANGED <<dirs, consumers, shown>>
     ELSE /\ consumers' = Noted(c)
          /\ shown' = IF c.consumer THEN shown \cup ({c.over} \cap Connection) ELSE shown
          /\ dirs' = IF Opens(d, r, q) THEN [dirs EXCEPT ![DirKey(r.root)] = r.index] ELSE dirs
          /\ reply' = Outcome(d, r, IF Serves(d, r, q) THEN dirs'[DirKey(r.root)] ELSE Nothing, q)

Done ==
  /\ call # Nothing /\ call' = Nothing /\ reply' = Nothing
  /\ UNCHANGED <<config, dirs, consumers, shown>>

\* Directories are forgotten after an hour
Forget(root) ==
  /\ dirs[root] # Nothing /\ dirs' = [dirs EXCEPT ![root] = Nothing]
  /\ UNCHANGED <<config, consumers, shown, call, reply>>

\* A connection ends, and its consumer and its request with it
Close(k) ==
  /\ consumers' = consumers \ {k} /\ shown' = shown \ {k}
  /\ IF call # Nothing /\ call.over = k THEN call' = Nothing /\ reply' = Nothing
     ELSE UNCHANGED <<call, reply>>
  /\ UNCHANGED <<config, dirs>>

RouteInit ==
  /\ config \in Configs /\ dirs = [root \in Root |-> Nothing]
  /\ consumers = {} /\ shown = {} /\ call = Nothing /\ reply = Nothing

RouteNext ==
  \/ \E c \in Calls : Serve(c)
  \/ Done
  \/ \E root \in Root : Forget(root)
  \/ \E k \in Connection : Close(k)

RouteSpec == RouteInit /\ [][RouteNext]_routeVars

----------------------------------------------------------------------------
(* Properties *)

AllRoutes == UNION {ToSet(config.entries[e].routes) : e \in DOMAIN config.entries}

\* The request with the credentials that came with it or before it on its connection
Known(c) == [c EXCEPT !.consumer = @ \/ c.over \in shown]

\* While routes that share a directory also share its index files, an answer depends on
\* the request and on the credentials of its connection, whatever else was asked before,
\* and on whatever other connections.
HistoryFree ==
  (call # Nothing /\ \A r, s \in AllRoutes : r.root = s.root => r.index = s.index) =>
    LET r == RouteFor(call)
    IN reply = IF ~Admits(config.acl, call.ip) THEN "reset"
               ELSE Outcome(Entry(Domain(call)), r,
                            IF r = Nothing THEN Nothing ELSE r.index, Known(call))

NameFits(name, c) ==
  \/ ~name.wild /\ ~c.port /\ name.name = c.host
  \/ name.wild /\ Ends(name.name, c.host, c.port)

\* Where no entry names two stars, the host of a request leads to an entry that names it
\* whenever there is one, and to the one that names it in full if there is.
NamedIsFound ==
  (call # Nothing /\ \A e \in DOMAIN config.entries :
     \A i, j \in DOMAIN config.entries[e].hosts :
       config.entries[e].hosts[i].wild /\ config.entries[e].hosts[j].wild => i = j) =>
  \A i \in DOMAIN Named : NameFits(Named[i][1], call) =>
    \E j \in DOMAIN Named : /\ Named[j][2] = Domain(call) /\ NameFits(Named[j][1], call)
                            /\ ~Named[i][1].wild => ~Named[j][1].wild
============================================================================
