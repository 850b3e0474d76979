--------------------------- MODULE ResourceStore ---------------------------
(***************************************************************************)
(* The resource store of FGW (src/resources.js): the documents loaded from *)
(* the configuration files, indexed twice, as a list per kind and as a     *)
(* dictionary from names to resources per kind, and the notices given to   *)
(* the resource watcher whenever one file is loaded again.                 *)
(*                                                                         *)
(* A resource is an object: two loads of the same text are two objects.    *)
(* A file holds at most one live object, so a record of its path and its   *)
(* document stands for it.  The per-kind lists are one set here: their     *)
(* order is not modelled.                                                  *)
(***************************************************************************)
EXTENDS Naturals, Sequences

CONSTANTS Path,   \* files of the configuration directory
          Kind,   \* the value of .kind
          Name,   \* the value of .metadata.name
          Spec,   \* the value of .spec, as an opaque value
          None    \* JavaScript's undefined

Doc == [kind : Kind \cup {None}, name : Name \cup {None}, spec : Spec \cup {None}]

CONSTANTS Docs,   \* the documents that files may hold
          Poison  \* the documents the resource watcher throws on

ASSUME DocsAssumption   == Docs \subseteq Doc /\ Poison \subseteq Docs
ASSUME NoneAssumption   == None \notin Kind \cup Name \cup Spec \cup Path \cup Doc
ASSUME NoneIsNoResource == None \notin [path : Path, doc : Doc]

Resource == [path : Path, doc : Doc]
Notice   == [new : Resource \cup {None}, old : Resource \cup {None}]

VARIABLES files,    \* files: the document last loaded from each path
          list,     \* resourceMap[_].list
          dict,     \* resourceMap[_].dict
          notices,  \* calls of the watcher made by the last changeFile()
          clashed   \* history: <<kind, name>> ever held by two live resources

store == <<files, list, dict, notices, clashed>>

At(p, d) == [path |-> p, doc |-> d]

\* Whether appendResource() and removeResource() do anything with a document
Kinded(d) == d # None /\ d.kind # None
Named(d)  == Kinded(d) /\ d.name # None

TypeOK ==
  /\ files \in [Path -> Docs \cup {None}]
  /\ list \subseteq Resource
  /\ dict \in [Kind -> [Name -> Resource \cup {None}]]
  /\ notices \in Seq(Notice) /\ Len(notices) <= 2
  /\ clashed \subseteq Kind \X Name

----------------------------------------------------------------------------
(* Loading one file *)

\* Mutant: the object is never spliced out of the list
RemovedNever(p, d) == list

\* Mutant: the dictionary wants a spec, as the loading at start-up does
RememberedIfSpec(t, p, d) ==
  IF Named(d) /\ d.spec # None THEN [t EXCEPT ![d.kind][d.name] = At(p, d)] ELSE t

\* removeResource(): the dictionary entry goes whatever object it refers to
Removed(p, d) == IF Kinded(d) THEN list \ {At(p, d)} ELSE list
Forgotten(d)  == IF Named(d) THEN [dict EXCEPT ![d.kind][d.name] = None] ELSE dict

\* appendResource(): the last resource of a name takes its dictionary entry
Appended(l, p, d)   == IF Kinded(d) THEN l \cup {At(p, d)} ELSE l
Remembered(t, p, d) == IF Named(d) THEN [t EXCEPT ![d.kind][d.name] = At(p, d)] ELSE t

NotifyCreate(p, d)      == [new |-> At(p, d), old |-> None]
NotifyDelete(p, d)      == [new |-> None, old |-> At(p, d)]
NotifyUpdate(p, d, old) == [new |-> At(p, d), old |-> At(p, old)]

\* onResourceChange() throws on a policy that has no targetRefs
Throws(n) == \/ n.new # None /\ n.new.doc \in Poison
             \/ n.old # None /\ n.old.doc \in Poison

\* Mutant: a file that changes its kind only announces what it is now
NoticesOfNew(p, old, cur) ==
  IF Kinded(cur) /\ Kinded(old) /\ cur.kind = old.kind
  THEN <<NotifyUpdate(p, cur, old)>>
  ELSE IF cur # None THEN <<NotifyCreate(p, cur)>>
  ELSE IF old # None THEN <<NotifyDelete(p, old)>> ELSE <<>>

\* The calls of the watcher, up to the first one that throws
NoticesOf(p, old, cur) ==
  IF Kinded(cur) /\ Kinded(old)
  THEN IF cur.kind = old.kind
       THEN <<NotifyUpdate(p, cur, old)>>
       ELSE IF Throws(NotifyDelete(p, old))
            THEN <<NotifyDelete(p, old)>>
            ELSE <<NotifyDelete(p, old), NotifyCreate(p, cur)>>
  ELSE IF cur # None THEN <<NotifyCreate(p, cur)>>
  ELSE IF old # None THEN <<NotifyDelete(p, old)>>
  ELSE <<>>

\* Pairs that two different live resources of l hold at once
Clashes(l) == {kn \in Kind \X Name :
                 \E r, s \in l : /\ r # s
                                 /\ <<r.doc.kind, r.doc.name>> = kn
                                 /\ <<s.doc.kind, s.doc.name>> = kn}

ChangeFile(p, cur) ==
  LET old == files[p] IN
  /\ files' = [files EXCEPT ![p] = cur]
  /\ list' = Appended(Removed(p, old), p, cur)
  /\ dict' = Remembered(Forgotten(old), p, cur)
  /\ notices' = NoticesOf(p, old, cur)
  /\ clashed' = clashed \cup Clashes(list')

\* Whether the last changeFile() ended in an exception of the watcher
WatcherThrew == \E i \in 1..Len(notices) : Throws(notices[i])

----------------------------------------------------------------------------
(* Start-up: every file whose document has a kind and a spec is loaded, in *)
(* the order of the directory listing; of several resources of a name the  *)
(* one listed last is in the dictionary.                                   *)

Loadable(d) == Kinded(d) /\ d.spec # None

Holders(l, k, n) == {r \in l : r.doc.kind = k /\ r.doc.name = n}

StoreInit(content) ==
  /\ files = [p \in Path |-> IF Loadable(content[p]) THEN content[p] ELSE None]
  /\ list = {At(p, files[p]) : p \in {q \in Path : files[q] # None}}
  /\ dict \in [Kind -> [Name -> list \cup {None}]]
  /\ \A k \in Kind, n \in Name :
       IF Holders(list, k, n) = {} THEN dict[k][n] = None
                                   ELSE dict[k][n] \in Holders(list, k, n)
  /\ notices = <<>>
  /\ clashed = Clashes(list)

\* A file that is loaded after that but before there is a watcher to tell of it
LoadFile(p, d) ==
  /\ files' = [files EXCEPT ![p] = d]
  /\ list' = Appended(list, p, d) /\ dict' = Remembered(dict, p, d)
  /\ clashed' = clashed \cup Clashes(list') /\ UNCHANGED notices

\* The store with whatever drives it: any content at the start, any reload; a file that
\* is loaded in silence was not loaded before
Init == \E content \in [Path -> Docs \cup {None}] : StoreInit(content)

Next == \E p \in Path, d \in Docs \cup {None} :
          \/ ChangeFile(p, d)
          \/ files[p] = None /\ Loadable(d) /\ LoadFile(p, d)

StoreSpec == Init /\ [][Next]_store

----------------------------------------------------------------------------
(* find(kind, name) *)
Find(k, n) == dict[k][n]

\* The list holds exactly the documents that have a kind, one per file:
\* removeResource() finds the very object that files[] remembers
\* (resources.js:99-143).
ListIsFiles ==
  list = {At(p, files[p]) : p \in {q \in Path : Kinded(files[q])}}

\* find() never returns a resource that list() no longer has, nor one of
\* another kind or name (resources.js:122-165).
FindIsLive ==
  \A k \in Kind, n \in Name :
    Find(k, n) # None => /\ Find(k, n) \in list
                         /\ Find(k, n).doc.kind = k
                         /\ Find(k, n).doc.name = n

\* A live resource can be found by its name unless, at some time, another
\* file held a resource of the same kind and name: removing one of the two
\* deletes the dictionary entry of the other (resources.js:139).
FoundUnlessClashed ==
  \A r \in list :
    r.doc.name # None /\ <<r.doc.kind, r.doc.name>> \notin clashed
      => Find(r.doc.kind, r.doc.name) = r

\* A resource leaves the list only with a notice that names it as the old
\* one, unless its file now holds a document without a kind: then only the
\* creation of that document is announced (resources.js:106-119).
RemovalTold ==
  [][\A r \in list \ list' :
       \/ \E i \in 1..Len(notices') : notices'[i].old = r
       \/ files'[r.path] # None /\ ~Kinded(files'[r.path])]_store

=============================================================================
