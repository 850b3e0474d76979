----------------------------- MODULE Store_proofs -----------------------------
(***************************************************************************)
(* Proofs about the resource store, for every set of files, kinds, names   *)
(* and documents: on its own, under every sequence of reloads, and over    *)
(* a directory or a mesh where files are written at any time.              *)
(***************************************************************************)
EXTENDS FileStore, TLAPS

\* A pair that two live resources hold now is on record as clashed
ClashesRecorded == Clashes(list) \subseteq clashed

StoreInv == /\ TypeOK
            /\ ListIsFiles
            /\ FindIsLive
            /\ FoundUnlessClashed
            /\ ClashesRecorded

USE DEF Resource, Doc, At

----------------------------------------------------------------------------
\* A document of a file makes a resource, and undefined makes none
LEMMA ResourceOfDoc ==
  ASSUME NEW p \in Path, NEW d \in Docs
  PROVE  At(p, d) \in Resource /\ d # None
BY DocsAssumption, NoneAssumption

\* The calls of the watcher are at most two notices about resources
LEMMA NoticesType ==
  ASSUME NEW p \in Path, NEW old \in Docs \cup {None}, NEW cur \in Docs \cup {None}
  PROVE  NoticesOf(p, old, cur) \in Seq(Notice) /\ Len(NoticesOf(p, old, cur)) <= 2
<1>1. \A d \in Docs : At(p, d) \in Resource
  BY ResourceOfDoc DEF At
<1>2. ASSUME cur # None PROVE NotifyCreate(p, cur) \in Notice
  BY <1>1, <1>2 DEF Notice, NotifyCreate
<1>3. ASSUME old # None PROVE NotifyDelete(p, old) \in Notice
  BY <1>1, <1>3 DEF Notice, NotifyDelete
<1>4. ASSUME old # None, cur # None PROVE NotifyUpdate(p, cur, old) \in Notice
  BY <1>1, <1>4 DEF Notice, NotifyUpdate
<1> HIDE DEF Resource, Doc, At
<1>5. \A n \in Notice : <<n>> \in Seq(Notice) /\ Len(<<n>>) = 1
  OBVIOUS
<1>6. \A m, n \in Notice : <<m, n>> \in Seq(Notice) /\ Len(<<m, n>>) = 2
  OBVIOUS
<1>7. <<>> \in Seq(Notice) /\ Len(<<>>) = 0
  OBVIOUS
<1> QED
  BY <1>2, <1>3, <1>4, <1>5, <1>6, <1>7 DEF NoticesOf, Kinded

----------------------------------------------------------------------------
\* Start-up establishes the invariant, whatever the files hold
LEMMA StoreInitInv == Init => StoreInv
<1> SUFFICES ASSUME NEW content \in [Path -> Docs \cup {None}], StoreInit(content)
             PROVE  StoreInv
  BY DEF Init
<1>1. files \in [Path -> Docs \cup {None}]
  BY DEF StoreInit
<1>2. list \subseteq Resource
  <2>1. \A p \in Path : files[p] # None => At(p, files[p]) \in Resource
    BY <1>1, DocsAssumption
  <2> HIDE DEF Resource, Doc, At
  <2> QED BY <2>1 DEF StoreInit
<1>3. dict \in [Kind -> [Name -> Resource \cup {None}]]
  <2>1. dict \in [Kind -> [Name -> list \cup {None}]]
    BY DEF StoreInit
  <2> HIDE DEF Resource
  <2> QED
    BY <1>2, <2>1
<1>4. TypeOK
  <2>1. notices \in Seq(Notice) /\ Len(notices) <= 2
    <3>1. <<>> \in Seq(Notice) /\ Len(<<>>) <= 2
      OBVIOUS
    <3> QED BY <3>1 DEF StoreInit
  <2>2. clashed \subseteq Kind \X Name
    BY DEF StoreInit, Clashes
  <2> QED BY <1>1, <1>2, <1>3, <2>1, <2>2 DEF TypeOK
<1>5. ListIsFiles
  BY DEF StoreInit, ListIsFiles, Kinded, Loadable
<1>6. FindIsLive
  <2> SUFFICES ASSUME NEW k \in Kind, NEW n \in Name, dict[k][n] # None
               PROVE  dict[k][n] \in Holders(list, k, n)
    BY DEF FindIsLive, Find, Holders
  <2> QED BY DEF StoreInit
<1>7. ClashesRecorded
  BY DEF StoreInit, ClashesRecorded
<1>8. FoundUnlessClashed
  <2> SUFFICES ASSUME NEW r \in list, r.doc.name # None,
                      <<r.doc.kind, r.doc.name>> \notin clashed
               PROVE  dict[r.doc.kind][r.doc.name] = r
    BY DEF FoundUnlessClashed, Find
  <2>1. r.doc.kind \in Kind /\ r.doc.name \in Name
    BY <1>2, <1>5 DEF ListIsFiles, Kinded
  <2>2. r \in Holders(list, r.doc.kind, r.doc.name)
    BY DEF Holders
  <2>3. dict[r.doc.kind][r.doc.name] \in Holders(list, r.doc.kind, r.doc.name)
    BY <2>1, <2>2 DEF StoreInit
  <2> DEFINE s == dict[r.doc.kind][r.doc.name]
  <2>4. s \in list /\ <<s.doc.kind, s.doc.name>> = <<r.doc.kind, r.doc.name>>
    BY <2>3 DEF Holders
  <2>5. s # r => <<r.doc.kind, r.doc.name>> \in Clashes(list)
    BY <2>1, <2>4 DEF Clashes
  <2> QED BY <2>5 DEF StoreInit
<1> QED BY <1>4, <1>5, <1>6, <1>7, <1>8 DEF StoreInv

----------------------------------------------------------------------------
\* Both indexes follow a file that is read again, whoever is told of it
Reindex(p, cur) ==
  /\ files' = [files EXCEPT ![p] = cur]
  /\ list' = Appended(Removed(p, files[p]), p, cur)
  /\ dict' = Remembered(Forgotten(files[p]), p, cur)
  /\ clashed' = clashed \cup Clashes(list')

NoticesOK == notices \in Seq(Notice) /\ Len(notices) <= 2

LEMMA ChangeFileReindexes ==
  ASSUME TypeOK, NEW p \in Path, NEW cur \in Docs \cup {None}, ChangeFile(p, cur)
  PROVE  Reindex(p, cur) /\ NoticesOK'
<1>1. files[p] \in Docs \cup {None}
  BY DEF TypeOK
<1> HIDE DEF Resource, Doc, At
<1>2. NoticesOK'
  BY <1>1, NoticesType DEF ChangeFile, NoticesOK
<1> QED BY <1>2 DEF ChangeFile, Reindex

\* What one reload does to a dictionary entry: it is the new resource if that
\* has the kind and the name, else nothing if the old one had them, else it
\* stays as it was
LEMMA EntryAfterReload ==
  ASSUME TypeOK, NEW p \in Path, NEW cur \in Docs \cup {None}, Reindex(p, cur),
         NEW k \in Kind, NEW n \in Name
  PROVE  /\ Named(cur) /\ cur.kind = k /\ cur.name = n => dict'[k][n] = At(p, cur)
         /\ ~(Named(cur) /\ cur.kind = k /\ cur.name = n) =>
              dict'[k][n] = IF Named(files[p]) /\ files[p].kind = k /\ files[p].name = n
                            THEN None ELSE dict[k][n]
<1> DEFINE old == files[p]
           mid == Forgotten(old)
<1>1. dict \in [Kind -> [Name -> Resource \cup {None}]] /\ old \in Docs \cup {None}
  BY DEF TypeOK
<1>2. \A d \in Docs : Named(d) => d.kind \in Kind /\ d.name \in Name
  BY DocsAssumption DEF Named, Kinded
<1>3. mid \in [Kind -> [Name -> Resource \cup {None}]]
  BY <1>1, <1>2 DEF Forgotten, Named, Kinded
<1>4. mid[k][n] = IF Named(old) /\ old.kind = k /\ old.name = n
                  THEN None ELSE dict[k][n]
  BY <1>1, <1>2 DEF Forgotten, Named, Kinded
<1>5. dict' = Remembered(mid, p, cur)
  BY DEF Reindex
<1> HIDE DEF mid, Resource, Doc, At
<1>6. /\ Named(cur) /\ cur.kind = k /\ cur.name = n => dict'[k][n] = At(p, cur)
      /\ ~(Named(cur) /\ cur.kind = k /\ cur.name = n) => dict'[k][n] = mid[k][n]
  BY <1>2, <1>3, <1>5 DEF Remembered, Named, Kinded
<1> QED BY <1>4, <1>6

\* A reload keeps the types
LEMMA ReloadTypeOK ==
  ASSUME TypeOK, NEW p \in Path, NEW cur \in Docs \cup {None}, Reindex(p, cur), NoticesOK'
  PROVE  TypeOK'
<1> DEFINE old == files[p]
<1>1. old \in Docs \cup {None}
  BY DEF TypeOK
<1>2. files' \in [Path -> Docs \cup {None}]
  BY DEF TypeOK, Reindex
<1>3. list' \subseteq Resource
  BY ResourceOfDoc DEF TypeOK, Reindex, Appended, Removed, Kinded
<1>4. dict' \in [Kind -> [Name -> Resource \cup {None}]]
  <2>1. \A d \in Docs : Named(d) => d.kind \in Kind /\ d.name \in Name
    BY DocsAssumption DEF Named, Kinded
  <2>2. Forgotten(old) \in [Kind -> [Name -> Resource \cup {None}]]
    BY <1>1, <2>1 DEF TypeOK, Forgotten, Named, Kinded
  <2>3. Named(cur) => At(p, cur) \in Resource
    BY ResourceOfDoc DEF Named, Kinded
  <2> HIDE DEF Resource, Doc, At
  <2>4. Named(cur) => cur \in Docs
    BY DEF Named, Kinded
  <2> QED BY <2>1, <2>2, <2>3, <2>4 DEF Reindex, Remembered
<1>5. notices' \in Seq(Notice) /\ Len(notices') <= 2
  BY DEF NoticesOK
<1>6. clashed' \subseteq Kind \X Name
  BY DEF TypeOK, Reindex, Clashes
<1> QED BY <1>2, <1>3, <1>4, <1>5, <1>6 DEF TypeOK

\* The list after a reload: the old resource of the file is gone, the new one
\* is there if it has a kind
LEMMA ListAfterReload ==
  ASSUME ListIsFiles, NEW p \in Path, NEW cur, Reindex(p, cur)
  PROVE  \A r : r \in list' <=> \/ r \in list /\ r.path # p
                                \/ Kinded(cur) /\ r = At(p, cur)
<1> DEFINE old == files[p]
<1>1. \A r \in list : r.path = p => r = At(p, old) /\ Kinded(old)
  BY DEF ListIsFiles
<1>2. list' = Appended(Removed(p, old), p, cur)
  BY DEF Reindex
<1>3. \A r : r \in Removed(p, old) <=> r \in list /\ r.path # p
  BY <1>1 DEF Removed
<1>4. \A r : r \in list' <=> r \in Removed(p, old) \/ (Kinded(cur) /\ r = At(p, cur))
  BY <1>2 DEF Appended
<1> QED BY <1>3, <1>4

\* A reload keeps list() and files[] in step
LEMMA ReloadListIsFiles ==
  ASSUME TypeOK, ListIsFiles, NEW p \in Path, NEW cur \in Docs \cup {None},
         Reindex(p, cur)
  PROVE  ListIsFiles'
<1>1. \A q \in Path : files'[q] = IF q = p THEN cur ELSE files[q]
  BY DEF TypeOK, Reindex
<1>2. \A r : r \in list' <=> \/ r \in list /\ r.path # p
                             \/ Kinded(cur) /\ r = At(p, cur)
  BY ListAfterReload
<1> QED BY <1>1, <1>2 DEF ListIsFiles

\* A reload keeps the whole invariant
LEMMA ReloadInv ==
  ASSUME StoreInv, NEW p \in Path, NEW cur \in Docs \cup {None}, Reindex(p, cur), NoticesOK'
  PROVE  StoreInv'
<1> DEFINE old == files[p]
<1>1. TypeOK'
  BY ReloadTypeOK DEF StoreInv
<1>2. ListIsFiles'
  BY ReloadListIsFiles DEF StoreInv
<1>3. ClashesRecorded'
  BY DEF StoreInv, ClashesRecorded, Reindex, Clashes
<1>4. \A r : r \in list' <=> \/ r \in list /\ r.path # p
                             \/ Kinded(cur) /\ r = At(p, cur)
  BY ListAfterReload DEF StoreInv
<1>5. \A r \in list : r.path = p => r = At(p, old) /\ Kinded(old)
  BY DEF StoreInv, ListIsFiles
<1>6. FindIsLive'
  <2> SUFFICES ASSUME NEW k \in Kind, NEW n \in Name, dict'[k][n] # None
               PROVE  /\ dict'[k][n] \in list'
                      /\ dict'[k][n].doc.kind = k
                      /\ dict'[k][n].doc.name = n
    BY DEF FindIsLive, Find
  <2>1. CASE Named(cur) /\ cur.kind = k /\ cur.name = n
    <3>1. dict'[k][n] = At(p, cur)
      BY <2>1, EntryAfterReload DEF StoreInv
    <3> QED BY <2>1, <3>1, <1>4 DEF Named
  <2>2. CASE ~(Named(cur) /\ cur.kind = k /\ cur.name = n)
    <3> DEFINE s == dict[k][n]
    <3>0. dict'[k][n] = IF Named(old) /\ old.kind = k /\ old.name = n
                        THEN None ELSE s
      <4> HIDE DEF Resource, Doc, At
      <4> QED BY <2>2, EntryAfterReload DEF StoreInv
    <3>1. /\ dict'[k][n] = s
          /\ ~(Named(old) /\ old.kind = k /\ old.name = n)
      BY <3>0
    <3>2. s \in list /\ s.doc.kind = k /\ s.doc.name = n
      BY <3>1 DEF StoreInv, FindIsLive, Find
    <3>3. n # None
      BY NoneAssumption
    <3>4. s.path # p
      BY <1>5, <3>1, <3>2, <3>3 DEF Named
    <3> QED BY <1>4, <3>1, <3>2, <3>4
  <2> QED BY <2>1, <2>2
<1>7. FoundUnlessClashed'
  <2> SUFFICES ASSUME NEW r \in list', r.doc.name # None,
                      <<r.doc.kind, r.doc.name>> \notin clashed'
               PROVE  dict'[r.doc.kind][r.doc.name] = r
    BY DEF FoundUnlessClashed, Find
  <2> DEFINE k == r.doc.kind
             n == r.doc.name
  <2>1. Kinded(r.doc) /\ r.doc \in Docs
    BY <1>1, <1>2 DEF ListIsFiles, TypeOK, Kinded
  <2>2. k \in Kind /\ n \in Name /\ Named(r.doc)
    BY <2>1, DocsAssumption DEF Kinded, Named
  <2>3. <<k, n>> \notin clashed /\ <<k, n>> \notin Clashes(list)
    BY DEF StoreInv, ClashesRecorded, Reindex
  <2>4. <<k, n>> \notin Clashes(list')
    BY DEF Reindex
  <2>5. CASE r = At(p, cur)
    BY <2>2, <2>5, EntryAfterReload DEF StoreInv
  <2>6. CASE r # At(p, cur)
    <3>1. r \in list /\ r.path # p
      BY <1>4, <2>6
    <3>2. ~(Named(cur) /\ cur.kind = k /\ cur.name = n)
      <4>1. Named(cur) => At(p, cur) \in list'
        BY <1>4 DEF Named
      <4> QED BY <2>2, <2>4, <2>6, <4>1 DEF Clashes
    <3>3. ~(Named(old) /\ old.kind = k /\ old.name = n)
      <4>1. Named(old) => At(p, old) \in list
        BY DEF StoreInv, ListIsFiles, Named
      <4>2. At(p, old) # r
        BY <3>1
      <4> QED BY <2>2, <2>3, <3>1, <4>1, <4>2 DEF Clashes
    <3>4. dict'[k][n] = dict[k][n]
      <4> HIDE DEF Resource, Doc, At
      <4>1. k \in Kind /\ n \in Name
        BY <2>2
      <4> HIDE DEF k, n
      <4> QED BY <4>1, <3>2, <3>3, EntryAfterReload DEF StoreInv
    <3> QED BY <2>3, <3>1, <3>4 DEF StoreInv, FoundUnlessClashed, Find
  <2> QED BY <2>5, <2>6
<1> QED BY <1>1, <1>2, <1>3, <1>6, <1>7 DEF StoreInv

\* A load in silence puts the file in the place of nothing
LEMMA LoadFileReindexes ==
  ASSUME NEW p \in Path, NEW cur, files[p] = None, LoadFile(p, cur)
  PROVE  Reindex(p, cur) /\ UNCHANGED notices
BY DEF LoadFile, Reindex, Removed, Forgotten, Kinded, Named

\* A file that is loaded in silence
LEMMA LoadFileInv ==
  ASSUME StoreInv, NEW p \in Path, NEW d \in Docs \cup {None}, files[p] = None, LoadFile(p, d)
  PROVE  StoreInv' /\ files' = [files EXCEPT ![p] = d]
<1>1. Reindex(p, d) /\ UNCHANGED notices
  BY LoadFileReindexes
<1>2. NoticesOK'
  BY <1>1 DEF StoreInv, TypeOK, NoticesOK
<1> QED
  BY <1>1, <1>2, ReloadInv DEF Reindex

\* Doing nothing keeps the invariant
LEMMA StutterInv == StoreInv /\ UNCHANGED store => StoreInv'
<1> HIDE DEF Resource, Doc, At
<1> SUFFICES ASSUME StoreInv, UNCHANGED store PROVE StoreInv'
  OBVIOUS
<1>1. TypeOK' /\ ListIsFiles' /\ ClashesRecorded'
  BY DEF StoreInv, store, TypeOK, ListIsFiles, ClashesRecorded, Clashes
<1>2. FindIsLive' /\ FoundUnlessClashed'
  BY DEF StoreInv, store, FindIsLive, FoundUnlessClashed, Find
<1> QED BY <1>1, <1>2 DEF StoreInv

----------------------------------------------------------------------------
\* The invariant of the store holds whatever drives it
THEOREM StoreInvariant == StoreSpec => []StoreInv
<1>1. Init => StoreInv
  BY StoreInitInv
<1>2. StoreInv /\ [Next]_store => StoreInv'
  BY ChangeFileReindexes, ReloadInv, LoadFileInv, StutterInv DEF Next, StoreInv
<1> QED BY <1>1, <1>2, PTL DEF StoreSpec

----------------------------------------------------------------------------
\* One reload announces the resource it removes
LEMMA ReloadTellsRemoval ==
  ASSUME StoreInv, NEW p \in Path, NEW cur \in Docs \cup {None}, ChangeFile(p, cur),
         NEW r \in list \ list'
  PROVE  \/ \E i \in 1..Len(notices') : notices'[i].old = r
         \/ files'[r.path] # None /\ ~Kinded(files'[r.path])
<1> DEFINE old == files[p]
<1>1. r.path = p /\ ~(Kinded(cur) /\ r = At(p, cur))
  BY ChangeFileReindexes, ListAfterReload DEF StoreInv
<1>2. r = At(p, old) /\ Kinded(old)
  BY <1>1 DEF StoreInv, ListIsFiles
<1>3. old # None
  BY <1>2 DEF Kinded
<1>4. notices' = NoticesOf(p, old, cur)
  BY DEF ChangeFile
<1>5. ASSUME NEW n, n.old = r, NEW m, notices' = <<n>> \/ notices' = <<n, m>>
      PROVE  \E i \in 1..Len(notices') : notices'[i].old = r
  <2>1. 1 \in 1..Len(notices') /\ notices'[1] = n
    BY <1>5
  <2> QED BY <2>1, <1>5
<1>6. NotifyDelete(p, old).old = r /\ NotifyUpdate(p, cur, old).old = r
  BY <1>2 DEF NotifyDelete, NotifyUpdate
<1>7. CASE Kinded(cur)
  <2>1. \/ notices' = <<NotifyUpdate(p, cur, old)>>
        \/ notices' = <<NotifyDelete(p, old)>>
        \/ notices' = <<NotifyDelete(p, old), NotifyCreate(p, cur)>>
    BY <1>2, <1>4, <1>7 DEF NoticesOf
  <2> HIDE DEF Resource, Doc, At, old
  <2> QED BY <2>1, <1>5, <1>6
<1>8. CASE cur # None /\ ~Kinded(cur)
  <2>1. files'[r.path] = cur
    BY <1>1 DEF StoreInv, TypeOK, ChangeFile
  <2> QED BY <1>8, <2>1
<1>9. CASE cur = None
  <2>1. notices' = <<NotifyDelete(p, old)>>
    BY <1>3, <1>4, <1>9 DEF NoticesOf, Kinded
  <2> HIDE DEF Resource, Doc, At, old
  <2> QED BY <2>1, <1>5, <1>6
<1> QED BY <1>7, <1>8, <1>9 DEF Kinded

----------------------------------------------------------------------------
(* The store over a directory or a mesh                                    *)

HIDE DEF Resource, Doc, At

FileShape ==
  /\ disk \in [Path -> Docs \cup {None}]
  /\ reads \in [Path -> Seq(Docs \cup {None, Asked})]
  /\ (watch = "busy") <=> (batch # {})

\* A file that is neither reported nor lost has one read under way at most, and that
\* brings what the file holds
OneGoodRead ==
  \A p \in Path \ (changed \cup lost) :
    reads[p] # <<>> => Len(reads[p]) = 1 /\ reads[p][1] \in {Asked, disk[p]}

\* Before the watch of a mesh begins each file is read once, and was not loaded before
FirstRead ==
  watch = "off" => \A p \in Path : reads[p] # <<>> => Len(reads[p]) = 1 /\ files[p] = None

\* Files of a directory are read by the loop itself
OnlyMeshReads == ~mesh => \A p \in Path : reads[p] = <<>>

FileInv == /\ StoreInv /\ FileShape
           /\ OneGoodRead /\ FirstRead /\ OnlyMeshReads
           /\ OutdatedIsPending

LEMMA RemoveAtFacts ==
  ASSUME NEW S, NEW q \in Seq(S), NEW i \in 1..Len(q)
  PROVE  RemoveAt(q, i) \in Seq(S) /\ Len(RemoveAt(q, i)) = Len(q) - 1
<1> DEFINE front == SubSeq(q, 1, i - 1)
           back  == SubSeq(q, i + 1, Len(q))
<1>1. front \in Seq(S) /\ Len(front) = i - 1
  OBVIOUS
<1>2. back \in Seq(S) /\ Len(back) = Len(q) - i
  OBVIOUS
<1>3. RemoveAt(q, i) = front \o back
  BY DEF RemoveAt
<1>4. Len(q) \in Nat
  OBVIOUS
<1> HIDE DEF front, back
<1>5. front \o back \in Seq(S) /\ Len(front \o back) = Len(front) + Len(back)
  BY <1>1, <1>2
<1> QED BY <1>1, <1>2, <1>3, <1>4, <1>5

\* A read that has arrived is one of a document, and no more under way
LEMMA ArrivesFacts ==
  ASSUME FileShape, NEW p \in Path, NEW i \in 1..MaxReads, Arrives(p, i)
  PROVE  /\ reads[p][i] \in Docs \cup {None}
         /\ reads[p] # <<>> /\ i \in 1..Len(reads[p])
         /\ reads'[p] \in Seq(Docs \cup {None, Asked})
         /\ Len(reads'[p]) = Len(reads[p]) - 1
         /\ \A q \in Path : q # p => reads'[q] = reads[q]
         /\ reads' \in [Path -> Seq(Docs \cup {None, Asked})]
<1>1. reads[p] \in Seq(Docs \cup {None, Asked})
  BY DEF FileShape
<1>2. i \in 1..Len(reads[p])
  BY <1>1, MeshAssumption DEF Arrives, Underway
<1>3. reads[p][i] \in Docs \cup {None}
  BY <1>1, <1>2 DEF Arrives
<1> DEFINE rest == RemoveAt(reads[p], i)
<1>4. rest \in Seq(Docs \cup {None, Asked}) /\ Len(rest) = Len(reads[p]) - 1
  BY <1>1, <1>2, RemoveAtFacts
<1>5. reads' = [reads EXCEPT ![p] = rest]
  BY DEF Arrives
<1> HIDE DEF rest
<1>6. reads' \in [Path -> Seq(Docs \cup {None, Asked})] /\ reads'[p] = rest
  BY <1>4, <1>5 DEF FileShape
<1>7. \A q \in Path : q # p => reads'[q] = reads[q]
  BY <1>5 DEF FileShape
<1> QED BY <1>1, <1>2, <1>3, <1>4, <1>6, <1>7

\* Why the store may be behind on one file
Accounted(p) == \/ Current(p)
                \/ p \in changed \cup batch \cup lost
                \/ \E i \in DOMAIN reads[p] : reads[p][i] \in {Asked, disk[p]}
                \/ watch = "dead" /\ WatcherThrew

LEMMA OutdatedIsAccounted == OutdatedIsPending <=> \A p \in Path : Accounted(p)
BY DEF OutdatedIsPending, Accounted

LEMMA ContentsType == Contents \subseteq Docs \cup {None}
BY MeshAssumption DEF Contents

LEMMA FileInitInv == FileInit => FileInv
<1> SUFFICES ASSUME FileInit PROVE FileInv
  OBVIOUS
<1> DEFINE content == IF mesh THEN [p \in Path |-> None] ELSE disk
<1>1. disk \in [Path -> Docs \cup {None}]
  BY ContentsType DEF FileInit
<1>2. content \in [Path -> Docs \cup {None}] /\ StoreInit(content)
  BY <1>1 DEF FileInit
<1>3. StoreInv
  BY <1>2, StoreInitInv DEF Init
<1>4. \A p \in Path : files[p] = IF Loadable(content[p]) THEN content[p] ELSE None
  BY <1>2 DEF StoreInit
<1>5. \A p \in Path : reads[p] = IF mesh /\ disk[p] # None THEN <<Asked>> ELSE <<>>
  BY DEF FileInit
<1>6. ASSUME NEW p \in Path, reads[p] # <<>>
      PROVE  Len(reads[p]) = 1 /\ reads[p][1] = Asked /\ files[p] = None
  <2>1. mesh /\ reads[p] = <<Asked>>
    BY <1>5, <1>6
  <2> QED BY <1>4, <2>1 DEF Loadable, Kinded
<1>7. FileShape
  <2> DEFINE Item == Docs \cup {None, Asked}
  <2>1. Asked \in Item
    OBVIOUS
  <2> HIDE DEF Item
  <2>2. <<Asked>> \in Seq(Item) /\ <<>> \in Seq(Item)
    BY <2>1
  <2>3. reads \in [Path -> Seq(Item)]
    BY <2>2 DEF FileInit
  <2> QED BY <1>1, <2>3 DEF FileInit, FileShape, Item
<1>8. OneGoodRead /\ FirstRead /\ OnlyMeshReads
  BY <1>5, <1>6 DEF OneGoodRead, FirstRead, OnlyMeshReads
<1>9. ASSUME NEW p \in Path
      PROVE  Accounted(p)
  <2>1. CASE reads[p] = <<Asked>>
    <3>1. 1 \in DOMAIN reads[p] /\ reads[p][1] = Asked
      BY <2>1
    <3> QED BY <3>1 DEF Accounted
  <2>2. CASE mesh /\ disk[p] = None
    BY <1>4, <2>2 DEF Accounted, Current, Loadable, Kinded
  <2>3. CASE ~mesh
    BY <1>4, <2>3 DEF Accounted, Current
  <2> QED BY <1>5, <2>1, <2>2, <2>3
<1> QED BY <1>3, <1>7, <1>8, <1>9, OutdatedIsAccounted DEF FileInv

LEMMA WriteInv ==
  ASSUME FileInv, NEW p \in Path, NEW d \in Contents, Write(p, d)
  PROVE  FileInv'
<1>1. /\ UNCHANGED <<store, batch, watch, mesh, reads>>
      /\ disk' = [disk EXCEPT ![p] = d]
      /\ disk' \in [Path -> Docs \cup {None}]
      /\ changed \cup lost \subseteq changed' \cup lost'
      /\ p \in changed' \cup lost' \/ (watch = "off" /\ reads[p] = <<Asked>>)
  BY ContentsType DEF Write, FileInv, FileShape
<1>2. StoreInv'
  BY <1>1, StutterInv DEF FileInv
<1>3. FileShape'
  BY <1>1 DEF FileInv, FileShape
<1>4. FirstRead' /\ OnlyMeshReads'
  BY <1>1 DEF FileInv, FirstRead, OnlyMeshReads, store
<1>5. \A q \in Path : q # p => disk'[q] = disk[q]
  BY <1>1 DEF FileInv, FileShape
<1>6. reads[p] = <<Asked>> => 1 \in DOMAIN reads[p] /\ Len(reads[p]) = 1 /\ reads[p][1] = Asked
  OBVIOUS
<1>7. OneGoodRead'
  BY <1>1, <1>5, <1>6 DEF FileInv, OneGoodRead
<1>8. ASSUME NEW q \in Path
      PROVE  Accounted(q)'
  <2>1. WatcherThrew' <=> WatcherThrew
    BY <1>1 DEF WatcherThrew, store
  <2>2. CASE q = p
    BY <1>1, <1>6, <2>2 DEF Accounted
  <2>3. CASE q # p
    <3>1. Accounted(q)
      BY OutdatedIsAccounted DEF FileInv
    <3>2. Current(q) => Current(q)'
      BY <1>1, <1>5, <2>3 DEF Current, store
    <3> QED BY <1>1, <1>5, <2>1, <2>3, <3>1, <3>2 DEF Accounted
  <2> QED BY <2>2, <2>3
<1> QED BY <1>2, <1>3, <1>4, <1>7, <1>8, OutdatedIsAccounted DEF FileInv, OutdatedIsPending,
           Accounted

\* A step that leaves the store, the files and the reads alone
LEMMA ReportInv ==
  ASSUME FileInv, UNCHANGED <<store, disk, mesh, reads>>, FileShape',
         changed' \cup batch' \cup lost' = changed \cup batch \cup lost,
         changed' \cup lost' = changed \cup lost \/ OneGoodRead',
         watch' # "off", watch = "dead" => watch' = "dead"
  PROVE  FileInv'
<1>1. StoreInv'
  BY StutterInv DEF FileInv
<1>2. OneGoodRead' /\ FirstRead' /\ OnlyMeshReads'
  BY DEF FileInv, OneGoodRead, FirstRead, OnlyMeshReads
<1>3. WatcherThrew' <=> WatcherThrew
  BY DEF WatcherThrew, store
<1>4. OutdatedIsPending'
  BY <1>3 DEF FileInv, OutdatedIsPending, Current, store
<1> QED BY <1>1, <1>2, <1>4 DEF FileInv

LEMMA ReloadFileInv ==
  ASSUME FileInv, NEW p \in Path, Reload(p)
  PROVE  FileInv'
<1>1. /\ watch = "busy" /\ ChangeFile(p, disk[p]) /\ disk[p] \in Docs \cup {None}
      /\ UNCHANGED <<disk, changed, mesh, reads, lost>>
  BY DEF Reload, FileInv, FileShape, remote
<1>2. StoreInv'
  BY <1>1, ChangeFileReindexes, ReloadInv DEF FileInv, StoreInv
<1>3. FileShape' /\ watch' # "off"
  BY <1>1 DEF Reload, FileInv, FileShape
<1>4. OneGoodRead' /\ FirstRead' /\ OnlyMeshReads'
  BY <1>1, <1>3 DEF FileInv, OneGoodRead, FirstRead, OnlyMeshReads
<1>5. files' = [files EXCEPT ![p] = disk[p]] /\ files \in [Path -> Docs \cup {None}]
  BY <1>1 DEF ChangeFile, FileInv, StoreInv, TypeOK
<1>6. ASSUME NEW q \in Path
      PROVE  Accounted(q)'
  <2>1. CASE WatcherThrew'
    BY <2>1 DEF Accounted, Reload
  <2>2. CASE q = p
    BY <1>1, <1>5, <2>2 DEF Accounted, Current
  <2>3. CASE ~WatcherThrew' /\ q # p
    <3>1. Accounted(q) /\ batch' = batch \ {p}
      BY <2>3, OutdatedIsAccounted DEF FileInv, Reload
    <3>2. Current(q) => Current(q)'
      BY <1>1, <1>5, <2>3 DEF Current
    <3> QED BY <1>1, <2>3, <3>1, <3>2 DEF Accounted
  <2> QED BY <2>1, <2>2, <2>3
<1> QED BY <1>2, <1>3, <1>4, <1>6, OutdatedIsAccounted DEF FileInv, OutdatedIsPending, Accounted

LEMMA ReadInv ==
  ASSUME FileInv, NEW p \in Path, NEW i \in 1..MaxReads, Read(p, i)
  PROVE  FileInv'
<1>1. /\ UNCHANGED <<store, disk, changed, batch, watch, mesh, lost>>
      /\ reads' = [reads EXCEPT ![p][i] = disk[p]]
      /\ reads[p] \in Seq(Docs \cup {None, Asked}) /\ i \in 1..Len(reads[p])
      /\ disk[p] \in Docs \cup {None}
  BY MeshAssumption DEF Read, Underway, FileInv, FileShape
<1> DEFINE now == [reads[p] EXCEPT ![i] = disk[p]]
<1>2. /\ now \in Seq(Docs \cup {None, Asked}) /\ Len(now) = Len(reads[p])
      /\ now[i] = disk[p] /\ i \in DOMAIN now
  BY <1>1
<1>3. reads' = [reads EXCEPT ![p] = now]
  BY <1>1
<1> HIDE DEF now
<1>4. /\ reads' \in [Path -> Seq(Docs \cup {None, Asked})] /\ reads'[p] = now
      /\ \A q \in Path : q # p => reads'[q] = reads[q]
  BY <1>2, <1>3 DEF FileInv, FileShape
<1>5. StoreInv' /\ FileShape'
  BY <1>1, <1>4, StutterInv DEF FileInv, FileShape
<1>6. reads[p] # <<>> /\ (now # <<>> /\ Len(now) = 1 => i = 1)
  BY <1>1, <1>2
<1>7. OneGoodRead' /\ FirstRead' /\ OnlyMeshReads'
  <2>1. OneGoodRead'
    BY <1>1, <1>2, <1>4, <1>6 DEF FileInv, OneGoodRead
  <2>2. FirstRead'
    BY <1>1, <1>2, <1>4, <1>6 DEF FileInv, FirstRead, store
  <2>3. OnlyMeshReads'
    BY <1>1, <1>4, <1>6 DEF FileInv, OnlyMeshReads
  <2> QED
    BY <2>1, <2>2, <2>3
<1>8. ASSUME NEW q \in Path
      PROVE  Accounted(q)'
  <2>1. CASE q = p
    BY <1>1, <1>2, <1>4, <2>1 DEF Accounted
  <2>2. CASE q # p
    <3>1. Accounted(q) /\ (WatcherThrew' <=> WatcherThrew) /\ (Current(q) <=> Current(q)')
      BY <1>1, OutdatedIsAccounted DEF FileInv, WatcherThrew, Current, store
    <3> QED BY <1>1, <1>4, <2>2, <3>1 DEF Accounted
  <2> QED BY <2>1, <2>2
<1> QED BY <1>5, <1>7, <1>8, OutdatedIsAccounted DEF FileInv, OutdatedIsPending, Accounted

\* The document of a read that arrives is the file's, or the file is accounted for
LEMMA ArrivesGood ==
  ASSUME FileInv, NEW p \in Path, NEW i \in 1..MaxReads, Arrives(p, i)
  PROVE  /\ mesh /\ reads[p][i] \in Docs \cup {None}
         /\ reads[p][i] = disk[p] \/ p \in changed \cup lost
         /\ reads' \in [Path -> Seq(Docs \cup {None, Asked})]
         /\ \A q \in Path : q # p => reads'[q] = reads[q]
         /\ Len(reads[p]) = 1 => reads'[p] = <<>>
         /\ p \notin changed \cup lost => reads'[p] = <<>>
<1>1. /\ reads[p][i] \in Docs \cup {None}
      /\ reads[p] # <<>> /\ i \in 1..Len(reads[p])
      /\ reads'[p] \in Seq(Docs \cup {None, Asked})
      /\ Len(reads'[p]) = Len(reads[p]) - 1
      /\ \A q \in Path : q # p => reads'[q] = reads[q]
      /\ reads' \in [Path -> Seq(Docs \cup {None, Asked})]
  BY ArrivesFacts DEF FileInv
<1>2. reads[p][i] # Asked
  BY <1>1, MeshAssumption
<1>3. Len(reads[p]) = 1 => reads'[p] = <<>> /\ i = 1
  BY <1>1
<1> QED BY <1>1, <1>2, <1>3 DEF FileInv, OneGoodRead, OnlyMeshReads

\* The store takes in what a read brings, or leaves the file alone
LEMMA ArrivalInv ==
  ASSUME FileInv, NEW p \in Path, NEW i \in 1..MaxReads, Arrives(p, i), StoreInv',
         UNCHANGED <<disk, changed, batch, watch, mesh, lost>>, watch # "dead",
         files' = [files EXCEPT ![p] = reads[p][i]]
           \/ (UNCHANGED files /\ files[p] = None /\ ~Loadable(reads[p][i])),
         watch = "off" => Len(reads[p]) = 1
  PROVE  FileInv'
<1>1. /\ mesh
      /\ reads[p][i] = disk[p] \/ p \in changed \cup lost
      /\ reads' \in [Path -> Seq(Docs \cup {None, Asked})]
      /\ \A q \in Path : q # p => reads'[q] = reads[q]
      /\ Len(reads[p]) = 1 => reads'[p] = <<>>
      /\ p \notin changed \cup lost => reads'[p] = <<>>
  BY ArrivesGood
<1>2. files \in [Path -> Docs \cup {None}]
  BY DEF FileInv, StoreInv, TypeOK
<1>3. \A q \in Path : q # p => files'[q] = files[q]
  BY <1>2
<1>4. FileShape'
  BY <1>1 DEF FileInv, FileShape
<1>5. OneGoodRead' /\ FirstRead' /\ OnlyMeshReads'
  BY <1>1, <1>3 DEF FileInv, OneGoodRead, FirstRead, OnlyMeshReads
<1>6. ASSUME NEW q \in Path
      PROVE  Accounted(q)'
  <2>1. CASE q = p
    BY <1>1, <1>2, <2>1 DEF Accounted, Current
  <2>2. CASE q # p
    <3>1. Accounted(q) /\ (Current(q) <=> Current(q)')
      BY <1>3, <2>2, OutdatedIsAccounted DEF FileInv, Current
    <3> QED BY <1>1, <2>2, <3>1 DEF Accounted
  <2> QED BY <2>1, <2>2
<1> QED BY <1>4, <1>5, <1>6, OutdatedIsAccounted DEF FileInv, OutdatedIsPending, Accounted

LEMMA FollowInv ==
  ASSUME FileInv, NEW p \in Path, NEW i \in 1..MaxReads, Follow(p, i)
  PROVE  FileInv'
<1>1. /\ Arrives(p, i) /\ ChangeFile(p, reads[p][i]) /\ watch = "armed"
      /\ UNCHANGED <<disk, changed, batch, watch, mesh, lost>>
  BY DEF Follow
<1>2. StoreInv'
  BY <1>1, ArrivesGood, ChangeFileReindexes, ReloadInv DEF FileInv, StoreInv
<1>3. files' = [files EXCEPT ![p] = reads[p][i]]
  BY <1>1 DEF ChangeFile
<1> QED BY <1>1, <1>2, <1>3, ArrivalInv

LEMMA LoadInv ==
  ASSUME FileInv, NEW p \in Path, NEW i \in 1..MaxReads, Load(p, i)
  PROVE  FileInv' /\ list \subseteq list'
<1>1. /\ Arrives(p, i) /\ watch = "off"
      /\ UNCHANGED <<disk, changed, batch, watch, mesh, lost>>
  BY DEF Load
<1>2. Len(reads[p]) = 1 /\ files[p] = None
  BY <1>1, ArrivesFacts DEF FileInv, FirstRead
<1>3. CASE Loadable(reads[p][i])
  <2>1. LoadFile(p, reads[p][i]) /\ reads[p][i] \in Docs \cup {None}
    BY <1>1, <1>3, ArrivesGood DEF Load
  <2>2. StoreInv' /\ files' = [files EXCEPT ![p] = reads[p][i]]
    BY <1>2, <2>1, LoadFileInv DEF FileInv
  <2>3. list \subseteq list'
    BY <2>1 DEF LoadFile, Appended
  <2> QED BY <1>1, <1>2, <2>2, <2>3, ArrivalInv
<1>4. CASE ~Loadable(reads[p][i])
  <2>1. UNCHANGED store
    BY <1>4 DEF Load
  <2>2. StoreInv' /\ UNCHANGED <<files, list>>
    BY <2>1, StutterInv DEF FileInv, store
  <2> QED BY <1>1, <1>2, <1>4, <2>2, ArrivalInv
<1> QED BY <1>3, <1>4

LEMMA WatchInv ==
  ASSUME FileInv, WatchResolves \/ BeginWatch
  PROVE  FileInv'
<1>1. UNCHANGED <<store, disk, mesh, reads, lost>>
  BY DEF WatchResolves, BeginWatch, remote
<1>2. CASE WatchResolves
  <2>1. /\ ~mesh /\ watch = "armed" /\ watch' = "busy" /\ changed # {}
        /\ batch' = changed /\ changed' = {} /\ batch = {}
    BY <1>2 DEF WatchResolves, FileInv, FileShape
  <2>2. FileShape' /\ OneGoodRead'
    BY <1>1, <2>1 DEF FileInv, FileShape, OneGoodRead, OnlyMeshReads
  <2> QED BY <1>1, <2>1, <2>2, ReportInv
<1>3. CASE BeginWatch
  <2>1. /\ watch = "off" /\ watch' = "armed" /\ UNCHANGED <<changed, batch>>
    BY <1>3 DEF BeginWatch
  <2>2. FileShape'
    BY <1>1, <2>1 DEF FileInv, FileShape
  <2> QED BY <1>1, <2>1, <2>2, ReportInv
<1> QED BY <1>2, <1>3

LEMMA MeshInv ==
  ASSUME FileInv, MeshResolves
  PROVE  FileInv'
<1>1. /\ mesh /\ watch = "armed" /\ changed' = {}
      /\ lost' = (lost \ changed) \cup {p \in changed : reads[p] # <<>>}
      /\ UNCHANGED <<store, disk, batch, watch, mesh>>
      /\ \A p \in Path : reads'[p] = IF p \in changed THEN Append(reads[p], Asked) ELSE reads[p]
  BY DEF MeshResolves
<1>2. ASSUME NEW p \in Path, p \in changed
      PROVE  /\ reads'[p] \in Seq(Docs \cup {None, Asked})
             /\ \E i \in DOMAIN reads'[p] : reads'[p][i] = Asked
             /\ reads[p] = <<>> => Len(reads'[p]) = 1 /\ reads'[p][1] = Asked
  <2> DEFINE Item == Docs \cup {None, Asked}
  <2>1. reads[p] \in Seq(Item) /\ Asked \in Item /\ reads'[p] = Append(reads[p], Asked)
    BY <1>1, <1>2 DEF FileInv, FileShape
  <2> HIDE DEF Item
  <2>2. /\ Append(reads[p], Asked) \in Seq(Item)
        /\ Len(Append(reads[p], Asked)) = Len(reads[p]) + 1
        /\ Append(reads[p], Asked)[Len(reads[p]) + 1] = Asked
        /\ Len(reads[p]) + 1 \in 1..(Len(reads[p]) + 1)
        /\ reads[p] = <<>> => Len(reads[p]) = 0
    BY <2>1
  <2>3. Len(reads[p]) + 1 \in DOMAIN reads'[p]
    BY <2>1, <2>2
  <2>4. reads'[p] \in Seq(Docs \cup {None, Asked})
    BY <2>1, <2>2 DEF Item
  <2> QED BY <2>1, <2>2, <2>3, <2>4
<1>3. FileShape'
  <2>1. reads' \in [Path -> Seq(Docs \cup {None, Asked})]
    BY <1>1, <1>2 DEF MeshResolves, FileInv, FileShape
  <2> QED BY <1>1, <2>1 DEF FileInv, FileShape
<1>4. StoreInv'
  BY <1>1, StutterInv DEF FileInv
<1>5. OneGoodRead' /\ FirstRead' /\ OnlyMeshReads'
  BY <1>1, <1>2 DEF FileInv, OneGoodRead, FirstRead, OnlyMeshReads
<1>6. ASSUME NEW p \in Path
      PROVE  Accounted(p)'
  <2>1. CASE p \in changed
    BY <1>2, <2>1 DEF Accounted
  <2>2. CASE p \notin changed
    <3>1. Accounted(p) /\ (Current(p) <=> Current(p)')
      BY <1>1, OutdatedIsAccounted DEF FileInv, Current, store
    <3> QED BY <1>1, <2>2, <3>1 DEF Accounted
  <2> QED BY <2>1, <2>2
<1> QED BY <1>3, <1>4, <1>5, <1>6, OutdatedIsAccounted DEF FileInv, OutdatedIsPending, Accounted

LEMMA FileStutterInv == FileInv /\ UNCHANGED vars => FileInv'
<1> SUFFICES ASSUME FileInv, UNCHANGED vars PROVE FileInv'
  OBVIOUS
<1>1. StoreInv'
  BY StutterInv DEF FileInv, vars
<1>2. FileShape' /\ OneGoodRead' /\ FirstRead' /\ OnlyMeshReads'
  BY DEF FileInv, FileShape, OneGoodRead, FirstRead, OnlyMeshReads, vars, store, remote
<1>3. OutdatedIsPending'
  BY DEF FileInv, OutdatedIsPending, Current, WatcherThrew, vars, store, remote
<1> QED BY <1>1, <1>2, <1>3 DEF FileInv

\* The inductive invariant of the store with its files
THEOREM FileStoreInvariant == FileSpec => []FileInv
<1>1. FileInit => FileInv
  BY FileInitInv
<1>2. FileInv /\ [FileNext]_vars => FileInv'
  BY WriteInv, WatchInv, ReloadFileInv, ReadInv, LoadInv, FollowInv, MeshInv, FileStutterInv
     DEF FileNext, WriteSome, ReloadSome, ReadSome
<1> QED BY <1>1, <1>2, PTL DEF FileSpec

\* Over a directory or a mesh the variables of the store keep their types
THEOREM StoreTypeCorrect == FileSpec => []TypeOK
<1>1. FileInv => TypeOK
  BY DEF FileInv, StoreInv
<1> QED BY <1>1, FileStoreInvariant, PTL

\* What the directory, the watch and the history are made of
WatchShape ==
  /\ mesh \in BOOLEAN /\ changed \subseteq Path /\ batch \subseteq Path /\ lost \subseteq Path
  /\ watch \in {"off", "armed", "busy", "dead"}

\* ... and so do the files, the watch and the reads: it is busy while its loop has
\* something left to load, and only then (resources.js:65-73, 202-235)
THEOREM FileTypeCorrect == FileSpec => []FileTypeOK
<1>1. FileInit => WatchShape
  BY DEF FileInit, WatchShape
<1>2. WatchShape /\ [FileNext]_vars => WatchShape'
  BY DEF WatchShape, FileNext, WriteSome, Write, WatchResolves, ReloadSome, Reload, ReadSome, Read,
         Load, Follow, BeginWatch, MeshResolves, remote, vars
<1>3. FileInv /\ WatchShape => FileTypeOK
  BY DEF FileInv, StoreInv, FileShape, WatchShape, FileTypeOK
<1> QED BY <1>1, <1>2, <1>3, FileStoreInvariant, PTL DEF FileSpec

\* ... find() never returns a dead or foreign resource (resources.js:122-165)
THEOREM FindAlwaysLive == FileSpec => []FindIsLive
<1>1. FileInv => FindIsLive
  BY DEF FileInv, StoreInv
<1> QED BY <1>1, FileStoreInvariant, PTL

\* ... list() is what files[] remembers (resources.js:99-120)
THEOREM ListAlwaysFiles == FileSpec => []ListIsFiles
<1>1. FileInv => ListIsFiles
  BY DEF FileInv, StoreInv
<1> QED BY <1>1, FileStoreInvariant, PTL

\* ... a live resource whose name never clashed can be found (resources.js:139)
THEOREM FoundUnlessEverClashed == FileSpec => []FoundUnlessClashed
<1>1. FileInv => FoundUnlessClashed
  BY DEF FileInv, StoreInv
<1> QED BY <1>1, FileStoreInvariant, PTL

\* ... and a file the store is behind on is about to be loaded, but for a dead watch and
\* reads that overlapped or came before the watch (resources.js:65-73, 199-235)
THEOREM OutdatedAlwaysPending == FileSpec => []OutdatedIsPending
<1>1. FileInv => OutdatedIsPending
  BY DEF FileInv
<1> QED BY <1>1, FileStoreInvariant, PTL

\* No resource leaves the list unannounced, except for a document without a
\* kind (changeFile, resources.js:106-119)
THEOREM RemovalAlwaysTold == FileSpec => RemovalTold
<1> DEFINE Told == \A r \in list \ list' :
                     \/ \E i \in 1..Len(notices') : notices'[i].old = r
                     \/ files'[r.path] # None /\ ~Kinded(files'[r.path])
<1>1. ASSUME FileInv, NEW p \in Path, NEW d \in Docs \cup {None}, ChangeFile(p, d)
      PROVE  Told
  BY <1>1, ReloadTellsRemoval DEF FileInv
<1>2. ASSUME FileInv, NEW p \in Path, Reload(p)
      PROVE  Told
  BY <1>1, <1>2 DEF Reload, FileInv, FileShape
<1>3. ASSUME FileInv, NEW p \in Path, NEW i \in 1..MaxReads, Follow(p, i)
      PROVE  Told
  BY <1>1, <1>3, ArrivesGood DEF Follow
<1>4. ASSUME FileInv, NEW p \in Path, NEW i \in 1..MaxReads, Load(p, i)
      PROVE  Told
  BY <1>4, LoadInv
<1>5. UNCHANGED store => [Told]_store
  OBVIOUS
<1>6. FileInv /\ [FileNext]_vars => [Told]_store
  BY <1>2, <1>3, <1>4, <1>5 DEF FileNext, WriteSome, Write, WatchResolves, ReloadSome, ReadSome, Read,
     BeginWatch, MeshResolves, vars
<1> QED BY <1>6, FileStoreInvariant, PTL DEF FileSpec, RemovalTold

\* One reload announces the resource it adds, unless the watcher throws before
LEMMA ReloadTellsAddition ==
  ASSUME StoreInv, NEW p \in Path, NEW cur \in Docs \cup {None}, ChangeFile(p, cur),
         NEW r \in list' \ list
  PROVE  WatcherThrew' \/ \E i \in 1..Len(notices') : notices'[i].new = r
<1> DEFINE old == files[p]
<1>1. r = At(p, cur) /\ Kinded(cur)
  BY ChangeFileReindexes, ListAfterReload DEF StoreInv
<1>2. \/ notices' = <<NotifyUpdate(p, cur, old)>>
      \/ notices' = <<NotifyDelete(p, old)>> /\ Throws(NotifyDelete(p, old))
      \/ notices' = <<NotifyDelete(p, old), NotifyCreate(p, cur)>>
      \/ notices' = <<NotifyCreate(p, cur)>>
  BY <1>1 DEF ChangeFile, NoticesOf, Kinded
<1>3. NotifyCreate(p, cur).new = r /\ NotifyUpdate(p, cur, old).new = r
  BY <1>1 DEF NotifyCreate, NotifyUpdate
<1>4. ASSUME NEW n, notices' = <<n>>
      PROVE  1 \in 1..Len(notices') /\ notices'[1] = n
  BY <1>4
<1>5. ASSUME NEW m, NEW n, notices' = <<m, n>>
      PROVE  2 \in 1..Len(notices') /\ notices'[2] = n
  BY <1>5
<1>6. ASSUME NEW n, notices' = <<n>>, Throws(n)
      PROVE  WatcherThrew'
  <2>1. \E i \in 1..Len(notices') : Throws(notices'[i])
    BY <1>4, <1>6
  <2> QED BY <2>1 DEF WatcherThrew, Throws
<1> HIDE DEF old
<1> QED BY <1>2, <1>3, <1>4, <1>5, <1>6

\* A resource appears in the list of a store that is watched with a notice that names it as
\* the new one, unless the watcher threw on the notice before it.
AdditionTold ==
  [][\A r \in list' \ list :
       \/ watch = "off" \/ WatcherThrew'
       \/ \E i \in 1..Len(notices') : notices'[i].new = r]_vars

(* What is added is announced as well as what is removed: only an exception  *)
(* of the watcher on the removal of what the file held before keeps it from  *)
(* hearing of what the file holds now (changeFile, resources.js:106-119).    *)
THEOREM AdditionAlwaysTold == FileSpec => AdditionTold
<1> DEFINE Told == \A r \in list' \ list :
                     \/ watch = "off" \/ WatcherThrew'
                     \/ \E i \in 1..Len(notices') : notices'[i].new = r
<1>1. ASSUME FileInv, NEW p \in Path, NEW d \in Docs \cup {None}, ChangeFile(p, d)
      PROVE  Told
  BY <1>1, ReloadTellsAddition DEF FileInv
<1>2. ASSUME FileInv, NEW p \in Path, Reload(p)
      PROVE  Told
  BY <1>1, <1>2 DEF Reload, FileInv, FileShape
<1>3. ASSUME FileInv, NEW p \in Path, NEW i \in 1..MaxReads, Follow(p, i)
      PROVE  Told
  BY <1>1, <1>3, ArrivesGood DEF Follow
<1>4. ASSUME NEW p \in Path, NEW i \in 1..MaxReads, Load(p, i)
      PROVE  Told
  BY <1>4 DEF Load
<1>5. ASSUME UNCHANGED store PROVE Told
  BY <1>5 DEF store
<1>6. FileInv /\ [FileNext]_vars => [Told]_vars
  BY <1>2, <1>3, <1>4, <1>5 DEF FileNext, WriteSome, Write, WatchResolves, ReloadSome, ReadSome, Read,
     BeginWatch, MeshResolves, vars
<1> QED BY <1>6, FileStoreInvariant, PTL DEF FileSpec, AdditionTold

(* The store over a directory or a mesh is a store: every step of the files, *)
(* of the watch and of the reads is a reload, a first load in silence, or    *)
(* leaves the store alone, so that whatever holds of StoreSpec holds of it   *)
(* (init, initZTM, changeFile).                                              *)
THEOREM FileStoreIsStore == FileSpec => StoreSpec
<1>1. FileInit => Init
  <2> SUFFICES ASSUME FileInit PROVE Init
    OBVIOUS
  <2> DEFINE content == IF mesh THEN [p \in Path |-> None] ELSE disk
  <2>1. disk \in [Path -> Docs \cup {None}]
    BY ContentsType DEF FileInit
  <2>2. content \in [Path -> Docs \cup {None}] /\ StoreInit(content)
    BY <2>1 DEF FileInit
  <2> QED BY <2>2 DEF Init
<1>2. ASSUME FileInv, NEW p \in Path, Reload(p)
      PROVE  Next
  <2>1. ChangeFile(p, disk[p]) /\ disk[p] \in Docs \cup {None}
    BY <1>2 DEF Reload, FileInv, FileShape
  <2> QED BY <2>1 DEF Next
<1>3. ASSUME FileInv, NEW p \in Path, NEW i \in 1..MaxReads, Follow(p, i)
      PROVE  Next
  <2>1. ChangeFile(p, reads[p][i]) /\ reads[p][i] \in Docs \cup {None}
    BY <1>3, ArrivesGood DEF Follow
  <2> QED BY <2>1 DEF Next
<1>4. ASSUME FileInv, NEW p \in Path, NEW i \in 1..MaxReads, Load(p, i)
      PROVE  [Next]_store
  <2>1. files[p] = None /\ reads[p][i] \in Docs \cup {None}
    BY <1>4, ArrivesGood, ArrivesFacts DEF Load, FileInv, FirstRead
  <2>2. CASE Loadable(reads[p][i])
    BY <1>4, <2>1, <2>2 DEF Load, Next
  <2>3. CASE ~Loadable(reads[p][i])
    BY <1>4, <2>3 DEF Load
  <2> QED BY <2>2, <2>3
<1>5. UNCHANGED store => [Next]_store
  OBVIOUS
<1>6. FileInv /\ [FileNext]_vars => [Next]_store
  BY <1>2, <1>3, <1>4, <1>5 DEF FileNext, WriteSome, Write, WatchResolves, ReloadSome, ReadSome, Read,
     BeginWatch, MeshResolves, vars
<1> QED BY <1>1, <1>6, FileStoreInvariant, PTL DEF FileSpec, StoreSpec
=============================================================================
