----------------------------- MODULE FileStore -----------------------------
(***************************************************************************)
(* The resource store over a place where other processes write files.      *)
(*                                                                         *)
(* A directory (src/resources.js, init(), with --watch): pipy.watch()      *)
(* resolves with the paths that changed, each of them is read again in one *)
(* synchronous loop, and only then is the watch armed again.               *)
(*                                                                         *)
(* A mesh (initZTM()): files are read by promises, that are resolved in    *)
(* any order, each with what the file held at some moment in between.  The *)
(* watch begins when all files found at the start were read, and is armed  *)
(* again at once when it resolves, before the reads it has asked for.      *)
(*                                                                         *)
(* A file that does not exist, cannot be parsed or is no JSON or YAML      *)
(* reads as undefined.                                                     *)
(***************************************************************************)
EXTENDS ResourceStore, FiniteSets, SequencesExt

CONSTANTS MeshDocs,  \* the documents that files of a mesh hold here
          Asked,     \* a read that was asked for
          MaxReads   \* bound: reads of a mesh under way

ASSUME MeshAssumption ==
  MeshDocs \subseteq Docs /\ Asked \notin Docs \cup {None} /\ MaxReads \in Nat

VARIABLES mesh,     \* whether the files are those of a mesh
          disk,     \* what readFile() would return for each path
          changed,  \* paths written since the watch last resolved
          batch,    \* paths the current loop has still to load
          watch,    \* "off", "armed", "busy" in the loop, or "dead"
          reads,    \* of a mesh, for each path: Asked, or the document on its way
          lost      \* history: paths of a mesh that the reads may leave outdated

remote == <<mesh, reads, lost>>
vars == <<store, disk, changed, batch, watch, remote>>

Contents == (IF mesh THEN MeshDocs ELSE Docs) \cup {None}

\* The records have their types, and the loop is busy while it has something to load.
FileTypeOK ==
  /\ TypeOK
  /\ mesh \in BOOLEAN /\ disk \in [Path -> Docs \cup {None}]
  /\ changed \subseteq Path /\ batch \subseteq Path /\ lost \subseteq Path
  /\ watch \in {"off", "armed", "busy", "dead"}
  /\ (watch = "busy") <=> (batch # {})
  /\ reads \in [Path -> Seq(Docs \cup {None, Asked})]

----------------------------------------------------------------------------
(* A mesh lists its files before it reads any of them *)
FileInit ==
  /\ mesh \in BOOLEAN /\ disk \in [Path -> Contents]
  /\ changed = {} /\ batch = {} /\ lost = {}
  /\ StoreInit(IF mesh THEN [p \in Path |-> None] ELSE disk)
  /\ watch = IF mesh THEN "off" ELSE "armed"
  /\ reads = [p \in Path |-> IF mesh /\ disk[p] # None THEN <<Asked>> ELSE <<>>]

\* Another process writes, breaks or removes a file.  Nobody is told as long as there is
\* no watch, and a read that is on its way already does not see it.
Write(p, d) ==
  /\ disk' = [disk EXCEPT ![p] = d]
  /\ IF watch = "off"
     THEN /\ lost' = IF reads[p] = <<Asked>> THEN lost ELSE lost \cup {p}
          /\ UNCHANGED changed
     ELSE changed' = changed \cup {p} /\ UNCHANGED lost
  /\ UNCHANGED <<store, batch, watch, mesh, reads>>

----------------------------------------------------------------------------
(* The directory *)

\* The promise of pipy.watch() resolves
WatchResolves ==
  /\ ~mesh /\ watch = "armed" /\ changed # {}
  /\ watch' = "busy" /\ batch' = changed /\ changed' = {}
  /\ UNCHANGED <<store, disk, remote>>

\* Mutant: only the first path of a batch is loaded
ReloadFirst(p) ==
  /\ watch = "busy" /\ p \in batch
  /\ ChangeFile(p, disk[p])
  /\ batch' = {}
  /\ watch' = IF WatcherThrew' THEN "dead" ELSE "armed"
  /\ UNCHANGED <<disk, changed, remote>>

\* Mutant: the watch is not armed again
ReloadOnce(p) ==
  /\ watch = "busy" /\ p \in batch
  /\ ChangeFile(p, disk[p])
  /\ batch' = batch \ {p}
  /\ watch' = IF WatcherThrew' THEN "dead" ELSE "busy"
  /\ UNCHANGED <<disk, changed, remote>>

\* One iteration of pathnames.forEach().  An exception leaves the loop and
\* skips the call that arms the watch again.
Reload(p) ==
  /\ watch = "busy" /\ p \in batch
  /\ ChangeFile(p, disk[p])
  /\ batch' = IF WatcherThrew' THEN {} ELSE batch \ {p}
  /\ watch' = IF WatcherThrew' THEN "dead" ELSE IF batch' = {} THEN "armed" ELSE "busy"
  /\ UNCHANGED <<disk, changed, remote>>

----------------------------------------------------------------------------
(* The mesh *)

Underway == {r \in Path \X (1..MaxReads) : r[2] <= Len(reads[r[1]])}

\* What the file holds is on its way now
Read(p, i) ==
  /\ <<p, i>> \in Underway /\ reads[p][i] = Asked
  /\ reads' = [reads EXCEPT ![p][i] = disk[p]]
  /\ UNCHANGED <<store, disk, changed, batch, watch, mesh, lost>>

Arrives(p, i) == /\ <<p, i>> \in Underway /\ reads[p][i] # Asked
                 /\ reads' = [reads EXCEPT ![p] = RemoveAt(@, i)]

\* A file found at the start: loaded if it has a kind and a spec, and not announced
Load(p, i) ==
  /\ watch = "off" /\ Arrives(p, i)
  /\ IF Loadable(reads[p][i]) THEN LoadFile(p, reads[p][i]) ELSE UNCHANGED store
  /\ UNCHANGED <<disk, changed, batch, watch, mesh, lost>>

\* When all of them are loaded the watch begins
BeginWatch ==
  /\ watch = "off" /\ Underway = {} /\ watch' = "armed"
  /\ UNCHANGED <<store, disk, changed, batch, remote>>

\* The watch resolves and is armed again; a read that overtakes another one of its file
\* may be followed by what that file held before
MeshResolves ==
  /\ mesh /\ watch = "armed" /\ changed # {}
  /\ Cardinality(Underway) + Cardinality(changed) <= MaxReads
  /\ reads' = [p \in Path |-> IF p \in changed THEN Append(reads[p], Asked) ELSE reads[p]]
  /\ lost' = (lost \ changed) \cup {p \in changed : reads[p] # <<>>}
  /\ changed' = {}
  /\ UNCHANGED <<store, disk, batch, watch, mesh>>

\* An exception of the watcher stays in the promise of this file
Follow(p, i) ==
  /\ mesh /\ watch = "armed" /\ Arrives(p, i)
  /\ ChangeFile(p, reads[p][i])
  /\ UNCHANGED <<disk, changed, batch, watch, mesh, lost>>

----------------------------------------------------------------------------
WriteSome == \E p \in Path, d \in Contents : Write(p, d)
ReloadSome == \E p \in Path : Reload(p)
ReadSome == \E p \in Path, i \in 1..MaxReads : Read(p, i) \/ Load(p, i) \/ Follow(p, i)

FileNext == WriteSome \/ WatchResolves \/ ReloadSome \/ ReadSome \/ BeginWatch \/ MeshResolves

\* The event loop keeps resolving promises and runs its loop to the end
FileSpec == /\ FileInit /\ [][FileNext]_vars
            /\ WF_vars(WatchResolves) /\ WF_vars(ReloadSome)
            /\ WF_vars(ReadSome) /\ WF_vars(BeginWatch) /\ WF_vars(MeshResolves)

----------------------------------------------------------------------------
\* What the store holds of a file is what the file holds, or the file was
\* passed over at start-up, which wants a kind and a spec (resources.js:57, 208).
Current(p) == \/ files[p] = disk[p]
              \/ files[p] = None /\ ~Loadable(disk[p])

\* A file the store is behind on is about to be loaded: by the watch, unless that died of
\* an exception of the resource watcher, or by a read of the mesh, unless two reads of it
\* overlapped or it was written before there was a watch (resources.js:65-73, 199-235).
OutdatedIsPending ==
  \A p \in Path : \/ Current(p)
                  \/ p \in changed \cup batch \cup lost
                  \/ \E i \in DOMAIN reads[p] : reads[p][i] \in {Asked, disk[p]}
                  \/ watch = "dead" /\ WatcherThrew

\* Once the files are left alone the store catches up with all of them, or the watch is
\* dead; in a mesh all but those last read by reads that overlapped, or last written
\* before the watch began.
CatchesUp ==
  <>[][~WriteSome]_vars => <>[](watch = "dead" \/ \A p \in Path : Current(p) \/ p \in lost)
=============================================================================
