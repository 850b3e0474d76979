----------------------------- MODULE RepoClient ----------------------------
(***************************************************************************)
(* The program that fills the repository of Pipy with the scripts of the   *)
(* gateway (main.go, pkg/repo/client.go, pkg/config/utils.go): it waits    *)
(* for the repository, uploads its release into the base codebase, derives *)
(* the local one from it, and 15 seconds later sets a new version in       *)
(* config.json, so that clients load again.                                *)
(*                                                                         *)
(* Every call is a request that the repository may refuse and that may     *)
(* time out with or without having had its effect.  Each call is one step, *)
(* from the answer to the former; the program may end between any two and  *)
(* is started again, of the same release or another one.                   *)
(***************************************************************************)
EXTENDS Integers, FiniteSets

CONSTANTS File, ConfigFile, NoText, Garbage, Release,
          Ships,        \* [Release -> SUBSET File], what a release consists of
          MaxVersion    \* bound: versions of the base codebase

ASSUME RepoAssumption ==
  /\ ConfigFile \in File /\ Ships \in [Release -> SUBSET File] /\ MaxVersion \in Nat
  /\ \A r \in Release : ConfigFile \in Ships[r]
  /\ NoText \notin Release /\ Garbage \notin Release /\ NoText # Garbage

VARIABLES
  release,   \* the release that runs, or the last one that ran
  at,        \* the call that is next
  todo,      \* files of the batch that are still to be uploaded
  text,      \* config.json as read by GetFile
  seen,      \* the version of the codebase as read or assumed
  base,      \* the base codebase: its version, zero when there is none, the files
             \* uploaded and those committed
  local,     \* the derived codebase: "none", "derived" or "committed"
  committed, \* history: the release that was committed last
  misread    \* history: config.json was read from an error page

repoVars == <<release, at, todo, text, seen, base, local, committed, misread>>

server == <<base, local, committed>>

Idle == {"down", "ready", "bumped"}

Empty == [f \in File |-> NoText]

----------------------------------------------------------------------------
(* Calls *)

\* An error ends the program, and only the goroutine when it comes from there
Failed == IF text = NoText THEN "down" ELSE "bumped"

\* A call that has its effect, and is answered or not, or is refused
Call(effect, next) ==
  \/ effect /\ at' \in {next, Failed}
  \/ UNCHANGED server /\ at' = Failed

\* A program that ends leaves nothing but what the server has
Crash ==
  /\ at \notin Idle /\ at' = "down"
  /\ UNCHANGED <<release, todo, text, seen, server, misread>>

Start(r) ==
  /\ at \in Idle /\ at' = "wait" /\ release' = r /\ todo' = Ships[r] /\ text' = NoText
  /\ UNCHANGED <<seen, server, misread>>

\* IsRepoUp(), every 5 seconds for 5 minutes: any answer counts
RepoUp ==
  /\ at = "wait" /\ at' \in {"exists", "down"}
  /\ UNCHANGED <<release, todo, text, seen, server, misread>>

\* codebaseExists(): anything but a 200 counts as a no
Exists ==
  /\ at \in {"exists", "bumpExists"}
  /\ \/ base.version > 0 /\ seen' = base.version /\ at' = "upload"
     \/ at' = "create" /\ UNCHANGED seen
  /\ UNCHANGED <<release, todo, text, server, misread>>

\* createCodebase(): the repository refuses to create what there is
Create ==
  /\ at = "create"
  /\ Call(/\ base.version = 0 /\ base' = [base EXCEPT !.version = 1]
          /\ UNCHANGED <<local, committed>>, "created")
  /\ UNCHANGED <<release, todo, text, seen, misread>>

\* get() looks at no status: a page that is not the codebase makes a version of zero
Created ==
  /\ at = "created"
  /\ \/ at' = "upload" /\ seen' \in {base.version, 0}
     \/ at' = Failed /\ UNCHANGED seen
  /\ UNCHANGED <<release, todo, text, server, misread>>

Text(f) == IF text # NoText THEN text ELSE release

\* Mutant: an upload that failed is passed over
UploadAnyway(f) ==
  /\ at = "upload" /\ f \in todo /\ todo' = todo \ {f} /\ at' = "upload"
  /\ \/ base' = [base EXCEPT !.draft[f] = Text(f)] /\ UNCHANGED <<local, committed>>
     \/ UNCHANGED server
  /\ UNCHANGED <<release, text, seen, misread>>

Upload(f) ==
  /\ at = "upload" /\ f \in todo /\ todo' = todo \ {f}
  /\ Call(base' = [base EXCEPT !.draft[f] = Text(f)] /\ UNCHANGED <<local, committed>>, "upload")
  /\ UNCHANGED <<release, text, seen, misread>>

\* Mutant: the version is committed as it was read
SameVersion == seen

NextVersion == seen + 1

\* The batch is committed; after the one of the start the local codebase comes next
Commit ==
  /\ at = "upload" /\ todo = {} /\ base.version < MaxVersion
  /\ Call(/\ base' = [base EXCEPT !.version = NextVersion, !.live = base.draft]
          /\ committed' = release /\ UNCHANGED local,
          IF text = NoText THEN "localExists" ELSE "bumped")
  /\ UNCHANGED <<release, todo, text, seen, misread>>

\* DeriveCodebase(): nothing is done when the codebase exists
LocalExists ==
  /\ at = "localExists"
  /\ \/ local # "none" /\ at' = "ready"
     \/ at' \in {"derive", "down"}
  /\ UNCHANGED <<release, todo, text, seen, server, misread>>

Derive ==
  /\ at = "derive"
  /\ Call(/\ local = "none" /\ base.version > 0 /\ local' = "derived"
          /\ UNCHANGED <<base, committed>>, "commitLocal")
  /\ UNCHANGED <<release, todo, text, seen, misread>>

CommitLocal ==
  /\ at = "commitLocal"
  /\ Call(local' = "committed" /\ UNCHANGED <<base, committed>>, "ready")
  /\ UNCHANGED <<release, todo, text, seen, misread>>

\* UpdateConfigVersion() from the goroutine: GetFile() looks at no status
Bump(failed) ==
  /\ at = "ready" /\ at' = "bumpExists" /\ todo' = {ConfigFile}
  /\ text' = (IF failed THEN Garbage ELSE base.draft[ConfigFile])
  /\ misread' = (misread \/ failed)
  /\ UNCHANGED <<release, seen, server>>

----------------------------------------------------------------------------

RepoInit ==
  /\ release \in Release /\ at = "down" /\ todo = {} /\ text = NoText /\ seen = 0
  /\ base = [version |-> 0, draft |-> Empty, live |-> Empty]
  /\ local = "none" /\ committed = NoText /\ misread = FALSE

RepoNext ==
  \/ \E r \in Release : Start(r)
  \/ Crash \/ RepoUp \/ Exists \/ Create \/ Created \/ \E f \in File : Upload(f)
  \/ Commit \/ LocalExists \/ Derive \/ CommitLocal \/ \E failed \in BOOLEAN : Bump(failed)

RepoSpec == RepoInit /\ [][RepoNext]_repoVars
----------------------------------------------------------------------------
(* Properties *)

\* Whatever call fails or whenever the program ends, what clients are served is the whole
\* release that was committed last: a half uploaded one never shows.  An error page taken
\* for config.json is the exception.
LiveIsWhole ==
  committed # NoText => \A f \in Ships[committed] :
    base.live[f] = committed \/ (f = ConfigFile /\ base.live[f] = Garbage /\ misread)

\* A release in full, but for an error page in the place of config.json
WholeReleases ==
  {t \in [File -> Release \cup {NoText, Garbage}] : \E r \in Release :
     /\ \A f \in Ships[r] \ {ConfigFile} : t[f] = r
     /\ t[ConfigFile] \in {r, Garbage}}

Promise == INSTANCE Codebase WITH Whole <- WholeReleases, Nothing <- Empty,
                                  version <- base.version, live <- base.live

\* The base codebase is one: each commit serves a whole release under a version of its
\* own, the next one, by which clients notice, whatever calls failed before.
IsCodebase == Promise!Spec

\* "commit the repo, so that changes can take effect": once the program is ready, the
\* codebase it derives has been committed.
DerivedTakesEffect == at = "ready" => local = "committed"
============================================================================
