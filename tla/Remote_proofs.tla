---------------------------- MODULE Remote_proofs --------------------------
(* Proofs about the two programs that keep something on another host: the   *)
(* client of the repository and the device of the iot gateway.              *)
EXTENDS RepoClient, IotDevice, TLAPS

----------------------------------------------------------------------------
(* The version of the base codebase *)

Stage == {"down", "wait", "exists", "create", "created", "upload", "localExists", "derive",
          "commitLocal", "ready", "bumpExists", "bumped"}

Texts == Release \cup {NoText, Garbage}

(* The version that is about to be counted up is that of the codebase,      *)
(* unless nothing was ever committed: only a codebase that the program has  *)
(* just created itself may be taken for one of version zero.                *)
Versioned ==
  /\ base.version = 0 => base.live = Empty
  /\ base.live = Empty => base.version <= 1
  /\ at = "created" => base.live = Empty
  /\ at \in {"created", "upload"} => base.version > 0
  /\ at = "upload" => seen = base.version \/ (base.live = Empty /\ seen = 0)

(* A file of the release that is not still to be uploaded is as it should   *)
(* be, or config.json as an error page.                                     *)
Good(f) == \/ base.draft[f] = release
           \/ f = ConfigFile /\ base.draft[f] = Garbage /\ misread

Uploaded ==
  /\ at \notin {"down", "bumped"} =>
       /\ \A f \in Ships[release] \ todo : Good(f)
       /\ text = NoText \/ text = release \/ (text = Garbage /\ misread)
       /\ text # NoText => todo \subseteq {ConfigFile}
  /\ at \in {"localExists", "derive", "commitLocal", "ready"} => todo = {}

RepoTypeOK ==
  /\ release \in Release /\ at \in Stage /\ todo \subseteq File /\ seen \in Nat
  /\ base \in [version : Nat, draft : [File -> Texts], live : [File -> Texts]]
  /\ committed \in Release \cup {NoText} /\ misread \in BOOLEAN /\ text \in Texts

RepoInv == RepoTypeOK /\ Versioned /\ Uploaded /\ LiveIsWhole

LEMMA RepoStarts == RepoInit => RepoInv
<1> SUFFICES ASSUME RepoInit PROVE RepoInv
  OBVIOUS
<1>1. Empty \in [File -> Texts]
  BY DEF Empty, Texts
<1>2. base \in [version : Nat, draft : [File -> Texts], live : [File -> Texts]]
  BY <1>1 DEF RepoInit
<1>3. RepoTypeOK
  BY <1>2 DEF RepoInit, RepoTypeOK, Stage, Texts
<1>4. Versioned /\ Uploaded /\ LiveIsWhole
  BY DEF RepoInit, Versioned, Uploaded, LiveIsWhole
<1> QED
  BY <1>3, <1>4 DEF RepoInv

(* A call that fails leaves the server alone and ends the program or its    *)
(* goroutine.                                                               *)
LEMMA FailureKeeps ==
  ASSUME RepoInv, UNCHANGED <<base, committed>>, at' \in {"down", "bumped"},
         UNCHANGED <<release, text, seen, misread>>, todo' \subseteq File
  PROVE  RepoInv'
BY DEF RepoInv, RepoTypeOK, Versioned, Uploaded, LiveIsWhole, Stage

LEMMA UploadKeeps ==
  ASSUME RepoInv, NEW f \in File, Upload(f)
  PROVE  RepoInv'
<1>1. /\ at = "upload" /\ f \in todo /\ todo' = todo \ {f} /\ todo' \subseteq File
      /\ UNCHANGED <<release, text, seen, misread, committed>>
  BY DEF Upload, Call, server, RepoInv, RepoTypeOK
<1>2. CASE UNCHANGED server
  <2>1. at' \in {"upload", "down", "bumped"} /\ UNCHANGED <<base, committed>>
    BY <1>2 DEF Upload, Call, Failed, server
  <2>2. CASE at' \in {"down", "bumped"}
    BY <1>1, <2>1, <2>2, FailureKeeps
  <2>3. CASE at' = "upload"
    <3>1. base = [base EXCEPT !.draft[f] = Text(f)]
      BY <1>2, <2>3 DEF Upload, Call, Failed, server
    <3>2. base.draft[f] = Text(f)
      BY <3>1 DEF RepoInv, RepoTypeOK
    <3>3. Good(f)
      BY <1>1, <3>2 DEF Good, Text, RepoInv, Uploaded
    <3>4. Uploaded'
      BY <1>1, <2>1, <2>3, <3>3 DEF RepoInv, Uploaded, Good
    <3> QED
      BY <1>1, <2>1, <2>3, <3>4 DEF RepoInv, RepoTypeOK, Versioned, LiveIsWhole
  <2> QED
    BY <2>1, <2>2, <2>3
<1>3. CASE base' = [base EXCEPT !.draft[f] = Text(f)] /\ at' \in {"upload", Failed}
  <2>1. Text(f) \in Texts
    BY DEF Text, Texts, RepoInv, RepoTypeOK
  <2>2. /\ base' \in [version : Nat, draft : [File -> Texts], live : [File -> Texts]]
        /\ base'.version = base.version /\ base'.live = base.live
        /\ base'.draft = [base.draft EXCEPT ![f] = Text(f)]
    BY <1>3, <2>1 DEF RepoInv, RepoTypeOK
  <2>3. at' \in {"upload", "down", "bumped"}
    BY <1>3 DEF Failed
  <2>4. RepoTypeOK'
    BY <1>1, <2>2, <2>3 DEF RepoInv, RepoTypeOK, Stage
  <2>5. Versioned' /\ LiveIsWhole'
    BY <1>1, <2>2, <2>3 DEF RepoInv, Versioned, LiveIsWhole
  <2>6. Good(f)'
    BY <1>1, <2>2 DEF Good, Text, RepoInv, RepoTypeOK, Uploaded
  <2>7. \A g \in Ships[release] \ todo : Good(g)'
    <3> SUFFICES ASSUME NEW g \in Ships[release] \ todo PROVE Good(g)'
      OBVIOUS
    <3>1. Good(g) /\ g # f /\ g \in File
      BY <1>1, RepoAssumption DEF RepoInv, RepoTypeOK, Uploaded, RepoAssumption
    <3> QED
      BY <1>1, <2>2, <3>1 DEF Good, RepoInv, RepoTypeOK
  <2>8. Uploaded'
    BY <1>1, <2>3, <2>6, <2>7 DEF RepoInv, Uploaded
  <2> QED
    BY <2>4, <2>5, <2>8 DEF RepoInv
<1> QED
  BY <1>2, <1>3 DEF Upload, Call

(* There is a config.json in every release                                  *)
LEMMA CommitsSomething ==
  ASSUME RepoTypeOK, \A f \in Ships[release] : Good(f)
  PROVE  base.draft # Empty
<1>1. ConfigFile \in File /\ ConfigFile \in Ships[release]
  BY RepoAssumption DEF RepoAssumption, RepoTypeOK
<1>2. base.draft[ConfigFile] \in {release, Garbage}
  BY <1>1 DEF Good
<1>3. base.draft[ConfigFile] # NoText
  BY <1>2, RepoAssumption DEF RepoAssumption, RepoTypeOK
<1> QED
  BY <1>1, <1>3 DEF Empty

LEMMA CommitKeeps ==
  ASSUME RepoInv, Commit
  PROVE  RepoInv'
<1>1. /\ at = "upload" /\ todo = {} /\ UNCHANGED <<release, todo, text, seen, misread>>
  BY DEF Commit
<1>2. CASE UNCHANGED server /\ at' = Failed
  BY <1>1, <1>2, FailureKeeps DEF Failed, server, RepoInv, RepoTypeOK
<1>3. CASE /\ base' = [base EXCEPT !.version = NextVersion, !.live = base.draft]
           /\ committed' = release
           /\ at' \in {IF text = NoText THEN "localExists" ELSE "bumped", Failed}
  <2> DEFINE next == seen + 1
  <2>0. base' = [base EXCEPT !.version = next, !.live = base.draft] /\ next \in Nat
    BY <1>3 DEF NextVersion, RepoInv, RepoTypeOK
  <2>1. /\ base' \in [version : Nat, draft : [File -> Texts], live : [File -> Texts]]
        /\ base'.version = seen + 1 /\ base'.live = base.draft /\ base'.draft = base.draft
    <3> HIDE DEF next
    <3>1. /\ base' \in [version : Nat, draft : [File -> Texts], live : [File -> Texts]]
          /\ base'.version = next /\ base'.live = base.draft /\ base'.draft = base.draft
      BY <2>0 DEF RepoInv, RepoTypeOK
    <3> QED
      BY <3>1 DEF next
  <2>2. at' \in {"localExists", "down", "bumped"}
    BY <1>3 DEF Failed
  <2>3. RepoTypeOK'
    BY <1>1, <1>3, <2>1, <2>2 DEF RepoInv, RepoTypeOK, Stage
  <2>5. \A f \in Ships[release] : Good(f)
    BY <1>1 DEF RepoInv, Uploaded
  <2>7. base.draft # Empty
    BY <2>5, CommitsSomething DEF RepoInv
  <2>4. Versioned'
    BY <2>1, <2>2, <2>7 DEF RepoInv, RepoTypeOK, Versioned
  <2>6. LiveIsWhole' /\ Uploaded'
    BY <1>1, <1>3, <2>1, <2>2, <2>5 DEF RepoInv, LiveIsWhole, Uploaded, Good
  <2> QED
    BY <2>3, <2>4, <2>6 DEF RepoInv
<1> QED
  BY <1>2, <1>3 DEF Commit, Call

LEMMA BumpKeeps ==
  ASSUME RepoInv, NEW failed \in BOOLEAN, Bump(failed)
  PROVE  RepoInv'
<1>1. /\ at = "ready" /\ at' = "bumpExists" /\ todo' = {ConfigFile}
      /\ UNCHANGED <<release, seen, base, committed>>
  BY DEF Bump, server
<1>2. ConfigFile \in File /\ ConfigFile \in Ships[release]
  BY RepoAssumption DEF RepoAssumption, RepoInv, RepoTypeOK
<1>3. \A f \in Ships[release] : Good(f)
  BY <1>1 DEF RepoInv, Uploaded
<1>4. CASE failed
  <2>1. text' = Garbage /\ misread' = TRUE
    BY <1>4 DEF Bump
  <2> QED
    BY <1>1, <1>2, <1>3, <2>1
    DEF RepoInv, RepoTypeOK, Versioned, Uploaded, LiveIsWhole, Good, Stage, Texts
<1>5. CASE ~failed
  <2>1. text' = base.draft[ConfigFile] /\ misread' = misread
    BY <1>5 DEF Bump, RepoInv, RepoTypeOK
  <2>2. text' = release \/ (text' = Garbage /\ misread)
    BY <1>2, <1>3, <2>1 DEF Good
  <2> QED
    BY <1>1, <1>2, <1>3, <2>1, <2>2
    DEF RepoInv, RepoTypeOK, Versioned, Uploaded, LiveIsWhole, Good, Stage, Texts
<1> QED
  BY <1>4, <1>5

(* The other calls change neither files nor what is known of them.          *)
LEMMA OthersKeep ==
  ASSUME RepoInv,
         \/ Crash \/ RepoUp \/ Exists \/ Create \/ Created \/ LocalExists \/ Derive \/ CommitLocal
  PROVE  RepoInv'
<1>1. CASE Crash
  BY <1>1, FailureKeeps DEF Crash, server, RepoInv, RepoTypeOK
<1>2. ASSUME UNCHANGED <<base, committed, release, todo, text, misread>>, seen' \in Nat,
             at' \in Stage, at \notin {"down", "bumped"},
             at' \in {"localExists", "derive", "commitLocal", "ready"} =>
               at \in {"localExists", "derive", "commitLocal", "ready"},
             at' = "created" => at = "created",
             at' = "upload" => /\ base.version > 0
                               /\ seen' = base.version \/ (base.live = Empty /\ seen' = 0)
      PROVE  RepoInv'
  BY <1>2 DEF RepoInv, RepoTypeOK, Versioned, Uploaded, LiveIsWhole, Good
<1>3. CASE RepoUp
  BY <1>2, <1>3 DEF RepoUp, server, RepoInv, RepoTypeOK, Stage
<1>4. CASE Exists
  <2>1. seen' \in Nat
    BY <1>4 DEF Exists, RepoInv, RepoTypeOK
  <2> QED
    BY <1>2, <1>4, <2>1 DEF Exists, server, RepoInv, RepoTypeOK, Stage
<1>5. CASE Create
  <2>1. CASE UNCHANGED server /\ at' = Failed
    BY <1>5, <2>1, FailureKeeps DEF Create, Failed, server, RepoInv, RepoTypeOK
  <2>2. CASE /\ base.version = 0 /\ base' = [base EXCEPT !.version = 1]
             /\ UNCHANGED <<local, committed>> /\ at' \in {"created", Failed}
    <3>1. /\ base' \in [version : Nat, draft : [File -> Texts], live : [File -> Texts]]
          /\ base'.version = 1 /\ base'.live = base.live /\ base'.draft = base.draft
          /\ base.live = Empty
      BY <2>2 DEF RepoInv, RepoTypeOK, Versioned
    <3>2. /\ at = "create" /\ at' \in {"created", "down", "bumped"}
          /\ UNCHANGED <<release, todo, text, seen, misread, committed>>
      BY <1>5, <2>2 DEF Create, Failed
    <3> QED
      BY <3>1, <3>2
      DEF RepoInv, RepoTypeOK, Versioned, Uploaded, LiveIsWhole, Good, Stage
  <2> QED
    BY <1>5, <2>1, <2>2 DEF Create, Call
<1>6. CASE Created
  <2>1. /\ seen' \in Nat /\ base.live = Empty /\ base.version > 0
        /\ at' = "upload" => seen' = base.version \/ seen' = 0
    BY <1>6 DEF Created, RepoInv, RepoTypeOK, Versioned, Failed
  <2> QED
    BY <1>2, <1>6, <2>1 DEF Created, Failed, server, RepoInv, RepoTypeOK, Stage
<1>7. CASE LocalExists
  BY <1>2, <1>7 DEF LocalExists, server, RepoInv, RepoTypeOK, Stage
<1>8. CASE Derive \/ CommitLocal
  <2>1. /\ UNCHANGED <<base, committed, release, todo, text, seen, misread>>
        /\ at \in {"derive", "commitLocal"} /\ at' \in {"commitLocal", "ready", "down", "bumped"}
    BY <1>8 DEF Derive, CommitLocal, Call, Failed, server
  <2> QED
    BY <1>2, <2>1 DEF RepoInv, RepoTypeOK, Stage
<1> QED
  BY <1>1, <1>3, <1>4, <1>5, <1>6, <1>7, <1>8

LEMMA RepoKeeps == RepoInv /\ [RepoNext]_repoVars => RepoInv'
<1> SUFFICES ASSUME RepoInv, [RepoNext]_repoVars PROVE RepoInv'
  OBVIOUS
<1>1. ASSUME NEW r \in Release, Start(r) PROVE RepoInv'
  <2>1. /\ release' = r /\ todo' = Ships[r] /\ text' = NoText /\ at' = "wait"
        /\ UNCHANGED <<base, committed, seen, misread>>
    BY <1>1 DEF Start, server
  <2>2. Ships[r] \subseteq File
    BY RepoAssumption DEF RepoAssumption
  <2> QED
    BY <2>1, <2>2
    DEF RepoInv, RepoTypeOK, Versioned, Uploaded, LiveIsWhole, Stage, Texts
<1>2. CASE UNCHANGED repoVars
  BY <1>2 DEF repoVars, RepoInv, RepoTypeOK, Versioned, Uploaded, LiveIsWhole, Good
<1> QED
  BY <1>1, <1>2, UploadKeeps, CommitKeeps, BumpKeeps, OthersKeep DEF RepoNext

(* Whatever call fails and whenever the program ends, what clients are      *)
(* served is the whole release that was committed last (client.go, Batch    *)
(* and Commit), but for an error page taken for config.json.                *)
THEOREM LiveAlwaysWhole == RepoSpec => []LiveIsWhole
<1> QED
  BY RepoStarts, RepoKeeps, PTL DEF RepoSpec, RepoInv

(* Nothing but a commit changes what clients are served, and nothing but it *)
(* or the creation changes the version.                                     *)
LEMMA CommitsOnly ==
  ASSUME RepoInv, [RepoNext]_repoVars, ~Commit, ~Create
  PROVE  base'.version = base.version /\ base'.live = base.live
<1>1. ASSUME NEW f \in File, Upload(f)
      PROVE  base'.version = base.version /\ base'.live = base.live
  BY <1>1 DEF Upload, Call, server, RepoInv, RepoTypeOK
<1> QED
  BY <1>1
  DEF RepoNext, repoVars, server, Start, Crash, RepoUp, Exists, Created, LocalExists, Derive,
      CommitLocal, Call, Bump

LEMMA CommitPublishes ==
  ASSUME RepoInv, Commit
  PROVE  \/ base'.version = base.version /\ base'.live = base.live
         \/ Promise!PublishFirst \/ Promise!Publish
<1>1. CASE UNCHANGED server
  BY <1>1 DEF server
<1>2. CASE base' = [base EXCEPT !.version = NextVersion, !.live = base.draft]
  <2> DEFINE next == seen + 1
  <2>1. /\ base'.version = next /\ base'.live = base.draft
        /\ base.version \in Nat /\ base.draft \in [File -> Texts]
    <3>1. base' = [base EXCEPT !.version = next, !.live = base.draft]
      BY <1>2 DEF NextVersion
    <3> HIDE DEF next
    <3> QED
      BY <3>1 DEF RepoInv, RepoTypeOK
  <2>2. /\ base.version > 0
        /\ base.live = Empty => base.version = 1
        /\ seen = base.version \/ (base.live = Empty /\ seen = 0)
    BY <2>1 DEF Commit, RepoInv, Versioned
  <2>3. base.draft \in WholeReleases
    <3>1. release \in Release /\ \A f \in Ships[release] : Good(f)
      BY DEF Commit, RepoInv, RepoTypeOK, Uploaded
    <3>2. ConfigFile \in Ships[release]
      BY <3>1, RepoAssumption DEF RepoAssumption
    <3> QED
      BY <2>1, <3>1, <3>2 DEF Good, WholeReleases, Texts
  <2>4. CASE base.live = Empty
    <3>0. base.version = 1 /\ (seen = 1 \/ seen = 0)
      BY <2>2, <2>4
    <3>1. base.version = 1 /\ base'.version \in {1, 2}
      BY <2>1, <3>0
    <3> QED
      BY <2>1, <2>3, <2>4, <3>1 DEF Promise!PublishFirst
  <2>5. CASE base.live # Empty
    BY <2>1, <2>2, <2>3, <2>5 DEF Promise!Publish
  <2> QED
    BY <2>4, <2>5
<1> QED
  BY <1>1, <1>2 DEF Commit, Call

(* The base codebase is what Codebase promises: it serves whole releases    *)
(* only, one after the other, each under the next version, whatever calls   *)
(* fail and whenever the program ends (client.go, Batch and Commit).        *)
THEOREM AlwaysIsCodebase == RepoSpec => IsCodebase
<1>1. RepoInit => Promise!Init
  BY DEF RepoInit, Promise!Init
<1>2. ASSUME RepoInv, Create
      PROVE  Promise!Create \/ (base'.version = base.version /\ base'.live = base.live)
  <2>1. CASE UNCHANGED server
    BY <2>1 DEF server
  <2>2. CASE base.version = 0 /\ base' = [base EXCEPT !.version = 1]
    BY <1>2, <2>2 DEF Promise!Create, RepoInv, RepoTypeOK
  <2> QED
    BY <1>2, <2>1, <2>2 DEF Create, Call
<1>3. RepoInv /\ [RepoNext]_repoVars => [Promise!Next]_<<base.version, base.live>>
  BY <1>2, CommitsOnly, CommitPublishes DEF Promise!Next
<1> QED
  BY <1>1, <1>3, RepoStarts, RepoKeeps, PTL DEF RepoSpec, IsCodebase, Promise!Spec, Promise!vars

----------------------------------------------------------------------------
(* The samples of a device *)

SampleInv == collected \in Nat /\ NoSampleLost

LEMMA SamplesKept == SampleInv /\ [IotNext]_iotVars => SampleInv'
<1> SUFFICES ASSUME SampleInv, [IotNext]_iotVars PROVE SampleInv'
  OBVIOUS
<1>1. ASSUME UNCHANGED samples PROVE SampleInv'
  BY <1>1 DEF samples, SampleInv, NoSampleLost
<1>2. CASE Collect
  BY <1>2 DEF Collect, SampleInv, NoSampleLost
<1>3. ASSUME NEW s \in Sample, NEW taken \in BOOLEAN, NEW ok \in BOOLEAN, Posted(s, taken, ok)
      PROVE  SampleInv'
  <2>1. files \cup received \subseteq files' \cup received'
    BY <1>3 DEF Posted, Unlinked
  <2> QED
    BY <1>3, <2>1 DEF Posted, SampleInv, NoSampleLost
<1>4. ASSUME Restart \/ Fail PROVE UNCHANGED samples
  BY <1>4 DEF Restart, Fail, Boot
<1>5. ASSUME Write \/ Query \/ Login \/ Post \/ Expire \/ UNCHANGED iotVars
      PROVE  UNCHANGED samples
  BY <1>5 DEF Write, Query, Login, Post, Expire, iotVars, samples
<1>6. ASSUME NEW c \in Config, Publish(c) PROVE UNCHANGED samples
  BY <1>6 DEF Publish
<1> QED
  BY <1>1, <1>2, <1>3, <1>4, <1>5, <1>6 DEF IotNext, Answer

(* A sample is on the disk of the device or with the server, whatever       *)
(* answers are lost and whenever the device fails (iot-gateway worker.js).  *)
THEOREM NoSampleEverLost == IotSpec => []NoSampleLost
<1>1. IotInit => SampleInv
  BY DEF IotInit, SampleInv, NoSampleLost
<1> QED
  BY <1>1, SamplesKept, PTL DEF IotSpec, SampleInv

----------------------------------------------------------------------------
(* The configuration of a device *)

Tasks == {<<>>, <<"config">>, <<"init">>, <<"init", "config">>, <<"worker">>,
          <<"worker", "config">>, <<"worker", "init">>, <<"worker", "init", "config">>}

Due(file) == \E i \in DOMAIN writes.left : writes.left[i] = file

DeviceTypeOK ==
  /\ published \in Config /\ writes \in [of : Config, left : Tasks]
  /\ disk \in [worker : Script, init : Value, config : Config \cup {Absent}]
  /\ ram \in [worker : Script, init : Value, config : Config \cup {Absent}]
  /\ actived \in BOOLEAN /\ restarting \in BOOLEAN

(* The memory holds what the files hold, but for the script that takes      *)
(* effect by a restart.                                                     *)
DiskIsKnown ==
  /\ ram.init = disk.init /\ ram.config = disk.config
  /\ restarting \/ ram.worker = disk.worker

(* An active device runs what it was last given, and has config.json at     *)
(* most still to write.                                                     *)
ActiveIsApplied ==
  actived => /\ writes.of.actived /\ writes.of.script = ram.worker /\ Fits(ram.init, writes.of)
             /\ ~Due("worker") /\ ~Due("init")
             /\ Due("config") \/ ram.config = writes.of

DeviceInv == DeviceTypeOK /\ DiskIsKnown /\ ActiveIsApplied

LEMMA WritesFacts ==
  ASSUME NEW c, NEW m
  PROVE  /\ Writes(c, m) \in Tasks
         /\ (\E i \in DOMAIN Writes(c, m) : Writes(c, m)[i] = "worker") <=> c.script # m.worker
         /\ (\E i \in DOMAIN Writes(c, m) : Writes(c, m)[i] = "init") <=> ~Fits(m.init, c)
         /\ (\E i \in DOMAIN Writes(c, m) : Writes(c, m)[i] = "config") <=> c # m.config
<1> DEFINE w == c.script # m.worker  n == ~Fits(m.init, c)  f == c # m.config
<1>1. Writes(c, m) = (IF w THEN <<"worker">> ELSE <<>>) \o (IF n THEN <<"init">> ELSE <<>>)
                       \o (IF f THEN <<"config">> ELSE <<>>)
  BY DEF Writes
<1> HIDE DEF w, n, f
<1>2. Writes(c, m) = IF w THEN IF n THEN IF f THEN <<"worker", "init", "config">>
                                              ELSE <<"worker", "init">>
                                    ELSE IF f THEN <<"worker", "config">> ELSE <<"worker">>
                          ELSE IF n THEN IF f THEN <<"init", "config">> ELSE <<"init">>
                                    ELSE IF f THEN <<"config">> ELSE <<>>
  BY <1>1
<1>3. Writes(c, m) \in Tasks
  BY <1>2 DEF Tasks
<1>4. (\E i \in DOMAIN Writes(c, m) : Writes(c, m)[i] = "worker") <=> w
  BY <1>2
<1>5. (\E i \in DOMAIN Writes(c, m) : Writes(c, m)[i] = "init") <=> n
  BY <1>2
<1>6. (\E i \in DOMAIN Writes(c, m) : Writes(c, m)[i] = "config") <=> f
  BY <1>2
<1> QED
  BY <1>3, <1>4, <1>5, <1>6 DEF w, n, f

LEMMA TasksShrink ==
  ASSUME NEW s \in Tasks, s # <<>>
  PROVE  /\ Tail(s) \in Tasks /\ Head(s) \in {"worker", "init", "config"}
         /\ ~\E i \in DOMAIN Tail(s) : Tail(s)[i] = Head(s)
         /\ \A file : file # Head(s) => ((\E i \in DOMAIN Tail(s) : Tail(s)[i] = file)
                                           <=> (\E i \in DOMAIN s : s[i] = file))
<1>1. \/ s = <<"config">> /\ Tail(s) = <<>> /\ Head(s) = "config"
      \/ s = <<"init">> /\ Tail(s) = <<>> /\ Head(s) = "init"
      \/ s = <<"init", "config">> /\ Tail(s) = <<"config">> /\ Head(s) = "init"
      \/ s = <<"worker">> /\ Tail(s) = <<>> /\ Head(s) = "worker"
      \/ s = <<"worker", "config">> /\ Tail(s) = <<"config">> /\ Head(s) = "worker"
      \/ s = <<"worker", "init">> /\ Tail(s) = <<"init">> /\ Head(s) = "worker"
      \/ s = <<"worker", "init", "config">> /\ Tail(s) = <<"init", "config">> /\ Head(s) = "worker"
  <2>1. CASE s = <<"config">>
    BY <2>1
  <2>2. CASE s = <<"init">>
    BY <2>2
  <2>3. CASE s = <<"init", "config">>
    BY <2>3
  <2>4. CASE s = <<"worker">>
    BY <2>4
  <2>5. CASE s = <<"worker", "config">>
    BY <2>5
  <2>6. CASE s = <<"worker", "init">>
    BY <2>6
  <2>7. CASE s = <<"worker", "init", "config">>
    BY <2>7
  <2> QED
    BY <2>1, <2>2, <2>3, <2>4, <2>5, <2>6, <2>7 DEF Tasks
<1>2. Tail(s) \in Tasks /\ Head(s) \in {"worker", "init", "config"}
  BY <1>1 DEF Tasks
<1>3. ~\E i \in DOMAIN Tail(s) : Tail(s)[i] = Head(s)
  BY <1>1
<1>4. ASSUME NEW file, file # Head(s)
      PROVE  (\E i \in DOMAIN Tail(s) : Tail(s)[i] = file) <=> (\E i \in DOMAIN s : s[i] = file)
  BY <1>1, <1>4
<1> QED
  BY <1>2, <1>3, <1>4

(* A configuration that is applied to a memory that is known *)
LEMMA ApplyKeeps ==
  ASSUME NEW c \in Config, NEW m, Apply(c, m), ram' = m,
         published' \in Config, DiskIsKnown', restarting' \in BOOLEAN,
         disk' \in [worker : Script, init : Value, config : Config \cup {Absent}],
         ram' \in [worker : Script, init : Value, config : Config \cup {Absent}]
  PROVE  DeviceInv'
<1>1. /\ writes' = [of |-> c, left |-> Writes(c, m)]
      /\ actived' = (c.actived /\ c.script = m.worker /\ Fits(m.init, c))
  BY DEF Apply
<1>2. writes'.of = c /\ writes'.left = Writes(c, m) /\ writes' \in [of : Config, left : Tasks]
  BY <1>1, WritesFacts
<1>3. actived' \in BOOLEAN
  BY <1>1 DEF Config
<1>4. /\ (\E i \in DOMAIN writes'.left : writes'.left[i] = "worker") <=> c.script # m.worker
      /\ (\E i \in DOMAIN writes'.left : writes'.left[i] = "init") <=> ~Fits(m.init, c)
      /\ (\E i \in DOMAIN writes'.left : writes'.left[i] = "config") <=> c # m.config
  BY <1>2, WritesFacts
<1>5. ActiveIsApplied'
  BY <1>1, <1>2, <1>4 DEF ActiveIsApplied, Due, Fits
<1> QED
  BY <1>2, <1>3, <1>5 DEF DeviceInv, DeviceTypeOK

LEMMA WriteKeeps == DeviceInv /\ Write => DeviceInv'
<1> SUFFICES ASSUME DeviceInv, Write PROVE DeviceInv'
  OBVIOUS
<1> DEFINE c == writes.of  file == Head(writes.left)  new == Merged(ram.init, c)
<1>1. /\ writes \in [of : Config, left : Tasks] /\ writes.left \in Tasks /\ c \in Config
      /\ disk \in [worker : Script, init : Value, config : Config \cup {Absent}]
      /\ ram \in [worker : Script, init : Value, config : Config \cup {Absent}]
  BY DEF DeviceInv, DeviceTypeOK
<1>2. /\ writes.left # <<>> /\ writes' = [writes EXCEPT !.left = Tail(writes.left)]
      /\ UNCHANGED <<published, actived>>
  BY DEF Write
<1>3. /\ Tail(writes.left) \in Tasks /\ file \in {"worker", "init", "config"}
      /\ ~\E i \in DOMAIN Tail(writes.left) : Tail(writes.left)[i] = file
      /\ \A g : g # file => ((\E i \in DOMAIN Tail(writes.left) : Tail(writes.left)[i] = g) <=> Due(g))
  BY <1>1, <1>2, TasksShrink DEF Due
<1>4. writes'.left = Tail(writes.left) /\ writes'.of = c /\ writes' \in [of : Config, left : Tasks]
  BY <1>1, <1>2, <1>3
<1>5. \A g : Due(g)' <=> (g # file /\ Due(g))
  BY <1>3, <1>4 DEF Due
<1>6. Due(file)
  BY <1>1, <1>2 DEF Due, Tasks
<1>7. CASE file = "worker"
  <2>1. disk' = [disk EXCEPT !.worker = c.script] /\ restarting' = TRUE /\ ram' = ram
    BY <1>7 DEF Write
  <2>2. c.script \in Script /\ ~actived
    BY <1>1, <1>6, <1>7 DEF Config, DeviceInv, ActiveIsApplied
  <2>3. /\ disk' \in [worker : Script, init : Value, config : Config \cup {Absent}]
        /\ disk'.init = disk.init /\ disk'.config = disk.config
    <3> DEFINE v == c.script
    <3>1. disk' = [disk EXCEPT !.worker = v] /\ v \in Script
      BY <2>1, <2>2
    <3> HIDE DEF v
    <3> QED
      BY <3>1, <1>1
  <2> QED
    BY <1>1, <1>2, <1>4, <2>1, <2>2, <2>3 DEF DeviceInv, DeviceTypeOK, DiskIsKnown, ActiveIsApplied
<1>8. CASE file = "init"
  <2>1. /\ ram' = [ram EXCEPT !.init = new] /\ restarting' = TRUE
        /\ disk' = [disk EXCEPT !.init = new]
    BY <1>8 DEF Write, Merged
  <2>2. new \in Value /\ ~actived
    BY <1>1, <1>6, <1>8 DEF Merged, Config, DeviceInv, ActiveIsApplied
  <2> HIDE DEF new
  <2>3. /\ disk' \in [worker : Script, init : Value, config : Config \cup {Absent}]
        /\ ram' \in [worker : Script, init : Value, config : Config \cup {Absent}]
        /\ disk'.init = new /\ ram'.init = new
        /\ disk'.config = disk.config /\ ram'.config = ram.config
    BY <1>1, <2>1, <2>2
  <2> QED
    BY <1>1, <1>2, <1>4, <2>1, <2>2, <2>3 DEF DeviceInv, DeviceTypeOK, DiskIsKnown, ActiveIsApplied
<1>9. CASE file = "config"
  <2>1. /\ ram' = [ram EXCEPT !.config = c] /\ restarting' = restarting
        /\ disk' = [disk EXCEPT !.config = c]
    BY <1>9 DEF Write
  <2>2. /\ disk' \in [worker : Script, init : Value, config : Config \cup {Absent}]
        /\ ram' \in [worker : Script, init : Value, config : Config \cup {Absent}]
        /\ disk'.init = disk.init /\ ram'.init = ram.init
        /\ disk'.worker = disk.worker /\ ram'.worker = ram.worker
        /\ disk'.config = c /\ ram'.config = c
    <3> HIDE DEF c
    <3> QED
      BY <1>1, <2>1
  <2>3. DiskIsKnown'
    BY <2>1, <2>2 DEF DeviceInv, DiskIsKnown
  <2>4. ActiveIsApplied'
    BY <1>2, <1>4, <1>5, <1>9, <2>2 DEF DeviceInv, ActiveIsApplied, Fits
  <2> QED
    BY <1>2, <1>4, <2>1, <2>2, <2>3, <2>4 DEF DeviceInv, DeviceTypeOK
<1> QED
  BY <1>3, <1>7, <1>8, <1>9

LEMMA BootKeeps == DeviceInv /\ Boot => DeviceInv'
<1> SUFFICES ASSUME DeviceInv, Boot PROVE DeviceInv'
  OBVIOUS
<1>1. /\ ram' = disk /\ disk' = disk /\ restarting' = FALSE /\ published' = published
      /\ disk \in [worker : Script, init : Value, config : Config \cup {Absent}]
      /\ published \in Config /\ writes \in [of : Config, left : Tasks]
  BY DEF Boot, DeviceInv, DeviceTypeOK
<1>2. DiskIsKnown'
  BY <1>1 DEF DiskIsKnown
<1>3. CASE disk.config = Absent
  <2>1. writes' = [writes EXCEPT !.left = <<>>] /\ actived' = FALSE
    BY <1>3 DEF Boot
  <2>2. writes' \in [of : Config, left : Tasks]
    BY <1>1, <2>1 DEF Tasks
  <2> QED
    BY <1>1, <1>2, <2>1, <2>2 DEF DeviceInv, DeviceTypeOK, ActiveIsApplied
<1>4. CASE disk.config # Absent
  <2>1. Apply(disk.config, disk) /\ disk.config \in Config
    BY <1>1, <1>4 DEF Boot
  <2> QED
    BY <1>1, <1>2, <2>1, ApplyKeeps
<1> QED
  BY <1>3, <1>4

LEMMA DeviceStarts == IotInit => DeviceInv
<1> SUFFICES ASSUME IotInit PROVE DeviceInv
  OBVIOUS
<1>1. /\ published \in Config /\ ram = disk /\ actived = FALSE /\ restarting = FALSE
      /\ disk \in [worker : Script, init : Value, config : {Absent}]
      /\ writes = [of |-> published, left |-> <<>>]
  BY DEF IotInit
<1>2. writes \in [of : Config, left : Tasks]
  BY <1>1 DEF Tasks
<1> QED
  BY <1>1, <1>2 DEF DeviceInv, DeviceTypeOK, DiskIsKnown, ActiveIsApplied

LEMMA DeviceKeeps == DeviceInv /\ [IotNext]_iotVars => DeviceInv'
<1> SUFFICES ASSUME DeviceInv, [IotNext]_iotVars PROVE DeviceInv'
  OBVIOUS
<1>1. ASSUME UNCHANGED <<disk, ram, writes, actived, restarting>>, published' \in Config
      PROVE  DeviceInv'
  BY <1>1 DEF DeviceInv, DeviceTypeOK, DiskIsKnown, ActiveIsApplied, Due
<1>2. published \in Config
  BY DEF DeviceInv, DeviceTypeOK
<1>3. CASE Query
  <2>1. UNCHANGED <<published, disk, ram, restarting>>
    BY <1>3 DEF Query
  <2>2. CASE accepts
    <3>1. Apply(published, ram)
      BY <1>3, <2>2 DEF Query
    <3>2. DiskIsKnown' /\ restarting' \in BOOLEAN
      BY <2>1 DEF DeviceInv, DeviceTypeOK, DiskIsKnown
    <3> QED
      BY <1>2, <2>1, <3>1, <3>2, ApplyKeeps DEF DeviceInv, DeviceTypeOK
  <2>3. CASE ~accepts
    BY <1>1, <1>2, <1>3, <2>3 DEF Query
  <2> QED
    BY <2>2, <2>3
<1>4. CASE Restart \/ Fail
  BY <1>4, BootKeeps DEF Restart, Fail
<1>5. CASE Login \/ Collect \/ Post \/ Expire \/ UNCHANGED iotVars
  BY <1>1, <1>2, <1>5 DEF Login, Collect, Post, Expire, iotVars
<1>6. CASE Answer
  BY <1>1, <1>2, <1>6 DEF Answer, Posted
<1>7. ASSUME NEW c \in Config, Publish(c) PROVE DeviceInv'
  BY <1>1, <1>7 DEF Publish
<1> QED
  BY <1>3, <1>4, <1>5, <1>6, <1>7, WriteKeeps DEF IotNext

(* An active device runs the script and the values of the configuration it  *)
(* was last given, which is in its files or about to be, and never one that *)
(* it has only half written (iot-gateway rest.js, updateConfig).            *)
THEOREM ActiveAlwaysApplied == IotSpec => [](DiskIsKnown /\ ActiveIsApplied)
<1> QED
  BY DeviceStarts, DeviceKeeps, PTL DEF IotSpec, DeviceInv

\* A device that fails between two configurations is at work again at once, with the same
\* script and values, and without having asked the server or written anything.
SurvivesFailure ==
  [][actived /\ writes.left = <<>> /\ Fail
       => actived' /\ writes'.left = <<>> /\ ram' = ram]_iotVars

(* A failure does not set a device back, as long as it is not in the middle *)
(* of a configuration: what it needs to go on is in its files               *)
(* (iot-gateway rest.js, its start and updateConfig).                 *)
THEOREM AlwaysSurvivesFailure == IotSpec => SurvivesFailure
<1>1. ASSUME DeviceInv, actived, writes.left = <<>>, Fail
      PROVE  actived' /\ writes'.left = <<>> /\ ram' = ram
  <2> DEFINE c == writes.of
  <2>1. /\ disk \in [worker : Script, init : Value, config : Config \cup {Absent}]
        /\ ram \in [worker : Script, init : Value, config : Config \cup {Absent}]
        /\ c \in Config
    BY <1>1 DEF DeviceInv, DeviceTypeOK
  <2>2. ~restarting /\ ram' = disk
    BY <1>1 DEF Fail, Boot
  <2>3. ~Due("config")
    BY <1>1 DEF Due
  <2>4. /\ c.actived /\ c.script = ram.worker /\ Fits(ram.init, c) /\ ram.config = c
    BY <1>1, <2>3 DEF DeviceInv, ActiveIsApplied
  <2>5. ram.worker = disk.worker /\ ram.init = disk.init /\ ram.config = disk.config
    BY <1>1, <2>2 DEF DeviceInv, DiskIsKnown
  <2>6. ram = disk
    BY <2>1, <2>5
  <2>7. disk.config # Absent
    BY <2>1, <2>4, <2>5, IotAssumption DEF IotAssumption
  <2>8. Apply(c, disk)
    BY <1>1, <2>4, <2>5, <2>7 DEF Fail, Boot
  <2>9. actived' /\ writes'.left = Writes(c, disk)
    BY <2>4, <2>5, <2>8 DEF Apply
  <2>10. Writes(c, disk) = <<>>
    BY <2>4, <2>5 DEF Writes
  <2> QED
    BY <2>2, <2>6, <2>9, <2>10
<1>2. DeviceInv /\ [IotNext]_iotVars
        => [actived /\ writes.left = <<>> /\ Fail
              => actived' /\ writes'.left = <<>> /\ ram' = ram]_iotVars
  BY <1>1
<1> QED
  BY <1>2, DeviceStarts, DeviceKeeps, PTL DEF IotSpec, SurvivesFailure
============================================================================
