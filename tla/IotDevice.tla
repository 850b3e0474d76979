------------------------------ MODULE IotDevice ----------------------------
(***************************************************************************)
(* A device of the iot gateway (iot-gateway/pjs): three tasks that query   *)
(* its configuration from a server, collect samples into files and post    *)
(* the files.  The tasks are actions; a request of theirs begins and is    *)
(* answered in steps of their own, or is lost.                             *)
(*                                                                         *)
(* worker.js, init.json and config.json are written one after the other    *)
(* and take effect by a restart, at which all three are read again and     *)
(* config.json is applied anew.  The device may fail between two writes.   *)
(* init.json has one key besides those that tell where the server is.      *)
(***************************************************************************)
EXTENDS Naturals, FiniteSets, Sequences

CONSTANTS Script, Value, Absent,
          Nested,       \* values that are objects: no two of them are ===
          MaxSamples,   \* bound: samples ever collected
          Batch,        \* how many files are posted at once: 10 in the code
          Poison        \* samples the server never takes

Config == [script : Script, init : Value \cup {Absent}, actived : BOOLEAN]

ASSUME IotAssumption ==
  /\ MaxSamples \in Nat /\ Batch \in Nat \ {0} /\ Absent \notin Value \cup Config
  /\ Nested \subseteq Value /\ Poison \subseteq 1..MaxSamples

Sample == 1..MaxSamples   \* in the order of their file names

VARIABLES
  published,  \* the configuration on the server
  accepts,    \* the server takes the token of the device
  disk,       \* worker.js, init.json and config.json, Absent at first
  ram,        \* workerJsHash, initCfg and configHash
  writes,     \* writes of updateConfig() that are still to be done
  actived,    \* deviceConfig.actived
  restarting, \* pipy.restart() was called
  jwt,        \* a token is held
  files,      \* samples on the disk
  posting,    \* samples under way to the server
  received,   \* samples the server has
  collected   \* history: how many samples there have been

iotVars == <<published, accepts, disk, ram, writes, actived, restarting, jwt, files,
             posting, received, collected>>

samples == <<files, received, collected>>

----------------------------------------------------------------------------
(* Configuration *)

\* Mutant: a key that is not given is compared too
FitsAll(init, c) == c.init = init /\ c.init \notin Nested

\* compareObject(): only the keys that are given are looked at
Fits(init, c) == c.init = Absent \/ (c.init = init /\ c.init \notin Nested)

\* mergeObject()
Merged(init, c) == IF c.init = Absent THEN init ELSE c.init

\* updateConfig() with this memory: what it writes, in this order
Writes(c, m) ==
  (IF c.script # m.worker THEN <<"worker">> ELSE <<>>)
  \o (IF ~Fits(m.init, c) THEN <<"init">> ELSE <<>>)
  \o (IF c # m.config THEN <<"config">> ELSE <<>>)

\* Only a restart makes the device active with what is new
Apply(c, m) ==
  /\ writes' = [of |-> c, left |-> Writes(c, m)]
  /\ actived' = (c.actived /\ c.script = m.worker /\ Fits(m.init, c))

\* One file is written.  The hash of worker.js is read at the start only.
Write ==
  /\ writes.left # <<>> /\ writes' = [writes EXCEPT !.left = Tail(@)]
  /\ LET c == writes.of  file == Head(writes.left) IN
     CASE file = "worker" ->
            /\ disk' = [disk EXCEPT !.worker = c.script] /\ restarting' = TRUE
            /\ UNCHANGED ram
       [] file = "init" ->
            /\ ram' = [ram EXCEPT !.init = Merged(@, c)] /\ restarting' = TRUE
            /\ disk' = [disk EXCEPT !.init = Merged(ram.init, c)]
       [] file = "config" ->
            /\ disk' = [disk EXCEPT !.config = c] /\ UNCHANGED restarting
            /\ ram' = [ram EXCEPT !.config = c]
  /\ UNCHANGED <<published, accepts, actived, jwt, posting, samples>>

\* The query is answered with a configuration, unless the token is refused
Query ==
  /\ jwt /\ writes.left = <<>>
  /\ IF accepts THEN Apply(published, ram) /\ UNCHANGED jwt
                ELSE jwt' = FALSE /\ UNCHANGED <<writes, actived>>
  /\ UNCHANGED <<published, accepts, disk, ram, restarting, posting, samples>>

\* The replay of a query without a token: a login every 5 seconds
Login ==
  /\ ~jwt /\ writes.left = <<>> /\ jwt' = TRUE /\ accepts' = TRUE
  /\ UNCHANGED <<published, disk, ram, writes, actived, restarting, posting, samples>>

\* The process starts: requests are gone and the files are read; a config.json is applied
Boot ==
  /\ ram' = disk /\ jwt' = FALSE /\ restarting' = FALSE /\ posting' = {}
  /\ IF disk.config = Absent
     THEN writes' = [writes EXCEPT !.left = <<>>] /\ actived' = FALSE
     ELSE Apply(disk.config, disk)
  /\ UNCHANGED <<published, accepts, disk, samples>>

\* pipy.restart() comes when the handler is done
Restart == restarting /\ writes.left = <<>> /\ Boot

Fail == (~restarting \/ writes.left # <<>>) /\ Boot

----------------------------------------------------------------------------
(* Samples *)

Handling == writes.left # <<>>

Collect ==
  /\ actived /\ ~Handling /\ collected < MaxSamples
  /\ collected' = collected + 1 /\ files' = files \cup {collected + 1}
  /\ UNCHANGED <<published, accepts, disk, ram, writes, actived, restarting, jwt, posting, received>>

\* Mutant: one file too few
FewerNewest == {s \in files : Cardinality({t \in files : t > s}) + 1 < Batch}

Newest == {s \in files : Cardinality({t \in files : t > s}) < Batch}

Post ==
  /\ actived /\ jwt /\ ~Handling /\ posting # posting \cup Newest
  /\ posting' = posting \cup Newest
  /\ UNCHANGED <<published, accepts, disk, ram, writes, actived, restarting, jwt, samples>>

\* Mutant: the file goes with any answer
UnlinkAlways(s, ok) == files \ {s}

Unlinked(s, ok) == IF ok THEN files \ {s} ELSE files

\* The server takes a sample or not, and the answer arrives or not
Posted(s, taken, ok) ==
  /\ s \in posting /\ ~Handling /\ posting' = posting \ {s}
  /\ taken => accepts /\ s \notin Poison
  /\ ok => taken
  /\ received' = IF taken THEN received \cup {s} ELSE received
  /\ files' = Unlinked(s, ok)
  /\ UNCHANGED <<published, accepts, disk, ram, writes, actived, restarting, jwt, collected>>

----------------------------------------------------------------------------
(* The server *)

Publish(c) ==
  /\ c # published /\ published' = c
  /\ UNCHANGED <<accepts, disk, ram, writes, actived, restarting, jwt, posting, samples>>

Expire ==
  /\ accepts /\ accepts' = FALSE
  /\ UNCHANGED <<published, disk, ram, writes, actived, restarting, jwt, posting, samples>>

IotInit ==
  /\ published \in Config /\ accepts = TRUE
  /\ disk \in [worker : Script, init : Value, config : {Absent}] /\ ram = disk
  /\ writes = [of |-> published, left |-> <<>>] /\ actived = FALSE
  /\ restarting = FALSE /\ jwt = FALSE
  /\ files = {} /\ posting = {} /\ received = {} /\ collected = 0

Answer == \E s \in Sample : \E taken, ok \in BOOLEAN : Posted(s, taken, ok)

IotNext ==
  \/ Write \/ Query \/ Login \/ Restart \/ Fail \/ Collect \/ Post \/ Answer
  \/ \E c \in Config : Publish(c)
  \/ Expire

\* The tasks come back every few seconds and the process runs on; a sample the server
\* takes is answered if it is posted again and again
IotFairness ==
  /\ WF_iotVars(Write) /\ SF_iotVars(Restart) /\ WF_iotVars(Login) /\ WF_iotVars(Query)
  /\ WF_iotVars(Post) /\ \A s \in Sample : WF_iotVars(\E taken, ok \in BOOLEAN : Posted(s, taken, ok))
  /\ \A s \in Sample \ Poison : SF_iotVars(Posted(s, TRUE, TRUE))

IotSpec == IotInit /\ [][IotNext]_iotVars /\ IotFairness
----------------------------------------------------------------------------
(* Properties *)

\* Whatever is lost on the way and whenever the device fails, a sample is on its disk or
\* with the server.
NoSampleLost == 1..collected \subseteq files \cup received

\* While fewer samples than a batch has are refused for good, all others get through
\* although the newest are always posted first.
OthersDelivered ==
  (Cardinality(Poison) < Batch /\ <>[](actived /\ jwt /\ accepts /\ writes.left = <<>>))
    => <>[](files \subseteq Poison)

Current ==
  /\ disk.worker = published.script /\ published.init \in {Absent, disk.init}
  /\ disk.config = published /\ ram = disk /\ ~restarting
  /\ actived = published.actived

\* Whatever was half written when the device failed, it ends up running what the server
\* has, without restarting for ever, as long as no key of the configuration is an object.
ConvergesToServer ==
  ([](published.init \notin Nested)
     /\ <>[][published' = published /\ accepts' = accepts /\ ~Fail]_iotVars)
    => <>[]Current
============================================================================
