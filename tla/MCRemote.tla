------------------------------ MODULE MCRemote -----------------------------
(* The two programs that keep something on another host.  They share no     *)
(* state: the one in focus moves, and the other stays as it begins.  The    *)
(* device is run with configurations that change and no samples, and with   *)
(* samples under one configuration.                                         *)
EXTENDS RepoClient, IotDevice, TLC

CONSTANTS r1, r2, script, config, extra, sa, sb, va, vb

VARIABLE focus

Shipped == r1 :> {script, config} @@ r2 :> {script, config, extra}

Init ==
  /\ focus \in {"repository", "configuration", "samples"} /\ RepoInit /\ IotInit
  /\ focus # "repository" => release = r1
  /\ focus # "configuration" => published = [script |-> sa, init |-> Absent, actived |-> TRUE]
  /\ focus = "repository" => disk.worker = sa /\ disk.init = va
  /\ focus = "samples" => disk.init = va

Next ==
  /\ UNCHANGED focus
  /\ \/ focus = "repository" /\ RepoNext /\ UNCHANGED iotVars
     \/ focus = "configuration" /\ IotNext /\ UNCHANGED <<samples, repoVars>>
     \/ focus = "samples" /\ IotNext /\ UNCHANGED <<published, repoVars>>

Spec == Init /\ [][Next]_<<focus, repoVars, iotVars>> /\ (focus # "repository" => IotFairness)

\* ConvergesToServer of the device, where it is what runs.
DeviceConverges == focus = "configuration" => ConvergesToServer

\* OthersDelivered of the device, where it is what runs.
DeviceDelivers == focus = "samples" => OthersDelivered
============================================================================
