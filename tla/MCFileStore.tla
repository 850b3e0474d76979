---------------------------- MODULE MCFileStore ----------------------------
(* Two files, two kinds, two names: files that move between kinds, share a  *)
(* name, lose their kind or their spec, and one policy the watcher throws   *)
(* on; in a mesh a resource and that policy only.                           *)
EXTENDS FileStore, TLC

CONSTANTS p1, p2, gateway, policy, web, api, s1

MCPath == {p1, p2}
MCKind == {gateway, policy}
MCName == {web, api}
MCSpec == {s1}

D(k, n, s) == [kind |-> k, name |-> n, spec |-> s]
MCPoison == {D(policy, api, None)}
MCMeshDocs == {D(gateway, web, s1)} \cup MCPoison
MCDocs == {D(gateway, web, s1), D(gateway, web, None), D(policy, web, s1),
           D(None, web, s1)} \cup MCPoison
=============================================================================
