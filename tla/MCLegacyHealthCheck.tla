------------------------ MODULE MCLegacyHealthCheck ------------------------
(* Two targets under a passive health check, an active one by HTTP that is  *)
(* given a FailTimeout too, and one that connects.                          *)
EXTENDS LegacyHealthCheck, TLC

CONSTANTS t1, t2

HC(maxFails, interval, failTimeout, path) ==
  [maxFails |-> maxFails, interval |-> interval, failTimeout |-> failTimeout, path |-> path]

Connecting == HC(2, 1, 0, FALSE)
Checks     == {HC(2, 0, 2, FALSE), HC(2, 2, 1, TRUE), Connecting}
=============================================================================
