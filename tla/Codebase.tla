------------------------------ MODULE Codebase -----------------------------
(***************************************************************************)
(* What a codebase of the repository promises to the clients that poll its *)
(* version: they are served nothing or the whole of a release, what they   *)
(* are served changes with the version only, and versions are counted up   *)
(* one by one, once there is something to serve.                           *)
(***************************************************************************)
EXTENDS Naturals

CONSTANTS Whole,   \* the contents of a codebase that have a release in full
          Nothing  \* the contents of one that nothing was committed to

VARIABLES version, live

vars == <<version, live>>

Init == version = 0 /\ live = Nothing

Create == version = 0 /\ version' = 1 /\ UNCHANGED live

\* Whoever has created a codebase may take its version for zero
PublishFirst == live = Nothing /\ version = 1 /\ version' \in {1, 2} /\ live' \in Whole

Publish == live # Nothing /\ version' = version + 1 /\ live' \in Whole

Next == Create \/ PublishFirst \/ Publish

Spec == Init /\ [][Next]_vars
============================================================================
