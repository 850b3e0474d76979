------------------------------- MODULE Places ------------------------------
(***************************************************************************)
(* What a filter that limits the number of streams promises: whoever       *)
(* enters holds a place until it leaves, there are never more holders than *)
(* places, and nobody is turned away while there is a place.               *)
(***************************************************************************)
EXTENDS Naturals, FiniteSets

CONSTANTS Stream

VARIABLES
  capacity,  \* the number of places, never changed
  holders,   \* the streams that hold a place
  refused    \* the streams that were turned away and are still there

vars == <<capacity, holders, refused>>

Outside(s) == s \notin holders \cup refused

Enter(s) ==
  /\ Outside(s) /\ Cardinality(holders) < capacity
  /\ holders' = holders \cup {s} /\ UNCHANGED <<capacity, refused>>

Refuse(s) ==
  /\ Outside(s) /\ Cardinality(holders) >= capacity
  /\ refused' = refused \cup {s} /\ UNCHANGED <<capacity, holders>>

Leave(s) ==
  /\ holders' = holders \ {s} /\ refused' = refused \ {s} /\ UNCHANGED capacity

Init == capacity \in Nat /\ holders = {} /\ refused = {}

Next == \E s \in Stream : Enter(s) \/ Refuse(s) \/ Leave(s)

Spec == Init /\ [][Next]_vars
============================================================================
