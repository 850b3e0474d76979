----------------------------- MODULE DubboRoute ----------------------------
(***************************************************************************)
(* How a listener finds the target for a Dubbo call                        *)
(* (src/modules/router-dubbo.js): the rules are searched in the order of   *)
(* their priority, and what was selected for one call is kept for an hour  *)
(* for all calls of the same service, version, method and signature.       *)
(*                                                                         *)
(* The body of a call is a sequence: the version of the protocol, and then *)
(* these four.  A pattern of a match is a record of the words it fits and  *)
(* of what its text weighs in the order of priority.                       *)
(***************************************************************************)
EXTENDS Naturals, Sequences

CONSTANTS RuleSets, \* sequences of matches [type, patterns, targets]
          Bodies,
          Unset

ASSUME DubboAssumption ==
  /\ \A b \in Bodies : b \in Seq({b[k] : k \in 1..5}) /\ Len(b) = 5
  /\ \A rs \in RuleSets : rs \in Seq({rs[i] : i \in DOMAIN rs}) /\ \A i \in DOMAIN rs :
       /\ rs[i].type \in {"Exact", "RegularExpression", "none"}
       /\ DOMAIN rs[i].patterns \subseteq 1..4 /\ rs[i].targets # {}
       /\ \A k \in DOMAIN rs[i].patterns : rs[i].patterns[k].weight \in Nat

VARIABLES matches, \* the matches of the present routes
          kept,    \* cache: what was selected for a key, or Unset
          body,    \* the call, or Unset
          chosen   \* $selection: [match, target] or Unset

dubboVars == <<matches, kept, body, chosen>>

----------------------------------------------------------------------------
\* Mutant: calls that differ in their signature share a selection
KeyOfMethod(b) == SubSeq(b, 2, 4)

\* body.slice(1,5).join: words have no spaces
Key(b) == SubSeq(b, 2, 5)

Keys == {Key(b) : b \in Bodies}

\* getMatchPriority(): an exact text is worth more than none; whether it is greater than
\* another one makes no difference, as no call fits both
Weight(m, k) == IF m.type = "none" \/ k \notin DOMAIN m.patterns THEN 0
                ELSE IF m.type = "Exact" THEN 1 ELSE m.patterns[k].weight

Priority(m) ==
  <<CASE m.type = "Exact" -> 3 [] m.type = "RegularExpression" -> 1 [] OTHER -> 0>>
    \o [k \in 1..4 |-> Weight(m, k)]

Precedes(p, q) == \E k \in 1..5 : p[k] > q[k] /\ \A j \in 1..(k - 1) : p[j] = q[j]

\* A match without a type tests nothing
Answers(m, b) == m.type = "none" \/ \A k \in DOMAIN m.patterns : b[k + 1] \in m.patterns[k].words

\* The match found: of equal priorities the one that is declared first
Found(b) ==
  LET fit == {i \in DOMAIN matches : Answers(matches[i], b)}
  IN IF fit = {} THEN Unset
     ELSE CHOOSE i \in fit : \A j \in fit \ {i} :
            \/ Precedes(Priority(matches[i]), Priority(matches[j]))
            \/ Priority(matches[i]) = Priority(matches[j]) /\ i < j

\* What the selector of the rule may give
Selections(b) == IF Found(b) = Unset THEN {Unset}
                 ELSE [match : {Found(b)}, target : matches[Found(b)].targets]

\* handleRequest: nothing selected is nothing kept
Handle(b) ==
  /\ body = Unset /\ body' = b
  /\ chosen' \in IF kept[Key(b)] # Unset THEN {kept[Key(b)]} ELSE Selections(b)
  /\ kept' = [kept EXCEPT ![Key(b)] = chosen']
  /\ UNCHANGED matches

Reply404OrForward == body # Unset /\ body' = Unset /\ chosen' = Unset /\ UNCHANGED <<matches, kept>>

\* update(): a new router has a new cache; a call under way goes on with what it has
UpdateRules(rs) ==
  matches' = rs /\ kept' = [k \in Keys |-> Unset] /\ UNCHANGED <<body, chosen>>

\* The hour is over
Outdate(k) == kept[k] # Unset /\ kept' = [kept EXCEPT ![k] = Unset] /\ UNCHANGED <<matches, body, chosen>>

DubboInit == /\ matches \in RuleSets /\ kept = [k \in Keys |-> Unset]
             /\ body = Unset /\ chosen = Unset

DubboNext == \/ \E b \in Bodies : Handle(b)
             \/ Reply404OrForward
             \/ \E rs \in RuleSets : UpdateRules(rs)
             \/ \E k \in Keys : Outdate(k)

DubboSpec == DubboInit /\ [][DubboNext]_dubboVars

----------------------------------------------------------------------------
\* What is kept for a key is something the present routes could select for every call
\* of that key, so no call is sent by a selection that was not made for it
\* (router-dubbo.js:94-102), whatever calls came before and however the routes changed.
KeptIsSelected ==
  \A b \in Bodies : kept[Key(b)] # Unset => kept[Key(b)] \in Selections(b)
=============================================================================
