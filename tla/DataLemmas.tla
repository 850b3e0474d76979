----------------------------- MODULE DataLemmas ----------------------------
(* Facts about natural numbers, finite sets and flattened sequences.  What   *)
(* is defined over data of any size is shown by induction, here over a set   *)
(* of numbers: that of those for which a formula holds.                      *)
EXTENDS Naturals, FiniteSets, Sequences, SequencesExt, FiniteSetTheorems, SequenceTheorems,
        WellFoundedInduction, TLAPS

----------------------------------------------------------------------------
(* Induction, over a set instead of a formula *)

LEMMA LeastNatural ==
  ASSUME NEW S \in SUBSET Nat, S # {}
  PROVE  \E n \in S : \A m \in S : n <= m
<1>1. IsWellFoundedOn(OpToRel(<, Nat), Nat)
  BY NatLessThanWellFounded
<1>2. PICK x \in S : \A y \in S : <<y, x>> \notin OpToRel(<, Nat)
  BY <1>1, WFMin
<1>3. OpToRel(<, Nat) = {ss \in Nat \X Nat : ss[1] < ss[2]}
  BY DEF OpToRel
<1>4. ASSUME NEW y \in S PROVE x <= y
  <2>1. <<y, x>> \notin {ss \in Nat \X Nat : ss[1] < ss[2]}
    BY <1>2, <1>3
  <2>2. x \in Nat /\ y \in Nat
    OBVIOUS
  <2> QED
    BY <2>1, <2>2
<1> QED
  BY <1>4

LEMMA Induction ==
  ASSUME NEW S \in SUBSET Nat, 0 \in S, \A n \in S : n + 1 \in S
  PROVE  S = Nat
<1> SUFFICES ASSUME Nat \ S # {} PROVE FALSE
  OBVIOUS
<1>1. PICK n \in Nat \ S : \A m \in Nat \ S : n <= m
  BY LeastNatural
<1>2. n # 0 /\ n - 1 \in Nat
  BY <1>1
<1>3. n - 1 \in S
  BY <1>1, <1>2
<1>4. (n - 1) + 1 \in S
  BY <1>3
<1> QED
  BY <1>2, <1>4

----------------------------------------------------------------------------
(* The top of a finite set *)

\* A total preorder on S, as a set of pairs
TotalOn(R, S) ==
  /\ \A x, y \in S : <<x, y>> \in R \/ <<y, x>> \in R
  /\ \A x, y, z \in S : <<x, y>> \in R /\ <<y, z>> \in R => <<x, z>> \in R

LEMMA TopOfFinite ==
  ASSUME NEW S, IsFiniteSet(S), S # {}, NEW R, TotalOn(R, S)
  PROVE  \E x \in S : \A y \in S : <<x, y>> \in R
<1> DEFINE Good(n) == \A T \in SUBSET S : T # {} /\ Cardinality(T) = n =>
                         \E x \in T : \A y \in T : <<x, y>> \in R
           G == {n \in Nat : Good(n)}
<1>1. 0 \in G
  BY FS_EmptySet, FS_Subset
<1>2. ASSUME NEW n \in G PROVE n + 1 \in G
  <2>1. ASSUME NEW T \in SUBSET S, T # {}, Cardinality(T) = n + 1
        PROVE  \E x \in T : \A y \in T : <<x, y>> \in R
    <3>1. PICK t \in T : TRUE
      BY <2>1
    <3>2. IsFiniteSet(T)
      BY FS_Subset
    <3>3. Cardinality(T \ {t}) = n
      <4> HIDE DEF Good
      <4>1. n \in Nat
        OBVIOUS
      <4>2. Cardinality(T \ {t}) = Cardinality(T) - 1
        BY <3>1, <3>2, FS_RemoveElement
      <4>3. Cardinality(T \ {t}) = (n + 1) - 1
        BY <4>2, <2>1
      <4> HIDE DEF G
      <4> QED
        BY <4>1, <4>3
    <3>4. <<t, t>> \in R
      BY DEF TotalOn
    <3>5. CASE T \ {t} = {}
      BY <3>1, <3>4, <3>5
    <3>6. CASE T \ {t} # {}
      <4>1. T \ {t} \in SUBSET S
        OBVIOUS
      <4>2. PICK x \in T \ {t} : \A y \in T \ {t} : <<x, y>> \in R
        BY <1>2, <3>3, <3>6, <4>1
      <4>3. CASE <<x, t>> \in R
        BY <4>2, <4>3
      <4>4. CASE <<t, x>> \in R
        <5>1. \A y \in T \ {t} : <<t, y>> \in R
          BY <4>2, <4>4 DEF TotalOn
        <5> QED
          BY <5>1, <3>4
      <4> QED
        BY <4>3, <4>4 DEF TotalOn
    <3> QED
      BY <3>5, <3>6
  <2> QED
    BY <2>1
<1>3. G = Nat
  <2> HIDE DEF G
  <2> QED
    BY <1>1, <1>2, Induction DEF G
<1>4. Cardinality(S) \in Nat
  BY FS_CardinalityType
<1>5. Good(Cardinality(S))
  BY <1>3, <1>4
<1> QED
  BY <1>5

LEMMA GreatestNatural ==
  ASSUME NEW n \in Nat, NEW S \in SUBSET (1..n), S # {}
  PROVE  \E x \in S : \A y \in S : y <= x
<1> DEFINE R == {p \in S \X S : p[2] <= p[1]}
<1>1. IsFiniteSet(S)
  <2>1. IsFiniteSet(1..n)
    BY FS_Interval
  <2> QED
    BY <2>1, FS_Subset
<1>2. \A x, y \in S : <<x, y>> \in R <=> y <= x
  OBVIOUS
<1>3. TotalOn(R, S)
  BY <1>2 DEF TotalOn
<1> HIDE DEF R
<1> QED
  BY <1>1, <1>2, <1>3, TopOfFinite

LEMMA ImageIsFinite ==
  ASSUME NEW f, NEW n \in Nat
  PROVE  IsFiniteSet({f[i] : i \in 1..n})
<1> DEFINE image(m) == {f[i] : i \in 1..m}
           G == {m \in Nat : IsFiniteSet(image(m))}
<1>1. 0 \in G
  <2>1. image(0) = {}
    OBVIOUS
  <2> QED
    BY <2>1, FS_EmptySet
<1>2. ASSUME NEW m \in G PROVE m + 1 \in G
  <2>1. image(m + 1) = image(m) \cup {f[m + 1]}
    OBVIOUS
  <2>2. IsFiniteSet(image(m))
    OBVIOUS
  <2> HIDE DEF image
  <2> QED
    BY <2>1, <2>2, FS_AddElement
<1>3. G = Nat
  <2> HIDE DEF G
  <2> QED
    BY <1>1, <1>2, Induction DEF G
<1> QED
  BY <1>3

LEMMA UnionIsFinite ==
  ASSUME NEW f, NEW n \in Nat, \A i \in 1..n : IsFiniteSet(f[i])
  PROVE  IsFiniteSet(UNION {f[i] : i \in 1..n})
<1> DEFINE union(m) == UNION {f[i] : i \in 1..m}
           G == {m \in Nat : m <= n => IsFiniteSet(union(m))}
<1>1. 0 \in G
  <2>1. union(0) = {}
    OBVIOUS
  <2> QED
    BY <2>1, FS_EmptySet
<1>2. ASSUME NEW m \in G PROVE m + 1 \in G
  <2>0. SUFFICES ASSUME m + 1 <= n PROVE IsFiniteSet(union(m + 1))
    OBVIOUS
  <2>1. union(m + 1) = union(m) \cup f[m + 1]
    <3>1. 1..(m + 1) = 1..m \cup {m + 1}
      OBVIOUS
    <3> QED
      BY <3>1
  <2>2. IsFiniteSet(union(m)) /\ IsFiniteSet(f[m + 1])
    <3> HIDE DEF union
    <3>1. m \in Nat /\ (m <= n => IsFiniteSet(union(m)))
      OBVIOUS
    <3> HIDE DEF G
    <3>2. m <= n /\ m + 1 \in 1..n
      BY <2>0, <3>1
    <3> QED
      BY <3>1, <3>2
  <2> HIDE DEF union, G
  <2>3. IsFiniteSet(union(m) \cup f[m + 1])
    BY <2>2, FS_Union, Zenon
  <2> QED
    BY <2>1, <2>3
<1>3. G = Nat
  <2> HIDE DEF G
  <2> QED
    BY <1>1, <1>2, Induction DEF G
<1>4. n \in G
  <2> HIDE DEF G
  <2> QED
    BY <1>3
<1>5. n <= n
  OBVIOUS
<1>6. IsFiniteSet(union(n))
  <2> HIDE DEF union
  <2> QED
    BY <1>4, <1>5
<1> QED
  BY <1>6

----------------------------------------------------------------------------
(* Sequences that are flattened *)

LEMMA ConcatElements ==
  ASSUME NEW S, NEW s \in Seq(S), NEW t \in Seq(S)
  PROVE  s \o t \in Seq(S) /\ ToSet(s \o t) = ToSet(s) \cup ToSet(t)
<1>1. /\ s \o t \in Seq(S) /\ Len(s \o t) = Len(s) + Len(t)
      /\ \A i \in 1..(Len(s) + Len(t)) : (s \o t)[i] = IF i <= Len(s) THEN s[i] ELSE t[i - Len(s)]
  OBVIOUS
<1>2. /\ Len(s) \in Nat /\ Len(t) \in Nat /\ DOMAIN (s \o t) = 1..(Len(s) + Len(t))
      /\ DOMAIN s = 1..Len(s) /\ DOMAIN t = 1..Len(t)
  OBVIOUS
<1>3. ASSUME NEW x \in ToSet(s \o t) PROVE x \in ToSet(s) \cup ToSet(t)
  <2>1. PICK i \in 1..(Len(s) + Len(t)) : x = (s \o t)[i]
    BY <1>2 DEF ToSet
  <2>2. CASE i <= Len(s)
    BY <1>1, <1>2, <2>1, <2>2 DEF ToSet
  <2>3. CASE ~(i <= Len(s))
    <3>1. i - Len(s) \in 1..Len(t) /\ x = t[i - Len(s)]
      BY <1>1, <1>2, <2>1, <2>3
    <3> QED
      BY <1>2, <3>1 DEF ToSet
  <2> QED
    BY <2>2, <2>3
<1>4. ASSUME NEW i \in 1..Len(s) PROVE s[i] \in ToSet(s \o t)
  <2>1. i \in 1..(Len(s) + Len(t)) /\ s[i] = (s \o t)[i]
    BY <1>1, <1>2
  <2> QED
    BY <1>2, <2>1 DEF ToSet
<1>5. ASSUME NEW i \in 1..Len(t) PROVE t[i] \in ToSet(s \o t)
  <2>1. i + Len(s) \in 1..(Len(s) + Len(t)) /\ t[i] = (s \o t)[i + Len(s)]
    BY <1>1, <1>2
  <2> QED
    BY <1>2, <2>1 DEF ToSet
<1> QED
  BY <1>1, <1>2, <1>3, <1>4, <1>5 DEF ToSet

LEMMA FlattenFacts ==
  ASSUME NEW S, NEW ss \in Seq(Seq(S))
  PROVE  /\ FlattenSeq(ss) \in Seq(S)
         /\ ToSet(FlattenSeq(ss)) = UNION {ToSet(ss[i]) : i \in DOMAIN ss}
<1>1. CASE Len(ss) = 0
  <2>1. FlattenSeq(ss) = ss /\ ss = <<>> /\ DOMAIN ss = {}
    BY <1>1 DEF FlattenSeq
  <2> QED
    BY <2>1 DEF ToSet
<1>2. CASE Len(ss) # 0
  <2> DEFINE n == Len(ss)
             step(g, m) == g = [i \in 1..m |-> IF i = 1 THEN ss[i] ELSE g[i - 1] \o ss[i]]
  <2>1. n \in Nat \ {0} /\ DOMAIN ss = 1..n /\ \A i \in 1..n : ss[i] \in Seq(S)
    BY <1>2
  <2> HIDE DEF step
  <2>2. \A m \in Nat : m <= n => \E g : step(g, m)
    <3> DEFINE G == {m \in Nat : m <= n => \E g : step(g, m)}
    <3>1. 0 \in G
      <4>1. step([i \in 1..0 |-> 0], 0)
        BY DEF step
      <4> QED
        BY <4>1
    <3>2. ASSUME NEW m \in G PROVE m + 1 \in G
      <4>0. SUFFICES ASSUME m + 1 <= n PROVE \E g : step(g, m + 1)
        OBVIOUS
      <4>1. PICK g : step(g, m)
        BY <4>0
      <4> DEFINE h == [i \in 1..(m + 1) |-> IF i <= m THEN g[i]
                                            ELSE IF i = 1 THEN ss[i] ELSE g[i - 1] \o ss[i]]
      <4>2. ASSUME NEW i \in 1..(m + 1)
            PROVE  h[i] = IF i = 1 THEN ss[i] ELSE h[i - 1] \o ss[i]
        <5>1. CASE i <= m
          <6>1. h[i] = g[i] /\ (i # 1 => h[i - 1] = g[i - 1])
            BY <5>1
          <6>2. g[i] = IF i = 1 THEN ss[i] ELSE g[i - 1] \o ss[i]
            <7>1. i \in 1..m
              BY <5>1
            <7> HIDE DEF h
            <7>2. g = [j \in 1..m |-> IF j = 1 THEN ss[j] ELSE g[j - 1] \o ss[j]]
              BY <4>1 DEF step
            <7> QED
              BY <7>1, <7>2, Zenon
          <6> QED
            BY <6>1, <6>2
        <5>2. CASE ~(i <= m)
          BY <5>2
        <5> QED
          BY <5>1, <5>2
      <4>3. step(h, m + 1)
        <5> HIDE DEF h
        <5>1. h = [i \in 1..(m + 1) |-> h[i]]
          BY DEF h
        <5> QED
          BY <4>2, <5>1 DEF step
      <4> QED
        BY <4>3
    <3>3. G = Nat
      <4> HIDE DEF G
      <4> QED
        BY <3>1, <3>2, Induction DEF G
    <3> QED
      BY <3>3
  <2> DEFINE flat == CHOOSE g : step(g, n)
  <2>3. step(flat, n)
    BY <2>1, <2>2
  <2>4. FlattenSeq(ss) = flat[n]
    BY <1>2 DEF FlattenSeq, step
  <2>5. \A m \in Nat : m \in 1..n =>
          flat[m] \in Seq(S) /\ ToSet(flat[m]) = UNION {ToSet(ss[i]) : i \in 1..m}
    <3> DEFINE G == {m \in Nat : m \in 1..n =>
                       flat[m] \in Seq(S) /\ ToSet(flat[m]) = UNION {ToSet(ss[i]) : i \in 1..m}}
    <3> HIDE DEF flat
    <3>1. 0 \in G
      OBVIOUS
    <3>2. ASSUME NEW m \in G PROVE m + 1 \in G
      <4>0. SUFFICES ASSUME m + 1 \in 1..n
                     PROVE  /\ flat[m + 1] \in Seq(S)
                            /\ ToSet(flat[m + 1]) = UNION {ToSet(ss[i]) : i \in 1..(m + 1)}
        OBVIOUS
      <4>1. CASE m = 0
        <5>1. flat[m + 1] = ss[1] /\ 1..(m + 1) = {1}
          BY <2>3, <4>0, <4>1 DEF step
        <5> QED
          BY <5>1, <2>1, <4>0
      <4>2. CASE m # 0
        <5>1. flat[m + 1] = flat[m] \o ss[m + 1]
          <6> HIDE DEF n
          <6>1. m + 1 \in 1..n /\ m + 1 # 1 /\ (m + 1) - 1 = m
            BY <4>0, <4>2
          <6> QED
            BY <2>3, <6>1 DEF step
        <5>2. /\ flat[m] \in Seq(S) /\ ss[m + 1] \in Seq(S)
              /\ ToSet(flat[m]) = UNION {ToSet(ss[i]) : i \in 1..m}
          BY <2>1, <4>0, <4>2
        <5>3. 1..(m + 1) = 1..m \cup {m + 1}
          BY <4>0
        <5>4. ToSet(flat[m] \o ss[m + 1]) = ToSet(flat[m]) \cup ToSet(ss[m + 1])
          BY <5>2, ConcatElements
        <5>5. UNION {ToSet(ss[i]) : i \in 1..(m + 1)} =
                (UNION {ToSet(ss[i]) : i \in 1..m}) \cup ToSet(ss[m + 1])
          BY <5>3
        <5>6. flat[m] \o ss[m + 1] \in Seq(S)
          BY <5>2, ConcatElements
        <5> QED
          BY <5>1, <5>2, <5>4, <5>5, <5>6
      <4> QED
        BY <4>1, <4>2
    <3>3. G = Nat
      <4> HIDE DEF G
      <4> QED
        BY <3>1, <3>2, Induction DEF G
    <3> QED
      BY <3>3
  <2>6. flat[n] \in Seq(S) /\ ToSet(flat[n]) = UNION {ToSet(ss[i]) : i \in 1..n}
    <3> HIDE DEF flat, n
    <3>1. n \in Nat /\ n \in 1..n
      BY <2>1
    <3> QED
      BY <2>5, <3>1
  <2> HIDE DEF flat
  <2> QED
    BY <2>1, <2>4, <2>6
<1> QED
  BY <1>1, <1>2
=============================================================================
