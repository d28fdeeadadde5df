----------------------- MODULE ThreatSelectionProofs -----------------------
(***************************************************************************)
(* What ReselectVictim picks is what the rule of 110 and 130 % allows, on  *)
(* a threat list of any length and with any amounts of threat.             *)
(***************************************************************************)
EXTENDS ThreatSelection, FiniteSetTheorems, WellFoundedInduction, TLAPS

\* The references a threat list may hold.
References == [online : {Offline, Suppressed, Online}, taunt : Nat, threat : Nat]

-----------------------------------------------------------------------------
(* CompareReferencesLT as an order                                         *)

\* More than 130 % is more than 110 %, and that is more.
LEMMA Percent ==
  ASSUME NEW a \in References, NEW b \in References
  PROVE  /\ CompareReferencesLT(a, b, 130) => CompareReferencesLT(a, b, 110)
         /\ CompareReferencesLT(a, b, 110) => CompareReferencesLT(a, b, 100)
         /\ ~CompareReferencesLT(a, a, 110) /\ ~CompareReferencesLT(a, a, 100)
  BY DEF References, CompareReferencesLT, Offline, Suppressed, Online

\* Who is not below somebody that beats a, beats a too; and who is below an
\* unavailable reference is not available.
LEMMA Beats ==
  ASSUME NEW a \in References, NEW b \in References, NEW c \in References,
         ~CompareReferencesLT(c, b, 100)
  PROVE  /\ CompareReferencesLT(a, b, 110) => CompareReferencesLT(a, c, 110)
         /\ CompareReferencesLT(a, b, 130) => CompareReferencesLT(a, c, 130)
         /\ CompareReferencesLT(a, b, 100) => CompareReferencesLT(a, c, 100)
         /\ ~CompareReferencesLT(b, a, 100) => ~CompareReferencesLT(c, a, 100)
         /\ IsAvailable(b) => IsAvailable(c)
  BY DEF References, CompareReferencesLT, IsAvailable, Offline, Suppressed, Online

\* Min returns a least element of a set of natural numbers.
LEMMA LeastNatural ==
  ASSUME NEW S \in SUBSET Nat, S # {}
  PROVE  Min(S) \in S /\ \A k \in S : Min(S) <= k
  <1>1. PICK x \in S : \A y \in S : ~(<<y, x>> \in OpToRel(<, Nat))
    BY NatLessThanWellFounded, WFMin
  <1>2. ASSUME NEW y \in S, y < x PROVE <<y, x>> \in OpToRel(<, Nat)
    BY <1>2, Zenon DEF OpToRel
  <1>3. \A y \in S : ~(y < x)
    BY <1>1, <1>2, Zenon
  <1>4. \A y \in S : x <= y
    BY <1>3
  <1>5. QED
    BY <1>4 DEF Min

-----------------------------------------------------------------------------
(* What the code picks deserves it                                         *)

\* The heap hands out everybody, the highest first.
LEMMA HighestFirst ==
  ASSUME NEW V, IsFiniteSet(V), V # {}, NEW r \in [V -> References], NEW s \in Ordered(r)
  PROVE  /\ 1 \in DOMAIN s /\ DOMAIN s \subseteq Nat /\ s \in [DOMAIN s -> V]
         /\ \A v \in V : \E i \in DOMAIN s : s[i] = v
         /\ \A i, j \in DOMAIN s : i < j => ~CompareReferencesLT(r[s[i]], r[s[j]], 100)
         /\ \A v \in V : ~CompareReferencesLT(r[s[1]], r[v], 100)
  <1>1. DOMAIN r = V
    OBVIOUS
  <1>2. Cardinality(V) \in Nat /\ Cardinality(V) # 0
    BY FS_CardinalityType, FS_EmptySet
  <1>3. /\ s \in [1..Cardinality(V) -> V] /\ {s[i] : i \in DOMAIN s} = V
        /\ \A i, j \in DOMAIN s : i < j => ~CompareReferencesLT(r[s[i]], r[s[j]], 100)
    BY <1>1 DEF Ordered
  <1>4. 1 \in DOMAIN s /\ DOMAIN s \subseteq Nat /\ s \in [DOMAIN s -> V]
    BY <1>2, <1>3
  <1>5. \A v \in V : \E i \in DOMAIN s : s[i] = v
    BY <1>3, Zenon
  <1>6. ASSUME NEW v \in V PROVE ~CompareReferencesLT(r[s[1]], r[v], 100)
    <2>1. PICK i \in DOMAIN s : s[i] = v
      BY <1>5
    <2>2. CASE i = 1
      BY <2>1, <2>2, <1>4, Percent
    <2>3. CASE i # 1
      BY <2>1, <2>3, <1>2, <1>3, <1>4
    <2>4. QED
      BY <2>2, <2>3
  <1>7. QED
    BY <1>3, <1>4, <1>5, <1>6, Zenon

\* The loop at the end of ReselectVictim: where the highest has 110 % but neither
\* 130 % nor melee range, it finds the highest one in melee range with 110 %, and
\* keeps the old victim if there is none.
LEMMA MeleeLoop ==
  ASSUME NEW V, IsFiniteSet(V), V # {}, NEW r \in [V -> References], NEW s \in Ordered(r),
         NEW old \in V, NEW melee
  PROVE  LET drawing == {v \in V : v \in melee /\ CompareReferencesLT(r[old], r[v], 110)}
         IN  \/ drawing = {} /\ NextMelee(r, s, old, melee) = old
             \/ NextMelee(r, s, old, melee) \in Highest(r, drawing)
  <1> DEFINE above(v) == CompareReferencesLT(r[old], r[v], 110)
             K == {k \in DOMAIN s : s[k] = old \/ ~above(s[k]) \/ s[k] \in melee}
             i == Min(K)
             drawing == {v \in V : v \in melee /\ above(v)}
  <1>1. /\ DOMAIN s \subseteq Nat /\ s \in [DOMAIN s -> V]
        /\ \A v \in V : \E k \in DOMAIN s : s[k] = v
        /\ \A k, j \in DOMAIN s : k < j => ~CompareReferencesLT(r[s[k]], r[s[j]], 100)
    BY HighestFirst
  <1>2. K \in SUBSET Nat /\ K # {}
    BY <1>1
  <1>3. i \in K /\ \A k \in K : i <= k
    BY <1>2, LeastNatural
  <1>4. NextMelee(r, s, old, melee) = IF above(s[i]) THEN s[i] ELSE old
    BY DEF NextMelee
  <1>5. i \in DOMAIN s /\ s[i] \in V /\ i \in Nat
    BY <1>1, <1>3
  <1>6. ASSUME NEW v \in drawing PROVE \E k \in DOMAIN s : s[k] = v /\ k \in K /\ i <= k
    BY <1>1, <1>3
  <1> HIDE DEF i
  <1>7. CASE above(s[i])
    <2>1. s[i] # old
      BY <1>5, <1>7, Percent
    <2>2. s[i] \in drawing
      BY <1>3, <1>5, <1>7, <2>1
    <2>3. ASSUME NEW v \in drawing PROVE ~CompareReferencesLT(r[s[i]], r[v], 100)
      <3>1. PICK k \in DOMAIN s : s[k] = v /\ i <= k
        BY <1>6
      <3>2. CASE i = k
        BY <3>1, <3>2, <1>5, Percent
      <3>3. CASE i # k
        <4>1. i < k
          BY <3>1, <3>3, <1>1, <1>5
        <4>2. QED
          BY <4>1, <3>1, <1>1, <1>5
      <3>4. QED
        BY <3>2, <3>3
    <2>4. s[i] \in Highest(r, drawing)
      BY <2>2, <2>3 DEF Highest
    <2>5. QED
      BY <2>4, <1>4, <1>7
  <1>8. CASE ~above(s[i])
    <2>1. ASSUME NEW v \in drawing PROVE FALSE
      <3>1. PICK k \in DOMAIN s : s[k] = v /\ i <= k
        BY <1>6
      <3>2. above(v) /\ v \in V
        OBVIOUS
      <3>3. CASE i = k
        BY <3>1, <3>2, <3>3, <1>8
      <3>4. CASE i # k
        <4>1. i < k
          BY <3>1, <3>4, <1>1, <1>5
        <4>2. ~CompareReferencesLT(r[s[i]], r[v], 100)
          BY <4>1, <3>1, <1>1, <1>5
        <4>3. QED
          BY <4>2, <3>2, <1>5, <1>8, Beats
      <3>5. QED
        BY <3>3, <3>4
    <2>2. QED
      BY <2>1, <1>4, <1>8
  <1>9. QED
    BY <1>7, <1>8

\* Whatever the heap's choice among equals, the victim picked is one the rule
\* allows.
LEMMA PicksDeserving ==
  ASSUME NEW none, NEW V, IsFiniteSet(V), V # {}, none \notin V,
         NEW r \in [V -> References], NEW old \in V \cup {none}, NEW melee
  PROVE  Reselect(r, old, melee, none) \subseteq Deserving(r, old, melee, none)
  <1> DEFINE available == {v \in V : IsAvailable(r[v])}
             drawing == {v \in available : \/ CompareReferencesLT(r[old], r[v], 130)
                                           \/ v \in melee /\ CompareReferencesLT(r[old], r[v], 110)}
             picked(s) == LET highest == s[1]
                              stays == old # none /\ IsAvailable(r[old])
                          IN  IF ~IsAvailable(r[highest]) THEN {none}
                              ELSE IF ~stays \/ highest = old THEN {highest}
                              ELSE IF ~CompareReferencesLT(r[old], r[highest], 110) THEN {old}
                              ELSE IF CompareReferencesLT(r[old], r[highest], 130) \/ highest \in melee
                                   THEN {highest}
                              ELSE {NextMelee(r, s, old, melee)}
  <1>1. Deserving(r, old, melee, none) =
          IF available = {} THEN {none}
          ELSE IF old \notin available THEN Highest(r, available)
          ELSE IF drawing = {} THEN {old} ELSE Highest(r, drawing)
    BY DEF Deserving
  <1>2. Reselect(r, old, melee, none) = UNION {picked(s) : s \in Ordered(r)}
    BY DEF Reselect
  <1>3. ASSUME NEW s \in Ordered(r) PROVE picked(s) \subseteq Deserving(r, old, melee, none)
    <2> DEFINE h == s[1]
    <2>1. h \in V /\ \A v \in V : ~CompareReferencesLT(r[h], r[v], 100)
      BY HighestFirst
    <2> HIDE DEF h
    <2>2. CASE ~IsAvailable(r[h])
      <3>1. available = {}
        BY <2>1, <2>2, Beats
      <3>2. picked(s) = {none}
        BY <2>2 DEF h
      <3>3. QED
        BY <3>1, <3>2, <1>1
    <2>3. CASE IsAvailable(r[h]) /\ old \notin available
      <3>1. h \in Highest(r, available)
        BY <2>1, <2>3 DEF Highest
      <3>2. picked(s) = {h}
        BY <2>3 DEF h
      <3>3. QED
        BY <3>1, <3>2, <1>1, <2>1, <2>3
    <2>4. CASE IsAvailable(r[h]) /\ old \in available
      <3>1. old \in V /\ old # none /\ IsAvailable(r[old]) /\ r[old] \in References /\ r[h] \in References
        BY <2>1, <2>4
      <3>2. Deserving(r, old, melee, none) = IF drawing = {} THEN {old} ELSE Highest(r, drawing)
        BY <1>1, <2>4
      <3>3. CASE ~CompareReferencesLT(r[old], r[h], 110)
        <4>1. drawing = {}
          <5>1. ASSUME NEW v \in drawing PROVE CompareReferencesLT(r[old], r[v], 110)
            BY <3>1, Percent
          <5>2. QED
            BY <5>1, <3>1, <3>3, <2>1, Beats
        <4>2. picked(s) = {old}
          BY <3>1, <3>3, <2>4 DEF h
        <4>3. QED
          BY <4>1, <4>2, <3>2
      <3>4. CASE CompareReferencesLT(r[old], r[h], 110)
                 /\ (CompareReferencesLT(r[old], r[h], 130) \/ h \in melee)
        <4>1. h \in drawing
          BY <3>4, <2>1, <2>4
        <4>2. h \in Highest(r, drawing)
          BY <4>1, <2>1 DEF Highest
        <4>3. h # old
          BY <3>1, <3>4, Percent
        <4>4. picked(s) = {h}
          BY <3>1, <3>4, <2>4, <4>3 DEF h
        <4>5. QED
          BY <4>1, <4>2, <4>4, <3>2
      <3>5. CASE CompareReferencesLT(r[old], r[h], 110)
                 /\ ~CompareReferencesLT(r[old], r[h], 130) /\ h \notin melee
        <4> DEFINE reached == {v \in V : v \in melee /\ CompareReferencesLT(r[old], r[v], 110)}
        <4>1. \A v \in V : ~CompareReferencesLT(r[old], r[v], 130)
          BY <3>1, <3>5, <2>1, Beats
        <4>2. \A v \in V : CompareReferencesLT(r[old], r[v], 110) => IsAvailable(r[v])
          BY <3>1 DEF References, CompareReferencesLT, IsAvailable, Offline, Suppressed, Online
        <4>3. drawing = reached
          BY <4>1, <4>2
        <4>4. h # old
          BY <3>1, <3>5, Percent
        <4>5. picked(s) = {NextMelee(r, s, old, melee)}
          BY <3>1, <3>5, <2>4, <4>4 DEF h
        <4> HIDE DEF drawing, picked
        <4>6. \/ reached = {} /\ NextMelee(r, s, old, melee) = old
              \/ NextMelee(r, s, old, melee) \in Highest(r, reached)
          BY <3>1, MeleeLoop
        <4>7. reached = {} => Highest(r, reached) = {}
          BY DEF Highest
        <4>8. QED
          BY <4>3, <4>5, <4>6, <4>7, <3>2
      <3>6. QED
        BY <3>3, <3>4, <3>5
    <2>5. QED
      BY <2>2, <2>3, <2>4
  <1>4. QED
    BY <1>2, <1>3

-----------------------------------------------------------------------------
(* Whoever deserves it may be picked                                       *)

\* The orders in which the heap may hand out the victims of W.
OrderedPart(r, W) ==
    {s \in [1..Cardinality(W) -> W] :
        /\ {s[i] : i \in DOMAIN s} = W
        /\ \A i, j \in DOMAIN s : i < j => ~CompareReferencesLT(r[s[i]], r[s[j]], 100)}

\* An order of those above d, d, and an order of the others make an order of all.
LEMMA Joined ==
  ASSUME NEW V, NEW r \in [V -> References], NEW W \in SUBSET V, IsFiniteSet(W), NEW d \in W,
         NEW s \in OrderedPart(r, {v \in W : CompareReferencesLT(r[d], r[v], 100)}),
         NEW t \in OrderedPart(r, {v \in W \ {d} : ~CompareReferencesLT(r[d], r[v], 100)})
  PROVE  \E q \in OrderedPart(r, W) : \E i \in DOMAIN q :
            q[i] = d /\ \A j \in DOMAIN q : j < i => CompareReferencesLT(r[d], r[q[j]], 100)
  <1> DEFINE A == {v \in W : CompareReferencesLT(r[d], r[v], 100)}
             B == {v \in W \ {d} : ~CompareReferencesLT(r[d], r[v], 100)}
             n == Cardinality(A)
             m == Cardinality(B)
             q == [i \in 1..Cardinality(W) |->
                     IF i <= n THEN s[i] ELSE IF i = n + 1 THEN d ELSE t[i - n - 1]]
  <1>1. IsFiniteSet(A) /\ IsFiniteSet(B) /\ A \in SUBSET W /\ B \in SUBSET W
    BY FS_Subset
  <1>2. n \in Nat /\ m \in Nat
    BY <1>1, FS_CardinalityType
  <1>3. d \notin A /\ d \notin B /\ A \cap B = {} /\ W = (A \cup {d}) \cup B
    BY Percent
  <1>4. Cardinality(W) = n + 1 + m
    <2>1. IsFiniteSet(A \cup {d}) /\ Cardinality(A \cup {d}) = n + 1
      BY <1>1, <1>3, FS_AddElement
    <2>2. (A \cup {d}) \cap B = {}
      BY <1>3
    <2>3. Cardinality(W) = (n + 1) + m - Cardinality({})
      BY <2>1, <2>2, <1>1, <1>3, FS_Union
    <2>4. QED
      BY <2>1, <2>3, <1>2, FS_EmptySet
  <1>5. /\ s \in [1..n -> A] /\ {s[i] : i \in DOMAIN s} = A
        /\ \A i, j \in DOMAIN s : i < j => ~CompareReferencesLT(r[s[i]], r[s[j]], 100)
    BY DEF OrderedPart
  <1>6. /\ t \in [1..m -> B] /\ {t[i] : i \in DOMAIN t} = B
        /\ \A i, j \in DOMAIN t : i < j => ~CompareReferencesLT(r[t[i]], r[t[j]], 100)
    BY DEF OrderedPart
  <1>7. /\ \A a \in A : a \in V /\ r[a] \in References /\ CompareReferencesLT(r[d], r[a], 100)
        /\ \A b \in B : b \in V /\ r[b] \in References /\ ~CompareReferencesLT(r[d], r[b], 100)
        /\ d \in V /\ r[d] \in References
    OBVIOUS
  <1> HIDE DEF A, B, n, m
  <1>8. \A a \in A : /\ ~CompareReferencesLT(r[a], r[d], 100)
                     /\ \A b \in B : ~CompareReferencesLT(r[a], r[b], 100)
    BY <1>7 DEF References, CompareReferencesLT, Offline, Suppressed, Online
  <1>9. q \in [1..(n + 1 + m) -> W]
    <2>1. ASSUME NEW i \in 1..(n + 1 + m) PROVE q[i] \in W
      BY <1>2, <1>3, <1>4, <1>5, <1>6
    <2>2. QED
      BY <2>1, <1>4
  <1>10. /\ \A i \in 1..n : q[i] = s[i] /\ s[i] \in A
         /\ q[n + 1] = d
         /\ \A i \in (n + 2)..(n + 1 + m) : q[i] = t[i - n - 1] /\ t[i - n - 1] \in B /\ i - n - 1 \in 1..m
    BY <1>2, <1>4, <1>5, <1>6
  <1>11. ASSUME NEW v \in W PROVE \E i \in 1..(n + 1 + m) : q[i] = v
    <2>1. CASE v \in A
      <3>1. PICK i \in 1..n : s[i] = v
        BY <2>1, <1>5
      <3>2. QED
        BY <3>1, <1>2, <1>10
    <2>2. CASE v = d
      <3>1. n + 1 \in 1..(n + 1 + m)
        BY <1>2
      <3>2. QED
        BY <3>1, <2>2, <1>10
    <2>3. CASE v \in B
      <3>1. PICK i \in 1..m : t[i] = v
        BY <2>3, <1>6
      <3>2. i + n + 1 \in (n + 2)..(n + 1 + m) /\ (i + n + 1) - n - 1 = i
        BY <1>2
      <3>3. i + n + 1 \in 1..(n + 1 + m) /\ q[i + n + 1] = v
        BY <3>1, <3>2, <1>2, <1>10
      <3>4. QED
        BY <3>3
    <2>4. QED
      BY <2>1, <2>2, <2>3, <1>3
  <1> HIDE DEF q
  <1>12. ASSUME NEW i \in 1..(n + 1 + m), NEW j \in 1..(n + 1 + m), i < j
         PROVE  ~CompareReferencesLT(r[q[i]], r[q[j]], 100)
    <2>1. CASE j <= n
      BY <2>1, <1>12, <1>2, <1>5, <1>10
    <2>2. CASE i <= n /\ j > n
      <3>1. q[j] \in B \cup {d}
        BY <2>2, <1>2, <1>10
      <3>2. q[i] \in A
        BY <2>2, <1>2, <1>10
      <3>3. QED
        BY <3>1, <3>2, <1>8
    <2>3. CASE i = n + 1
      <3>1. q[j] \in B /\ q[i] = d
        BY <2>3, <1>12, <1>2, <1>10
      <3>2. QED
        BY <3>1, <1>7
    <2>4. CASE i > n + 1
      <3>1. i - n - 1 \in 1..m /\ j - n - 1 \in 1..m /\ i - n - 1 < j - n - 1
        BY <2>4, <1>12, <1>2
      <3>2. q[i] = t[i - n - 1] /\ q[j] = t[j - n - 1]
        BY <2>4, <1>12, <1>2, <1>10
      <3>3. QED
        BY <3>1, <3>2, <1>6
    <2>5. QED
      BY <2>1, <2>2, <2>3, <2>4, <1>2
  <1>13. DOMAIN q = 1..(n + 1 + m) /\ {q[i] : i \in DOMAIN q} = W
    BY <1>9, <1>11
  <1>14. q \in OrderedPart(r, W)
    BY <1>4, <1>9, <1>12, <1>13 DEF OrderedPart
  <1>15. \A j \in 1..(n + 1 + m) : j < n + 1 => CompareReferencesLT(r[d], r[q[j]], 100)
    BY <1>2, <1>7, <1>10
  <1>16. n + 1 \in 1..(n + 1 + m) /\ q[n + 1] = d
    BY <1>2, <1>10
  <1>17. QED
    BY <1>13, <1>14, <1>15, <1>16

\* Every part of a threat list has an order: a smallest part without one would
\* have one, joined from those of the parts above and below one of its victims.
LEMMA OrderExists ==
  ASSUME NEW V, IsFiniteSet(V), NEW r \in [V -> References]
  PROVE  \A W \in SUBSET V : OrderedPart(r, W) # {}
  <1> DEFINE T == {W \in SUBSET V : OrderedPart(r, W) = {}}
  <1>1. SUFFICES ASSUME T # {} PROVE FALSE
    OBVIOUS
  <1>2. FiniteSubsetsOf(V) = SUBSET V
    BY FS_FiniteSubsetsOfFinite
  <1>3. T \subseteq FiniteSubsetsOf(V)
    BY <1>2
  <1>4. PICK W \in T : \A U \in T : ~(<<U, W>> \in StrictSubsetOrdering(V))
    <2> HIDE DEF T
    <2> QED BY <1>1, <1>3, FS_StrictSubsetOrderingWellFounded, WFMin
  <1>5. \A U \in SUBSET W : U # W => OrderedPart(r, U) # {}
    BY <1>4 DEF StrictSubsetOrdering
  <1>6. IsFiniteSet(W) /\ W \in SUBSET V
    BY FS_Subset
  <1>7. CASE W = {}
    <2>1. <<>> \in OrderedPart(r, {})
      <3>1. Cardinality({}) = 0 /\ 1..0 = {} /\ DOMAIN <<>> = {}
        BY FS_EmptySet
      <3>2. QED
        BY <3>1 DEF OrderedPart
    <2>2. QED
      BY <2>1, <1>7
  <1>8. CASE W # {}
    <2>1. PICK d \in W : TRUE
      BY <1>8
    <2> DEFINE A == {v \in W : CompareReferencesLT(r[d], r[v], 100)}
               B == {v \in W \ {d} : ~CompareReferencesLT(r[d], r[v], 100)}
    <2>2. A \in SUBSET W /\ A # W
      BY <1>6, Percent
    <2>3. B \in SUBSET W /\ B # W
      OBVIOUS
    <2>4. PICK s \in OrderedPart(r, A), t \in OrderedPart(r, B) : TRUE
      BY <1>5, <2>2, <2>3
    <2>5. OrderedPart(r, W) # {}
      BY <2>4, <1>6, Joined
    <2>6. QED
      BY <2>5
  <1>9. QED
    BY <1>7, <1>8

\* The heap may hand out d before everybody that is not above it.
LEMMA OrderAround ==
  ASSUME NEW V, IsFiniteSet(V), NEW r \in [V -> References], NEW d \in V
  PROVE  \E q \in Ordered(r) : \E i \in DOMAIN q :
            q[i] = d /\ \A j \in DOMAIN q : j < i => CompareReferencesLT(r[d], r[q[j]], 100)
  <1> DEFINE A == {v \in V : CompareReferencesLT(r[d], r[v], 100)}
             B == {v \in V \ {d} : ~CompareReferencesLT(r[d], r[v], 100)}
  <1>1. A \in SUBSET V /\ B \in SUBSET V
    OBVIOUS
  <1>2. PICK s \in OrderedPart(r, A), t \in OrderedPart(r, B) : TRUE
    BY <1>1, OrderExists
  <1>3. OrderedPart(r, V) = Ordered(r)
    BY DEF Ordered, OrderedPart
  <1>4. V \in SUBSET V
    OBVIOUS
  <1>5. \E q \in OrderedPart(r, V) : \E i \in DOMAIN q :
            q[i] = d /\ \A j \in DOMAIN q : j < i => CompareReferencesLT(r[d], r[q[j]], 100)
    BY <1>2, <1>4, Joined
  <1>6. QED
    BY <1>3, <1>5

\* Where the loop at the end of ReselectVictim comes to x in melee range, and all
\* before are above the old victim and out of range, it picks x.
LEMMA MeleeLoopFinds ==
  ASSUME NEW V, NEW r \in [V -> References], NEW D \in SUBSET Nat, NEW s \in [D -> V], NEW i \in D,
         NEW old \in V, NEW melee, s[i] \in melee, CompareReferencesLT(r[old], r[s[i]], 110),
         \A j \in D : j < i =>
            s[j] # old /\ CompareReferencesLT(r[old], r[s[j]], 110) /\ s[j] \notin melee
  PROVE  NextMelee(r, s, old, melee) = s[i]
  <1> DEFINE above(v) == CompareReferencesLT(r[old], r[v], 110)
             K == {k \in DOMAIN s : s[k] = old \/ ~above(s[k]) \/ s[k] \in melee}
  <1>1. K \in SUBSET Nat /\ i \in K
    OBVIOUS
  <1>2. Min(K) \in K /\ Min(K) <= i
    <2> HIDE DEF K
    <2> QED BY <1>1, LeastNatural
  <1>3. \A k \in K : ~(k < i)
    OBVIOUS
  <1>4. Min(K) = i
    <2> HIDE DEF K
    <2>1. Min(K) \in Nat /\ i \in Nat /\ ~(Min(K) < i)
      BY <1>1, <1>2, <1>3
    <2>2. QED
      BY <2>1, <1>2
  <1>5. NextMelee(r, s, old, melee) = IF above(s[Min(K)]) THEN s[Min(K)] ELSE old
    BY DEF NextMelee
  <1>6. QED
    BY <1>4, <1>5

\* Every victim the rule allows is picked for some choice of the heap among
\* equals.
LEMMA DeservingPicked ==
  ASSUME NEW none, NEW V, IsFiniteSet(V), V # {}, none \notin V,
         NEW r \in [V -> References], NEW old \in V \cup {none}, NEW melee
  PROVE  Deserving(r, old, melee, none) \subseteq Reselect(r, old, melee, none)
  <1> DEFINE available == {v \in V : IsAvailable(r[v])}
             drawing == {v \in available : \/ CompareReferencesLT(r[old], r[v], 130)
                                           \/ v \in melee /\ CompareReferencesLT(r[old], r[v], 110)}
             picked(s) == LET highest == s[1]
                              stays == old # none /\ IsAvailable(r[old])
                          IN  IF ~IsAvailable(r[highest]) THEN {none}
                              ELSE IF ~stays \/ highest = old THEN {highest}
                              ELSE IF ~CompareReferencesLT(r[old], r[highest], 110) THEN {old}
                              ELSE IF CompareReferencesLT(r[old], r[highest], 130) \/ highest \in melee
                                   THEN {highest}
                              ELSE {NextMelee(r, s, old, melee)}
  <1>1. Deserving(r, old, melee, none) =
          IF available = {} THEN {none}
          ELSE IF old \notin available THEN Highest(r, available)
          ELSE IF drawing = {} THEN {old} ELSE Highest(r, drawing)
    BY DEF Deserving
  <1>2. Reselect(r, old, melee, none) = UNION {picked(s) : s \in Ordered(r)}
    BY DEF Reselect
  <1>3. SUFFICES ASSUME NEW x \in Deserving(r, old, melee, none)
                 PROVE  \E q \in Ordered(r) : x \in picked(q)
    BY <1>2
  <1>4. CASE available = {}
    <2>1. PICK d \in V : TRUE
      OBVIOUS
    <2>2. PICK q \in Ordered(r) : TRUE
      BY <2>1, OrderAround
    <2>3. q[1] \in V
      BY HighestFirst
    <2>4. x = none
      BY <1>1, <1>4
    <2>5. none \in picked(q)
      BY <1>4, <2>3
    <2>6. QED
      BY <2>4, <2>5
  <1>5. CASE available # {} /\ old \notin available
    <2>1. x \in available /\ \A w \in available : ~CompareReferencesLT(r[x], r[w], 100)
      BY <1>1, <1>5 DEF Highest
    <2>a. PICK q \in Ordered(r) : \E i \in DOMAIN q :
             q[i] = x /\ \A j \in DOMAIN q : j < i => CompareReferencesLT(r[x], r[q[j]], 100)
      BY <2>1, OrderAround
    <2>2. PICK i \in DOMAIN q :
             q[i] = x /\ \A j \in DOMAIN q : j < i => CompareReferencesLT(r[x], r[q[j]], 100)
      BY <2>a
    <2>3. 1 \in DOMAIN q /\ q[1] \in V /\ DOMAIN q \subseteq Nat
          /\ ~CompareReferencesLT(r[q[1]], r[x], 100) /\ DOMAIN q = 1..Cardinality(DOMAIN r)
      BY <2>1, HighestFirst DEF Ordered
    <2>4. q[1] \in available
      BY <2>1, <2>3, Beats
    <2>5. i = 1
      <3>1. ~CompareReferencesLT(r[x], r[q[1]], 100)
        BY <2>1, <2>4
      <3>2. QED
        BY <3>1, <2>2, <2>3
    <2>6. picked(q) = {q[1]}
      BY <1>5, <2>4
    <2>7. QED
      BY <2>2, <2>5, <2>6
  <1>6. CASE old \in available /\ drawing = {}
    <2>1. x = old /\ old \in V
      BY <1>1, <1>6
    <2>2. PICK q \in Ordered(r) : TRUE
      BY <2>1, OrderAround
    <2>3. q[1] \in V /\ ~CompareReferencesLT(r[q[1]], r[old], 100)
      BY <2>1, HighestFirst
    <2>4. q[1] \in available
      BY <1>6, <2>1, <2>3, Beats
    <2>5. CASE q[1] = old \/ ~CompareReferencesLT(r[old], r[q[1]], 110)
      BY <2>1, <2>4, <2>5, <1>6
    <2>6. CASE q[1] # old /\ CompareReferencesLT(r[old], r[q[1]], 110)
      <3>1. ~CompareReferencesLT(r[old], r[q[1]], 130) /\ q[1] \notin melee
        BY <1>6, <2>4, <2>6
      <3> DEFINE reached == {v \in V : v \in melee /\ CompareReferencesLT(r[old], r[v], 110)}
      <3>2. reached = {}
        <4>1. \A v \in V : CompareReferencesLT(r[old], r[v], 110) => IsAvailable(r[v])
          BY <1>6 DEF References, CompareReferencesLT, IsAvailable, Offline, Suppressed, Online
        <4>2. QED
          BY <4>1, <1>6
      <3>3. Highest(r, reached) = {}
        BY <3>2 DEF Highest
      <3>4. NextMelee(r, q, old, melee) = old
        <4> HIDE DEF reached
        <4>1. \/ reached = {} /\ NextMelee(r, q, old, melee) = old
              \/ NextMelee(r, q, old, melee) \in Highest(r, reached)
          BY <2>1, MeleeLoop DEF reached
        <4>2. QED
          BY <4>1, <3>3
      <3>5. picked(q) = {NextMelee(r, q, old, melee)}
        BY <1>6, <2>4, <2>6, <3>1
      <3>6. QED
        BY <2>1, <3>4, <3>5
    <2>7. QED
      BY <2>5, <2>6
  <1>7. CASE old \in available /\ drawing # {}
    <2>1. x \in drawing /\ \A w \in drawing : ~CompareReferencesLT(r[x], r[w], 100)
      BY <1>1, <1>7 DEF Highest
    <2>a. PICK q \in Ordered(r) : \E i \in DOMAIN q :
             q[i] = x /\ \A j \in DOMAIN q : j < i => CompareReferencesLT(r[x], r[q[j]], 100)
      BY <2>1, OrderAround
    <2>2. PICK i \in DOMAIN q :
             q[i] = x /\ \A j \in DOMAIN q : j < i => CompareReferencesLT(r[x], r[q[j]], 100)
      BY <2>a
    <2>3. /\ 1 \in DOMAIN q /\ DOMAIN q \subseteq Nat /\ q \in [DOMAIN q -> V]
          /\ ~CompareReferencesLT(r[q[1]], r[x], 100) /\ DOMAIN q = 1..Cardinality(DOMAIN r)
      <3>1. /\ 1 \in DOMAIN q /\ DOMAIN q \subseteq Nat /\ q \in [DOMAIN q -> V]
            /\ \A v \in V : ~CompareReferencesLT(r[q[1]], r[v], 100)
        BY HighestFirst
      <3>2. q \in [1..Cardinality(DOMAIN r) -> DOMAIN r]
        BY DEF Ordered
      <3>3. x \in V
        BY <2>1
      <3> HIDE DEF drawing
      <3>4. DOMAIN q = 1..Cardinality(DOMAIN r)
        BY <3>2
      <3>5. QED
        BY <3>1, <3>3, <3>4
    <2>4. /\ old \in V /\ old # none /\ r[old] \in References
          /\ x \in V /\ r[x] \in References /\ q[1] \in V /\ r[q[1]] \in References
      BY <1>7, <2>1, <2>3
    <2>5. CompareReferencesLT(r[old], r[x], 110)
      BY <2>1, <2>4, Percent
    <2>6. CompareReferencesLT(r[old], r[q[1]], 110) /\ q[1] \in available /\ q[1] # old
      <3>1. CompareReferencesLT(r[old], r[q[1]], 110) /\ q[1] \in available
        BY <2>1, <2>3, <2>4, <2>5, Beats
      <3>2. QED
        BY <3>1, <2>4, Percent
    <2>7. CASE i = 1
      <3>1. q[1] \in drawing
        BY <2>1, <2>2, <2>7
      <3>2. CompareReferencesLT(r[old], r[q[1]], 130) \/ q[1] \in melee
        BY <3>1
      <3>3. picked(q) = {q[1]}
        BY <1>7, <2>4, <2>6, <3>2
      <3>4. QED
        BY <2>2, <2>7, <3>3
    <2>8. CASE i # 1
      <3>1. 1 < i
        BY <2>3, <2>8
      <3>2. q[1] \notin drawing
        BY <2>1, <2>2, <2>3, <3>1
      <3>3. ~CompareReferencesLT(r[old], r[q[1]], 130) /\ q[1] \notin melee
        BY <2>6, <3>2
      <3>4. picked(q) = {NextMelee(r, q, old, melee)}
        BY <1>7, <2>4, <2>6, <3>3
      <3>5. x \in melee
        BY <2>1, <2>3, <2>4, <3>3, Beats
      <3>6. ASSUME NEW j \in DOMAIN q, j < i
            PROVE  q[j] # old /\ CompareReferencesLT(r[old], r[q[j]], 110) /\ q[j] \notin melee
        <4>1. CompareReferencesLT(r[x], r[q[j]], 100) /\ q[j] \in V /\ r[q[j]] \in References
          BY <2>2, <2>3, <3>6
        <4>2. ~CompareReferencesLT(r[q[j]], r[x], 100)
          BY <4>1, <2>4 DEF References, CompareReferencesLT, Offline, Suppressed, Online
        <4>3. CompareReferencesLT(r[old], r[q[j]], 110) /\ IsAvailable(r[q[j]])
          BY <4>1, <4>2, <2>1, <2>4, <2>5, Beats
        <4>4. q[j] # old
          BY <4>3, <2>4, Percent
        <4>5. q[j] \notin drawing
          BY <4>1, <2>1
        <4>6. QED
          BY <4>1, <4>3, <4>4, <4>5
      <3>7. NextMelee(r, q, old, melee) = x
        <4>1. q[i] \in melee /\ CompareReferencesLT(r[old], r[q[i]], 110)
          BY <2>2, <2>5, <3>5
        <4> HIDE DEF available, drawing, picked
        <4>2. \A j \in DOMAIN q : j < i =>
                 q[j] # old /\ CompareReferencesLT(r[old], r[q[j]], 110) /\ q[j] \notin melee
          BY <3>6
        <4>3. DOMAIN q \in SUBSET Nat /\ q \in [DOMAIN q -> V] /\ old \in V
          BY <2>3, <2>4
        <4>4. NextMelee(r, q, old, melee) = q[i]
          BY <4>1, <4>2, <4>3, MeleeLoopFinds
        <4>5. QED
          BY <4>4, <2>2
      <3>8. QED
        BY <3>4, <3>7
    <2>9. QED
      BY <2>7, <2>8
  <1>8. QED
    BY <1>4, <1>5, <1>6, <1>7

-----------------------------------------------------------------------------
\* ReselectVictim on a list of any length: although it looks at no more of the
\* heap than it needs, and the loop at its end stops at the old victim or below
\* 110 %, what it can pick is exactly what the rule of 110 and 130 % allows.
THEOREM SelectionRule ==
  ASSUME NEW none, NEW V, IsFiniteSet(V), V # {}, none \notin V,
         NEW r \in [V -> References], NEW old \in V \cup {none}, NEW melee
  PROVE  SelectionFollowsRule(r, old, melee, none)
  <1>1. Reselect(r, old, melee, none) \subseteq Deserving(r, old, melee, none)
    BY PicksDeserving
  <1>2. Deserving(r, old, melee, none) \subseteq Reselect(r, old, melee, none)
    BY DeservingPicked
  <1>3. QED
    BY <1>1, <1>2 DEF SelectionFollowsRule

-----------------------------------------------------------------------------
(* What a creature may rely on                                             *)

\* ReselectVictim finds an available victim if there is one, and leaves an old
\* victim that is available only for one that beats it by more than a tenth.
LEMMA ReselectSound ==
  ASSUME NEW none, NEW V, IsFiniteSet(V), V # {}, none \notin V,
         NEW r \in [V -> References], NEW old \in V \cup {none}, NEW melee,
         NEW x \in Reselect(r, old, melee, none)
  PROVE  /\ x = none => \A v \in V : ~IsAvailable(r[v])
         /\ x # none => x \in V /\ IsAvailable(r[x])
         /\ old # none /\ x # old /\ IsAvailable(r[old]) =>
               x # none /\ CompareReferencesLT(r[old], r[x], 110)
  <1> DEFINE available == {v \in V : IsAvailable(r[v])}
             drawing == {v \in available : \/ CompareReferencesLT(r[old], r[v], 130)
                                           \/ v \in melee /\ CompareReferencesLT(r[old], r[v], 110)}
  <1>1. x \in Deserving(r, old, melee, none)
    BY PicksDeserving
  <1>2. Deserving(r, old, melee, none) =
          IF available = {} THEN {none}
          ELSE IF old \notin available THEN Highest(r, available)
          ELSE IF drawing = {} THEN {old} ELSE Highest(r, drawing)
    BY DEF Deserving
  <1>3. /\ Highest(r, available) \subseteq available
        /\ Highest(r, drawing) \subseteq drawing
    BY DEF Highest
  <1>4. CASE available = {}
    BY <1>1, <1>2, <1>4
  <1>5. CASE available # {} /\ old \notin available
    BY <1>1, <1>2, <1>3, <1>5
  <1>6. CASE available # {} /\ old \in available /\ drawing = {}
    BY <1>1, <1>2, <1>6
  <1>7. CASE available # {} /\ old \in available /\ drawing # {}
    <2>1. x \in drawing
      BY <1>1, <1>2, <1>3, <1>7
    <2>2. CompareReferencesLT(r[old], r[x], 110)
      BY <2>1, <1>7, Percent
    <2>3. x \in V /\ IsAvailable(r[x])
      BY <2>1
    <2>4. QED
      BY <2>2, <2>3
  <1>8. QED
    BY <1>4, <1>5, <1>6, <1>7
=============================================================================
