---------------------------- MODULE CombatProofs ----------------------------
(***************************************************************************)
(* Proofs about Combat for any units, amounts of threat and taunts.        *)
(*                                                                         *)
(* The four safety properties of Combat and its type are inductive once    *)
(* they are taken together: threat is removed by combat references, so     *)
(* that owner and victim agree on both is needed to see that nothing is    *)
(* left behind.  What a ThreatManager does on its own is proved for one    *)
(* manager first.                                                          *)
(***************************************************************************)
EXTENDS Combat, ThreatSelectionProofs

\* A manager whose victims are on its list, the current one available, with a
\* current victim if anybody is available: VictimAvailable for one manager.
SoundManager(m) ==
    /\ m \in ThreatManager
    /\ m.fixate # None => m.fixate \in DOMAIN m.ref
    /\ IF m.currentVictim = None THEN \A v \in DOMAIN m.ref : ~IsAvailable(m.ref[v])
       ELSE m.currentVictim \in DOMAIN m.ref /\ IsAvailable(m.ref[m.currentVictim])

\* From m to n the victim is left only for a reason: NoIdleSwitch for one manager.
JustifiedSwitch(m, n) ==
    m.currentVictim # None /\ n.currentVictim # m.currentVictim
      /\ m.currentVictim \in DOMAIN n.ref /\ IsAvailable(n.ref[m.currentVictim]) =>
        n.currentVictim # None
          /\ (n.currentVictim = n.fixate
                \/ CompareReferencesLT(n.ref[m.currentVictim], n.ref[n.currentVictim], 110))

-----------------------------------------------------------------------------
(* One manager                                                             *)

\* The type of a manager, field by field.
LEMMA ManagerType ==
  ASSUME NEW m
  PROVE  m \in ThreatManager <=>
            /\ m = [ref |-> m.ref, currentVictim |-> m.currentVictim, fixate |-> m.fixate]
            /\ DOMAIN m.ref \subseteq Units /\ m.ref \in [DOMAIN m.ref -> Reference]
            /\ m.currentVictim \in Units \cup {None} /\ m.fixate \in Units \cup {None}
  <1>1. ASSUME m \in ThreatManager
        PROVE  /\ m = [ref |-> m.ref, currentVictim |-> m.currentVictim, fixate |-> m.fixate]
               /\ DOMAIN m.ref \subseteq Units /\ m.ref \in [DOMAIN m.ref -> Reference]
               /\ m.currentVictim \in Units \cup {None} /\ m.fixate \in Units \cup {None}
    BY <1>1 DEF ThreatManager
  <1>2. ASSUME /\ m = [ref |-> m.ref, currentVictim |-> m.currentVictim, fixate |-> m.fixate]
               /\ DOMAIN m.ref \subseteq Units /\ m.ref \in [DOMAIN m.ref -> Reference]
               /\ m.currentVictim \in Units \cup {None} /\ m.fixate \in Units \cup {None}
        PROVE  m \in ThreatManager
    <2>1. m.ref \in UNION {[V -> Reference] : V \in SUBSET Units}
      BY <1>2
    <2>2. QED
      BY <1>2, <2>1 DEF ThreatManager
  <1>3. QED
    BY <1>1, <1>2

\* A reference of the model is one the selection is proved for.
LEMMA ReferenceType == Reference \subseteq References
  <1>1. Threats \subseteq Nat /\ 0..(1 + MaxTaunts) \subseteq Nat
    BY CombatAssumption
  <1>2. QED
    BY <1>1 DEF Reference, References

\* ReselectVictim returns an available victim if there is one, and leaves an old
\* victim that is available only for the fixated one or for 110 %.
LEMMA SelectedSound ==
  ASSUME NEW m \in ThreatManager, m.fixate # None => m.fixate \in DOMAIN m.ref,
         m.currentVictim # None => m.currentVictim \in DOMAIN m.ref,
         NEW x \in Selected(m)
  PROVE  LET n == [m EXCEPT !.currentVictim = x] IN SoundManager(n) /\ JustifiedSwitch(m, n)
  <1> DEFINE n == [m EXCEPT !.currentVictim = x]
             V == DOMAIN m.ref
             old == m.currentVictim
  <1>1. /\ m = [ref |-> m.ref, currentVictim |-> m.currentVictim, fixate |-> m.fixate]
        /\ V \subseteq Units /\ m.ref \in [V -> Reference] /\ m.fixate \in Units \cup {None}
    BY ManagerType
  <1>2. n = [ref |-> m.ref, currentVictim |-> x, fixate |-> m.fixate]
    BY <1>1
  <1>3. None \notin V /\ IsFiniteSet(V) /\ m.ref \in [V -> References] /\ old \in V \cup {None}
    BY <1>1, CombatAssumption, FS_Subset, ReferenceType
  <1>4. /\ x = None => \A v \in V : ~IsAvailable(m.ref[v])
        /\ x # None => x \in V /\ IsAvailable(m.ref[x])
        /\ old # None /\ x # old /\ IsAvailable(m.ref[old]) =>
             x # None /\ (x = m.fixate \/ CompareReferencesLT(m.ref[old], m.ref[x], 110))
    <2>1. CASE V = {}
      BY <2>1, <1>3 DEF Selected
    <2>2. CASE V # {} /\ m.fixate # None /\ IsAvailable(m.ref[m.fixate])
      BY <2>2 DEF Selected
    <2>3. CASE V # {} /\ ~(m.fixate # None /\ IsAvailable(m.ref[m.fixate]))
      <3>1. PICK melee \in SUBSET V : x \in Reselect(m.ref, old, melee, None)
        BY <2>3 DEF Selected
      <3>2. QED
        BY <3>1, <2>3, <1>3, ReselectSound
    <2>4. QED
      BY <2>1, <2>2, <2>3
  <1> HIDE DEF n
  <1>5. /\ n.ref = m.ref /\ n.currentVictim = x /\ n.fixate = m.fixate
        /\ n = [ref |-> n.ref, currentVictim |-> n.currentVictim, fixate |-> n.fixate]
    BY <1>2
  <1>6. x \in Units \cup {None}
    BY <1>1, <1>4
  <1>7. n \in ThreatManager
    BY <1>1, <1>5, <1>6, ManagerType
  <1>8. SoundManager(n)
    BY <1>4, <1>5, <1>7 DEF SoundManager
  <1>9. JustifiedSwitch(m, n)
    BY <1>4, <1>5 DEF JustifiedSwitch
  <1>10. QED
    BY <1>8, <1>9 DEF n

\* A change of the references that keeps who is available keeps the victims.
LEMMA KeptSound ==
  ASSUME NEW m, SoundManager(m), NEW r \in [DOMAIN m.ref -> Reference],
         \A v \in DOMAIN m.ref : IsAvailable(r[v]) <=> IsAvailable(m.ref[v]),
         NEW n, n = [m EXCEPT !.ref = r]
  PROVE  SoundManager(n) /\ JustifiedSwitch(m, n) /\ DOMAIN n.ref = DOMAIN m.ref
  <1>1. /\ m = [ref |-> m.ref, currentVictim |-> m.currentVictim, fixate |-> m.fixate]
        /\ DOMAIN m.ref \subseteq Units /\ m.fixate \in Units \cup {None}
        /\ m.currentVictim \in Units \cup {None}
    BY ManagerType DEF SoundManager
  <1>2. n = [ref |-> r, currentVictim |-> m.currentVictim, fixate |-> m.fixate]
    BY <1>1
  <1>3. /\ n.ref = r /\ n.currentVictim = m.currentVictim /\ n.fixate = m.fixate
        /\ n = [ref |-> n.ref, currentVictim |-> n.currentVictim, fixate |-> n.fixate]
        /\ DOMAIN n.ref = DOMAIN m.ref
    BY <1>2
  <1>4. n \in ThreatManager
    BY <1>1, <1>3, ManagerType
  <1>5. SoundManager(n)
    BY <1>3, <1>4 DEF SoundManager
  <1>6. JustifiedSwitch(m, n)
    BY <1>3 DEF JustifiedSwitch
  <1>7. QED
    BY <1>3, <1>5, <1>6

\* What UpdateOffline makes of a reference is a reference.
LEMMA UpdateOfflineType ==
  ASSUME NEW r \in Reference
  PROVE  UpdateOffline(r) \subseteq Reference
  BY DEF UpdateOffline, Reference, Offline, Online, Suppressed

\* UpdateVictim makes any list sound whose victims are on it.
LEMMA UpdateVictimSound ==
  ASSUME NEW m \in ThreatManager, m.fixate # None => m.fixate \in DOMAIN m.ref,
         m.currentVictim # None => m.currentVictim \in DOMAIN m.ref,
         NEW n \in UpdateVictim(m)
  PROVE  SoundManager(n) /\ JustifiedSwitch(m, n) /\ DOMAIN n.ref = DOMAIN m.ref
  <1>a. PICK c \in Changed(m, DOMAIN m.ref, UpdateOffline) :
          \E x \in Selected(c) : n = [c EXCEPT !.currentVictim = x]
    BY DEF UpdateVictim
  <1>1. PICK x \in Selected(c) : n = [c EXCEPT !.currentVictim = x]
    BY <1>a
  <1>2. PICK f : /\ \A v \in DOMAIN m.ref : f[v] \in UpdateOffline(m.ref[v])
                 /\ c = [m EXCEPT !.ref = [v \in DOMAIN m.ref |-> f[v]]]
    BY <1>1 DEF Changed
  <1>3. /\ m = [ref |-> m.ref, currentVictim |-> m.currentVictim, fixate |-> m.fixate]
        /\ DOMAIN m.ref \subseteq Units /\ m.ref \in [DOMAIN m.ref -> Reference]
        /\ m.fixate \in Units \cup {None} /\ m.currentVictim \in Units \cup {None}
    BY ManagerType
  <1>4. c = [ref |-> [v \in DOMAIN m.ref |-> f[v]],
             currentVictim |-> m.currentVictim, fixate |-> m.fixate]
    BY <1>2, <1>3
  <1>5. /\ c = [ref |-> c.ref, currentVictim |-> c.currentVictim, fixate |-> c.fixate]
        /\ DOMAIN c.ref = DOMAIN m.ref /\ c.currentVictim = m.currentVictim /\ c.fixate = m.fixate
    BY <1>4
  <1>6. c.ref \in [DOMAIN m.ref -> Reference]
    <2>1. \A v \in DOMAIN m.ref : f[v] \in Reference
      BY <1>2, <1>3, UpdateOfflineType
    <2>2. QED
      BY <2>1, <1>4
  <1>7. c \in ThreatManager
    BY <1>3, <1>5, <1>6, ManagerType
  <1>8. SoundManager(n) /\ JustifiedSwitch(c, n)
    BY <1>1, <1>5, <1>7, SelectedSound
  <1>9. n.ref = c.ref
    BY <1>1, <1>4
  <1>10. QED
    BY <1>5, <1>8, <1>9 DEF JustifiedSwitch

\* ClearThreat takes the victims of V off the list and leaves it sound.
LEMMA ClearThreatSound ==
  ASSUME NEW m, SoundManager(m), NEW V, NEW n \in ClearThreat(m, V)
  PROVE  SoundManager(n) /\ JustifiedSwitch(m, n) /\ DOMAIN n.ref = DOMAIN m.ref \ V
  <1> DEFINE c == PurgeThreatListRef(m, V)
  <1>1. /\ DOMAIN m.ref \subseteq Units /\ m.ref \in [DOMAIN m.ref -> Reference]
        /\ m.fixate \in Units \cup {None} /\ m.currentVictim \in Units \cup {None}
    BY ManagerType DEF SoundManager
  <1>2. /\ c = [ref |-> c.ref, currentVictim |-> c.currentVictim, fixate |-> c.fixate]
        /\ c.ref = [v \in DOMAIN m.ref \ V |-> m.ref[v]]
        /\ c.currentVictim = IF m.currentVictim \in V THEN None ELSE m.currentVictim
        /\ c.fixate = IF m.fixate \in V THEN None ELSE m.fixate
    BY DEF PurgeThreatListRef
  <1>3. DOMAIN c.ref = DOMAIN m.ref \ V /\ c.ref \in [DOMAIN c.ref -> Reference]
    BY <1>1, <1>2
  <1>4. n \in IF V \cap DOMAIN m.ref # {} /\ c.currentVictim = None THEN UpdateVictim(c) ELSE {c}
    BY DEF ClearThreat
  <1> HIDE DEF c
  <1>5. c \in ThreatManager
    <2>1. c.currentVictim \in Units \cup {None} /\ c.fixate \in Units \cup {None}
      BY <1>1, <1>2
    <2>2. QED
      BY <1>1, <1>2, <1>3, <2>1, ManagerType
  <1>6. /\ c.fixate # None => c.fixate \in DOMAIN c.ref
        /\ c.currentVictim # None => c.currentVictim \in DOMAIN c.ref
    BY <1>2, <1>3 DEF SoundManager
  <1>7. CASE V \cap DOMAIN m.ref # {} /\ c.currentVictim = None
    <2>1. n \in UpdateVictim(c)
      BY <1>4, <1>7
    <2>2. SoundManager(n) /\ DOMAIN n.ref = DOMAIN m.ref \ V
      BY <2>1, <1>3, <1>5, <1>6, UpdateVictimSound
    <2>3. m.currentVictim = None \/ m.currentVictim \in V
      BY <1>2, <1>7
    <2>4. JustifiedSwitch(m, n)
      BY <2>2, <2>3 DEF JustifiedSwitch
    <2>5. QED
      BY <2>2, <2>4
  <1>8. CASE ~(V \cap DOMAIN m.ref # {} /\ c.currentVictim = None)
    <2>1. n = c
      BY <1>4, <1>8
    <2>2. \A v \in DOMAIN c.ref : c.ref[v] = m.ref[v] /\ v \in DOMAIN m.ref
      BY <1>2, <1>3
    <2>3. c.currentVictim # None => c.currentVictim = m.currentVictim
      BY <1>2
    <2>4. c.currentVictim = None => m.currentVictim = None
      BY <1>2, <1>8 DEF SoundManager
    <2>5. SoundManager(c)
      BY <1>5, <1>6, <2>2, <2>3, <2>4 DEF SoundManager
    <2>6. JustifiedSwitch(m, c)
      BY <1>2, <1>3, <2>3, <2>4 DEF JustifiedSwitch
    <2>7. QED
      BY <2>1, <2>5, <2>6, <1>3
  <1>9. QED
    BY <1>7, <1>8

\* AddThreat puts a new victim on the list and leaves it sound.
LEMMA AddNewThreatSound ==
  ASSUME NEW m, SoundManager(m), NEW v \in Units \ DOMAIN m.ref, NEW n \in AddNewThreat(m, v)
  PROVE  SoundManager(n) /\ JustifiedSwitch(m, n) /\ DOMAIN n.ref = DOMAIN m.ref \cup {v}
  <1> DEFINE with(r) == [m EXCEPT !.ref = [w \in DOMAIN m.ref \cup {v} |-> IF w = v THEN r ELSE m.ref[w]]]
             added == {with(r) : r \in UNION {Threatened(q) : q \in UpdateOffline(NewReference)}}
  <1>1. n \in IF m.currentVictim = None THEN UNION {UpdateVictim(c) : c \in added} ELSE added
    BY DEF AddNewThreat
  <1>2. PICK c \in added : IF m.currentVictim = None THEN n \in UpdateVictim(c) ELSE n = c
    BY <1>1
  <1>a. PICK q \in UpdateOffline(NewReference) : \E r \in Threatened(q) : c = with(r)
    BY <1>2
  <1>3. PICK r \in Threatened(q) : c = with(r)
    BY <1>a
  <1>4. r \in Reference
    <2>1. NewReference \in Reference
      BY CombatAssumption DEF NewReference, Reference, NotTaunting
    <2>2. q \in Reference
      BY <2>1, UpdateOfflineType
    <2>3. QED
      BY <1>3, <2>2 DEF Threatened, Reference
  <1>5. /\ m = [ref |-> m.ref, currentVictim |-> m.currentVictim, fixate |-> m.fixate]
        /\ DOMAIN m.ref \subseteq Units /\ m.ref \in [DOMAIN m.ref -> Reference]
        /\ m.fixate \in Units \cup {None} /\ m.currentVictim \in Units \cup {None}
    BY ManagerType DEF SoundManager
  <1>6. c = [ref |-> [w \in DOMAIN m.ref \cup {v} |-> IF w = v THEN r ELSE m.ref[w]],
             currentVictim |-> m.currentVictim, fixate |-> m.fixate]
    BY <1>3, <1>5
  <1> HIDE DEF added, with
  <1>7. /\ c = [ref |-> c.ref, currentVictim |-> c.currentVictim, fixate |-> c.fixate]
        /\ DOMAIN c.ref = DOMAIN m.ref \cup {v} /\ c.ref \in [DOMAIN c.ref -> Reference]
        /\ c.currentVictim = m.currentVictim /\ c.fixate = m.fixate
        /\ \A w \in DOMAIN m.ref : c.ref[w] = m.ref[w]
    BY <1>4, <1>5, <1>6
  <1>8. c \in ThreatManager
    BY <1>5, <1>7, ManagerType
  <1>9. CASE m.currentVictim = None
    <2>1. SoundManager(n) /\ DOMAIN n.ref = DOMAIN c.ref
      BY <1>2, <1>7, <1>8, <1>9, UpdateVictimSound DEF SoundManager
    <2>2. QED
      BY <2>1, <1>7, <1>9 DEF JustifiedSwitch
  <1>10. CASE m.currentVictim # None
    <2>1. n = c
      BY <1>2, <1>10
    <2>2. SoundManager(c)
      BY <1>7, <1>8, <1>10 DEF SoundManager
    <2>3. QED
      BY <2>1, <2>2, <1>7, <1>10 DEF JustifiedSwitch
  <1>11. QED
    BY <1>9, <1>10

\* AddThreat and EvaluateSuppressed never change whether a reference is available.
LEMMA SuppressionOnly ==
  ASSUME NEW r \in Reference, NEW canExpire \in BOOLEAN,
         NEW q \in AddMoreThreat(r) \cup Reevaluated(r, canExpire)
  PROVE  q \in Reference /\ (IsAvailable(q) <=> IsAvailable(r))
  <1>1. CASE q \in AddMoreThreat(r)
    <2>a. PICK n \in IF r.online # Suppressed THEN {r.online}
                     ELSE {Online} \cup (IF MayBeSuppressed(r) THEN {Suppressed} ELSE {}) :
            q \in Threatened([r EXCEPT !.online = n])
      BY <1>1 DEF AddMoreThreat
    <2>1. /\ n \in {Offline, Suppressed, Online} /\ q \in Threatened([r EXCEPT !.online = n])
          /\ n > Offline <=> r.online > Offline
      BY <2>a DEF Reference, Offline, Online, Suppressed
    <2>2. [r EXCEPT !.online = n] \in Reference /\ [r EXCEPT !.online = n].online = n
      BY DEF Reference
    <2>3. QED
      BY <2>1, <2>2 DEF Threatened, Reference, IsAvailable
  <1>2. CASE q \in Reevaluated(r, canExpire)
    BY <1>2 DEF Reevaluated, Reference, IsAvailable, Offline, Online, Suppressed
  <1>3. QED
    BY <1>1, <1>2

-----------------------------------------------------------------------------
(* The combat references                                                   *)

CombatTypes ==
    /\ inWorld \subseteq Units /\ inCombat \subseteq Units
    /\ pveRefs \in [Units -> SUBSET Units] /\ pvpRefs \in [Units -> SUBSET Units]
    /\ first \subseteq Units \X Units /\ suppressed \subseteq Units \X Units

CombatInv == CombatTypes /\ FlagMatchesReferences /\ ReferencesMutual

\* The two units of a reference know of each other.
LEMMA Mutual ==
  ASSUME CombatInv, NEW u \in Units, NEW v \in Units
  PROVE  /\ v \in pveRefs[u] <=> u \in pveRefs[v]
         /\ v \in pvpRefs[u] <=> u \in pvpRefs[v]
         /\ IsInCombatWith(u, v) <=> IsInCombatWith(v, u)
         /\ pveRefs[u] \subseteq Units /\ pvpRefs[u] \subseteq Units
  BY DEF CombatInv, CombatTypes, ReferencesMutual, IsInCombatWith

\* The flag stays right if it is recomputed for every unit whose references change.
LEMMA FlagUpdated ==
  ASSUME CombatInv, NEW U \in SUBSET Units, UpdateOwnerCombatState(U),
         \A x \in Units \ U : HasCombat(x)' <=> HasCombat(x)
  PROVE  FlagMatchesReferences' /\ inCombat' \subseteq Units
  BY DEF CombatInv, CombatTypes, FlagMatchesReferences, UpdateOwnerCombatState

\* SetInCombatWith makes or refreshes a reference and takes none away.
LEMMA SetInCombatSound ==
  ASSUME CombatInv, NEW u \in Units, NEW v \in Units, u # v, NEW b \in BOOLEAN,
         SetInCombat(u, v, b), inWorld' = inWorld
  PROVE  /\ CombatInv'
         /\ \A x, y \in Units : IsInCombatWith(x, y) => IsInCombatWith(x, y)'
         /\ IsInCombatWith(u, v)'
  <1> USE DEF CombatInv, CombatTypes
  <1>1. CASE IsInCombatWith(u, v) /\ Refresh(u, v)
    <2> DEFINE U == {x \in {u, v} : \E y \in {u, v} : <<x, y>> \in suppressed}
    <2>1. /\ pveRefs' = pveRefs /\ pvpRefs' = pvpRefs /\ first' = first
          /\ suppressed' = suppressed \ {<<u, v>>, <<v, u>>}
          /\ UpdateOwnerCombatState(U)
      BY <1>1 DEF Refresh
    <2>2. ASSUME NEW x \in Units \ U PROVE HasCombat(x)' <=> HasCombat(x)
      <3>1. \A y \in Units : <<x, y>> \in suppressed <=> <<x, y>> \in suppressed'
        BY <2>1
      <3>2. QED
        BY <2>1, <3>1, Mutual DEF HasCombat
    <2>3. U \in SUBSET Units
      OBVIOUS
    <2>4. FlagMatchesReferences' /\ inCombat' \subseteq Units
      BY <2>1, <2>2, <2>3, FlagUpdated
    <2>5. ReferencesMutual'
      BY <2>1 DEF ReferencesMutual, IsInCombatWith
    <2>6. QED
      BY <1>1, <2>1, <2>4, <2>5 DEF IsInCombatWith
  <1>2. CASE /\ ~IsInCombatWith(u, v) /\ CanBeginCombat(u, v)
             /\ PutReference(u, v)
             /\ first' = first \cup {<<u, v>>}
             /\ suppressed' = suppressed \cup (IF b THEN {<<v, u>>} ELSE {})
             /\ UpdateOwnerCombatState({u, v})
    <2>1. \/ /\ pvpRefs' = [pvpRefs EXCEPT ![u] = @ \cup {v}, ![v] = @ \cup {u}]
             /\ pveRefs' = pveRefs
          \/ /\ pveRefs' = [pveRefs EXCEPT ![u] = @ \cup {v}, ![v] = @ \cup {u}]
             /\ pvpRefs' = pvpRefs
      BY <1>2 DEF PutReference
    <2>2. pveRefs' \in [Units -> SUBSET Units] /\ pvpRefs' \in [Units -> SUBSET Units]
      BY <2>1
    <2>3. ASSUME NEW x \in Units \ {u, v}
          PROVE  pveRefs'[x] = pveRefs[x] /\ pvpRefs'[x] = pvpRefs[x]
      BY <2>1
    <2>4. ASSUME NEW x \in Units \ {u, v} PROVE HasCombat(x)' <=> HasCombat(x)
      <3>1. \A y : <<x, y>> \in suppressed <=> <<x, y>> \in suppressed'
        BY <1>2
      <3>2. QED
        BY <2>3, <3>1 DEF HasCombat
    <2>5. FlagMatchesReferences' /\ inCombat' \subseteq Units
      BY <1>2, <2>4, FlagUpdated
    <2>6. first' \subseteq Units \X Units /\ suppressed' \subseteq Units \X Units
      BY <1>2
    <2>7. \A x, y \in Units :
            IsInCombatWith(x, y)' <=> IsInCombatWith(x, y) \/ <<x, y>> \in {<<u, v>>, <<v, u>>}
      BY <2>1 DEF IsInCombatWith
    <2>8. ~IsInCombatWith(v, u)
      BY <1>2, Mutual
    <2>9. \A x, y \in Units :
            /\ y \in pveRefs'[x] <=> x \in pveRefs'[y]
            /\ y \in pvpRefs'[x] <=> x \in pvpRefs'[y]
      BY <2>1, Mutual
    <2>10. ASSUME NEW x \in Units PROVE pveRefs'[x] \cap pvpRefs'[x] = {}
      <3>1. pveRefs[x] \cap pvpRefs[x] = {}
        BY DEF ReferencesMutual
      <3>2. v \notin pveRefs[u] \cup pvpRefs[u] /\ u \notin pveRefs[v] \cup pvpRefs[v]
        BY <1>2, <2>8 DEF IsInCombatWith
      <3>3. CASE x \notin {u, v}
        BY <2>3, <3>1, <3>3
      <3>4. CASE x \in {u, v}
        BY <2>1, <3>1, <3>2, <3>4
      <3>5. QED
        BY <3>3, <3>4
    <2>11. ASSUME NEW x \in Units, NEW y \in Units
           PROVE  /\ IsInCombatWith(x, y)' =>
                       x # y /\ {x, y} \subseteq inWorld' /\ (<<x, y>> \in first' <=> <<y, x>> \notin first')
                  /\ <<x, y>> \in first' \cup suppressed' => IsInCombatWith(x, y)'
      <3>1. /\ IsInCombatWith(x, y) =>
                 x # y /\ {x, y} \subseteq inWorld /\ (<<x, y>> \in first <=> <<y, x>> \notin first)
            /\ <<x, y>> \in first \cup suppressed => IsInCombatWith(x, y)
            /\ <<y, x>> \in first \cup suppressed => IsInCombatWith(y, x)
        BY DEF ReferencesMutual
      <3>2. CASE <<x, y>> \in {<<u, v>>, <<v, u>>}
        BY <1>2, <2>7, <2>8, <3>1, <3>2 DEF CanBeginCombat
      <3>3. CASE <<x, y>> \notin {<<u, v>>, <<v, u>>}
        BY <1>2, <2>7, <3>1, <3>3
      <3>4. QED
        BY <3>2, <3>3
    <2>12. ReferencesMutual'
      BY <2>9, <2>10, <2>11 DEF ReferencesMutual
    <2>13. QED
      BY <2>2, <2>5, <2>6, <2>7, <2>12
  <1>3. QED
    BY <1>1, <1>2 DEF SetInCombat

\* PurgeReferences removes the references of u with V on both sides and no other.
LEMMA PurgeSound ==
  ASSUME CombatInv, NEW u \in Units, NEW V \in SUBSET Units, NEW H \in SUBSET Units,
         \A v \in H : IsInCombatWith(u, v),
         PurgeReferences(u, V, H),
         \/ inWorld' = inWorld
         \/ inWorld' = inWorld \ {u} /\ V = pveRefs[u] \cup pvpRefs[u]
  PROVE  /\ CombatInv'
         /\ \A x, y \in Units :
               IsInCombatWith(x, y)' <=>
                 IsInCombatWith(x, y) /\ ~(x = u /\ y \in V) /\ ~(y = u /\ x \in V)
  <1> USE DEF CombatInv, CombatTypes
  <1> DEFINE pairs == ({u} \X V) \cup (V \X {u})
  <1>1. /\ pveRefs' = [x \in Units |-> {y \in pveRefs[x] : <<x, y>> \notin pairs}]
        /\ pvpRefs' = [x \in Units |-> {y \in pvpRefs[x] : <<x, y>> \notin pairs}]
        /\ first' = first \ pairs
        /\ suppressed' = (suppressed \cup ({u} \X H)) \ pairs
        /\ UpdateOwnerCombatState({u} \cup V)
    BY DEF PurgeReferences
  <1>2. \A x, y : <<x, y>> \in pairs <=> (x = u /\ y \in V) \/ (y = u /\ x \in V)
    OBVIOUS
  <1> HIDE DEF pairs
  <1>3. pveRefs' \in [Units -> SUBSET Units] /\ pvpRefs' \in [Units -> SUBSET Units]
    BY <1>1
  <1>4. first' \subseteq Units \X Units /\ suppressed' \subseteq Units \X Units
    BY <1>1
  <1>5. \A x, y \in Units :
          /\ y \in pveRefs'[x] <=> y \in pveRefs[x] /\ <<x, y>> \notin pairs
          /\ y \in pvpRefs'[x] <=> y \in pvpRefs[x] /\ <<x, y>> \notin pairs
    BY <1>1
  <1>6. \A x, y \in Units : IsInCombatWith(x, y)' <=> IsInCombatWith(x, y) /\ <<x, y>> \notin pairs
    BY <1>5 DEF IsInCombatWith
  <1>7. ASSUME NEW x \in Units \ ({u} \cup V) PROVE HasCombat(x)' <=> HasCombat(x)
    <2>1. \A y : <<x, y>> \notin pairs
      BY <1>2
    <2>2. pveRefs'[x] = pveRefs[x] /\ pvpRefs'[x] = pvpRefs[x]
      BY <1>1, <2>1
    <2>3. \A y : <<x, y>> \in suppressed' <=> <<x, y>> \in suppressed
      BY <1>1, <2>1
    <2>4. QED
      BY <2>2, <2>3 DEF HasCombat
  <1>8. FlagMatchesReferences' /\ inCombat' \subseteq Units
    <2>1. {u} \cup V \in SUBSET Units
      OBVIOUS
    <2>2. QED
      BY <1>1, <1>7, <2>1, FlagUpdated
  <1>9. ASSUME NEW x \in Units, NEW y \in Units
        PROVE  /\ y \in pveRefs'[x] <=> x \in pveRefs'[y]
               /\ y \in pvpRefs'[x] <=> x \in pvpRefs'[y]
               /\ pveRefs'[x] \cap pvpRefs'[x] = {}
               /\ IsInCombatWith(x, y)' =>
                    x # y /\ {x, y} \subseteq inWorld' /\ (<<x, y>> \in first' <=> <<y, x>> \notin first')
               /\ <<x, y>> \in first' \cup suppressed' => IsInCombatWith(x, y)'
    <2>1. /\ y \in pveRefs[x] <=> x \in pveRefs[y]
          /\ y \in pvpRefs[x] <=> x \in pvpRefs[y]
          /\ pveRefs[x] \cap pvpRefs[x] = {}
          /\ IsInCombatWith(x, y) =>
               x # y /\ {x, y} \subseteq inWorld /\ (<<x, y>> \in first <=> <<y, x>> \notin first)
          /\ <<x, y>> \in first \cup suppressed => IsInCombatWith(x, y)
      BY DEF ReferencesMutual
    <2>2. <<x, y>> \in pairs <=> <<y, x>> \in pairs
      BY <1>2
    <2>3. y \in pveRefs'[x] <=> x \in pveRefs'[y]
      BY <1>5, <2>1, <2>2
    <2>4. y \in pvpRefs'[x] <=> x \in pvpRefs'[y]
      BY <1>5, <2>1, <2>2
    <2>5. pveRefs'[x] \cap pvpRefs'[x] = {}
      BY <1>1, <2>1
    <2>6. ASSUME IsInCombatWith(x, y)'
          PROVE  x # y /\ {x, y} \subseteq inWorld' /\ (<<x, y>> \in first' <=> <<y, x>> \notin first')
      <3>1. IsInCombatWith(x, y) /\ <<x, y>> \notin pairs
        BY <2>6, <1>6
      <3>2. x # y /\ (<<x, y>> \in first' <=> <<y, x>> \notin first')
        BY <3>1, <2>1, <2>2, <1>1
      <3>3. CASE inWorld' = inWorld
        BY <3>1, <3>3, <2>1, <3>2
      <3>4. CASE inWorld' = inWorld \ {u} /\ V = pveRefs[u] \cup pvpRefs[u]
        <4>1. x # u /\ y # u
          BY <3>1, <3>4, <2>1, <1>2 DEF IsInCombatWith
        <4>2. QED
          BY <4>1, <3>1, <3>2, <3>4, <2>1
      <3>5. QED
        BY <3>3, <3>4
    <2>7. ASSUME <<x, y>> \in first' \cup suppressed' PROVE IsInCombatWith(x, y)'
      <3>1. <<x, y>> \notin pairs /\ (<<x, y>> \in first \cup suppressed \/ (x = u /\ y \in H))
        BY <2>7, <1>1
      <3>2. IsInCombatWith(x, y)
        BY <3>1, <2>1
      <3>3. QED
        BY <3>1, <3>2, <1>6
    <2>8. QED
      BY <2>3, <2>4, <2>5, <2>6, <2>7
  <1>10. ReferencesMutual'
    BY <1>9 DEF ReferencesMutual
  <1>11. inWorld' \subseteq Units
    OBVIOUS
  <1>12. QED
    BY <1>2, <1>3, <1>4, <1>6, <1>8, <1>10, <1>11

-----------------------------------------------------------------------------
(* The threat lists                                                        *)

ThreatInv ==
    /\ DOMAIN mgr = ThreatOwners /\ \A o \in ThreatOwners : SoundManager(mgr[o])
    /\ threatenedByMe \in [Units -> SUBSET ThreatOwners]

CombatThreatInv == CombatInv /\ ThreatInv /\ ThreatImpliesCombat

\* What every step does to the managers.
Justified == \A o \in ThreatOwners : JustifiedSwitch(mgr[o], mgr'[o])

\* The conjunction is the type and the four properties.
LEMMA InvParts ==
  CombatThreatInv <=> /\ TypeOK /\ FlagMatchesReferences /\ ReferencesMutual
                      /\ ThreatImpliesCombat /\ VictimAvailable
  BY DEF CombatThreatInv, CombatInv, CombatTypes, ThreatInv, SoundManager, TypeOK, VictimAvailable

\* A step that changes the managers one by one keeps the invariant if it keeps
\* the lists.
LEMMA SameLists ==
  ASSUME ThreatInv, DOMAIN mgr' = ThreatOwners, threatenedByMe' = threatenedByMe,
         \A o \in ThreatOwners : /\ SoundManager(mgr'[o]) /\ JustifiedSwitch(mgr[o], mgr'[o])
                                 /\ DOMAIN mgr'[o].ref = DOMAIN mgr[o].ref
  PROVE  /\ ThreatInv' /\ Justified
         /\ ThreatImpliesCombat /\ combatVars' = combatVars => ThreatImpliesCombat'
  <1>1. ThreatInv' /\ Justified
    BY DEF ThreatInv, SoundManager, ThreatManager, Reference, IsAvailable, Justified
  <1>2. \A o : ThreatList(o)' = ThreatList(o)
    BY DEF ThreatList
  <1>3. ASSUME ThreatImpliesCombat, combatVars' = combatVars PROVE ThreatImpliesCombat'
    BY <1>2, <1>3 DEF ThreatImpliesCombat, IsInCombatWith, combatVars
  <1>4. QED
    BY <1>1, <1>3

\* A manager that stays as it is.
LEMMA Stays == ASSUME NEW m PROVE JustifiedSwitch(m, m)
  BY DEF JustifiedSwitch

\* A step of one owner that keeps its list.
LEMMA OneManager ==
  ASSUME CombatThreatInv, NEW o \in ThreatOwners, NEW m, SoundManager(m), JustifiedSwitch(mgr[o], m),
         DOMAIN m.ref = DOMAIN mgr[o].ref, mgr' = [mgr EXCEPT ![o] = m],
         UNCHANGED <<inWorld, combatVars, threatenedByMe>>
  PROVE  CombatThreatInv' /\ Justified
  <1>1. ThreatInv /\ DOMAIN mgr' = ThreatOwners
    BY DEF CombatThreatInv, ThreatInv
  <1>2. ASSUME NEW p \in ThreatOwners
        PROVE  /\ SoundManager(mgr'[p]) /\ JustifiedSwitch(mgr[p], mgr'[p])
               /\ DOMAIN mgr'[p].ref = DOMAIN mgr[p].ref
    <2>1. CASE p = o
      BY <1>1, <2>1 DEF ThreatInv
    <2>2. CASE p # o
      BY <1>1, <2>2, Stays DEF ThreatInv
    <2>3. QED
      BY <2>1, <2>2
  <1>3. ThreatInv' /\ Justified /\ ThreatImpliesCombat'
    BY <1>1, <1>2, SameLists DEF CombatThreatInv
  <1>4. CombatInv'
    BY DEF CombatThreatInv, CombatInv, CombatTypes, FlagMatchesReferences, ReferencesMutual,
           HasCombat, IsInCombatWith, combatVars
  <1>5. QED
    BY <1>3, <1>4 DEF CombatThreatInv

\* UnregisterAndFree of the references of T.
LEMMA RemoveThreatSound ==
  ASSUME ThreatInv, NEW T, RemoveThreat(T)
  PROVE  /\ ThreatInv' /\ Justified
         /\ \A o \in ThreatOwners, v \in Units :
               /\ v \in ThreatList(o)' <=> v \in ThreatList(o) /\ <<o, v>> \notin T
               /\ o \in threatenedByMe'[v] <=> o \in threatenedByMe[v] /\ <<o, v>> \notin T
  <1>1. /\ DOMAIN mgr' = ThreatOwners
        /\ \A o \in ThreatOwners : mgr'[o] \in ClearThreat(mgr[o], {v \in Units : <<o, v>> \in T})
        /\ threatenedByMe' = [v \in Units |-> {o \in threatenedByMe[v] : <<o, v>> \notin T}]
    BY DEF RemoveThreat, Managers
  <1>2. ASSUME NEW o \in ThreatOwners
        PROVE  /\ SoundManager(mgr'[o]) /\ JustifiedSwitch(mgr[o], mgr'[o])
               /\ DOMAIN mgr'[o].ref = DOMAIN mgr[o].ref \ {v \in Units : <<o, v>> \in T}
    BY <1>1, ClearThreatSound DEF ThreatInv
  <1>3. threatenedByMe' \in [Units -> SUBSET ThreatOwners]
    BY <1>1 DEF ThreatInv
  <1>4. ThreatInv'
    BY <1>1, <1>2, <1>3 DEF ThreatInv, SoundManager, ThreatManager, Reference, IsAvailable
  <1>5. Justified
    BY <1>2 DEF Justified
  <1>6. QED
    BY <1>1, <1>2, <1>4, <1>5 DEF ThreatList

\* Combat ends together with all the threat between those whose combat it is.
LEMMA EndedTogether ==
  ASSUME CombatThreatInv, NEW u \in Units, NEW V \in SUBSET Units, NEW H \in SUBSET Units, NEW T,
         \A v \in H : IsInCombatWith(u, v),
         \A o \in ThreatOwners, v \in Units :
            v \in ThreatList(o) /\ ((o = u /\ v \in V) \/ (v = u /\ o \in V)) => <<o, v>> \in T,
         RemoveThreat(T), PurgeReferences(u, V, H),
         \/ inWorld' = inWorld
         \/ inWorld' = inWorld \ {u} /\ V = pveRefs[u] \cup pvpRefs[u]
  PROVE  CombatThreatInv' /\ Justified
  <1>1. /\ CombatInv'
        /\ \A x, y \in Units :
               IsInCombatWith(x, y)' <=>
                 IsInCombatWith(x, y) /\ ~(x = u /\ y \in V) /\ ~(y = u /\ x \in V)
    BY PurgeSound DEF CombatThreatInv
  <1>2. /\ ThreatInv' /\ Justified
        /\ \A o \in ThreatOwners, v \in Units :
               /\ v \in ThreatList(o)' <=> v \in ThreatList(o) /\ <<o, v>> \notin T
               /\ o \in threatenedByMe'[v] <=> o \in threatenedByMe[v] /\ <<o, v>> \notin T
    BY RemoveThreatSound DEF CombatThreatInv
  <1>3. ThreatOwners \subseteq Units
    BY CombatAssumption
  <1>4. ThreatImpliesCombat'
    BY <1>1, <1>2, <1>3 DEF CombatThreatInv, ThreatImpliesCombat
  <1>5. QED
    BY <1>1, <1>2, <1>4 DEF CombatThreatInv

\* Steps that leave the threat alone.
LEMMA CombatOnly ==
  ASSUME CombatThreatInv, CombatInv', UNCHANGED threatVars,
         \A x, y \in Units : IsInCombatWith(x, y) => IsInCombatWith(x, y)'
  PROVE  CombatThreatInv' /\ Justified
  <1>1. ThreatOwners \subseteq Units
    BY CombatAssumption
  <1>2. ThreatInv' /\ Justified
    BY Stays DEF CombatThreatInv, ThreatInv, threatVars, SoundManager, ThreatManager, Reference,
                 IsAvailable, Justified
  <1>3. ThreatImpliesCombat'
    BY <1>1 DEF CombatThreatInv, ThreatImpliesCombat, ThreatList, threatVars
  <1>4. QED
    BY <1>2, <1>3 DEF CombatThreatInv

-----------------------------------------------------------------------------
(* The invariant                                                           *)

\* Nobody is in the world, in combat or threatened at first.
LEMMA CombatInit == Init => CombatThreatInv
  <1> SUFFICES ASSUME Init PROVE CombatThreatInv
    OBVIOUS
  <1>1. CombatInv
    BY DEF Init, CombatInv, CombatTypes, FlagMatchesReferences, ReferencesMutual, HasCombat,
           IsInCombatWith
  <1>2. ASSUME NEW o \in ThreatOwners PROVE SoundManager(mgr[o]) /\ DOMAIN mgr[o].ref = {}
    <2>1. mgr[o] = [ref |-> [v \in {} |-> NewReference], currentVictim |-> None, fixate |-> None]
      BY DEF Init
    <2>2. /\ mgr[o] = [ref |-> mgr[o].ref, currentVictim |-> mgr[o].currentVictim,
                        fixate |-> mgr[o].fixate]
          /\ DOMAIN mgr[o].ref = {} /\ mgr[o].ref \in [{} -> Reference]
          /\ mgr[o].currentVictim = None /\ mgr[o].fixate = None
      BY <2>1
    <2>3. mgr[o] \in ThreatManager
      BY <2>2, ManagerType
    <2>4. QED
      BY <2>2, <2>3 DEF SoundManager
  <1>3. ThreatInv
    BY <1>2 DEF Init, ThreatInv
  <1>4. ThreatImpliesCombat
    BY <1>2 DEF Init, ThreatImpliesCombat, ThreatList
  <1>5. QED
    BY <1>1, <1>3, <1>4 DEF CombatThreatInv

\* References that are suppressed for one unit are still there.
LEMMA SuppressedOnly ==
  ASSUME CombatThreatInv, NEW u \in Units, NEW H \in SUBSET Units, \A v \in H : IsInCombatWith(u, v),
         PurgeReferences(u, {}, H), inWorld' = inWorld, UNCHANGED threatVars
  PROVE  CombatThreatInv' /\ Justified
  <1>1. CombatInv /\ {} \in SUBSET Units
    BY DEF CombatThreatInv
  <1>2. /\ CombatInv'
        /\ \A x, y \in Units : IsInCombatWith(x, y) => IsInCombatWith(x, y)'
    BY <1>1, PurgeSound
  <1>3. QED
    BY <1>2, CombatOnly

\* Calls that change combat references only.
LEMMA CombatSteps ==
  ASSUME CombatThreatInv, NEW u \in Units,
         \/ AddToWorld(u) \/ SuppressPvPCombat(u)
         \/ \E v \in Units \ {u} : SuppressFor(u, v) \/ \E b \in BOOLEAN : SetInCombatWith(u, v, b)
  PROVE  CombatThreatInv' /\ Justified
  <1>1. CombatInv
    BY DEF CombatThreatInv
  <1>2. CASE AddToWorld(u)
    <2>1. CombatInv'
      BY <1>1, <1>2 DEF AddToWorld, CombatInv, CombatTypes, FlagMatchesReferences, ReferencesMutual,
                        HasCombat, IsInCombatWith, combatVars
    <2>2. \A x, y \in Units : IsInCombatWith(x, y) => IsInCombatWith(x, y)'
      BY <1>2 DEF AddToWorld, IsInCombatWith, combatVars
    <2>3. QED
      BY <1>2, <2>1, <2>2, CombatOnly DEF AddToWorld
  <1>3. CASE SuppressPvPCombat(u)
    <2>1. pvpRefs[u] \in SUBSET Units /\ \A v \in pvpRefs[u] : IsInCombatWith(u, v)
      BY <1>1, Mutual DEF IsInCombatWith
    <2>2. PurgeReferences(u, {}, pvpRefs[u]) /\ inWorld' = inWorld /\ UNCHANGED threatVars
      BY <1>3 DEF SuppressPvPCombat
    <2>3. QED
      BY <2>1, <2>2, SuppressedOnly
  <1>4. ASSUME NEW v \in Units \ {u}, SuppressFor(u, v) PROVE CombatThreatInv' /\ Justified
    <2>1. {v} \in SUBSET Units /\ \A w \in {v} : IsInCombatWith(u, w)
      BY <1>4 DEF SuppressFor
    <2>2. PurgeReferences(u, {}, {v}) /\ inWorld' = inWorld /\ UNCHANGED threatVars
      BY <1>4 DEF SuppressFor
    <2>3. QED
      BY <2>1, <2>2, SuppressedOnly, Zenon
  <1>5. ASSUME NEW v \in Units \ {u}, NEW b \in BOOLEAN, SetInCombatWith(u, v, b)
        PROVE  CombatThreatInv' /\ Justified
    <2>1. SetInCombat(u, v, b) /\ inWorld' = inWorld /\ UNCHANGED threatVars /\ u # v
      BY <1>5 DEF SetInCombatWith
    <2>2. /\ CombatInv'
          /\ \A x, y \in Units : IsInCombatWith(x, y) => IsInCombatWith(x, y)'
      BY <1>1, <2>1, SetInCombatSound
    <2>3. QED
      BY <2>1, <2>2, CombatOnly
  <1>6. QED
    BY <1>2, <1>3, <1>4, <1>5

\* Calls that end combat, and with it threat.
LEMMA EndingSteps ==
  ASSUME CombatThreatInv, NEW u \in Units,
         \/ RemoveFromWorld(u)
         \/ \E b \in BOOLEAN : CombatStop(u, b)
         \/ \E V \in SUBSET Units : EndCombatWith(u, V) \/ Update_Timers(u, V)
  PROVE  CombatThreatInv' /\ Justified
  <1> DEFINE all == pveRefs[u] \cup pvpRefs[u]
  <1>1. pveRefs[u] \in SUBSET Units /\ pvpRefs[u] \in SUBSET Units /\ all \in SUBSET Units
    BY Mutual DEF CombatThreatInv
  <1>2. {} \in SUBSET Units /\ \A v \in {} : IsInCombatWith(u, v)
    OBVIOUS
  <1>3. \A o \in ThreatOwners, v \in Units :
          v \in ThreatList(o) /\ (o = u \/ v = u) => <<o, v>> \in AllThreat(u)
    BY DEF CombatThreatInv, ThreatImpliesCombat, AllThreat
  <1>4. CASE RemoveFromWorld(u)
    <2>1. /\ inWorld' = inWorld \ {u} /\ RemoveThreat(AllThreat(u))
          /\ PurgeReferences(u, all, {})
      BY <1>4 DEF RemoveFromWorld
    <2> HIDE DEF all
    <2>2. inWorld' = inWorld \/ (inWorld' = inWorld \ {u} /\ all = pveRefs[u] \cup pvpRefs[u])
      BY <2>1 DEF all
    <2>3. QED
      BY <1>1, <1>2, <1>3, <2>1, <2>2, EndedTogether
  <1>5. ASSUME NEW b \in BOOLEAN, CombatStop(u, b) PROVE CombatThreatInv' /\ Justified
    <2>1. inWorld' = inWorld /\ RemoveThreat(AllThreat(u))
      BY <1>5 DEF CombatStop
    <2>2. PurgeReferences(u, all, {}) \/ PurgeReferences(u, pveRefs[u], pvpRefs[u])
      BY <1>5 DEF CombatStop
    <2>3. \A v \in pvpRefs[u] : IsInCombatWith(u, v)
      BY DEF IsInCombatWith
    <2> HIDE DEF all
    <2>4. CASE PurgeReferences(u, all, {})
      BY <1>1, <1>2, <1>3, <2>1, <2>4, EndedTogether
    <2>5. CASE PurgeReferences(u, pveRefs[u], pvpRefs[u])
      BY <1>1, <1>3, <2>1, <2>3, <2>5, EndedTogether
    <2>6. QED
      BY <2>2, <2>4, <2>5
  <1>6. ASSUME NEW V \in SUBSET Units, EndCombatWith(u, V) \/ Update_Timers(u, V)
        PROVE  CombatThreatInv' /\ Justified
    <2> DEFINE T == ({u} \X V) \cup (V \X {u})
    <2>1. inWorld' = inWorld /\ RemoveThreat(T) /\ PurgeReferences(u, V, {})
      BY <1>6 DEF EndCombatWith, Update_Timers, EndCombat
    <2>2. \A o \in ThreatOwners, v \in Units :
            v \in ThreatList(o) /\ ((o = u /\ v \in V) \/ (v = u /\ o \in V)) => <<o, v>> \in T
      OBVIOUS
    <2> HIDE DEF T
    <2>3. QED
      BY <1>2, <2>1, <2>2, EndedTogether
  <1>7. QED
    BY <1>4, <1>5, <1>6

\* ClearThreat, ClearAllThreat: threat may end without combat.
LEMMA ClearingSteps ==
  ASSUME CombatThreatInv, NEW T, RemoveThreat(T), UNCHANGED <<inWorld, combatVars>>
  PROVE  CombatThreatInv' /\ Justified
  <1>1. /\ ThreatInv' /\ Justified
        /\ \A o \in ThreatOwners, v \in Units :
               /\ v \in ThreatList(o)' <=> v \in ThreatList(o) /\ <<o, v>> \notin T
               /\ o \in threatenedByMe'[v] <=> o \in threatenedByMe[v] /\ <<o, v>> \notin T
    BY RemoveThreatSound DEF CombatThreatInv
  <1>2. CombatInv'
    BY DEF CombatThreatInv, CombatInv, CombatTypes, FlagMatchesReferences, ReferencesMutual,
           HasCombat, IsInCombatWith, combatVars
  <1>3. ThreatImpliesCombat'
    BY <1>1 DEF CombatThreatInv, ThreatImpliesCombat, IsInCombatWith, combatVars
  <1>4. QED
    BY <1>1, <1>2, <1>3 DEF CombatThreatInv

\* n is m with its reference to v reevaluated.
ReevaluatedTo(m, v, b, n) ==
    LET on == {v} \cap DOMAIN m.ref
    IN  \E f : /\ \A w \in on : f[w] \in Reevaluated(m.ref[w], b)
               /\ n = [m EXCEPT !.ref = [w \in DOMAIN m.ref |-> IF w \in on THEN f[w] ELSE m.ref[w]]]

\* EvaluateSuppressed of the references of others to v, and TauntUpdate.
LEMMA SuppressionSteps ==
  ASSUME NEW m, SoundManager(m), NEW v \in Units, NEW b \in BOOLEAN, NEW n, ReevaluatedTo(m, v, b, n)
  PROVE  SoundManager(n) /\ JustifiedSwitch(m, n) /\ DOMAIN n.ref = DOMAIN m.ref
  <1>2. m.ref \in [DOMAIN m.ref -> Reference]
    BY ManagerType DEF SoundManager
  <1> DEFINE on == {v} \cap DOMAIN m.ref
  <1>3. PICK f : /\ \A w \in on : f[w] \in Reevaluated(m.ref[w], b)
                 /\ n = [m EXCEPT !.ref = [w \in DOMAIN m.ref |-> IF w \in on THEN f[w] ELSE m.ref[w]]]
    BY DEF ReevaluatedTo
  <1> DEFINE r == [w \in DOMAIN m.ref |-> IF w \in on THEN f[w] ELSE m.ref[w]]
  <1>4. ASSUME NEW w \in DOMAIN m.ref
        PROVE  r[w] \in Reference /\ (IsAvailable(r[w]) <=> IsAvailable(m.ref[w]))
    BY <1>2, <1>3, SuppressionOnly
  <1>5. r \in [DOMAIN m.ref -> Reference] /\ n = [m EXCEPT !.ref = r]
    BY <1>3, <1>4
  <1> HIDE DEF r
  <1>6. QED
    BY <1>4, <1>5, KeptSound

\* EvaluateSuppressed never changes who is available.
LEMMA EvaluateStep ==
  ASSUME CombatThreatInv, NEW v \in Units, NEW b \in BOOLEAN, EvaluateSuppressed(v, b)
  PROVE  CombatThreatInv' /\ Justified
  <1>1. /\ DOMAIN mgr' = ThreatOwners /\ UNCHANGED <<inWorld, combatVars, threatenedByMe>>
        /\ \A o \in ThreatOwners : ReevaluatedTo(mgr[o], v, b, mgr'[o])
    BY DEF EvaluateSuppressed, Managers, Changed, ReevaluatedTo
  <1>2. ASSUME NEW o \in ThreatOwners
        PROVE  /\ SoundManager(mgr'[o]) /\ JustifiedSwitch(mgr[o], mgr'[o])
               /\ DOMAIN mgr'[o].ref = DOMAIN mgr[o].ref
    BY <1>1, SuppressionSteps DEF CombatThreatInv, ThreatInv
  <1>3. ThreatInv' /\ Justified /\ ThreatImpliesCombat'
    BY <1>1, <1>2, SameLists DEF CombatThreatInv
  <1>4. CombatInv'
    BY <1>1 DEF CombatThreatInv, CombatInv, CombatTypes, FlagMatchesReferences, ReferencesMutual,
                HasCombat, IsInCombatWith, combatVars
  <1>5. QED
    BY <1>3, <1>4 DEF CombatThreatInv

\* TauntUpdate changes the taunts on one list and the suppression on others.
LEMMA TauntStep ==
  ASSUME CombatThreatInv, NEW o \in ThreatOwners, TauntUpdate(o)
  PROVE  CombatThreatInv' /\ Justified
  <1> DEFINE retaunted(taunt) == [mgr[o] EXCEPT !.ref = [v \in ThreatList(o) |-> [@[v] EXCEPT !.taunt = taunt[v]]]]
  <1>1. PICK taunt \in [ThreatList(o) -> 0..(1 + MaxTaunts)] :
          mgr' \in Managers(LAMBDA p :
                IF p = o THEN {[mgr[o] EXCEPT !.ref = [v \in ThreatList(o) |-> [@[v] EXCEPT !.taunt = taunt[v]]]]}
                ELSE Changed(mgr[p], {o}, LAMBDA r : Reevaluated(r, TRUE)))
    BY DEF TauntUpdate
  <1>2. /\ DOMAIN mgr' = ThreatOwners /\ UNCHANGED <<inWorld, combatVars, threatenedByMe>>
        /\ mgr'[o] = retaunted(taunt)
        /\ \A p \in ThreatOwners \ {o} : ReevaluatedTo(mgr[p], o, TRUE, mgr'[p])
    <2>1. DOMAIN mgr' = ThreatOwners /\ UNCHANGED <<inWorld, combatVars, threatenedByMe>>
      BY <1>1 DEF Managers, TauntUpdate
    <2>2. mgr'[o] = retaunted(taunt)
      BY <1>1 DEF Managers
    <2>3. ASSUME NEW p \in ThreatOwners \ {o}
          PROVE  ReevaluatedTo(mgr[p], o, TRUE, mgr'[p])
      <3>1. mgr'[p] \in Changed(mgr[p], {o}, LAMBDA r : Reevaluated(r, TRUE))
        BY <1>1 DEF Managers
      <3>2. QED
        BY <3>1 DEF Changed, ReevaluatedTo
    <2>4. QED
      BY <2>1, <2>2, <2>3
  <1>3. o \in Units
    BY CombatAssumption
  <1>4. ASSUME NEW p \in ThreatOwners
        PROVE  /\ SoundManager(mgr'[p]) /\ JustifiedSwitch(mgr[p], mgr'[p])
               /\ DOMAIN mgr'[p].ref = DOMAIN mgr[p].ref
    <2>1. CASE p # o
      BY <1>2, <1>3, <2>1, SuppressionSteps DEF CombatThreatInv, ThreatInv
    <2>2. CASE p = o
      <3> DEFINE m == mgr[o]
                 r == [v \in DOMAIN m.ref |-> [m.ref[v] EXCEPT !.taunt = taunt[v]]]
      <3>1. SoundManager(m) /\ ThreatList(o) = DOMAIN m.ref
        BY DEF CombatThreatInv, ThreatInv, ThreatList
      <3>2. m.ref \in [DOMAIN m.ref -> Reference]
        BY <3>1, ManagerType DEF SoundManager
      <3>3. mgr'[o] = [m EXCEPT !.ref = r]
        BY <1>2, <3>1
      <3>4. ASSUME NEW v \in DOMAIN m.ref
            PROVE  r[v] \in Reference /\ (IsAvailable(r[v]) <=> IsAvailable(m.ref[v]))
        <4>1. m.ref[v] \in Reference /\ taunt[v] \in 0..(1 + MaxTaunts)
          BY <3>1, <3>2
        <4>2. r[v] = [m.ref[v] EXCEPT !.taunt = taunt[v]]
          OBVIOUS
        <4> HIDE DEF r, m
        <4>3. QED
          BY <4>1, <4>2 DEF Reference, IsAvailable
      <3>5. r \in [DOMAIN m.ref -> Reference]
        BY <3>4
      <3> HIDE DEF r
      <3>6. QED
        BY <2>2, <3>1, <3>3, <3>4, <3>5, KeptSound
    <2>3. QED
      BY <2>1, <2>2
  <1>5. ThreatInv' /\ Justified /\ ThreatImpliesCombat'
    BY <1>2, <1>4, SameLists DEF CombatThreatInv
  <1>6. CombatInv'
    BY <1>2 DEF CombatThreatInv, CombatInv, CombatTypes, FlagMatchesReferences, ReferencesMutual,
                HasCombat, IsInCombatWith, combatVars
  <1>7. QED
    BY <1>5, <1>6 DEF CombatThreatInv

\* The other calls about one list that keep who is on it.
LEMMA ListSteps ==
  ASSUME CombatThreatInv, NEW o \in ThreatOwners,
         \/ Update_Victim(o)
         \/ \E v \in Units : FixateTarget(o, v)
         \/ \E V \in SUBSET Units : ScaleThreat(o, V)
  PROVE  CombatThreatInv' /\ Justified
  <1> DEFINE m == mgr[o]
  <1>1. SoundManager(m) /\ DOMAIN mgr = ThreatOwners /\ ThreatList(o) = DOMAIN m.ref
    BY DEF CombatThreatInv, ThreatInv, ThreatList
  <1>2. /\ m = [ref |-> m.ref, currentVictim |-> m.currentVictim, fixate |-> m.fixate]
        /\ DOMAIN m.ref \subseteq Units /\ m.ref \in [DOMAIN m.ref -> Reference]
        /\ m.fixate \in Units \cup {None} /\ m.currentVictim \in Units \cup {None}
    BY <1>1, ManagerType DEF SoundManager
  <1>3. CASE Update_Victim(o)
    <2>1. PICK n \in UpdateVictim(m) : mgr' = [mgr EXCEPT ![o] = n]
      BY <1>3 DEF Update_Victim
    <2>2. UNCHANGED <<inWorld, combatVars, threatenedByMe>>
      BY <1>3 DEF Update_Victim
    <2>3. SoundManager(n) /\ JustifiedSwitch(m, n) /\ DOMAIN n.ref = DOMAIN m.ref
      <3>1. /\ m \in ThreatManager /\ (m.fixate # None => m.fixate \in DOMAIN m.ref)
            /\ m.currentVictim # None => m.currentVictim \in DOMAIN m.ref
        BY <1>1 DEF SoundManager
      <3> HIDE DEF m
      <3>2. QED
        BY <3>1, <2>1, UpdateVictimSound
    <2>4. QED
      BY <2>1, <2>2, <2>3, OneManager
  <1>4. ASSUME NEW v \in Units, FixateTarget(o, v) PROVE CombatThreatInv' /\ Justified
    <2> DEFINE n == [m EXCEPT !.fixate = IF v \in ThreatList(o) THEN v ELSE None]
    <2>1. mgr' = [mgr EXCEPT ![o] = n] /\ UNCHANGED <<inWorld, combatVars, threatenedByMe>>
      BY <1>4 DEF FixateTarget
    <2>2. n = [ref |-> m.ref, currentVictim |-> m.currentVictim,
               fixate |-> IF v \in DOMAIN m.ref THEN v ELSE None]
      BY <1>1, <1>2
    <2> HIDE DEF n, m
    <2>3. /\ n = [ref |-> n.ref, currentVictim |-> n.currentVictim, fixate |-> n.fixate]
          /\ n.ref = m.ref /\ n.currentVictim = m.currentVictim
          /\ n.fixate = IF v \in DOMAIN m.ref THEN v ELSE None
      BY <2>2
    <2>4. n \in ThreatManager
      BY <1>2, <2>3, ManagerType
    <2>5. SoundManager(n) /\ JustifiedSwitch(m, n) /\ DOMAIN n.ref = DOMAIN m.ref
      BY <1>1, <2>3, <2>4 DEF SoundManager, JustifiedSwitch
    <2>6. QED
      BY <2>1, <2>5, OneManager DEF m
  <1>5. ASSUME NEW V \in SUBSET Units, ScaleThreat(o, V) PROVE CombatThreatInv' /\ Justified
    <2>1. PICK n \in Changed(m, V, LAMBDA r : {[r EXCEPT !.threat = t] : t \in Threats}) :
            mgr' = [mgr EXCEPT ![o] = n]
      BY <1>5 DEF ScaleThreat
    <2>2. UNCHANGED <<inWorld, combatVars, threatenedByMe>>
      BY <1>5 DEF ScaleThreat
    <2> DEFINE on == V \cap DOMAIN m.ref
    <2>3. PICK f : /\ \A w \in on : f[w] \in {[m.ref[w] EXCEPT !.threat = t] : t \in Threats}
                   /\ n = [m EXCEPT !.ref = [w \in DOMAIN m.ref |-> IF w \in on THEN f[w] ELSE m.ref[w]]]
      BY <2>1 DEF Changed
    <2> DEFINE r == [w \in DOMAIN m.ref |-> IF w \in on THEN f[w] ELSE m.ref[w]]
    <2>4. ASSUME NEW w \in DOMAIN m.ref
          PROVE  r[w] \in Reference /\ (IsAvailable(r[w]) <=> IsAvailable(m.ref[w]))
      <3>1. m.ref[w] \in Reference
        BY <1>2
      <3>2. CASE w \notin on
        BY <3>1, <3>2
      <3>3. CASE w \in on
        <4>1. PICK t \in Threats : r[w] = [m.ref[w] EXCEPT !.threat = t]
          BY <2>3, <3>3
        <4> HIDE DEF r, m
        <4>2. QED
          BY <4>1, <3>1 DEF Reference, IsAvailable
      <3>4. QED
        BY <3>2, <3>3
    <2>5. r \in [DOMAIN m.ref -> Reference] /\ n = [m EXCEPT !.ref = r]
      BY <2>3, <2>4
    <2> HIDE DEF r, m
    <2>6. SoundManager(n) /\ JustifiedSwitch(m, n) /\ DOMAIN n.ref = DOMAIN m.ref
      BY <1>1, <2>4, <2>5, KeptSound
    <2>7. QED
      BY <2>1, <2>2, <2>6, OneManager DEF m
  <1>6. QED
    BY <1>3, <1>4, <1>5

\* AddThreat begins combat first, and the victim learns of the threat.
LEMMA AddThreatStep ==
  ASSUME CombatThreatInv, NEW o \in ThreatOwners, NEW v \in Units \ {o}, AddThreat(o, v)
  PROVE  CombatThreatInv' /\ Justified
  <1> DEFINE m == mgr[o]
  <1>1. SoundManager(m) /\ DOMAIN mgr = ThreatOwners /\ ThreatList(o) = DOMAIN m.ref
    BY DEF CombatThreatInv, ThreatInv, ThreatList
  <1>2. o \in Units /\ ThreatOwners \subseteq Units
    BY CombatAssumption
  <1>3. /\ CombatInv'
        /\ \A x, y \in Units : IsInCombatWith(x, y) => IsInCombatWith(x, y)'
        /\ IsInCombatWith(o, v)'
    BY <1>2, SetInCombatSound DEF AddThreat, CombatThreatInv
  <1>4. PICK n \in IF v \in ThreatList(o) THEN Changed(m, {v}, AddMoreThreat) ELSE AddNewThreat(m, v) :
          mgr' = [mgr EXCEPT ![o] = n]
    BY DEF AddThreat
  <1>5. threatenedByMe' = [threatenedByMe EXCEPT ![v] = @ \cup {o}]
    BY DEF AddThreat
  <1>6. SoundManager(n) /\ JustifiedSwitch(m, n) /\ DOMAIN n.ref = DOMAIN m.ref \cup {v}
    <2>1. CASE v \notin ThreatList(o)
      <3>1. n \in AddNewThreat(m, v) /\ v \in Units \ DOMAIN m.ref
        BY <1>1, <1>4, <2>1
      <3> HIDE DEF m
      <3>2. QED
        BY <1>1, <3>1, AddNewThreatSound
    <2>2. CASE v \in ThreatList(o)
      <3>1. m.ref \in [DOMAIN m.ref -> Reference]
        BY <1>1, ManagerType DEF SoundManager
      <3> DEFINE on == {v} \cap DOMAIN m.ref
      <3>2. n \in Changed(m, {v}, AddMoreThreat)
        BY <1>4, <2>2
      <3>3. PICK f : /\ \A w \in on : f[w] \in AddMoreThreat(m.ref[w])
                     /\ n = [m EXCEPT !.ref = [w \in DOMAIN m.ref |-> IF w \in on THEN f[w] ELSE m.ref[w]]]
        BY <3>2 DEF Changed
      <3> DEFINE r == [w \in DOMAIN m.ref |-> IF w \in on THEN f[w] ELSE m.ref[w]]
      <3>4. ASSUME NEW w \in DOMAIN m.ref
            PROVE  r[w] \in Reference /\ (IsAvailable(r[w]) <=> IsAvailable(m.ref[w]))
        <4>1. w \in on => r[w] \in AddMoreThreat(m.ref[w]) \cup Reevaluated(m.ref[w], TRUE)
          BY <3>3
        <4>2. w \notin on => r[w] = m.ref[w]
          OBVIOUS
        <4> HIDE DEF r, m
        <4>3. QED
          BY <3>1, <4>1, <4>2, SuppressionOnly
      <3>5. r \in [DOMAIN m.ref -> Reference] /\ n = [m EXCEPT !.ref = r]
        BY <3>3, <3>4
      <3> HIDE DEF r, m
      <3>6. SoundManager(n) /\ JustifiedSwitch(m, n) /\ DOMAIN n.ref = DOMAIN m.ref
        BY <1>1, <3>4, <3>5, KeptSound
      <3>7. QED
        BY <1>1, <2>2, <3>6
    <2>3. QED
      BY <2>1, <2>2
  <1>7. /\ DOMAIN mgr' = ThreatOwners /\ mgr'[o] = n
        /\ \A p \in ThreatOwners \ {o} : mgr'[p] = mgr[p]
    BY <1>1, <1>4
  <1>8. threatenedByMe' \in [Units -> SUBSET ThreatOwners]
    BY <1>5 DEF CombatThreatInv, ThreatInv
  <1>9. \A p \in ThreatOwners : SoundManager(mgr'[p]) /\ JustifiedSwitch(mgr[p], mgr'[p])
    BY <1>6, <1>7, Stays DEF CombatThreatInv, ThreatInv
  <1>10. ThreatInv' /\ Justified
    BY <1>7, <1>8, <1>9 DEF ThreatInv, SoundManager, ThreatManager, Reference, IsAvailable, Justified
  <1>11. ASSUME NEW p \in ThreatOwners, NEW w \in Units
         PROVE  /\ w \in ThreatList(p)' <=> w \in ThreatList(p) \/ (p = o /\ w = v)
                /\ p \in threatenedByMe'[w] <=> p \in threatenedByMe[w] \/ (p = o /\ w = v)
    <2>1. w \in ThreatList(p)' <=> w \in ThreatList(p) \/ (p = o /\ w = v)
      BY <1>1, <1>6, <1>7 DEF ThreatList
    <2>2. p \in threatenedByMe'[w] <=> p \in threatenedByMe[w] \/ (p = o /\ w = v)
      BY <1>5 DEF CombatThreatInv, ThreatInv
    <2>3. QED
      BY <2>1, <2>2
  <1>12. ThreatImpliesCombat'
    BY <1>2, <1>3, <1>11 DEF CombatThreatInv, ThreatImpliesCombat
  <1>13. QED
    BY <1>3, <1>10, <1>12 DEF CombatThreatInv

\* Every call keeps the invariant and leaves no victim without a reason.
LEMMA CombatNext == CombatThreatInv /\ [Next]_vars => CombatThreatInv' /\ (Justified \/ UNCHANGED vars)
  <1> SUFFICES ASSUME CombatThreatInv, [Next]_vars
               PROVE  CombatThreatInv' /\ (Justified \/ UNCHANGED vars)
    OBVIOUS
  <1>1. ASSUME NEW u \in Units,
               \/ AddToWorld(u) \/ SuppressPvPCombat(u)
               \/ \E v \in Units \ {u} : SuppressFor(u, v) \/ \E b \in BOOLEAN : SetInCombatWith(u, v, b)
        PROVE  CombatThreatInv' /\ Justified
    BY <1>1, CombatSteps
  <1>2. ASSUME NEW u \in Units,
               \/ RemoveFromWorld(u)
               \/ \E b \in BOOLEAN : CombatStop(u, b)
               \/ \E V \in SUBSET Units : EndCombatWith(u, V) \/ Update_Timers(u, V)
        PROVE  CombatThreatInv' /\ Justified
    BY <1>2, EndingSteps
  <1>3. ASSUME NEW u \in Units, NEW b \in BOOLEAN, EvaluateSuppressed(u, b)
        PROVE  CombatThreatInv' /\ Justified
    BY <1>3, EvaluateStep
  <1>4. ASSUME NEW o \in ThreatOwners, TauntUpdate(o) PROVE CombatThreatInv' /\ Justified
    BY <1>4, TauntStep
  <1>5. ASSUME NEW o \in ThreatOwners,
               \/ Update_Victim(o)
               \/ \E v \in Units : FixateTarget(o, v)
               \/ \E V \in SUBSET Units : ScaleThreat(o, V)
        PROVE  CombatThreatInv' /\ Justified
    BY <1>5, ListSteps
  <1>6. ASSUME NEW o \in ThreatOwners, ClearAllThreat(o) PROVE CombatThreatInv' /\ Justified
    <2>1. RemoveThreat({o} \X ThreatList(o)) /\ UNCHANGED <<inWorld, combatVars>>
      BY <1>6 DEF ClearAllThreat
    <2>2. QED
      BY <2>1, ClearingSteps
  <1>7. ASSUME NEW o \in ThreatOwners, NEW v \in Units \ {o}, ClearThreat_(o, v)
        PROVE  CombatThreatInv' /\ Justified
    <2>1. RemoveThreat({<<o, v>>}) /\ UNCHANGED <<inWorld, combatVars>>
      BY <1>7 DEF ClearThreat_
    <2>2. QED
      BY <2>1, ClearingSteps
  <1>8. ASSUME NEW o \in ThreatOwners, NEW v \in Units \ {o}, AddThreat(o, v)
        PROVE  CombatThreatInv' /\ Justified
    BY <1>8, AddThreatStep
  <1>9. CASE UNCHANGED vars
    BY <1>9 DEF vars, combatVars, threatVars, CombatThreatInv, CombatInv, CombatTypes,
                FlagMatchesReferences, ReferencesMutual, HasCombat, IsInCombatWith, ThreatInv,
                SoundManager, ThreatManager, Reference, IsAvailable, ThreatImpliesCombat, ThreatList
  <1>10. QED
    BY <1>1, <1>2, <1>3, <1>4, <1>5, <1>6, <1>7, <1>8, <1>9 DEF Next

\* The inductive invariant holds in every reachable state.
LEMMA CombatInvariant == Spec => []CombatThreatInv
  <1>1. CombatThreatInv /\ [Next]_vars => CombatThreatInv'
    BY CombatNext
  <1>2. QED
    BY <1>1, CombatInit, PTL DEF Spec

-----------------------------------------------------------------------------
\* The state of CombatManager and ThreatManager keeps its type.
THEOREM CombatTypeCorrect == Spec => []TypeOK
  <1>1. CombatThreatInv => TypeOK
    BY InvParts
  <1>2. QED
    BY <1>1, CombatInvariant, PTL

\* UNIT_FLAG_IN_COMBAT is set exactly for the units with a reference that is not
\* suppressed for them, whatever calls were made before.
THEOREM FlagCorrect == Spec => []FlagMatchesReferences
  <1>1. CombatThreatInv => FlagMatchesReferences
    BY InvParts
  <1>2. QED
    BY <1>1, CombatInvariant, PTL

\* No unit keeps a combat reference the other one does not have, or one to a unit
\* that has left the world.
THEOREM ReferencesMatch == Spec => []ReferencesMutual
  <1>1. CombatThreatInv => ReferencesMutual
    BY InvParts
  <1>2. QED
    BY <1>1, CombatInvariant, PTL

\* No threat outlives the combat between owner and victim, on either side.
THEOREM ThreatNeedsCombat == Spec => []ThreatImpliesCombat
  <1>1. CombatThreatInv => ThreatImpliesCombat
    BY InvParts
  <1>2. QED
    BY <1>1, CombatInvariant, PTL

\* _currentVictimRef and _fixateRef never point to a freed reference, the current
\* victim is available, and there is one if anybody is.
THEOREM VictimSound == Spec => []VictimAvailable
  <1>1. CombatThreatInv => VictimAvailable
    BY InvParts
  <1>2. QED
    BY <1>1, CombatInvariant, PTL

\* No call makes a creature leave a victim it could still attack, except for the
\* one it is fixated on or one with more than 110 % of the threat.
THEOREM SwitchJustified == Spec => NoIdleSwitch
  <1> DEFINE Switch ==
        \A o \in ThreatOwners :
          LET old == mgr[o].currentVictim
              new == mgr'[o].currentVictim
              r == mgr'[o].ref
          IN  old # None /\ new # old /\ old \in DOMAIN r /\ IsAvailable(r[old]) =>
                new # None /\ (new = mgr'[o].fixate \/ CompareReferencesLT(r[old], r[new], 110))
  <1>1. CombatThreatInv /\ [Next]_vars => [Switch]_vars
    BY CombatNext DEF Justified, JustifiedSwitch
  <1>2. QED
    BY <1>1, CombatInvariant, PTL DEF Spec, NoIdleSwitch

\* ReselectVictim follows its rule on every list: for any finite set of units and
\* any amounts of threat, not only those of the run.
THEOREM SelectionAlwaysCorrect == Spec => []SelectionCorrect
  <1>1. SelectionCorrect
    <2>1. SUFFICES ASSUME NEW V \in (SUBSET Units) \ {{}}, NEW r \in [V -> SomeReferences],
                          NEW old \in V \cup {None}, NEW melee \in SUBSET V
                   PROVE  SelectionFollowsRule(r, old, melee, None)
      BY DEF SelectionCorrect
    <2>2. IsFiniteSet(V) /\ V # {} /\ None \notin V
      <3>1. IsFiniteSet(Units) /\ None \notin Units /\ V \subseteq Units /\ V # {}
        BY <2>1, CombatAssumption DEF CombatAssumption
      <3>2. QED
        BY <3>1, FS_Subset
    <2>3. SomeReferences \subseteq References
      <3>1. SampleThreats \subseteq Nat
        BY CombatAssumption DEF CombatAssumption
      <3>2. ASSUME NEW q \in SomeReferences PROVE q \in References
        <4>1. PICK n \in {0, 1, 2}, t \in {0, 1, 2}, a \in SampleThreats :
                   q = [online |-> n, taunt |-> t, threat |-> a]
          BY DEF SomeReferences, Offline, Suppressed, Online, Detaunted, NotTaunting, Taunting
        <4>2. t \in Nat /\ a \in Nat
          BY <3>1, <4>1
        <4>3. QED
          BY <4>1, <4>2 DEF References, Offline, Suppressed, Online
      <3>3. QED
        BY <3>2
    <2>4. r \in [V -> References]
      BY <2>1, <2>3
    <2>5. QED
      BY <2>1, <2>2, <2>4, SelectionRule
  <1>2. QED
    BY <1>1, PTL

=============================================================================
