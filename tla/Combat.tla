------------------------------- MODULE Combat -------------------------------
(***************************************************************************)
(* CombatManager and ThreatManager: who is in combat with whom, and whom   *)
(* the creatures among them are angry with.                                *)
(*                                                                         *)
(* A combat reference is kept by both units, a threat reference by its     *)
(* owner and by its victim.  One action is one call from outside, with     *)
(* everything it calls up to the hand-off to the AI, which may make        *)
(* further calls: those are actions of their own.  What a reference finds  *)
(* out about the world (alive, hostile, visible, immune, in range) may be  *)
(* different at every call.                                                *)
(***************************************************************************)
EXTENDS ThreatSelection

CONSTANTS
    Units,
    PlayerControlled,   \* IsControlledByPlayer
    ThreatOwners,       \* CanHaveThreatList
    Threats,            \* the amounts of threat that occur
    SampleThreats,      \* the amounts on the lists ReselectVictim is tried on
    MaxTaunts,          \* bound on the taunt auras of a unit
    None

ASSUME CombatAssumption ==
    /\ IsFiniteSet(Units) /\ None \notin Units
    /\ PlayerControlled \subseteq Units /\ ThreatOwners \subseteq Units
    /\ Threats \subseteq Nat /\ 0 \in Threats /\ SampleThreats \subseteq Nat /\ MaxTaunts \in Nat

VARIABLES
    inWorld,
    pveRefs, pvpRefs,   \* of each unit: _pveRefs and _pvpRefs, by the other unit
    first,              \* <<u, v>>: u is first in its reference with v
    suppressed,         \* <<u, v>>: that reference is suppressed for u
    inCombat,           \* the units with UNIT_FLAG_IN_COMBAT
    mgr,                \* of each owner: its threat list and its choice of a victim
    threatenedByMe      \* of each unit: _threatenedByMe, by owner

combatVars == <<pveRefs, pvpRefs, first, suppressed, inCombat>>
threatVars == <<mgr, threatenedByMe>>
vars == <<inWorld, combatVars, threatVars>>

Reference == [online : {Offline, Suppressed, Online}, taunt : 0..(1 + MaxTaunts), threat : Threats]
NewReference == [online |-> Offline, taunt |-> NotTaunting, threat |-> 0]

\* ref is _myThreatListEntries and the heap over the same references.
ThreatManager ==
    [ref : UNION {[V -> Reference] : V \in SUBSET Units},
     currentVictim : Units \cup {None},
     fixate : Units \cup {None}]

TypeOK ==
    /\ inWorld \subseteq Units /\ inCombat \subseteq Units
    /\ pveRefs \in [Units -> SUBSET Units] /\ pvpRefs \in [Units -> SUBSET Units]
    /\ first \subseteq Units \X Units /\ suppressed \subseteq Units \X Units
    /\ DOMAIN mgr = ThreatOwners /\ \A o \in ThreatOwners : mgr[o] \in ThreatManager
    /\ threatenedByMe \in [Units -> SUBSET ThreatOwners]

Init ==
    /\ inWorld = {} /\ inCombat = {}
    /\ pveRefs = [u \in Units |-> {}] /\ pvpRefs = [u \in Units |-> {}]
    /\ first = {} /\ suppressed = {}
    /\ mgr = [o \in ThreatOwners |-> [ref |-> [v \in {} |-> NewReference], currentVictim |-> None, fixate |-> None]]
    /\ threatenedByMe = [u \in Units |-> {}]

-----------------------------------------------------------------------------
(* CombatManager                                                           *)

HasCombat(u) == \E v \in pveRefs[u] \cup pvpRefs[u] : <<u, v>> \notin suppressed
IsInCombatWith(u, v) == v \in pveRefs[u] \cup pvpRefs[u]

\* UpdateOwnerCombatState of the units of U, once the references have changed.
UpdateOwnerCombatState(U) ==
    inCombat' = (inCombat \ U) \cup {u \in U : HasCombat(u)'}

Refresh(u, v) ==
    /\ suppressed' = suppressed \ {<<u, v>>, <<v, u>>}
    /\ UNCHANGED <<pveRefs, pvpRefs, first>>
    /\ UpdateOwnerCombatState({x \in {u, v} : \E y \in {u, v} : <<x, y>> \in suppressed})

\* Mutant: the reference is put into the maps of the first unit only.
PutReferenceOnce(u, v) ==
    IF {u, v} \subseteq PlayerControlled
    THEN /\ pvpRefs' = [pvpRefs EXCEPT ![u] = @ \cup {v}]
         /\ UNCHANGED pveRefs
    ELSE /\ pveRefs' = [pveRefs EXCEPT ![u] = @ \cup {v}]
         /\ UNCHANGED pvpRefs

PutReference(u, v) ==
    IF {u, v} \subseteq PlayerControlled
    THEN /\ pvpRefs' = [pvpRefs EXCEPT ![u] = @ \cup {v}, ![v] = @ \cup {u}]
         /\ UNCHANGED pveRefs
    ELSE /\ pveRefs' = [pveRefs EXCEPT ![u] = @ \cup {v}, ![v] = @ \cup {u}]
         /\ UNCHANGED pvpRefs

\* What CanBeginCombat is sure of; the rest may hold or not.
CanBeginCombat(u, v) == u # v /\ {u, v} \subseteq inWorld

\* SetInCombatWith, where it does not return false.
SetInCombat(u, v, addSecondUnitSuppressed) ==
    \/ IsInCombatWith(u, v) /\ Refresh(u, v)
    \/ /\ ~IsInCombatWith(u, v) /\ CanBeginCombat(u, v)
       /\ PutReference(u, v)
       /\ first' = first \cup {<<u, v>>}
       /\ suppressed' = suppressed \cup (IF addSecondUnitSuppressed THEN {<<v, u>>} ELSE {})
       /\ UpdateOwnerCombatState({u, v})

\* Mutant: only the unit whose combat ends is updated.
PurgeReferencesOf(u, V, H) ==
    LET pairs == ({u} \X V) \cup (V \X {u}) IN
    /\ pveRefs' = [x \in Units |-> {y \in pveRefs[x] : <<x, y>> \notin pairs}]
    /\ pvpRefs' = [x \in Units |-> {y \in pvpRefs[x] : <<x, y>> \notin pairs}]
    /\ first' = first \ pairs
    /\ suppressed' = (suppressed \cup ({u} \X H)) \ pairs
    /\ UpdateOwnerCombatState({u})

\* The references of u with the units of V are removed on both sides, those
\* with the units of H suppressed for u.
PurgeReferences(u, V, H) ==
    LET pairs == ({u} \X V) \cup (V \X {u}) IN
    /\ pveRefs' = [x \in Units |-> {y \in pveRefs[x] : <<x, y>> \notin pairs}]
    /\ pvpRefs' = [x \in Units |-> {y \in pvpRefs[x] : <<x, y>> \notin pairs}]
    /\ first' = first \ pairs
    /\ suppressed' = (suppressed \cup ({u} \X H)) \ pairs
    /\ UpdateOwnerCombatState({u} \cup V)

-----------------------------------------------------------------------------
(* ThreatManager: operators from a manager m to the managers it may become *)

ThreatList(o) == IF o \in ThreatOwners THEN DOMAIN mgr[o].ref ELSE {}

\* ShouldBeSuppressed: a taunting victim never should.
MayBeSuppressed(r) == r.taunt < Taunting

\* UpdateOffline: a reference that goes offline or comes back.
UpdateOffline(r) ==
    {[r EXCEPT !.online = n] :
        n \in IF IsAvailable(r) THEN {r.online, Offline}
              ELSE {Offline, Online} \cup (IF MayBeSuppressed(r) THEN {Suppressed} ELSE {})}

\* The references of the victims V on the list of m changed by F.
Changed(m, V, F(_)) ==
    LET on == V \cap DOMAIN m.ref IN
    {[m EXCEPT !.ref = [v \in DOMAIN @ |-> IF v \in on THEN f[v] ELSE @[v]]] :
        f \in {g \in [on -> UNION {F(m.ref[v]) : v \in on}] : \A v \in on : g[v] \in F(m.ref[v])}}

\* ReselectVictim once the references are up to date.
Selected(m) ==
    IF DOMAIN m.ref = {} THEN {None}
    ELSE IF m.fixate # None /\ IsAvailable(m.ref[m.fixate]) THEN {m.fixate}
    ELSE UNION {Reselect(m.ref, m.currentVictim, melee, None) : melee \in SUBSET DOMAIN m.ref}

\* Mutant: the selection starts afresh, the old victim has no bonus.
UpdateVictimAfresh(m) ==
    UNION {{[n EXCEPT !.currentVictim = v] : v \in Selected([n EXCEPT !.currentVictim = None])}
           : n \in Changed(m, DOMAIN m.ref, UpdateOffline)}

UpdateVictim(m) ==
    UNION {{[n EXCEPT !.currentVictim = v] : v \in Selected(n)}
           : n \in Changed(m, DOMAIN m.ref, UpdateOffline)}

\* PurgeThreatListRef of every victim of V.
PurgeThreatListRef(m, V) ==
    LET kept(x) == IF x \in V THEN None ELSE x
    IN  [ref |-> [v \in DOMAIN m.ref \ V |-> m.ref[v]],
         currentVictim |-> kept(m.currentVictim), fixate |-> kept(m.fixate)]

\* Mutant: nobody is selected in place of a victim that is gone.
ClearWithoutUpdate(m, V) == {PurgeThreatListRef(m, V)}

\* ClearThreat of every victim of V on the list, one after the other.  Each call
\* selects a victim if there is none; that only the last selection counts is
\* because a victim chosen before and not removed since was the highest of more.
ClearThreat(m, V) ==
    LET n == PurgeThreatListRef(m, V) IN
    IF V \cap DOMAIN m.ref # {} /\ n.currentVictim = None THEN UpdateVictim(n) ELSE {n}

\* For each owner o a manager out of M(o).
Managers(M(_)) ==
    {f \in [ThreatOwners -> UNION {M(o) : o \in ThreatOwners}] : \A o \in ThreatOwners : f[o] \in M(o)}

\* UnregisterAndFree of the references <<owner, victim>> of T, on both sides.
RemoveThreat(T) ==
    /\ mgr' \in Managers(LAMBDA o : ClearThreat(mgr[o], {v \in Units : <<o, v>> \in T}))
    /\ threatenedByMe' = [v \in Units |-> {o \in threatenedByMe[v] : <<o, v>> \notin T}]

-----------------------------------------------------------------------------
(* Calls that begin combat or change threat                                *)

AddToWorld(u) ==
    /\ u \notin inWorld
    /\ inWorld' = inWorld \cup {u}
    /\ UNCHANGED <<combatVars, threatVars>>

SetInCombatWith(u, v, addSecondUnitSuppressed) ==
    /\ SetInCombat(u, v, addSecondUnitSuppressed)
    /\ UNCHANGED <<inWorld, threatVars>>

\* AddThreat of a reference that is online; the amount may be negative.
Threatened(r) == IF r.online = Online THEN {[r EXCEPT !.threat = t] : t \in Threats} ELSE {r}

\* AddThreat of a victim that is on the list.
AddMoreThreat(r) ==
    UNION {Threatened([r EXCEPT !.online = n]) :
           n \in IF r.online # Suppressed THEN {r.online}
                 ELSE {Online} \cup (IF MayBeSuppressed(r) THEN {Suppressed} ELSE {})}

\* AddThreat of a victim that is not.
AddNewThreat(m, v) ==
    LET with(r) == [m EXCEPT !.ref = [w \in DOMAIN m.ref \cup {v} |-> IF w = v THEN r ELSE m.ref[w]]]
        added == {with(r) : r \in UNION {Threatened(q) : q \in UpdateOffline(NewReference)}}
    IN  IF m.currentVictim = None THEN UNION {UpdateVictim(n) : n \in added} ELSE added

\* AddThreat and MatchUnitThreatToHighestThreat of a unit with a threat list.  A
\* unit without one only calls SetInCombatWith.  What goes to a vehicle, a
\* summoner or the target of a redirection is a call of its own before this one.
AddThreat(o, v) ==
    /\ SetInCombat(o, v, FALSE)
    /\ \E m \in IF v \in ThreatList(o) THEN Changed(mgr[o], {v}, AddMoreThreat) ELSE AddNewThreat(mgr[o], v) :
            mgr' = [mgr EXCEPT ![o] = m]
    /\ threatenedByMe' = [threatenedByMe EXCEPT ![v] = @ \cup {o}]
    /\ UNCHANGED inWorld

\* ScaleThreat; ResetAllThreat does it to the whole list.
ScaleThreat(o, V) ==
    /\ V \subseteq ThreatList(o) /\ (Cardinality(V) = 1 \/ V = ThreatList(o))
    /\ \E m \in Changed(mgr[o], V, LAMBDA r : {[r EXCEPT !.threat = t] : t \in Threats}) :
            mgr' = [mgr EXCEPT ![o] = m]
    /\ UNCHANGED <<inWorld, combatVars, threatenedByMe>>

\* EvaluateSuppressed of one reference.
Reevaluated(r, canExpire) ==
    {[r EXCEPT !.online = n] :
        n \in CASE r.online = Offline -> {Offline}
              [] r.online = Online -> {Online} \cup (IF MayBeSuppressed(r) THEN {Suppressed} ELSE {})
              [] r.online = Suppressed -> (IF canExpire THEN {Online} ELSE {})
                                          \cup (IF MayBeSuppressed(r) \/ ~canExpire THEN {Suppressed} ELSE {})}

EvaluateSuppressed(v, canExpire) ==
    /\ threatenedByMe[v] # {}
    /\ mgr' \in Managers(LAMBDA o : Changed(mgr[o], {v}, LAMBDA r : Reevaluated(r, canExpire)))
    /\ UNCHANGED <<inWorld, combatVars, threatenedByMe>>

\* The taunt auras on o have changed: each caster on the list gets a state of its
\* own, a later one a higher.  Then o is evaluated, as the victim it is of others.
TauntUpdate(o) ==
    /\ \E taunt \in [ThreatList(o) -> 0..(1 + MaxTaunts)] :
        /\ \A v, w \in ThreatList(o) : taunt[v] = taunt[w] /\ taunt[v] >= Taunting => v = w
        /\ mgr' \in Managers(LAMBDA p :
                IF p = o THEN {[mgr[o] EXCEPT !.ref = [v \in ThreatList(o) |-> [@[v] EXCEPT !.taunt = taunt[v]]]]}
                ELSE Changed(mgr[p], {o}, LAMBDA r : Reevaluated(r, TRUE)))
    /\ UNCHANGED <<inWorld, combatVars, threatenedByMe>>

\* FixateTarget; a target that is not on the list, like none, clears the fixation.
FixateTarget(o, v) ==
    /\ mgr' = [mgr EXCEPT ![o].fixate = IF v \in ThreatList(o) THEN v ELSE None]
    /\ UNCHANGED <<inWorld, combatVars, threatenedByMe>>

\* Update and GetCurrentVictim.
Update_Victim(o) ==
    /\ ThreatList(o) # {}
    /\ \E m \in UpdateVictim(mgr[o]) : mgr' = [mgr EXCEPT ![o] = m]
    /\ UNCHANGED <<inWorld, combatVars, threatenedByMe>>

-----------------------------------------------------------------------------
(* Calls that end combat or threat                                         *)

\* ClearThreat of one victim.
ClearThreat_(o, v) ==
    /\ v \in ThreatList(o)
    /\ RemoveThreat({<<o, v>>})
    /\ UNCHANGED <<inWorld, combatVars>>

ClearAllThreat(o) ==
    /\ ThreatList(o) # {}
    /\ RemoveThreat({o} \X ThreatList(o))
    /\ UNCHANGED <<inWorld, combatVars>>

\* Mutant: only the threat on the list of u goes with its combat.
EndCombatOneSided(u, V) ==
    /\ RemoveThreat({u} \X V)
    /\ PurgeReferences(u, V, {})

\* EndCombat of the references of u with the units of V.
EndCombat(u, V) ==
    /\ RemoveThreat(({u} \X V) \cup (V \X {u}))
    /\ PurgeReferences(u, V, {})

\* EndCombatBeyondRange, RevalidateCombat, EndAllPvPCombat and the losers of an
\* immunity: any of the references may be the ones that end.
EndCombatWith(u, V) ==
    /\ V # {} /\ \A v \in V : IsInCombatWith(u, v)
    /\ EndCombat(u, V)
    /\ UNCHANGED inWorld

\* CombatManager::Update: the timers of the references in which u is first.
Update_Timers(u, V) ==
    /\ V # {} /\ \A v \in V :
        /\ IsInCombatWith(u, v) /\ <<u, v>> \in first
        /\ v \in pvpRefs[u] \/ <<u, v>> \notin suppressed
    /\ EndCombat(u, V)
    /\ UNCHANGED inWorld

SuppressFor(u, v) ==
    /\ IsInCombatWith(u, v)
    /\ PurgeReferences(u, {}, {v})
    /\ UNCHANGED <<inWorld, threatVars>>

SuppressPvPCombat(u) ==
    /\ pvpRefs[u] # {}
    /\ PurgeReferences(u, {}, pvpRefs[u])
    /\ UNCHANGED <<inWorld, threatVars>>

\* All threat of u, on its own list and on those of the others.
AllThreat(u) == ({u} \X ThreatList(u)) \cup (threatenedByMe[u] \X {u})

\* EndAllPvECombat removes the threat of opponents in PvP as well.
CombatStop(u, mutualPvP) ==
    /\ pveRefs[u] \cup pvpRefs[u] # {}
    /\ RemoveThreat(AllThreat(u))
    /\ IF mutualPvP THEN PurgeReferences(u, pveRefs[u] \cup pvpRefs[u], {})
                     ELSE PurgeReferences(u, pveRefs[u], pvpRefs[u])
    /\ UNCHANGED inWorld

\* CleanupBeforeRemoveFromMap and RemovePlayerFromMap.
RemoveFromWorld(u) ==
    /\ u \in inWorld
    /\ inWorld' = inWorld \ {u}
    /\ RemoveThreat(AllThreat(u))
    /\ PurgeReferences(u, pveRefs[u] \cup pvpRefs[u], {})

Next ==
    \/ \E u \in Units :
        \/ AddToWorld(u) \/ RemoveFromWorld(u)
        \/ SuppressPvPCombat(u)
        \/ \E b \in BOOLEAN : CombatStop(u, b) \/ EvaluateSuppressed(u, b)
        \/ \E v \in Units \ {u} : SuppressFor(u, v) \/ \E b \in BOOLEAN : SetInCombatWith(u, v, b)
        \/ \E V \in SUBSET Units : EndCombatWith(u, V) \/ Update_Timers(u, V)
    \/ \E o \in ThreatOwners :
        \/ TauntUpdate(o) \/ Update_Victim(o) \/ ClearAllThreat(o)
        \/ \E v \in Units \ {o} : AddThreat(o, v) \/ ClearThreat_(o, v)
        \/ \E v \in Units : FixateTarget(o, v)
        \/ \E V \in SUBSET Units : ScaleThreat(o, V)

Spec == Init /\ [][Next]_vars

-----------------------------------------------------------------------------
(* Properties                                                              *)

\* A unit has the flag IN_COMBAT exactly if it has a reference that is not
\* suppressed for it ("No exceptions", CombatManager.h).
FlagMatchesReferences == \A u \in Units : u \in inCombat <=> HasCombat(u)

\* A combat reference is kept by both units, in the map of its kind and in no
\* other; the units differ and are in the world, and exactly one is first.
ReferencesMutual ==
    \A u, v \in Units :
        /\ (v \in pveRefs[u] <=> u \in pveRefs[v]) /\ (v \in pvpRefs[u] <=> u \in pvpRefs[v])
        /\ pveRefs[u] \cap pvpRefs[u] = {}
        /\ IsInCombatWith(u, v) =>
              u # v /\ {u, v} \subseteq inWorld /\ (<<u, v>> \in first <=> <<v, u>> \notin first)
        /\ <<u, v>> \in first \cup suppressed => IsInCombatWith(u, v)

\* Threat implies combat, and owner and victim both know of it: a threat
\* reference is in the list of its owner, in the threatened-by-me list of its
\* victim, and there is a combat reference between them (ThreatManager.h).
ThreatImpliesCombat ==
    \A o \in ThreatOwners, v \in Units :
        /\ v \in ThreatList(o) <=> o \in threatenedByMe[v]
        /\ v \in ThreatList(o) => IsInCombatWith(o, v)

\* The current and the fixated victim are on the list, never a freed reference,
\* the current one is available (ASSERT in GetCurrentVictim), and there is one
\* as long as anybody on the list is available.
VictimAvailable ==
    \A o \in ThreatOwners :
        LET m == mgr[o] IN
        /\ m.fixate # None => m.fixate \in DOMAIN m.ref
        /\ IF m.currentVictim = None THEN \A v \in DOMAIN m.ref : ~IsAvailable(m.ref[v])
           ELSE m.currentVictim \in DOMAIN m.ref /\ IsAvailable(m.ref[m.currentVictim])

\* A creature leaves a victim it could still attack only for the one it is
\* fixated on, or for one that beats the old victim by more than a tenth.
NoIdleSwitch ==
    [][\A o \in ThreatOwners :
        LET old == mgr[o].currentVictim
            new == mgr'[o].currentVictim
            r == mgr'[o].ref
        IN  old # None /\ new # old /\ old \in DOMAIN r /\ IsAvailable(r[old]) =>
              new # None /\ (new = mgr'[o].fixate \/ CompareReferencesLT(r[old], r[new], 110))]_vars

\* A sample of references: the taunt states are varied for those online.
SomeReferences ==
    [online : {Offline, Suppressed}, taunt : {NotTaunting}, threat : SampleThreats]
    \cup [online : {Online}, taunt : {Detaunted, NotTaunting, Taunting}, threat : SampleThreats]

\* ReselectVictim follows the rule of 110 and 130 %, whoever is in melee range,
\* taunts, is detaunted, suppressed or offline.  This is about Reselect alone, for
\* every list; the initial state is where it is evaluated.
SelectionCorrect ==
    inWorld = {} =>
      \A V \in (SUBSET Units) \ {{}} :
        \A r \in [V -> SomeReferences], old \in V \cup {None}, melee \in SUBSET V :
            SelectionFollowsRule(r, old, melee, None)
=============================================================================
