--------------------------- MODULE ThreatSelection ---------------------------
(***************************************************************************)
(* ThreatManager::ReselectVictim: whom a creature attacks next.            *)
(*                                                                         *)
(* A threat list is a function r from the victims on it to their threat    *)
(* references.  The heap of the code hands them out in the order of        *)
(* CompareReferencesLT, references that compare equal in any order, so     *)
(* what the code computes is a set of possible victims.                    *)
(***************************************************************************)
EXTENDS Naturals, Sequences, FiniteSets, FiniteSetsExt

Offline == 0
Suppressed == 1
Online == 2
Detaunted == 0
NotTaunting == 1
Taunting == 2       \* and above: the taunt of the last of several is the highest

IsAvailable(ref) == ref.online > Offline

\* a is lower on the threat list than b, with its threat weighted
CompareReferencesLT(a, b, percent) ==
    \/ a.online < b.online
    \/ a.online = b.online /\ a.taunt < b.taunt
    \/ a.online = b.online /\ a.taunt = b.taunt /\ a.threat * percent < b.threat * 100

\* The orders in which the heap may hand out its elements.
Ordered(r) ==
    {s \in [1..Cardinality(DOMAIN r) -> DOMAIN r] :
        /\ {s[i] : i \in DOMAIN s} = DOMAIN r
        /\ \A i, j \in DOMAIN s : i < j => ~CompareReferencesLT(r[s[i]], r[s[j]], 100)}

\* Mutant: the loop goes on below 110 %.
NextMeleeBelow(r, s, old, melee) ==
    s[Min({k \in DOMAIN s : s[k] = old \/ s[k] \in melee})]

\* The loop at the end of ReselectVictim, over the elements in the order s.
NextMelee(r, s, old, melee) ==
    LET above(v) == CompareReferencesLT(r[old], r[v], 110)
        i == Min({k \in DOMAIN s : s[k] = old \/ ~above(s[k]) \/ s[k] \in melee})
    IN  IF above(s[i]) THEN s[i] ELSE old

\* ReselectVictim without a fixated victim, on a list that is not empty; old is
\* the current victim or none, melee the victims in melee range.
Reselect(r, old, melee, none) ==
    UNION {
        LET highest == s[1]
            stays == old # none /\ IsAvailable(r[old])
        IN  IF ~IsAvailable(r[highest]) THEN {none}
            ELSE IF ~stays \/ highest = old THEN {highest}
            ELSE IF ~CompareReferencesLT(r[old], r[highest], 110) THEN {old}
            ELSE IF CompareReferencesLT(r[old], r[highest], 130) \/ highest \in melee THEN {highest}
            ELSE {NextMelee(r, s, old, melee)}
        : s \in Ordered(r)}

-----------------------------------------------------------------------------
(* What the selection is for                                               *)

\* The victims none of the others beats.
Highest(r, V) == {v \in V : \A w \in V : ~CompareReferencesLT(r[v], r[w], 100)}

\* The rule: whoever has 130 % of the threat of the old victim, or 110 % and is
\* in melee range, draws the attack; the highest of these gets it.  Without an
\* old victim that is still available, the highest of all does.
Deserving(r, old, melee, none) ==
    LET available == {v \in DOMAIN r : IsAvailable(r[v])}
        drawing == {v \in available : \/ CompareReferencesLT(r[old], r[v], 130)
                                      \/ v \in melee /\ CompareReferencesLT(r[old], r[v], 110)}
    IN  IF available = {} THEN {none}
        ELSE IF old \notin available THEN Highest(r, available)
        ELSE IF drawing = {} THEN {old} ELSE Highest(r, drawing)

\* What ReselectVictim picks, although it looks at no more of the heap than it
\* needs, is exactly what the rule allows.
SelectionFollowsRule(r, old, melee, none) ==
    Reselect(r, old, melee, none) = Deserving(r, old, melee, none)
=============================================================================
