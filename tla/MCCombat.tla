------------------------------ MODULE MCCombat ------------------------------
(***************************************************************************)
(* The instance of Combat for TLC: a creature, a charmed creature, which   *)
(* has a threat list and is controlled by a player, and a player.          *)
(***************************************************************************)
EXTENDS Combat, TLC

CONSTANTS creature, charmed, player

MCUnits == {creature, charmed, player}
MCPlayerControlled == {charmed, player}
MCThreatOwners == {creature, charmed}
MCThreats == {0, 1}
\* With 11, 12 and 14 against 10 a victim has exactly 110 %, between 110 and
\* 130 %, and more than both.
MCSampleThreats == {10, 11, 12, 14}

\* The owners for which the victims on the list are not all the same.
Discerning ==
    {o \in ThreatOwners :
        \/ mgr[o].fixate # None
        \/ \E v \in ThreatList(o) : mgr[o].ref[v].taunt # NotTaunting \/ mgr[o].ref[v].threat # 0}

\* Bounds: two threat references at a time, one when combat references are
\* suppressed; threat, taunts and a fixation on one list at a time, and then two
\* combat references and none of them suppressed.
WithinBounds ==
    LET threatening == {x \in ThreatOwners \X Units : x[2] \in ThreatList(x[1])}
        more == IF suppressed = {} THEN 0 ELSE 1
    IN  (/\ Cardinality(threatening) + more <= 2
         /\ Cardinality(Discerning) + more <= 1
         /\ Cardinality(Discerning) + Cardinality(first) <= 3)'

=============================================================================
