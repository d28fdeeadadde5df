---------------------------- MODULE MCMapUpdater ----------------------------
(* MapUpdater with two workers, a plain map and a map with two instances.  *)
EXTENDS MapUpdater
CONSTANTS w1, w2, continent, dungeon, inst1, inst2

MCWorkers == {w1, w2}
MCBaseMaps == {continent, dungeon}
MCInstances == {inst1, inst2}
MCParentOf == [i \in MCInstances |-> dungeon]
=============================================================================
