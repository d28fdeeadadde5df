------------------------ MODULE MCDatabaseWorkerPool ------------------------
(* A pool with up to two asynchronous and two synchronous connections, and  *)
(* up to two clients, of which one may be a script.                         *)
EXTENDS DatabaseWorkerPool
CONSTANTS a1, a2, s1, s2, t1, t2, o1, o2, o3

TwoWorkers == {a1, a2}
OneWorker == {a1}
TwoSync == {s1, s2}
OneSync == {s1}
TwoClients == {t1, t2}
OneClient == {t1}
ThreeOperations == {o1, o2, o3}
OneOperation == {o1}
=============================================================================
