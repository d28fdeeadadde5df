------------------------- MODULE MapUpdaterProofs -------------------------
(***************************************************************************)
(* Proofs about MapUpdater for any number of workers, maps and updates.    *)
(*                                                                         *)
(* The argument rests on `Counted`: pending_requests is exactly the number *)
(* of requests that are queued or held by a worker.  MapManager::Update    *)
(* passes wait() only when the counter is 0, hence when there are none.    *)
(* The second invariant, `TurnInv`, follows the turn of each map through   *)
(* the loop, the queue and the workers: it is always in one place.         *)
(***************************************************************************)
EXTENDS MapUpdater, SequenceTheorems, FiniteSetTheorems, TLAPS

Held == {w \in Workers : Holding(w)}

\* The counter counts what is queued and what is being worked on.
Counted == pending = Len(queue) + Cardinality(Held)

\* Requests exist only between the start of the loop and the end of wait().
Barrier == world \notin {"schedule", "wait"} => pending = 0

\* What a worker's program counter says about its request and its thread.
WorkerState ==
    \A w \in Workers :
        /\ wpc[w] # "none" => w \in threads
        /\ wpc[w] \in {"none", "pop"} => request[w] = NoMap
        /\ wpc[w] \in {"update", "finish"} => request[w] # NoMap
        /\ wpc[w] = "check" /\ request[w] = NoMap => shutdown
        /\ wpc[w] # "crashed"

\* The order of deactivate(): token, wait, cancel.
ShutdownOrder ==
    /\ threads = {} => pending = 0
    /\ world = "start" => threads = {}
    /\ cancelToken => world \in {"deactivate", "cancel", "join", "done"}
    /\ world \in {"deactivate", "cancel", "join"} => cancelToken
    /\ shutdown => cancelToken

IInv == TypeOK /\ Counted /\ Barrier /\ WorkerState /\ ShutdownOrder

-----------------------------------------------------------------------------
\* The set of workers that hold a request is finite, so its size is a number.
LEMMA HeldFinite == IsFiniteSet(Held) /\ Cardinality(Held) \in Nat
  <1>1. Held \subseteq Workers
    BY DEF Held
  <1>2. IsFiniteSet(Held)
    BY <1>1, ThreadAssumption, FS_Subset
  <1> QED
    BY <1>2, FS_CardinalityType

\* When the counter is 0 the queue is empty and no worker holds a request.
LEMMA NothingPending ==
  ASSUME TypeOK, Counted, pending = 0
  PROVE  queue = <<>> /\ Held = {}
  <1>1. Len(queue) \in Nat /\ (Len(queue) = 0 => queue = <<>>)
    BY DEF TypeOK
  <1>2. Len(queue) = 0 /\ Cardinality(Held) = 0
    BY <1>1, HeldFinite DEF Counted
  <1> QED
    BY <1>1, <1>2, HeldFinite, FS_EmptySet

\* The constructor of MapUpdater establishes the invariant.
LEMMA InitInv == Init => IInv
  <1> SUFFICES ASSUME Init PROVE IInv
    OBVIOUS
  <1> USE DEF Init, QueueInit
  <1>1. TypeOK
    <2>1. shutdown \in BOOLEAN /\ worldBlocked \in BOOLEAN /\ cancelToken \in BOOLEAN
      BY Zenon
    <2>2. queue \in Seq(Maps) /\ waiting \subseteq Workers /\ toSchedule \subseteq BaseMaps
      OBVIOUS
    <2>3. world \in WorldPC /\ wpc \in [Workers -> WorkerPC]
      BY DEF WorldPC, WorkerPC
    <2>4. /\ request \in [Workers -> Maps \cup {NoMap}] /\ threads \subseteq Workers
          /\ toVisit \in [Workers -> SUBSET Instances] /\ loaded \subseteq Maps
      OBVIOUS
    <2>5. visits \in [Maps -> Nat] /\ pending \in Nat /\ ticks \in 0..MaxTicks
      BY TickAssumption
    <2> QED
      BY <2>1, <2>2, <2>3, <2>4, <2>5, Zenon DEF TypeOK
  <1>2. Counted
    <2>1. Held = {}
      BY DEF Held, Holding
    <2> QED
      BY <2>1, FS_EmptySet DEF Counted
  <1>3. Barrier /\ WorkerState /\ ShutdownOrder
    BY DEF Barrier, WorkerState, ShutdownOrder
  <1> QED
    BY <1>1, <1>2, <1>3 DEF IInv

\* A step that leaves queue, counter, workers and requests alone keeps the count.
LEMMA CountedUnchanged ==
  ASSUME Counted, UNCHANGED <<queue, pending, wpc, request>>
  PROVE  Counted'
  BY DEF Counted, Held, Holding

\* Typing of the queue operations.
LEMMA PushType ==
  ASSUME TypeOK, NEW m \in Maps, Push(m)
  PROVE  /\ queue' \in Seq(Maps) /\ Len(queue') = Len(queue) + 1
         /\ waiting' \subseteq Workers /\ shutdown' = shutdown
  BY DEF TypeOK, Push, NotifyOne

-----------------------------------------------------------------------------
(* The workers' steps.                                                      *)

\* WaitAndPop blocks or wakes up: only the wait set changes.
LEMMA BlockInv ==
  ASSUME IInv, NEW w \in Workers, Worker_Block(w) \/ Worker_Spurious(w)
  PROVE  IInv'
  <1> USE DEF IInv, Worker_Block, Worker_Spurious, WaitAndPop_Block, SpuriousWakeup,
              worldVars, workerVars
  <1>1. TypeOK'
    BY DEF TypeOK
  <1>2. Counted'
    BY CountedUnchanged
  <1> QED
    BY <1>1, <1>2 DEF Barrier, WorkerState, ShutdownOrder

\* A request moves from the queue to a worker.
LEMMA TakeInv ==
  ASSUME IInv, NEW w \in Workers, Worker_Take(w)
  PROVE  IInv'
  <1> USE DEF IInv, Worker_Take, WaitAndPop_Take, worldVars
  <1>1. Head(queue) \in Maps /\ Head(queue) # NoMap /\ Len(queue') = Len(queue) - 1
    BY MapAssumption DEF TypeOK
  <1>2. TypeOK'
    BY <1>1 DEF TypeOK, WorkerPC
  <1>3. w \notin Held /\ Held' = Held \cup {w}
    BY <1>1 DEF Held, Holding, WorkerState, TypeOK
  <1>4. Cardinality(Held') = Cardinality(Held) + 1
    BY <1>3, HeldFinite, FS_AddElement
  <1>5. Counted'
    BY <1>1, <1>4, HeldFinite DEF Counted, TypeOK
  <1>6. Barrier' /\ ShutdownOrder'
    BY DEF Barrier, ShutdownOrder
  <1>7. WorkerState'
    BY <1>1 DEF WorkerState, TypeOK
  <1> QED
    BY <1>2, <1>5, <1>6, <1>7

\* WaitAndPop returns without a value.
LEMMA EmptyInv ==
  ASSUME IInv, NEW w \in Workers, Worker_Empty(w)
  PROVE  IInv'
  <1> USE DEF IInv, Worker_Empty, WaitAndPop_Return, worldVars, queueVars
  <1>1. TypeOK'
    BY DEF TypeOK, WorkerPC
  <1>2. Held' = Held
    BY DEF Held, Holding, WorkerState, TypeOK
  <1>3. Counted'
    BY <1>2 DEF Counted
  <1>4. Barrier' /\ ShutdownOrder'
    BY DEF Barrier, ShutdownOrder
  <1>5. WorkerState'
    BY DEF WorkerState, TypeOK
  <1> QED
    BY <1>1, <1>3, <1>4, <1>5

\* The token is tested: when it is set nothing is pending any more, and when
\* it is not the request cannot be null.
LEMMA CheckInv ==
  ASSUME IInv, NEW w \in Workers, Worker_Check(w)
  PROVE  IInv'
  <1> USE DEF IInv, Worker_Check, worldVars, queueVars
  <1>1. ~(~cancelToken /\ request[w] = NoMap)
    BY DEF WorkerState, ShutdownOrder
  <1>2. CASE cancelToken
    <2>1. Held = {}
      BY <1>2, NothingPending DEF Barrier, ShutdownOrder
    <2>2. Held' = {}
      BY <1>2, <2>1 DEF Held, Holding, TypeOK
    <2>3. TypeOK'
      BY <1>2 DEF TypeOK, WorkerPC
    <2>4. Counted'
      BY <2>1, <2>2 DEF Counted
    <2>5. Barrier' /\ ShutdownOrder'
      BY DEF Barrier, ShutdownOrder
    <2>6. WorkerState'
      BY <1>2 DEF WorkerState, TypeOK
    <2> QED
      BY <2>3, <2>4, <2>5, <2>6
  <1>3. CASE ~cancelToken /\ request[w] # NoMap
    <2>1. request[w] \in Maps
      BY <1>3 DEF TypeOK
    <2>2. /\ wpc' = [wpc EXCEPT ![w] = "update"]
          /\ visits' = [visits EXCEPT ![request[w]] = @ + 1]
          /\ toVisit' = [toVisit EXCEPT ![w] = InstancesOf(request[w])]
      BY <1>3
    <2>3. TypeOK'
      <3>1. InstancesOf(request[w]) \in SUBSET Instances
        BY DEF InstancesOf
      <3>2. /\ visits' \in [Maps -> Nat] /\ wpc' \in [Workers -> WorkerPC]
            /\ toVisit' \in [Workers -> SUBSET Instances]
        BY <2>1, <2>2, <3>1 DEF TypeOK, WorkerPC
      <3> QED
        BY <3>2 DEF TypeOK
    <2>4. Held' = Held
      BY <1>3, <2>2 DEF Held, Holding, TypeOK
    <2>5. Counted'
      BY <2>4 DEF Counted
    <2>6. Barrier' /\ ShutdownOrder'
      BY DEF Barrier, ShutdownOrder
    <2>7. WorkerState'
      BY <1>3, <2>2 DEF WorkerState, TypeOK
    <2> QED
      BY <2>3, <2>5, <2>6, <2>7
  <1> QED
    BY <1>1, <1>2, <1>3

\* MapInstanced::Update schedules an instance, or unloads it.
LEMMA VisitInv ==
  ASSUME IInv, NEW w \in Workers, NEW i \in Instances, Worker_VisitInstance(w, i)
  PROVE  IInv'
  <1> USE DEF IInv, Worker_VisitInstance, worldVars
  <1>1. i \in Maps /\ Held' = Held
    BY DEF Maps, Held, Holding
  <1>2. w \in threads /\ world \in {"schedule", "wait"}
    <2>1. w \in Held /\ w \in threads
      BY DEF Held, Holding, WorkerState
    <2>2. pending # 0
      BY <2>1, NothingPending
    <2> QED
      BY <2>1, <2>2 DEF Barrier
  <1>3. CASE schedule_update(i) /\ UNCHANGED <<loaded, visits>>
    <2>1. /\ queue' \in Seq(Maps) /\ Len(queue') = Len(queue) + 1
          /\ waiting' \subseteq Workers /\ shutdown' = shutdown
      BY <1>1, <1>3, PushType DEF schedule_update
    <2>2. pending' = pending + 1
      BY <1>3 DEF schedule_update
    <2>3. TypeOK'
      BY <2>1, <2>2, <1>3 DEF TypeOK
    <2>4. Counted'
      BY <2>1, <2>2, <1>1, HeldFinite DEF Counted, TypeOK
    <2> QED
      BY <2>1, <2>2, <2>3, <2>4, <1>2 DEF Barrier, WorkerState, ShutdownOrder
  <1>4. CASE /\ loaded' \in {loaded, loaded \ {i}}
             /\ visits' = [visits EXCEPT ![i] = @ + 1]
             /\ UNCHANGED <<queueVars, pending>>
    <2>1. TypeOK'
      BY <1>1, <1>4 DEF TypeOK, queueVars
    <2>2. Counted'
      BY <1>1, <1>4 DEF Counted, queueVars
    <2> QED
      BY <2>1, <2>2, <1>4, <1>2 DEF Barrier, WorkerState, ShutdownOrder, queueVars
  <1> QED
    BY <1>3, <1>4

\* Map::Update returns.
LEMMA UpdatedInv ==
  ASSUME IInv, NEW w \in Workers, Worker_Updated(w)
  PROVE  IInv'
  <1> USE DEF IInv, Worker_Updated, worldVars, queueVars
  <1>1. TypeOK'
    BY DEF TypeOK, WorkerPC
  <1>2. Held' = Held
    BY DEF Held, Holding, TypeOK
  <1>3. Counted'
    BY <1>2 DEF Counted
  <1>4. Barrier' /\ ShutdownOrder'
    BY DEF Barrier, ShutdownOrder
  <1>5. WorkerState'
    BY DEF WorkerState, TypeOK
  <1> QED
    BY <1>1, <1>3, <1>4, <1>5

\* A request is done and no longer counted.
LEMMA FinishedInv ==
  ASSUME IInv, NEW w \in Workers, update_finished(w)
  PROVE  IInv'
  <1> USE DEF IInv, update_finished, queueVars
  <1>1. w \in Held /\ Held' = Held \ {w}
    BY DEF Held, Holding, WorkerState, TypeOK
  <1>2. Cardinality(Held') = Cardinality(Held) - 1 /\ Cardinality(Held') \in Nat
    <2>1. IsFiniteSet(Held')
      BY <1>1, HeldFinite, FS_RemoveElement
    <2> QED
      BY <1>1, <2>1, HeldFinite, FS_RemoveElement, FS_CardinalityType
  <1>3. pending - 1 = Len(queue) + Cardinality(Held') /\ pending - 1 \in Nat
    BY <1>2, HeldFinite DEF Counted, TypeOK
  <1>4. worldBlocked' \in BOOLEAN
    BY Zenon
  <1>5. TypeOK'
    BY <1>3, <1>4 DEF TypeOK, WorkerPC
  <1>6. Counted'
    BY <1>3 DEF Counted
  <1>7. Barrier' /\ ShutdownOrder'
    BY <1>3 DEF Barrier, ShutdownOrder, TypeOK
  <1>8. WorkerState'
    BY DEF WorkerState, TypeOK
  <1> QED
    BY <1>5, <1>6, <1>7, <1>8

-----------------------------------------------------------------------------
(* The world thread's steps.                                                *)

\* Steps of the world thread that touch neither requests nor workers.
LEMMA WorldInv ==
  ASSUME IInv,
         \/ wait_Spurious \/ Update_Start \/ DelayedUpdate \/ UnloadAll
         \/ deactivate_Join \/ Terminated
         \/ \E m \in Maps : CreateMap(m)
         \/ \E m \in BaseMaps : Update_Inline(m)
  PROVE  IInv'
  <1> USE DEF IInv, queueVars, worldVars, workerVars
  <1>1. CASE wait_Spurious
    <2> USE <1>1 DEF wait_Spurious
    <2>1. worldBlocked' \in BOOLEAN
      BY Zenon
    <2>2. TypeOK' /\ Counted'
      BY <2>1, CountedUnchanged DEF TypeOK
    <2> QED
      BY <2>2 DEF Barrier, WorkerState, ShutdownOrder
  <1>2. CASE Update_Start
    <2> USE <1>2 DEF Update_Start
    <2>1. ticks' \in 0..MaxTicks /\ visits' \in [Maps -> Nat] /\ toSchedule' \subseteq BaseMaps
      BY TickAssumption DEF TypeOK
    <2>2. TypeOK' /\ Counted'
      BY <2>1, CountedUnchanged DEF TypeOK, WorldPC
    <2> QED
      BY <2>2 DEF Barrier, WorkerState, ShutdownOrder
  <1>3. CASE DelayedUpdate \/ UnloadAll \/ deactivate_Join
    <2> USE <1>3 DEF DelayedUpdate, UnloadAll, deactivate_Join
    <2>1. TypeOK' /\ Counted'
      BY CountedUnchanged DEF TypeOK, WorldPC
    <2> QED
      BY <2>1 DEF Barrier, WorkerState, ShutdownOrder
  <1>4. CASE Terminated
    <2>1. UNCHANGED vars
      BY <1>4 DEF Terminated
    <2>2. TypeOK' /\ Counted'
      BY <2>1, CountedUnchanged DEF TypeOK, vars
    <2> QED
      BY <2>1, <2>2 DEF Barrier, WorkerState, ShutdownOrder, vars
  <1>5. ASSUME NEW m \in Maps, CreateMap(m)
        PROVE  IInv'
    <2> USE <1>5 DEF CreateMap
    <2>1. loaded' \subseteq Maps
      BY MapAssumption DEF TypeOK, Maps
    <2>2. TypeOK' /\ Counted'
      BY <2>1, CountedUnchanged DEF TypeOK
    <2> QED
      BY <2>2 DEF Barrier, WorkerState, ShutdownOrder
  <1>6. ASSUME NEW m \in BaseMaps, Update_Inline(m)
        PROVE  IInv'
    <2> USE <1>6 DEF Update_Inline
    <2>1. loaded' \subseteq Maps /\ visits' \in [Maps -> Nat]
      BY DEF TypeOK
    <2>2. TypeOK' /\ Counted'
      BY <2>1, CountedUnchanged DEF TypeOK
    <2> QED
      BY <2>2 DEF Barrier, WorkerState, ShutdownOrder
  <1> QED
    BY <1>1, <1>2, <1>3, <1>4, <1>5, <1>6

\* activate() starts the threads; nothing is pending yet.
LEMMA InitializeInv ==
  ASSUME IInv, NEW ts \in SUBSET Workers, Initialize(ts)
  PROVE  IInv'
  <1> USE DEF IInv, Initialize, queueVars
  <1>1. TypeOK'
    BY DEF TypeOK, WorldPC, WorkerPC
  <1>2. pending = 0 /\ queue = <<>> /\ Held = {}
    BY NothingPending DEF Barrier
  <1>3. Held' = {}
    BY DEF Held, Holding
  <1>4. Counted'
    BY <1>2, <1>3, FS_EmptySet DEF Counted
  <1>5. Barrier' /\ ShutdownOrder'
    BY <1>2 DEF Barrier, ShutdownOrder
  <1>6. WorkerState'
    BY DEF WorkerState, TypeOK, ShutdownOrder
  <1> QED
    BY <1>1, <1>4, <1>5, <1>6

\* MapManager::Update schedules a map.
LEMMA ScheduleInv ==
  ASSUME IInv, NEW m \in BaseMaps, Update_Schedule(m)
  PROVE  IInv'
  <1> USE DEF IInv, Update_Schedule, workerVars
  <1>1. /\ queue' \in Seq(Maps) /\ Len(queue') = Len(queue) + 1
        /\ waiting' \subseteq Workers /\ shutdown' = shutdown
    BY PushType DEF schedule_update, Maps
  <1>2. pending' = pending + 1 /\ threads # {}
    BY DEF schedule_update, activated
  <1>3. TypeOK'
    BY <1>1, <1>2 DEF TypeOK
  <1>4. Counted'
    <2>1. Held' = Held
      BY DEF Held, Holding
    <2> QED
      BY <1>1, <1>2, <2>1, HeldFinite DEF Counted, TypeOK
  <1> QED
    BY <1>1, <1>2, <1>3, <1>4 DEF Barrier, WorkerState, ShutdownOrder

\* The loop over the maps ends: without workers nothing was ever scheduled.
LEMMA ScheduledInv ==
  ASSUME IInv, Update_Scheduled
  PROVE  IInv'
  <1> USE DEF IInv, Update_Scheduled, queueVars, workerVars
  <1>1. TypeOK' /\ Counted'
    BY CountedUnchanged DEF TypeOK, WorldPC
  <1> QED
    BY <1>1 DEF Barrier, WorkerState, ShutdownOrder, activated

\* wait(): the thread blocks, or goes on because the counter is 0.
LEMMA WaitInv ==
  ASSUME IInv, World_Wait
  PROVE  IInv'
  <1> USE DEF IInv, World_Wait, queueVars, workerVars
  <1>1. CASE wait_Block /\ UNCHANGED world
    <2>1. worldBlocked' \in BOOLEAN
      BY <1>1, Zenon DEF wait_Block
    <2>2. TypeOK' /\ Counted'
      BY <1>1, <2>1, CountedUnchanged DEF TypeOK
    <2> QED
      BY <1>1, <2>2 DEF Barrier, WorkerState, ShutdownOrder
  <1>2. CASE /\ wait_Return
             /\ world' = IF world = "wait" THEN "delayed" ELSE "cancel"
             /\ UNCHANGED worldBlocked
    <2>1. TypeOK' /\ Counted'
      BY <1>2, CountedUnchanged DEF TypeOK, WorldPC
    <2> QED
      BY <1>2, <2>1 DEF Barrier, WorkerState, ShutdownOrder, wait_Return
  <1> QED
    BY <1>1, <1>2

\* deactivate(): the token, and after the wait the cancellation of a queue
\* that is empty by then.
LEMMA DeactivateInv ==
  ASSUME IInv, deactivate_Token \/ deactivate_Cancel
  PROVE  IInv'
  <1> USE DEF IInv, queueVars, workerVars
  <1>1. CASE deactivate_Token
    <2> USE <1>1 DEF deactivate_Token
    <2>1. cancelToken' \in BOOLEAN
      BY Zenon DEF TypeOK
    <2>2. TypeOK' /\ Counted'
      BY <2>1, CountedUnchanged DEF TypeOK, WorldPC
    <2>3. Barrier' /\ WorkerState'
      BY DEF Barrier, WorkerState
    <2>4. ShutdownOrder'
      BY DEF ShutdownOrder
    <2> QED
      BY <2>2, <2>3, <2>4
  <1>2. CASE deactivate_Cancel
    <2> USE <1>2 DEF deactivate_Cancel, Cancel
    <2>1. shutdown' \in BOOLEAN
      BY Zenon
    <2>2. queue = <<>> /\ UNCHANGED queue
      BY NothingPending DEF Barrier
    <2>3. TypeOK' /\ Counted'
      BY <2>1, <2>2, CountedUnchanged DEF TypeOK, WorldPC
    <2>4. Barrier' /\ WorkerState' /\ ShutdownOrder'
      BY DEF Barrier, WorkerState, ShutdownOrder
    <2> QED
      BY <2>3, <2>4
  <1> QED
    BY <1>1, <1>2

-----------------------------------------------------------------------------
\* Every step of every thread keeps the invariant.
LEMMA NextInv == IInv /\ [Next]_vars => IInv'
  <1> SUFFICES ASSUME IInv, [Next]_vars PROVE IInv'
    OBVIOUS
  <1>1. CASE UNCHANGED vars
    <2> USE <1>1 DEF IInv, vars, queueVars, worldVars, workerVars
    <2>1. TypeOK' /\ Counted'
      BY CountedUnchanged DEF TypeOK
    <2> QED
      BY <2>1 DEF Barrier, WorkerState, ShutdownOrder
  <1>2. ASSUME NEW w \in Workers, WorkerStep(w) \/ Worker_Spurious(w)
        PROVE  IInv'
    BY <1>2, BlockInv, TakeInv, EmptyInv, CheckInv, VisitInv, UpdatedInv, FinishedInv
    DEF WorkerStep
  <1>3. CASE WorldStep
    BY <1>3, WorldInv, ScheduleInv, ScheduledInv, WaitInv, DeactivateInv DEF WorldStep
  <1>4. CASE Next
    BY <1>2, <1>3, <1>4, WorldInv, InitializeInv DEF Next
  <1> QED
    BY <1>1, <1>4

\* The inductive invariant holds in every reachable state.
THEOREM Invariance == Spec => []IInv
  BY InitInv, NextInv, PTL DEF Spec

\* Type correctness of the whole machine; in particular the unsigned counter
\* pending_requests never goes below zero in update_finished.
THEOREM TypeCorrect == Spec => []TypeOK
  <1>1. IInv => TypeOK
    BY DEF IInv
  <1> QED
    BY Invariance, <1>1, PTL

\* The barrier of MapManager::Update: while the world thread owns the maps,
\* no request is queued and no worker holds one.
THEOREM Exclusion == Spec => []WorldExclusive
  <1>1. IInv => WorldExclusive
    <2> SUFFICES ASSUME IInv, WorldOwnsMaps PROVE queue = <<>> /\ \A w \in Workers : ~Holding(w)
      BY DEF WorldExclusive
    <2>1. pending = 0
      BY DEF IInv, Barrier, WorldOwnsMaps
    <2>2. queue = <<>> /\ Held = {}
      BY <2>1, NothingPending DEF IInv
    <2> QED
      BY <2>2 DEF Held
  <1> QED
    BY Invariance, <1>1, PTL

\* No worker ever calls through a null request, also during deactivate().
THEOREM NoNullCall == Spec => []NoNullRequest
  <1>1. IInv => NoNullRequest
    BY DEF IInv, WorkerState, NoNullRequest
  <1> QED
    BY Invariance, <1>1, PTL

-----------------------------------------------------------------------------
(* The turns: every map is updated once in an update, and exists until then. *)

\* Where the turn of a map is recorded until it is updated: in the loop of
\* MapManager::Update, in the queue, or with a worker that has popped its request
\* or comes to it in MapInstanced::Update.
Has(w, m) == (wpc[w] = "check" /\ request[w] = m) \/ m \in toVisit[w]

Awaited(m) == m \in toSchedule \/ m \in Range(queue) \/ \E w \in Workers : Has(w, m)

\* It is recorded in one place only.
InOnePlace(m) ==
    /\ ~(m \in toSchedule /\ m \in Range(queue))
    /\ \A w \in Workers : Has(w, m) =>
        /\ m \notin toSchedule /\ m \notin Range(queue)
        /\ \A v \in Workers : Has(v, m) => v = w

\* A base map has a turn in every update, an instance once its MapInstanced had
\* its own.
Due(m) == m \in Instances => visits[ParentOf[m]] = 1

OneTurn(m) ==
    /\ InOnePlace(m)
    /\ visits[m] \in {0, 1}
    /\ IF Due(m) THEN visits[m] = 0 <=> Awaited(m) ELSE visits[m] = 0 /\ ~Awaited(m)

Turns == world \in {"schedule", "wait", "delayed"} => \A m \in loaded : OneTurn(m)

\* What the threads still have to update exists.
Alive ==
    /\ \A m \in Maps : Awaited(m) => m \in loaded
    /\ \A w \in Workers : wpc[w] \in {"update", "finish"} => request[w] \in loaded /\ visits[request[w]] = 1
    /\ \A i \in Instances \cap loaded : ParentOf[i] \in loaded

Places ==
    /\ world # "schedule" => toSchedule = {}
    /\ \A w \in Workers : toVisit[w] # {} => wpc[w] = "update"
    /\ \A j, k \in 1..Len(queue) : queue[j] = queue[k] => j = k

TurnInv == Turns /\ Alive /\ Places

\* Without pending requests no worker has anything to do with a map.
LEMMA NothingAwaited ==
  ASSUME IInv, Places, pending = 0
  PROVE  /\ queue = <<>> /\ Range(queue) = {}
         /\ \A w \in Workers : wpc[w] \notin {"update", "finish"} /\ toVisit[w] = {}
         /\ \A w \in Workers : \A m \in Maps : ~Has(w, m)
  <1>1. queue = <<>> /\ Held = {}
    BY NothingPending DEF IInv
  <1>2. \A w \in Workers : ~Holding(w)
    BY <1>1 DEF Held
  <1>3. \A w \in Workers : wpc[w] \notin {"update", "finish"}
    BY <1>2 DEF Holding, IInv, WorkerState
  <1>4. \A w \in Workers : toVisit[w] = {}
    BY <1>3 DEF Places
  <1>5. \A w \in Workers : \A m \in Maps : ~Has(w, m)
    BY <1>2, <1>4, MapAssumption DEF Has, Holding
  <1>6. Range(queue) = {}
    BY <1>1 DEF Range
  <1>7. QED
    BY <1>1, <1>3, <1>4, <1>5, <1>6

\* A map whose turn a step does not touch.
LEMMA SameTurn ==
  ASSUME NEW m \in Maps, OneTurn(m), m \in toSchedule' <=> m \in toSchedule,
         m \in Range(queue') <=> m \in Range(queue),
         \A w \in Workers : Has(w, m)' <=> Has(w, m),
         visits'[m] = visits[m], m \in Instances => visits'[ParentOf[m]] = visits[ParentOf[m]]
  PROVE  OneTurn(m)'
  <1>1. InOnePlace(m)'
    BY DEF OneTurn, InOnePlace
  <1>2. Awaited(m)' <=> Awaited(m)
    BY DEF Awaited
  <1>3. Due(m)' <=> Due(m)
    BY DEF Due
  <1>4. QED
    BY <1>1, <1>2, <1>3 DEF OneTurn

\* A step that gives no map a turn and takes none away.
LEMMA TurnsKept ==
  ASSUME TypeOK, TurnInv, UNCHANGED <<queue, toSchedule, toVisit, visits, loaded>>,
         \A w \in Workers : \A m \in Maps :
             wpc'[w] = "check" /\ request'[w] = m <=> wpc[w] = "check" /\ request[w] = m,
         \A w \in Workers : wpc'[w] \in {"update", "finish"} =>
             wpc[w] \in {"update", "finish"} /\ request'[w] = request[w],
         \A w \in Workers : toVisit[w] # {} => wpc'[w] = "update",
         world' \in {"schedule", "wait", "delayed"} => world \in {"schedule", "wait", "delayed"},
         world' # "schedule" => toSchedule = {}
  PROVE  TurnInv'
  <1>1. \A w \in Workers : \A m \in Maps : Has(w, m)' <=> Has(w, m)
    BY DEF Has
  <1>2. \A m \in Maps : Awaited(m)' <=> Awaited(m)
    BY <1>1 DEF Awaited
  <1>3. Turns'
    <2> SUFFICES ASSUME world' \in {"schedule", "wait", "delayed"}, NEW m \in loaded' PROVE OneTurn(m)'
      BY DEF Turns
    <2>1. m \in Maps /\ OneTurn(m)
      BY DEF TypeOK, TurnInv, Turns
    <2>2. QED
      BY <1>1, <2>1, SameTurn
  <1>4. Alive'
    BY <1>2 DEF TurnInv, Alive
  <1>5. Places'
    BY DEF TurnInv, Places
  <1>6. QED
    BY <1>3, <1>4, <1>5 DEF TurnInv

\* Steps of a worker that start no update and give no turn away.
LEMMA TurnsIdle ==
  ASSUME IInv, TurnInv, NEW w \in Workers,
         \/ Worker_Block(w) \/ Worker_Empty(w) \/ Worker_Updated(w) \/ update_finished(w) \/ Worker_Spurious(w)
         \/ Worker_Check(w) /\ (cancelToken \/ request[w] = NoMap)
  PROVE  TurnInv'
  <1>1. TypeOK /\ Places
    BY DEF IInv, TurnInv
  <1>2. \A m \in Maps : m # NoMap
    BY MapAssumption
  <1>3. UNCHANGED <<world, queue, toSchedule, toVisit, visits, loaded>>
    BY DEF Worker_Block, Worker_Empty, Worker_Updated, update_finished, Worker_Spurious, Worker_Check,
       WaitAndPop_Block, WaitAndPop_Return, SpuriousWakeup, worldVars, workerVars, queueVars
  <1>4. world' # "schedule" => toSchedule = {}
    BY <1>1, <1>3 DEF Places
  <1>5. CASE Worker_Block(w) \/ Worker_Spurious(w)
    BY <1>1, <1>3, <1>4, <1>5, TurnsKept DEF Worker_Block, Worker_Spurious, workerVars, Places
  <1>6. CASE Worker_Empty(w)
    <2>1. wpc' = [wpc EXCEPT ![w] = "check"] /\ request' = request /\ wpc[w] = "pop" /\ request[w] = NoMap
      BY <1>6 DEF Worker_Empty, IInv, WorkerState
    <2>2. /\ \A v \in Workers : \A m \in Maps :
               wpc'[v] = "check" /\ request'[v] = m <=> wpc[v] = "check" /\ request[v] = m
          /\ \A v \in Workers : wpc'[v] \in {"update", "finish"} => wpc[v] \in {"update", "finish"}
          /\ \A v \in Workers : toVisit[v] # {} => wpc'[v] = "update"
      BY <1>1, <1>2, <2>1 DEF TypeOK, Places
    <2>3. QED
      BY <1>1, <1>3, <1>4, <2>1, <2>2, TurnsKept
  <1>7. CASE Worker_Updated(w)
    <2>1. wpc' = [wpc EXCEPT ![w] = "finish"] /\ request' = request /\ wpc[w] = "update" /\ toVisit[w] = {}
      BY <1>7 DEF Worker_Updated
    <2>2. /\ \A v \in Workers : \A m \in Maps :
               wpc'[v] = "check" /\ request'[v] = m <=> wpc[v] = "check" /\ request[v] = m
          /\ \A v \in Workers : wpc'[v] \in {"update", "finish"} => wpc[v] \in {"update", "finish"}
          /\ \A v \in Workers : toVisit[v] # {} => wpc'[v] = "update"
      BY <1>1, <1>2, <2>1 DEF TypeOK, Places
    <2>3. QED
      BY <1>1, <1>3, <1>4, <2>1, <2>2, TurnsKept
  <1>8. CASE update_finished(w)
    <2>1. /\ wpc' = [wpc EXCEPT ![w] = "pop"] /\ request' = [request EXCEPT ![w] = NoMap] /\ wpc[w] = "finish"
      BY <1>8 DEF update_finished
    <2>2. /\ \A v \in Workers : \A m \in Maps :
               wpc'[v] = "check" /\ request'[v] = m <=> wpc[v] = "check" /\ request[v] = m
          /\ \A v \in Workers : wpc'[v] \in {"update", "finish"} =>
               wpc[v] \in {"update", "finish"} /\ request'[v] = request[v]
          /\ \A v \in Workers : toVisit[v] # {} => wpc'[v] = "update"
      BY <1>1, <1>2, <2>1 DEF TypeOK, Places
    <2>3. QED
      BY <1>1, <1>3, <1>4, <2>2, TurnsKept
  <1>9. CASE Worker_Check(w) /\ (cancelToken \/ request[w] = NoMap)
    <2>1. \E p \in {"exited", "crashed"} : wpc' = [wpc EXCEPT ![w] = p]
      BY <1>9 DEF Worker_Check
    <2>2. request' = request /\ wpc[w] = "check"
      BY <1>9 DEF Worker_Check
    <2>3. request[w] \notin Maps
      <3>1. CASE request[w] = NoMap
        BY <1>2, <3>1
      <3>2. CASE cancelToken
        <4>1. pending = 0
          BY <3>2 DEF IInv, ShutdownOrder, Barrier
        <4>2. QED
          BY <1>1, <2>2, <4>1, NothingAwaited DEF Has
      <3>3. QED
        BY <1>9, <3>1, <3>2
    <2>4. /\ \A v \in Workers : \A m \in Maps :
               wpc'[v] = "check" /\ request'[v] = m <=> wpc[v] = "check" /\ request[v] = m
          /\ \A v \in Workers : wpc'[v] \in {"update", "finish"} => wpc[v] \in {"update", "finish"}
          /\ \A v \in Workers : toVisit[v] # {} => wpc'[v] = "update"
      BY <1>1, <2>1, <2>2, <2>3 DEF TypeOK, Places
    <2>5. QED
      BY <1>1, <1>3, <1>4, <2>2, <2>4, TurnsKept
  <1>10. QED
    BY <1>5, <1>6, <1>7, <1>8, <1>9

\* Steps of the world thread that touch no turn.
LEMMA TurnsWorld ==
  ASSUME IInv, TurnInv,
         \/ \E ts \in SUBSET Workers : Initialize(ts)
         \/ Update_Scheduled \/ World_Wait \/ DelayedUpdate \/ wait_Spurious
         \/ deactivate_Token \/ deactivate_Cancel \/ deactivate_Join \/ Terminated
  PROVE  TurnInv'
  <1>1. TypeOK /\ Places
    BY DEF IInv, TurnInv
  <1>2. UNCHANGED <<queue, toSchedule, toVisit, visits, loaded, request>>
    <2>1. CASE deactivate_Cancel
      <3>1. pending = 0
        BY <2>1 DEF deactivate_Cancel, IInv, Barrier
      <3>2. QED
        BY <1>1, <2>1, <3>1, NothingAwaited DEF deactivate_Cancel, Cancel, workerVars
    <2>2. QED
      BY <2>1 DEF Initialize, Update_Scheduled, World_Wait, DelayedUpdate, wait_Spurious, deactivate_Token,
         deactivate_Join, Terminated, vars, queueVars, workerVars, worldVars
  <1>3. world' \in {"schedule", "wait", "delayed"} => world \in {"schedule", "wait", "delayed"}
    BY DEF Initialize, Update_Scheduled, World_Wait, DelayedUpdate, wait_Spurious, deactivate_Token,
       deactivate_Cancel, deactivate_Join, Terminated, vars, worldVars
  <1>4. world' # "schedule" => toSchedule = {}
    BY <1>1 DEF Places, Initialize, Update_Scheduled, World_Wait, DelayedUpdate, wait_Spurious,
       deactivate_Token, deactivate_Cancel, deactivate_Join, Terminated, vars, worldVars
  <1>5. CASE wpc' = wpc
    BY <1>1, <1>2, <1>3, <1>4, <1>5, TurnsKept DEF Places
  <1>6. ASSUME NEW ts \in SUBSET Workers, Initialize(ts) PROVE TurnInv'
    <2>1. \A w \in Workers : wpc[w] = "none"
      BY <1>6 DEF Initialize, IInv, ShutdownOrder, WorkerState
    <2>2. \A w \in Workers : wpc'[w] \in {"pop", "none"}
      BY <1>6 DEF Initialize
    <2>3. \A w \in Workers : toVisit[w] = {}
      BY <1>1, <2>1 DEF Places
    <2>4. QED
      BY <1>1, <1>2, <1>3, <1>4, <2>1, <2>2, <2>3, TurnsKept
  <1>7. CASE ~\E ts \in SUBSET Workers : Initialize(ts)
    <2>1. wpc' = wpc
      BY <1>7 DEF Update_Scheduled, World_Wait, DelayedUpdate, wait_Spurious, deactivate_Token,
         deactivate_Cancel, deactivate_Join, Terminated, vars, workerVars
    <2>2. QED
      BY <1>5, <2>1
  <1>8. QED
    BY <1>6, <1>7

\* Maps come and go between two updates.
LEMMA TurnsTick ==
  ASSUME IInv, TurnInv, (\E m \in Maps : CreateMap(m)) \/ UnloadAll
  PROVE  TurnInv'
  <1>1. TypeOK /\ Places /\ Alive
    BY DEF IInv, TurnInv
  <1>2. world = "tick" /\ world' \in {"tick", "unload"} /\ UNCHANGED <<queue, toSchedule, workerVars, visits>>
    BY DEF CreateMap, UnloadAll, queueVars, worldVars
  <1>3. pending = 0
    BY <1>2 DEF IInv, Barrier
  <1>4. /\ queue = <<>> /\ Range(queue) = {}
        /\ \A w \in Workers : wpc[w] \notin {"update", "finish"} /\ toVisit[w] = {}
        /\ \A w \in Workers : \A m \in Maps : ~Has(w, m)
    BY <1>1, <1>3, NothingAwaited
  <1>5. toSchedule = {}
    BY <1>1, <1>2 DEF Places
  <1>6. \A w \in Workers : \A m \in Maps : ~Has(w, m)'
    BY <1>2, <1>4 DEF Has, workerVars
  <1>7. Turns'
    BY <1>2 DEF Turns
  <1>8. Places'
    BY <1>1, <1>2, <1>5 DEF Places, workerVars
  <1>9. Alive'
    <2>1. \A m \in Maps : ~Awaited(m)'
      BY <1>2, <1>4, <1>5, <1>6 DEF Awaited
    <2>2. \A i \in Instances \cap loaded' : ParentOf[i] \in loaded'
      <3>1. CASE UnloadAll
        BY <3>1 DEF UnloadAll
      <3>2. ASSUME NEW m \in Maps, CreateMap(m) PROVE \A i \in Instances \cap loaded' : ParentOf[i] \in loaded'
        BY <1>1, <3>2, MapAssumption DEF CreateMap, Alive
      <3>3. QED
        BY <3>1, <3>2
    <2>3. QED
      BY <1>2, <1>4, <2>1, <2>2 DEF Alive, workerVars
  <1>10. QED
    BY <1>7, <1>8, <1>9 DEF TurnInv

\* At the start of an update the turn of every base map is in the loop.
LEMMA TurnsStart ==
  ASSUME IInv, TurnInv, Update_Start
  PROVE  TurnInv'
  <1>1. TypeOK /\ Places /\ Alive
    BY DEF IInv, TurnInv
  <1>2. /\ world = "tick" /\ world' = "schedule" /\ toSchedule' = loaded \cap BaseMaps
        /\ visits' = [m \in Maps |-> 0] /\ UNCHANGED <<queue, workerVars, loaded>>
    BY DEF Update_Start, queueVars
  <1>3. pending = 0
    BY <1>2 DEF IInv, Barrier
  <1>4. /\ queue = <<>> /\ Range(queue) = {}
        /\ \A w \in Workers : wpc[w] \notin {"update", "finish"} /\ toVisit[w] = {}
        /\ \A w \in Workers : \A m \in Maps : ~Has(w, m)
    BY <1>1, <1>3, NothingAwaited
  <1>5. \A w \in Workers : \A m \in Maps : ~Has(w, m)'
    BY <1>2, <1>4 DEF Has, workerVars
  <1>6. \A m \in Maps : Awaited(m)' <=> m \in loaded \cap BaseMaps
    BY <1>2, <1>4, <1>5 DEF Awaited
  <1>7. ASSUME NEW m \in loaded PROVE OneTurn(m)'
    <2>1. m \in Maps /\ visits'[m] = 0
      BY <1>1, <1>2 DEF TypeOK
    <2>2. InOnePlace(m)'
      BY <1>2, <1>4, <1>5, <2>1 DEF InOnePlace
    <2>3. CASE m \in BaseMaps
      <3>1. Due(m)'
        BY <2>3, MapAssumption DEF Due
      <3>2. QED
        BY <1>6, <2>1, <2>2, <2>3, <3>1 DEF OneTurn
    <2>4. CASE m \in Instances
      <3>1. ParentOf[m] \in Maps
        BY <2>4, MapAssumption DEF Maps
      <3>2. visits'[ParentOf[m]] = 0
        BY <1>2, <3>1
      <3>3. ~Due(m)'
        BY <2>4, <3>2 DEF Due
      <3>4. ~Awaited(m)'
        BY <1>6, <2>1, <2>4, MapAssumption
      <3>5. QED
        BY <2>1, <2>2, <3>3, <3>4 DEF OneTurn
    <2>5. QED
      BY <2>1, <2>3, <2>4 DEF Maps
  <1>8. Turns'
    BY <1>2, <1>7 DEF Turns
  <1>9. Alive'
    BY <1>1, <1>2, <1>4, <1>6 DEF Alive, workerVars
  <1>10. Places'
    BY <1>1, <1>2 DEF Places, workerVars
  <1>11. QED
    BY <1>8, <1>9, <1>10 DEF TurnInv

\* A map that is pushed is in the queue once more, at its end.
LEMMA Pushed ==
  ASSUME TypeOK, Places, NEW m \in Maps, Push(m), m \notin Range(queue)
  PROVE  /\ Range(queue') = Range(queue) \cup {m}
         /\ \A j, k \in 1..Len(queue') : queue'[j] = queue'[k] => j = k
  <1>1. queue \in Seq(Maps) /\ queue' = Append(queue, m)
    BY DEF TypeOK, Push
  <1>2. /\ queue' \in Seq(Maps) /\ Len(queue) \in Nat /\ Len(queue') = Len(queue) + 1
        /\ queue'[Len(queue) + 1] = m /\ \A i \in 1..Len(queue) : queue'[i] = queue[i]
    BY <1>1, AppendProperties
  <1>3. DOMAIN queue = 1..Len(queue) /\ DOMAIN queue' = 1..(Len(queue) + 1)
    BY <1>1, <1>2
  <1>4. Range(queue') = Range(queue) \cup {m}
    BY <1>2, <1>3 DEF Range
  <1>5. \A i \in 1..Len(queue) : queue[i] # m
    BY <1>3 DEF Range
  <1>6. ASSUME NEW j \in 1..Len(queue'), NEW k \in 1..Len(queue'), queue'[j] = queue'[k] PROVE j = k
    <2>1. /\ j = Len(queue) + 1 \/ j \in 1..Len(queue)
          /\ k = Len(queue) + 1 \/ k \in 1..Len(queue)
      BY <1>2
    <2>2. QED
      BY <1>2, <1>5, <1>6, <2>1 DEF Places
  <1>7. QED
    BY <1>4, <1>6

\* The turn of a base map goes from the loop to the queue.
LEMMA TurnsSchedule ==
  ASSUME IInv, TurnInv, NEW b \in BaseMaps, Update_Schedule(b)
  PROVE  TurnInv'
  <1>1. TypeOK /\ Places /\ Alive /\ Turns
    BY DEF IInv, TurnInv
  <1>2. /\ world = "schedule" /\ b \in toSchedule /\ toSchedule' = toSchedule \ {b} /\ Push(b)
        /\ UNCHANGED <<world, workerVars, loaded, visits>>
    BY DEF Update_Schedule, schedule_update
  <1>3. b \in Maps /\ b \in loaded
    BY <1>1, <1>2 DEF Maps, Alive, Awaited
  <1>4. OneTurn(b)
    BY <1>1, <1>2, <1>3 DEF Turns
  <1>5. b \notin Range(queue) /\ \A w \in Workers : ~Has(w, b)
    BY <1>2, <1>4 DEF OneTurn, InOnePlace
  <1>6. /\ Range(queue') = Range(queue) \cup {b}
        /\ \A j, k \in 1..Len(queue') : queue'[j] = queue'[k] => j = k
    BY <1>1, <1>2, <1>3, <1>5, Pushed
  <1>7. \A w \in Workers : \A m \in Maps : Has(w, m)' <=> Has(w, m)
    BY <1>2 DEF Has, workerVars
  <1>8. ASSUME NEW m \in loaded PROVE OneTurn(m)'
    <2>1. m \in Maps /\ OneTurn(m)
      BY <1>1, <1>2 DEF TypeOK, Turns
    <2>2. CASE m # b
      BY <1>2, <1>6, <1>7, <2>1, <2>2, SameTurn
    <2>3. CASE m = b
      <3>1. InOnePlace(m)'
        BY <1>2, <1>5, <1>6, <1>7, <2>1, <2>3 DEF InOnePlace
      <3>2. Awaited(m)' /\ Awaited(m)
        BY <1>2, <1>6, <2>3 DEF Awaited
      <3>3. Due(m)' /\ Due(m)
        BY <2>3, MapAssumption DEF Due
      <3>4. QED
        BY <1>2, <2>1, <3>1, <3>2, <3>3 DEF OneTurn
    <2>4. QED
      BY <2>2, <2>3
  <1>9. Turns'
    BY <1>2, <1>8 DEF Turns
  <1>10. Alive'
    <2>1. \A m \in Maps : Awaited(m)' => Awaited(m)
      BY <1>2, <1>6, <1>7 DEF Awaited
    <2>2. QED
      BY <1>1, <1>2, <2>1 DEF Alive, workerVars
  <1>11. Places'
    BY <1>1, <1>2, <1>6 DEF Places, workerVars
  <1>12. QED
    BY <1>9, <1>10, <1>11 DEF TurnInv

\* Base maps and instances.
LEMMA Parents ==
  ASSUME NEW i \in Instances
  PROVE  i \in Maps /\ ParentOf[i] \in BaseMaps /\ ParentOf[i] \in Maps /\ ParentOf[i] \notin Instances
  BY MapAssumption DEF Maps

\* A worker that holds a request works within an update.
LEMMA WithinUpdate ==
  ASSUME IInv, NEW w \in Workers, Holding(w)
  PROVE  world \in {"schedule", "wait"} /\ ~cancelToken
  <1>1. w \in Held
    BY DEF Held
  <1>2. pending # 0
    BY <1>1, NothingPending DEF IInv
  <1>3. QED
    BY <1>2 DEF IInv, Barrier, ShutdownOrder

\* Without workers a base map and its instances have their turns at once.
LEMMA TurnsInline ==
  ASSUME IInv, TurnInv, NEW b \in BaseMaps, Update_Inline(b)
  PROVE  TurnInv'
  <1>1. TypeOK /\ Places /\ Alive /\ Turns
    BY DEF IInv, TurnInv
  <1>2. /\ world = "schedule" /\ threads = {} /\ b \in toSchedule /\ toSchedule' = toSchedule \ {b}
        /\ visits' = [n \in Maps |-> IF n \in {b} \cup InstancesOf(b) THEN visits[n] + 1 ELSE visits[n]]
        /\ UNCHANGED <<queue, world, workerVars>>
    BY DEF Update_Inline, activated, queueVars
  <1>3. PICK gone \in SUBSET InstancesOf(b) : loaded' = loaded \ gone
    BY DEF Update_Inline
  <1>4. pending = 0
    BY <1>2 DEF IInv, ShutdownOrder
  <1>5. /\ queue = <<>> /\ Range(queue) = {}
        /\ \A w \in Workers : wpc[w] \notin {"update", "finish"} /\ toVisit[w] = {}
        /\ \A w \in Workers : \A m \in Maps : ~Has(w, m)
    BY <1>1, <1>4, NothingAwaited
  <1>6. \A w \in Workers : \A m \in Maps : ~Has(w, m)'
    BY <1>2, <1>5 DEF Has, workerVars
  <1>7. \A m \in Maps : (Awaited(m) <=> m \in toSchedule) /\ (Awaited(m)' <=> m \in toSchedule \ {b})
    BY <1>2, <1>5, <1>6 DEF Awaited
  <1>8. b \in Maps /\ b \in loaded /\ Due(b) /\ Due(b)'
    BY <1>1, <1>2, <1>7, MapAssumption DEF Maps, Alive, Due
  <1>9. visits[b] = 0 /\ visits'[b] = 1
    <2>1. OneTurn(b)
      BY <1>1, <1>2, <1>8 DEF Turns
    <2>2. visits[b] = 0
      BY <1>2, <1>7, <1>8, <2>1 DEF OneTurn
    <2>3. QED
      BY <1>2, <1>8, <2>2
  <1>10. ASSUME NEW m \in loaded' PROVE OneTurn(m)'
    <2>1. m \in Maps /\ m \in loaded /\ OneTurn(m)
      BY <1>1, <1>2, <1>3 DEF TypeOK, Turns
    <2>2. InOnePlace(m)'
      BY <1>2, <1>5, <1>6, <2>1 DEF InOnePlace
    <2>3. CASE m = b
      BY <1>7, <1>8, <1>9, <2>2, <2>3 DEF OneTurn
    <2>4. CASE m \in InstancesOf(b)
      <3>1. m \in Instances /\ ParentOf[m] = b
        BY <2>4 DEF InstancesOf
      <3>2. ~Due(m) /\ Due(m)'
        BY <1>9, <3>1 DEF Due
      <3>3. visits[m] = 0 /\ ~Awaited(m)
        BY <2>1, <3>2 DEF OneTurn
      <3>4. visits'[m] = 1
        BY <1>2, <2>1, <2>4, <3>3
      <3>5. ~Awaited(m)'
        BY <1>7, <2>1, <3>3
      <3>6. QED
        BY <2>2, <3>2, <3>4, <3>5 DEF OneTurn
    <2>5. CASE m # b /\ m \notin InstancesOf(b)
      <3>1. visits'[m] = visits[m]
        BY <1>2, <2>1, <2>5
      <3>2. ASSUME m \in Instances PROVE visits'[ParentOf[m]] = visits[ParentOf[m]]
        <4>1. ParentOf[m] # b /\ ParentOf[m] \in Maps /\ ParentOf[m] \notin InstancesOf(b)
          BY <2>1, <2>5, <3>2, Parents DEF InstancesOf
        <4>2. QED
          BY <1>2, <4>1
      <3>3. QED
        BY <1>2, <1>5, <1>6, <2>1, <2>5, <3>1, <3>2, SameTurn
    <2>6. QED
      BY <2>3, <2>4, <2>5
  <1>11. Turns'
    BY <1>10 DEF Turns
  <1>12. Alive'
    <2>1. ASSUME NEW m \in Maps, Awaited(m)' PROVE m \in loaded'
      <3>1. m \in toSchedule
        BY <1>7, <2>1
      <3>2. m \in BaseMaps /\ m \in loaded
        BY <1>1, <1>7, <3>1 DEF TypeOK, Alive
      <3>3. QED
        BY <1>3, <3>2, MapAssumption DEF InstancesOf
    <2>2. ASSUME NEW i \in Instances \cap loaded' PROVE ParentOf[i] \in loaded'
      <3>1. ParentOf[i] \in loaded
        BY <1>1, <1>3 DEF Alive
      <3>2. QED
        BY <1>3, <3>1, Parents DEF InstancesOf
    <2>3. QED
      BY <1>2, <1>5, <2>1, <2>2 DEF Alive, workerVars
  <1>13. Places'
    BY <1>1, <1>2 DEF Places, workerVars
  <1>14. QED
    BY <1>11, <1>12, <1>13 DEF TurnInv

\* The turn at the head of the queue goes to a worker.
LEMMA TurnsTake ==
  ASSUME IInv, TurnInv, NEW w \in Workers, Worker_Take(w)
  PROVE  TurnInv'
  <1>1. TypeOK /\ Places /\ Alive /\ Turns
    BY DEF IInv, TurnInv
  <1>2. PICK h : h = Head(queue)
    OBVIOUS
  <1>3. /\ wpc[w] = "pop" /\ queue # <<>> /\ queue' = Tail(queue)
        /\ wpc' = [wpc EXCEPT ![w] = "check"] /\ request' = [request EXCEPT ![w] = h]
        /\ UNCHANGED <<world, toSchedule, toVisit, loaded, visits>>
    BY <1>2 DEF Worker_Take, WaitAndPop_Take, worldVars
  <1>4. queue \in Seq(Maps)
    BY <1>1 DEF TypeOK
  <1>5. /\ h \in Maps /\ h = queue[1] /\ Len(queue) \in Nat /\ Len(queue) > 0
        /\ queue' \in Seq(Maps) /\ Len(queue') = Len(queue) - 1
        /\ \A i \in 1..Len(queue') : queue'[i] = queue[i + 1]
    BY <1>2, <1>3, <1>4, HeadTailProperties
  <1>6. DOMAIN queue = 1..Len(queue) /\ DOMAIN queue' = 1..Len(queue')
    BY <1>4, <1>5
  <1>7. h \in Range(queue) /\ Range(queue') = Range(queue) \ {h}
    <2>1. h \in Range(queue)
      BY <1>5, <1>6 DEF Range
    <2>2. ASSUME NEW i \in 1..Len(queue') PROVE queue'[i] \in Range(queue) \ {h}
      <3>1. i + 1 \in 1..Len(queue) /\ i + 1 # 1 /\ 1 \in 1..Len(queue)
        BY <1>5
      <3>2. queue[i + 1] # queue[1]
        BY <1>1, <3>1 DEF Places
      <3>3. QED
        BY <1>5, <1>6, <3>1, <3>2 DEF Range
    <2>3. ASSUME NEW j \in 1..Len(queue), queue[j] # h PROVE queue[j] \in Range(queue')
      <3>1. j # 1
        BY <1>5, <2>3
      <3>2. j - 1 \in 1..Len(queue') /\ (j - 1) + 1 = j
        BY <1>5, <3>1
      <3>3. queue'[j - 1] = queue[j]
        BY <1>5, <3>2
      <3>4. QED
        BY <1>6, <3>2, <3>3 DEF Range
    <2>4. Range(queue') \subseteq Range(queue) \ {h}
      BY <1>6, <2>2 DEF Range
    <2>5. Range(queue) \ {h} \subseteq Range(queue')
      BY <1>6, <2>3 DEF Range
    <2>6. QED
      BY <2>1, <2>4, <2>5
  <1>8. \A j, k \in 1..Len(queue') : queue'[j] = queue'[k] => j = k
    <2> SUFFICES ASSUME NEW j \in 1..Len(queue'), NEW k \in 1..Len(queue'), queue'[j] = queue'[k] PROVE j = k
      OBVIOUS
    <2>1. j + 1 \in 1..Len(queue) /\ k + 1 \in 1..Len(queue) /\ queue[j + 1] = queue[k + 1]
      BY <1>5
    <2>2. j + 1 = k + 1
      BY <1>1, <2>1 DEF Places
    <2>3. QED
      BY <1>5, <2>2
  <1>9. h \in loaded
    BY <1>1, <1>5, <1>7 DEF Alive, Awaited
  <1>10. toVisit[w] = {} /\ \A m \in Maps : ~Has(w, m)
    BY <1>1, <1>3 DEF Places, Has
  <1>11. /\ \A v \in Workers : \A m \in Maps : v # w => (Has(v, m)' <=> Has(v, m))
         /\ \A m \in Maps : Has(w, m)' <=> m = h
    BY <1>1, <1>3, <1>10 DEF Has, TypeOK
  <1>12. ASSUME world \in {"schedule", "wait", "delayed"}, NEW m \in loaded PROVE OneTurn(m)'
    <2>1. m \in Maps /\ OneTurn(m)
      BY <1>1, <1>12 DEF TypeOK, Turns
    <2>2. CASE m # h
      <3>1. \A v \in Workers : Has(v, m)' <=> Has(v, m)
        BY <1>10, <1>11, <2>1, <2>2
      <3>2. QED
        BY <1>3, <1>7, <2>1, <2>2, <3>1, SameTurn
    <2>3. CASE m = h
      <3>1. m \notin toSchedule /\ \A v \in Workers : ~Has(v, m)
        BY <1>7, <2>1, <2>3 DEF OneTurn, InOnePlace
      <3>2. InOnePlace(m)'
        BY <1>3, <1>7, <1>11, <2>1, <2>3, <3>1 DEF InOnePlace
      <3>3. Awaited(m) /\ Awaited(m)'
        BY <1>7, <1>11, <2>1, <2>3 DEF Awaited
      <3>4. Due(m)' <=> Due(m)
        BY <1>3 DEF Due
      <3>5. QED
        BY <1>3, <2>1, <3>2, <3>3, <3>4 DEF OneTurn
    <2>4. QED
      BY <2>2, <2>3
  <1>13. Turns'
    BY <1>3, <1>12 DEF Turns
  <1>14. Alive'
    <2>1. \A m \in Maps : Awaited(m)' => Awaited(m)
      BY <1>3, <1>7, <1>10, <1>11 DEF Awaited
    <2>2. \A v \in Workers : wpc'[v] \in {"update", "finish"} => wpc'[v] = wpc[v] /\ request'[v] = request[v]
      BY <1>1, <1>3 DEF TypeOK
    <2>3. QED
      BY <1>1, <1>3, <2>1, <2>2 DEF Alive
  <1>15. Places'
    BY <1>1, <1>3, <1>8, <1>10 DEF Places, TypeOK
  <1>16. QED
    BY <1>13, <1>14, <1>15 DEF TurnInv

\* A map has its turn, and its instances become due.
LEMMA TurnsCheck ==
  ASSUME IInv, TurnInv, NEW w \in Workers, Worker_Check(w), ~cancelToken, request[w] # NoMap
  PROVE  TurnInv'
  <1>1. TypeOK /\ Places /\ Alive /\ Turns
    BY DEF IInv, TurnInv
  <1>2. PICK r \in Maps : r = request[w]
    BY <1>1 DEF TypeOK
  <1>3. /\ wpc[w] = "check" /\ wpc' = [wpc EXCEPT ![w] = "update"]
        /\ visits' = [visits EXCEPT ![r] = @ + 1]
        /\ toVisit' = [toVisit EXCEPT ![w] = InstancesOf(r)]
        /\ UNCHANGED <<world, queue, toSchedule, request, loaded>>
    BY <1>2 DEF Worker_Check, queueVars, worldVars
  <1>4. Holding(w) /\ world \in {"schedule", "wait"}
    BY <1>3, WithinUpdate DEF Holding
  <1>5. toVisit[w] = {} /\ Has(w, r) /\ Awaited(r)
    BY <1>1, <1>2, <1>3 DEF Places, Has, Awaited
  <1>6. r \in loaded /\ OneTurn(r)
    BY <1>1, <1>4, <1>5 DEF Alive, Turns
  <1>7. visits[r] = 0 /\ Due(r) /\ visits'[r] = 1
    <2>1. visits[r] = 0 /\ Due(r)
      BY <1>5, <1>6 DEF OneTurn
    <2>2. QED
      BY <1>1, <1>2, <1>3, <2>1 DEF TypeOK
  <1>8. \A m \in Maps : m # r => visits'[m] = visits[m]
    BY <1>1, <1>3 DEF TypeOK
  <1>9. r \notin InstancesOf(r)
    BY Parents DEF InstancesOf
  <1>10. /\ \A v \in Workers : \A m \in Maps : v # w => (Has(v, m)' <=> Has(v, m))
         /\ \A m \in Maps : Has(w, m)' <=> m \in InstancesOf(r)
         /\ \A m \in Maps : Has(w, m) <=> m = r
    BY <1>1, <1>2, <1>3, <1>5 DEF Has, TypeOK
  <1>11. r \notin toSchedule /\ r \notin Range(queue) /\ \A v \in Workers : v # w => ~Has(v, r)
    BY <1>5, <1>6 DEF OneTurn, InOnePlace
  <1>12. ASSUME NEW m \in loaded PROVE OneTurn(m)'
    <2>1. m \in Maps /\ OneTurn(m)
      BY <1>1, <1>4 DEF TypeOK, Turns
    <2>2. CASE m = r
      <3>1. \A v \in Workers : ~Has(v, r)'
        BY <1>9, <1>10, <1>11
      <3>2. InOnePlace(r)' /\ ~Awaited(r)'
        BY <1>3, <1>11, <3>1 DEF InOnePlace, Awaited
      <3>3. Due(r)'
        <4>1. ASSUME r \in Instances PROVE visits'[ParentOf[r]] = 1
          <5>1. ParentOf[r] \in Maps /\ ParentOf[r] # r
            BY <4>1, Parents
          <5>2. QED
            BY <1>7, <1>8, <4>1, <5>1 DEF Due
        <4>2. QED
          BY <4>1 DEF Due
      <3>4. QED
        BY <1>7, <2>2, <3>2, <3>3 DEF OneTurn
    <2>3. CASE m \in InstancesOf(r)
      <3>1. m \in Instances /\ ParentOf[m] = r /\ m # r
        BY <1>9, <2>3 DEF InstancesOf
      <3>2. ~Due(m) /\ Due(m)'
        BY <1>7, <3>1 DEF Due
      <3>3. visits[m] = 0 /\ ~Awaited(m)
        BY <2>1, <3>2 DEF OneTurn
      <3>4. visits'[m] = 0
        BY <1>8, <2>1, <3>1, <3>3
      <3>5. m \notin toSchedule' /\ m \notin Range(queue') /\ \A v \in Workers : Has(v, m)' <=> v = w
        BY <1>3, <1>10, <2>1, <2>3, <3>3 DEF Awaited
      <3>6. InOnePlace(m)' /\ Awaited(m)'
        BY <3>5 DEF InOnePlace, Awaited
      <3>7. QED
        BY <3>2, <3>4, <3>6 DEF OneTurn
    <2>4. CASE m # r /\ m \notin InstancesOf(r)
      <3>1. \A v \in Workers : Has(v, m)' <=> Has(v, m)
        BY <1>10, <2>1, <2>4
      <3>2. m \in Instances => visits'[ParentOf[m]] = visits[ParentOf[m]]
        BY <1>8, <2>4, Parents DEF InstancesOf
      <3>3. visits'[m] = visits[m]
        BY <1>8, <2>1, <2>4
      <3>4. QED
        BY <1>3, <2>1, <3>1, <3>2, <3>3, SameTurn
    <2>5. QED
      BY <2>2, <2>3, <2>4
  <1>13. Turns'
    BY <1>3, <1>12 DEF Turns
  <1>14. Alive'
    <2>1. ASSUME NEW m \in Maps, Awaited(m)' PROVE m \in loaded
      <3>1. Awaited(m) \/ m \in InstancesOf(r)
        BY <1>3, <1>10, <2>1 DEF Awaited
      <3>2. QED
        BY <1>1, <3>1 DEF Alive, InstancesOf
    <2>2. ASSUME NEW v \in Workers, wpc'[v] \in {"update", "finish"}
          PROVE  request[v] \in loaded /\ visits'[request[v]] = 1
      <3>1. CASE v = w
        BY <1>2, <1>6, <1>7, <3>1
      <3>2. CASE v # w
        <4>1. wpc[v] \in {"update", "finish"}
          BY <1>1, <1>3, <2>2, <3>2 DEF TypeOK
        <4>2. request[v] \in loaded /\ visits[request[v]] = 1
          BY <1>1, <4>1 DEF Alive
        <4>3. request[v] # r /\ request[v] \in Maps
          BY <1>1, <1>7, <4>2 DEF TypeOK
        <4>4. QED
          BY <1>8, <4>2, <4>3
      <3>3. QED
        BY <3>1, <3>2
    <2>3. QED
      BY <1>1, <1>3, <2>1, <2>2 DEF Alive
  <1>15. Places'
    BY <1>1, <1>3 DEF Places, TypeOK
  <1>16. QED
    BY <1>13, <1>14, <1>15 DEF TurnInv

\* An instance is scheduled, or has its turn at once: CanUnload said so, and it
\* is destroyed or left alone.
LEMMA TurnsVisit ==
  ASSUME IInv, TurnInv, NEW w \in Workers, NEW i \in Instances, Worker_VisitInstance(w, i)
  PROVE  TurnInv'
  <1>1. TypeOK /\ Places /\ Alive /\ Turns
    BY DEF IInv, TurnInv
  <1>2. /\ wpc[w] = "update" /\ i \in toVisit[w] /\ toVisit' = [toVisit EXCEPT ![w] = @ \ {i}]
        /\ UNCHANGED <<world, toSchedule, wpc, request>>
    BY DEF Worker_VisitInstance, worldVars
  <1>3. world \in {"schedule", "wait"}
    <2>1. Holding(w)
      BY <1>2 DEF Holding, IInv, WorkerState
    <2>2. QED
      BY <2>1, WithinUpdate
  <1>4. i \in Maps /\ Has(w, i) /\ Awaited(i)
    BY <1>2, Parents DEF Has, Awaited
  <1>5. i \in loaded /\ OneTurn(i)
    BY <1>1, <1>3, <1>4 DEF Alive, Turns
  <1>6. visits[i] = 0 /\ Due(i)
    BY <1>4, <1>5 DEF OneTurn
  <1>7. i \notin toSchedule /\ i \notin Range(queue) /\ \A v \in Workers : v # w => ~Has(v, i)
    BY <1>4, <1>5 DEF OneTurn, InOnePlace
  <1>8. /\ \A v \in Workers : \A m \in Maps : m # i => (Has(v, m)' <=> Has(v, m))
        /\ \A v \in Workers : ~Has(v, i)'
    <2>1. \A v \in Workers : v # w => toVisit'[v] = toVisit[v]
      BY <1>1, <1>2 DEF TypeOK
    <2>2. toVisit'[w] = toVisit[w] \ {i}
      BY <1>1, <1>2 DEF TypeOK
    <2>3. QED
      BY <1>2, <1>7, <2>1, <2>2 DEF Has
  <1>9. \A v \in Workers : wpc[v] \in {"update", "finish"} => request[v] # i /\ request[v] \in loaded /\ visits[request[v]] = 1
    BY <1>1, <1>6 DEF Alive
  <1>10. \A v \in Workers : toVisit'[v] # {} => wpc'[v] = "update"
    BY <1>1, <1>2 DEF TypeOK, Places
  <1>11. CASE schedule_update(i) /\ UNCHANGED <<loaded, visits>>
    <2>1. /\ Range(queue') = Range(queue) \cup {i}
          /\ \A j, k \in 1..Len(queue') : queue'[j] = queue'[k] => j = k
      BY <1>1, <1>4, <1>7, <1>11, Pushed DEF schedule_update
    <2>2. ASSUME NEW m \in loaded PROVE OneTurn(m)'
      <3>1. m \in Maps /\ OneTurn(m)
        BY <1>1, <1>3 DEF TypeOK, Turns
      <3>2. CASE m # i
        BY <1>2, <1>8, <1>11, <2>1, <3>1, <3>2, SameTurn
      <3>3. CASE m = i
        <4>1. InOnePlace(i)' /\ Awaited(i)'
          BY <1>2, <1>7, <1>8, <2>1 DEF InOnePlace, Awaited
        <4>2. Due(i)'
          BY <1>6, <1>11 DEF Due
        <4>3. QED
          BY <1>6, <1>11, <3>3, <4>1, <4>2 DEF OneTurn
      <3>4. QED
        BY <3>2, <3>3
    <2>3. Turns'
      BY <1>11, <2>2 DEF Turns
    <2>4. Alive'
      <3>1. \A m \in Maps : Awaited(m)' => Awaited(m) \/ m = i
        BY <1>2, <1>8, <2>1 DEF Awaited
      <3>2. QED
        BY <1>1, <1>2, <1>5, <1>11, <3>1 DEF Alive
    <2>5. Places'
      BY <1>1, <1>2, <1>10, <2>1 DEF Places
    <2>6. QED
      BY <2>3, <2>4, <2>5 DEF TurnInv
  <1>12. CASE /\ loaded' \in {loaded, loaded \ {i}} /\ visits' = [visits EXCEPT ![i] = @ + 1]
              /\ UNCHANGED queueVars
    <2>1. queue' = queue /\ visits'[i] = 1 /\ \A m \in Maps : m # i => visits'[m] = visits[m]
      BY <1>1, <1>4, <1>6, <1>12 DEF TypeOK, queueVars
    <2>2. ParentOf[i] # i /\ ParentOf[i] \in Maps /\ \A m \in Instances : ParentOf[m] \in Maps /\ ParentOf[m] # i
      BY Parents
    <2>3. ASSUME NEW m \in loaded' PROVE OneTurn(m)'
      <3>1. m \in Maps /\ OneTurn(m)
        BY <1>1, <1>3, <1>12 DEF TypeOK, Turns
      <3>2. CASE m # i
        BY <1>2, <1>8, <2>1, <2>2, <3>1, <3>2, SameTurn
      <3>3. CASE m = i
        <4>1. InOnePlace(i)' /\ ~Awaited(i)'
          BY <1>2, <1>7, <1>8, <2>1 DEF InOnePlace, Awaited
        <4>2. Due(i)'
          BY <1>6, <2>1, <2>2 DEF Due
        <4>3. QED
          BY <2>1, <3>3, <4>1, <4>2 DEF OneTurn
      <3>4. QED
        BY <3>2, <3>3
    <2>4. Turns'
      BY <2>3 DEF Turns
    <2>5. Alive'
      <3>1. \A m \in Maps : Awaited(m)' => Awaited(m) /\ m # i
        BY <1>2, <1>7, <1>8, <2>1 DEF Awaited
      <3>2. \A m \in Maps : Awaited(m)' => m \in loaded'
        BY <1>1, <1>12, <3>1 DEF Alive
      <3>3. ASSUME NEW v \in Workers, wpc'[v] \in {"update", "finish"}
            PROVE  request'[v] \in loaded' /\ visits'[request'[v]] = 1
        <4>1. request[v] # i /\ request[v] \in loaded /\ visits[request[v]] = 1 /\ request[v] \in Maps
          BY <1>1, <1>2, <1>9, <3>3 DEF TypeOK
        <4>2. QED
          BY <1>2, <1>12, <2>1, <4>1
      <3>4. \A m \in Instances \cap loaded' : ParentOf[m] \in loaded'
        BY <1>1, <1>12, <2>2 DEF Alive
      <3>5. QED
        BY <3>2, <3>3, <3>4 DEF Alive
    <2>6. Places'
      BY <1>1, <1>2, <1>10, <2>1 DEF Places
    <2>7. QED
      BY <2>4, <2>5, <2>6 DEF TurnInv
  <1>13. QED
    BY <1>11, <1>12 DEF Worker_VisitInstance

\* Every step keeps the turns.
LEMMA TurnNext == IInv /\ TurnInv /\ [Next]_vars => TurnInv'
  <1> SUFFICES ASSUME IInv, TurnInv, [Next]_vars PROVE TurnInv'
    OBVIOUS
  <1>1. ASSUME NEW w \in Workers, WorkerStep(w) \/ Worker_Spurious(w) PROVE TurnInv'
    BY <1>1, TurnsIdle, TurnsTake, TurnsCheck, TurnsVisit DEF WorkerStep
  <1>2. CASE UNCHANGED vars
    BY <1>2, TurnsKept DEF vars, queueVars, worldVars, workerVars, IInv, TurnInv, Places
  <1>3. QED
    BY <1>1, <1>2, TurnsWorld, TurnsTick, TurnsStart, TurnsSchedule, TurnsInline DEF Next, WorldStep

\* No map exists at first.
LEMMA TurnInit == Init => TurnInv
  <1> SUFFICES ASSUME Init PROVE TurnInv
    OBVIOUS
  <1>1. queue = <<>> /\ Len(queue) = 0 /\ Range(queue) = {}
    BY DEF Init, QueueInit, Range
  <1>2. \A w \in Workers : \A m \in Maps : ~Has(w, m)
    BY DEF Init, Has
  <1>3. Turns /\ Places
    BY <1>1 DEF Init, Turns, Places
  <1>4. Alive
    BY <1>1, <1>2 DEF Init, Alive, Awaited
  <1>5. QED
    BY <1>3, <1>4 DEF TurnInv

\* Both invariants hold in every reachable state.
LEMMA TurnInvariance == Spec => [](IInv /\ TurnInv)
  BY InitInv, NextInv, TurnInit, TurnNext, PTL DEF Spec

\* No request refers to a map that was destroyed, although workers destroy
\* instances (MapInstanced::DestroyInstance) while others are being updated.
THEOREM AliveRequests == Spec => []RequestsAlive
  <1>1. ASSUME IInv, TurnInv PROVE RequestsAlive
    <2>1. TypeOK /\ Alive
      BY <1>1 DEF IInv, TurnInv
    <2>2. ASSUME NEW k \in 1..Len(queue) PROVE queue[k] \in loaded
      <3>1. queue \in Seq(Maps)
        BY <2>1 DEF TypeOK
      <3>2. k \in DOMAIN queue /\ queue[k] \in Maps
        BY <3>1
      <3>3. Awaited(queue[k])
        BY <3>2 DEF Awaited, Range
      <3>4. QED
        BY <2>1, <3>2, <3>3 DEF Alive
    <2>3. ASSUME NEW w \in Workers, Holding(w) PROVE request[w] \in loaded
      <3>1. CASE wpc[w] = "check"
        <4>1. request[w] \in Maps /\ Awaited(request[w])
          BY <2>1, <2>3, <3>1 DEF TypeOK, Holding, Awaited, Has
        <4>2. QED
          BY <2>1, <4>1 DEF Alive
      <3>2. CASE wpc[w] \in {"update", "finish"}
        BY <2>1, <3>2 DEF Alive
      <3>3. QED
        BY <2>3, <3>1, <3>2 DEF Holding
    <2>4. QED
      BY <2>2, <2>3 DEF RequestsAlive
  <1>2. QED
    BY <1>1, TurnInvariance, PTL

\* When MapManager::Update goes on after its wait, every map that exists was
\* handled exactly once, whichever threads ran the updates and whatever they
\* scheduled and destroyed meanwhile.
THEOREM ExactlyOnce == Spec => []UpdatedExactlyOnce
  <1>1. ASSUME IInv, TurnInv PROVE UpdatedExactlyOnce
    <2> SUFFICES ASSUME world = "delayed", NEW m \in loaded PROVE visits[m] = 1
      BY DEF UpdatedExactlyOnce
    <2>1. TypeOK /\ Alive /\ Places /\ Turns
      BY <1>1 DEF IInv, TurnInv
    <2>2. pending = 0 /\ toSchedule = {}
      BY <1>1, <2>1 DEF IInv, Barrier, Places
    <2>3. \A x \in Maps : ~Awaited(x)
      BY <1>1, <2>1, <2>2, NothingAwaited DEF Awaited
    <2>4. \A x \in loaded : x \in Maps /\ OneTurn(x)
      BY <2>1 DEF TypeOK, Turns
    <2>5. ASSUME NEW x \in loaded, x \in BaseMaps PROVE visits[x] = 1
      <3>1. Due(x)
        BY <2>5, MapAssumption DEF Due
      <3>2. QED
        BY <2>3, <2>4, <3>1 DEF OneTurn
    <2>6. CASE m \in BaseMaps
      BY <2>5, <2>6
    <2>7. CASE m \in Instances
      <3>1. ParentOf[m] \in loaded /\ ParentOf[m] \in BaseMaps
        BY <2>1, <2>7, Parents DEF Alive
      <3>2. Due(m)
        BY <2>5, <3>1 DEF Due
      <3>3. QED
        BY <2>3, <2>4, <3>2 DEF OneTurn
    <2>8. QED
      BY <2>4, <2>6, <2>7 DEF Maps
  <1>2. QED
    BY <1>1, TurnInvariance, PTL

-----------------------------------------------------------------------------
(* Nobody sleeps on.                                                       *)

\* Only workers in WaitAndPop sleep; a queue that is not empty has a worker that
\* does not; the world thread sleeps only while requests are pending.
AwakeInv ==
    /\ \A w \in waiting : wpc[w] = "pop"
    /\ \A w \in threads : wpc[w] # "none" /\ (wpc[w] = "exited" => cancelToken)
    /\ queue # <<>> => threads \ waiting # {}
    /\ worldBlocked => pending > 0
    /\ shutdown => waiting = {}

\* notify_one leaves a thread awake if there is any.
LEMMA PushAwake ==
  ASSUME TypeOK, WorkerState, AwakeInv, NEW m \in Maps, Push(m), threads # {}
  PROVE  threads \ waiting' # {} /\ waiting' \subseteq waiting
  <1>1. CASE waiting = {}
    BY <1>1 DEF Push, NotifyOne
  <1>2. CASE waiting # {}
    <2>1. PICK t \in waiting : waiting' = waiting \ {t}
      BY <1>2 DEF Push, NotifyOne
    <2>2. t \in threads
      BY <2>1 DEF TypeOK, WorkerState, AwakeInv
    <2>3. QED
      BY <2>1, <2>2
  <1>3. QED
    BY <1>1, <1>2

LEMMA AwakeNext == IInv /\ AwakeInv /\ [Next]_vars => AwakeInv'
  <1> SUFFICES ASSUME IInv, AwakeInv, [Next]_vars PROVE AwakeInv'
    OBVIOUS
  <1> USE DEF IInv, AwakeInv, worldVars, workerVars, queueVars
  <1>1. ASSUME NEW ts \in SUBSET Workers, Initialize(ts) PROVE AwakeInv'
    <2>1. waiting = {}
      BY <1>1 DEF Initialize, ShutdownOrder, WorkerState, TypeOK
    <2>2. pending = 0 /\ queue = <<>>
      BY <1>1, NothingPending DEF Initialize, Barrier
    <2>3. QED
      BY <1>1, <2>1, <2>2 DEF Initialize, TypeOK
  <1>2. ASSUME NEW m \in Maps, CreateMap(m) PROVE AwakeInv'
    BY <1>2 DEF CreateMap
  <1>3. CASE Update_Start \/ UnloadAll \/ wait_Spurious
    BY <1>3 DEF Update_Start, UnloadAll, wait_Spurious
  <1>4. ASSUME NEW m \in BaseMaps, Update_Schedule(m) PROVE AwakeInv'
    <2>1. threads # {} /\ Push(m) /\ pending' = pending + 1 /\ m \in Maps
      BY <1>4 DEF Update_Schedule, schedule_update, activated, Maps
    <2>2. threads \ waiting' # {} /\ waiting' \subseteq waiting
      BY <2>1, PushAwake
    <2>3. UNCHANGED <<wpc, threads, cancelToken, worldBlocked, shutdown>>
      BY <1>4, <2>1 DEF Update_Schedule, Push
    <2>4. QED
      BY <2>1, <2>2, <2>3 DEF TypeOK
  <1>5. ASSUME NEW m \in BaseMaps, Update_Inline(m) PROVE AwakeInv'
    BY <1>5 DEF Update_Inline
  <1>6. CASE Update_Scheduled \/ DelayedUpdate \/ deactivate_Join
    BY <1>6 DEF Update_Scheduled, DelayedUpdate, deactivate_Join
  <1>7. CASE World_Wait
    BY <1>7 DEF World_Wait, wait_Block, wait_Return
  <1>8. CASE deactivate_Token
    BY <1>8 DEF deactivate_Token
  <1>9. CASE deactivate_Cancel
    BY <1>9 DEF deactivate_Cancel, Cancel
  <1>10. ASSUME NEW w \in Workers, WorkerStep(w) \/ Worker_Spurious(w) PROVE AwakeInv'
    <2>1. CASE Worker_Block(w)
      <3>1. /\ queue = <<>> /\ ~shutdown /\ wpc[w] = "pop" /\ waiting' = waiting \cup {w}
            /\ UNCHANGED <<queue, shutdown, wpc, threads, cancelToken, worldBlocked, pending>>
        BY <2>1 DEF Worker_Block, WaitAndPop_Block
      <3>2. QED
        BY <3>1
    <2>2. CASE Worker_Take(w)
      <3>1. /\ w \notin waiting /\ wpc[w] = "pop" /\ wpc' = [wpc EXCEPT ![w] = "check"]
            /\ UNCHANGED <<shutdown, waiting, threads, cancelToken, worldBlocked, pending>>
        BY <2>2 DEF Worker_Take, WaitAndPop_Take
      <3>2. w \in threads
        BY <3>1 DEF WorkerState
      <3>3. QED
        BY <3>1, <3>2 DEF TypeOK
    <2>3. CASE Worker_Empty(w)
      BY <2>3 DEF Worker_Empty, WaitAndPop_Return, TypeOK
    <2>4. CASE Worker_Check(w)
      BY <2>4 DEF Worker_Check, TypeOK
    <2>5. ASSUME NEW i \in Instances, Worker_VisitInstance(w, i) PROVE AwakeInv'
      <3>1. CASE UNCHANGED <<queueVars, pending>>
        BY <2>5, <3>1 DEF Worker_VisitInstance
      <3>2. CASE schedule_update(i)
        <4>1. threads # {} /\ Push(i) /\ pending' = pending + 1 /\ i \in Maps
          BY <2>5, <3>2 DEF Worker_VisitInstance, schedule_update, WorkerState, Maps
        <4>2. threads \ waiting' # {} /\ waiting' \subseteq waiting
          BY <4>1, PushAwake
        <4>3. UNCHANGED <<wpc, threads, cancelToken, worldBlocked, shutdown>>
          BY <2>5, <4>1 DEF Worker_VisitInstance, Push
        <4>4. QED
          BY <4>1, <4>2, <4>3 DEF TypeOK
      <3>3. QED
        BY <2>5, <3>1, <3>2 DEF Worker_VisitInstance
    <2>6. CASE Worker_Updated(w)
      BY <2>6 DEF Worker_Updated, TypeOK
    <2>7. CASE update_finished(w)
      BY <2>7 DEF update_finished, TypeOK
    <2>8. CASE Worker_Spurious(w)
      BY <2>8 DEF Worker_Spurious, SpuriousWakeup
    <2>9. QED
      BY <1>10, <2>1, <2>2, <2>3, <2>4, <2>5, <2>6, <2>7, <2>8 DEF WorkerStep
  <1>11. CASE UNCHANGED vars
    BY <1>11 DEF vars
  <1>12. QED
    BY <1>1, <1>2, <1>3, <1>4, <1>5, <1>6, <1>7, <1>8, <1>9, <1>10, <1>11 DEF Next, WorldStep, Terminated

\* No notification is lost between Push and WaitAndPop, update_finished and wait,
\* or Cancel and the workers: the threads never all sleep with work left.  With
\* the fairness of the threads this is why an update and a shutdown end.
THEOREM NoLostWakeup == Spec => []NobodySleepsOn
  <1>1. Init => AwakeInv
    BY DEF Init, QueueInit, AwakeInv
  <1>2. IInv /\ AwakeInv => NobodySleepsOn
    <2> SUFFICES ASSUME IInv, AwakeInv PROVE NobodySleepsOn
      OBVIOUS
    <2> USE DEF IInv, AwakeInv
    <2>1. ASSUME queue # <<>> PROVE \E w \in Workers : Awake(w)
      <3>1. PICK w \in threads : w \notin waiting
        BY <2>1
      <3>2. ~cancelToken
        <4>1. pending # 0
          BY <2>1, NothingPending
        <4>2. QED
          BY <4>1 DEF Barrier, ShutdownOrder
      <3>3. w \in Workers /\ wpc[w] \in WorkerPC /\ wpc[w] \notin {"none", "exited", "crashed"}
        BY <3>1, <3>2 DEF TypeOK, WorkerState
      <3>4. QED
        BY <3>1, <3>3 DEF Awake, WorkerPC
    <2>2. ASSUME worldBlocked, queue = <<>> PROVE \E w \in Workers : Awake(w)
      <3>1. pending # 0 /\ Len(queue) = 0
        BY <2>2 DEF TypeOK
      <3>2. Held # {}
        BY <3>1, HeldFinite, FS_EmptySet DEF Counted
      <3>3. QED
        BY <3>2 DEF Held, Holding, Awake
    <2>3. QED
      BY <2>1, <2>2 DEF NobodySleepsOn
  <1>3. QED
    BY <1>1, <1>2, AwakeNext, Invariance, PTL DEF Spec

=============================================================================
