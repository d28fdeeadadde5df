----------------------------- MODULE MapUpdater -----------------------------
(***************************************************************************)
(* The parallel map update: MapManager (the world thread), MapUpdater (its *)
(* worker threads and the pending_requests counter) and MapInstanced,      *)
(* whose Update runs on a worker and schedules further updates from there. *)
(*                                                                         *)
(* The world thread owns the maps between two updates: sessions create     *)
(* maps, DelayedUpdate touches every map and UnloadAll destroys them all,  *)
(* none of it under a lock.  What keeps the workers out meanwhile is only  *)
(* that MapUpdater::wait has returned.                                     *)
(*                                                                         *)
(* MapUpdater::_lock is held to the end of schedule_update and             *)
(* update_finished, and given up in wait only by _condition.wait: each is  *)
(* one step, and `worldBlocked` says that the world thread is blocked.     *)
(***************************************************************************)
EXTENDS ProducerConsumerQueue, FiniteSets

CONSTANTS
    Workers,        \* the threads activate() may start
    BaseMaps,       \* ids of i_maps
    Instances,      \* ids of the maps inside MapInstanced::m_InstancedMaps
    ParentOf,       \* the MapInstanced an instance belongs to
    NoMap,          \* nullptr
    MaxTicks        \* bound on the number of updates explored

Maps == BaseMaps \cup Instances

ASSUME ThreadAssumption == IsFiniteSet(Workers)
ASSUME MapAssumption ==
    /\ NoMap \notin Maps
    /\ BaseMaps \cap Instances = {}
    /\ ParentOf \in [Instances -> BaseMaps]
ASSUME TickAssumption == MaxTicks \in Nat

VARIABLES
    world,          \* program counter of the world thread
    worldBlocked,   \* the world thread is in _condition.wait
    toSchedule,     \* maps MapManager::Update has not reached yet
    threads,        \* _workerThreads
    pending,        \* pending_requests
    cancelToken,    \* _cancelationToken
    wpc,            \* program counter of each worker
    request,        \* the map of the request a worker has popped
    toVisit,        \* instances MapInstanced::Update has not reached yet
    loaded,         \* the maps that exist: i_maps and m_InstancedMaps
    visits,         \* how often each map was handled in this update
    ticks           \* updates started so far

worldVars  == <<world, worldBlocked, toSchedule, ticks>>
workerVars == <<wpc, request, toVisit>>
vars == <<queueVars, worldVars, workerVars, threads, pending, cancelToken,
          loaded, visits>>

WorldPC == {"start", "tick", "schedule", "wait", "delayed",
            "unload", "deactivate", "cancel", "join", "done"}
WorkerPC == {"none", "pop", "check", "update", "finish", "exited", "crashed"}

TypeOK ==
    /\ queue \in Seq(Maps) /\ shutdown \in BOOLEAN /\ waiting \subseteq Workers
    /\ world \in WorldPC /\ worldBlocked \in BOOLEAN
    /\ toSchedule \subseteq BaseMaps
    /\ threads \subseteq Workers
    /\ pending \in Nat /\ cancelToken \in BOOLEAN
    /\ wpc \in [Workers -> WorkerPC]
    /\ request \in [Workers -> Maps \cup {NoMap}]
    /\ toVisit \in [Workers -> SUBSET Instances]
    /\ loaded \subseteq Maps
    /\ visits \in [Maps -> Nat]
    /\ ticks \in 0..MaxTicks

Init ==
    /\ QueueInit
    /\ world = "start" /\ worldBlocked = FALSE /\ toSchedule = {}
    /\ threads = {}
    /\ pending = 0 /\ cancelToken = FALSE
    /\ wpc = [w \in Workers |-> "none"]
    /\ request = [w \in Workers |-> NoMap]
    /\ toVisit = [w \in Workers |-> {}]
    /\ loaded = {}
    /\ visits = [m \in Maps |-> 0]
    /\ ticks = 0

activated == threads # {}

\* The instances of a base map that exist.
InstancesOf(m) == {i \in Instances \cap loaded : ParentOf[i] = m}

-----------------------------------------------------------------------------
(* MapUpdater                                                              *)

\* Mutant: a request that is queued but not counted.
ScheduleUncounted(m) ==
    /\ Push(m)
    /\ UNCHANGED pending

\* schedule_update: counted first, queued second, both under _lock.
schedule_update(m) ==
    /\ pending' = pending + 1
    /\ Push(m)

\* wait: the counter is tested, and the thread blocks while it is positive.
wait_Block ==
    /\ pending > 0
    /\ worldBlocked' = TRUE

\* Mutant: the test is off by one.
WaitOffByOne == pending <= 1

wait_Return == pending = 0

\* _condition.wait of the world thread returns without notification.
wait_Spurious ==
    /\ worldBlocked
    /\ worldBlocked' = FALSE
    /\ UNCHANGED <<queueVars, workerVars, threads, pending, cancelToken,
                   loaded, visits, world, toSchedule, ticks>>

-----------------------------------------------------------------------------
(* The worker threads                                                      *)

\* WorkerThread: WaitAndPop blocks, yields a request, or yields nothing.
Worker_Block(w) ==
    /\ wpc[w] = "pop"
    /\ WaitAndPop_Block(w)
    /\ UNCHANGED <<worldVars, workerVars, threads, pending, cancelToken,
                   loaded, visits>>

Worker_Take(w) ==
    /\ wpc[w] = "pop"
    /\ WaitAndPop_Take(w)
    /\ wpc' = [wpc EXCEPT ![w] = "check"]
    /\ request' = [request EXCEPT ![w] = Head(queue)]
    /\ UNCHANGED <<worldVars, toVisit, threads, pending, cancelToken,
                   loaded, visits>>

Worker_Empty(w) ==
    /\ wpc[w] = "pop"
    /\ WaitAndPop_Return(w)
    /\ wpc' = [wpc EXCEPT ![w] = "check"]
    /\ UNCHANGED <<worldVars, request, toVisit, threads, pending, cancelToken,
                   loaded, visits>>

\* After WaitAndPop only the token is tested: a popped request is then
\* abandoned, and without the token request->call() is made on whatever
\* WaitAndPop left behind, a null pointer included.
Worker_Check(w) ==
    /\ wpc[w] = "check"
    /\ \/ /\ cancelToken
          /\ wpc' = [wpc EXCEPT ![w] = "exited"]
          /\ UNCHANGED <<toVisit, visits>>
       \/ /\ ~cancelToken /\ request[w] = NoMap
          /\ wpc' = [wpc EXCEPT ![w] = "crashed"]
          /\ UNCHANGED <<toVisit, visits>>
       \/ /\ ~cancelToken /\ request[w] # NoMap
          /\ wpc' = [wpc EXCEPT ![w] = "update"]
          /\ visits' = [visits EXCEPT ![request[w]] = @ + 1]
          /\ toVisit' = [toVisit EXCEPT ![w] = InstancesOf(request[w])]
    /\ UNCHANGED <<queueVars, worldVars, request, threads, pending,
                   cancelToken, loaded>>

\* MapInstanced::Update, one instance: scheduled for an update of its own,
\* or, when CanUnload says so, destroyed or (players still there) left alone.
Worker_VisitInstance(w, i) ==
    /\ wpc[w] = "update"
    /\ i \in toVisit[w]
    /\ toVisit' = [toVisit EXCEPT ![w] = @ \ {i}]
    /\ \/ /\ schedule_update(i)
          /\ UNCHANGED <<loaded, visits>>
       \/ /\ loaded' \in {loaded, loaded \ {i}}
          /\ visits' = [visits EXCEPT ![i] = @ + 1]
          /\ UNCHANGED <<queueVars, pending>>
    /\ UNCHANGED <<worldVars, wpc, request, threads, cancelToken>>

Worker_Updated(w) ==
    /\ wpc[w] = "update"
    /\ toVisit[w] = {}
    /\ wpc' = [wpc EXCEPT ![w] = "finish"]
    /\ UNCHANGED <<queueVars, worldVars, request, toVisit, threads, pending,
                   cancelToken, loaded, visits>>

\* Mutant: the counter goes down but nobody is told.
FinishedWithoutNotify(w) ==
    /\ wpc[w] = "finish"
    /\ pending' = pending - 1
    /\ wpc' = [wpc EXCEPT ![w] = "pop"]
    /\ request' = [request EXCEPT ![w] = NoMap]
    /\ UNCHANGED <<queueVars, worldVars, toVisit, threads,
                   cancelToken, loaded, visits>>

\* update_finished, then the request is deleted and the loop starts again.
update_finished(w) ==
    /\ wpc[w] = "finish"
    /\ pending' = pending - 1
    /\ worldBlocked' = FALSE
    /\ wpc' = [wpc EXCEPT ![w] = "pop"]
    /\ request' = [request EXCEPT ![w] = NoMap]
    /\ UNCHANGED <<queueVars, world, toSchedule, ticks, toVisit, threads,
                   cancelToken, loaded, visits>>

Worker_Spurious(w) ==
    /\ SpuriousWakeup(w)
    /\ UNCHANGED <<worldVars, workerVars, threads, pending, cancelToken,
                   loaded, visits>>

-----------------------------------------------------------------------------
(* The world thread: MapManager                                            *)

\* Initialize: num_threads = 0 leaves the updater inactive.
Initialize(ts) ==
    /\ world = "start"
    /\ world' = "tick"
    /\ threads' = ts
    /\ wpc' = [w \in Workers |-> IF w \in ts THEN "pop" ELSE "none"]
    /\ UNCHANGED <<queueVars, worldBlocked, toSchedule, ticks, request,
                   toVisit, pending, cancelToken, loaded, visits>>

\* CreateMap, called by sessions on the world thread: a base map, or an
\* instance together with the MapInstanced that holds it.
CreateMap(m) ==
    /\ world = "tick"
    /\ m \in Maps \ loaded
    /\ loaded' = loaded \cup {m} \cup (IF m \in Instances THEN {ParentOf[m]} ELSE {})
    /\ UNCHANGED <<queueVars, worldVars, workerVars, threads, pending,
                   cancelToken, visits>>

\* Update: the timer has passed, the loop over i_maps begins.
Update_Start ==
    /\ world = "tick"
    /\ ticks < MaxTicks
    /\ ticks' = ticks + 1
    /\ world' = "schedule"
    /\ toSchedule' = loaded \cap BaseMaps
    /\ visits' = [m \in Maps |-> 0]
    /\ UNCHANGED <<queueVars, worldBlocked, workerVars, threads, pending,
                   cancelToken, loaded>>

Update_Schedule(m) ==
    /\ world = "schedule" /\ activated
    /\ m \in toSchedule
    /\ toSchedule' = toSchedule \ {m}
    /\ schedule_update(m)
    /\ UNCHANGED <<world, worldBlocked, ticks, workerVars, threads,
                   cancelToken, loaded, visits>>

\* Without workers the map, and inside its Update the instances it does not
\* unload, are updated by the world thread itself.
Update_Inline(m) ==
    /\ world = "schedule" /\ ~activated
    /\ m \in toSchedule
    /\ toSchedule' = toSchedule \ {m}
    /\ visits' = [n \in Maps |-> IF n \in {m} \cup InstancesOf(m)
                                 THEN visits[n] + 1 ELSE visits[n]]
    /\ \E gone \in SUBSET InstancesOf(m) : loaded' = loaded \ gone
    /\ UNCHANGED <<queueVars, world, worldBlocked, ticks, workerVars, threads,
                   pending, cancelToken>>

\* Mutant: the loop ends without m_updater.wait().
ScheduledNoWait ==
    /\ world = "schedule" /\ toSchedule = {}
    /\ world' = "delayed"
    /\ UNCHANGED <<queueVars, worldBlocked, toSchedule, ticks, workerVars,
                   threads, pending, cancelToken, loaded, visits>>

Update_Scheduled ==
    /\ world = "schedule" /\ toSchedule = {}
    /\ world' = IF activated THEN "wait" ELSE "delayed"
    /\ UNCHANGED <<queueVars, worldBlocked, toSchedule, ticks, workerVars,
                   threads, pending, cancelToken, loaded, visits>>

\* m_updater.wait(), here and in deactivate.
World_Wait ==
    /\ world \in {"wait", "deactivate"}
    /\ ~worldBlocked
    /\ \/ wait_Block /\ UNCHANGED world
       \/ /\ wait_Return
          /\ world' = IF world = "wait" THEN "delayed" ELSE "cancel"
          /\ UNCHANGED worldBlocked
    /\ UNCHANGED <<queueVars, toSchedule, ticks, workerVars, threads, pending,
                   cancelToken, loaded, visits>>

\* DelayedUpdate of every map, and the update is over.
DelayedUpdate ==
    /\ world = "delayed"
    /\ world' = "tick"
    /\ UNCHANGED <<queueVars, worldBlocked, toSchedule, ticks, workerVars,
                   threads, pending, cancelToken, loaded, visits>>

\* UnloadAll at shutdown: the maps are destroyed first ...
UnloadAll ==
    /\ world = "tick"
    /\ world' = "unload"
    /\ loaded' = {}
    /\ UNCHANGED <<queueVars, worldBlocked, toSchedule, ticks, workerVars,
                   threads, pending, cancelToken, visits>>

\* Mutant: the queue is cancelled before the token is set.
CancelBeforeToken ==
    /\ world = "unload"
    /\ IF activated THEN Cancel /\ world' = "deactivate"
                    ELSE UNCHANGED queueVars /\ world' = "done"
    /\ UNCHANGED <<worldBlocked, toSchedule, ticks, workerVars, cancelToken,
                   threads, pending, loaded, visits>>

\* ... then deactivate() sets the token, waits, cancels the queue and joins.
deactivate_Token ==
    /\ world = "unload"
    /\ IF activated THEN cancelToken' = TRUE /\ world' = "deactivate"
                    ELSE UNCHANGED cancelToken /\ world' = "done"
    /\ UNCHANGED <<queueVars, worldBlocked, toSchedule, ticks, workerVars,
                   threads, pending, loaded, visits>>

deactivate_Cancel ==
    /\ world = "cancel"
    /\ world' = "join"
    /\ Cancel
    /\ UNCHANGED <<worldBlocked, toSchedule, ticks, workerVars, threads,
                   pending, cancelToken, loaded, visits>>

deactivate_Join ==
    /\ world = "join"
    /\ \A w \in threads : wpc[w] = "exited"
    /\ world' = "done"
    /\ UNCHANGED <<queueVars, worldBlocked, toSchedule, ticks, workerVars,
                   threads, pending, cancelToken, loaded, visits>>

\* The process has ended.
Terminated == world = "done" /\ UNCHANGED vars

-----------------------------------------------------------------------------
WorkerStep(w) ==
    \/ Worker_Block(w) \/ Worker_Take(w) \/ Worker_Empty(w) \/ Worker_Check(w)
    \/ \E i \in Instances : Worker_VisitInstance(w, i)
    \/ Worker_Updated(w) \/ update_finished(w)

\* What the world thread does of itself once an update or a shutdown began.
WorldStep ==
    \/ \E m \in BaseMaps : Update_Schedule(m) \/ Update_Inline(m)
    \/ Update_Scheduled \/ World_Wait \/ DelayedUpdate
    \/ deactivate_Token \/ deactivate_Cancel \/ deactivate_Join

Next ==
    \/ \E ts \in SUBSET Workers : Initialize(ts)
    \/ \E m \in Maps : CreateMap(m)
    \/ Update_Start \/ UnloadAll \/ WorldStep
    \/ wait_Spurious
    \/ \E w \in Workers : WorkerStep(w) \/ Worker_Spurious(w)
    \/ Terminated

\* Every thread that can run is eventually scheduled by the OS; what sessions
\* and timers ask for, and spurious wakeups, are not forced.
Fairness ==
    /\ WF_vars(WorldStep)
    /\ \A w \in Workers : WF_vars(WorkerStep(w))

Spec == Init /\ [][Next]_vars
FairSpec == Spec /\ Fairness

-----------------------------------------------------------------------------
(* Properties                                                              *)

\* The phases in which the world thread uses the maps without a lock.
WorldOwnsMaps == world \in {"tick", "delayed", "unload", "done"}

Holding(w) == wpc[w] \in {"check", "update", "finish"} /\ request[w] # NoMap

\* While the world thread creates maps, runs DelayedUpdate or unloads, no
\* worker is inside Map::Update or holds a request, and none is queued: the
\* barrier of MapManager::Update also covers the updates that
\* MapInstanced::Update scheduled from a worker while wait() was running.
WorldExclusive ==
    WorldOwnsMaps => queue = <<>> /\ \A w \in Workers : ~Holding(w)

\* No request, queued or being run, refers to a map that was destroyed: an
\* instance is unloaded only by the update of its MapInstanced, which never
\* overlaps an update of that instance, and UnloadAll finds no request left.
RequestsAlive ==
    /\ \A k \in 1..Len(queue) : queue[k] \in loaded
    /\ \A w \in Workers : Holding(w) => request[w] \in loaded

\* When wait() has let the world thread through, every map that exists was
\* handled exactly once in this update, whatever thread it ran on.
UpdatedExactlyOnce ==
    world = "delayed" => \A m \in loaded : visits[m] = 1

\* WorkerThread never calls through a null request: it relies on the token
\* being set before the queue is cancelled.
NoNullRequest == \A w \in Workers : wpc[w] # "crashed"

Awake(w) == w \notin waiting /\ wpc[w] \in {"pop", "check", "update", "finish"}

\* No wakeup is lost: while a request is queued, or the world thread sleeps in
\* wait(), a worker is awake that will see to it; and nobody goes to sleep on a
\* queue that was cancelled.
NobodySleepsOn ==
    /\ queue # <<>> \/ worldBlocked => \E w \in Workers : Awake(w)
    /\ shutdown => waiting = {}

\* An update that was started comes to its end: wait() neither misses the
\* last notification nor waits for a request nobody will run.
UpdateEnds == world = "schedule" ~> world = "delayed"

\* deactivate() returns: no worker sleeps through Cancel, and the token never
\* makes a worker drop a request that wait() still counts.
ShutdownEnds == world = "unload" ~> world = "done"

=============================================================================
