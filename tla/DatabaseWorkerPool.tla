------------------------- MODULE DatabaseWorkerPool -------------------------
(***************************************************************************)
(* DatabaseWorkerPool: the connections to one database, the worker thread  *)
(* of each asynchronous connection (DatabaseWorker), the queue they share, *)
(* the mutex of each connection, and DatabaseLoader, which opens the pool, *)
(* creates a missing database, prepares the statements and closes it.      *)
(*                                                                         *)
(* A connection is a slot of _connections[IDX_ASYNC] or [IDX_SYNCH].  What *)
(* an operation does on the server is left to SQLTransaction; here an      *)
(* operation is enqueued, popped, executed and deleted, or dropped.        *)
(***************************************************************************)
EXTENDS ProducerConsumerQueue, FiniteSets, SequencesExt

CONSTANTS
    Async,              \* the asynchronous connections, each with its worker
    Sync,               \* the synchronous connections
    Clients,            \* threads of the core that use the pool
    Operations,         \* SQLOperation objects
    Nobody,             \* no operation, no connection, no owner
    AutoSetup,          \* Updates.AutoSetup
    Scripts             \* those of them that call PrepareCustomStatement

Connections == Async \cup Sync

ASSUME PoolAssumption ==
    /\ IsFiniteSet(Connections) /\ Async # {} /\ Sync # {} /\ Async \cap Sync = {}
    /\ Nobody \notin Connections \cup Clients \cup Operations
    /\ AutoSetup \in BOOLEAN /\ Scripts \subseteq Clients

VARIABLES
    loader,         \* program counter of the thread that opens and closes
    attempt,        \* the first or the second call of Open
    dbExists,       \* the server knows the database (external)
    conn,           \* what exists of each connection object
    toDestroy,      \* connections a clear() has still to destroy
    dying,          \* the connection whose destructor runs
    afterwards,     \* what the loader does when all are destroyed
    wpc,            \* program counter of each worker
    operation,      \* the operation a worker has popped
    token,          \* DatabaseWorker::_cancelationToken
    owner,          \* who holds m_Mutex of each connection
    using,          \* the connection each client is working with
    customIds,      \* m_customIds, as the clients that made an entry
    customLeft,     \* connections PrepareCustomStatement has still to visit
    pushed,         \* the operations in the order they were enqueued
    done            \* the operations in the order their execution ended

loaderVars == <<loader, attempt, dbExists, toDestroy, dying, afterwards>>
workerVars == <<wpc, operation, token>>
clientVars == <<owner, using, customIds, customLeft>>
vars == <<queueVars, loaderVars, conn, workerVars, clientVars, pushed, done>>

LoaderPC == {"open", "connect", "opensync", "destroy", "cancel", "join",
             "create", "prepare", "running", "failed", "closed"}

TypeOK ==
    /\ queue \in Seq(Operations) /\ shutdown \in BOOLEAN /\ waiting \subseteq Async
    /\ loader \in LoaderPC /\ attempt \in 1..2 /\ dbExists \in BOOLEAN
    /\ conn \in [Connections -> {"none", "unopened", "open", "ready"}]
    /\ toDestroy \subseteq Connections
    /\ dying \in Connections \cup {Nobody}
    /\ afterwards \in LoaderPC
    /\ wpc \in [Async -> {"none", "pop", "check", "execute", "exited"}]
    /\ operation \in [Async -> Operations \cup {Nobody}]
    /\ token \in [Async -> BOOLEAN]
    /\ owner \in [Connections -> Clients \cup {Nobody}]
    /\ using \in [Clients -> Connections \cup {Nobody}]
    /\ customIds \subseteq Clients
    /\ customLeft \in [Clients -> SUBSET Connections]
    /\ pushed \in Seq(Operations) /\ done \in Seq(Operations)

Init ==
    /\ QueueInit
    /\ loader = "open" /\ attempt = 1 /\ dbExists \in BOOLEAN
    /\ conn = [c \in Connections |-> "none"]
    /\ toDestroy = {} /\ dying = Nobody /\ afterwards = "closed"
    /\ wpc = [a \in Async |-> "none"]
    /\ operation = [a \in Async |-> Nobody]
    /\ token = [a \in Async |-> FALSE]
    /\ owner = [c \in Connections |-> Nobody]
    /\ using = [t \in Clients |-> Nobody]
    /\ customIds = {} /\ customLeft = [t \in Clients |-> {}]
    /\ pushed = <<>> /\ done = <<>>

-----------------------------------------------------------------------------
(* Opening: DatabaseWorkerPool::Open, OpenConnections                      *)

\* The constructor of an asynchronous connection starts its worker before the
\* connection to the server is made.
OpenConnections_Construct(a) ==
    /\ loader = "open"
    /\ conn[a] = "none"
    /\ conn' = [conn EXCEPT ![a] = "unopened"]
    /\ wpc' = [wpc EXCEPT ![a] = "pop"]
    /\ operation' = [operation EXCEPT ![a] = Nobody]
    /\ token' = [token EXCEPT ![a] = FALSE]
    /\ loader' = "connect"
    /\ UNCHANGED <<queueVars, attempt, dbExists, toDestroy, dying, afterwards,
                   clientVars, pushed, done>>

\* Connection c cannot be opened: it and the others of its type are destroyed.
\* Or the server is too old: only c is.  What is left of the pool goes with the
\* process.  A missing database leads to a second attempt, if auto setup is
\* enabled and this was the first.
OpenFails(type, c) ==
    /\ loader' = "destroy"
    /\ \/ toDestroy' = {d \in type : conn[d] # "none"}
       \/ dbExists /\ toDestroy' = {d \in {c} : conn[d] # "none"}
    /\ afterwards' = IF ~dbExists /\ AutoSetup /\ attempt = 1 THEN "create" ELSE "failed"
    /\ UNCHANGED conn

\* MySQLConnection::Open of the asynchronous connection just constructed.
OpenConnections_Connect(a) ==
    /\ loader = "connect"
    /\ conn[a] = "unopened"
    /\ \/ /\ dbExists
          /\ conn' = [conn EXCEPT ![a] = "open"]
          /\ loader' = IF \A b \in Async \ {a} : conn[b] = "open" THEN "opensync" ELSE "open"
          /\ UNCHANGED <<toDestroy, afterwards>>
       \/ OpenFails(Async, a)
    /\ UNCHANGED <<queueVars, attempt, dbExists, dying, workerVars, clientVars,
                   pushed, done>>

OpenConnections_Sync(c) ==
    /\ loader = "opensync"
    /\ conn[c] = "none"
    /\ \/ /\ conn' = [conn EXCEPT ![c] = "open"]
          /\ loader' = IF \A d \in Sync \ {c} : conn[d] = "open" THEN "prepare" ELSE "opensync"
          /\ UNCHANGED <<toDestroy, afterwards>>
       \/ OpenFails(Sync, c)
    /\ UNCHANGED <<queueVars, attempt, dbExists, dying, workerVars, clientVars,
                   pushed, done>>

\* DatabaseLoader: the database is created and the pool opened again.
CreateDatabase ==
    /\ loader = "create"
    /\ \/ dbExists' = TRUE /\ attempt' = 2 /\ loader' = "open"
       \/ UNCHANGED <<dbExists, attempt>> /\ loader' = "failed"
    /\ UNCHANGED <<queueVars, toDestroy, dying, afterwards, conn, workerVars,
                   clientVars, pushed, done>>

\* PrepareStatements: each connection in turn; a failure closes the pool.
\* No other thread of the core uses the pool yet: LockIfReady, whose result
\* is not looked at, and Unlock leave the mutex free.
PrepareStatements(c) ==
    /\ loader = "prepare"
    /\ conn[c] = "open"
    /\ \/ /\ conn' = [conn EXCEPT ![c] = "ready"]
          /\ loader' = IF \A d \in Connections \ {c} : conn[d] = "ready"
                       THEN "running" ELSE "prepare"
          /\ UNCHANGED <<toDestroy, afterwards>>
       \/ /\ loader' = "destroy"
          /\ toDestroy' = Connections
          /\ afterwards' = "closed"
          /\ UNCHANGED conn
    /\ UNCHANGED <<queueVars, attempt, dbExists, dying, workerVars, clientVars,
                   pushed, done>>

-----------------------------------------------------------------------------
(* Closing                                                                 *)

\* Close is called when the other threads of the core have ended.
Close ==
    /\ loader = "running"
    /\ \A t \in Clients : using[t] = Nobody /\ customLeft[t] = {}
    /\ loader' = "destroy"
    /\ toDestroy' = Connections
    /\ afterwards' = "closed"
    /\ UNCHANGED <<queueVars, attempt, dbExists, dying, conn, workerVars,
                   clientVars, pushed, done>>

\* clear() destroys one connection after the other.  A synchronous one has no
\* worker and just goes; ~DatabaseWorker sets its own token ...
Destroy_Token(c) ==
    /\ loader = "destroy"
    /\ c \in toDestroy
    /\ toDestroy' = toDestroy \ {c}
    /\ IF c \in Async
       THEN /\ dying' = c
            /\ token' = [token EXCEPT ![c] = TRUE]
            /\ loader' = "cancel"
            /\ UNCHANGED conn
       ELSE /\ conn' = [conn EXCEPT ![c] = "none"]
            /\ UNCHANGED <<dying, token, loader>>
    /\ UNCHANGED <<queueVars, attempt, dbExists, afterwards, wpc, operation,
                   clientVars, pushed, done>>

\* ... cancels the queue all workers share ...
Destroy_Cancel ==
    /\ loader = "cancel"
    /\ Cancel
    /\ loader' = "join"
    /\ UNCHANGED <<attempt, dbExists, toDestroy, dying, afterwards, conn,
                   workerVars, clientVars, pushed, done>>

\* Mutant: the handle is closed without waiting for the worker.
DestroyWithoutJoin ==
    /\ loader = "join"
    /\ loader' = "destroy"
    /\ conn' = [conn EXCEPT ![dying] = "none"]
    /\ dying' = Nobody
    /\ UNCHANGED <<queueVars, attempt, dbExists, toDestroy, afterwards,
                   workerVars, clientVars, pushed, done>>

\* ... and joins its worker; then the statements and the handle go.
Destroy_Join ==
    /\ loader = "join"
    /\ wpc[dying] = "exited"
    /\ loader' = "destroy"
    /\ conn' = [conn EXCEPT ![dying] = "none"]
    /\ dying' = Nobody
    /\ UNCHANGED <<queueVars, attempt, dbExists, toDestroy, afterwards,
                   workerVars, clientVars, pushed, done>>

Destroyed ==
    /\ loader = "destroy"
    /\ toDestroy = {}
    /\ loader' = afterwards
    /\ UNCHANGED <<queueVars, attempt, dbExists, toDestroy, dying, afterwards,
                   conn, workerVars, clientVars, pushed, done>>

\* The process ends without a Close of this pool: ~DatabaseWorkerPool cancels
\* the queue, and the connections that are left are destroyed.
PoolDestructor ==
    /\ loader = "failed"
    /\ Cancel
    /\ loader' = "destroy"
    /\ toDestroy' = {c \in Connections : conn[c] # "none"}
    /\ afterwards' = "closed"
    /\ UNCHANGED <<attempt, dbExists, dying, conn, workerVars, clientVars, pushed, done>>

Terminated == loader = "closed" /\ UNCHANGED vars

-----------------------------------------------------------------------------
(* DatabaseWorker::WorkerThread                                            *)

Worker_Block(a) ==
    /\ wpc[a] = "pop"
    /\ WaitAndPop_Block(a)
    /\ UNCHANGED <<loaderVars, conn, workerVars, clientVars, pushed, done>>

Worker_Take(a) ==
    /\ wpc[a] = "pop"
    /\ WaitAndPop_Take(a)
    /\ wpc' = [wpc EXCEPT ![a] = "check"]
    /\ operation' = [operation EXCEPT ![a] = Head(queue)]
    /\ UNCHANGED <<loaderVars, conn, token, clientVars, pushed, done>>

Worker_Empty(a) ==
    /\ wpc[a] = "pop"
    /\ WaitAndPop_Return(a)
    /\ wpc' = [wpc EXCEPT ![a] = "check"]
    /\ UNCHANGED <<loaderVars, conn, operation, token, clientVars, pushed, done>>

\* Mutant: the worker ends as soon as the queue is cancelled or empty.
CheckQueueEmpty(a) ==
    /\ wpc[a] = "check"
    /\ wpc' = [wpc EXCEPT ![a] = IF token[a] \/ operation[a] = Nobody \/ queue = <<>>
                                 THEN "exited" ELSE "execute"]
    /\ UNCHANGED <<queueVars, loaderVars, conn, operation, token, clientVars,
                   pushed, done>>

\* The thread ends when its token is set (what it popped is then abandoned)
\* or when WaitAndPop brought nothing.
Worker_Check(a) ==
    /\ wpc[a] = "check"
    /\ wpc' = [wpc EXCEPT ![a] = IF token[a] \/ operation[a] = Nobody
                                 THEN "exited" ELSE "execute"]
    /\ UNCHANGED <<queueVars, loaderVars, conn, operation, token, clientVars,
                   pushed, done>>

\* The operation runs on the worker's connection and is deleted.
Worker_Execute(a) ==
    /\ wpc[a] = "execute"
    /\ wpc' = [wpc EXCEPT ![a] = "pop"]
    /\ done' = Append(done, operation[a])
    /\ operation' = [operation EXCEPT ![a] = Nobody]
    /\ UNCHANGED <<queueVars, loaderVars, conn, token, clientVars, pushed>>

Worker_Spurious(a) ==
    /\ SpuriousWakeup(a)
    /\ UNCHANGED <<loaderVars, conn, workerVars, clientVars, pushed, done>>

-----------------------------------------------------------------------------
(* The threads of the core                                                 *)

\* Execute, AsyncQuery, DelayQueryHolder, CommitTransaction, the pings of
\* KeepAlive: an operation is allocated and pushed.
Enqueue(o) ==
    /\ loader = "running"
    /\ o \notin Range(pushed)
    /\ Push(o)
    /\ pushed' = Append(pushed, o)
    /\ UNCHANGED <<loaderVars, conn, workerVars, clientVars, done>>

\* Mutant: the result of try_lock is ignored.
TakeAnyConnection(t, c) ==
    /\ loader = "running"
    /\ using[t] = Nobody /\ customLeft[t] = {}
    /\ owner' = [owner EXCEPT ![c] = t]
    /\ using' = [using EXCEPT ![t] = c]
    /\ UNCHANGED <<queueVars, loaderVars, conn, workerVars, customIds, customLeft, pushed, done>>

\* GetFreeConnection (Query, DirectExecute, DirectCommitTransaction) tries one
\* connection after the other until LockIfReady succeeds.
GetFreeConnection(t, c) ==
    /\ loader = "running"
    /\ using[t] = Nobody /\ customLeft[t] = {}
    /\ owner[c] = Nobody
    /\ owner' = [owner EXCEPT ![c] = t]
    /\ using' = [using EXCEPT ![t] = c]
    /\ UNCHANGED <<queueVars, loaderVars, conn, workerVars, customIds, customLeft, pushed, done>>

Unlock(t) ==
    /\ using[t] # Nobody /\ customLeft[t] = {}
    /\ owner' = [owner EXCEPT ![using[t]] = Nobody]
    /\ using' = [using EXCEPT ![t] = Nobody]
    /\ UNCHANGED <<queueVars, loaderVars, conn, workerVars, customIds, customLeft, pushed, done>>

\* PrepareCustomStatement goes through every connection, the asynchronous
\* ones included.
PrepareCustomStatement_Start(t) ==
    /\ loader = "running" /\ t \in Scripts
    /\ using[t] = Nobody /\ customLeft[t] = {}
    /\ customIds' = customIds \cup {t}
    /\ customLeft' = [customLeft EXCEPT ![t] = Connections]
    /\ UNCHANGED <<queueVars, loaderVars, conn, workerVars, owner, using, pushed, done>>

\* LockIfReady may fail: the connection is used all the same, and unlocked.
PrepareCustomStatement_Lock(t, c) ==
    /\ using[t] = Nobody /\ c \in customLeft[t]
    /\ using' = [using EXCEPT ![t] = c]
    /\ owner' = IF owner[c] = Nobody THEN [owner EXCEPT ![c] = t] ELSE owner
    /\ UNCHANGED <<queueVars, loaderVars, conn, workerVars, customIds, customLeft, pushed, done>>

PrepareCustomStatement_Unlock(t) ==
    /\ using[t] # Nobody /\ using[t] \in customLeft[t]
    /\ owner' = [owner EXCEPT ![using[t]] = Nobody]
    /\ customLeft' = [customLeft EXCEPT ![t] = @ \ {using[t]}]
    /\ using' = [using EXCEPT ![t] = Nobody]
    /\ UNCHANGED <<queueVars, loaderVars, conn, workerVars, customIds, pushed, done>>

-----------------------------------------------------------------------------
LoaderStep ==
    \/ \E a \in Async : OpenConnections_Construct(a) \/ OpenConnections_Connect(a)
    \/ \E c \in Sync : OpenConnections_Sync(c)
    \/ CreateDatabase
    \/ \E c \in Connections : PrepareStatements(c) \/ Destroy_Token(c)
    \/ Destroy_Cancel \/ Destroy_Join \/ Destroyed \/ PoolDestructor

WorkerStep(a) ==
    \/ Worker_Block(a) \/ Worker_Take(a) \/ Worker_Empty(a)
    \/ Worker_Check(a) \/ Worker_Execute(a)

ClientStep(t) ==
    \/ \E c \in Sync : GetFreeConnection(t, c)
    \/ Unlock(t)
    \/ PrepareCustomStatement_Start(t)
    \/ \E c \in Connections : PrepareCustomStatement_Lock(t, c)
    \/ PrepareCustomStatement_Unlock(t)

Next ==
    \/ LoaderStep \/ Close \/ Terminated
    \/ \E a \in Async : WorkerStep(a) \/ Worker_Spurious(a)
    \/ \E o \in Operations : Enqueue(o)
    \/ \E t \in Clients : ClientStep(t)

Spec == Init /\ [][Next]_vars

\* Threads that can run are scheduled, and every statement comes to an end.
\* Nobody is forced to use the pool or to close it.
FairSpec ==
    /\ Spec
    /\ WF_vars(LoaderStep)
    /\ \A a \in Async : WF_vars(WorkerStep(a))

-----------------------------------------------------------------------------
(* Properties                                                              *)

Held == {operation[a] : a \in {b \in Async : wpc[b] # "exited"}} \ {Nobody}

\* A worker that executes has an operation to execute, its connection exists,
\* is open and has its statements: the worker is started before Open and the
\* queue is cancelled under it, and still neither a null operation nor a
\* connection that is half built or half destroyed is used.
WorkerSafe ==
    \A a \in Async : wpc[a] = "execute" => operation[a] # Nobody /\ conn[a] = "ready"

\* Until the pool is closed nothing that was enqueued disappears, and at no
\* time is anything executed twice or executed that was not enqueued.
Conservation ==
    /\ \A i, j \in 1..Len(done) : done[i] = done[j] => i = j
    /\ Range(done) \subseteq Range(pushed)
    /\ loader = "running" => Range(pushed) = Range(queue) \cup Held \cup Range(done)

\* Operations are taken in the order they were enqueued, and one can be
\* overtaken only while another worker has it in hand: fewer than the number
\* of workers are unfinished before one that has finished.  With one worker
\* (the default of Database.WorkerThreads) a later save never overtakes an
\* earlier one.
Overtaken ==
    {i \in DOMAIN pushed : /\ pushed[i] \notin Range(done)
                           /\ \E j \in DOMAIN pushed : j > i /\ pushed[j] \in Range(done)}
TakenInOrder == Cardinality(Overtaken) < Cardinality(Async)

\* As long as no script has prepared a custom statement, no two threads work with
\* the same connection at the same time: neither two clients, nor a client and the
\* worker of an asynchronous connection.
ConnectionExclusive == customIds = {} =>
    /\ \A t, u \in Clients : using[t] # Nobody /\ using[t] = using[u] => t = u
    /\ \A t \in Clients : using[t] \in Async => wpc[using[t]] # "execute"

\* No wakeup is lost: a queue with operations in it has a worker that is awake,
\* and nobody sleeps on a queue that was cancelled, least of all a worker that is
\* being joined.  Only a pool that auto setup opened for the second time can run
\* on a cancelled queue.
NobodySleepsOn ==
    /\ queue # <<>> /\ ~shutdown /\ loader # "cancel" =>
          \E a \in Async : a \notin waiting /\ wpc[a] \in {"pop", "check", "execute"}
    /\ shutdown \/ loader = "join" => waiting = {}
    /\ loader = "running" /\ shutdown => AutoSetup /\ attempt = 2

\* "Enqueues a one-way SQL operation [...] that will be executed
\* asynchronously": as long as the pool is not closed it is executed.
OperationsRun ==
    \A o \in Operations :
        o \in Range(pushed) ~> o \in Range(done) \/ loader # "running"

\* The same for a pool whose first Open succeeded: with one that auto setup opened
\* again it is not so.
OperationsRunAtFirst ==
    \A o \in Operations :
        o \in Range(pushed) ~> o \in Range(done) \/ loader # "running" \/ attempt = 2

\* Close, a failed Open and the end of the process always come through their
\* joins: no worker sleeps through the cancellation of the queue.
CloseEnds == loader = "destroy" ~> loader \in {"closed", "open"}

\* "save and kick all players" before the pool is closed: what was enqueued by
\* then has been executed when the process ends.
SavedAtShutdown ==
    loader = "closed" => Range(pushed) = Range(done)

=============================================================================
