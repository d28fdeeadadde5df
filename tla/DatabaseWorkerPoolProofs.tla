---------------------- MODULE DatabaseWorkerPoolProofs ----------------------
(***************************************************************************)
(* Proofs about DatabaseWorkerPool for any number of connections, clients  *)
(* and operations.                                                         *)
(*                                                                         *)
(* A worker never tests whether its connection is open.  That it is rests  *)
(* on the order of the loader: nothing is enqueued before every connection *)
(* is open and prepared (`Started`), and once something was, a connection  *)
(* goes away only after its worker has exited.  A second invariant,        *)
(* `HistoryInv`, follows the operations: a prefix of what was enqueued has *)
(* been taken, and each of these is in hand or was executed, once.         *)
(***************************************************************************)
EXTENDS DatabaseWorkerPool, SequenceTheorems, FiniteSetTheorems, TLAPS

\* Before the first operation is enqueued no worker has anything to do.
Quiet ==
    pushed = <<>> => queue = <<>> /\ \A a \in Async : operation[a] = Nobody

\* After it, the pool is running or being closed for good, and a connection is
\* ready as long as its worker is there.
Started ==
    pushed # <<>> =>
        /\ loader \in {"running", "destroy", "cancel", "join", "closed"}
        /\ loader # "running" => afterwards = "closed"
        /\ \A a \in Async : conn[a] = "ready" \/ wpc[a] = "exited"

Order ==
    /\ loader = "running" => \A c \in Connections : conn[c] = "ready"
    /\ loader \in {"cancel", "join"} => dying \in Async
    /\ afterwards \in {"create", "closed", "failed"}
    /\ \A a \in Async : wpc[a] = "execute" => operation[a] # Nobody

ClientTypes ==
    /\ owner \in [Connections -> Clients \cup {Nobody}]
    /\ using \in [Clients -> Connections \cup {Nobody}]
    /\ customIds \subseteq Clients /\ customLeft \in [Clients -> SUBSET Connections]

PoolInv == TypeOK /\ Quiet /\ Started /\ Order

-----------------------------------------------------------------------------
\* The constructor of the pool establishes the invariant.
LEMMA PoolInit == Init => PoolInv
  <1> SUFFICES ASSUME Init PROVE PoolInv
    OBVIOUS
  <1> USE DEF Init, QueueInit
  <1>1. shutdown \in BOOLEAN /\ dbExists \in BOOLEAN /\ FALSE \in BOOLEAN
    BY Zenon
  <1>2. token \in [Async -> BOOLEAN]
    BY <1>1
  <1>3. /\ queue \in Seq(Operations) /\ pushed \in Seq(Operations) /\ done \in Seq(Operations)
        /\ waiting \subseteq Async /\ loader \in LoaderPC /\ attempt \in 1..2
        /\ afterwards \in LoaderPC
    BY DEF LoaderPC
  <1>4. /\ conn \in [Connections -> {"none", "unopened", "open", "ready"}]
        /\ wpc \in [Async -> {"none", "pop", "check", "execute", "exited"}]
        /\ operation \in [Async -> Operations \cup {Nobody}]
        /\ owner \in [Connections -> Clients \cup {Nobody}]
        /\ using \in [Clients -> Connections \cup {Nobody}]
        /\ customIds \subseteq Clients /\ customLeft \in [Clients -> SUBSET Connections]
        /\ toDestroy \subseteq Connections /\ dying \in Connections \cup {Nobody}
    OBVIOUS
  <1>5. TypeOK
    BY <1>1, <1>2, <1>3, <1>4, Zenon DEF TypeOK
  <1>6. Quiet /\ Started /\ Order
    BY DEF Quiet, Started, Order
  <1> QED
    BY <1>5, <1>6 DEF PoolInv

\* A worker blocks, wakes up, or comes back from WaitAndPop.
LEMMA PopInv ==
  ASSUME PoolInv, NEW a \in Async,
         Worker_Block(a) \/ Worker_Spurious(a) \/ Worker_Take(a) \/ Worker_Empty(a)
  PROVE  PoolInv'
  <1> USE DEF PoolInv, loaderVars, clientVars
  <1>1. CASE Worker_Block(a) \/ Worker_Spurious(a)
    <2> USE <1>1 DEF Worker_Block, Worker_Spurious, WaitAndPop_Block, SpuriousWakeup, workerVars
    <2>1. TypeOK'
      BY DEF TypeOK
    <2> QED
      BY <2>1 DEF Quiet, Started, Order
  <1>2. CASE Worker_Take(a)
    <2> USE <1>2 DEF Worker_Take, WaitAndPop_Take
    <2>1. TypeOK'
      BY DEF TypeOK
    <2>2. pushed # <<>>
      BY DEF Quiet
    <2>3. conn[a] = "ready"
      BY <2>2 DEF Started
    <2>4. Quiet' /\ Started'
      BY <2>2, <2>3 DEF Quiet, Started, TypeOK
    <2>5. Order'
      BY DEF Order, TypeOK
    <2> QED
      BY <2>1, <2>4, <2>5
  <1>3. CASE Worker_Empty(a)
    <2> USE <1>3 DEF Worker_Empty, WaitAndPop_Return, queueVars
    <2>1. TypeOK'
      BY DEF TypeOK
    <2>2. Quiet' /\ Started'
      BY DEF Quiet, Started, TypeOK
    <2>3. Order'
      BY DEF Order, TypeOK
    <2> QED
      BY <2>1, <2>2, <2>3
  <1> QED
    BY <1>1, <1>2, <1>3

\* A worker tests what it got, and executes it.
LEMMA ExecuteInv ==
  ASSUME PoolInv, NEW a \in Async, Worker_Check(a) \/ Worker_Execute(a)
  PROVE  PoolInv'
  <1> USE DEF PoolInv, loaderVars, clientVars, queueVars
  <1>1. CASE Worker_Check(a)
    <2> USE <1>1 DEF Worker_Check
    <2>1. TypeOK'
      BY DEF TypeOK
    <2>2. Quiet' /\ Started'
      BY DEF Quiet, Started, TypeOK
    <2>3. Order'
      BY DEF Order, TypeOK
    <2> QED
      BY <2>1, <2>2, <2>3
  <1>2. CASE Worker_Execute(a)
    <2> USE <1>2 DEF Worker_Execute
    <2>1. operation[a] \in Operations
      BY DEF Order, TypeOK
    <2>2. TypeOK'
      BY <2>1 DEF TypeOK
    <2>3. Quiet' /\ Started'
      BY DEF Quiet, Started, TypeOK
    <2>4. Order'
      BY DEF Order, TypeOK
    <2> QED
      BY <2>2, <2>3, <2>4
  <1> QED
    BY <1>1, <1>2

\* The clients: an operation is enqueued only while every connection is ready.
LEMMA ClientInv ==
  ASSUME PoolInv,
         (\E o \in Operations : Enqueue(o)) \/ \E t \in Clients : ClientStep(t)
  PROVE  PoolInv'
  <1> USE DEF PoolInv
  <1>1. ASSUME NEW o \in Operations, Enqueue(o)
        PROVE  PoolInv'
    <2> USE <1>1 DEF Enqueue, Push, NotifyOne, loaderVars, workerVars, clientVars
    <2>1. TypeOK'
      BY DEF TypeOK
    <2>2. pushed' # <<>>
      <3>1. pushed \in Seq(Operations) /\ pushed' = Append(pushed, o)
        BY DEF TypeOK
      <3>2. Append(pushed, o) # <<>>
        BY <3>1
      <3> QED
        BY <3>1, <3>2
    <2>3. \A a \in Async : conn[a] = "ready"
      BY DEF Order, Connections
    <2> QED
      BY <2>1, <2>2, <2>3 DEF Quiet, Started, Order
  <1>2. ASSUME NEW t \in Clients, ClientStep(t)
        PROVE  PoolInv'
    <2>1. UNCHANGED <<queueVars, loaderVars, conn, workerVars, pushed, done>>
      BY <1>2 DEF ClientStep, GetFreeConnection, Unlock, PrepareCustomStatement_Start,
                  PrepareCustomStatement_Lock, PrepareCustomStatement_Unlock
    <2>2. /\ owner' \in [Connections -> Clients \cup {Nobody}]
          /\ using' \in [Clients -> Connections \cup {Nobody}]
          /\ customIds' \subseteq Clients /\ customLeft' \in [Clients -> SUBSET Connections]
      <3> USE DEF TypeOK, Connections
      <3>1. ASSUME NEW c \in Sync, GetFreeConnection(t, c) PROVE ClientTypes'
        BY <3>1 DEF GetFreeConnection, ClientTypes
      <3>2. CASE Unlock(t)
        BY <3>2 DEF Unlock, ClientTypes
      <3>3. CASE PrepareCustomStatement_Start(t)
        BY <3>3 DEF PrepareCustomStatement_Start, ClientTypes
      <3>4. ASSUME NEW c \in Connections, PrepareCustomStatement_Lock(t, c) PROVE ClientTypes'
        BY <3>4 DEF PrepareCustomStatement_Lock, ClientTypes
      <3>5. CASE PrepareCustomStatement_Unlock(t)
        BY <3>5 DEF PrepareCustomStatement_Unlock, ClientTypes
      <3> QED
        BY <1>2, <3>1, <3>2, <3>3, <3>4, <3>5 DEF ClientStep, ClientTypes
    <2>3. TypeOK'
      BY <2>1, <2>2 DEF TypeOK, queueVars, loaderVars, workerVars
    <2> QED
      BY <2>1, <2>3 DEF Quiet, Started, Order, queueVars, loaderVars, workerVars
  <1> QED
    BY <1>1, <1>2

\* Opening: nothing has been enqueued yet.
LEMMA OpenInv ==
  ASSUME PoolInv,
         \/ \E a \in Async : OpenConnections_Construct(a) \/ OpenConnections_Connect(a)
         \/ \E c \in Sync : OpenConnections_Sync(c)
         \/ CreateDatabase
         \/ \E c \in Connections : PrepareStatements(c)
  PROVE  PoolInv'
  <1> USE DEF PoolInv, queueVars, clientVars
  <1>1. ASSUME NEW a \in Async, OpenConnections_Construct(a)
        PROVE  PoolInv'
    <2> USE <1>1 DEF OpenConnections_Construct
    <2>1. token' \in [Async -> BOOLEAN]
      <3>1. FALSE \in BOOLEAN
        BY Zenon
      <3> QED
        BY <3>1 DEF TypeOK
    <2>2. TypeOK'
      BY <2>1 DEF TypeOK, LoaderPC, Connections
    <2>3. pushed = <<>> /\ UNCHANGED pushed
      BY DEF Started
    <2>4. Quiet' /\ Started'
      BY <2>3 DEF Quiet, Started, TypeOK
    <2>5. Order'
      BY DEF Order, TypeOK
    <2> QED
      BY <2>2, <2>4, <2>5
  <1>2. ASSUME NEW c \in Connections, loader \in {"connect", "opensync"},
               \/ /\ conn' = [conn EXCEPT ![c] = "open"]
                  /\ loader' \in {"open", "opensync", "prepare"}
                  /\ UNCHANGED <<toDestroy, afterwards>>
               \/ \E type \in {Async, Sync} : OpenFails(type, c),
               UNCHANGED <<queueVars, attempt, dbExists, dying, workerVars, clientVars,
                           pushed, done>>
        PROVE  PoolInv'
    <2>1. pushed = <<>> /\ UNCHANGED pushed
      BY <1>2 DEF Started
    <2>2. TypeOK'
      <3>1. CASE \E type \in {Async, Sync} : OpenFails(type, c)
        <4>1. PICK type \in {Async, Sync} : OpenFails(type, c)
          BY <3>1
        <4>2. toDestroy' \subseteq Connections
          BY <4>1 DEF OpenFails, Connections
        <4>3. loader' \in LoaderPC /\ afterwards' \in LoaderPC /\ UNCHANGED conn
          BY <4>1 DEF OpenFails, LoaderPC
        <4>4. QED
          BY <1>2, <4>2, <4>3 DEF TypeOK, workerVars
      <3>2. CASE ~\E type \in {Async, Sync} : OpenFails(type, c)
        BY <1>2, <3>2 DEF TypeOK, LoaderPC, workerVars
      <3>3. QED
        BY <3>1, <3>2
    <2>3. Quiet' /\ Started'
      BY <1>2, <2>1 DEF Quiet, Started, workerVars
    <2>4. Order'
      BY <1>2 DEF Order, OpenFails, workerVars
    <2> QED
      BY <2>2, <2>3, <2>4
  <1>3. ASSUME NEW a \in Async, OpenConnections_Connect(a)
        PROVE  PoolInv'
    <2>1. a \in Connections
      BY DEF Connections
    <2> QED
      BY <1>2, <1>3, <2>1 DEF OpenConnections_Connect
  <1>4. ASSUME NEW c \in Sync, OpenConnections_Sync(c)
        PROVE  PoolInv'
    <2>1. c \in Connections
      BY DEF Connections
    <2> QED
      BY <1>2, <1>4, <2>1 DEF OpenConnections_Sync
  <1>5. CASE CreateDatabase
    <2> USE <1>5 DEF CreateDatabase
    <2>1. pushed = <<>> /\ UNCHANGED pushed
      BY DEF Started
    <2>2. dbExists' \in BOOLEAN
      BY Zenon DEF TypeOK
    <2>3. TypeOK'
      BY <2>2 DEF TypeOK, LoaderPC, workerVars
    <2> QED
      BY <2>1, <2>3 DEF Quiet, Started, Order, workerVars
  <1>6. ASSUME NEW c \in Connections, PrepareStatements(c)
        PROVE  PoolInv'
    <2> USE <1>6 DEF PrepareStatements
    <2>1. pushed = <<>> /\ UNCHANGED pushed
      BY DEF Started
    <2>2. TypeOK'
      BY DEF TypeOK, LoaderPC, workerVars
    <2>3. Quiet' /\ Started'
      BY <2>1 DEF Quiet, Started, workerVars
    <2>4. Order'
      <3>1. CASE loader' = "destroy" /\ afterwards' = "closed"
        BY <3>1 DEF Order, workerVars
      <3>2. CASE /\ conn' = [conn EXCEPT ![c] = "ready"]
                 /\ loader' = IF \A d \in Connections \ {c} : conn[d] = "ready"
                              THEN "running" ELSE "prepare"
                 /\ UNCHANGED <<toDestroy, afterwards>>
        <4>1. loader' = "running" => \A d \in Connections : conn'[d] = "ready"
          BY <3>2 DEF TypeOK
        <4> QED
          BY <3>2, <4>1 DEF Order, workerVars
      <3> QED
        BY <3>1, <3>2
    <2> QED
      BY <2>2, <2>3, <2>4
  <1> QED
    BY <1>1, <1>3, <1>4, <1>5, <1>6

\* Closing: a connection is gone only when its worker has exited.
LEMMA CloseInv ==
  ASSUME PoolInv,
         \/ Close \/ Destroy_Cancel \/ Destroy_Join \/ Destroyed \/ PoolDestructor
         \/ \E c \in Connections : Destroy_Token(c)
  PROVE  PoolInv'
  <1> USE DEF PoolInv, queueVars, clientVars
  <1>1. CASE Close
    <2> USE <1>1 DEF Close
    <2>1. TypeOK'
      BY DEF TypeOK, LoaderPC, workerVars
    <2> QED
      BY <2>1 DEF Quiet, Started, Order, workerVars
  <1>2. CASE Destroy_Cancel
    <2> USE <1>2 DEF Destroy_Cancel, Cancel
    <2>1. shutdown' \in BOOLEAN
      BY Zenon
    <2>2. TypeOK'
      BY <2>1 DEF TypeOK, LoaderPC, workerVars
    <2> QED
      BY <2>2 DEF Quiet, Started, Order, workerVars
  <1>3. CASE Destroy_Join
    <2> USE <1>3 DEF Destroy_Join
    <2>1. TypeOK'
      BY DEF TypeOK, LoaderPC, workerVars
    <2>2. Quiet' /\ Started'
      BY DEF Quiet, Started, TypeOK, Order, workerVars
    <2>3. Order'
      BY DEF Order, workerVars
    <2> QED
      BY <2>1, <2>2, <2>3
  <1>4. CASE Destroyed
    <2> USE <1>4 DEF Destroyed
    <2>1. TypeOK'
      BY DEF TypeOK, workerVars
    <2> QED
      BY <2>1 DEF Quiet, Started, Order, workerVars
  <1>5. ASSUME NEW c \in Connections, Destroy_Token(c)
        PROVE  PoolInv'
    <2> USE <1>5 DEF Destroy_Token
    <2>1. token' \in [Async -> BOOLEAN]
      <3>1. TRUE \in BOOLEAN
        BY Zenon
      <3> QED
        BY <3>1 DEF TypeOK
    <2>2. TypeOK'
      BY <2>1 DEF TypeOK, LoaderPC
    <2>3. \A a \in Async : conn'[a] = conn[a]
      <3>1. CASE c \in Async
        BY <3>1
      <3>2. CASE c \notin Async
        <4>1. conn' = [conn EXCEPT ![c] = "none"]
          BY <3>2
        <4> QED
          BY <3>2, <4>1 DEF TypeOK, Connections
      <3> QED
        BY <3>1, <3>2
    <2>4. Quiet' /\ Started'
      BY <2>3 DEF Quiet, Started, TypeOK
    <2>5. Order'
      BY DEF Order, TypeOK
    <2> QED
      BY <2>2, <2>4, <2>5
  <1>6. CASE PoolDestructor
    <2> USE <1>6 DEF PoolDestructor, Cancel
    <2>1. shutdown' \in BOOLEAN
      BY Zenon
    <2>2. TypeOK'
      BY <2>1 DEF TypeOK, LoaderPC, workerVars
    <2>3. pushed = <<>> /\ UNCHANGED pushed
      BY DEF Started
    <2> QED
      BY <2>2, <2>3 DEF Quiet, Started, Order, workerVars
  <1> QED
    BY <1>1, <1>2, <1>3, <1>4, <1>5, <1>6

\* Every step keeps the invariant.
LEMMA PoolNext == PoolInv /\ [Next]_vars => PoolInv'
  <1> SUFFICES ASSUME PoolInv, [Next]_vars PROVE PoolInv'
    OBVIOUS
  <1>1. CASE UNCHANGED vars
    <2> USE <1>1 DEF PoolInv, vars, queueVars, loaderVars, workerVars, clientVars
    <2>1. TypeOK'
      BY DEF TypeOK
    <2> QED
      BY <2>1 DEF Quiet, Started, Order
  <1>2. ASSUME NEW a \in Async, WorkerStep(a) \/ Worker_Spurious(a)
        PROVE  PoolInv'
    BY <1>2, PopInv, ExecuteInv DEF WorkerStep
  <1>3. CASE LoaderStep \/ Close
    BY <1>3, OpenInv, CloseInv DEF LoaderStep
  <1>4. CASE Next
    BY <1>1, <1>2, <1>3, <1>4, ClientInv DEF Next, Terminated
  <1> QED
    BY <1>1, <1>4

\* The inductive invariant holds in every reachable state.
THEOREM PoolInvariance == Spec => []PoolInv
  BY PoolInit, PoolNext, PTL DEF Spec

\* The members of the pool, its connections, workers and clients stay within the
\* values they are declared for, through opening, use and closing.
THEOREM PoolTypes == Spec => []TypeOK
  <1>1. PoolInv => TypeOK
    BY DEF PoolInv
  <1>2. QED
    BY <1>1, PoolInvariance, PTL

\* A worker executes only real operations, on a connection that is open and
\* prepared, although it is started before Open and stopped by Cancel.
THEOREM WorkersSafe == Spec => []WorkerSafe
  <1>1. PoolInv => WorkerSafe
    <2> SUFFICES ASSUME PoolInv, NEW a \in Async, wpc[a] = "execute"
                 PROVE  operation[a] # Nobody /\ conn[a] = "ready"
      BY DEF WorkerSafe
    <2>1. operation[a] # Nobody
      BY DEF PoolInv, Order
    <2>2. pushed # <<>>
      BY <2>1 DEF PoolInv, Quiet
    <2> QED
      BY <2>1, <2>2 DEF PoolInv, Started
  <1> QED
    BY PoolInvariance, <1>1, PTL

-----------------------------------------------------------------------------
(* Exclusive use of the connections, until a custom statement is prepared. *)

\* Until then nobody is in PrepareCustomStatement, and whoever has a connection has
\* its mutex.
Disciplined ==
    \A t \in Clients :
        /\ customLeft[t] = {}
        /\ using[t] # Nobody => using[t] \in Sync /\ owner[using[t]] = t

LockInv == customIds = {} => Disciplined

\* A step of a client keeps the lock discipline of GetFreeConnection.
LEMMA LockNext ==
  ASSUME TypeOK, LockInv, [Next]_vars
  PROVE  LockInv'
  <1>1. CASE UNCHANGED clientVars
    BY <1>1 DEF LockInv, Disciplined, clientVars
  <1>2. ASSUME NEW t \in Clients, NEW c \in Sync, GetFreeConnection(t, c), Disciplined
        PROVE  Disciplined'
    <2>1. c \in Connections /\ c # Nobody
      BY PoolAssumption DEF Connections
    <2>2. \A u \in Clients \ {t} : using[u] # c
      BY <1>2, <2>1, PoolAssumption DEF GetFreeConnection, Disciplined
    <2> QED
      BY <1>2, <2>1, <2>2 DEF GetFreeConnection, Disciplined, TypeOK
  <1>3. ASSUME NEW t \in Clients, Unlock(t), Disciplined
        PROVE  Disciplined'
    <2>1. \A u \in Clients \ {t} : using[u] # using[t]
      BY <1>3, PoolAssumption DEF Unlock, Disciplined
    <2> QED
      BY <1>3, <2>1 DEF Unlock, Disciplined, TypeOK
  <1>4. ASSUME NEW t \in Clients, ClientStep(t)
        PROVE  LockInv'
    <2>1. CASE PrepareCustomStatement_Start(t)
      BY <2>1 DEF PrepareCustomStatement_Start, LockInv
    <2>2. CASE PrepareCustomStatement_Unlock(t)
      BY <2>2 DEF PrepareCustomStatement_Unlock, LockInv, Disciplined
    <2>3. CASE \E c \in Connections : PrepareCustomStatement_Lock(t, c)
      BY <2>3 DEF PrepareCustomStatement_Lock, LockInv, Disciplined
    <2>4. CASE (\E c \in Sync : GetFreeConnection(t, c)) \/ Unlock(t)
      <3>1. UNCHANGED customIds
        BY <2>4 DEF GetFreeConnection, Unlock
      <3> QED
        BY <1>2, <1>3, <2>4, <3>1 DEF LockInv
    <2> QED
      BY <1>4, <2>1, <2>2, <2>3, <2>4 DEF ClientStep
  <1>5. CASE LoaderStep \/ Close \/ Terminated
    BY <1>1, <1>5 DEF LoaderStep, Close, Terminated, vars, OpenConnections_Construct,
       OpenConnections_Connect, OpenConnections_Sync, CreateDatabase, PrepareStatements,
       Destroy_Token, Destroy_Cancel, Destroy_Join, Destroyed, PoolDestructor
  <1>6. ASSUME NEW a \in Async, WorkerStep(a) \/ Worker_Spurious(a)
        PROVE  LockInv'
    BY <1>1, <1>6 DEF WorkerStep, Worker_Spurious, Worker_Block, Worker_Take, Worker_Empty,
       Worker_Check, Worker_Execute
  <1>7. ASSUME NEW o \in Operations, Enqueue(o)
        PROVE  LockInv'
    BY <1>1, <1>7 DEF Enqueue
  <1>8. CASE UNCHANGED vars
    BY <1>1, <1>8 DEF vars
  <1> QED
    BY <1>4, <1>5, <1>6, <1>7, <1>8 DEF Next

\* As long as nobody has prepared a custom statement at run time, no connection is
\* ever used by two threads at once.
THEOREM Exclusive == Spec => []ConnectionExclusive
  <1>1. Init => LockInv
    BY DEF Init, LockInv, Disciplined
  <1>2. TypeOK /\ LockInv /\ [Next]_vars => LockInv'
    BY LockNext
  <1>3. PoolInv => TypeOK
    BY DEF PoolInv
  <1>4. LockInv => ConnectionExclusive
    BY PoolAssumption DEF LockInv, Disciplined, ConnectionExclusive, Connections
  <1> QED
    BY <1>1, <1>2, <1>3, <1>4, PoolInvariance, PTL DEF Spec

-----------------------------------------------------------------------------
(* The operations: what was enqueued, is in hand and was executed.         *)

\* The tokens: a connection that is being opened or used has a worker whose
\* token is not set, because there is a second attempt only after the first
\* connection of all could not be opened, the database being missing, and that
\* connection is destroyed before.
Tokens ==
    /\ loader \in {"open", "connect", "opensync", "prepare", "running"} =>
         \A a \in Async : conn[a] # "none" => ~token[a]
    /\ loader \in {"destroy", "cancel", "join"} /\ afterwards # "failed" =>
         \A a \in Async : conn[a] # "none" => a \in toDestroy \/ (a = dying /\ loader # "destroy")
    /\ loader = "create" => \A a \in Async : conn[a] = "none"
    /\ loader \in {"opensync", "prepare", "running"} => dbExists

\* What the workers have in hand: distinct operations that were enqueued and
\* not executed.
Hands ==
    /\ \A a \in Async :
        /\ wpc[a] \in {"none", "pop"} => operation[a] = Nobody
        /\ wpc[a] = "exited" /\ loader = "running" => operation[a] = Nobody
        /\ operation[a] # Nobody => operation[a] \in Range(pushed) \ Range(done)
    /\ \A a, b \in Async : operation[a] # Nobody /\ operation[a] = operation[b] => a = b

\* No operation is enqueued twice or executed twice.
Once ==
    /\ \A i, j \in 1..Len(pushed) : pushed[i] = pushed[j] => i = j
    /\ \A i, j \in 1..Len(done) : done[i] = done[j] => i = j
    /\ Range(done) \subseteq Range(pushed)

\* The first n operations were taken from the queue; the others are in it, in
\* the order they were enqueued, or were dropped when the pool was closed.  The
\* worker that took the last one has it in hand or has nothing.
Taken(n) ==
    /\ \/ Len(queue) = Len(pushed) - n /\ \A i \in 1..Len(queue) : queue[i] = pushed[n + i]
       \/ queue = <<>> /\ pushed # <<>> /\ loader # "running"
    /\ \A i \in 1..n : pushed[i] \in Range(done) \/ \E a \in Async : operation[a] = pushed[i]
    /\ \A i \in (n + 1)..Len(pushed) :
        pushed[i] \notin Range(done) /\ \A a \in Async : operation[a] # pushed[i]
    /\ n > 0 => \E a \in Async : operation[a] \in {Nobody, pushed[n]}

InOrder == \E n \in 0..Len(pushed) : Taken(n)

HistoryInv == Tokens /\ Hands /\ Once /\ InOrder

\* No token is set when the pool runs.
LEMMA TokensNext ==
  ASSUME PoolInv, Tokens, [Next]_vars
  PROVE  Tokens'
  <1> USE DEF PoolInv
  <1>0. Async \subseteq Connections
    BY DEF Connections
  <1>1. CASE UNCHANGED <<loader, afterwards, dbExists, conn, token, toDestroy, dying>>
    BY <1>1 DEF Tokens
  <1>2. ASSUME NEW a \in Async, OpenConnections_Construct(a) PROVE Tokens'
    BY <1>0, <1>2 DEF OpenConnections_Construct, Tokens, TypeOK
  <1>3. ASSUME NEW a \in Async, OpenConnections_Connect(a) PROVE Tokens'
    <2>1. token' = token /\ loader = "connect"
      BY <1>3 DEF OpenConnections_Connect, workerVars
    <2>2. CASE dbExists /\ conn' = [conn EXCEPT ![a] = "open"] /\ loader' \in {"open", "opensync"}
      <3>1. dbExists' /\ conn[a] = "unopened"
        BY <1>3, <2>2 DEF OpenConnections_Connect
      <3>2. QED
        BY <1>0, <2>1, <2>2, <3>1 DEF Tokens, TypeOK
    <2>3. CASE OpenFails(Async, a)
      <3>1. afterwards' # "failed" => toDestroy' = {d \in Async : conn[d] # "none"}
        BY <2>3 DEF OpenFails
      <3>2. loader' = "destroy" /\ conn' = conn
        BY <2>3 DEF OpenFails
      <3>3. QED
        BY <3>1, <3>2 DEF Tokens
    <2>4. QED
      BY <1>3, <2>2, <2>3 DEF OpenConnections_Connect
  <1>4. ASSUME NEW c \in Sync, OpenConnections_Sync(c) PROVE Tokens'
    <2>1. token' = token /\ loader = "opensync" /\ c \notin Async /\ dbExists /\ dbExists'
      BY <1>4, PoolAssumption DEF OpenConnections_Sync, workerVars, Tokens
    <2>2. CASE conn' = [conn EXCEPT ![c] = "open"] /\ loader' \in {"opensync", "prepare"}
      BY <1>0, <2>1, <2>2 DEF Tokens, TypeOK
    <2>3. CASE OpenFails(Sync, c)
      <3>1. afterwards' = "failed" /\ loader' = "destroy"
        BY <2>1, <2>3 DEF OpenFails, Tokens
      <3>2. QED
        BY <3>1 DEF Tokens
    <2>4. QED
      BY <1>4, <2>2, <2>3 DEF OpenConnections_Sync
  <1>5. CASE CreateDatabase
    BY <1>5 DEF CreateDatabase, Tokens, workerVars
  <1>6. ASSUME NEW c \in Connections, PrepareStatements(c) PROVE Tokens'
    <2>1. token' = token /\ loader = "prepare" /\ conn[c] = "open" /\ dbExists'
      BY <1>6 DEF PrepareStatements, workerVars, Tokens
    <2>2. CASE conn' = [conn EXCEPT ![c] = "ready"] /\ loader' \in {"running", "prepare"}
      BY <1>0, <2>1, <2>2 DEF Tokens, TypeOK
    <2>3. CASE loader' = "destroy" /\ toDestroy' = Connections
      BY <1>0, <2>3 DEF Tokens
    <2>4. QED
      BY <1>6, <2>2, <2>3 DEF PrepareStatements
  <1>7. CASE Close
    BY <1>0, <1>7 DEF Close, Tokens
  <1>8. ASSUME NEW c \in Connections, Destroy_Token(c) PROVE Tokens'
    <2>1. loader = "destroy" /\ toDestroy' = toDestroy \ {c}
      BY <1>8 DEF Destroy_Token
    <2>2. CASE c \in Async
      BY <1>8, <2>1, <2>2 DEF Destroy_Token, Tokens
    <2>3. CASE c \notin Async
      <3>1. conn' = [conn EXCEPT ![c] = "none"] /\ loader' = loader /\ afterwards' = afterwards
        BY <1>8, <2>3 DEF Destroy_Token
      <3>2. QED
        BY <1>0, <2>1, <2>3, <3>1 DEF Tokens, TypeOK
    <2>4. QED
      BY <2>2, <2>3
  <1>9. CASE Destroy_Cancel
    BY <1>9 DEF Destroy_Cancel, Tokens, workerVars
  <1>10. CASE Destroy_Join
    BY <1>0, <1>10 DEF Destroy_Join, Tokens, TypeOK
  <1>11. CASE Destroyed
    <2>1. /\ loader' = afterwards /\ afterwards \in {"create", "closed", "failed"}
          /\ toDestroy = {} /\ conn' = conn
      BY <1>11 DEF Destroyed, Order
    <2>2. QED
      BY <1>11, <2>1 DEF Destroyed, Tokens
  <1>12. ASSUME NEW a \in Async, WorkerStep(a) \/ Worker_Spurious(a) PROVE Tokens'
    BY <1>1, <1>12 DEF WorkerStep, Worker_Spurious, Worker_Block, Worker_Take, Worker_Empty,
       Worker_Check, Worker_Execute, loaderVars, workerVars
  <1>13. ASSUME NEW t \in Clients, ClientStep(t) PROVE Tokens'
    BY <1>1, <1>13 DEF ClientStep, GetFreeConnection, Unlock, PrepareCustomStatement_Start,
       PrepareCustomStatement_Lock, PrepareCustomStatement_Unlock, loaderVars, workerVars
  <1>14. CASE (\E o \in Operations : Enqueue(o)) \/ Terminated \/ UNCHANGED vars
    BY <1>1, <1>14 DEF Enqueue, Terminated, vars, loaderVars, workerVars
  <1>15. CASE PoolDestructor
    BY <1>0, <1>15 DEF PoolDestructor, Tokens
  <1>16. QED
    BY <1>2, <1>3, <1>4, <1>5, <1>6, <1>7, <1>8, <1>9, <1>10, <1>11, <1>12, <1>13, <1>14, <1>15
       DEF Next, LoaderStep

\* A step that enqueues, takes and executes nothing.
LEMMA HistoryKept ==
  ASSUME Hands, Once, InOrder, UNCHANGED <<operation, pushed, done>>,
         queue' = queue \/ (queue' = <<>> /\ pushed # <<>> /\ loader' # "running"),
         loader' = "running" => loader = "running" \/ pushed = <<>>,
         \A a \in Async : wpc'[a] \in {"none", "pop"} => operation[a] = Nobody,
         \A a \in Async : wpc'[a] = "exited" /\ loader' = "running" => operation[a] = Nobody
  PROVE  Hands' /\ Once' /\ InOrder'
  <1>1. Hands'
    BY DEF Hands
  <1>2. Once'
    BY DEF Once
  <1>3. InOrder'
    <2>1. PICK n \in 0..Len(pushed) : Taken(n)
      BY DEF InOrder
    <2>2. Taken(n)'
      BY <2>1 DEF Taken
    <2>3. QED
      BY <2>1, <2>2 DEF InOrder
  <1>4. QED
    BY <1>1, <1>2, <1>3

\* The worker takes the next operation in the order they were enqueued.
LEMMA HistoryTake ==
  ASSUME PoolInv, Hands, Once, InOrder, NEW a \in Async, Worker_Take(a)
  PROVE  Hands' /\ Once' /\ InOrder'
  <1>1. PICK n \in 0..Len(pushed) : Taken(n)
    BY DEF InOrder
  <1>2. /\ wpc[a] = "pop" /\ queue # <<>> /\ queue' = Tail(queue)
        /\ wpc' = [wpc EXCEPT ![a] = "check"] /\ operation' = [operation EXCEPT ![a] = Head(queue)]
        /\ UNCHANGED <<loader, pushed, done>>
    BY DEF Worker_Take, WaitAndPop_Take, loaderVars
  <1>3. /\ queue \in Seq(Operations) /\ pushed \in Seq(Operations) /\ done \in Seq(Operations)
        /\ operation \in [Async -> Operations \cup {Nobody}]
        /\ wpc \in [Async -> {"none", "pop", "check", "execute", "exited"}]
    BY DEF PoolInv, TypeOK
  <1>4. /\ Len(queue) \in Nat /\ Len(queue) > 0 /\ Head(queue) = queue[1] /\ Len(pushed) \in Nat
        /\ Len(Tail(queue)) = Len(queue) - 1
        /\ \A i \in 1..Len(Tail(queue)) : Tail(queue)[i] = queue[i + 1]
    BY <1>2, <1>3, HeadTailProperties
  <1>5. /\ Len(queue) = Len(pushed) - n /\ \A i \in 1..Len(queue) : queue[i] = pushed[n + i]
    BY <1>1, <1>2 DEF Taken
  <1>6. PICK m \in 1..Len(pushed) : m = n + 1
    BY <1>4, <1>5
  <1>7. /\ Head(queue) = pushed[m] /\ pushed[m] \notin Range(done) /\ pushed[m] \in Range(pushed)
        /\ \A b \in Async : operation[b] # pushed[m]
        /\ pushed[m] \in Operations /\ pushed[m] # Nobody
    <2>1. Head(queue) = pushed[m]
      BY <1>4, <1>5, <1>6
    <2>2. m \in (n + 1)..Len(pushed)
      BY <1>6
    <2>3. pushed[m] \notin Range(done) /\ \A b \in Async : operation[b] # pushed[m]
      BY <1>1, <2>2 DEF Taken
    <2>4. m \in DOMAIN pushed /\ pushed[m] \in Operations
      BY <1>3
    <2>5. QED
      BY <2>1, <2>3, <2>4, PoolAssumption DEF Range
  <1>8. operation'[a] = pushed[m] /\ operation[a] = Nobody /\ \A b \in Async : b # a => operation'[b] = operation[b]
    BY <1>2, <1>3, <1>7 DEF Hands
  <1>9. Hands'
    <2>1. \A b \in Async : b # a => wpc'[b] = wpc[b]
      BY <1>2, <1>3
    <2>2. wpc'[a] = "check"
      BY <1>2, <1>3
    <2>3. ASSUME NEW b \in Async
          PROVE  /\ wpc'[b] \in {"none", "pop"} => operation'[b] = Nobody
                 /\ wpc'[b] = "exited" /\ loader' = "running" => operation'[b] = Nobody
                 /\ operation'[b] # Nobody => operation'[b] \in Range(pushed) \ Range(done)
      BY <1>2, <1>7, <1>8, <2>1, <2>2 DEF Hands
    <2>4. ASSUME NEW b \in Async, NEW c \in Async, operation'[b] # Nobody, operation'[b] = operation'[c]
          PROVE  b = c
      BY <1>7, <1>8, <2>4 DEF Hands
    <2>5. QED
      BY <1>2, <2>3, <2>4 DEF Hands
  <1>10. Once'
    BY <1>2 DEF Once
  <1>11. Taken(m)'
    <2>1. Len(queue') = Len(pushed) - m /\ \A i \in 1..Len(queue') : queue'[i] = pushed[m + i]
      <3>1. Len(queue') = Len(pushed) - m
        BY <1>2, <1>4, <1>5, <1>6
      <3>2. ASSUME NEW i \in 1..Len(queue') PROVE queue'[i] = pushed[m + i]
        <4>1. queue'[i] = queue[i + 1] /\ i + 1 \in 1..Len(queue) /\ i \in Nat
          BY <1>2, <1>4
        <4>2. queue[i + 1] = pushed[n + (i + 1)] /\ n + (i + 1) = m + i
          BY <1>5, <1>6, <4>1
        <4>3. QED
          BY <4>1, <4>2
      <3>3. QED
        BY <3>1, <3>2
    <2>2. ASSUME NEW i \in 1..m PROVE pushed[i] \in Range(done) \/ \E b \in Async : operation'[b] = pushed[i]
      <3>1. CASE i = m
        BY <1>8, <3>1
      <3>2. CASE i # m
        <4>1. i \in 1..n
          BY <1>6, <3>2
        <4>2. CASE pushed[i] \in Range(done)
          BY <4>2
        <4>3. CASE pushed[i] \notin Range(done)
          <5>1. PICK b \in Async : operation[b] = pushed[i]
            BY <1>1, <4>1, <4>3 DEF Taken
          <5>2. pushed[i] \in Operations
            BY <1>3, <4>1, <1>4
          <5>3. b # a
            BY <1>8, <5>1, <5>2, PoolAssumption
          <5>4. QED
            BY <1>8, <5>1, <5>3
        <4>4. QED
          BY <4>2, <4>3
      <3>3. QED
        BY <3>1, <3>2
    <2>3. ASSUME NEW i \in (m + 1)..Len(pushed)
          PROVE  pushed[i] \notin Range(done) /\ \A b \in Async : operation'[b] # pushed[i]
      <3>1. i \in (n + 1)..Len(pushed) /\ i # m /\ i \in 1..Len(pushed)
        BY <1>4, <1>6
      <3>2. pushed[i] # pushed[m]
        BY <3>1 DEF Once
      <3>3. QED
        BY <1>1, <1>8, <3>1, <3>2 DEF Taken
    <2>4. \E b \in Async : operation'[b] \in {Nobody, pushed[m]}
      BY <1>8
    <2>5. QED
      BY <1>2, <2>1, <2>2, <2>3, <2>4 DEF Taken
  <1>12. InOrder'
    <2>1. m \in 0..Len(pushed')
      BY <1>2, <1>4
    <2>2. QED
      BY <1>11, <2>1 DEF InOrder
  <1>13. QED
    BY <1>9, <1>10, <1>12

\* What was executed was in hand, and is so no longer.
LEMMA HistoryExecute ==
  ASSUME PoolInv, Hands, Once, InOrder, NEW a \in Async, Worker_Execute(a)
  PROVE  Hands' /\ Once' /\ InOrder'
  <1>1. PICK n \in 0..Len(pushed) : Taken(n)
    BY DEF InOrder
  <1>2. PICK o : o = operation[a]
    OBVIOUS
  <1>3. /\ wpc[a] = "execute" /\ wpc' = [wpc EXCEPT ![a] = "pop"] /\ done' = Append(done, o)
        /\ operation' = [operation EXCEPT ![a] = Nobody] /\ UNCHANGED <<queue, loader, pushed>>
    BY <1>2 DEF Worker_Execute, loaderVars, queueVars
  <1>4. /\ pushed \in Seq(Operations) /\ done \in Seq(Operations)
        /\ operation \in [Async -> Operations \cup {Nobody}]
        /\ wpc \in [Async -> {"none", "pop", "check", "execute", "exited"}]
    BY DEF PoolInv, TypeOK
  <1>5. o # Nobody /\ o \in Operations /\ o \in Range(pushed) /\ o \notin Range(done)
    BY <1>2, <1>3, <1>4 DEF PoolInv, Order, Hands
  <1>6. /\ done' \in Seq(Operations) /\ Len(done) \in Nat /\ Len(done') = Len(done) + 1 /\ done'[Len(done) + 1] = o
        /\ \A i \in 1..Len(done) : done'[i] = done[i]
    BY <1>3, <1>4, <1>5, AppendProperties
  <1>7. Range(done') = Range(done) \cup {o}
    <2>1. DOMAIN done = 1..Len(done) /\ DOMAIN done' = 1..(Len(done) + 1)
      BY <1>4, <1>6
    <2>2. QED
      BY <1>6, <2>1 DEF Range
  <1>8. operation'[a] = Nobody /\ \A b \in Async : b # a => operation'[b] = operation[b] /\ operation[b] # o
    BY <1>2, <1>3, <1>4, <1>5 DEF Hands
  <1>9. Hands'
    <2>1. wpc'[a] = "pop" /\ \A b \in Async : b # a => wpc'[b] = wpc[b]
      BY <1>3, <1>4
    <2>2. ASSUME NEW b \in Async
          PROVE  /\ wpc'[b] \in {"none", "pop"} => operation'[b] = Nobody
                 /\ wpc'[b] = "exited" /\ loader' = "running" => operation'[b] = Nobody
                 /\ operation'[b] # Nobody => operation'[b] \in Range(pushed') \ Range(done')
      BY <1>3, <1>7, <1>8, <2>1 DEF Hands
    <2>3. ASSUME NEW b \in Async, NEW c \in Async, operation'[b] # Nobody, operation'[b] = operation'[c]
          PROVE  b = c
      BY <1>8, <2>3 DEF Hands
    <2>4. QED
      BY <2>2, <2>3 DEF Hands
  <1>10. Once'
    <2>1. \A i \in 1..Len(done) : done[i] # o
      BY <1>4, <1>5 DEF Range
    <2>2. ASSUME NEW i \in 1..Len(done'), NEW j \in 1..Len(done'), done'[i] = done'[j] PROVE i = j
      <3>1. /\ i = Len(done) + 1 \/ i \in 1..Len(done)
            /\ j = Len(done) + 1 \/ j \in 1..Len(done)
        BY <1>6
      <3>2. QED
        BY <1>6, <2>1, <2>2, <3>1 DEF Once
    <2>3. QED
      BY <1>3, <1>5, <1>7, <2>2 DEF Once
  <1>11. Taken(n)'
    <2>1. ASSUME NEW i \in 1..n PROVE pushed[i] \in Range(done') \/ \E b \in Async : operation'[b] = pushed[i]
      BY <1>1, <1>2, <1>7, <1>8 DEF Taken
    <2>2. ASSUME NEW i \in (n + 1)..Len(pushed)
          PROVE  pushed[i] \notin Range(done') /\ \A b \in Async : operation'[b] # pushed[i]
      <3>1. pushed[i] \notin Range(done) /\ \A b \in Async : operation[b] # pushed[i]
        BY <1>1 DEF Taken
      <3>2. pushed[i] \in Operations
        BY <1>4
      <3>3. QED
        BY <1>2, <1>7, <1>8, <3>1, <3>2, PoolAssumption
    <2>3. QED
      BY <1>1, <1>3, <1>8, <2>1, <2>2 DEF Taken
  <1>12. QED
    BY <1>3, <1>9, <1>10, <1>11 DEF InOrder

\* A new operation goes to the end of the queue.
LEMMA HistoryEnqueue ==
  ASSUME PoolInv, Hands, Once, InOrder, NEW o \in Operations, Enqueue(o)
  PROVE  Hands' /\ Once' /\ InOrder'
  <1>1. PICK n \in 0..Len(pushed) : Taken(n)
    BY DEF InOrder
  <1>2. /\ loader = "running" /\ o \notin Range(pushed) /\ queue' = Append(queue, o)
        /\ pushed' = Append(pushed, o) /\ UNCHANGED <<loader, operation, wpc, done>>
    BY DEF Enqueue, Push, loaderVars, workerVars
  <1>3. /\ queue \in Seq(Operations) /\ pushed \in Seq(Operations) /\ done \in Seq(Operations)
        /\ operation \in [Async -> Operations \cup {Nobody}]
    BY DEF PoolInv, TypeOK
  <1>4. /\ Len(pushed) \in Nat /\ Len(pushed') = Len(pushed) + 1 /\ pushed'[Len(pushed) + 1] = o
        /\ \A i \in 1..Len(pushed) : pushed'[i] = pushed[i]
        /\ pushed' \in Seq(Operations)
    BY <1>2, <1>3, AppendProperties
  <1>5. /\ Len(queue) \in Nat /\ Len(queue') = Len(queue) + 1 /\ queue'[Len(queue) + 1] = o
        /\ \A i \in 1..Len(queue) : queue'[i] = queue[i]
    BY <1>2, <1>3, AppendProperties
  <1>6. Range(pushed') = Range(pushed) \cup {o}
    <2>1. DOMAIN pushed = 1..Len(pushed) /\ DOMAIN pushed' = 1..(Len(pushed) + 1)
      BY <1>3, <1>4
    <2>2. QED
      BY <1>4, <2>1 DEF Range
  <1>7. o \notin Range(done) /\ o # Nobody /\ \A a \in Async : operation[a] # o
    BY <1>2, PoolAssumption DEF Once, Hands
  <1>8. Hands'
    BY <1>2, <1>6 DEF Hands
  <1>9. Once'
    <2>1. \A i \in 1..Len(pushed) : pushed[i] # o
      BY <1>2, <1>3 DEF Range
    <2>2. ASSUME NEW i \in 1..Len(pushed'), NEW j \in 1..Len(pushed'), pushed'[i] = pushed'[j] PROVE i = j
      <3>1. /\ i = Len(pushed) + 1 \/ i \in 1..Len(pushed)
            /\ j = Len(pushed) + 1 \/ j \in 1..Len(pushed)
        BY <1>4
      <3>2. QED
        BY <1>4, <2>1, <2>2, <3>1 DEF Once
    <2>3. QED
      BY <1>2, <1>6, <2>2 DEF Once
  <1>10. Taken(n)'
    <2>1. Len(queue) = Len(pushed) - n /\ \A i \in 1..Len(queue) : queue[i] = pushed[n + i]
      BY <1>1, <1>2 DEF Taken
    <2>2. Len(queue') = Len(pushed') - n
      BY <1>4, <1>5, <2>1
    <2>3. ASSUME NEW i \in 1..Len(queue') PROVE queue'[i] = pushed'[n + i]
      <3>1. CASE i \in 1..Len(queue)
        <4>1. n + i \in 1..Len(pushed)
          BY <1>4, <1>5, <2>1, <3>1
        <4>2. QED
          BY <1>4, <1>5, <2>1, <3>1, <4>1
      <3>2. CASE i = Len(queue) + 1
        <4>1. n + i = Len(pushed) + 1
          BY <1>4, <1>5, <2>1, <3>2
        <4>2. QED
          BY <1>4, <1>5, <3>2, <4>1
      <3>3. QED
        BY <1>5, <3>1, <3>2
    <2>4. \A i \in 1..n : i \in 1..Len(pushed) /\ pushed'[i] = pushed[i]
      BY <1>4
    <2>5. ASSUME NEW i \in (n + 1)..Len(pushed')
          PROVE  pushed'[i] \notin Range(done) /\ \A a \in Async : operation[a] # pushed'[i]
      <3>1. CASE i = Len(pushed) + 1
        BY <1>4, <1>7, <3>1
      <3>2. CASE i # Len(pushed) + 1
        <4>1. i \in (n + 1)..Len(pushed) /\ i \in 1..Len(pushed)
          BY <1>4, <3>2
        <4>2. QED
          BY <1>1, <1>4, <4>1 DEF Taken
      <3>3. QED
        BY <3>1, <3>2
    <2>6. \A i \in 1..n : pushed'[i] \in Range(done) \/ \E a \in Async : operation[a] = pushed'[i]
      BY <1>1, <2>4 DEF Taken
    <2>7. n > 0 => \E a \in Async : operation[a] \in {Nobody, pushed'[n]}
      BY <1>1, <2>4 DEF Taken
    <2>8. QED
      BY <1>2, <2>2, <2>3, <2>5, <2>6, <2>7 DEF Taken
  <1>11. QED
    <2>1. n \in 0..Len(pushed')
      BY <1>4
    <2>2. QED
      BY <1>8, <1>9, <1>10, <2>1 DEF InOrder

\* At first nothing was enqueued.
LEMMA HistoryInit == Init => HistoryInv
  <1> SUFFICES ASSUME Init PROVE HistoryInv
    OBVIOUS
  <1>1. /\ pushed = <<>> /\ done = <<>> /\ queue = <<>> /\ Len(pushed) = 0 /\ Len(done) = 0 /\ Len(queue) = 0
        /\ Range(done) = {}
    BY DEF Init, QueueInit, Range
  <1>2. Tokens /\ Hands
    BY DEF Init, Tokens, Hands, Connections
  <1>3. Once
    BY <1>1 DEF Once
  <1>4. Taken(0)
    BY <1>1 DEF Taken
  <1>5. QED
    BY <1>1, <1>2, <1>3, <1>4 DEF HistoryInv, InOrder

\* Every step keeps the history of the operations.
LEMMA HistoryNext == PoolInv /\ HistoryInv /\ [Next]_vars => HistoryInv'
  <1> SUFFICES ASSUME PoolInv, HistoryInv, [Next]_vars PROVE Hands' /\ Once' /\ InOrder'
    BY TokensNext DEF HistoryInv
  <1>1. Tokens /\ Hands /\ Once /\ InOrder
    BY DEF HistoryInv
  <1>2. /\ wpc \in [Async -> {"none", "pop", "check", "execute", "exited"}]
        /\ operation \in [Async -> Operations \cup {Nobody}]
        /\ \A a \in Async : wpc[a] \in {"none", "pop"} => operation[a] = Nobody
        /\ \A a \in Async : wpc[a] = "exited" /\ loader = "running" => operation[a] = Nobody
    BY <1>1 DEF Hands, PoolInv, TypeOK
  <1>3. pushed = <<>> => \A a \in Async : operation[a] = Nobody
    BY DEF PoolInv, Quiet
  <1>4. CASE UNCHANGED <<queue, operation, pushed, done, wpc>> /\ (loader' = "running" => loader = "running" \/ pushed = <<>>)
    BY <1>1, <1>2, <1>3, <1>4, HistoryKept
  <1>5. ASSUME NEW a \in Async, OpenConnections_Construct(a) PROVE Hands' /\ Once' /\ InOrder'
    <2>1. pushed = <<>> /\ loader = "open" /\ loader' = "connect" /\ UNCHANGED <<queue, pushed, done>>
      BY <1>5 DEF OpenConnections_Construct, PoolInv, Started, queueVars
    <2>2. operation' = operation
      BY <1>2, <1>3, <1>5, <2>1 DEF OpenConnections_Construct
    <2>3. QED
      BY <1>1, <1>3, <2>1, <2>2, HistoryKept
  <1>6. CASE \/ \E a \in Async : OpenConnections_Connect(a)
             \/ \E c \in Sync : OpenConnections_Sync(c)
             \/ CreateDatabase \/ Close \/ Destroyed \/ Destroy_Join
             \/ \E c \in Connections : PrepareStatements(c) \/ Destroy_Token(c)
    <2>1. UNCHANGED <<queue, operation, pushed, done, wpc>>
      BY <1>6 DEF OpenConnections_Connect, OpenConnections_Sync, CreateDatabase, Close, Destroyed,
         Destroy_Join, PrepareStatements, Destroy_Token, queueVars, workerVars
    <2>2. pushed # <<>> => loader \in {"running", "destroy", "cancel", "join", "closed"}
      BY DEF PoolInv, Started
    <2>3. pushed # <<>> /\ loader # "running" => loader' # "running"
      BY <1>6, <2>2 DEF OpenConnections_Connect, OpenConnections_Sync, CreateDatabase, Close, Destroyed,
         Destroy_Join, PrepareStatements, Destroy_Token, OpenFails, PoolInv, Order
    <2>4. QED
      BY <1>4, <2>1, <2>3
  <1>7. CASE Destroy_Cancel
    <2>1. queue' = <<>> /\ loader' = "join" /\ UNCHANGED <<operation, pushed, done, wpc>>
      BY <1>7 DEF Destroy_Cancel, Cancel, workerVars
    <2>2. pushed = <<>> => queue' = queue
      BY <2>1 DEF PoolInv, Quiet
    <2>3. QED
      BY <1>1, <1>2, <2>1, <2>2, HistoryKept
  <1>8. ASSUME NEW a \in Async, Worker_Block(a) \/ Worker_Spurious(a) PROVE Hands' /\ Once' /\ InOrder'
    BY <1>4, <1>8 DEF Worker_Block, Worker_Spurious, WaitAndPop_Block, SpuriousWakeup, loaderVars, workerVars
  <1>9. ASSUME NEW a \in Async, Worker_Empty(a) PROVE Hands' /\ Once' /\ InOrder'
    <2>1. wpc' = [wpc EXCEPT ![a] = "check"] /\ UNCHANGED <<queue, loader, operation, pushed, done>>
      BY <1>9 DEF Worker_Empty, WaitAndPop_Return, queueVars, loaderVars
    <2>2. /\ \A b \in Async : wpc'[b] \in {"none", "pop"} => operation[b] = Nobody
          /\ \A b \in Async : wpc'[b] = "exited" /\ loader' = "running" => operation[b] = Nobody
      BY <1>2, <2>1
    <2>3. QED
      BY <1>1, <2>1, <2>2, HistoryKept
  <1>10. ASSUME NEW a \in Async, Worker_Check(a) PROVE Hands' /\ Once' /\ InOrder'
    <2>1. UNCHANGED <<queue, loader, operation, pushed, done>>
      BY <1>10 DEF Worker_Check, queueVars, loaderVars
    <2>2. loader = "running" => ~token[a]
      BY <1>1 DEF Tokens, PoolInv, Order, Connections
    <2>3. wpc' = [wpc EXCEPT ![a] = IF token[a] \/ operation[a] = Nobody THEN "exited" ELSE "execute"]
      BY <1>10 DEF Worker_Check
    <2>4. \A b \in Async : wpc'[b] \in {"none", "pop"} => operation[b] = Nobody
      BY <1>2, <2>3
    <2>5. \A b \in Async : wpc'[b] = "exited" /\ loader' = "running" => operation[b] = Nobody
      BY <1>2, <2>1, <2>2, <2>3
    <2>6. QED
      BY <1>1, <2>1, <2>4, <2>5, HistoryKept
  <1>11. ASSUME NEW t \in Clients, ClientStep(t) PROVE Hands' /\ Once' /\ InOrder'
    BY <1>4, <1>11 DEF ClientStep, GetFreeConnection, Unlock, PrepareCustomStatement_Start,
       PrepareCustomStatement_Lock, PrepareCustomStatement_Unlock, queueVars, loaderVars, workerVars
  <1>12. CASE Terminated \/ UNCHANGED vars
    BY <1>4, <1>12 DEF Terminated, vars, queueVars, loaderVars, workerVars
  <1>13. CASE PoolDestructor
    <2>1. queue' = <<>> /\ loader' = "destroy" /\ UNCHANGED <<operation, pushed, done, wpc>>
      BY <1>13 DEF PoolDestructor, Cancel, workerVars
    <2>2. pushed = <<>> => queue' = queue
      BY <2>1 DEF PoolInv, Quiet
    <2>3. QED
      BY <1>1, <1>2, <2>1, <2>2, HistoryKept
  <1>14. QED
    BY <1>1, <1>5, <1>6, <1>7, <1>8, <1>9, <1>10, <1>11, <1>12, <1>13, HistoryTake, HistoryExecute, HistoryEnqueue
       DEF Next, LoaderStep, WorkerStep

\* The history holds in every reachable state.
LEMMA HistoryInvariance == Spec => [](PoolInv /\ HistoryInv)
  BY PoolInit, PoolNext, HistoryInit, HistoryNext, PTL DEF Spec

\* Nothing that was enqueued disappears while the pool runs, nothing is executed
\* twice, and nothing is executed that was not enqueued, for any number of
\* workers that take from one queue.
THEOREM Conserved == Spec => []Conservation
  <1>1. ASSUME PoolInv, HistoryInv PROVE Conservation
    <2>1. Once /\ Hands
      BY <1>1 DEF HistoryInv
    <2>2. ASSUME loader = "running" PROVE Range(pushed) = Range(queue) \cup Held \cup Range(done)
      <3>1. PICK n \in 0..Len(pushed) : Taken(n)
        BY <1>1 DEF HistoryInv, InOrder
      <3>2. Len(queue) = Len(pushed) - n /\ \A i \in 1..Len(queue) : queue[i] = pushed[n + i]
        BY <2>2, <3>1 DEF Taken
      <3>3. /\ DOMAIN queue = 1..Len(queue) /\ DOMAIN pushed = 1..Len(pushed)
            /\ Len(queue) \in Nat /\ Len(pushed) \in Nat
        <4>1. queue \in Seq(Operations) /\ pushed \in Seq(Operations)
          BY <1>1 DEF PoolInv, TypeOK
        <4>2. QED
          BY <4>1
      <3>4. Held = {operation[a] : a \in Async} \ {Nobody}
        BY <2>1, <2>2 DEF Held, Hands
      <3>5. Range(queue) \subseteq Range(pushed)
        <4>1. ASSUME NEW i \in 1..Len(queue) PROVE queue[i] \in Range(pushed)
          <5>1. n + i \in 1..Len(pushed)
            BY <3>2, <3>3
          <5>2. QED
            BY <3>2, <3>3, <5>1 DEF Range
        <4>2. QED
          BY <3>3, <4>1 DEF Range
      <3>6. Held \subseteq Range(pushed) /\ Range(done) \subseteq Range(pushed)
        BY <2>1, <3>4 DEF Hands, Once
      <3>7. ASSUME NEW i \in 1..Len(pushed) PROVE pushed[i] \in Range(queue) \cup Held \cup Range(done)
        <4>1. CASE i \in 1..n
          <5>1. pushed[i] # Nobody
            <6>1. pushed \in Seq(Operations)
              BY <1>1 DEF PoolInv, TypeOK
            <6>2. pushed[i] \in Operations
              BY <6>1
            <6>3. QED
              BY <6>2, PoolAssumption
          <5>2. QED
            BY <3>1, <3>4, <4>1, <5>1 DEF Taken
        <4>2. CASE i \notin 1..n
          <5>1. PICK j \in 1..Len(queue) : i = n + j
            <6>1. i - n \in 1..Len(queue) /\ i = n + (i - n)
              BY <3>2, <3>3, <4>2
            <6>2. QED
              BY <6>1
          <5>2. QED
            BY <3>2, <3>3, <5>1 DEF Range
        <4>3. QED
          BY <4>1, <4>2
      <3>8. Range(pushed) \subseteq Range(queue) \cup Held \cup Range(done)
        BY <3>3, <3>7 DEF Range
      <3>9. QED
        BY <3>5, <3>6, <3>8
    <2>3. QED
      BY <2>1, <2>2 DEF Conservation, Once
  <1>2. QED
    BY <1>1, HistoryInvariance, PTL

\* Operations are taken in the order they were enqueued: fewer than the number
\* of workers are overtaken at any time, none if there is one worker.
THEOREM Ordered == Spec => []TakenInOrder
  <1>1. ASSUME PoolInv, HistoryInv PROVE TakenInOrder
    <2>1. Once /\ Hands
      BY <1>1 DEF HistoryInv
    <2>2. PICK n \in 0..Len(pushed) : Taken(n)
      BY <1>1 DEF HistoryInv, InOrder
    <2>3. pushed \in Seq(Operations) /\ DOMAIN pushed = 1..Len(pushed) /\ Len(pushed) \in Nat
      <3>1. pushed \in Seq(Operations)
        BY <1>1 DEF PoolInv, TypeOK
      <3>2. QED
        BY <3>1
    <2>4. IsFiniteSet(Async) /\ Async # {}
      <3>1. Async \in SUBSET Connections
        BY DEF Connections
      <3>2. QED
        BY <3>1, PoolAssumption, FS_Subset
    <2>5. ASSUME NEW i \in Overtaken
          PROVE  i \in 1..n /\ i < n /\ \E a \in Async : operation[a] = pushed[i]
      <3>1. i \in 1..Len(pushed) /\ pushed[i] \notin Range(done)
        BY <2>3 DEF Overtaken
      <3>2. PICK j \in 1..Len(pushed) : j > i /\ pushed[j] \in Range(done)
        BY <2>3 DEF Overtaken
      <3>3. j \notin (n + 1)..Len(pushed)
        BY <2>2, <3>2 DEF Taken
      <3>4. i \in 1..n /\ i < n
        BY <2>3, <3>1, <3>2, <3>3
      <3>5. QED
        BY <2>2, <3>1, <3>4 DEF Taken
    <2>6. PICK w \in Async : n > 0 => operation[w] \in {Nobody, pushed[n]}
      BY <2>2, <2>4 DEF Taken
    <2>7. \A i \in Overtaken : \E a \in Async \ {w} : operation[a] = pushed[i]
      <3> SUFFICES ASSUME NEW i \in Overtaken PROVE \E a \in Async \ {w} : operation[a] = pushed[i]
        OBVIOUS
      <3>1. PICK a \in Async : operation[a] = pushed[i]
        BY <2>5
      <3>2. i \in 1..n /\ i < n /\ i \in 1..Len(pushed) /\ n \in 1..Len(pushed) /\ n > 0
        BY <2>3, <2>5
      <3>3. pushed[i] # pushed[n] /\ pushed[i] # Nobody
        <4>1. pushed[i] # pushed[n]
          BY <2>1, <3>2 DEF Once
        <4>2. pushed[i] \in Operations
          BY <2>3, <3>2
        <4>3. QED
          BY <4>1, <4>2, PoolAssumption
      <3>4. a # w
        BY <2>6, <3>1, <3>2, <3>3
      <3>5. QED
        BY <3>1, <3>4
    <2> DEFINE f == [i \in Overtaken |-> CHOOSE a \in Async \ {w} : operation[a] = pushed[i]]
    <2>8. \A i \in Overtaken : f[i] \in Async \ {w} /\ operation[f[i]] = pushed[i]
      BY <2>7
    <2>9. f \in Injection(Overtaken, Async \ {w})
      <3>1. f \in [Overtaken -> Async \ {w}]
        BY <2>8
      <3>2. ASSUME NEW i \in Overtaken, NEW j \in Overtaken, f[i] = f[j] PROVE i = j
        <4>1. pushed[i] = pushed[j]
          BY <2>8, <3>2
        <4>2. i \in 1..Len(pushed) /\ j \in 1..Len(pushed)
          BY <2>3 DEF Overtaken
        <4>3. QED
          BY <2>1, <4>1, <4>2 DEF Once
      <3>3. DOMAIN f = Overtaken
        OBVIOUS
      <3> HIDE DEF f
      <3>4. QED
        BY <3>1, <3>2, <3>3 DEF Injection, IsInjective
    <2> HIDE DEF f
    <2>10. IsFiniteSet(Async \ {w}) /\ Cardinality(Async \ {w}) = Cardinality(Async) - 1
      BY <2>4, <2>6, FS_RemoveElement
    <2>11. Cardinality(Overtaken) <= Cardinality(Async \ {w}) /\ IsFiniteSet(Overtaken)
      BY <2>9, <2>10, FS_Injection
    <2>12. Cardinality(Async) \in Nat /\ Cardinality(Overtaken) \in Nat
      BY <2>4, <2>11, FS_CardinalityType
    <2>13. QED
      BY <2>10, <2>11, <2>12 DEF TakenInOrder
  <1>2. QED
    BY <1>1, HistoryInvariance, PTL

-----------------------------------------------------------------------------
(* Nobody sleeps on.                                                       *)

\* Only workers in WaitAndPop sleep; a queue that is neither empty nor cancelled
\* has a worker that does not; workers end only when the queue is cancelled or
\* about to be; and then the pool is being closed, or an Open failed, and auto
\* setup tries again or the process ends.
AwakeInv ==
    /\ \A a \in waiting : wpc[a] = "pop"
    /\ \A a \in Async : conn[a] # "none" => wpc[a] # "none"
    /\ \A a \in Async :
         token[a] \/ wpc[a] = "exited" \/ (wpc[a] = "check" /\ operation[a] = Nobody) =>
            shutdown \/ loader = "cancel"
    /\ queue # <<>> /\ ~shutdown /\ loader # "cancel" => \E a \in Async : a \notin waiting /\ wpc[a] # "none"
    /\ shutdown => waiting = {}
    /\ loader = "join" => shutdown
    /\ shutdown => (AutoSetup /\ attempt = 2) \/ loader \in {"cancel", "join", "destroy", "create", "failed", "closed"}
    /\ afterwards = "create" \/ loader = "create" => AutoSetup

LEMMA AwakeNext == PoolInv /\ AwakeInv /\ [Next]_vars => AwakeInv'
  <1> SUFFICES ASSUME PoolInv, AwakeInv, [Next]_vars PROVE AwakeInv'
    OBVIOUS
  <1> USE DEF PoolInv, AwakeInv, loaderVars, workerVars, clientVars, queueVars
  <1>0. Async \subseteq Connections /\ Async # {}
    BY PoolAssumption DEF Connections, PoolAssumption
  <1>1. ASSUME NEW a \in Async, OpenConnections_Construct(a) PROVE AwakeInv'
    <2>1. queue = <<>> /\ UNCHANGED queue
      BY <1>1 DEF OpenConnections_Construct, Started, Quiet
    <2>2. QED
      BY <1>0, <1>1, <2>1 DEF OpenConnections_Construct, TypeOK
  <1>2. ASSUME NEW a \in Async, OpenConnections_Connect(a) PROVE AwakeInv'
    BY <1>0, <1>2 DEF OpenConnections_Connect, OpenFails, TypeOK
  <1>3. ASSUME NEW c \in Sync, OpenConnections_Sync(c) PROVE AwakeInv'
    <2>1. c \notin Async
      BY PoolAssumption DEF PoolAssumption
    <2>2. QED
      BY <1>0, <1>3, <2>1 DEF OpenConnections_Sync, OpenFails, TypeOK
  <1>4. CASE CreateDatabase
    BY <1>4 DEF CreateDatabase
  <1>5. ASSUME NEW c \in Connections, PrepareStatements(c) PROVE AwakeInv'
    BY <1>0, <1>5 DEF PrepareStatements, TypeOK
  <1>6. CASE Close \/ Terminated \/ UNCHANGED vars
    BY <1>6 DEF Close, Terminated, vars
  <1>7. ASSUME NEW c \in Connections, Destroy_Token(c) PROVE AwakeInv'
    BY <1>0, <1>7 DEF Destroy_Token, TypeOK
  <1>8. CASE Destroy_Cancel
    BY <1>8 DEF Destroy_Cancel, Cancel
  <1>9. CASE Destroy_Join
    BY <1>0, <1>9 DEF Destroy_Join, TypeOK
  <1>10. CASE Destroyed \/ PoolDestructor
    BY <1>10 DEF Destroyed, PoolDestructor, Cancel, Order
  <1>11. ASSUME NEW a \in Async, WorkerStep(a) \/ Worker_Spurious(a) PROVE AwakeInv'
    <2>1. CASE Worker_Block(a)
      BY <2>1 DEF Worker_Block, WaitAndPop_Block
    <2>2. CASE Worker_Take(a)
      <3>1. /\ a \notin waiting /\ wpc[a] = "pop" /\ queue # <<>> /\ ~shutdown
            /\ wpc' = [wpc EXCEPT ![a] = "check"] /\ operation' = [operation EXCEPT ![a] = Head(queue)]
        BY <2>2 DEF Worker_Take, WaitAndPop_Take
      <3>2. Head(queue) # Nobody
        <4>1. Head(queue) \in Operations
          BY <3>1 DEF TypeOK
        <4>2. QED
          BY <4>1, PoolAssumption DEF PoolAssumption
      <3>3. UNCHANGED <<waiting, shutdown, conn, token, loader, attempt, afterwards>>
        BY <2>2 DEF Worker_Take, WaitAndPop_Take
      <3>4. QED
        BY <3>1, <3>2, <3>3 DEF TypeOK
    <2>3. CASE Worker_Empty(a)
      BY <2>3 DEF Worker_Empty, WaitAndPop_Return, TypeOK
    <2>4. CASE Worker_Check(a)
      BY <2>4 DEF Worker_Check, TypeOK
    <2>5. CASE Worker_Execute(a)
      BY <2>5 DEF Worker_Execute, TypeOK
    <2>6. CASE Worker_Spurious(a)
      BY <2>6 DEF Worker_Spurious, SpuriousWakeup
    <2>7. QED
      BY <1>11, <2>1, <2>2, <2>3, <2>4, <2>5, <2>6 DEF WorkerStep
  <1>12. ASSUME NEW o \in Operations, Enqueue(o) PROVE AwakeInv'
    <2>1. loader = "running" /\ Push(o) /\ UNCHANGED <<wpc, operation, token, conn, loader, attempt, afterwards>>
      BY <1>12 DEF Enqueue
    <2>2. \A a \in Async : wpc[a] # "none"
      BY <1>0, <2>1 DEF Order
    <2>3. waiting' \subseteq waiting /\ shutdown' = shutdown
      BY <2>1 DEF Push, NotifyOne
    <2>4. \E a \in Async : a \notin waiting'
      <3>1. CASE waiting = {}
        BY <1>0, <3>1, <2>3
      <3>2. CASE waiting # {}
        BY <2>1, <3>2 DEF Push, NotifyOne, TypeOK
      <3>3. QED
        BY <3>1, <3>2
    <2>5. QED
      BY <2>1, <2>2, <2>3, <2>4
  <1>13. ASSUME NEW t \in Clients, ClientStep(t) PROVE AwakeInv'
    BY <1>13 DEF ClientStep, GetFreeConnection, Unlock, PrepareCustomStatement_Start,
       PrepareCustomStatement_Lock, PrepareCustomStatement_Unlock
  <1>14. QED
    BY <1>1, <1>2, <1>3, <1>4, <1>5, <1>6, <1>7, <1>8, <1>9, <1>10, <1>11, <1>12, <1>13 DEF Next, LoaderStep

\* No notification is lost between Push, WaitAndPop and Cancel: operations wait
\* only for workers that are awake, and ~DatabaseWorker never joins a worker that
\* sleeps.  A pool whose first Open succeeded never runs on a cancelled queue.
THEOREM NoLostWakeup == Spec => []NobodySleepsOn
  <1>1. Init => AwakeInv
    <2>1. Async \subseteq Connections
      BY DEF Connections
    <2>2. QED
      BY <2>1 DEF Init, QueueInit, AwakeInv
  <1>2. PoolInv /\ AwakeInv => NobodySleepsOn
    BY DEF PoolInv, TypeOK, AwakeInv, NobodySleepsOn
  <1>3. QED
    BY <1>1, <1>2, AwakeNext, PoolInvariance, PTL DEF Spec

=============================================================================
