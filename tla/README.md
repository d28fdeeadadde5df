# The core of the server, in TLA+

This directory models the parts of this TrinityCore 3.3.5 fork (with the TSWoW
additions) in which threads meet: the parallel map update, the asynchronous
database, the lock-free packet queue, the client connection and the sessions of
the world with their login queue, logins and saves; and, of the game itself, the
bookkeeping everything else rests on, combat and threat. The other rules of the
game (entities, spells, AI, scripts) are sequential code over large data and are
left aside; what they do reaches the players and the database through the parts
modelled here.

## Inventory

### Threads

* The **world thread** runs `World::Update`: sessions, then all maps
  (`MapManager::Update`), then the rest of the world.
* The **map workers** (`MapUpdate.Threads`) run `Map::Update` for it.
* One **database worker** for each asynchronous connection of a pool; other
  threads use the synchronous connections directly.
* The **network threads** each own a set of sockets and process the answers to
  the queries of these sockets.
* The **main thread** opens the databases, starts the others and shuts down.

### Components

| Component | State | Operations | Meets | What makes it correct |
|---|---|---|---|---|
| `ProducerConsumerQueue` | deque, mutex, condition variable, `_shutdown` | `Push`, `WaitAndPop`, `Cancel` | map workers, database workers | nothing lost or duplicated, nobody sleeps through a push or a cancel |
| `MapUpdater`, `MapManager`, `MapInstanced` | workers, `pending_requests`, `_cancelationToken`, the maps | `schedule_update`, `wait`, `update_finished`, `deactivate`, `Update` | the queue; workers schedule from inside an update | the world thread and the workers exclude each other, every map is updated once, requests refer to maps that exist, update and shutdown end |
| `DatabaseWorkerPool`, `DatabaseWorker`, `DatabaseLoader` | connections, workers, the shared queue, a mutex per connection | `Open`, `PrepareStatements`, `Close`, `Enqueue`, `GetFreeConnection`, `PrepareCustomStatement` | the queue, every thread of the server | an operation is executed once, in order, on a connection that is ready and that nobody else uses |
| `MySQLConnection`, `TransactionTask` | session on the server, `_deadlockLock`, reconnection | `ExecuteTransaction`, `_HandleMySQLErrno`, retries | the database server | all or nothing, whatever fails; the result tells which; retries end |
| `MPSCQueueIntrusive` | `_head`, `_tail`, links, the dummy | `Enqueue`, `Dequeue` | any thread against one network thread | a FIFO; no access to deleted packets; no packet left behind |
| `Socket`, `NetworkThread`, `WorldSocket`, `WorldSession` | `_closed`, `_closing`, the queues, `_worldSession` and its lock | read and write handlers, `Update`, the login callbacks, `CloseSocket`, `KickPlayer` | network thread against world thread, database answers | the session pointer is valid, one login per socket, packets in order, closed sockets and sessions go away |
| `World` and `WorldSession`: sessions and logins | `addSessQueue`, `m_sessions`, `m_QueuedPlayer`, `m_disconnects`, `m_playerLoading`, the query holders, the character | `AddSession_`, `RemoveQueuedPlayer`, `UpdateSessions`, the handlers of login and logout, `LogoutPlayer`, `KickAll` | network threads, the worker of the character database, the maps | the limit and the queue are kept, nobody is played twice or goes back in time, a load or a kick comes to an end |
| `QueryCallback`, `QueryHolder` | futures and callbacks | `InvokeIfReady`, `ProcessReadyCallbacks` | database worker against the owner | inside the two above; a callback ends with its owner |
| `CombatManager`, `ThreatManager` | references between pairs of units, kept on both sides, the flag, the threat list and its current victim | `SetInCombatWith`, `AddThreat`, `EndCombat`, `TauntUpdate`, `UpdateVictim`, and a dozen more | units of one map, AIs that call back | both sides agree, threat implies combat, the victim is never a freed or an unavailable one, the right one is selected |

What else the repository holds is listed with its reason under `components` in
`PROJECT.json`. `hazards` there lists what is hard to test, at its line, with the
properties that cover it, or a note when none does.

## Modules

| Module | Models |
|---|---|
| `ProducerConsumerQueue` | the blocking queue: the wait set of its condition variable, spurious wakeups, `Push`, `WaitAndPop` split at the wait, `Cancel` |
| `MapUpdater` (extends it) | the world thread in `MapManager::Update` and `UnloadAll`, the workers, `MapInstanced::Update` |
| `DatabaseWorkerPool` (extends the queue) | opening, use and closing of one pool |
| `SQLTransaction` | a transaction on its connection, with deadlocks, errors, lost links and retries |
| `MPSCQueue`, `PacketFifo` | the lock-free queue, and the FIFO it implements |
| `WorldSocket` | one client connection, its session, network thread and world thread |
| `WorldSessions` | all sessions of the world: admission, queue, login, play, logout, save, removal, shutdown |
| `ThreatSelection` | the order of threat references and `ReselectVictim` as operators, and the rule they implement |
| `Combat` (extends it) | combat and threat references between units |
| `MapUpdaterProofs`, `DatabaseWorkerPoolProofs`, `SQLTransactionProofs`, `MPSCQueueProofs`, `WorldSocketProofs`, `WorldSessionsProofs`, `ThreatSelectionProofs`, `CombatProofs` | the theorems about the module each is named after |
| `MC...` | finite sets for TLC |

Definitions keep the names of the functions they translate; a function that can
be interleaved with another thread is cut into steps named `Function_Step`, each
one critical section or one atomic access. The `map` of `PROJECT.json` has the
lines. Operators marked "Mutant" are never part of a specification: each is a
plausible mistake in the operator below it, kept to show which property would
notice. Every state machine has a type invariant `TypeOK`. It documents the state
and is proved of each of them, as the first part of the inductive invariant, so the
runs spend their time on other properties.

### ProducerConsumerQueue and MapUpdater

`queue`, `shutdown` and `waiting` are the deque, `_shutdown` and the threads
blocked in `_condition.wait`. `Push` appends and lets one waiter go; a thread
released finds a value, blocks again, or leaves when the queue is shut down.
Because `std::condition_variable` allows it, a waiter may also return without
being notified.

`MapUpdater` follows the world thread through `start` (`Initialize`, with none,
some or all workers), `tick` (between updates: maps are created), `schedule`,
`wait`, `delayed`, and the shutdown `unload`, `deactivate`, `cancel`, `join`. A
worker is in `WaitAndPop`, at the test of the token, in `Map::Update`, or in
`update_finished`; inside the update of a `MapInstanced` it destroys instances
that can be unloaded and schedules the others. Without workers the world thread
does the same itself. `_lock` is held to the end of `schedule_update` and
`update_finished`, so each of them is one step, the push inside included.

### DatabaseWorkerPool

The loader opens the asynchronous connections one by one (each object starts its
worker before `Open` is called), then the synchronous ones. Any of them may fail,
which destroys it and those of its type, or only it, when the server is too old
(`OpenFails`). With `Updates.AutoSetup` a missing database is created and `Open`
called a second time on the same pool; otherwise the process ends, and
`PoolDestructor` cancels the queue and destroys the connections that are left, whose
workers were running all the time. The destructor of a connection sets the token of
its worker, cancels the **shared** queue and joins.
Clients enqueue operations and lock a free synchronous connection. `Scripts` also
walk over all connections as `PrepareCustomStatement` does, ignoring the result of
`LockIfReady`: from the first of them on (`customIds`) nothing excludes two threads
from one connection any more. `pushed` and `done` are histories.

### SQLTransaction

A thread executes `START TRANSACTION`, the statements and `COMMIT`, each one
step. The server is external: rows are locked until the end of a transaction, one
transaction of a cycle is rolled back, a lost session is rolled back.
`_HandleMySQLErrno` reconnects with a bounded number of attempts and aborts the
process at the last; other errors while reconnecting leave the connection without
a handle. `TransactionTask` retries under `_deadlockLock`,
`DirectCommitTransaction` a number of times. Sixty seconds of retries are
`MaxRetries`.

### MPSCQueue

One step per access to `_head` or to a link that others can see. Every store is a
release and every load an acquire, and the only location several threads write is
`_head`, by exchange, so interleavings are all that can be observed. The consumer
deletes what it gets, and addresses are used again. `chain` is a history, the
nodes in the order of the exchanges; without the dummy it is `contents` of
`PacketFifo`, the refinement mapping of `ImplementsFifo`.

### WorldSocket

One connection from the acceptor to its removal. The network thread is in its
handlers (`netpc`): `Update` is cut where the world thread or the result of a
write matters. It takes one packet after the other out of `_bufferQueue`
(`Update_Pack`), into which the world thread may write meanwhile, and when it finds
none it queues what is left in its `buffer` (`Update_Queue`). A read handler is cut between
the message, which it takes after `ReadHandler` has tested `IsOpen`, the lock of
`_worldSession` and its release. Most messages test the pointer under the lock
(`ReadDataHandler_Lock`, `netpc = "using"`); a second `CMSG_AUTH_SESSION` does not
(`ReadDataHandler_Duplicate`, `ReadDataHandler_Log`, `netpc = "logging"`), and when the
pointer is null the process crashes: both threads stop (`Alive`). That `try_lock` fails,
or the logger is off, is an outcome of `ReadHandler_Error`. The world thread sends, kicks, refuses and
deletes; `CloseSocket` is cut between `_closed` and `OnClose`. Packets carry a
number and a size; a client message is its opcode class. The proxy header, the
check of the address, the account and the permissions are answered in every way
the code tells apart. `_bufferQueue` is the FIFO of `PacketFifo`.

### WorldSessions

The step from one socket to the whole server: `WorldSocket` shows that a session is
handed over once and deleted once, `WorldSessions` takes it from `addSessQueue`.
The world thread alternates between `UpdateSessions` and the update of the maps
(`worldpc`): it empties `addSessQueue` (`AddSession_`, which refuses a session whose
account is loading a character, replaces an older one, and lets in or queues), then
updates each session (`todo`, `cur`): packets, callbacks, timed logout, removal.
Network threads add sessions and close sockets at any time, and the worker of the
character database executes `dbQueue`, in order, as `TakenInOrder` of the pool
allows with the one worker that is the default; with more, logins could overtake
saves. `RemoveQueuedPlayer` is a function of the queue and the number of sessions,
because it is called from three places, twice in a row in one of them. A character
is a counter of its progress: that tells an old copy from the latest one, which is
all `NoRollback` needs. `HasRecentlyDisconnected` never forgets, as in the code.

### ThreatSelection and Combat

One thread, but hardly a sequence of calls that cannot happen: spells, AIs, timers
and the network end and begin combat in any order. `pveRefs`, `pvpRefs`, `first`
and `suppressed` are the references as each unit keeps them; `mgr` is the threat
manager of each creature (its references, `_currentVictimRef`, `_fixateRef`),
`threatenedByMe` the other side. An action is one call from outside with all it
calls, up to the hand-off to an AI; what the AI does then is another action. What
the code asks the world (alive, visible, hostile, immune, in range) may be answered
anew at each call. Operators on managers give the set of managers that may result,
so that `ClearThreat` can be applied to several references at once; the comment
there says why the selections in between leave no trace.

`ThreatSelection` has no state: `Reselect` follows the early exits and the loop of
`ReselectVictim` over every order in which the heap may hand out equal references;
`Deserving` is the rule of 110 and 130 % in one sentence. Threat is an integer and
the thresholds are exact, where the code has `float`.

## What is checked

| Run | Shows | Distinct states |
|---|---|---|
| `map_update` | the barrier, the life of maps, exactly one update per map, the token, no lost wakeup, the end of update and shutdown | 20 000 |
| `db_pool` | operations are neither lost nor repeated nor taken out of order, and executed only on connections that are ready, whatever part of `Open` fails; no wakeup of a worker is lost; connections are exclusive until there is a custom statement; operations of a pool that opened at the first attempt are executed; `Close`, a failed `Open` and the destructor of the pool come to their end | 392 000 |
| `db_pool_autosetup` (violated) | a pool opened by the second attempt executes nothing | |
| `db_pool_shutdown` (violated) | `Close` drops queued operations | |
| `transaction` | where no connection is lost, atomicity and truthful results under deadlocks, errors and retries; always, that nobody waits for the mutex with locks, that retries do not collide, that transactions end | 217 000 |
| `transaction_lost_midway` (violated) | after a reconnection the rest of a transaction runs alone | |
| `mpsc_queue` | refinement of the FIFO, no use after delete, no part of the queue cut off, delivery | 3 000 |
| `world_socket` | the session pointer where it is tested, the login, the order of packets, removal | 190 000 |
| `world_socket_duplicate` (violated) | a second `CMSG_AUTH_SESSION` while the session is kicked: the pointer is null when the player is logged | |
| `world_socket_close` (violated) | a refused client never gets the response | |
| `world_sessions` | the queue and the limit, whoever comes back, leaves or is kicked; no character is played twice or rolled back, however far the database lags; loads and kicks end | 262 000 |
| `combat` | the flag, the two sides of every reference, threat implies combat, the current victim, and the selection of a victim against its rule | 26 000 |

The five violated runs state what a comment or a document says; `findings` quotes
it. World.cpp:330 warns of a "race condition in WorldSession* being used in the
Sockets". Two runs say where it is: a pointer that is tested under the lock is safe in
every interleaving (`SessionAlive`), because `OnClose` takes the lock before the world
thread can delete the session, and so is the untested one of
`LoadSessionPermissionsCallback` (`PermissionsFindSession`); the untested one that logs
a second `CMSG_AUTH_SESSION` is not (`LoggedSafely`), though it is null there and never
dangling. `ClosedIsRemoved` and `SessionEnds` except the crash that follows.

### Bounds

* `map_update`: two workers, so that both the queue and a worker can hold
  requests of one update; a plain map and one with two instances, so that an
  instance is destroyed while another is scheduled; `MaxTicks` 2, so that the
  state an update leaves behind is used by the next. The number of threads that
  are started is chosen in `Initialize` and includes zero.
* `db_pool_*`: two workers make overtaking and the shared cancellation possible,
  two clients and two connections the contention for mutexes, three operations a
  queue that is longer than the workers can hold, and one client that is a script
  runs beside one that is not. `db_pool_autosetup` and `db_pool_shutdown` use one of
  each and no script. There is no symmetry, which would not be sound for liveness.
* `transaction*`: two rows locked in opposite orders by two transactions are the
  smallest deadlock; one of them may be in error, and a third is empty. `MaxLosses`
  bounds lost connections, `ReconnectAttempts` and `LoopBreaker` are small stand-ins
  for the 5 of the code.
* `mpsc_queue`: two producers are the smallest case in which one is between
  exchange and link while the other goes on; three addresses let one packet be
  deleted, one be last and one be new. The histories are bounded by the addresses,
  so the run covers behaviours of any length.
* `world_socket`: `SendBufferSize` 2 with packets of 1 and 3 reaches each branch
  of the packing, `MaxSent` 4 fills more than one buffer, `MaxBuffered` 1 lets two
  messages arrive with one read. The two violated runs have no proxy, which only makes
  their traces shorter.
* `world_sessions`: four sessions of three accounts with room for one. Two sessions
  of the first account make replacement, refusal and a login against a pending save
  possible; the second account fills the queue, the third skips it, so that the
  limit is exceeded and the queue has to wait for more than one to go. One step of
  progress (`MaxProgress`) tells an old copy from a new one. Two constraints keep
  this in reach. `Deferred` is a reduction: a step of a network thread or of the
  database that the world thread cannot see yet commutes with the steps of the world
  thread in between, so it is enough to take it when it is about to be seen, and the
  properties speak of nothing that differs meanwhile. `Bounded` is a bound: only the
  first account is kicked, its sessions come in one order, and `m_sessions` is
  walked through in one order.
* `combat`: three units, of which two have threat lists and two are controlled by a
  player, so that there are references of both kinds, threat in both directions
  between one pair, and two victims on one list. Threat 0 and 1, one taunt: any two
  references can be equal or differ in each of the three criteria. `WithinBounds`
  keeps the state space small: two threat references at a time, and not suppressed
  combat together with threat, taunts and a fixation. `SelectionCorrect` does not
  depend on the state and is evaluated in the initial one, on all lists of up to three
  victims whose threats are among `SampleThreats`, values on and beside the thresholds
  of 110 and 130 %, with every old victim and every set in melee range.

### Fairness

Only weak fairness, and only of steps that a running thread makes without being
asked: the loop of a worker, of the loader while it opens or closes, of the world
thread inside an update, of a producer inside `Enqueue`, of the network and world
loops, of a database server that answers, of the loop of the world over its sessions
and the worker behind it. Nobody has to enqueue, send, read, kick,
log in or shut down, spurious wakeups need not happen, and no mutex is assumed to
be handed over in any order. This is what an operating system that schedules every
runnable thread gives.

## What is proved

The theorems hold for every set of workers, maps, connections, operations,
transactions, addresses, units and so on, where the runs have two or three of each;
they are about the same modules TLC checks, and use `Spec` alone, never the fairness.
Every safety property of a passing run, the action property and the refinement included,
is stated by a theorem; liveness is left, see the end of this section. Each inductive invariant was checked by TLC before it was proved.

### MapUpdaterProofs

`TypeCorrect`, `Exclusion` (`WorldExclusive`), `NoNullCall` (`NoNullRequest`),
`AliveRequests` (`RequestsAlive`), `ExactlyOnce` (`UpdatedExactlyOnce`),
`NoLostWakeup` (`NobodySleepsOn`).

The barrier is not inductive by itself: nothing in it relates the counter to the
requests. `IInv` adds `Counted` (`pending_requests` is the length of the queue plus
the number of workers holding a request), `Barrier` (outside scheduling and waiting it
is 0), `WorkerState` (what a worker holds where) and `ShutdownOrder` (token before
cancel). `Counted` is preserved because a request moves from the queue to a worker in
one step and because a worker that schedules instances holds a request of its own
meanwhile.

For `AliveRequests` and `ExactlyOnce` a second invariant, `TurnInv`, follows the turn of each map: until
it is handled it is in the loop of `MapManager::Update`, in the queue, with the worker
that has popped it, or in the list a `MapInstanced` goes through, and in one of these
only; an instance has none before its parent had its own. So an instance that is
destroyed has no request left, and when nothing is pending everything was handled once.

`NoLostWakeup` is the part of `UpdateEnds` and `ShutdownEnds` that is about states.
`AwakeInv` says that not all workers sleep while a request is queued: only one that found
the queue empty goes to sleep, and every `Push` wakes one (`PushAwake`). A worker that
is awake with the token unset goes on to a request; and when the world thread sleeps
something is pending, so by `Counted` it is in the queue or with a worker. Assumptions: finitely many workers, no map is the null pointer, instances are not base
maps.

### DatabaseWorkerPoolProofs

`PoolTypes` (`TypeOK`), `WorkersSafe` (`WorkerSafe`), `Conserved` (`Conservation`),
`Ordered` (`TakenInOrder`), `NoLostWakeup` (`NobodySleepsOn`), and `Exclusive`
(`ConnectionExclusive`, which ends with the first custom statement).

`PoolInv` says that before the first operation nobody can be holding one (`Quiet`),
and that after it the pool is running, with all connections ready, or being closed for
good (`Started`, `Order`): a worker whose connection is gone has ended. Exclusion
follows from the owner of a mutex being whoever uses the connection (`Disciplined`),
which only `PrepareCustomStatement` breaks.

`HistoryInv` is about the operations. A prefix of what was enqueued has been taken
(`InOrder`), the rest is the queue; each one taken is in the hands of one worker or was
executed (`Hands`, `Once`). No token is set while the pool runs: there is a
second attempt only when the first connection failed for want of a database, and that
one is destroyed before (`Tokens`), so no worker abandons an operation then. What is overtaken is in the hands of a worker, and not of the one
that took the last operation: it has that one or nothing. That gives a worker for each
operation overtaken and one to spare.

`NoLostWakeup` has its own `AwakeInv`, as above, with two facts about closing: what cancels the
queue empties its wait set for good, because `WaitAndPop` does not block on a cancelled
queue, and every path to a join goes through a cancel. That a pool may run on a cancelled
queue at all is the finding of `db_pool_autosetup`; the property confines it to a second
attempt with auto setup. Assumptions: the sets of connections are finite,
not empty and disjoint.

### SQLTransactionProofs

`AtomicCommit` (`AtomicUnlessLost`), `ResultHonest` (`TruthfulUnlessLost`),
`OneRetries` (`RetriesDoNotCollide`), `NothingHeldWaiting` (`WaitsWithoutLocks`), and
`TransactionTypes` (`TypeOK`), with any number of retries and lost connections.

What a transaction is worth is decided at `COMMIT`; `Sessions` says what a session
holds before: the statements executed so far if `START TRANSACTION` is in effect,
nothing otherwise. `Control` and `Retrying` tie threads, transactions and the mutex
together. As long as no connection is lost the table then holds all of a transaction
or nothing, according to its result (`Truthful`). As long as at most one is lost, a
transaction that has not got as far as `COMMIT` lacks its last statement
(`Unfinished`): with autocommit it is the last one executed.

The second half of `TruthfulUnlessLost` was stated without the limit of one loss
before. The proof did not go through, and TLC with two losses shows why: the first loss
leaves the rest of the transaction to autocommit, the second comes when the last
statement has taken effect and its answer is lost; the statement is executed again,
fails on what it has done itself, and the caller is told the transaction failed.
Assumptions: threads are finitely many, workers are not callers, the bounds are
numbers.

### MPSCQueueProofs

`Refinement` (`ImplementsFifo`), `QueueTypes` (`TypeOK`), `MemorySafe`
(`NoUseAfterDelete`), `NoHoles` (`NothingCutOff`).

The invariant describes the chain of nodes: they are distinct and alive, `_tail` is
the first and `_head` the last, every one points to its successor unless the producer
that put it there is between exchange and store, and then to nothing. What `Dequeue`
returns is the first of the chain without the dummy, and `Enqueue` appends to it at
the exchange: these are the steps of the FIFO, all others leave the mapping unchanged.

`Linkers` says that whoever is between exchange and store is about to fill a gap of the
chain. `NoHoles` is the converse, `NoneForgotten`: every gap has such a thread. An
exchange opens one gap and its own thread will fill it, a store fills one, and the
consumer, which only passes links that are there, opens none.

### WorldSocketProofs

`SessionOutlivesUse` (`SessionAlive`), `PermissionsSafe` (`PermissionsFindSession`),
`OneSession` (`AuthenticatedOnce`), `StreamOrdered` (`StreamInOrder`), `NothingLost`,
`SocketTypes` (`TypeOK`, and `ConnectionCounted`: the thread's `_connections` counts the
socket exactly while it is in a list).

`SocketInv` relates the three places that know about a login: the pending query, the
state of the session, and the pointer with its lock. The pointer is only set by the
network thread and only cleared by `OnClose` under the lock; the world thread deletes a
session after it has closed the socket, so whoever holds the lock and sees the pointer
sees a session that is there, and a pointer that was tested stays until the lock is
released. That there is a pointer at all is not so for the use without a test
(`world_socket_duplicate`), and no theorem rests on it.

The stream is a second invariant, `StreamInv`. The packets from the wire through
`_writeQueue`, `buffer` and `_bufferQueue` are, one behind the other, the packets that were
enqueued (`LaidOut`): enqueueing appends at one end, writing cuts off at the other, and
`Pack` moves a packet from `_bufferQueue` behind the last one in front of it, whichever of
its branches it takes. What the write queue holds is a sequence of sequences, and `LaidOut`
asks for the place at which each of them begins (`Layout`), so that no induction over
the queue is needed; taking one packet at a time, as the loop of the code does, is what
makes `Pack` a step of the proof instead of a fold. `NothingLost` is `LaidOut` itself while no write
has failed, stronger than `StreamInOrder`, which would allow packets to vanish at the end.

### WorldSessionsProofs

`QueueIsSound` (`QueueSound`), `NobodyWaitsBesideRoom` (`NoRoomWhileQueued`),
`LimitIsKept` (`LimitKept`), `NoCharacterRollsBack` (`NoRollback`),
`LoadsAndKicksAreUnderWay` (`UnderWay`), and `SessionTypes` (`TypeOK`), for any accounts,
sessions, limit and progress.

`Lives` says what the objects are: `m_sessions` has exactly the sessions that were
added and not deleted, one for an account at most (`Registered`); the others have no
character, no query under way and no place in the queue (`Idle`); a session that loads
has no character yet (`Loading`); the loop of `UpdateSessions` goes through sessions
that are there (`Pass`). `Waiting` adds to `QueueSound` that no query is under way for
a queued session, so being let in is the only way out of `inQueue` but removal.

The two properties of the limit come down to counting. `Removal` describes one call of
`RemoveQueuedPlayer` by the set of the other active sessions: that it subtracts one only
from a count above zero, and only for a session that was not queued, is exactly what
makes its number the size of that set. `Joins` and `Leaves` then tell `AddSession_` and
`Update_Remove` with it. A step removes one active session at most and lets in one at
least if it can, so who waits on waits behind a full server; and who is let in was
counted against the limit first. The second call of `RemoveQueuedPlayer` in
`Update_Remove` needs the argument a second time: it never finds the session in the
queue, and lets in another one only if there is still room beside the active ones.

`NoRollback` rests on the order of the database's queue. `Logins` says that a query for
a character is in it exactly once while the session waits for it, and that no save of the
character is behind it: who loads it has nothing to save. `Fresh` is `NoRollback`
without the count of holders. When the worker reaches the query nothing of the account
is left to be saved, so what is stored is the last save (`ExecuteLatest`, `SendLatest`:
what sending and executing do to the last pending save). `PendingSaves` and
`LatestSaveIs` name that save by its place in the queue, where a fold over the queue
would need induction.

`UnderWay` is the part of `Settles` that is about states: a session that loads has its
query in that queue, the answer ready, or a closed socket, and a session that was kicked
is in `m_sessions` with a closed socket, so the step that ends the load or the session is
always one the world thread or the database will make. `AllRest` adds to `Logins` that
sockets stay closed. Assumptions: finitely many sessions and accounts, every session
has an account, and `None` is none of these.

### ThreatSelectionProofs and CombatProofs

`SelectionRule`: for every finite list of references, with any threat and taunt states
and any old victim, the set `Reselect` may return is the set the rule allows
(`Deserving`). `SelectionAlwaysCorrect` (`SelectionCorrect`) is the same in the form TLC
evaluates, for any units and any `SampleThreats`. That
every heap has an order to hand out its references in is shown by a minimal
counterexample over the subsets of the list, what the loop does by the least position
at which it stops.

`FlagCorrect`, `ReferencesMatch`, `ThreatNeedsCombat`, `VictimSound`,
`SwitchJustified` (the action property `NoIdleSwitch`) and `CombatTypeCorrect`. The four
invariants with `TypeOK` are inductive together and not one by one: ending combat has
to clear threat on both sides because threat implies combat, and the victim stays
available because every change of a list selects again. `InvParts` regroups them into
the part each manager keeps by itself and the part between the two. `VictimSound` and
`SwitchJustified` rest on `SelectionRule`. Assumptions: finitely many units.

### Only model-checked

* Liveness (`UpdateEnds`, `ShutdownEnds`, `OperationsRunAtFirst`, `CloseEnds`,
  `TransactionsEnd`, `Delivered`, `ClosedIsRemoved`, `SessionEnds`, `Settles`), which
  needs fairness and `ENABLED`, out of this prover's reach. What of them
  is about states is proved: `NoLostWakeup` of the two pools, `NoHoles`, `UnderWay`.
* What needs induction over data is not stated by any property: places in queues are given
  by index or length instead of folds.

## Not modelled

Memory orders weaker than the ones the code uses; the IOCP variant of writing; the
non-intrusive queue; what SQL statements compute; digests and ciphers (only
whether a header is encrypted, and the order that keeps the cipher in step);
stopping the network; the receive queue of a session and the requeueing of its
packets; a player limit that changes at run time; more than one worker for the
character database; how much threat a spell causes, modifiers and redirections; an
AI that calls back in the middle of a call of the two managers; everything listed as
`not_modelled` in `PROJECT.json`. Most of the 900 000 lines of the repository are
data-driven game rules, scripts and vendored libraries, which no finite instance of
this kind says anything about.

## Plan

1. `MapUpdater` with `ProducerConsumerQueue`, the barrier and its proof: done.
2. `DatabaseWorkerPool` with its proofs, and `SQLTransaction`: done.
3. `MPSCQueue` against `PacketFifo`, `WorldSocket`: done.
4. `WorldSessions`, `ThreatSelection` and `Combat`: done.
5. Proofs of the safety of all of these: done.
6. Further components, if there is room: the receive queue of a session,
   `EventProcessor`, the login protocol of the authserver.
