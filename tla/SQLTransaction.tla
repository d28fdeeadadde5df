--------------------------- MODULE SQLTransaction ---------------------------
(***************************************************************************)
(* How a transaction is executed: MySQLConnection::ExecuteTransaction,     *)
(* _HandleMySQLErrno and the reconnection, TransactionTask::Execute and    *)
(* TransactionWithResultTask::Execute on the worker threads (one retries   *)
(* at a time, under _deadlockLock), and DirectCommitTransaction on the     *)
(* thread of a caller.                                                     *)
(*                                                                         *)
(* The server is external: a session has an open transaction or none, an   *)
(* update locks its row until the end of the transaction, a cycle of waits *)
(* is broken by rolling one transaction back, START TRANSACTION commits    *)
(* what is open, and a lost session is rolled back.                        *)
(***************************************************************************)
EXTENDS Naturals, Sequences, FiniteSets

CONSTANTS
    Workers,            \* threads of the asynchronous connections
    Callers,            \* threads in DirectCommitTransaction, each with a
                        \* synchronous connection of its own
    Transactions,
    RowsOf,             \* the rows the statements of a transaction update
    Faulty,             \* transactions with a statement that is in error: it
                        \* violates a key or names a column that is not there
    None,
    LoopBreaker,        \* loopBreaker of DirectCommitTransaction
    MaxRetries,         \* bound on the retries explored in 60 seconds
    ReconnectAttempts,  \* `attempts` of _HandleMySQLErrno
    MaxLosses           \* bound on the connections lost

Threads == Workers \cup Callers
Rows == UNION {{RowsOf[x][i] : i \in DOMAIN RowsOf[x]} : x \in Transactions}
Statements == UNION {{<<x, i>> : i \in DOMAIN RowsOf[x]} : x \in Transactions}

ASSUME TransactionAssumption ==
    /\ IsFiniteSet(Threads) /\ Workers \cap Callers = {}
    /\ None \notin Threads \cup Transactions
    /\ Faulty \subseteq Transactions
    /\ \A x \in Transactions : RowsOf[x] \in Seq(Rows)
    /\ {LoopBreaker, MaxRetries, ReconnectAttempts, MaxLosses} \subseteq Nat
    /\ ReconnectAttempts > 0 /\ MaxRetries > 0

VARIABLES
    pc, task, next,     \* of each thread: where it is, its transaction and
                        \* the statement to execute next
    retries,            \* of each thread: TryExecute calls after the first
    error,              \* of each thread: what GetLastError returned
    deadlockLock,       \* who holds TransactionTask::_deadlockLock
    inTransaction,      \* of each session: START TRANSACTION is in effect
    dirty,              \* of each session: statements not committed yet
    link,               \* of each connection: "up", "lost" (reconnecting) or
                        \* "dead" (m_Mysql is null and stays so)
    attempts,           \* of each connection: attempts left to reconnect
    losses,             \* connections lost so far
    table,              \* the statements that took effect, in order
    result,             \* of each transaction: what became of it
    aborted             \* ABORT() was called

threadVars  == <<pc, task, next, retries, error>>
sessionVars == <<inTransaction, dirty, link, attempts, losses>>
vars == <<threadVars, deadlockLock, sessionVars, table, result, aborted>>

TypeOK ==
    /\ pc \in [Threads -> {"idle", "begin", "execute", "rollback", "commit", "lock"}]
    /\ task \in [Threads -> Transactions \cup {None}]
    /\ next \in [Threads -> Nat]
    /\ retries \in [Threads -> 0..(LoopBreaker + MaxRetries)]
    /\ error \in [Threads -> {"none", "deadlock", "other"}]
    /\ deadlockLock \in Workers \cup {None}
    /\ inTransaction \in [Threads -> BOOLEAN]
    /\ dirty \in [Threads -> Seq(Statements)]
    /\ link \in [Threads -> {"up", "lost", "dead"}]
    /\ attempts \in [Threads -> 0..ReconnectAttempts]
    /\ losses \in 0..MaxLosses
    /\ table \in Seq(Statements)
    /\ result \in [Transactions -> {"queued", "running", "true", "false"}]
    /\ aborted \in BOOLEAN

Init ==
    /\ pc = [k \in Threads |-> "idle"]
    /\ task = [k \in Threads |-> None]
    /\ next = [k \in Threads |-> 1]
    /\ retries = [k \in Threads |-> 0]
    /\ error = [k \in Threads |-> "none"]
    /\ deadlockLock = None
    /\ inTransaction = [k \in Threads |-> FALSE]
    /\ dirty = [k \in Threads |-> <<>>]
    /\ link = [k \in Threads |-> "up"]
    /\ attempts = [k \in Threads |-> 0]
    /\ losses = 0 /\ table = <<>> /\ aborted = FALSE
    /\ result = [x \in Transactions |-> "queued"]

-----------------------------------------------------------------------------
(* The server                                                              *)

RowOf(s) == RowsOf[s[1]][s[2]]
LockedRows(k) == {RowOf(dirty[k][i]) : i \in 1..Len(dirty[k])}
Statement(k) == <<task[k], next[k]>>

\* The statement of k waits for a row that j has locked.
WaitsFor(k, j) ==
    /\ pc[k] = "execute" /\ link[k] = "up" /\ k # j
    /\ next[k] <= Len(RowsOf[task[k]])
    /\ RowOf(Statement(k)) \in LockedRows(j)

Blocked(k) == \E j \in Threads : WaitsFor(k, j)

\* k is part of a cycle of waits.
Deadlocked(k) ==
    \E S \in SUBSET Threads :
        /\ k \in S
        /\ \A s \in S : (\E j \in S : WaitsFor(s, j)) /\ (\E j \in S : WaitsFor(j, s))

\* The session is rolled back, or a new one begins, with autocommit.
CleanSession(k) ==
    /\ inTransaction' = [inTransaction EXCEPT ![k] = FALSE]
    /\ dirty' = [dirty EXCEPT ![k] = <<>>]

\* mysql_query fails with CR_SERVER_LOST or CR_SERVER_GONE_ERROR.
LinkLost(k) ==
    /\ losses < MaxLosses
    /\ losses' = losses + 1
    /\ link' = [link EXCEPT ![k] = "lost"]
    /\ attempts' = [attempts EXCEPT ![k] = ReconnectAttempts]
    /\ CleanSession(k)

Running(k) == ~aborted /\ link[k] # "lost"

-----------------------------------------------------------------------------
(* MySQLConnection                                                         *)

\* _HandleMySQLErrno: Open succeeds (and the failed call is made again), unless
\* the statements cannot be prepared again; or it fails, which ends the process
\* at the last attempt; before that it is tried again after
\* CR_CONN_HOST_ERROR, and any other error is given up on.
_HandleMySQLErrno(k) ==
    /\ ~aborted /\ link[k] = "lost"
    /\ \/ /\ link' = [link EXCEPT ![k] = "up"]
          /\ aborted' \in BOOLEAN
          /\ UNCHANGED attempts
       \/ /\ attempts' = [attempts EXCEPT ![k] = @ - 1]
          /\ aborted' = (attempts[k] = 1)
          /\ \/ UNCHANGED link
             \/ attempts[k] > 1 /\ link' = [link EXCEPT ![k] = "dead"]
    /\ UNCHANGED <<threadVars, deadlockLock, inTransaction, dirty, losses,
                   table, result>>

\* BeginTransaction ignores the result of Execute; a transaction without
\* statements is refused with -1 before it.
BeginTransaction(k) ==
    /\ Running(k) /\ pc[k] = "begin"
    /\ \/ /\ RowsOf[task[k]] = <<>>
          /\ pc' = [pc EXCEPT ![k] = "rollback"]
          /\ error' = [error EXCEPT ![k] = "other"]
          /\ UNCHANGED <<next, sessionVars, table>>
       \/ /\ RowsOf[task[k]] # <<>>
          /\ pc' = [pc EXCEPT ![k] = "execute"]
          /\ next' = [next EXCEPT ![k] = 1]
          /\ table' = table \o dirty[k]
          /\ inTransaction' = [inTransaction EXCEPT ![k] = link[k] = "up"]
          /\ dirty' = [dirty EXCEPT ![k] = <<>>]
          /\ UNCHANGED <<error, link, attempts, losses>>
       \/ /\ RowsOf[task[k]] # <<>> /\ link[k] = "up"
          /\ LinkLost(k)
          /\ UNCHANGED <<pc, next, error, table>>
    /\ UNCHANGED <<task, retries, deadlockLock, result, aborted>>

\* A statement takes effect, inside the transaction or, with autocommit, at
\* once.
Execute_Ok(k) ==
    /\ Running(k) /\ pc[k] = "execute" /\ link[k] = "up"
    /\ next[k] <= Len(RowsOf[task[k]]) /\ ~Blocked(k)
    /\ next' = [next EXCEPT ![k] = @ + 1]
    /\ IF inTransaction[k]
       THEN dirty' = [dirty EXCEPT ![k] = Append(@, Statement(k))] /\ UNCHANGED table
       ELSE table' = Append(table, Statement(k)) /\ UNCHANGED dirty
    /\ UNCHANGED <<pc, task, retries, error, deadlockLock, inTransaction, link,
                   attempts, losses, result, aborted>>

\* A statement fails for good: ExecuteTransaction keeps the error code and
\* rolls back.  Without a connection GetLastError asks the client library
\* about a null handle, and gets the last error outside of any connection,
\* which usually is 0.
Execute_Fails(k) ==
    /\ Running(k) /\ pc[k] = "execute"
    /\ next[k] <= Len(RowsOf[task[k]])
    /\ \/ /\ link[k] = "up" /\ Deadlocked(k)
          /\ error' = [error EXCEPT ![k] = "deadlock"]
          /\ CleanSession(k)
       \/ /\ link[k] = "up" /\ task[k] \in Faulty /\ ~Blocked(k)
          /\ error' = [error EXCEPT ![k] = "other"]
          /\ UNCHANGED <<inTransaction, dirty>>
       \/ /\ link[k] = "dead"
          /\ \E e \in {"none", "other"} : error' = [error EXCEPT ![k] = e]
          /\ UNCHANGED <<inTransaction, dirty>>
    /\ pc' = [pc EXCEPT ![k] = "rollback"]
    /\ UNCHANGED <<task, next, retries, deadlockLock, link, attempts, losses, table,
                   result, aborted>>

\* A statement does not fit the structure of the database: the core ends.
Execute_Aborts(k) ==
    /\ Running(k) /\ pc[k] = "execute" /\ link[k] = "up"
    /\ next[k] <= Len(RowsOf[task[k]])
    /\ task[k] \in Faulty
    /\ aborted' = TRUE
    /\ UNCHANGED <<threadVars, deadlockLock, sessionVars, table, result>>

\* The connection is lost during a statement; with autocommit the statement
\* may have taken effect.  After a reconnection it is executed again.
Execute_LinkLost(k) ==
    /\ Running(k) /\ pc[k] = "execute" /\ link[k] = "up"
    /\ next[k] <= Len(RowsOf[task[k]])
    /\ LinkLost(k)
    /\ \/ UNCHANGED table
       \/ ~inTransaction[k] /\ ~Blocked(k) /\ table' = Append(table, Statement(k))
    /\ UNCHANGED <<threadVars, deadlockLock, result, aborted>>

\* All statements done: COMMIT.
Execute_Done(k) ==
    /\ Running(k) /\ pc[k] = "execute"
    /\ next[k] = Len(RowsOf[task[k]]) + 1
    /\ pc' = [pc EXCEPT ![k] = "commit"]
    /\ UNCHANGED <<task, next, retries, error, deadlockLock, sessionVars, table,
                   result, aborted>>

-----------------------------------------------------------------------------
(* TransactionTask, TransactionWithResultTask, DirectCommitTransaction     *)

\* Mutant: Execute returns without giving the mutex back.
FinishKeepingLock(k, r) ==
    /\ result' = [result EXCEPT ![task[k]] = r]
    /\ task' = [task EXCEPT ![k] = None]
    /\ pc' = [pc EXCEPT ![k] = "idle"]
    /\ retries' = [retries EXCEPT ![k] = 0]
    /\ error' = [error EXCEPT ![k] = "none"]
    /\ UNCHANGED deadlockLock

\* Execute returns: the result is set, the mutex released, the task deleted.
Finish(k, r) ==
    /\ result' = [result EXCEPT ![task[k]] = r]
    /\ task' = [task EXCEPT ![k] = None]
    /\ pc' = [pc EXCEPT ![k] = "idle"]
    /\ retries' = [retries EXCEPT ![k] = 0]
    /\ error' = [error EXCEPT ![k] = "none"]
    /\ deadlockLock' = IF deadlockLock = k THEN None ELSE deadlockLock

Start(k, x) ==
    /\ ~aborted /\ pc[k] = "idle" /\ result[x] = "queued"
    /\ result' = [result EXCEPT ![x] = "running"]
    /\ task' = [task EXCEPT ![k] = x]
    /\ pc' = [pc EXCEPT ![k] = "begin"]
    /\ UNCHANGED <<next, retries, error, deadlockLock, sessionVars, table, aborted>>

\* CommitTransaction ignores the result of Execute too, so ExecuteTransaction
\* returns 0 in every case.
CommitTransaction(k) ==
    /\ Running(k) /\ pc[k] = "commit"
    /\ \/ /\ table' = table \o dirty[k]
          /\ CleanSession(k)
          /\ Finish(k, "true")
          /\ UNCHANGED <<link, attempts, losses>>
       \/ /\ link[k] = "up" /\ LinkLost(k)
          /\ table' \in {table, table \o dirty[k]}
          /\ UNCHANGED <<pc, task, retries, error, deadlockLock, result>>
    /\ UNCHANGED <<next, aborted>>

\* What becomes of the error code: a deadlock of the first attempt is retried;
\* inside the loop any error is, until the time (or the loop breaker) has run
\* out.
Retry(k) ==
    /\ pc' = [pc EXCEPT ![k] = "begin"]
    /\ retries' = [retries EXCEPT ![k] = @ + 1]
    /\ UNCHANGED <<task, error, deadlockLock, result>>

WaitForTurn(k) ==
    /\ pc' = [pc EXCEPT ![k] = "lock"]
    /\ UNCHANGED <<task, retries, error, deadlockLock, result>>

\* Mutant: after the last retry of the loop the transaction counts as done.
GivesUpAsDone(k) ==
    IF retries[k] = 0 THEN IF error[k] = "deadlock" THEN WaitForTurn(k) ELSE Finish(k, "false")
                      ELSE Finish(k, "true")

TransactionTask_Failed(k) ==
    \/ retries[k] = 0 /\ error[k] = "deadlock" /\ WaitForTurn(k)
    \/ retries[k] \in 1..(MaxRetries - 1) /\ Retry(k)
    \/ (retries[k] > 0 \/ error[k] = "other") /\ Finish(k, "false")

DirectCommitTransaction_Failed(k) ==
    IF retries[k] < LoopBreaker /\ (retries[k] > 0 \/ error[k] = "deadlock")
    THEN Retry(k) ELSE Finish(k, "false")

\* An error code of 0 counts as success.
Failed(k) ==
    /\ CASE error[k] = "none" -> Finish(k, "true")
         [] error[k] # "none" /\ k \in Workers -> TransactionTask_Failed(k)
         [] error[k] # "none" /\ k \in Callers -> DirectCommitTransaction_Failed(k)
    /\ UNCHANGED <<next, link, attempts, losses, table, aborted>>

\* Mutant: ROLLBACK is forgotten after an error.
RollbackForgotten(k) ==
    /\ Running(k) /\ pc[k] = "rollback"
    /\ UNCHANGED <<inTransaction, dirty>>
    /\ Failed(k)

\* ROLLBACK, whose result is ignored like that of COMMIT, and the return to the
\* task.
RollbackTransaction(k) ==
    /\ Running(k) /\ pc[k] = "rollback"
    /\ \/ CleanSession(k) /\ Failed(k)
       \/ /\ link[k] = "up" /\ LinkLost(k)
          /\ UNCHANGED <<threadVars, deadlockLock, table, result, aborted>>

\* Mutant: the retry does not wait for its turn.
RetryUnlocked(k) ==
    /\ ~aborted /\ pc[k] = "lock"
    /\ deadlockLock' = k
    /\ pc' = [pc EXCEPT ![k] = "begin"]
    /\ retries' = [retries EXCEPT ![k] = 1]
    /\ UNCHANGED <<task, next, error, sessionVars, table, result, aborted>>

\* Only one worker retries at a time.
LockForRetry(k) ==
    /\ ~aborted /\ pc[k] = "lock"
    /\ deadlockLock = None
    /\ deadlockLock' = k
    /\ pc' = [pc EXCEPT ![k] = "begin"]
    /\ retries' = [retries EXCEPT ![k] = 1]
    /\ UNCHANGED <<task, next, error, sessionVars, table, result, aborted>>

-----------------------------------------------------------------------------
Step(k) ==
    \/ _HandleMySQLErrno(k) \/ BeginTransaction(k)
    \/ Execute_Ok(k) \/ Execute_Fails(k) \/ Execute_Aborts(k)
    \/ Execute_LinkLost(k) \/ Execute_Done(k)
    \/ CommitTransaction(k) \/ RollbackTransaction(k) \/ LockForRetry(k)

\* Everything was executed, or the process is gone.
Ended ==
    /\ aborted \/ \A x \in Transactions : result[x] \in {"true", "false"}
    /\ UNCHANGED vars

Next ==
    \/ \E k \in Threads : Step(k) \/ \E x \in Transactions : Start(k, x)
    \/ Ended

Spec == Init /\ [][Next]_vars

\* The threads run and the server answers.  The mutex need not be handed on
\* in any order: a waiter may be overtaken as long as there is work.
FairSpec == Spec /\ \A k \in Threads : WF_vars(Step(k))

-----------------------------------------------------------------------------
(* Properties                                                              *)

\* What took effect of a transaction, as positions in the table.
Effects(x) == {i \in 1..Len(table) : table[i][1] = x}

\* Its statements took effect once each, in the order they were appended, with
\* nothing of another transaction in between.
TookEffect(x) ==
    \E n \in 0..Len(table) :
        /\ Effects(x) = (n + 1)..(n + Len(RowsOf[x]))
        /\ \A i \in Effects(x) : table[i] = <<x, i - n>>

\* A transaction takes effect as a whole, or not at all, however often it is
\* retried.
Atomic == \A x \in Transactions : Effects(x) = {} \/ TookEffect(x)

\* The future of AsyncCommitTransaction tells the truth: true exactly when the
\* transaction took effect.
ResultTruthful ==
    \A x \in Transactions :
        /\ result[x] = "true" => TookEffect(x)
        /\ result[x] = "false" => Effects(x) = {}

\* As long as no connection is lost, every transaction is atomic, whatever the
\* deadlocks, failures and retries of TransactionTask and DirectCommitTransaction.
AtomicUnlessLost == losses = 0 => Atomic

\* As long as no connection is lost the result tells the truth.  With one loss it
\* may say true of what was never executed (GetLastError of a connection without
\* a handle is 0), but never false when every statement took effect, even if the
\* answer to COMMIT was what got lost: nobody is led to repeat it.  A second loss
\* can do that: the first one leaves the rest to autocommit, and the last
\* statement may take effect although its answer is lost with the connection.
TruthfulUnlessLost ==
    /\ losses = 0 => ResultTruthful
    /\ losses <= 1 =>
         \A x \in Transactions :
            result[x] = "false" /\ RowsOf[x] # <<>> =>
              \E i \in DOMAIN RowsOf[x] : \A j \in 1..Len(table) : table[j] # <<x, i>>

\* A thread that waits for _deadlockLock or has nothing to do holds no row
\* lock and no open transaction, so the server's locks and the mutex never
\* form a cycle that neither side can see.
WaitsWithoutLocks ==
    \A k \in Threads :
        pc[k] \in {"idle", "lock"} => ~inTransaction[k] /\ LockedRows(k) = {}

\* "Make sure only 1 async thread retries a transaction so they don't keep
\* dead-locking each other": two workers are never victims of each other in
\* their retries.
RetriesDoNotCollide ==
    \A k, j \in Workers :
        retries[k] > 0 /\ retries[j] > 0 => ~WaitsFor(k, j)

\* Every transaction that was started ends, unless the process is aborted.
TransactionsEnd ==
    \A x \in Transactions :
        result[x] = "running" ~> result[x] \in {"true", "false"} \/ aborted

=============================================================================
