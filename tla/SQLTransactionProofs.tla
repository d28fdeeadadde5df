------------------------ MODULE SQLTransactionProofs ------------------------
(***************************************************************************)
(* Proofs about SQLTransaction for any number of threads, transactions,    *)
(* statements, retries and lost connections.                               *)
(*                                                                         *)
(* What a transaction is worth is decided at COMMIT, so the invariant says *)
(* what a session holds before it: the statements executed so far if START *)
(* TRANSACTION is still in effect, nothing otherwise (`Sessions`).  What   *)
(* the table may hold of a transaction then follows from its result, as    *)
(* long as no connection is lost (`Truthful`), and the last statement of   *)
(* one that is not done is missing as long as one is (`LastMissing`).      *)
(***************************************************************************)
EXTENDS SQLTransaction, SequenceTheorems, TLAPS

\* The thread of a transaction: no two threads have the same one.
Control ==
    /\ \A k \in Threads :
        /\ pc[k] = "idle" <=> task[k] = None
        /\ task[k] # None => result[task[k]] = "running"
        /\ pc[k] = "execute" => next[k] \in 1..(Len(RowsOf[task[k]]) + 1)
        /\ pc[k] = "commit" => next[k] = Len(RowsOf[task[k]]) + 1
        /\ pc[k] = "idle" => retries[k] = 0
        /\ pc[k] = "lock" => k \in Workers /\ retries[k] = 0
        /\ link[k] = "lost" /\ ~aborted => attempts[k] > 0
    /\ \A k, j \in Threads : task[k] # None /\ k # j => task[k] # task[j]

\* A worker that retries holds the mutex.
Retrying == \A k \in Workers : retries[k] > 0 => deadlockLock = k

\* What a session holds that is not committed yet.
Sessions ==
    \A k \in Threads :
        /\ pc[k] \in {"idle", "begin", "lock"} => ~inTransaction[k] /\ dirty[k] = <<>>
        /\ pc[k] \in {"execute", "commit"} =>
             dirty[k] = IF inTransaction[k] THEN [i \in 1..(next[k] - 1) |-> <<task[k], i>>] ELSE <<>>

\* What the table holds of a transaction before any connection was lost.
Truthful ==
    losses = 0 =>
        /\ \A k \in Threads :
            /\ link[k] = "up"
            /\ pc[k] \in {"execute", "commit"} => inTransaction[k]
            /\ pc[k] = "rollback" => error[k] # "none"
        /\ \A x \in Transactions : IF result[x] = "true" THEN TookEffect(x) ELSE Effects(x) = {}

LastMissing(x) ==
    RowsOf[x] # <<>> => \A j \in 1..Len(table) : table[j] # <<x, Len(RowsOf[x])>>

\* The attempt of a thread has not got as far as COMMIT.
Open(k) ==
    \/ pc[k] \in {"begin", "lock", "rollback"}
    \/ pc[k] = "execute" /\ next[k] <= Len(RowsOf[task[k]])

Pending(x) ==
    \/ result[x] \in {"queued", "false"}
    \/ \E k \in Threads : task[k] = x /\ Open(k)

\* A transaction that is not done lacks its last statement, if at most one
\* connection was lost.
Unfinished == losses <= 1 => \A x \in Transactions : Pending(x) => LastMissing(x)

ControlInv == TypeOK /\ Control /\ Retrying /\ Sessions
SqlInv == ControlInv /\ Truthful /\ Unfinished

-----------------------------------------------------------------------------
(* Control                                                                 *)

\* The transaction of a thread that has one.
LEMMA Tasks ==
  ASSUME ControlInv, NEW k \in Threads, pc[k] # "idle"
  PROVE  /\ task[k] \in Transactions /\ task[k] # None /\ result[task[k]] = "running"
         /\ RowsOf[task[k]] \in Seq(Rows) /\ Len(RowsOf[task[k]]) \in Nat
         /\ DOMAIN RowsOf[task[k]] = 1..Len(RowsOf[task[k]])
  <1>1. task[k] \in Transactions /\ task[k] # None /\ result[task[k]] = "running"
    BY DEF ControlInv, TypeOK, Control
  <1>2. RowsOf[task[k]] \in Seq(Rows)
    BY <1>1, TransactionAssumption
  <1>3. QED
    BY <1>1, <1>2

\* The statement a thread is about to execute.
LEMMA StatementType ==
  ASSUME ControlInv, NEW k \in Threads, pc[k] = "execute", next[k] <= Len(RowsOf[task[k]])
  PROVE  Statement(k) \in Statements
  <1>1. next[k] \in DOMAIN RowsOf[task[k]]
    BY Tasks DEF ControlInv, Control
  <1>2. QED
    BY <1>1, Tasks DEF Statement, Statements

\* The bounds are numbers.
LEMMA Bounds ==
  /\ LoopBreaker \in Nat /\ MaxRetries \in Nat /\ MaxRetries > 0
  /\ ReconnectAttempts \in Nat /\ ReconnectAttempts > 0 /\ MaxLosses \in Nat
  /\ None \notin Threads /\ None \notin Transactions /\ Workers \subseteq Threads
  BY TransactionAssumption DEF Threads

\* A session that is cleaned or lost keeps its type.
LEMMA SessionTypes ==
  ASSUME TypeOK, NEW k \in Threads
  PROVE  /\ [inTransaction EXCEPT ![k] = FALSE] \in [Threads -> BOOLEAN]
         /\ [dirty EXCEPT ![k] = <<>>] \in [Threads -> Seq(Statements)]
         /\ LinkLost(k) => /\ inTransaction' \in [Threads -> BOOLEAN]
                           /\ dirty' \in [Threads -> Seq(Statements)]
                           /\ losses' \in 0..MaxLosses
                           /\ link' \in [Threads -> {"up", "lost", "dead"}]
                           /\ attempts' \in [Threads -> 0..ReconnectAttempts]
  <1>1. <<>> \in Seq(Statements) /\ FALSE \in BOOLEAN
    OBVIOUS
  <1>2. [inTransaction EXCEPT ![k] = FALSE] \in [Threads -> BOOLEAN]
    BY DEF TypeOK
  <1>3. [dirty EXCEPT ![k] = <<>>] \in [Threads -> Seq(Statements)]
    BY <1>1 DEF TypeOK
  <1>4. ASSUME LinkLost(k)
        PROVE  /\ losses' \in 0..MaxLosses
               /\ link' \in [Threads -> {"up", "lost", "dead"}]
               /\ attempts' \in [Threads -> 0..ReconnectAttempts]
    BY <1>4, Bounds DEF TypeOK, LinkLost
  <1>5. QED
    BY <1>2, <1>3, <1>4 DEF LinkLost, CleanSession

\* At first no thread has a transaction.
LEMMA ControlInit == Init => ControlInv
  <1> SUFFICES ASSUME Init PROVE ControlInv
    OBVIOUS
  <1>1. TypeOK
    <2>1. <<>> \in Seq(Statements)
      OBVIOUS
    <2>2. inTransaction \in [Threads -> BOOLEAN] /\ aborted \in BOOLEAN
      BY DEF Init
    <2>3. dirty \in [Threads -> Seq(Statements)] /\ table \in Seq(Statements)
      BY <2>1 DEF Init
    <2>4. /\ 0 \in 0..(LoopBreaker + MaxRetries) /\ 0 \in 0..ReconnectAttempts /\ 0 \in 0..MaxLosses
      BY Bounds
    <2>5. QED
      BY <2>2, <2>3, <2>4 DEF Init, TypeOK
  <1>2. Control /\ Retrying /\ Sessions
    BY DEF Init, Control, Retrying, Sessions, Threads
  <1>3. QED
    BY <1>1, <1>2 DEF ControlInv

\* Reconnecting changes nothing but the connection.
LEMMA ReconnectControl ==
  ASSUME ControlInv, NEW k \in Threads, _HandleMySQLErrno(k)
  PROVE  ControlInv'
  <1> USE DEF ControlInv
  <1>a. attempts[k] \in 1..ReconnectAttempts /\ link[k] = "lost" /\ ReconnectAttempts \in Nat
    BY Bounds DEF _HandleMySQLErrno, TypeOK, Control
  <1>b. /\ link' \in [Threads -> {"up", "lost", "dead"}] /\ aborted' \in BOOLEAN
        /\ attempts' \in [Threads -> 0..ReconnectAttempts]
    <2>1. CASE /\ link' = [link EXCEPT ![k] = "up"] /\ aborted' \in BOOLEAN /\ UNCHANGED attempts
      BY <2>1 DEF TypeOK
    <2>2. CASE /\ attempts' = [attempts EXCEPT ![k] = @ - 1]
               /\ aborted' = (attempts[k] = 1)
               /\ \/ UNCHANGED link
                  \/ attempts[k] > 1 /\ link' = [link EXCEPT ![k] = "dead"]
      <3>1. aborted' \in BOOLEAN
        BY <2>2
      <3>2. attempts' \in [Threads -> 0..ReconnectAttempts]
        BY <2>2, <1>a DEF TypeOK
      <3>3. link' \in [Threads -> {"up", "lost", "dead"}]
        BY <2>2 DEF TypeOK
      <3>4. QED
        BY <3>1, <3>2, <3>3
    <2>3. QED
      BY <2>1, <2>2 DEF _HandleMySQLErrno
  <1>1. TypeOK'
    BY <1>b DEF _HandleMySQLErrno, TypeOK, threadVars
  <1>c. \A j \in Threads : link'[j] = "lost" /\ ~aborted' => attempts'[j] > 0
    <2>1. SUFFICES ASSUME NEW j \in Threads, link'[j] = "lost", ~aborted' PROVE attempts'[j] > 0
      OBVIOUS
    <2>2. ~aborted
      BY DEF _HandleMySQLErrno
    <2>3. CASE j = k
      <3>1. CASE link' = [link EXCEPT ![k] = "up"]
        BY <2>1, <2>3, <3>1 DEF TypeOK
      <3>2. CASE attempts' = [attempts EXCEPT ![k] = @ - 1] /\ aborted' = (attempts[k] = 1)
        <4>1. attempts[k] # 1 /\ attempts'[k] = attempts[k] - 1
          BY <2>1, <3>2 DEF TypeOK
        <4>2. QED
          BY <4>1, <2>3, <1>a
      <3>3. QED
        BY <3>1, <3>2 DEF _HandleMySQLErrno
    <2>4. CASE j # k
      BY <2>1, <2>2, <2>4 DEF _HandleMySQLErrno, TypeOK, Control
    <2>5. QED
      BY <2>3, <2>4
  <1>2. Control'
    BY <1>c DEF _HandleMySQLErrno, Control, threadVars
  <1>3. Retrying' /\ Sessions'
    BY DEF _HandleMySQLErrno, Retrying, Sessions, threadVars
  <1>4. QED
    BY <1>1, <1>2, <1>3

\* BeginTransaction.
LEMMA BeginControl ==
  ASSUME ControlInv, NEW k \in Threads, BeginTransaction(k)
  PROVE  ControlInv'
  <1> USE DEF ControlInv
  <1>0. pc[k] = "begin" /\ dirty[k] = <<>> /\ ~inTransaction[k]
    BY DEF BeginTransaction, Sessions
  <1>a. task[k] \in Transactions /\ task[k] # None /\ Len(RowsOf[task[k]]) \in Nat
    BY <1>0, Tasks
  <1>1. CASE /\ pc' = [pc EXCEPT ![k] = "rollback"]
             /\ error' = [error EXCEPT ![k] = "other"]
             /\ UNCHANGED <<next, sessionVars, table>>
    <2>1. TypeOK'
      BY <1>1 DEF BeginTransaction, TypeOK, sessionVars
    <2>2. Control'
      BY <1>0, <1>1, <1>a DEF BeginTransaction, TypeOK, Control, sessionVars
    <2>3. Retrying' /\ Sessions'
      BY <1>0, <1>1 DEF BeginTransaction, TypeOK, Retrying, Sessions, sessionVars
    <2>4. QED
      BY <2>1, <2>2, <2>3
  <1>2. CASE /\ pc' = [pc EXCEPT ![k] = "execute"]
             /\ next' = [next EXCEPT ![k] = 1]
             /\ table' = table \o dirty[k]
             /\ inTransaction' = [inTransaction EXCEPT ![k] = link[k] = "up"]
             /\ dirty' = [dirty EXCEPT ![k] = <<>>]
             /\ UNCHANGED <<error, link, attempts, losses>>
    <2>1. TypeOK'
      <3>1. table' \in Seq(Statements)
        BY <1>2 DEF TypeOK
      <3>2. inTransaction' \in [Threads -> BOOLEAN]
        BY <1>2, Zenon DEF TypeOK
      <3>3. dirty' \in [Threads -> Seq(Statements)]
        BY <1>2, SessionTypes
      <3>4. QED
        BY <3>1, <3>2, <3>3, <1>2 DEF BeginTransaction, TypeOK
    <2>2. Control'
      BY <1>0, <1>2, <1>a, SMTT(30) DEF BeginTransaction, TypeOK, Control
    <2>3. Retrying'
      BY <1>2 DEF BeginTransaction, Retrying
    <2>4. Sessions'
      <3>1. ASSUME NEW j \in Threads, j # k
            PROVE  /\ pc'[j] = pc[j] /\ next'[j] = next[j] /\ dirty'[j] = dirty[j]
                   /\ inTransaction'[j] = inTransaction[j] /\ task'[j] = task[j]
        BY <3>1, <1>2, SMTT(30) DEF BeginTransaction, TypeOK
      <3>2. pc'[k] = "execute" /\ next'[k] = 1 /\ dirty'[k] = <<>>
        BY <1>2 DEF TypeOK
      <3>3. [i \in 1..(next'[k] - 1) |-> <<task'[k], i>>] = <<>>
        BY <3>2
      <3>4. QED
        BY <3>1, <3>2, <3>3 DEF Sessions
    <2>5. QED
      BY <2>1, <2>2, <2>3, <2>4
  <1>3. CASE LinkLost(k) /\ UNCHANGED <<pc, next, error, table>>
    <2>1. TypeOK'
      BY <1>3, SessionTypes DEF BeginTransaction, TypeOK
    <2>2. Control'
      BY <1>3, Bounds, SMTT(30) DEF BeginTransaction, TypeOK, Control, LinkLost
    <2>3. Retrying'
      BY <1>3 DEF BeginTransaction, Retrying
    <2>4. Sessions'
      <3>1. /\ pc' = pc /\ task' = task /\ next' = next
            /\ inTransaction' = [inTransaction EXCEPT ![k] = FALSE] /\ dirty' = [dirty EXCEPT ![k] = <<>>]
        BY <1>3 DEF BeginTransaction, LinkLost, CleanSession
      <3>2. /\ pc'[k] = "begin" /\ ~inTransaction'[k] /\ dirty'[k] = <<>>
            /\ \A j \in Threads : j # k => inTransaction'[j] = inTransaction[j] /\ dirty'[j] = dirty[j]
        BY <1>0, <3>1 DEF TypeOK
      <3>3. QED
        BY <3>1, <3>2 DEF Sessions
    <2>5. QED
      BY <2>1, <2>2, <2>3, <2>4
  <1>4. QED
    BY <1>1, <1>2, <1>3 DEF BeginTransaction

\* A statement that takes effect.
LEMMA ExecuteControl ==
  ASSUME ControlInv, NEW k \in Threads, Execute_Ok(k)
  PROVE  ControlInv'
  <1> USE DEF ControlInv
  <1>0. /\ pc[k] = "execute" /\ next[k] <= Len(RowsOf[task[k]]) /\ next[k] \in Nat /\ next[k] >= 1
        /\ Statement(k) \in Statements /\ Len(RowsOf[task[k]]) \in Nat
    BY StatementType, Tasks DEF Execute_Ok, Control
  <1>1. TypeOK'
    <2>1. table' \in Seq(Statements) /\ dirty' \in [Threads -> Seq(Statements)]
      <3>a. /\ Append(dirty[k], Statement(k)) \in Seq(Statements)
            /\ Append(table, Statement(k)) \in Seq(Statements)
        <4>1. dirty[k] \in Seq(Statements) /\ table \in Seq(Statements)
          BY DEF TypeOK
        <4>2. QED
          BY <4>1, <1>0, AppendProperties
      <3>1. CASE inTransaction[k]
        BY <3>a, <3>1 DEF Execute_Ok, TypeOK
      <3>2. CASE ~inTransaction[k]
        BY <3>a, <3>2 DEF Execute_Ok, TypeOK
      <3>3. QED
        BY <3>1, <3>2
    <2>2. next' \in [Threads -> Nat]
      BY <1>0 DEF Execute_Ok, TypeOK
    <2>3. QED
      BY <2>1, <2>2 DEF Execute_Ok, TypeOK
  <1>2. Control'
    <2>1. /\ UNCHANGED <<pc, task, retries, link, attempts, aborted, result>>
          /\ next'[k] = next[k] + 1 /\ \A j \in Threads : j # k => next'[j] = next[j]
      BY DEF Execute_Ok, TypeOK
    <2>2. next'[k] \in 1..(Len(RowsOf[task[k]]) + 1)
      BY <1>0, <2>1
    <2>3. ASSUME NEW j \in Threads
          PROVE  /\ pc[j] = "execute" => next'[j] \in 1..(Len(RowsOf[task[j]]) + 1)
                 /\ pc[j] = "commit" => next'[j] = Len(RowsOf[task[j]]) + 1
      <3>1. CASE j = k
        BY <1>0, <2>2, <3>1
      <3>2. CASE j # k
        BY <2>1, <3>2 DEF Control
      <3>3. QED
        BY <3>1, <3>2
    <2>4. QED
      BY <2>1, <2>3 DEF Control
  <1>3. Retrying'
    BY DEF Execute_Ok, Retrying
  <1>4. Sessions'
    <2>1. ASSUME NEW j \in Threads, j # k
          PROVE  dirty'[j] = dirty[j] /\ inTransaction'[j] = inTransaction[j] /\ next'[j] = next[j]
      BY <2>1 DEF Execute_Ok, TypeOK
    <2>2. inTransaction'[k] = inTransaction[k] /\ next'[k] = next[k] + 1 /\ pc' = pc /\ task' = task
      BY DEF Execute_Ok, TypeOK
    <2>3. CASE inTransaction[k]
      <3>1. dirty'[k] = Append(dirty[k], Statement(k))
        BY <2>3 DEF Execute_Ok, TypeOK
      <3>2. dirty[k] = [i \in 1..(next[k] - 1) |-> <<task[k], i>>]
        BY <1>0, <2>3 DEF Sessions
      <3>3. dirty[k] \in Seq(Statements) /\ Len(dirty[k]) = next[k] - 1
        <4>1. dirty[k] \in Seq(Statements) /\ next[k] - 1 \in Nat
          BY <1>0 DEF TypeOK
        <4>2. DOMAIN dirty[k] = 1..(next[k] - 1)
          BY <3>2
        <4>3. QED
          BY <4>1, <4>2
      <3>4. dirty'[k] = [i \in 1..next[k] |-> <<task[k], i>>]
        <4> DEFINE d == [i \in 1..next[k] |-> <<task[k], i>>]
        <4>1. DOMAIN dirty'[k] = 1..next[k]
          BY <3>1, <3>3, <1>0
        <4>2. \A i \in 1..next[k] : dirty'[k][i] = <<task[k], i>>
          BY <3>1, <3>2, <3>3, <1>0 DEF Statement
        <4>3. dirty'[k] = [i \in DOMAIN dirty'[k] |-> dirty'[k][i]]
          BY <3>1, <3>3, <1>0
        <4>4. QED
          BY <4>1, <4>2, <4>3
      <3>5. next'[k] - 1 = next[k]
        BY <2>2, <1>0
      <3>6. dirty'[k] = [i \in 1..(next'[k] - 1) |-> <<task'[k], i>>]
        BY <3>4, <3>5, <2>2
      <3>7. ASSUME NEW j \in Threads
            PROVE  /\ pc'[j] \in {"idle", "begin", "lock"} => ~inTransaction'[j] /\ dirty'[j] = <<>>
                   /\ pc'[j] \in {"execute", "commit"} =>
                        dirty'[j] = IF inTransaction'[j]
                                    THEN [i \in 1..(next'[j] - 1) |-> <<task'[j], i>>] ELSE <<>>
        <4>1. CASE j = k
          BY <1>0, <2>2, <2>3, <3>6, <4>1
        <4>2. CASE j # k
          <5>1. /\ pc'[j] = pc[j] /\ task'[j] = task[j] /\ next'[j] = next[j]
                /\ inTransaction'[j] = inTransaction[j] /\ dirty'[j] = dirty[j]
            BY <2>1, <2>2, <4>2
          <5>2. QED
            BY <5>1 DEF Sessions
        <4>3. QED
          BY <4>1, <4>2
      <3>8. QED
        BY <3>7, Zenon DEF Sessions
    <2>4. CASE ~inTransaction[k]
      <3>1. dirty' = dirty
        BY <2>4 DEF Execute_Ok
      <3>2. QED
        BY <2>1, <2>2, <2>4, <3>1, <1>0 DEF Sessions
    <2>5. QED
      BY <2>3, <2>4
  <1>5. QED
    BY <1>1, <1>2, <1>3, <1>4

\* A statement that fails, that ends the process, or that is the last one.
LEMMA FailureControl ==
  ASSUME ControlInv, NEW k \in Threads, Execute_Fails(k) \/ Execute_Aborts(k) \/ Execute_Done(k)
  PROVE  ControlInv'
  <1> USE DEF ControlInv
  <1>0. pc[k] = "execute" /\ task[k] # None
    BY Tasks DEF Execute_Fails, Execute_Aborts, Execute_Done
  <1>1. CASE Execute_Fails(k)
    <2>1. TypeOK'
      <3>1. pc' \in [Threads -> {"idle", "begin", "execute", "rollback", "commit", "lock"}]
        BY <1>1 DEF Execute_Fails, TypeOK
      <3>2. error' \in [Threads -> {"none", "deadlock", "other"}]
        BY <1>1 DEF Execute_Fails, TypeOK
      <3>3. inTransaction' \in [Threads -> BOOLEAN] /\ dirty' \in [Threads -> Seq(Statements)]
        <4>1. CASE CleanSession(k)
          BY <4>1, SessionTypes DEF CleanSession
        <4>2. CASE UNCHANGED <<inTransaction, dirty>>
          BY <4>2 DEF TypeOK
        <4>3. QED
          BY <1>1, <4>1, <4>2 DEF Execute_Fails
      <3>4. QED
        BY <3>1, <3>2, <3>3, <1>1 DEF Execute_Fails, TypeOK
    <2>2. Control' /\ Retrying'
      BY <1>0, <1>1 DEF Execute_Fails, TypeOK, Control, Retrying
    <2>3. Sessions'
      <3>1. ASSUME NEW j \in Threads, j # k
            PROVE  /\ pc'[j] = pc[j] /\ next'[j] = next[j] /\ dirty'[j] = dirty[j]
                   /\ inTransaction'[j] = inTransaction[j] /\ task'[j] = task[j]
        BY <3>1, <1>1 DEF Execute_Fails, TypeOK, CleanSession
      <3>2. pc'[k] = "rollback"
        BY <1>1 DEF Execute_Fails, TypeOK
      <3>3. QED
        BY <3>1, <3>2 DEF Sessions
    <2>4. QED
      BY <2>1, <2>2, <2>3
  <1>2. CASE Execute_Aborts(k)
    <2>1. TypeOK'
      BY <1>2 DEF Execute_Aborts, TypeOK, threadVars, sessionVars
    <2>2. Control' /\ Retrying' /\ Sessions'
      BY <1>2 DEF Execute_Aborts, Control, Retrying, Sessions, threadVars, sessionVars
    <2>3. QED
      BY <2>1, <2>2
  <1>3. CASE Execute_Done(k)
    <2>1. TypeOK'
      BY <1>3 DEF Execute_Done, TypeOK, sessionVars
    <2>2. Control' /\ Retrying' /\ Sessions'
      BY <1>0, <1>3 DEF Execute_Done, TypeOK, Control, Retrying, Sessions, sessionVars
    <2>3. QED
      BY <2>1, <2>2
  <1>4. QED
    BY <1>1, <1>2, <1>3

\* A connection lost during a statement.
LEMMA LossControl ==
  ASSUME ControlInv, NEW k \in Threads, Execute_LinkLost(k)
  PROVE  ControlInv'
  <1> USE DEF ControlInv
  <1>0. pc[k] = "execute" /\ Statement(k) \in Statements
    BY StatementType DEF Execute_LinkLost
  <1>1. TypeOK'
    <2>a. table \in Seq(Statements)
      BY DEF TypeOK
    <2>b. Append(table, Statement(k)) \in Seq(Statements)
      BY <2>a, <1>0, AppendProperties
    <2>1. table' \in Seq(Statements)
      BY <2>a, <2>b DEF Execute_LinkLost
    <2>2. QED
      BY <2>1, SessionTypes DEF Execute_LinkLost, TypeOK, threadVars
  <1>2. Control' /\ Retrying'
    BY Bounds
       DEF Execute_LinkLost, TypeOK, Control, Retrying, LinkLost, CleanSession, threadVars
  <1>3. Sessions'
    BY <1>0 DEF Execute_LinkLost, TypeOK, Sessions, LinkLost, CleanSession, threadVars
  <1>4. QED
    BY <1>1, <1>2, <1>3

\* A transaction begins, on a thread that has none.
LEMMA StartControl ==
  ASSUME ControlInv, NEW k \in Threads, NEW x \in Transactions, Start(k, x)
  PROVE  ControlInv'
  <1> USE DEF ControlInv
  <1>0. /\ pc[k] = "idle" /\ result[x] = "queued" /\ x # None
        /\ pc' = [pc EXCEPT ![k] = "begin"] /\ task' = [task EXCEPT ![k] = x]
        /\ result' = [result EXCEPT ![x] = "running"]
        /\ UNCHANGED <<next, retries, error, deadlockLock, sessionVars, table, aborted>>
    BY Bounds DEF Start
  <1>1. TypeOK'
    BY <1>0 DEF TypeOK, sessionVars
  <1>2. Control'
    <2>1. \A j \in Threads : task[j] # None => task[j] # x /\ task[j] \in Transactions
      BY <1>0 DEF Control, TypeOK
    <2>2. ASSUME NEW j \in Threads
          PROVE  /\ pc'[j] = "idle" <=> task'[j] = None
                 /\ task'[j] # None => result'[task'[j]] = "running"
                 /\ pc'[j] = "execute" => next'[j] \in 1..(Len(RowsOf[task'[j]]) + 1)
                 /\ pc'[j] = "commit" => next'[j] = Len(RowsOf[task'[j]]) + 1
                 /\ pc'[j] = "idle" => retries'[j] = 0
                 /\ pc'[j] = "lock" => j \in Workers /\ retries'[j] = 0
                 /\ link'[j] = "lost" /\ ~aborted' => attempts'[j] > 0
      <3>1. CASE j = k
        BY <3>1, <1>0 DEF TypeOK, Control, sessionVars
      <3>2. CASE j # k
        BY <3>2, <1>0, <2>1 DEF TypeOK, Control, sessionVars
      <3>3. QED
        BY <3>1, <3>2
    <2>3. ASSUME NEW i \in Threads, NEW j \in Threads, task'[i] # None, i # j PROVE task'[i] # task'[j]
      BY <2>1, <2>3, <1>0 DEF TypeOK, Control
    <2>4. QED
      BY <2>2, <2>3 DEF Control
  <1>3. Retrying'
    BY <1>0 DEF Retrying
  <1>4. Sessions'
    BY <1>0 DEF TypeOK, Sessions, sessionVars
  <1>5. QED
    BY <1>1, <1>2, <1>3, <1>4

\* Execute returns with a clean session: the thread has nothing left.
LEMMA FinishControl ==
  ASSUME ControlInv, NEW k \in Threads, pc[k] # "idle", NEW r \in {"true", "false"}, Finish(k, r),
         CleanSession(k), table' \in Seq(Statements), UNCHANGED <<next, link, attempts, losses, aborted>>
  PROVE  ControlInv'
  <1> USE DEF ControlInv
  <1>0. /\ task[k] \in Transactions /\ task[k] # None
        /\ pc' = [pc EXCEPT ![k] = "idle"] /\ task' = [task EXCEPT ![k] = None]
        /\ result' = [result EXCEPT ![task[k]] = r]
        /\ retries' = [retries EXCEPT ![k] = 0] /\ error' = [error EXCEPT ![k] = "none"]
        /\ deadlockLock' = IF deadlockLock = k THEN None ELSE deadlockLock
    BY Tasks DEF Finish
  <1>1. TypeOK'
    <2>1. inTransaction' \in [Threads -> BOOLEAN] /\ dirty' \in [Threads -> Seq(Statements)]
      BY SessionTypes DEF CleanSession
    <2>2. retries' \in [Threads -> 0..(LoopBreaker + MaxRetries)]
      <3>1. 0 \in 0..(LoopBreaker + MaxRetries)
        BY Bounds
      <3>2. QED
        BY <3>1, <1>0 DEF TypeOK
    <2>3. QED
      BY <1>0, <2>1, <2>2 DEF TypeOK
  <1>2. Control'
    <2>1. \A j \in Threads : j # k /\ task[j] # None => task[j] # task[k] /\ task[j] \in Transactions
      BY <1>0 DEF Control, TypeOK
    <2>2. ASSUME NEW j \in Threads
          PROVE  /\ pc'[j] = "idle" <=> task'[j] = None
                 /\ task'[j] # None => result'[task'[j]] = "running"
                 /\ pc'[j] = "execute" => next'[j] \in 1..(Len(RowsOf[task'[j]]) + 1)
                 /\ pc'[j] = "commit" => next'[j] = Len(RowsOf[task'[j]]) + 1
                 /\ pc'[j] = "idle" => retries'[j] = 0
                 /\ pc'[j] = "lock" => j \in Workers /\ retries'[j] = 0
                 /\ link'[j] = "lost" /\ ~aborted' => attempts'[j] > 0
      <3>1. CASE j = k
        BY <3>1, <1>0 DEF TypeOK, Control
      <3>2. CASE j # k
        BY <3>2, <1>0, <2>1 DEF TypeOK, Control
      <3>3. QED
        BY <3>1, <3>2
    <2>3. ASSUME NEW i \in Threads, NEW j \in Threads, task'[i] # None, i # j PROVE task'[i] # task'[j]
      BY <2>1, <2>3, <1>0 DEF TypeOK, Control
    <2>4. QED
      BY <2>2, <2>3 DEF Control
  <1>3. Retrying'
    BY <1>0, Bounds DEF Retrying, TypeOK
  <1>4. Sessions'
    BY <1>0 DEF TypeOK, Sessions, CleanSession
  <1>5. QED
    BY <1>1, <1>2, <1>3, <1>4

\* The next attempt, or the wait for the turn to make it.
LEMMA AgainControl ==
  ASSUME ControlInv, NEW k \in Threads, pc[k] = "rollback", CleanSession(k),
         UNCHANGED <<next, link, attempts, losses, table, aborted>>,
         \/ Retry(k) /\ retries[k] < LoopBreaker + MaxRetries /\ (k \in Workers => retries[k] > 0)
         \/ WaitForTurn(k) /\ retries[k] = 0 /\ k \in Workers
  PROVE  ControlInv'
  <1> USE DEF ControlInv
  <1>0. inTransaction' \in [Threads -> BOOLEAN] /\ dirty' \in [Threads -> Seq(Statements)]
        /\ task[k] # None
    BY SessionTypes, Tasks DEF CleanSession
  <1>1. CASE Retry(k) /\ retries[k] < LoopBreaker + MaxRetries /\ (k \in Workers => retries[k] > 0)
    <2>1. retries' \in [Threads -> 0..(LoopBreaker + MaxRetries)]
      <3>1. retries[k] + 1 \in 0..(LoopBreaker + MaxRetries)
        BY <1>1, Bounds DEF TypeOK
      <3>2. QED
        BY <3>1, <1>1 DEF Retry, TypeOK
    <2>2. TypeOK'
      BY <1>0, <1>1, <2>1 DEF Retry, TypeOK
    <2>3. Control' /\ Retrying'
      BY <1>0, <1>1, Bounds, SMTT(30) DEF Retry, TypeOK, Control, Retrying
    <2>4. Sessions'
      BY <1>1 DEF Retry, TypeOK, Sessions, CleanSession
    <2>5. QED
      BY <2>2, <2>3, <2>4
  <1>2. CASE WaitForTurn(k) /\ retries[k] = 0 /\ k \in Workers
    <2>1. TypeOK'
      BY <1>0, <1>2 DEF WaitForTurn, TypeOK
    <2>2. Control' /\ Retrying'
      BY <1>0, <1>2 DEF WaitForTurn, TypeOK, Control, Retrying
    <2>3. Sessions'
      BY <1>2 DEF WaitForTurn, TypeOK, Sessions, CleanSession
    <2>4. QED
      BY <2>1, <2>2, <2>3
  <1>3. QED
    BY <1>1, <1>2

\* What may come of an attempt that was rolled back.
LEMMA FailedCases ==
  ASSUME ControlInv, NEW k \in Threads, Failed(k)
  PROVE  /\ UNCHANGED <<next, link, attempts, losses, table, aborted>>
         /\ \/ error[k] = "none" /\ Finish(k, "true")
            \/ Finish(k, "false")
            \/ Retry(k) /\ retries[k] < LoopBreaker + MaxRetries /\ (k \in Workers => retries[k] > 0)
            \/ WaitForTurn(k) /\ retries[k] = 0 /\ k \in Workers
  <1>1. retries[k] \in Nat /\ LoopBreaker \in Nat /\ MaxRetries \in Nat /\ MaxRetries > 0
    BY Bounds DEF ControlInv, TypeOK
  <1>2. UNCHANGED <<next, link, attempts, losses, table, aborted>>
    BY DEF Failed
  <1>3. CASE error[k] = "none"
    BY <1>2, <1>3 DEF Failed
  <1>4. CASE error[k] # "none" /\ k \in Workers
    <2>1. TransactionTask_Failed(k)
      BY <1>4, TransactionAssumption DEF Failed
    <2>2. QED
      BY <1>1, <1>2, <1>4, <2>1 DEF TransactionTask_Failed
  <1>5. CASE error[k] # "none" /\ k \notin Workers
    <2>1. DirectCommitTransaction_Failed(k)
      BY <1>5 DEF Failed, Threads
    <2>2. QED
      BY <1>1, <1>2, <1>5, <2>1 DEF DirectCommitTransaction_Failed
  <1>6. QED
    BY <1>3, <1>4, <1>5

\* COMMIT, ROLLBACK and the mutex.
LEMMA EndControl ==
  ASSUME ControlInv, NEW k \in Threads,
         CommitTransaction(k) \/ RollbackTransaction(k) \/ LockForRetry(k)
  PROVE  ControlInv'
  <1> USE DEF ControlInv
  <1>1. CASE CommitTransaction(k)
    <2>0. pc[k] = "commit" /\ table \in Seq(Statements) /\ dirty[k] \in Seq(Statements)
      BY <1>1 DEF CommitTransaction, TypeOK
    <2>a. table \o dirty[k] \in Seq(Statements)
      BY <2>0
    <2>1. CASE /\ table' = table \o dirty[k] /\ CleanSession(k) /\ Finish(k, "true")
               /\ UNCHANGED <<link, attempts, losses>>
      <3>1. UNCHANGED <<next, link, attempts, losses, aborted>>
        BY <1>1, <2>1 DEF CommitTransaction
      <3>2. QED
        BY <2>0, <2>a, <2>1, <3>1, FinishControl
    <2>2. CASE /\ LinkLost(k) /\ table' \in {table, table \o dirty[k]}
               /\ UNCHANGED <<pc, task, retries, error, deadlockLock, result>>
      <3>1. UNCHANGED <<next, aborted>>
        BY <1>1 DEF CommitTransaction
      <3>2. TypeOK'
        BY <2>0, <2>a, <2>2, <3>1, SessionTypes DEF TypeOK
      <3>3. Control' /\ Retrying'
        BY <2>2, <3>1, Bounds DEF TypeOK, Control, Retrying, LinkLost
      <3>4. Sessions'
        BY <2>0, <2>2, <3>1 DEF TypeOK, Sessions, LinkLost, CleanSession
      <3>5. QED
        BY <3>2, <3>3, <3>4
    <2>3. QED
      BY <1>1, <2>1, <2>2 DEF CommitTransaction
  <1>2. CASE RollbackTransaction(k)
    <2>0. pc[k] = "rollback" /\ table \in Seq(Statements)
      BY <1>2 DEF RollbackTransaction, TypeOK
    <2>1. CASE CleanSession(k) /\ Failed(k)
      <3>1. UNCHANGED <<next, link, attempts, losses, table, aborted>>
        BY <2>1, FailedCases
      <3>2. ASSUME NEW r \in {"true", "false"}, Finish(k, r) PROVE ControlInv'
        <4>1. table' \in Seq(Statements) /\ UNCHANGED <<next, link, attempts, losses, aborted>>
          BY <2>0, <3>1
        <4>2. QED
          BY <2>0, <2>1, <3>2, <4>1, FinishControl
      <3>3. CASE \/ Retry(k) /\ retries[k] < LoopBreaker + MaxRetries /\ (k \in Workers => retries[k] > 0)
                 \/ WaitForTurn(k) /\ retries[k] = 0 /\ k \in Workers
        BY <2>0, <2>1, <3>1, <3>3, AgainControl
      <3>4. QED
        BY <2>1, <3>2, <3>3, FailedCases
    <2>2. CASE LinkLost(k) /\ UNCHANGED <<threadVars, deadlockLock, table, result, aborted>>
      <3>1. TypeOK'
        BY <2>2, SessionTypes DEF TypeOK, threadVars
      <3>2. Control' /\ Retrying'
        BY <2>2, Bounds DEF TypeOK, Control, Retrying, LinkLost, threadVars
      <3>3. Sessions'
        BY <2>0, <2>2 DEF TypeOK, Sessions, LinkLost, CleanSession, threadVars
      <3>4. QED
        BY <3>1, <3>2, <3>3
    <2>3. QED
      BY <1>2, <2>1, <2>2 DEF RollbackTransaction
  <1>3. CASE LockForRetry(k)
    <2>0. /\ k \in Workers /\ task[k] # None
          /\ 1 \in 0..(LoopBreaker + MaxRetries)
      BY <1>3, Tasks, Bounds DEF LockForRetry, Control
    <2>1. TypeOK'
      BY <1>3, <2>0 DEF LockForRetry, TypeOK, sessionVars
    <2>2. Control' /\ Retrying'
      BY <1>3, <2>0, Bounds DEF LockForRetry, TypeOK, Control, Retrying, sessionVars
    <2>3. Sessions'
      BY <1>3 DEF LockForRetry, TypeOK, Sessions, sessionVars
    <2>4. QED
      BY <2>1, <2>2, <2>3
  <1>4. QED
    BY <1>1, <1>2, <1>3

\* Every step keeps the control part.
LEMMA ControlNext == ControlInv /\ [Next]_vars => ControlInv'
  <1> SUFFICES ASSUME ControlInv, [Next]_vars PROVE ControlInv'
    OBVIOUS
  <1>1. ASSUME NEW k \in Threads, Step(k) PROVE ControlInv'
    BY <1>1, ReconnectControl, BeginControl, ExecuteControl, FailureControl, LossControl, EndControl
       DEF Step
  <1>2. ASSUME NEW k \in Threads, NEW x \in Transactions, Start(k, x) PROVE ControlInv'
    BY <1>2, StartControl
  <1>3. CASE UNCHANGED vars
    <2>1. TypeOK'
      BY <1>3 DEF vars, threadVars, sessionVars, ControlInv, TypeOK
    <2>2. Control' /\ Retrying' /\ Sessions'
      BY <1>3 DEF vars, threadVars, sessionVars, ControlInv, Control, Retrying, Sessions
    <2>3. QED
      BY <2>1, <2>2 DEF ControlInv
  <1>4. QED
    BY <1>1, <1>2, <1>3 DEF Next, Ended

-----------------------------------------------------------------------------
(* The table                                                               *)

\* What is appended of other transactions leaves the effects of x alone.
LEMMA OtherAppended ==
  ASSUME NEW x \in Transactions, NEW d \in Seq(Statements), table \in Seq(Statements),
         table' = table \o d, \A i \in 1..Len(d) : d[i][1] # x
  PROVE  /\ Effects(x)' = Effects(x)
         /\ TookEffect(x) => TookEffect(x)'
         /\ LastMissing(x) => LastMissing(x)'
  <1>1. /\ Len(table) \in Nat /\ Len(d) \in Nat /\ Len(table') = Len(table) + Len(d)
        /\ \A i \in 1..Len(table) : table'[i] = table[i]
        /\ \A i \in (Len(table) + 1)..Len(table') : table'[i] = d[i - Len(table)] /\ i - Len(table) \in 1..Len(d)
    BY ConcatProperties
  <1>2. Effects(x)' = Effects(x)
    <2>1. \A i \in 1..Len(table') : table'[i][1] = x => i \in 1..Len(table)
      BY <1>1
    <2>2. QED
      BY <1>1, <2>1 DEF Effects
  <1>3. ASSUME TookEffect(x) PROVE TookEffect(x)'
    <2>1. PICK n \in 0..Len(table) : /\ Effects(x) = (n + 1)..(n + Len(RowsOf[x]))
                                     /\ \A i \in Effects(x) : table[i] = <<x, i - n>>
      BY <1>3 DEF TookEffect
    <2>2. n \in 0..Len(table')
      BY <1>1
    <2>3. \A i \in Effects(x) : table'[i] = <<x, i - n>>
      BY <1>1, <2>1 DEF Effects
    <2>4. QED
      BY <1>2, <2>1, <2>2, <2>3 DEF TookEffect
  <1>4. ASSUME LastMissing(x) PROVE LastMissing(x)'
    <2> SUFFICES ASSUME RowsOf[x] # <<>>, NEW j \in 1..Len(table') PROVE table'[j] # <<x, Len(RowsOf[x])>>
      BY DEF LastMissing
    <2>1. CASE j \in 1..Len(table)
      BY <1>1, <1>4, <2>1 DEF LastMissing
    <2>2. CASE j \notin 1..Len(table)
      BY <1>1, <2>2
    <2>3. QED
      BY <2>1, <2>2
  <1>5. QED
    BY <1>2, <1>3, <1>4

\* A transaction of which there was nothing, appended as a whole, took effect.
LEMMA WholeAppended ==
  ASSUME NEW x \in Transactions, NEW d \in Seq(Statements), table \in Seq(Statements),
         table' = table \o d, Effects(x) = {}, Len(RowsOf[x]) \in Nat,
         d = [i \in 1..Len(RowsOf[x]) |-> <<x, i>>]
  PROVE  TookEffect(x)'
  <1> DEFINE n == Len(table)
             m == Len(RowsOf[x])
  <1>1. /\ n \in Nat /\ Len(d) = m /\ Len(table') = n + m
        /\ \A i \in 1..n : table'[i] = table[i]
        /\ \A i \in (n + 1)..(n + m) : table'[i] = <<x, i - n>>
    <2>1. Len(d) = m
      OBVIOUS
    <2>2. QED
      BY <2>1, ConcatProperties
  <1>2. \A i \in 1..n : table'[i][1] # x
    BY <1>1 DEF Effects
  <1>3. Effects(x)' = (n + 1)..(n + m)
    BY <1>1, <1>2 DEF Effects
  <1>4. n \in 0..Len(table')
    BY <1>1
  <1>5. QED
    BY <1>1, <1>3, <1>4 DEF TookEffect

\* A table that stays as it is.
LEMMA SameTable ==
  ASSUME NEW x, table' = table
  PROVE  /\ Effects(x)' = Effects(x) /\ (TookEffect(x)' <=> TookEffect(x))
         /\ LastMissing(x)' <=> LastMissing(x)
  BY DEF Effects, TookEffect, LastMissing

\* The positions of a sequence.
LEMMA Positions == ASSUME NEW S, NEW d \in Seq(S) PROVE DOMAIN d = 1..Len(d)
  OBVIOUS

\* The first component of a pair.
LEMMA First == ASSUME NEW t, NEW i, NEW p, p = <<t, i>> PROVE p[1] = t
  OBVIOUS

\* The sessions hold statements of their own transactions only.
LEMMA OwnStatements ==
  ASSUME ControlInv, NEW k \in Threads, pc[k] \in {"execute", "commit"}
  PROVE  /\ dirty[k] \in Seq(Statements)
         /\ \A i \in 1..Len(dirty[k]) : dirty[k][i][1] = task[k]
         /\ pc[k] = "commit" /\ inTransaction[k] =>
              dirty[k] = [i \in 1..Len(RowsOf[task[k]]) |-> <<task[k], i>>]
  <1>1. dirty[k] = IF inTransaction[k] THEN [i \in 1..(next[k] - 1) |-> <<task[k], i>>] ELSE <<>>
    BY DEF ControlInv, Sessions
  <1>2. dirty[k] \in Seq(Statements)
    BY DEF ControlInv, TypeOK
  <1>3. \A i \in 1..Len(dirty[k]) : dirty[k][i][1] = task[k]
    <2>1. CASE inTransaction[k]
      <3>1. dirty[k] = [i \in 1..(next[k] - 1) |-> <<task[k], i>>]
        BY <1>1, <2>1
      <3>2. PICK n : n = next[k] - 1
        OBVIOUS
      <3>3. PICK t : t = task[k]
        OBVIOUS
      <3>4. PICK d : d = dirty[k]
        OBVIOUS
      <3>5. d \in Seq(Statements) /\ d = [i \in 1..n |-> <<t, i>>]
        BY <1>2, <3>1, <3>2, <3>3, <3>4
      <3>6. \A i \in 1..Len(d) : d[i][1] = t
        <4>1. DOMAIN d = 1..Len(d)
          BY <3>5, Positions, Zenon
        <4>2. DOMAIN d = 1..n /\ \A i \in 1..n : d[i] = <<t, i>>
          BY <3>5, Zenon
        <4>3. \A i \in 1..Len(d) : d[i] = <<t, i>>
          BY <4>1, <4>2, Zenon
        <4>4. ASSUME NEW i \in 1..Len(d) PROVE d[i][1] = t
          <5>1. d[i] = <<t, i>>
            BY <4>3, Zenon
          <5>2. QED
            BY <5>1, First
        <4>5. QED
          BY <4>4, Zenon
      <3>7. QED
        BY <3>3, <3>4, <3>6, Zenon
    <2>2. CASE ~inTransaction[k]
      BY <1>1, <2>2
    <2>3. QED
      BY <2>1, <2>2
  <1>4. ASSUME pc[k] = "commit", inTransaction[k]
        PROVE  dirty[k] = [i \in 1..Len(RowsOf[task[k]]) |-> <<task[k], i>>]
    <2>1. next[k] = Len(RowsOf[task[k]]) + 1 /\ Len(RowsOf[task[k]]) \in Nat
      BY <1>4, Tasks DEF ControlInv, Control
    <2>2. next[k] - 1 = Len(RowsOf[task[k]])
      BY <2>1
    <2>3. QED
      BY <1>1, <1>4, <2>2
  <1>5. QED
    BY <1>2, <1>3, <1>4

\* A loss is counted.
LEMMA LossCounted ==
  ASSUME TypeOK, NEW k \in Threads, LinkLost(k)
  PROVE  losses' # 0 /\ losses \in Nat /\ (losses' <= 1 => losses = 0)
  BY Bounds DEF TypeOK, LinkLost

\* The parts of Truthful.
Unlost ==
    \A k \in Threads :
        /\ link[k] = "up"
        /\ pc[k] \in {"execute", "commit"} => inTransaction[k]
        /\ pc[k] = "rollback" => error[k] # "none"
TableTrue == \A x \in Transactions : IF result[x] = "true" THEN TookEffect(x) ELSE Effects(x) = {}

\* As long as no connection was lost, a step keeps the results true.
LEMMA TruthfulStep ==
  ASSUME ControlInv, Truthful, NEW k \in Threads, Step(k), losses' = 0
  PROVE  Unlost' /\ TableTrue'
  <1>1. TypeOK
    BY DEF ControlInv
  <1>2. ~LinkLost(k)
    BY <1>1, LossCounted
  <1>3. losses = 0
    <2>1. losses' = losses
      BY <1>2 DEF Step, _HandleMySQLErrno, BeginTransaction, Execute_Ok, Execute_Fails, Execute_Aborts,
                  Execute_LinkLost, Execute_Done, CommitTransaction, RollbackTransaction, Failed,
                  LockForRetry, sessionVars
    <2>2. QED
      BY <2>1
  <1>4. Unlost /\ TableTrue
    BY <1>3 DEF Truthful, Unlost, TableTrue
  <1>5. CASE BeginTransaction(k)
    <2>1. table' = table /\ result' = result
      <3>1. dirty[k] = <<>> /\ table \in Seq(Statements)
        BY <1>5 DEF BeginTransaction, ControlInv, Sessions, TypeOK
      <3>2. table \o dirty[k] = table
        BY <3>1
      <3>3. QED
        BY <1>2, <1>5, <3>2 DEF BeginTransaction
    <2>2. TableTrue'
      BY <1>4, <2>1, SameTable DEF TableTrue
    <2>3. Unlost'
      <3>1. CASE /\ pc' = [pc EXCEPT ![k] = "rollback"] /\ error' = [error EXCEPT ![k] = "other"]
                 /\ UNCHANGED <<next, sessionVars, table>>
        BY <1>1, <1>4, <3>1 DEF Unlost, TypeOK, sessionVars
      <3>2. CASE /\ pc' = [pc EXCEPT ![k] = "execute"]
                 /\ inTransaction' = [inTransaction EXCEPT ![k] = link[k] = "up"]
                 /\ UNCHANGED <<error, link, attempts, losses>>
        BY <1>1, <1>4, <3>2 DEF Unlost, TypeOK
      <3>3. QED
        BY <1>2, <1>5, <3>1, <3>2 DEF BeginTransaction
    <2>4. QED
      BY <2>2, <2>3
  <1>6. CASE Execute_Ok(k)
    <2>1. inTransaction[k]
      BY <1>4, <1>6 DEF Unlost, Execute_Ok
    <2>2. table' = table /\ result' = result /\ UNCHANGED <<link, pc, error, inTransaction>>
      BY <1>6, <2>1 DEF Execute_Ok
    <2>3. QED
      BY <1>4, <2>2, SameTable DEF TableTrue, Unlost
  <1>7. CASE Execute_Fails(k)
    <2>1. link[k] = "up"
      BY <1>4 DEF Unlost
    <2>2. table' = table /\ result' = result /\ link' = link /\ pc' = [pc EXCEPT ![k] = "rollback"]
      BY <1>7 DEF Execute_Fails
    <2>3. error'[k] # "none" /\ \A j \in Threads : j # k => error'[j] = error[j] /\ inTransaction'[j] = inTransaction[j]
      BY <1>1, <1>7, <2>1 DEF Execute_Fails, CleanSession, TypeOK
    <2>4. QED
      BY <1>1, <1>4, <2>2, <2>3, SameTable DEF TableTrue, Unlost, TypeOK
  <1>8. CASE Execute_Aborts(k)
    BY <1>4, <1>8, SameTable DEF Execute_Aborts, TableTrue, Unlost, threadVars, sessionVars
  <1>9. CASE Execute_Done(k)
    BY <1>1, <1>4, <1>9, SameTable DEF Execute_Done, TableTrue, Unlost, sessionVars, TypeOK
  <1>10. CASE CommitTransaction(k)
    <2>1. /\ table' = table \o dirty[k] /\ CleanSession(k) /\ Finish(k, "true") /\ link' = link
          /\ pc[k] = "commit"
      BY <1>2, <1>10 DEF CommitTransaction
    <2>2. inTransaction[k]
      BY <1>4, <2>1 DEF Unlost
    <2>a. PICK x \in Transactions : x = task[k]
      BY <2>1, Tasks
    <2>b. PICK d \in Seq(Statements) : d = dirty[k]
      BY <2>1, OwnStatements
    <2>3. /\ table' = table \o d /\ \A i \in 1..Len(d) : d[i][1] = x
          /\ d = [i \in 1..Len(RowsOf[x]) |-> <<x, i>>]
      BY <2>a, <2>b, <2>1, <2>2, OwnStatements
    <2>4. /\ result[x] = "running" /\ table \in Seq(Statements) /\ Len(RowsOf[x]) \in Nat
          /\ result' = [result EXCEPT ![x] = "true"] /\ result \in [Transactions -> {"queued", "running", "true", "false"}]
      BY <1>1, <2>a, <2>1, Tasks DEF TypeOK, Finish
    <2>5. TookEffect(x)'
      <3>1. Effects(x) = {}
        BY <1>4, <2>4 DEF TableTrue
      <3>2. QED
        BY <3>1, <2>3, <2>4, WholeAppended
    <2>6. TableTrue'
      <3> SUFFICES ASSUME NEW y \in Transactions
                   PROVE  IF result'[y] = "true" THEN TookEffect(y)' ELSE Effects(y)' = {}
        BY DEF TableTrue
      <3>1. CASE y = x
        BY <2>4, <2>5, <3>1
      <3>2. CASE y # x
        <4>1. Effects(y)' = Effects(y) /\ (TookEffect(y) => TookEffect(y)')
          BY <2>3, <2>4, <3>2, OtherAppended
        <4>2. result'[y] = result[y]
          BY <2>4, <3>2
        <4>3. QED
          BY <1>4, <4>1, <4>2 DEF TableTrue
      <3>3. QED
        BY <3>1, <3>2
    <2>7. Unlost'
      BY <1>1, <1>4, <2>1 DEF Unlost, TypeOK, Finish, CleanSession
    <2>8. QED
      BY <2>6, <2>7
  <1>11. CASE RollbackTransaction(k)
    <2>1. CleanSession(k) /\ Failed(k) /\ pc[k] = "rollback"
      BY <1>2, <1>11 DEF RollbackTransaction
    <2>2. link' = link /\ table' = table /\ error[k] # "none"
      BY <1>4, <2>1, FailedCases DEF Unlost
    <2>3. \/ Finish(k, "false") \/ Retry(k) \/ WaitForTurn(k)
      BY <2>1, <2>2, FailedCases
    <2>4. Unlost'
      BY <1>1, <1>4, <2>1, <2>2, <2>3 DEF Unlost, TypeOK, Finish, Retry, WaitForTurn, CleanSession
    <2>5. PICK x \in Transactions : x = task[k] /\ result[x] = "running"
      BY <2>1, Tasks
    <2>6. result' \in {result, [result EXCEPT ![x] = "false"]}
      BY <2>3, <2>5 DEF Finish, Retry, WaitForTurn
    <2>7. \A y \in Transactions : result'[y] = "true" <=> result[y] = "true"
      BY <1>1, <2>5, <2>6 DEF TypeOK
    <2>8. TableTrue'
      BY <1>4, <2>2, <2>7, SameTable DEF TableTrue
    <2>9. QED
      BY <2>4, <2>8
  <1>12. CASE LockForRetry(k)
    BY <1>1, <1>4, <1>12, SameTable DEF LockForRetry, TableTrue, Unlost, sessionVars, TypeOK
  <1>13. CASE _HandleMySQLErrno(k) \/ Execute_LinkLost(k)
    BY <1>2, <1>4, <1>13 DEF _HandleMySQLErrno, Execute_LinkLost, Unlost
  <1>14. QED
    BY <1>5, <1>6, <1>7, <1>8, <1>9, <1>10, <1>11, <1>12, <1>13 DEF Step

\* A transaction is taken on with nothing of it in the table.
LEMMA TruthfulNext == ControlInv /\ Truthful /\ [Next]_vars => Truthful'
  <1> SUFFICES ASSUME ControlInv, Truthful, [Next]_vars, losses' = 0 PROVE Unlost' /\ TableTrue'
    BY DEF Truthful, Unlost, TableTrue
  <1>1. ASSUME NEW k \in Threads, Step(k) PROVE Unlost' /\ TableTrue'
    BY <1>1, TruthfulStep
  <1>2. ASSUME NEW k \in Threads, NEW x \in Transactions, Start(k, x) PROVE Unlost' /\ TableTrue'
    <2>1. Unlost /\ TableTrue
      BY <1>2 DEF Truthful, Unlost, TableTrue, Start, sessionVars
    <2>2. /\ pc' = [pc EXCEPT ![k] = "begin"] /\ table' = table /\ result[x] = "queued"
          /\ result' = [result EXCEPT ![x] = "running"] /\ UNCHANGED <<link, inTransaction, error>>
      BY <1>2 DEF Start, sessionVars
    <2>3. Unlost'
      BY <2>1, <2>2 DEF Unlost, ControlInv, TypeOK
    <2>4. \A y \in Transactions : result'[y] = "true" <=> result[y] = "true"
      BY <2>2 DEF ControlInv, TypeOK
    <2>5. TableTrue'
      BY <2>1, <2>2, <2>4, SameTable DEF TableTrue
    <2>6. QED
      BY <2>3, <2>5
  <1>3. CASE UNCHANGED vars
    BY <1>3, SameTable DEF Truthful, Unlost, TableTrue, vars, threadVars, sessionVars
  <1>4. QED
    BY <1>1, <1>2, <1>3 DEF Next, Ended

-----------------------------------------------------------------------------
(* What is not done                                                        *)

\* What a thread does leaves the transactions of the others as they were.
LEMMA OthersPending ==
  ASSUME NEW k \in Threads, NEW x \in Transactions, NEW y \in Transactions, x = task[k], y # x,
         \A j \in Threads : j # k => task'[j] = task[j] /\ pc'[j] = pc[j] /\ next'[j] = next[j],
         task'[k] \in {x, None}, result'[y] = result[y], Pending(y)'
  PROVE  Pending(y)
  <1>1. CASE result'[y] \in {"queued", "false"}
    BY <1>1 DEF Pending
  <1>2. ASSUME NEW j \in Threads, task'[j] = y, Open(j)' PROVE Pending(y)
    <2>1. j # k
      BY <1>2, Bounds
    <2>2. task[j] = y /\ Open(j)
      BY <1>2, <2>1 DEF Open
    <2>3. QED
      BY <2>2 DEF Pending
  <1>3. QED
    BY <1>1, <1>2 DEF Pending

\* A step of k that leaves the table alone, while its attempt is open.
LEMMA OpenStep ==
  ASSUME Unfinished, losses <= 1, NEW k \in Threads, NEW x \in Transactions, x = task[k], Open(k),
         table' = table, \A j \in Threads : j # k => task'[j] = task[j] /\ pc'[j] = pc[j] /\ next'[j] = next[j],
         task'[k] \in {x, None}, \A y \in Transactions : y # x => result'[y] = result[y]
  PROVE  Unfinished'
  <1> SUFFICES ASSUME NEW y \in Transactions, Pending(y)' PROVE LastMissing(y)'
    BY DEF Unfinished
  <1>1. Pending(y)
    <2>1. CASE y = x
      BY <2>1 DEF Pending
    <2>2. CASE y # x
      BY <2>2, OthersPending
    <2>3. QED
      BY <2>1, <2>2
  <1>2. QED
    BY <1>1, SameTable DEF Unfinished

\* A step of k that appends statements of its own transaction.
LEMMA AppendStep ==
  ASSUME Unfinished, losses <= 1, NEW k \in Threads, NEW x \in Transactions, x = task[k],
         NEW d \in Seq(Statements), table \in Seq(Statements), table' = table \o d,
         \A i \in 1..Len(d) : d[i][1] = x,
         \A j \in Threads : j # k => task'[j] = task[j] /\ pc'[j] = pc[j] /\ next'[j] = next[j],
         task'[k] \in {x, None}, \A y \in Transactions : y # x => result'[y] = result[y],
         Pending(x)' => LastMissing(x)'
  PROVE  Unfinished'
  <1> SUFFICES ASSUME NEW y \in Transactions, Pending(y)', y # x PROVE LastMissing(y)'
    BY DEF Unfinished
  <1>1. Pending(y)
    BY OthersPending
  <1>2. LastMissing(y)
    BY <1>1 DEF Unfinished
  <1>3. \A i \in 1..Len(d) : d[i][1] # y
    OBVIOUS
  <1>4. QED
    BY <1>2, <1>3, OtherAppended

\* A statement that is executed with autocommit is the last one only if nothing
\* of the transaction is left to do.
LEMMA UnfinishedOk ==
  ASSUME ControlInv, Unfinished, losses <= 1, NEW k \in Threads, Execute_Ok(k)
  PROVE  Unfinished'
  <1>1. /\ pc[k] = "execute" /\ next[k] <= Len(RowsOf[task[k]]) /\ Open(k)
        /\ next' = [next EXCEPT ![k] = @ + 1] /\ UNCHANGED <<pc, task, result>>
    BY DEF Execute_Ok, Open
  <1>2. PICK x \in Transactions : x = task[k]
    BY <1>1, Tasks
  <1>3. /\ next \in [Threads -> Nat] /\ table \in Seq(Statements) /\ Len(RowsOf[x]) \in Nat
        /\ next[k] >= 1 /\ result[x] = "running"
    BY <1>1, <1>2, Tasks DEF ControlInv, TypeOK, Control
  <1>4. \A j \in Threads : j # k => task'[j] = task[j] /\ pc'[j] = pc[j] /\ next'[j] = next[j]
    BY <1>1, <1>3
  <1>5. CASE table' = table
    BY <1>1, <1>2, <1>4, <1>5, OpenStep
  <1>6. CASE table' = Append(table, Statement(k))
    <2>1. PICK s \in Statements : s = Statement(k)
      BY <1>1, StatementType
    <2>2. s = <<x, next[k]>>
      BY <2>1, <1>2 DEF Statement
    <2>3. <<s>> \in Seq(Statements) /\ table' = table \o <<s>>
      BY <1>3, <1>6, <2>1
    <2>4. Len(<<s>>) = 1 /\ <<s>>[1] = s /\ s[1] = x
      BY <2>2
    <2>5. \A i \in 1..Len(<<s>>) : <<s>>[i][1] = x
      BY <2>4
    <2>6. ASSUME Pending(x)' PROVE LastMissing(x)'
      <3>1. PICK h \in Threads : task'[h] = x /\ Open(h)'
        BY <1>1, <1>3, <2>6 DEF Pending
      <3>2. h = k
        BY <1>1, <1>2, <3>1, Bounds DEF ControlInv, Control
      <3>3. next[k] + 1 <= Len(RowsOf[x])
        BY <1>1, <1>2, <1>3, <3>1, <3>2 DEF Open
      <3>4. LastMissing(x)
        BY <1>1, <1>2 DEF Unfinished, Pending
      <3>5. /\ Len(table') = Len(table) + 1 /\ table'[Len(table) + 1] = s /\ Len(table) \in Nat
            /\ \A i \in 1..Len(table) : table'[i] = table[i]
        BY <1>3, <1>6, <2>1, AppendProperties
      <3>6. s # <<x, Len(RowsOf[x])>>
        BY <1>3, <2>2, <3>3
      <3>7. ASSUME RowsOf[x] # <<>>, NEW j \in 1..Len(table') PROVE table'[j] # <<x, Len(RowsOf[x])>>
        <4>1. CASE j \in 1..Len(table)
          BY <3>4, <3>5, <3>7, <4>1 DEF LastMissing
        <4>2. CASE j = Len(table) + 1
          BY <3>5, <3>6, <4>2
        <4>3. QED
          BY <3>5, <4>1, <4>2
      <3>8. QED
        BY <3>7 DEF LastMissing
    <2>7. QED
      BY <1>1, <1>2, <1>3, <1>4, <2>3, <2>5, <2>6, AppendStep
  <1>7. QED
    BY <1>5, <1>6 DEF Execute_Ok

\* COMMIT makes nothing take effect of a transaction that will be reported
\* as false: the answer that is lost is given as true.
LEMMA UnfinishedCommit ==
  ASSUME ControlInv, Unfinished, losses <= 1, NEW k \in Threads, CommitTransaction(k)
  PROVE  Unfinished'
  <1>1. pc[k] = "commit" /\ next' = next
    BY DEF CommitTransaction
  <1>2. PICK x \in Transactions : x = task[k] /\ result[x] = "running"
    BY <1>1, Tasks
  <1>3. \/ /\ task' = [task EXCEPT ![k] = None] /\ pc' = [pc EXCEPT ![k] = "idle"]
           /\ result' = [result EXCEPT ![x] = "true"]
        \/ task' = task /\ pc' = pc /\ result' = result
    BY <1>2 DEF CommitTransaction, Finish
  <1>4. \A j \in Threads : j # k => task'[j] = task[j] /\ pc'[j] = pc[j] /\ next'[j] = next[j]
    BY <1>1, <1>3 DEF ControlInv, TypeOK
  <1>5. task'[k] \in {x, None} /\ \A y \in Transactions : y # x => result'[y] = result[y]
    BY <1>2, <1>3 DEF ControlInv, TypeOK
  <1>6. ~Pending(x)'
    <2>1. result'[x] \notin {"queued", "false"}
      BY <1>2, <1>3 DEF ControlInv, TypeOK
    <2>2. ASSUME NEW j \in Threads, task'[j] = x, Open(j)' PROVE FALSE
      <3>1. CASE j = k
        BY <1>1, <1>2, <1>3, <2>2, <3>1, Bounds DEF Open, ControlInv, TypeOK
      <3>2. CASE j # k
        BY <1>2, <1>4, <2>2, <3>2, Bounds DEF ControlInv, Control
      <3>3. QED
        BY <3>1, <3>2
    <2>3. QED
      BY <2>1, <2>2 DEF Pending
  <1>7. PICK d \in Seq(Statements) : d = dirty[k]
    BY <1>1, OwnStatements
  <1>8. \A i \in 1..Len(d) : d[i][1] = x
    BY <1>1, <1>2, <1>7, OwnStatements
  <1>9. table \in Seq(Statements)
    BY DEF ControlInv, TypeOK
  <1>10. CASE table' = table \o d
    BY <1>2, <1>4, <1>5, <1>6, <1>8, <1>9, <1>10, AppendStep
  <1>11. CASE table' = table
    <2>1. <<>> \in Seq(Statements) /\ table' = table \o <<>> /\ \A i \in 1..Len(<<>>) : <<>>[i][1] = x
      BY <1>9, <1>11
    <2>2. QED
      BY <1>2, <1>4, <1>5, <1>6, <1>9, <2>1, AppendStep
  <1>12. QED
    BY <1>7, <1>10, <1>11 DEF CommitTransaction

\* Whatever a thread does, a transaction that is not done lacks its last
\* statement.
LEMMA UnfinishedStep ==
  ASSUME ControlInv, Truthful, Unfinished, NEW k \in Threads, Step(k), losses' <= 1
  PROVE  Unfinished'
  <1>1. TypeOK
    BY DEF ControlInv
  <1>2. LinkLost(k) => losses = 0
    BY <1>1, LossCounted
  <1>3. losses <= 1
    <2>1. CASE LinkLost(k)
      BY <1>2, <2>1
    <2>2. CASE ~LinkLost(k)
      <3>1. losses' = losses
        BY <2>2 DEF Step, _HandleMySQLErrno, BeginTransaction, Execute_Ok, Execute_Fails, Execute_Aborts,
                    Execute_LinkLost, Execute_Done, CommitTransaction, RollbackTransaction, Failed,
                    LockForRetry, sessionVars
      <3>2. QED
        BY <3>1
    <2>3. QED
      BY <2>1, <2>2
  <1>4. CASE UNCHANGED <<pc, task, next, result, table>>
    <2>1. \A x \in Transactions : Pending(x)' => Pending(x)
      BY <1>4 DEF Pending, Open
    <2>2. QED
      BY <1>3, <1>4, <2>1, SameTable DEF Unfinished
  <1>5. CASE BeginTransaction(k) \/ Execute_Fails(k) \/ RollbackTransaction(k) \/ LockForRetry(k)
    <2>1. pc[k] # "idle" /\ Open(k)
      BY <1>5 DEF BeginTransaction, Execute_Fails, RollbackTransaction, LockForRetry, Open
    <2>2. PICK x \in Transactions : x = task[k]
      BY <2>1, Tasks
    <2>3. CASE BeginTransaction(k)
      <3>1. table' = table
        <4>1. dirty[k] = <<>> /\ table \in Seq(Statements)
          BY <2>3 DEF BeginTransaction, ControlInv, Sessions, TypeOK
        <4>2. table \o dirty[k] = table
          BY <4>1
        <4>3. QED
          BY <2>3, <4>2 DEF BeginTransaction
      <3>2. \A j \in Threads : j # k => task'[j] = task[j] /\ pc'[j] = pc[j] /\ next'[j] = next[j]
        BY <1>1, <2>3 DEF BeginTransaction, TypeOK
      <3>3. task' = task /\ result' = result
        BY <2>3 DEF BeginTransaction
      <3>4. QED
        BY <1>3, <2>1, <2>2, <3>1, <3>2, <3>3, OpenStep
    <2>4. CASE Execute_Fails(k) \/ LockForRetry(k)
      <3>1. /\ table' = table /\ task' = task /\ result' = result
            /\ \A j \in Threads : j # k => task'[j] = task[j] /\ pc'[j] = pc[j] /\ next'[j] = next[j]
        BY <1>1, <2>4 DEF Execute_Fails, LockForRetry, TypeOK
      <3>2. QED
        BY <1>3, <2>1, <2>2, <3>1, OpenStep
    <2>5. CASE RollbackTransaction(k)
      <3>1. CASE CleanSession(k) /\ Failed(k)
        <4>1. table' = table /\ next' = next
          BY <3>1, FailedCases
        <4>2. \/ task' = [task EXCEPT ![k] = None] /\ pc' = [pc EXCEPT ![k] = "idle"]
                   /\ \E r \in {"true", "false"} : result' = [result EXCEPT ![x] = r]
              \/ task' = task /\ result' = result /\ \E p \in {"begin", "lock"} : pc' = [pc EXCEPT ![k] = p]
          BY <2>2, <3>1, FailedCases DEF Finish, Retry, WaitForTurn
        <4>3. /\ task'[k] \in {x, None}
              /\ \A j \in Threads : j # k => task'[j] = task[j] /\ pc'[j] = pc[j] /\ next'[j] = next[j]
              /\ \A y \in Transactions : y # x => result'[y] = result[y]
          BY <1>1, <2>2, <4>1, <4>2 DEF TypeOK
        <4>4. QED
          BY <1>3, <2>1, <2>2, <4>1, <4>3, OpenStep
      <3>2. QED
        BY <1>4, <2>5, <3>1 DEF RollbackTransaction, threadVars
    <2>6. QED
      BY <1>5, <2>3, <2>4, <2>5
  <1>6. CASE Execute_Done(k)
    <2>1. pc[k] = "execute" /\ next[k] = Len(RowsOf[task[k]]) + 1 /\ pc' = [pc EXCEPT ![k] = "commit"]
          /\ UNCHANGED <<task, next, result, table>>
      BY <1>6 DEF Execute_Done
    <2>2. \A x \in Transactions : Pending(x)' => Pending(x)
      BY <1>1, <2>1 DEF Pending, Open, TypeOK
    <2>3. QED
      BY <1>3, <2>1, <2>2, SameTable DEF Unfinished
  <1>7. CASE Execute_LinkLost(k)
    <2>1. inTransaction[k]
      BY <1>2, <1>7 DEF Execute_LinkLost, Truthful
    <2>2. QED
      BY <1>4, <1>7, <2>1 DEF Execute_LinkLost, threadVars
  <1>8. CASE _HandleMySQLErrno(k) \/ Execute_Aborts(k)
    BY <1>4, <1>8 DEF _HandleMySQLErrno, Execute_Aborts, threadVars
  <1>9. QED
    BY <1>3, <1>5, <1>6, <1>7, <1>8, UnfinishedOk, UnfinishedCommit DEF Step

\* A transaction is queued with nothing of it in the table, and stays pending.
LEMMA UnfinishedNext == ControlInv /\ Truthful /\ Unfinished /\ [Next]_vars => Unfinished'
  <1> SUFFICES ASSUME ControlInv, Truthful, Unfinished, [Next]_vars, losses' <= 1 PROVE Unfinished'
    BY DEF Unfinished
  <1>1. ASSUME NEW k \in Threads, Step(k) PROVE Unfinished'
    BY <1>1, UnfinishedStep
  <1>2. ASSUME NEW k \in Threads, NEW x \in Transactions, Start(k, x) PROVE Unfinished'
    <2>1. /\ pc' = [pc EXCEPT ![k] = "begin"] /\ task' = [task EXCEPT ![k] = x] /\ result[x] = "queued"
          /\ result' = [result EXCEPT ![x] = "running"] /\ UNCHANGED <<next, table, losses>>
      BY <1>2 DEF Start, sessionVars
    <2>2. ASSUME NEW y \in Transactions, Pending(y)' PROVE Pending(y)
      <3>1. CASE y = x
        BY <2>1, <3>1 DEF Pending
      <3>2. CASE y # x
        <4>1. result'[y] = result[y]
          BY <2>1, <3>2 DEF ControlInv, TypeOK
        <4>2. ASSUME NEW j \in Threads, task'[j] = y, Open(j)' PROVE task[j] = y /\ Open(j)
          BY <2>1, <3>2, <4>2 DEF ControlInv, TypeOK, Open
        <4>3. QED
          BY <2>2, <4>1, <4>2 DEF Pending
      <3>3. QED
        BY <3>1, <3>2
    <2>3. QED
      BY <2>1, <2>2, SameTable DEF Unfinished
  <1>3. CASE UNCHANGED vars
    <2>1. \A x \in Transactions : Pending(x)' => Pending(x)
      BY <1>3 DEF Pending, Open, vars, threadVars
    <2>2. QED
      BY <1>3, <2>1, SameTable DEF Unfinished, vars, threadVars, sessionVars
  <1>4. QED
    BY <1>1, <1>2, <1>3 DEF Next, Ended

-----------------------------------------------------------------------------
(* The theorems                                                            *)

\* At first the table is empty and nothing was executed.
LEMMA SqlInit == Init => SqlInv
  <1> SUFFICES ASSUME Init PROVE SqlInv
    OBVIOUS
  <1>1. table = <<>> /\ Len(table) = 0
    BY DEF Init
  <1>2. \A x \in Transactions : Effects(x) = {} /\ LastMissing(x) /\ result[x] = "queued"
    BY <1>1 DEF Init, Effects, LastMissing
  <1>3. Truthful
    BY <1>2 DEF Init, Truthful
  <1>4. Unfinished
    BY <1>2 DEF Unfinished
  <1>5. QED
    BY <1>3, <1>4, ControlInit DEF SqlInv

\* The inductive invariant holds in every reachable state.
LEMMA SqlInvariant == Spec => []SqlInv
  <1>1. SqlInv /\ [Next]_vars => SqlInv'
    BY ControlNext, TruthfulNext, UnfinishedNext DEF SqlInv
  <1>2. QED
    BY <1>1, SqlInit, PTL DEF Spec

\* The states of MySQLConnection, TransactionTask and DirectCommitTransaction
\* are the ones their members are declared for; the retries of the loops stay
\* within their bounds.
THEOREM TransactionTypes == Spec => []TypeOK
  <1>1. SqlInv => TypeOK
    BY DEF SqlInv, ControlInv
  <1>2. QED
    BY <1>1, SqlInvariant, PTL

\* As long as no connection is lost, ExecuteTransaction and its retries make a
\* transaction take effect as a whole or not at all.
THEOREM AtomicCommit == Spec => []AtomicUnlessLost
  <1>1. SqlInv => AtomicUnlessLost
    BY DEF SqlInv, Truthful, AtomicUnlessLost, Atomic
  <1>2. QED
    BY <1>1, SqlInvariant, PTL

\* The result that TransactionWithResultTask hands to its future is the truth as
\* long as no connection is lost, and with one loss it never is false when every
\* statement took effect.
THEOREM ResultHonest == Spec => []TruthfulUnlessLost
  <1>1. ASSUME SqlInv PROVE TruthfulUnlessLost
    <2>1. losses = 0 => ResultTruthful
      BY <1>1 DEF SqlInv, Truthful, ResultTruthful
    <2>2. ASSUME losses <= 1, NEW x \in Transactions, result[x] = "false", RowsOf[x] # <<>>
          PROVE  \E i \in DOMAIN RowsOf[x] : \A j \in 1..Len(table) : table[j] # <<x, i>>
      <3>1. \A j \in 1..Len(table) : table[j] # <<x, Len(RowsOf[x])>>
        BY <1>1, <2>2 DEF SqlInv, Unfinished, Pending, LastMissing
      <3>2. RowsOf[x] \in Seq(Rows)
        BY TransactionAssumption
      <3>3. Len(RowsOf[x]) \in DOMAIN RowsOf[x]
        BY <2>2, <3>2
      <3>4. QED
        BY <3>1, <3>3
    <2>3. QED
      BY <2>1, <2>2 DEF TruthfulUnlessLost
  <1>2. QED
    BY <1>1, SqlInvariant, PTL

\* _deadlockLock keeps the retries of two workers from waiting for each other.
THEOREM OneRetries == Spec => []RetriesDoNotCollide
  <1>1. SqlInv => RetriesDoNotCollide
    BY DEF SqlInv, ControlInv, Retrying, RetriesDoNotCollide, WaitsFor
  <1>2. QED
    BY <1>1, SqlInvariant, PTL

\* A thread that waits for _deadlockLock has rolled its transaction back.
THEOREM NothingHeldWaiting == Spec => []WaitsWithoutLocks
  <1>1. ASSUME SqlInv PROVE WaitsWithoutLocks
    <2> SUFFICES ASSUME NEW k \in Threads, pc[k] \in {"idle", "lock"}
                 PROVE  ~inTransaction[k] /\ LockedRows(k) = {}
      BY DEF WaitsWithoutLocks
    <2>1. ~inTransaction[k] /\ dirty[k] = <<>>
      BY <1>1 DEF SqlInv, ControlInv, Sessions
    <2>2. QED
      BY <2>1 DEF LockedRows
  <1>2. QED
    BY <1>1, SqlInvariant, PTL
=============================================================================
