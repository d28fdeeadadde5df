----------------------- MODULE ProducerConsumerQueue -----------------------
(***************************************************************************)
(* The blocking queue of common/Threading/ProducerConsumerQueue.h, which   *)
(* hands map updates and SQL operations to worker threads.                 *)
(*                                                                         *)
(* Every member function holds _queueLock from its first to its last line, *)
(* so each one is a single step here; the only place where the lock is     *)
(* given up half way is _condition.wait in WaitAndPop, and the threads     *)
(* that are blocked there are the set `waiting`.  The operators below are  *)
(* the queue's part of an action: the modules that EXTEND this one say     *)
(* which thread performs it and what it does with the value.               *)
(***************************************************************************)
EXTENDS Naturals, Sequences

VARIABLES
    queue,      \* _queue, the values pushed and not popped yet
    shutdown,   \* _shutdown, set by Cancel and never reset
    waiting     \* the threads blocked in _condition.wait

queueVars == <<queue, shutdown, waiting>>

QueueInit ==
    /\ queue = <<>>
    /\ shutdown = FALSE
    /\ waiting = {}

\* notify_one: one blocked thread, any of them, gets to run again.
NotifyOne ==
    IF waiting = {} THEN UNCHANGED waiting
                    ELSE \E t \in waiting : waiting' = waiting \ {t}

\* Mutant: the producer forgets to notify.
PushWithoutNotify(v) ==
    /\ queue' = Append(queue, v)
    /\ UNCHANGED <<shutdown, waiting>>

\* Mutant: the newest value is served first.
PushFront(v) ==
    /\ queue' = <<v>> \o queue
    /\ NotifyOne
    /\ UNCHANGED shutdown

\* Push does not look at _shutdown: a cancelled queue still grows.
Push(v) ==
    /\ queue' = Append(queue, v)
    /\ NotifyOne
    /\ UNCHANGED shutdown

\* WaitAndPop, the loop's condition holds: the thread blocks.
WaitAndPop_Block(t) ==
    /\ t \notin waiting
    /\ queue = <<>> /\ ~shutdown
    /\ waiting' = waiting \cup {t}
    /\ UNCHANGED <<queue, shutdown>>

\* WaitAndPop, the loop is left with a value to take.
WaitAndPop_Take(t) ==
    /\ t \notin waiting
    /\ queue # <<>> /\ ~shutdown
    /\ queue' = Tail(queue)
    /\ UNCHANGED <<shutdown, waiting>>

\* WaitAndPop, the loop is left because of the shutdown: the caller's value
\* is not assigned, even when the queue holds something.
WaitAndPop_Return(t) ==
    /\ t \notin waiting
    /\ shutdown
    /\ UNCHANGED queueVars

\* _condition.wait may return without a notification; the loop tests again.
SpuriousWakeup(t) ==
    /\ t \in waiting
    /\ waiting' = waiting \ {t}
    /\ UNCHANGED <<queue, shutdown>>

\* Mutant: Cancel wakes one waiter instead of all of them.
CancelNotifyOne ==
    /\ queue' = <<>>
    /\ shutdown' = TRUE
    /\ NotifyOne

\* Cancel drops (and deletes) what is queued and wakes everybody.
Cancel ==
    /\ queue' = <<>>
    /\ shutdown' = TRUE
    /\ waiting' = {}

=============================================================================
