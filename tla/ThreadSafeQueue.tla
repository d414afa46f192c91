--------------------------- MODULE ThreadSafeQueue ---------------------------
(***************************************************************************)
(* onyxup::ThreadSafeQueue (queue/thread-safe-queue.h): a std::queue, a    *)
(* mutex and a condition variable.                                         *)
(*                                                                         *)
(* A thread calls an operation, takes the mutex, does its work and gives   *)
(* the mutex back, each in a step of its own.  cond.wait with a predicate  *)
(* is a loop: it sleeps only if the queue is empty, giving up the mutex in *)
(* the same step, and takes the mutex again when it is woken.              *)
(*                                                                         *)
(* The threads are those of HttpServer.  On the queues of the workers the  *)
(* loop pushes and calls size, the workers call wait_and_pop; on the queue *)
(* of performed tasks the workers push, the loop calls empty and, if there *)
(* is something, try_pop.                                                  *)
(***************************************************************************)
EXTENDS Integers, Sequences, FiniteSets

CONSTANTS
    NoThread,                    \* the mutex is free
    Pushers,                     \* threads that call push and size
    Waiters,                     \* threads that call wait_and_pop
    Pollers,                     \* threads that call empty and try_pop
    MaxPushes                    \* bound: items pushed in all

Threads == Pushers \cup Waiters \cup Pollers

ASSUME QueueAssumption ==
    /\ NoThread \notin Threads
    /\ MaxPushes \in Nat
    /\ IsFiniteSet(Waiters) /\ IsFiniteSet(Pollers)

VARIABLES
    queue,      \* the items, numbered in the order they were pushed
    mutex,      \* the thread that holds the mutex
    pc,         \* what each thread is doing
    pushed,     \* items pushed so far
    got         \* the item each thread popped last

vars == <<queue, mutex, pc, pushed, got>>

\* Operations a thread can be in with or without the mutex.
Calls == {"push", "wait", "look", "try"}

\* "out": not in the queue's code; "asleep": in cond.wait; "done" and "found":
\* about to give up the mutex and return, "found" if empty() is false.
States == Calls \cup {"out", "asleep", "done", "found"}

Init ==
    /\ queue = <<>>
    /\ mutex = NoThread
    /\ pc = [t \in Threads |-> "out"]
    /\ pushed = 0
    /\ got = [t \in Threads |-> 0]

\* Thread t enters an operation.
Call(t) ==
    /\ pc[t] = "out"
    /\ \/ /\ t \in Pushers
          /\ pushed + Cardinality({u \in Threads : pc[u] = "push"}) < MaxPushes
          /\ pc' = [pc EXCEPT ![t] = "push"]
       \/ t \in Waiters /\ pc' = [pc EXCEPT ![t] = "wait"]
       \/ t \in Pushers \cup Pollers /\ pc' = [pc EXCEPT ![t] = "look"]
    /\ UNCHANGED <<queue, mutex, pushed, got>>

\* lock_guard, unique_lock, and the end of cond.wait.
Lock(t) ==
    /\ pc[t] \in Calls /\ mutex = NoThread
    /\ mutex' = t
    /\ UNCHANGED <<queue, pc, pushed, got>>

Asleep == {t \in Waiters : pc[t] = "asleep"}

Notified(t, u) ==
    [s \in Threads |-> IF s = t THEN "done" ELSE IF s = u THEN "wait" ELSE pc[s]]

\* Mutant: only the push into an empty queue notifies.
NotifyOne_IfWasEmpty(t) ==
    IF Asleep = {} \/ queue # <<>> THEN pc' = [pc EXCEPT ![t] = "done"]
    ELSE \E u \in Asleep : pc' = Notified(t, u)

\* cond.notify_one() by thread t, whose operation is done with it.
NotifyOne(t) ==
    IF Asleep = {} THEN pc' = [pc EXCEPT ![t] = "done"]
    ELSE \E u \in Asleep : pc' = Notified(t, u)

Push(t) ==
    /\ pc[t] = "push" /\ mutex = t
    /\ pushed' = pushed + 1
    /\ queue' = Append(queue, pushed + 1)
    /\ NotifyOne(t)
    /\ UNCHANGED <<mutex, got>>

\* The predicate of cond.wait is false.
Sleep(t) ==
    /\ pc[t] = "wait" /\ mutex = t /\ queue = <<>>
    /\ mutex' = NoThread
    /\ pc' = [pc EXCEPT ![t] = "asleep"]
    /\ UNCHANGED <<queue, pushed, got>>

\* cond.wait may return from its sleep without a notification.
WakeSpuriously(t) ==
    /\ pc[t] = "asleep"
    /\ pc' = [pc EXCEPT ![t] = "wait"]
    /\ UNCHANGED <<queue, mutex, pushed, got>>

\* Mutant: the item is read but not removed.
Take_KeepsFront(t) ==
    /\ got' = [got EXCEPT ![t] = Head(queue)]
    /\ queue' = queue

\* value = queue.front(); queue.pop()
Take(t) ==
    /\ got' = [got EXCEPT ![t] = Head(queue)]
    /\ queue' = Tail(queue)

\* wait_and_pop
Pop(t) ==
    /\ pc[t] = "wait" /\ mutex = t /\ queue # <<>>
    /\ Take(t)
    /\ pc' = [pc EXCEPT ![t] = "done"]
    /\ UNCHANGED <<mutex, pushed>>

\* Mutant: the result of empty() is taken for its opposite.
Look_Inverted(t) ==
    /\ pc[t] = "look" /\ mutex = t
    /\ pc' = [pc EXCEPT ![t] =
           IF t \in Pollers /\ queue = <<>> THEN "found" ELSE "done"]
    /\ UNCHANGED <<queue, mutex, pushed, got>>

\* empty() or size().
Look(t) ==
    /\ pc[t] = "look" /\ mutex = t
    /\ pc' = [pc EXCEPT ![t] =
           IF t \in Pollers /\ queue # <<>> THEN "found" ELSE "done"]
    /\ UNCHANGED <<queue, mutex, pushed, got>>

\* Mutant: the item is removed but not handed out.
TryPop_LosesItem(t) ==
    /\ pc[t] = "try" /\ mutex = t
    /\ queue' = IF queue = <<>> THEN queue ELSE Tail(queue)
    /\ pc' = [pc EXCEPT ![t] = "done"]
    /\ UNCHANGED <<mutex, pushed, got>>

TryPop(t) ==
    /\ pc[t] = "try" /\ mutex = t
    /\ IF queue = <<>> THEN UNCHANGED <<queue, got>> ELSE Take(t)
    /\ pc' = [pc EXCEPT ![t] = "done"]
    /\ UNCHANGED <<mutex, pushed>>

\* The lock is destroyed at the end of the operation.  A poller that has found
\* something calls try_pop next (server.cpp:341-343).
Unlock(t) ==
    /\ pc[t] \in {"done", "found"} /\ mutex = t
    /\ mutex' = NoThread
    /\ pc' = [pc EXCEPT ![t] = IF pc[t] = "done" THEN "out" ELSE "try"]
    /\ UNCHANGED <<queue, pushed, got>>

Work(t) == Push(t) \/ Sleep(t) \/ Pop(t) \/ Look(t) \/ TryPop(t) \/ Unlock(t)

Next == \E t \in Threads : Call(t) \/ Lock(t) \/ Work(t) \/ WakeSpuriously(t)

Spec == Init /\ [][Next]_vars

-----------------------------------------------------------------------------
(* Properties *)

\* Every variable holds a value of its type, and the thread that holds the
\* mutex is in an operation.
TypeOK ==
    /\ queue \in Seq(Nat) /\ pushed \in Nat
    /\ mutex \in Threads \cup {NoThread}
    /\ pc \in [Threads -> States]
    /\ got \in [Threads -> Nat]
    /\ mutex # NoThread => pc[mutex] \notin {"out", "asleep"}

Abstract == INSTANCE TaskQueue WITH popped <- pushed - Len(queue)

\* The queue is a FIFO queue that threads operate on one at a time: whatever
\* the interleaving, items leave in the order in which they were pushed, each
\* once, to one thread.  This is how HttpServer uses it.
Linearizable == Abstract!Spec

\* Waiters that will look at the queue before they sleep (again).
Coming == {t \in Waiters : pc[t] = "wait"}

\* No wake-up is lost: if some worker sleeps, then for every item in the queue
\* there is another one on its way to take it.  An item never lies in the
\* queue, next to a sleeping worker, until a busy one comes back.
NoLostWakeup == Asleep # {} => Len(queue) <= Cardinality(Coming)

\* With one poller and no other consumer, try_pop after empty() has returned
\* false finds something: the check at server.cpp:341 is not stale at
\* server.cpp:343.
DrainFinds ==
    Waiters = {} /\ Cardinality(Pollers) = 1 =>
        \A t \in Pollers : pc[t] \in {"found", "try"} => queue # <<>>

\* Threads finish their operations and the mutex starves nobody.  Nothing is
\* assumed of what threads do outside: a worker may stay in a handler.
FairSpec ==
    /\ Spec
    /\ \A t \in Threads : WF_vars(Work(t)) /\ SF_vars(Lock(t))

\* The loop comes back to drain the performed tasks.
FairDrainSpec == FairSpec /\ \A t \in Pollers : WF_vars(Call(t))

\* Every performed task is taken by the loop.
PerformedAreTaken ==
    \A n \in 1 .. MaxPushes :
        pushed = n ~> \E t \in Pollers : got[t] >= n

=============================================================================
