------------------------ MODULE ThreadSafeQueueProofs ------------------------
(***************************************************************************)
(* Proofs about ThreadSafeQueue, for any number of threads and items.      *)
(***************************************************************************)
EXTENDS ThreadSafeQueue, SequenceTheorems, FiniteSetTheorems, TLAPS

(***************************************************************************)
(* The inductive invariant.  The items in the queue are the last ones that *)
(* were pushed, in order; Linearizable needs it to know which item a       *)
(* thread pops.                                                            *)
(***************************************************************************)
InOrder ==
    /\ Len(queue) <= pushed
    /\ \A i \in 1 .. Len(queue) : queue[i] = pushed - Len(queue) + i

IInv == TypeOK /\ InOrder

LEMMA NotifyEffect ==
  ASSUME TypeOK, NEW t \in Threads, pc[t] = "push", NotifyOne(t)
  PROVE  /\ pc' \in [Threads -> States] /\ pc'[t] = "done"
         /\ \A u \in Threads \ {t} :
              \/ pc'[u] = pc[u]
              \/ pc[u] = "asleep" /\ pc'[u] = "wait"
<1>1. CASE Asleep = {}
  BY <1>1 DEF NotifyOne, TypeOK, States
<1>2. CASE Asleep # {}
  <2>1. PICK u \in Asleep : pc' = Notified(t, u)
    BY <1>2 DEF NotifyOne
  <2>2. u \in Threads /\ pc[u] = "asleep"
    BY <2>1 DEF Asleep, Threads
  <2> QED
    BY <2>1, <2>2 DEF Notified, TypeOK, States, Calls
<1> QED
  BY <1>1, <1>2

\* Push and the two ways of popping, as steps of the abstract queue.
LEMMA PushStep ==
  ASSUME IInv, NEW t \in Threads, Push(t)
  PROVE  IInv' /\ Abstract!Put
<1>1. /\ queue \in Seq(Nat) /\ pushed \in Nat /\ Len(queue) \in Nat
      /\ mutex \in Threads \cup {NoThread}
  BY DEF IInv, TypeOK
<1>2. /\ queue' = Append(queue, pushed + 1) /\ pushed' = pushed + 1
      /\ UNCHANGED <<mutex, got>> /\ NotifyOne(t) /\ mutex = t /\ pc[t] = "push"
  BY DEF Push
<1>3. /\ queue' \in Seq(Nat) /\ Len(queue') = Len(queue) + 1
      /\ \A i \in 1 .. Len(queue) : queue'[i] = queue[i]
      /\ queue'[Len(queue) + 1] = pushed + 1
  BY <1>1, <1>2
<1>4. TypeOK'
  <2>1. pc' \in [Threads -> States] /\ pc'[t] = "done"
    BY <1>2, NotifyEffect DEF IInv
  <2> QED
    BY <1>1, <1>2, <1>3, <2>1 DEF IInv, TypeOK
<1>5. InOrder'
  <2>1. Len(queue') <= pushed'
    BY <1>1, <1>2, <1>3 DEF IInv, InOrder
  <2>2. ASSUME NEW i \in 1 .. Len(queue') PROVE queue'[i] = pushed' - Len(queue') + i
    <3>1. CASE i \in 1 .. Len(queue)
      <4>1. queue'[i] = pushed - Len(queue) + i
        BY <1>3, <3>1 DEF IInv, InOrder
      <4> QED
        BY <1>1, <1>2, <1>3, <4>1
    <3>2. CASE i = Len(queue) + 1
      BY <1>1, <1>2, <1>3, <3>2
    <3> QED
      BY <1>1, <1>3, <3>1, <3>2
  <2> QED
    BY <2>1, <2>2 DEF InOrder
<1>6. Abstract!Put
  BY <1>1, <1>2, <1>3 DEF Abstract!Put
<1> QED
  BY <1>4, <1>5, <1>6 DEF IInv

LEMMA TakeStep ==
  ASSUME IInv, NEW t \in Threads, queue # <<>>, Take(t), UNCHANGED <<mutex, pushed>>,
         mutex = t, pc' = [pc EXCEPT ![t] = "done"]
  PROVE  IInv' /\ Abstract!Get(t)
<1>1. /\ queue \in Seq(Nat) /\ pushed \in Nat /\ Len(queue) \in Nat /\ Len(queue) > 0
      /\ got \in [Threads -> Nat] /\ pc \in [Threads -> States]
  BY DEF IInv, TypeOK
<1>2. queue' = Tail(queue) /\ got' = [got EXCEPT ![t] = Head(queue)]
  BY DEF Take
<1>3. /\ queue' \in Seq(Nat) /\ Len(queue') = Len(queue) - 1
      /\ \A i \in 1 .. Len(queue) - 1 : queue'[i] = queue[i + 1]
      /\ Head(queue) = queue[1] /\ queue[1] \in Nat
  BY <1>1, <1>2
<1>4. Head(queue) = pushed - Len(queue) + 1
  BY <1>1, <1>3 DEF IInv, InOrder
<1>5. TypeOK'
  <2>1. got' \in [Threads -> Nat] /\ pc' \in [Threads -> States] /\ pc'[t] = "done"
    BY <1>1, <1>2, <1>3 DEF States
  <2> QED
    BY <1>1, <1>3, <2>1 DEF TypeOK
<1>6. InOrder'
  <2>1. Len(queue') <= pushed'
    BY <1>1, <1>3 DEF IInv, InOrder
  <2>2. ASSUME NEW i \in 1 .. Len(queue') PROVE queue'[i] = pushed' - Len(queue') + i
    <3>1. i + 1 \in 1 .. Len(queue)
      BY <1>1, <1>3
    <3>2. queue[i + 1] = pushed - Len(queue) + (i + 1)
      BY <3>1 DEF IInv, InOrder
    <3> QED
      BY <1>1, <1>3, <3>2
  <2> QED
    BY <2>1, <2>2 DEF InOrder
<1>7. Abstract!Get(t)
  <2>1. pushed - Len(queue) < pushed
    BY <1>1
  <2>2. (pushed - Len(queue))' = pushed - Len(queue) + 1
    BY <1>1, <1>3
  <2>3. got' = [got EXCEPT ![t] = pushed - Len(queue) + 1]
    BY <1>2, <1>4
  <2> QED
    BY <2>1, <2>2, <2>3 DEF Abstract!Get
<1> QED
  BY <1>5, <1>6, <1>7 DEF IInv

\* The steps that leave the items and what threads have got alone.
LEMMA QuietStep ==
  ASSUME IInv, NEW t \in Threads,
         Call(t) \/ Lock(t) \/ Sleep(t) \/ Look(t) \/ Unlock(t) \/ WakeSpuriously(t)
  PROVE  IInv' /\ UNCHANGED <<queue, pushed, got>>
<1>1. UNCHANGED <<queue, pushed, got>>
  BY DEF Call, Lock, Sleep, Look, Unlock, WakeSpuriously
<1>2. NoThread \notin Threads
  BY QueueAssumption
<1>3. /\ pc' \in [Threads -> States] /\ mutex' \in Threads \cup {NoThread}
      /\ mutex' # NoThread => pc'[mutex'] \notin {"out", "asleep"}
  <2> USE <1>2 DEF IInv, TypeOK, States, Calls
  <2>1. CASE Call(t)
    BY <2>1 DEF Call
  <2>2. CASE Lock(t)
    BY <2>2 DEF Lock
  <2>3. CASE Sleep(t)
    BY <2>3 DEF Sleep
  <2>4. CASE Look(t)
    BY <2>4 DEF Look
  <2>5. CASE Unlock(t)
    BY <2>5 DEF Unlock
  <2>6. CASE WakeSpuriously(t)
    BY <2>6 DEF WakeSpuriously
  <2> QED
    BY <2>1, <2>2, <2>3, <2>4, <2>5, <2>6
<1>4. TypeOK'
  BY <1>1, <1>3 DEF IInv, TypeOK
<1>5. InOrder'
  BY <1>1 DEF IInv, InOrder
<1> QED
  BY <1>1, <1>4, <1>5 DEF IInv

LEMMA InitOK == Init => IInv /\ Abstract!Init
<1> SUFFICES ASSUME Init PROVE IInv /\ Abstract!Init
  OBVIOUS
<1>0. Len(queue) = 0 /\ pushed = 0
  BY DEF Init
<1>1. queue = <<>> /\ queue \in Seq(Nat) /\ Len(queue) = 0 /\ pushed = 0
  BY DEF Init
<1>2. TypeOK
  BY <1>1 DEF Init, TypeOK, States
<1>3. InOrder
  BY <1>1 DEF InOrder
<1>4. Abstract!Init
  <2>1. pushed - Len(queue) = 0
    BY <1>0
  <2>2. pushed = 0 /\ got = [t \in Threads |-> 0]
    BY DEF Init
  <2> QED
    BY <2>1, <2>2 DEF Abstract!Init
<1> QED
  BY <1>2, <1>3, <1>4 DEF IInv

\* Every step keeps the invariant and is a step of the abstract queue, or
\* changes nothing of it.
LEMMA StepOK ==
  ASSUME IInv, [Next]_vars
  PROVE  IInv' /\ [Abstract!Next]_(Abstract!vars)
<1>1. CASE UNCHANGED vars
  BY <1>1 DEF vars, IInv, TypeOK, InOrder, Abstract!vars
<1>2. ASSUME NEW t \in Threads, Push(t) PROVE IInv' /\ Abstract!Next
  BY <1>2, PushStep DEF Abstract!Next
<1>3. ASSUME NEW t \in Threads, Pop(t) PROVE IInv' /\ Abstract!Next
  BY <1>3, TakeStep DEF Pop, Abstract!Next
<1>4. ASSUME NEW t \in Threads, TryPop(t), queue # <<>> PROVE IInv' /\ Abstract!Next
  BY <1>4, TakeStep DEF TryPop, Abstract!Next
<1>5. ASSUME NEW t \in Threads, TryPop(t), queue = <<>>
      PROVE  IInv' /\ UNCHANGED Abstract!vars
  <2>1. UNCHANGED <<queue, got, mutex, pushed>> /\ pc' = [pc EXCEPT ![t] = "done"]
    BY <1>5 DEF TryPop
  <2>2. TypeOK'
    BY <2>1 DEF IInv, TypeOK, States
  <2>3. InOrder'
    BY <2>1 DEF IInv, InOrder
  <2> QED
    BY <2>1, <2>2, <2>3 DEF IInv, Abstract!vars
<1>6. ASSUME NEW t \in Threads,
             Call(t) \/ Lock(t) \/ Sleep(t) \/ Look(t) \/ Unlock(t) \/ WakeSpuriously(t)
      PROVE  IInv' /\ UNCHANGED Abstract!vars
  BY <1>6, QuietStep DEF Abstract!vars
<1> QED
  BY <1>1, <1>2, <1>3, <1>4, <1>5, <1>6 DEF Next, Work

\* The types, for any set of threads and any number of items.  The last
\* conjunct is mutual exclusion as cond.wait needs it: a thread holds the
\* mutex only inside an operation, never while it sleeps.
THEOREM TypeCorrect == Spec => []TypeOK
<1>1. IInv => TypeOK
  BY DEF IInv
<1> QED
  BY InitOK, StepOK, <1>1, PTL DEF Spec

\* push, wait_and_pop and try_pop implement the abstract FIFO queue, whatever
\* the interleaving of the threads and whatever wake-ups are spurious.
THEOREM QueueIsLinearizable == Spec => Linearizable
<1>1. Spec => []IInv
  BY InitOK, StepOK, PTL DEF Spec
<1> QED
  BY <1>1, InitOK, StepOK, PTL DEF Spec, Linearizable, Abstract!Spec

\* Removing or adding one member of a finite set, and growing it.
LEMMA ComingCounts ==
  ASSUME TypeOK
  PROVE  /\ IsFiniteSet(Coming) /\ IsFiniteSet(Coming')
         /\ Cardinality(Coming) \in Nat /\ Cardinality(Coming') \in Nat
         /\ Coming \subseteq Coming' => Cardinality(Coming) <= Cardinality(Coming')
         /\ \A u \in Waiters :
              /\ u \notin Coming /\ Coming' = Coming \cup {u}
                   => Cardinality(Coming') = Cardinality(Coming) + 1
              /\ u \in Coming /\ Coming' = Coming \ {u}
                   => Cardinality(Coming') = Cardinality(Coming) - 1
<1>1. IsFiniteSet(Waiters)
  BY QueueAssumption
<1>2. Coming \subseteq Waiters /\ Coming' \subseteq Waiters
  BY DEF Coming
<1>3. IsFiniteSet(Coming) /\ IsFiniteSet(Coming')
  BY <1>1, <1>2, FS_Subset
<1> HIDE DEF Coming
<1>4. Cardinality(Coming) \in Nat /\ Cardinality(Coming') \in Nat
  BY <1>3, FS_CardinalityType
<1>5. Coming \subseteq Coming' => Cardinality(Coming) <= Cardinality(Coming')
  BY <1>3, FS_Subset
<1>6. ASSUME NEW u \in Waiters
      PROVE  /\ u \notin Coming /\ Coming' = Coming \cup {u}
                  => Cardinality(Coming') = Cardinality(Coming) + 1
             /\ u \in Coming /\ Coming' = Coming \ {u}
                  => Cardinality(Coming') = Cardinality(Coming) - 1
  BY <1>3, FS_AddElement, FS_RemoveElement
<1> QED
  BY <1>3, <1>4, <1>5, <1>6

LEMMA WakeupKept ==
  ASSUME IInv, NoLostWakeup, [Next]_vars
  PROVE  NoLostWakeup'
<1> SUFFICES ASSUME Asleep' # {} PROVE Len(queue)' <= Cardinality(Coming')
  BY DEF NoLostWakeup
<1>1. /\ queue \in Seq(Nat) /\ Len(queue) \in Nat /\ pc \in [Threads -> States]
      /\ TypeOK /\ Waiters \subseteq Threads
  BY DEF IInv, TypeOK, Threads
<1>2. ASSUME UNCHANGED queue, Asleep # {}, Coming \subseteq Coming'
      PROVE  Len(queue)' <= Cardinality(Coming')
  BY <1>1, <1>2, ComingCounts DEF NoLostWakeup
<1>3. CASE UNCHANGED vars
  BY <1>2, <1>3 DEF vars, Asleep, Coming
<1>4. ASSUME NEW t \in Threads,
             Call(t) \/ Lock(t) \/ Look(t) \/ Unlock(t) \/ WakeSpuriously(t)
      PROVE  Len(queue)' <= Cardinality(Coming')
  <2>1. UNCHANGED queue
    BY <1>4 DEF Call, Lock, Look, Unlock, WakeSpuriously
  <2>2. Asleep # {} /\ Coming \subseteq Coming'
    <3> USE <1>1 DEF Asleep, Coming
    <3>1. CASE Call(t)
      BY <3>1 DEF Call
    <3>2. CASE Lock(t)
      BY <3>2 DEF Lock
    <3>3. CASE Look(t)
      BY <3>3 DEF Look
    <3>4. CASE Unlock(t)
      BY <3>4 DEF Unlock
    <3>5. CASE WakeSpuriously(t)
      BY <3>5 DEF WakeSpuriously
    <3> QED
      BY <1>4, <3>1, <3>2, <3>3, <3>4, <3>5
  <2> QED
    BY <1>2, <2>1, <2>2
<1>5. ASSUME NEW t \in Threads, Sleep(t)
      PROVE  Len(queue)' <= Cardinality(Coming')
  <2>1. Len(queue)' = 0
    BY <1>5 DEF Sleep
  <2> QED
    BY <1>1, <2>1, ComingCounts
\* A push wakes one sleeper for the one item it adds.
<1>6. ASSUME NEW t \in Threads, Push(t)
      PROVE  Len(queue)' <= Cardinality(Coming')
  <2>1. Len(queue)' = Len(queue) + 1 /\ pc[t] = "push" /\ NotifyOne(t)
    BY <1>1, <1>6 DEF Push
  <2>2. Asleep # {}
    <3>1. SUFFICES ASSUME Asleep = {} PROVE FALSE
      OBVIOUS
    <3>2. pc' = [pc EXCEPT ![t] = "done"]
      BY <2>1, <3>1 DEF NotifyOne
    <3> QED
      BY <1>1, <3>1, <3>2 DEF Asleep
  <2>3. PICK u \in Asleep : pc' = Notified(t, u)
    BY <2>1, <2>2 DEF NotifyOne
  <2>4. u \in Waiters /\ u \notin Coming /\ Coming' = Coming \cup {u}
    BY <1>1, <2>1, <2>3 DEF Notified, Asleep, Coming
  <2>5. Cardinality(Coming') = Cardinality(Coming) + 1
    BY <1>1, <2>4, ComingCounts
  <2> QED
    BY <1>1, <2>1, <2>2, <2>5, ComingCounts DEF NoLostWakeup
\* A thread that pops takes one item and is one less on its way.
<1>7. ASSUME NEW t \in Threads, Pop(t) \/ TryPop(t)
      PROVE  Len(queue)' <= Cardinality(Coming')
  <2>1. pc' = [pc EXCEPT ![t] = "done"] /\ pc[t] \in {"wait", "try"}
    BY <1>7 DEF Pop, TryPop
  <2>2. Asleep # {}
    BY <1>1, <2>1 DEF Asleep
  <2>3. Len(queue) <= Cardinality(Coming)
    BY <2>2 DEF NoLostWakeup
  <2>4. CASE t \in Waiters /\ pc[t] = "wait"
    <3>1. Len(queue)' = Len(queue) - 1
      BY <1>1, <1>7, <2>4 DEF Pop, TryPop, Take
    <3>2. t \in Coming /\ Coming' = Coming \ {t}
      BY <1>1, <2>1, <2>4 DEF Coming
    <3>3. Cardinality(Coming') = Cardinality(Coming) - 1
      BY <1>1, <2>4, <3>2, ComingCounts
    <3> QED
      BY <1>1, <2>3, <3>1, <3>3, ComingCounts
  <2>5. CASE ~(t \in Waiters /\ pc[t] = "wait")
    <3>1. Len(queue)' <= Len(queue) /\ Len(queue)' \in Nat
      BY <1>1, <1>7 DEF Pop, TryPop, Take
    <3>2. Coming \subseteq Coming'
      BY <1>1, <2>1, <2>5 DEF Coming
    <3> QED
      BY <1>1, <2>3, <3>1, <3>2, ComingCounts
  <2> QED
    BY <2>4, <2>5
<1> QED
  BY <1>3, <1>4, <1>5, <1>6, <1>7 DEF Next, Work

\* notify_one after every push is enough: for any number of workers, an item
\* never waits for a busy worker while another one sleeps.
THEOREM NoWakeupIsLost == Spec => []NoLostWakeup
<1>1. Init => NoLostWakeup
  BY DEF Init, NoLostWakeup, Asleep, Threads
<1> QED
  BY <1>1, InitOK, StepOK, WakeupKept, PTL DEF Spec

-----------------------------------------------------------------------------
(* The check before try_pop *)

\* Which threads get where.
Roles ==
    \A t \in Threads : /\ pc[t] \in {"wait", "asleep"} => t \in Waiters
                       /\ pc[t] \in {"found", "try"} => t \in Pollers

DrainInv == Roles /\ DrainFinds

LEMMA OnePoller ==
  ASSUME Cardinality(Pollers) = 1, NEW t \in Pollers, NEW u \in Pollers
  PROVE  t = u
  BY QueueAssumption, FS_Singleton

LEMMA RolesKept ==
  ASSUME IInv, Roles, NEW t \in Threads, Call(t) \/ Lock(t) \/ Work(t) \/ WakeSpuriously(t)
  PROVE  Roles'
<1>1. pc \in [Threads -> States] /\ TypeOK
  BY DEF IInv, TypeOK
<1>2. CASE Push(t)
  <2>1. pc[t] = "push" /\ NotifyOne(t)
    BY <1>2 DEF Push
  <2>2. /\ pc'[t] = "done"
        /\ \A u \in Threads \ {t} : pc'[u] = pc[u] \/ (pc[u] = "asleep" /\ pc'[u] = "wait")
    BY <1>1, <2>1, NotifyEffect
  <2>3. QED
    BY <2>2 DEF Roles
<1>3. ASSUME NEW l, pc' = [pc EXCEPT ![t] = l],
             l \in {"wait", "asleep"} => t \in Waiters, l \in {"found", "try"} => t \in Pollers
      PROVE  Roles'
  BY <1>1, <1>3 DEF Roles
<1>4. CASE Call(t) \/ WakeSpuriously(t)
  BY <1>3, <1>4 DEF Call, WakeSpuriously, Roles
<1>5. CASE Lock(t)
  BY <1>5 DEF Lock, Roles
<1>6. CASE Sleep(t) \/ Pop(t) \/ Look(t) \/ TryPop(t) \/ Unlock(t)
  BY <1>3, <1>6 DEF Sleep, Pop, Look, TryPop, Unlock, Roles
<1>7. QED
  BY <1>2, <1>4, <1>5, <1>6 DEF Work

LEMMA DrainKept == IInv /\ DrainInv /\ [Next]_vars => DrainInv'
<1> SUFFICES ASSUME IInv, DrainInv, [Next]_vars PROVE DrainInv'
  OBVIOUS
<1>1. CASE UNCHANGED vars
  BY <1>1 DEF vars, DrainInv, Roles, DrainFinds
<1>2. ASSUME NEW t \in Threads, Call(t) \/ Lock(t) \/ Work(t) \/ WakeSpuriously(t)
      PROVE  DrainInv'
  <2>1. Roles /\ Roles'
    BY <1>2, RolesKept DEF DrainInv
  <2>2. SUFFICES ASSUME Waiters = {}, Cardinality(Pollers) = 1, NEW p \in Pollers, pc'[p] \in {"found", "try"}
                 PROVE  queue' # <<>>
    BY <2>1 DEF DrainInv, DrainFinds
  <2>3. pc \in [Threads -> States] /\ queue \in Seq(Nat) /\ p \in Threads
    BY DEF IInv, TypeOK, Threads
  <2>4. pc[p] \in {"found", "try"} => queue # <<>>
    BY <2>2 DEF DrainInv, DrainFinds
  <2>5. CASE Push(t)
    <3>1. queue' = Append(queue, pushed + 1) /\ pushed \in Nat
      BY <2>5 DEF Push, IInv, TypeOK
    <3>2. QED
      BY <2>3, <3>1
  <2>6. CASE Call(t) \/ Lock(t) \/ Sleep(t) \/ Unlock(t) \/ WakeSpuriously(t)
    <3>1. queue' = queue
      BY <2>6 DEF Call, Lock, Sleep, Unlock, WakeSpuriously
    <3>2. pc[p] \in {"found", "try"}
      BY <2>2, <2>3, <2>6 DEF Call, Lock, Sleep, Unlock, WakeSpuriously
    <3>3. QED
      BY <2>4, <3>1, <3>2
  <2>7. CASE Look(t)
    BY <2>2, <2>3, <2>4, <2>7 DEF Look
  <2>8. CASE Pop(t)
    BY <2>1, <2>2, <2>8 DEF Pop, Roles
  <2>9. CASE TryPop(t)
    <3>1. pc[t] = "try" /\ pc' = [pc EXCEPT ![t] = "done"]
      BY <2>9 DEF TryPop
    <3>2. t = p
      BY <2>1, <2>2, <3>1, OnePoller DEF Roles
    <3>3. QED
      BY <2>2, <2>3, <3>1, <3>2
  <2>10. QED
    BY <1>2, <2>5, <2>6, <2>7, <2>8, <2>9 DEF Work
<1>3. QED
  BY <1>1, <1>2 DEF Next

\* With one consumer that polls, what empty() has seen is still there for
\* try_pop, however many threads push (server.cpp:341-343).
THEOREM DrainAlwaysFinds == Spec => []DrainFinds
<1>1. Init => DrainInv
  BY DEF Init, DrainInv, Roles, DrainFinds, Threads
<1>2. DrainInv => DrainFinds
  BY DEF DrainInv
<1> QED
  BY <1>1, <1>2, InitOK, StepOK, DrainKept, PTL DEF Spec

=============================================================================
