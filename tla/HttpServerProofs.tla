-------------------------- MODULE HttpServerProofs --------------------------
(***************************************************************************)
(* Proofs about HttpServer for every value of its constants.               *)
(***************************************************************************)
EXTENDS HttpServer, SequenceTheorems, TLAPS

(***************************************************************************)
(* The inductive invariant.  SlotOK says, of one slot, what the properties *)
(* say of all of them, and what makes that inductive: exactly the muted    *)
(* connections wait for a task, one that was allocated for them; a         *)
(* connection that is not registered for EPOLLOUT has no output; and one   *)
(* that is read from has nothing left of the request before.               *)
(***************************************************************************)
NothingLeft(r) ==
    ~r.headerAccept =>
        ~r.bodyExists /\ ~r.bodyAccept /\ ~r.fullURI /\ ~r.keepAlive

SlotOK(fd) ==
    /\ requests[fd] = Null <=> buffers[fd] = Null
    /\ requests[fd] = Null <=> interest[fd] = "closed"
    /\ \A p \in PtrTask : tasks[p] # Null /\ tasks[p].fd = fd =>
          (tasks[p].timePoint = aliveSockets[fd]
             <=> requests[fd] # Null /\ requests[fd].pending = p)
    /\ requests[fd] # Null =>
          /\ interest[fd] = "none" <=> requests[fd].pending # Null
          /\ interest[fd] = "none" =>
               /\ tasks[requests[fd].pending] # Null
               /\ tasks[requests[fd].pending].fd = fd
          /\ interest[fd] # "out" =>
               /\ buffers[fd].bytesToSend = 0 /\ buffers[fd].posOut = 0
               /\ ~requests[fd].closingConnect
               /\ buffers[fd].content = "none"
          /\ interest[fd] = "in" => NothingLeft(requests[fd])
          /\ buffers[fd].content = "mixed" => requests[fd].closingConnect
          /\ buffers[fd].content # "mixed" =>
               buffers[fd].posOut + buffers[fd].bytesToSend <= MaxOutputBufferLength

\* Only descriptors with a slot are registered.
Registered == \A fd \in Descriptors : interest[fd] # "closed" => fd \in Slots

\* Events exist only while they are handled, one per descriptor, each for a
\* connection that is registered for it.
EventsOK ==
    /\ batch # {} => phase = "events"
    /\ \A e, f \in batch : e.fd = f.fd => e = f
    /\ \A e \in batch : /\ e.fd \in Slots /\ requests[e.fd] # Null
                       /\ e.kind \in {"hangup", interest[e.fd]}

ConnType ==
    /\ interest \in [Descriptors -> {"closed", "in", "none", "out"}]
    /\ buffers \in [Slots -> Buffer \cup {Null}]
    /\ requests \in [Slots -> Request \cup {Null}]
    /\ aliveSockets \in [Slots -> TimePoint]
    /\ overdue \in [Slots -> BOOLEAN]
    /\ unprocessed \in Int

\* The part of the invariant about connections and their events.
ConnInv ==
    /\ ConnType
    /\ Registered
    /\ \A fd \in Slots : SlotOK(fd)
    /\ EventsOK

IInv == TypeOK /\ ConnInv /\ TaskHasOneOwner

-----------------------------------------------------------------------------
(* Single operations *)

LEMMA SlotsAreDescriptors == Slots \subseteq Descriptors
  BY ConstantsAssumption DEF Slots, Descriptors

\* A stamped slot gets a time point that no task for it holds.
LEMMA StampEffect ==
  ASSUME TypeOK, NEW fd \in Slots, Stamp(fd)
  PROVE  /\ aliveSockets' \in [Slots -> TimePoint]
         /\ overdue' \in [Slots -> BOOLEAN]
         /\ aliveSockets'[fd] \in FreshTimes(fd)
         /\ \A g \in Slots \ {fd} : aliveSockets'[g] = aliveSockets[g]
<1> DEFINE t == CHOOSE u \in FreshTimes(fd) : TRUE
<1>1. t \in FreshTimes(fd)
  BY DEF Stamp
<1>2. t \in TimePoint
  BY <1>1 DEF FreshTimes
<1>3. aliveSockets' = [aliveSockets EXCEPT ![fd] = t]
  BY DEF Stamp
<1>4. overdue' \in [Slots -> BOOLEAN]
  BY DEF Stamp, TypeOK
<1> QED
  BY <1>1, <1>2, <1>3, <1>4, Zenon DEF TypeOK

LEMMA CloseEffect ==
  ASSUME TypeOK, NEW fd \in Slots, CloseAllSocketsAndClearData(fd)
  PROVE  /\ ConnType'
         /\ interest'[fd] = "closed" /\ requests'[fd] = Null /\ buffers'[fd] = Null
         /\ aliveSockets'[fd] \in FreshTimes(fd)
         /\ \A d \in Descriptors \ {fd} : interest'[d] = interest[d]
         /\ \A g \in Slots \ {fd} :
              /\ requests'[g] = requests[g] /\ buffers'[g] = buffers[g]
              /\ aliveSockets'[g] = aliveSockets[g]
<1>1. Stamp(fd)
  BY DEF CloseAllSocketsAndClearData
<1>2. fd \in Descriptors
  BY SlotsAreDescriptors
<1> QED
  BY <1>1, <1>2, StampEffect, SlotsAreDescriptors
  DEF CloseAllSocketsAndClearData, ConnType, TypeOK

LEMMA FactoryTypes ==
  bufferFactory \in Buffer /\ requestFactory \in Request
BY DEF bufferFactory, requestFactory, Buffer, Request, Contents

LEMMA ClearEffect ==
  ASSUME NEW b \in Buffer
  PROVE  /\ BufferClear(b) \in Buffer
         /\ BufferClear(b).posOut = 0 /\ BufferClear(b).bytesToSend = 0
         /\ BufferClear(b).content = "none"
BY Zenon DEF BufferClear, Buffer, Contents

LEMMA AddDataEffect ==
  ASSUME NEW b \in Buffer, NEW n \in Nat, NEW what \in {"answer", "notice"}
  PROVE  /\ AddDataToOutputBuffer(b, n, what) \in Buffer
         /\ AddDataToOutputBuffer(b, n, what).posOut = b.posOut
         /\ AddDataToOutputBuffer(b, n, what).bytesToSend = b.bytesToSend + n
         /\ AddDataToOutputBuffer(b, n, what).content =
              IF b.bytesToSend = 0 THEN what ELSE "mixed"
<1> DEFINE k == IF b.bytesToSend = 0 THEN what ELSE "mixed"
           m == b.bytesToSend + n
<1>1. k \in Contents
  BY DEF Contents
<1>2. m \in Nat
  BY DEF Buffer
<1>3. AddDataToOutputBuffer(b, n, what) = [b EXCEPT !.bytesToSend = m, !.content = k]
  BY DEF AddDataToOutputBuffer, Buffer
<1> HIDE DEF k, m
<1>4. /\ AddDataToOutputBuffer(b, n, what) \in Buffer
      /\ AddDataToOutputBuffer(b, n, what).posOut = b.posOut
      /\ AddDataToOutputBuffer(b, n, what).bytesToSend = m
      /\ AddDataToOutputBuffer(b, n, what).content = k
  BY <1>1, <1>2, <1>3, Zenon DEF Buffer
<1> QED
  BY <1>4 DEF k, m

\* What writeToOutputBuffer leaves in the buffer.
LEMMA WrittenEffect ==
  ASSUME NEW b \in Buffer, NEW n \in Nat, NEW what \in {"answer", "notice"}
  PROVE  /\ Written(b, n, what) \in Buffer
         /\ Written(b, n, what).content = "mixed" <=> b.bytesToSend # 0
         /\ b.bytesToSend = 0 =>
              Written(b, n, what).posOut + Written(b, n, what).bytesToSend
                <= MaxOutputBufferLength
<1> DEFINE c == AddDataToOutputBuffer(BufferClear(b), TooLargeLength, "notice")
           d == AddDataToOutputBuffer(b, n, what)
           k == IF b.bytesToSend = 0 THEN "notice" ELSE "mixed"
<1>0. /\ TooLargeLength \in Nat /\ MaxOutputBufferLength \in Nat
      /\ TooLargeLength < MaxOutputBufferLength
  BY ConstantsAssumption
<1>1. c \in Buffer /\ c.posOut = 0 /\ c.bytesToSend = TooLargeLength
  <2>1. BufferClear(b) \in Buffer
    BY ClearEffect
  <2>2. /\ c \in Buffer /\ c.posOut = BufferClear(b).posOut
        /\ c.bytesToSend = BufferClear(b).bytesToSend + TooLargeLength
    BY <2>1, <1>0, AddDataEffect
  <2> HIDE DEF c
  <2> QED
    BY <2>2, <1>0, ClearEffect
<1>2. d \in Buffer /\ d.posOut = b.posOut /\ d.bytesToSend = b.bytesToSend + n
      /\ d.content = IF b.bytesToSend = 0 THEN what ELSE "mixed"
  BY AddDataEffect, Zenon
<1>3. CASE b.posOut + n >= MaxOutputBufferLength
  <2>1. Written(b, n, what) = [c EXCEPT !.content = k]
    BY <1>3 DEF Written
  <2>2. k \in Contents
    BY DEF Contents
  <2> HIDE DEF c, k
  <2>3. /\ [c EXCEPT !.content = k] \in Buffer
        /\ [c EXCEPT !.content = k].content = k
        /\ [c EXCEPT !.content = k].posOut = 0
        /\ [c EXCEPT !.content = k].bytesToSend = TooLargeLength
    BY <1>1, <2>2 DEF Buffer
  <2> QED
    BY <1>0, <2>1, <2>3 DEF k
<1>4. CASE ~(b.posOut + n >= MaxOutputBufferLength)
  <2>1. Written(b, n, what) = d
    BY <1>4 DEF Written
  <2>2. b.posOut \in Nat /\ b.bytesToSend \in Nat
    BY DEF Buffer
  <2> HIDE DEF d
  <2> QED
    BY <1>0, <1>2, <1>4, <2>1, <2>2
<1> QED
  BY <1>3, <1>4

-----------------------------------------------------------------------------
(* Steps that touch one slot *)

\* The step leaves every slot but fd alone.
OnlySlot(fd) ==
    /\ \A d \in Descriptors \ {fd} : interest'[d] = interest[d]
    /\ \A g \in Slots \ {fd} : /\ requests'[g] = requests[g]
                              /\ buffers'[g] = buffers[g]
                              /\ aliveSockets'[g] = aliveSockets[g]

\* The step neither adds, removes nor changes a task for a slot other than fd.
OnlyTasksOf(fd) ==
    \A p \in PtrTask :
        /\ tasks'[p] # Null /\ tasks'[p].fd # fd => tasks[p] # Null
        /\ tasks[p] # Null /\ tasks[p].fd # fd => tasks'[p] # Null
        /\ tasks'[p] # Null /\ tasks[p] # Null =>
             /\ tasks'[p].fd = tasks[p].fd
             /\ tasks'[p].timePoint = tasks[p].timePoint

\* No event of fd is left to be handled.
NoEventLeft(fd) ==
    /\ \A e \in batch' : e \in batch /\ e.fd # fd
    /\ batch' # {} => phase' = "events"

LEMMA OneSlot ==
  ASSUME ConnInv, NEW fd \in Slots, ConnType',
         OnlySlot(fd), OnlyTasksOf(fd), NoEventLeft(fd),
         SlotOK(fd)'
  PROVE  ConnInv'
<1>1. Registered'
  BY DEF ConnInv, Registered, OnlySlot
<1>2. ASSUME NEW g \in Slots PROVE SlotOK(g)'
  <2>1. CASE g = fd
    BY <2>1, Zenon
  <2>2. CASE g # fd
    <3>1. SlotOK(g) /\ g \in Descriptors \ {fd} /\ g \in Slots \ {fd}
      BY <2>2, SlotsAreDescriptors DEF ConnInv
    <3>2. /\ interest'[g] = interest[g] /\ requests'[g] = requests[g]
          /\ buffers'[g] = buffers[g] /\ aliveSockets'[g] = aliveSockets[g]
      BY <3>1 DEF OnlySlot
    <3>3. requests[g] # Null => requests[g].pending \in PtrTask \cup {Null}
      BY DEF ConnInv, ConnType, Request
    <3> QED
      BY <2>2, <3>1, <3>2, <3>3 DEF SlotOK, OnlyTasksOf
  <2> QED
    BY <2>1, <2>2
<1>3. EventsOK'
  BY SlotsAreDescriptors DEF ConnInv, EventsOK, NoEventLeft, OnlySlot
<1> QED
  BY <1>1, <1>2, <1>3 DEF ConnInv

\* closeAllSocketsAndClearData keeps the invariant, whether or not a task for
\* the slot is deleted in the same step.
LEMMA CloseKeeps ==
  ASSUME TypeOK, ConnInv, NEW fd \in Slots, CloseAllSocketsAndClearData(fd),
         OnlyTasksOf(fd), NoEventLeft(fd),
         \A p \in PtrTask : tasks'[p] # Null => tasks[p] # Null
  PROVE  ConnInv'
<1>1. /\ ConnType' /\ OnlySlot(fd)
      /\ interest'[fd] = "closed" /\ requests'[fd] = Null /\ buffers'[fd] = Null
      /\ aliveSockets'[fd] \in FreshTimes(fd)
  BY CloseEffect DEF OnlySlot
<1>2. \A p \in PtrTask : tasks'[p] # Null /\ tasks'[p].fd = fd =>
         tasks'[p].timePoint # aliveSockets'[fd]
  BY <1>1 DEF FreshTimes, Allocated, OnlyTasksOf
<1>3. SlotOK(fd)'
  BY <1>1, <1>2 DEF SlotOK
<1> QED
  BY <1>1, <1>3, OneSlot

LEMMA WriteEffect ==
  ASSUME TypeOK, NEW fd \in Slots, NEW b \in Buffer, NEW r \in Request,
         NEW n \in Nat, NEW what \in {"answer", "notice"},
         WriteToOutputBuffer(fd, b, r, n, what)
  PROVE  /\ interest' \in [Descriptors -> {"closed", "in", "none", "out"}]
         /\ buffers' \in [Slots -> Buffer \cup {Null}]
         /\ requests' \in [Slots -> Request \cup {Null}]
         /\ unprocessed' \in Int
         /\ interest'[fd] = "out" /\ requests'[fd] = r
         /\ buffers'[fd] = Written(b, n, what)
         /\ \A d \in Descriptors \ {fd} : interest'[d] = interest[d]
         /\ \A g \in Slots \ {fd} :
              requests'[g] = requests[g] /\ buffers'[g] = buffers[g]
<1>1. Written(b, n, what) \in Buffer
  BY WrittenEffect
<1>2. fd \in Descriptors
  BY SlotsAreDescriptors
<1> QED
  BY <1>1, <1>2, SlotsAreDescriptors DEF WriteToOutputBuffer, TypeOK

\* writeToOutputBuffer keeps the invariant if afterwards no task passes the
\* test for the slot, and if output is only written over on a connection that
\* is being closed.
LEMMA WriteKeeps ==
  ASSUME TypeOK, ConnInv, NEW fd \in Slots, NEW b \in Buffer, NEW r \in Request,
         NEW n \in Nat, NEW what \in {"answer", "notice"},
         WriteToOutputBuffer(fd, b, r, n, what),
         aliveSockets' \in [Slots -> TimePoint], overdue' \in [Slots -> BOOLEAN],
         \A g \in Slots \ {fd} : aliveSockets'[g] = aliveSockets[g],
         \A p \in PtrTask : tasks'[p] # Null /\ tasks'[p].fd = fd =>
            tasks'[p].timePoint # aliveSockets'[fd],
         r.pending = Null, b.bytesToSend # 0 => r.closingConnect,
         OnlyTasksOf(fd), NoEventLeft(fd)
  PROVE  ConnInv'
<1>1. ConnType' /\ OnlySlot(fd)
  BY WriteEffect DEF ConnType, OnlySlot
<1>2. SlotOK(fd)'
  <2>1. /\ interest'[fd] = "out" /\ requests'[fd] = r
        /\ buffers'[fd] = Written(b, n, what)
    BY WriteEffect
  <2>2. r # Null /\ Written(b, n, what) # Null
    BY NullAssumption, WrittenEffect, Zenon
  <2>3. \A p \in PtrTask : p # Null
    BY ConstantsAssumption
  <2> QED
    BY <2>1, <2>2, <2>3, WrittenEffect, ZenonT(60) DEF SlotOK
<1> QED
  BY <1>1, <1>2, OneSlot

-----------------------------------------------------------------------------
(* Ownership of tasks *)

LEMMA PopEffect ==
  ASSUME NEW S, NEW q \in Seq(S), q # <<>>, NoRepeats(q)
  PROVE  /\ Head(q) \in S /\ Head(q) \in Members(q)
         /\ Tail(q) \in Seq(S) /\ NoRepeats(Tail(q))
         /\ Members(Tail(q)) = Members(q) \ {Head(q)}
<1>1. /\ Len(q) \in Nat /\ Len(q) > 0 /\ DOMAIN q = 1 .. Len(q) /\ Head(q) = q[1]
      /\ \A i \in DOMAIN q : q[i] \in S
  OBVIOUS
<1>2. /\ Tail(q) \in Seq(S) /\ DOMAIN Tail(q) = 1 .. Len(q) - 1
      /\ \A i \in 1 .. Len(q) - 1 : Tail(q)[i] = q[i + 1]
  BY <1>1
<1>3. NoRepeats(Tail(q))
  BY <1>1, <1>2 DEF NoRepeats
<1>4. ASSUME NEW x \in Members(Tail(q)) PROVE x \in Members(q) \ {Head(q)}
  <2>1. PICK i \in 1 .. Len(q) - 1 : x = q[i + 1]
    BY <1>2 DEF Members
  <2> QED
    BY <1>1, <2>1 DEF Members, NoRepeats
<1>5. ASSUME NEW x \in Members(q), x # Head(q) PROVE x \in Members(Tail(q))
  <2>1. PICK i \in 1 .. Len(q) : x = q[i] /\ i # 1
    BY <1>1, <1>5 DEF Members
  <2>2. i - 1 \in 1 .. Len(q) - 1 /\ q[i] = q[(i - 1) + 1]
    BY <1>1, <2>1
  <2> QED
    BY <1>2, <2>1, <2>2, Zenon DEF Members
<1>6. Head(q) \in Members(q)
  BY <1>1 DEF Members
<1> QED
  BY <1>1, <1>2, <1>3, <1>4, <1>5, <1>6

LEMMA PushEffect ==
  ASSUME NEW S, NEW q \in Seq(S), NoRepeats(q), NEW x \in S, x \notin Members(q)
  PROVE  /\ Append(q, x) \in Seq(S) /\ NoRepeats(Append(q, x))
         /\ Members(Append(q, x)) = Members(q) \cup {x}
<1>1. /\ Len(q) \in Nat /\ DOMAIN q = 1 .. Len(q)
      /\ Append(q, x) \in Seq(S) /\ DOMAIN Append(q, x) = 1 .. Len(q) + 1
      /\ \A i \in 1 .. Len(q) : Append(q, x)[i] = q[i]
      /\ Append(q, x)[Len(q) + 1] = x
  OBVIOUS
<1>2. \A i \in 1 .. Len(q) : q[i] # x
  BY <1>1 DEF Members
<1>3. NoRepeats(Append(q, x))
  BY <1>1, <1>2 DEF NoRepeats
<1>4. ASSUME NEW y \in Members(Append(q, x)) PROVE y \in Members(q) \cup {x}
  BY <1>1 DEF Members
<1>5. ASSUME NEW y \in Members(q) \cup {x} PROVE y \in Members(Append(q, x))
  <2>1. CASE y = x
    BY <1>1, <2>1 DEF Members
  <2>2. CASE y \in Members(q)
    <3>1. PICK i \in 1 .. Len(q) : y = q[i]
      BY <1>1, <2>2 DEF Members
    <3> QED
      BY <1>1, <3>1 DEF Members
  <2> QED
    BY <2>1, <2>2
<1> QED
  BY <1>1, <1>3, <1>4, <1>5

\* The types of the task variables.
TaskType ==
    /\ tasks \in [PtrTask -> Task \cup {Null}]
    /\ tasksQueue \in Seq(PtrTask)
    /\ staticTasksQueue \in Seq(PtrTask)
    /\ performedTasksQueue \in Seq(PtrTask)
    /\ worker \in [Workers -> PtrTask \cup {Null}]

\* A worker takes the head of its queue.
LEMMA TakeKeepsOwners ==
  ASSUME TaskType, TaskHasOneOwner, NEW w \in Workers, TakeTask(w)
  PROVE  TaskType' /\ TaskHasOneOwner'
<1>0. Allocated' = Allocated /\ Null \notin PtrTask
  BY ConstantsAssumption DEF TakeTask, Allocated
<1>1. CASE w # 0
  <2> DEFINE p == Head(tasksQueue)
  <2>1. /\ tasksQueue # <<>> /\ tasksQueue' = Tail(tasksQueue)
        /\ worker' = [worker EXCEPT ![w] = p]
        /\ worker[w] = Null
        /\ UNCHANGED <<tasks, staticTasksQueue, performedTasksQueue>>
    BY <1>1 DEF TakeTask
  <2>2. /\ p \in PtrTask /\ p \in Members(tasksQueue)
        /\ tasksQueue' \in Seq(PtrTask) /\ NoRepeats(tasksQueue')
        /\ Members(tasksQueue') = Members(tasksQueue) \ {p}
    BY <2>1, PopEffect DEF TaskType, TaskHasOneOwner
  <2>3. Busy' = Busy \cup {p}
    BY <2>1, <2>2, <1>0 DEF Busy, TaskType
  <2>4. p \notin Busy
    BY <2>2 DEF TaskHasOneOwner
  <2>5. \A v \in Workers : worker[v] # p
    BY <2>2, <2>4, <1>0 DEF Busy
  <2> HIDE DEF p
  <2> QED
    BY <1>0, <2>1, <2>2, <2>3, <2>4, <2>5 DEF TaskType, TaskHasOneOwner
<1>2. CASE w = 0
  <2> DEFINE p == Head(staticTasksQueue)
  <2>1. /\ staticTasksQueue # <<>> /\ staticTasksQueue' = Tail(staticTasksQueue)
        /\ worker' = [worker EXCEPT ![w] = p]
        /\ worker[w] = Null
        /\ UNCHANGED <<tasks, tasksQueue, performedTasksQueue>>
    BY <1>2 DEF TakeTask
  <2>2. /\ p \in PtrTask /\ p \in Members(staticTasksQueue)
        /\ staticTasksQueue' \in Seq(PtrTask) /\ NoRepeats(staticTasksQueue')
        /\ Members(staticTasksQueue') = Members(staticTasksQueue) \ {p}
    BY <2>1, PopEffect DEF TaskType, TaskHasOneOwner
  <2>3. Busy' = Busy \cup {p}
    BY <2>1, <2>2, <1>0 DEF Busy, TaskType
  <2>4. p \notin Busy
    BY <2>2 DEF TaskHasOneOwner
  <2>5. \A v \in Workers : worker[v] # p
    BY <2>2, <2>4, <1>0 DEF Busy
  <2> HIDE DEF p
  <2> QED
    BY <1>0, <2>1, <2>2, <2>3, <2>4, <2>5 DEF TaskType, TaskHasOneOwner
<1> QED
  BY <1>1, <1>2

\* A worker hands its task over to the performed tasks.
LEMMA FinishKeepsOwners ==
  ASSUME TaskType, TaskHasOneOwner, NEW w \in Workers, FinishTask(w)
  PROVE  /\ TaskType' /\ TaskHasOneOwner'
         /\ \A q \in PtrTask :
              /\ tasks'[q] # Null <=> tasks[q] # Null
              /\ tasks[q] # Null => /\ tasks'[q].fd = tasks[q].fd
                                    /\ tasks'[q].timePoint = tasks[q].timePoint
<1> DEFINE p == worker[w]
<1>0. Null \notin PtrTask /\ Null \notin Task /\ ResponseLengths \subseteq Nat
  BY ConstantsAssumption, NullAssumption
<1>1. /\ performedTasksQueue' = Append(performedTasksQueue, p)
      /\ worker' = [worker EXCEPT ![w] = Null]
      /\ UNCHANGED <<tasksQueue, staticTasksQueue>>
  BY DEF FinishTask
<1>2. p \in PtrTask /\ p \in Busy
  BY DEF FinishTask, Busy, TaskType
<1>3. p \in Allocated /\ tasks[p] \in Task
  BY <1>2 DEF TaskHasOneOwner, Allocated, TaskType
<1>4. PICK n \in ResponseLengths : tasks' = [tasks EXCEPT ![p].responseLength = n]
  BY Zenon DEF FinishTask
<1>5. /\ tasks'[p] = [tasks[p] EXCEPT !.responseLength = n]
      /\ \A q \in PtrTask \ {p} : tasks'[q] = tasks[q]
  BY <1>2, <1>4 DEF TaskType
<1>6. /\ tasks'[p] \in Task /\ tasks'[p].fd = tasks[p].fd
      /\ tasks'[p].timePoint = tasks[p].timePoint
  BY <1>0, <1>3, <1>5 DEF Task
<1>7. tasks' \in [PtrTask -> Task \cup {Null}]
  BY <1>4, <1>5, <1>6, Zenon DEF TaskType
<1>8. Allocated' = Allocated
  BY <1>0, <1>3, <1>5, <1>6 DEF Allocated
<1>9. /\ performedTasksQueue' \in Seq(PtrTask) /\ NoRepeats(performedTasksQueue')
      /\ Members(performedTasksQueue') = Members(performedTasksQueue) \cup {p}
  <2>1. p \notin Members(performedTasksQueue)
    BY <1>2 DEF TaskHasOneOwner
  <2> QED
    BY <1>1, <1>2, <2>1, PushEffect DEF TaskType, TaskHasOneOwner
<1>10. Busy' = Busy \ {p}
  BY <1>1, <1>2 DEF Busy, TaskType, TaskHasOneOwner
<1>11. TaskType'
  BY <1>1, <1>7, <1>9 DEF TaskType
<1>12. \A u, v \in Workers : worker'[u] = worker'[v] /\ worker'[u] # Null => u = v
  BY <1>1 DEF TaskType, TaskHasOneOwner
<1>13. TaskHasOneOwner'
  <2> HIDE DEF p
  <2> QED
    BY <1>1, <1>2, <1>8, <1>9, <1>10, <1>12 DEF TaskHasOneOwner
<1>14. \A q \in PtrTask :
         /\ tasks'[q] # Null <=> tasks[q] # Null
         /\ tasks[q] # Null => /\ tasks'[q].fd = tasks[q].fd
                               /\ tasks'[q].timePoint = tasks[q].timePoint
  BY <1>0, <1>3, <1>5, <1>6, Zenon DEF Allocated
<1> QED
  BY <1>11, <1>13, <1>14

\* A new task goes to the end of one of the two queues of the workers.
LEMMA AllocateKeepsOwners ==
  ASSUME TaskType, TaskHasOneOwner, NEW p \in PtrTask \ Allocated, NEW t \in Task,
         tasks' = [tasks EXCEPT ![p] = t],
         UNCHANGED <<performedTasksQueue, worker>>,
         \/ /\ tasksQueue' = Append(tasksQueue, p)
            /\ UNCHANGED staticTasksQueue
         \/ /\ staticTasksQueue' = Append(staticTasksQueue, p)
            /\ UNCHANGED tasksQueue
  PROVE  TaskType' /\ TaskHasOneOwner'
<1>0. t # Null
  BY NullAssumption
<1>1. tasks' \in [PtrTask -> Task \cup {Null}]
  BY DEF TaskType
<1>2. Allocated' = Allocated \cup {p}
  BY <1>0 DEF Allocated, TaskType
<1>3. Busy' = Busy
  BY DEF Busy
<1>4. /\ p \notin Members(tasksQueue) /\ p \notin Members(staticTasksQueue)
      /\ p \notin Members(performedTasksQueue) /\ p \notin Busy
  BY DEF TaskHasOneOwner
<1>5. CASE tasksQueue' = Append(tasksQueue, p) /\ UNCHANGED staticTasksQueue
  <2>1. /\ tasksQueue' \in Seq(PtrTask) /\ NoRepeats(tasksQueue')
        /\ Members(tasksQueue') = Members(tasksQueue) \cup {p}
    BY <1>4, <1>5, PushEffect DEF TaskType, TaskHasOneOwner
  <2> QED
    BY <1>1, <1>2, <1>3, <1>4, <1>5, <2>1 DEF TaskType, TaskHasOneOwner
<1>6. CASE staticTasksQueue' = Append(staticTasksQueue, p) /\ UNCHANGED tasksQueue
  <2>1. /\ staticTasksQueue' \in Seq(PtrTask) /\ NoRepeats(staticTasksQueue')
        /\ Members(staticTasksQueue') = Members(staticTasksQueue) \cup {p}
    BY <1>4, <1>6, PushEffect DEF TaskType, TaskHasOneOwner
  <2> QED
    BY <1>1, <1>2, <1>3, <1>4, <1>6, <2>1 DEF TaskType, TaskHasOneOwner
<1> QED
  BY <1>5, <1>6

\* The loop takes a performed task and deletes it.
LEMMA DrainKeepsOwners ==
  ASSUME TaskType, TaskHasOneOwner, DrainPerformed
  PROVE  /\ TaskType' /\ TaskHasOneOwner'
         /\ Head(performedTasksQueue) \in Allocated
         /\ tasks' = [tasks EXCEPT ![Head(performedTasksQueue)] = Null]
<1> DEFINE p == Head(performedTasksQueue)
<1>1. /\ performedTasksQueue # <<>>
      /\ performedTasksQueue' = Tail(performedTasksQueue)
      /\ tasks' = [tasks EXCEPT ![p] = Null]
      /\ UNCHANGED <<tasksQueue, staticTasksQueue, worker>>
  BY DEF DrainPerformed, DeleteTask
<1>2. /\ p \in PtrTask /\ p \in Members(performedTasksQueue)
      /\ performedTasksQueue' \in Seq(PtrTask) /\ NoRepeats(performedTasksQueue')
      /\ Members(performedTasksQueue') = Members(performedTasksQueue) \ {p}
  BY <1>1, PopEffect DEF TaskType, TaskHasOneOwner
<1>3. p \in Allocated
  BY <1>2 DEF TaskHasOneOwner
<1>4. Allocated' = Allocated \ {p} /\ tasks' \in [PtrTask -> Task \cup {Null}]
  BY <1>1, <1>2 DEF Allocated, TaskType
<1>5. Busy' = Busy
  BY <1>1 DEF Busy
<1>6. TaskType'
  BY <1>1, <1>2, <1>4 DEF TaskType
<1> HIDE DEF p
<1>7. TaskHasOneOwner'
  BY <1>1, <1>2, <1>4, <1>5, ZenonT(60) DEF TaskHasOneOwner
<1> QED
  BY <1>1, <1>3, <1>6, <1>7 DEF p

-----------------------------------------------------------------------------
(* The actions *)

\* The types of the loop's own variables.
LoopType ==
    /\ phase \in {"scan", "drain", "wait", "events"}
    /\ slot \in Nat /\ counter \in Slots
    /\ incoming \in BOOLEAN
    /\ batch \subseteq Event
    /\ allocFailures \in 0 .. MaxAllocFailures
    /\ running \in BOOLEAN

LEMMA TypeParts == TypeOK <=> ConnType /\ TaskType /\ LoopType
  BY DEF TypeOK, ConnType, TaskType, LoopType

LEMMA TypePartsNext == TypeOK' <=> ConnType' /\ TaskType' /\ LoopType'
  BY Zenon DEF TypeOK, ConnType, TaskType, LoopType

LEMMA TasksUntouched ==
  ASSUME UNCHANGED taskVars
  PROVE  /\ TaskType => TaskType'
         /\ TaskHasOneOwner => TaskHasOneOwner'
         /\ tasks' = tasks /\ \A fd : OnlyTasksOf(fd)
  BY DEF taskVars, TaskType, TaskHasOneOwner, Allocated, Busy, OnlyTasksOf

\* A step that changes no connection, and deletes at most tasks that no
\* connection waits for.
LEMMA ConnKept ==
  ASSUME ConnInv, UNCHANGED <<interest, buffers, requests, aliveSockets, unprocessed>>,
         overdue' \in [Slots -> BOOLEAN],
         \A p \in PtrTask : tasks'[p] # Null =>
            /\ tasks[p] # Null
            /\ tasks'[p].fd = tasks[p].fd /\ tasks'[p].timePoint = tasks[p].timePoint,
         \A p \in PtrTask : tasks[p] # Null /\ tasks'[p] = Null =>
            tasks[p].timePoint # aliveSockets[tasks[p].fd],
         batch' \subseteq batch, batch' # {} => phase' = "events"
  PROVE  ConnInv'
<1>1. ConnType' /\ Registered'
  BY ZenonT(60) DEF ConnInv, ConnType, Registered
<1>2. ASSUME NEW fd \in Slots PROVE SlotOK(fd)'
  <2>1. SlotOK(fd)
    BY DEF ConnInv
  <2>2. requests[fd] # Null => requests[fd].pending \in PtrTask \cup {Null}
    BY DEF ConnInv, ConnType, Request
  <2> QED
    BY <2>1, <2>2 DEF SlotOK
<1>3. EventsOK'
  BY Zenon DEF ConnInv, EventsOK
<1> QED
  BY <1>1, <1>2, <1>3, Zenon DEF ConnInv

\* What a handler may rely on.
LEMMA HandlingEffect ==
  ASSUME TypeOK, ConnInv, NEW e, Handling(e)
  PROVE  /\ e.fd \in Slots /\ e.fd \in Descriptors /\ SlotOK(e.fd)
         /\ requests[e.fd] \in Request /\ requests[e.fd] # Null
         /\ buffers[e.fd] \in Buffer /\ buffers[e.fd] # Null
         /\ e.kind \in {"hangup", interest[e.fd]}
         /\ NoEventLeft(e.fd) /\ batch' \subseteq batch
         /\ running' \in BOOLEAN => LoopType'
<1>1. /\ e \in batch /\ phase = "events" /\ phase' = phase /\ batch' = batch \ {e}
      /\ UNCHANGED <<slot, counter, incoming, allocFailures>>
  BY Zenon DEF Handling, scanVars
<1>2. /\ e.fd \in Slots /\ requests[e.fd] # Null
      /\ e.kind \in {"hangup", interest[e.fd]}
      /\ \A f \in batch : e.fd = f.fd => e = f
  BY <1>1, ZenonT(60) DEF ConnInv, EventsOK
<1>3. SlotOK(e.fd) /\ buffers[e.fd] # Null
  BY <1>2 DEF ConnInv, SlotOK
<1>4. requests[e.fd] \in Request /\ buffers[e.fd] \in Buffer
  BY <1>2, <1>3 DEF ConnInv, ConnType
<1>5. NoEventLeft(e.fd)
  BY <1>1, <1>2 DEF NoEventLeft
<1>6. running' \in BOOLEAN => LoopType'
  BY <1>1, TypeParts DEF LoopType
<1> QED
  BY <1>1, <1>2, <1>3, <1>4, <1>5, <1>6, SlotsAreDescriptors, Zenon

\* A handler that closes its connection and touches no task.
LEMMA HandlerCloses ==
  ASSUME IInv, NEW e, Handling(e), CloseAllSocketsAndClearData(e.fd),
         UNCHANGED taskVars, running' \in BOOLEAN
  PROVE  IInv'
<1>1. TypeOK /\ ConnInv /\ TaskHasOneOwner
  BY DEF IInv
<1>2. e.fd \in Slots /\ NoEventLeft(e.fd) /\ LoopType'
  BY <1>1, HandlingEffect
<1>3. ConnInv'
  BY <1>1, <1>2, CloseKeeps, TasksUntouched
<1>4. TypeOK'
  BY <1>1, <1>2, <1>3, TypeParts, TypePartsNext, TasksUntouched DEF ConnInv
<1> QED
  BY <1>1, <1>3, <1>4, TasksUntouched DEF IInv

\* A handler that changes no connection and no task.
LEMMA HandlerIdles ==
  ASSUME IInv, NEW e, Handling(e), UNCHANGED connVars, UNCHANGED taskVars,
         running' \in BOOLEAN
  PROVE  IInv'
<1>1. TypeOK /\ ConnInv /\ TaskHasOneOwner
  BY DEF IInv
<1>2. LoopType' /\ batch' \subseteq batch /\ NoEventLeft(e.fd)
  BY <1>1, HandlingEffect, ZenonT(60)
<1>3. ConnInv'
  BY <1>1, <1>2, ConnKept, TasksUntouched DEF connVars, TypeOK, NoEventLeft
<1>4. TypeOK'
  BY <1>1, <1>2, <1>3, TypeParts, TypePartsNext, TasksUntouched DEF ConnInv
<1> QED
  BY <1>1, <1>3, <1>4, TasksUntouched DEF IInv

LEMMA InitOK == Init => IInv
<1> SUFFICES ASSUME Init PROVE IInv
  OBVIOUS
<1>1. TypeOK
  <2>1. (CHOOSE t \in TimePoint : TRUE) \in TimePoint
    BY ConstantsAssumption
  <2>2. 0 \in Slots /\ 0 \in 0 .. MaxAllocFailures
    BY ConstantsAssumption DEF Slots
  <2>3. ConnType
    BY <2>1 DEF Init, ConnType
  <2>4. TaskType
    BY EmptySeq DEF Init, TaskType
  <2>5. LoopType
    BY <2>2 DEF Init, LoopType
  <2> QED
    BY <2>3, <2>4, <2>5, TypeParts
<1>2. ConnInv
  <2>1. ConnType
    BY <1>1, TypeParts
  <2>2. Registered /\ EventsOK
    BY DEF Init, Registered, EventsOK
  <2>3. \A fd \in Slots : SlotOK(fd)
    BY SlotsAreDescriptors DEF Init, SlotOK
  <2> QED
    BY <2>1, <2>2, <2>3 DEF ConnInv
<1>3. TaskHasOneOwner
  <2>1. Allocated = {} /\ Busy = {}
    BY DEF Init, Allocated, Busy
  <2>2. Members(<<>>) = {} /\ NoRepeats(<<>>)
    BY DEF Members, NoRepeats
  <2>3. \A v, w \in Workers : worker[v] = worker[w] /\ worker[v] # Null => v = w
    BY Zenon DEF Init
  <2> QED
    BY <2>1, <2>2, <2>3 DEF Init, TaskHasOneOwner
<1> QED
  BY <1>1, <1>2, <1>3 DEF IInv

\* A request for which 408 is written: its task, if any, no longer passes the
\* test, because the slot is stamped.
LEMMA RequestTimeoutKeeps ==
  ASSUME TypeOK, ConnInv, NEW fd \in Slots, requests[fd] # Null,
         RequestTimeout(fd), tasks' = tasks, NoEventLeft(fd)
  PROVE  ConnInv'
<1> DEFINE r == TimedOut(requests[fd])
<1>1. requests[fd] \in Request /\ buffers[fd] \in Buffer
  BY DEF ConnInv, ConnType, SlotOK
<1>2. r \in Request /\ r.pending = Null /\ r.closingConnect
  BY <1>1, ZenonT(60) DEF TimedOut, Request
<1>3. /\ WriteToOutputBuffer(fd, buffers[fd], r, NoticeLength, "notice")
      /\ Stamp(fd)
  BY DEF RequestTimeout
<1>4. NoticeLength \in Nat
  BY ConstantsAssumption, Zenon
<1>5. /\ aliveSockets' \in [Slots -> TimePoint] /\ overdue' \in [Slots -> BOOLEAN]
      /\ aliveSockets'[fd] \in FreshTimes(fd)
      /\ \A g \in Slots \ {fd} : aliveSockets'[g] = aliveSockets[g]
  BY <1>3, StampEffect, Zenon
<1>6. \A p \in PtrTask : tasks'[p] # Null /\ tasks'[p].fd = fd =>
         tasks'[p].timePoint # aliveSockets'[fd]
  BY <1>5, Zenon DEF FreshTimes, Allocated
<1>7. OnlyTasksOf(fd)
  BY DEF OnlyTasksOf
<1> HIDE DEF r
<1> QED
  BY <1>1, <1>2, <1>3, <1>4, <1>5, <1>6, <1>7, WriteKeeps, ZenonT(60)

LEMMA CheckTimeLimitOK ==
  ASSUME IInv, CheckTimeLimit
  PROVE  IInv'
<1>1. TypeOK /\ ConnInv /\ TaskHasOneOwner
  BY Zenon DEF IInv
<1>2. slot \in Slots
  BY <1>1, ConstantsAssumption DEF CheckTimeLimit, InScan, Slots, TypeOK
<1>3. /\ UNCHANGED taskVars /\ tasks' = tasks /\ slot' = slot + 1
      /\ UNCHANGED <<phase, counter, incoming, batch, allocFailures>>
      /\ phase = "scan"
  BY TasksUntouched DEF CheckTimeLimit, InScan
<1>4. batch = {} /\ batch' = {}
  BY <1>1, <1>3 DEF ConnInv, EventsOK
<1>5. NoEventLeft(slot)
  BY <1>4 DEF NoEventLeft
<1>6. running' \in BOOLEAN => LoopType'
  BY <1>1, <1>3, TypeParts DEF LoopType
<1>7. CASE UNCHANGED <<connVars, running>>
  <2>1. ConnInv'
    BY <1>1, <1>3, <1>4, <1>7, ConnKept, Zenon DEF connVars, TypeOK
  <2>2. running' \in BOOLEAN
    BY <1>1, <1>7, Zenon DEF TypeOK
  <2> QED
    BY <1>1, <1>3, <1>6, <2>1, <2>2, TypeParts, TypePartsNext, TasksUntouched, Zenon
    DEF IInv, ConnInv
<1>8. CASE CloseAllSocketsAndClearData(slot) /\ running' \in {running, FALSE}
  <2>1. ConnInv'
    BY <1>1, <1>2, <1>3, <1>5, <1>8, CloseKeeps, TasksUntouched
  <2>2. running' \in BOOLEAN
    BY <1>1, <1>8, Zenon DEF TypeOK
  <2> QED
    BY <1>1, <1>3, <1>6, <2>1, <2>2, TypeParts, TypePartsNext, TasksUntouched
    DEF IInv, ConnInv
<1>9. CASE requests[slot] # Null /\ RequestTimeout(slot) /\ UNCHANGED running
  <2>1. ConnInv'
    BY <1>1, <1>2, <1>3, <1>5, <1>9, RequestTimeoutKeeps, Zenon
  <2>2. running' \in BOOLEAN
    BY <1>1, <1>9 DEF TypeOK
  <2> QED
    BY <1>1, <1>3, <1>6, <2>1, <2>2, TypeParts, TypePartsNext, TasksUntouched
    DEF IInv, ConnInv
<1> QED
  BY <1>7, <1>8, <1>9, Zenon DEF CheckTimeLimit, WriteFailsUnnoticed, ModifyFails

\* The steps from one phase of the loop to the next.
LEMMA PhaseStepsOK ==
  ASSUME IInv, EndScan \/ EndDrain \/ EndEvents
  PROVE  IInv'
<1>1. TypeOK /\ ConnInv /\ TaskHasOneOwner
  BY DEF IInv
<1>2. UNCHANGED <<connVars, taskVars, incoming, batch, envVars>>
  BY DEF EndScan, EndDrain, EndEvents
<1>3. batch = {}
  BY <1>1, Zenon DEF EndScan, EndDrain, EndEvents, ConnInv, EventsOK
<1>4. ConnInv'
  BY <1>1, <1>2, <1>3, ConnKept, TasksUntouched, Zenon DEF connVars, TypeOK
<1>5. phase' \in {"scan", "drain", "wait", "events"}
  BY DEF EndScan, EndDrain, EndEvents
<1>6. slot' \in Nat /\ counter' \in Slots
  <2>1. MaxConnection \in Nat \ {0} /\ ScanWidth \in Nat
    BY ConstantsAssumption
  <2>2. counter \in Nat /\ slot \in Nat /\ counter \in Slots
    BY <1>1 DEF TypeOK, Slots
  <2>3. (counter + ScanWidth) % MaxConnection \in 0 .. MaxConnection - 1
    BY <2>1, <2>2
  <2> QED
    BY <2>2, <2>3 DEF EndScan, EndDrain, EndEvents, Slots, scanVars
<1>7. LoopType'
  BY <1>1, <1>2, <1>5, <1>6, TypeParts, Zenon DEF LoopType, envVars
<1> QED
  BY <1>1, <1>2, <1>4, <1>7, TypeParts, TypePartsNext, TasksUntouched
  DEF IInv, ConnInv

LEMMA EpollWaitOK ==
  ASSUME IInv, EpollWait
  PROVE  IInv'
<1>1. TypeOK /\ ConnInv /\ TaskHasOneOwner
  BY DEF IInv
<1>2. /\ UNCHANGED <<connVars, taskVars, scanVars, envVars>>
      /\ phase' = "events" /\ batch' \subseteq ReadyEvents
      /\ \A e, f \in batch' : e.fd = f.fd => e = f
      /\ incoming' \in BOOLEAN
  BY DEF EpollWait
<1>3. /\ UNCHANGED <<interest, buffers, requests, aliveSockets, overdue, unprocessed>>
      /\ tasks' = tasks
  BY <1>2, TasksUntouched DEF connVars
<1>4. ConnType' /\ Registered' /\ \A fd \in Slots : SlotOK(fd)'
  BY <1>1, <1>3, ZenonT(60) DEF ConnInv, ConnType, Registered, SlotOK
<1>5. EventsOK'
  <2>1. ASSUME NEW e \in batch'
        PROVE  /\ e.fd \in Slots /\ requests[e.fd] # Null
               /\ e.kind \in {"hangup", interest[e.fd]}
    <3>1. /\ e \in Event /\ interest[e.fd] # "closed"
          /\ e.kind \in {"hangup", interest[e.fd]}
      BY <1>2 DEF ReadyEvents
    <3>2. e.fd \in Descriptors
      BY <3>1 DEF Event
    <3>3. e.fd \in Slots
      BY <1>1, <3>1, <3>2, Zenon DEF ConnInv, Registered
    <3> QED
      BY <1>1, <3>1, <3>3 DEF ConnInv, SlotOK
  <2> QED
    BY <1>2, <1>3, <2>1, Zenon DEF EventsOK
<1>6. LoopType'
  BY <1>1, <1>2, TypeParts, Zenon DEF LoopType, scanVars, envVars, ReadyEvents
<1> QED
  BY <1>1, <1>2, <1>4, <1>5, <1>6, TypeParts, TypePartsNext, TasksUntouched, Zenon
  DEF IInv, ConnInv

\* The drain.  The connection that waits for the task is the one the test
\* selects, it has nothing left to send, and no other task passes.
LEMMA DrainPerformedOK ==
  ASSUME IInv, DrainPerformed
  PROVE  IInv'
<1> DEFINE p  == Head(performedTasksQueue)
           fd == tasks[p].fd
<1>1. TypeOK /\ ConnInv /\ TaskHasOneOwner /\ TaskType
  BY TypeParts DEF IInv
<1>2. /\ TaskType' /\ TaskHasOneOwner' /\ p \in Allocated
      /\ tasks' = [tasks EXCEPT ![p] = Null]
  BY <1>1, DrainKeepsOwners
<1>3. /\ p \in PtrTask /\ tasks[p] # Null /\ tasks[p] \in Task /\ fd \in Slots
      /\ fd \in Descriptors /\ tasks[p].responseLength \in Nat
  BY <1>1, <1>2, SlotsAreDescriptors DEF Allocated, TaskType, Task
<1>4. /\ tasks'[p] = Null
      /\ \A q \in PtrTask \ {p} : tasks'[q] = tasks[q]
  BY <1>1, <1>2, <1>3 DEF TaskType
<1>5. OnlyTasksOf(fd)
  BY <1>3, <1>4 DEF OnlyTasksOf
<1>6. /\ phase = "drain" /\ batch = {} /\ batch' = {}
      /\ UNCHANGED <<phase, scanVars, incoming, batch, envVars>>
  BY <1>1 DEF DrainPerformed, ConnInv, EventsOK
<1>7. NoEventLeft(fd)
  BY <1>6 DEF NoEventLeft
<1>8. LoopType'
  BY <1>1, <1>6, TypeParts DEF LoopType, scanVars, envVars
<1>9. CASE ~StillAlive(p) /\ UNCHANGED connVars
  BY <1>1, <1>3, <1>4, <1>6, <1>9, <1>2, <1>8, ConnKept, TypePartsNext, ZenonT(60)
  DEF StillAlive, connVars, TypeOK, IInv, ConnInv
<1>10. CASE ModifyFails(fd)
  <2>1. ConnInv'
    BY <1>1, <1>3, <1>4, <1>5, <1>7, <1>10, CloseKeeps, Zenon DEF ModifyFails
  <2> QED
    BY <1>2, <1>8, <2>1, TypePartsNext DEF IInv, ConnInv
<1>11. CASE /\ StillAlive(p)
            /\ WriteToOutputBuffer(fd, buffers[fd],
                  [requests[fd] EXCEPT !.pending = Null],
                  tasks[p].responseLength, "answer")
            /\ UNCHANGED <<aliveSockets, overdue>>
  <2>1. SlotOK(fd)
    BY <1>1, <1>3 DEF ConnInv
  <2>2. /\ requests[fd] # Null /\ requests[fd].pending = p
    BY <1>3, <1>11, <2>1, Zenon DEF SlotOK, StillAlive
  <2>3. interest[fd] = "none" /\ buffers[fd] # Null /\ buffers[fd].bytesToSend = 0
    BY <1>3, <2>1, <2>2, ConstantsAssumption, Zenon DEF SlotOK
  <2>4. buffers[fd] \in Buffer /\ requests[fd] \in Request
    BY <1>1, <1>3, <2>2, <2>3, Zenon DEF ConnInv, ConnType
  <2> DEFINE r == [requests[fd] EXCEPT !.pending = Null]
  <2>5. r \in Request /\ r.pending = Null
    BY <2>4, ZenonT(60) DEF Request
  <2>6. \A q \in PtrTask : tasks'[q] # Null /\ tasks'[q].fd = fd =>
           tasks'[q].timePoint # aliveSockets'[fd]
    BY <1>4, <1>11, <2>1, <2>2, Zenon DEF SlotOK
  <2>7. /\ aliveSockets' \in [Slots -> TimePoint] /\ overdue' \in [Slots -> BOOLEAN]
        /\ \A g \in Slots \ {fd} : aliveSockets'[g] = aliveSockets[g]
    BY <1>1, <1>11 DEF TypeOK
  <2>8. WriteToOutputBuffer(fd, buffers[fd], r, tasks[p].responseLength, "answer")
    BY <1>11
  <2>9. tasks[p].responseLength \in Nat /\ fd \in Slots
    BY <1>3, Zenon
  <2> HIDE DEF r, fd, p
  <2>10. ConnInv'
    BY <1>1, <1>5, <1>7, <2>3, <2>4, <2>5, <2>6, <2>7, <2>8, <2>9, WriteKeeps, Zenon
  <2> QED
    BY <1>2, <1>8, <2>10, TypePartsNext DEF IInv, ConnInv
<1> QED
  BY <1>9, <1>10, <1>11 DEF DrainPerformed

\* An empty output buffer is within its limit.
LEMMA EmptyOutput ==
  ASSUME NEW b, b.posOut = 0, b.bytesToSend = 0
  PROVE  b.posOut + b.bytesToSend <= MaxOutputBufferLength
<1>1. 0 + 0 <= MaxOutputBufferLength
  BY ConstantsAssumption
<1> QED
  BY <1>1, Zenon

\* A slot that is filled again is stamped, so that the tasks of the
\* connection before are not taken for tasks of the new one.
LEMMA FreshSlotKeeps ==
  ASSUME TypeOK, ConnInv, NEW fd \in Slots, ConnType', OnlySlot(fd),
         aliveSockets'[fd] \in FreshTimes(fd), tasks' = tasks, NoEventLeft(fd),
         \/ /\ interest'[fd] = "closed"
            /\ requests'[fd] = Null /\ buffers'[fd] = Null
         \/ /\ interest'[fd] = "in"
            /\ requests'[fd] # Null /\ buffers'[fd] # Null
            /\ requests'[fd].pending = Null /\ ~requests'[fd].closingConnect
            /\ NothingLeft(requests'[fd])
            /\ buffers'[fd].bytesToSend = 0 /\ buffers'[fd].posOut = 0
            /\ buffers'[fd].content = "none"
  PROVE  ConnInv'
<1>1. \A p \in PtrTask : tasks'[p] # Null /\ tasks'[p].fd = fd =>
         tasks'[p].timePoint # aliveSockets'[fd]
  BY Zenon DEF FreshTimes, Allocated
<1>2. \A p \in PtrTask : p # Null
  BY ConstantsAssumption, Zenon
<1>3. buffers'[fd].posOut = 0 /\ buffers'[fd].bytesToSend = 0 =>
        buffers'[fd].posOut + buffers'[fd].bytesToSend <= MaxOutputBufferLength
  BY EmptyOutput, Zenon
<1>4. SlotOK(fd)'
  BY <1>1, <1>2, <1>3, Zenon DEF SlotOK
<1>5. OnlyTasksOf(fd)
  BY DEF OnlyTasksOf
<1> QED
  BY <1>4, <1>5, OneSlot, Zenon

LEMMA AcceptOK ==
  ASSUME IInv, Accept
  PROVE  IInv'
<1>1. TypeOK /\ ConnInv /\ TaskHasOneOwner
  BY DEF IInv
<1>2. /\ UNCHANGED taskVars /\ UNCHANGED <<phase, slot, counter, batch, running>>
      /\ incoming' = FALSE /\ phase = "events" /\ tasks' = tasks
  BY TasksUntouched DEF Accept, AcceptRefused, AcceptConnection,
     AcceptWithoutMemory, Accepting, scanVars
<1>3. allocFailures' \in 0 .. MaxAllocFailures => LoopType'
  BY <1>1, <1>2, TypeParts, Zenon DEF LoopType
<1>4. CASE AcceptRefused
  <2>1. UNCHANGED connVars /\ UNCHANGED allocFailures
    BY <1>4, Zenon DEF AcceptRefused
  <2>2. ConnInv'
    BY <1>1, <1>2, <2>1, ConnKept, Zenon DEF connVars, TypeOK
  <2>3. allocFailures' \in 0 .. MaxAllocFailures
    BY <1>1, <2>1 DEF TypeOK
  <2> QED
    BY <1>1, <1>2, <1>3, <2>2, <2>3, TypeParts, TypePartsNext, TasksUntouched
    DEF IInv, ConnInv
<1>5. ASSUME NEW fd \in Descriptors, interest[fd] = "closed", fd <= MaxConnection - 1
      PROVE  fd \in Slots /\ requests[fd] = Null /\ buffers[fd] = Null /\ NoEventLeft(fd)
  <2>1. fd \in Slots
    BY <1>5, ConstantsAssumption DEF Slots, Descriptors
  <2>2. requests[fd] = Null /\ buffers[fd] = Null
    BY <1>1, <1>5, <2>1, Zenon DEF ConnInv, SlotOK
  <2>3. NoEventLeft(fd)
    BY <1>1, <1>2, <2>2, Zenon DEF NoEventLeft, ConnInv, EventsOK
  <2> QED
    BY <2>1, <2>2, <2>3
<1>6. ASSUME NEW fd \in Descriptors, AcceptConnection(fd) PROVE IInv'
  <2>1. /\ interest' = [interest EXCEPT ![fd] = "in"] /\ unprocessed' = unprocessed + 1
        /\ buffers' = [buffers EXCEPT ![fd] = bufferFactory]
        /\ requests' = [requests EXCEPT ![fd] = requestFactory]
        /\ Stamp(fd) /\ UNCHANGED allocFailures
        /\ interest[fd] = "closed" /\ fd <= MaxConnection - 1
    BY <1>6 DEF AcceptConnection
  <2>2. fd \in Slots /\ NoEventLeft(fd)
    BY <1>5, <2>1
  <2>3. /\ aliveSockets' \in [Slots -> TimePoint] /\ overdue' \in [Slots -> BOOLEAN]
        /\ aliveSockets'[fd] \in FreshTimes(fd)
        /\ \A g \in Slots \ {fd} : aliveSockets'[g] = aliveSockets[g]
    BY <1>1, <2>1, <2>2, StampEffect, Zenon
  <2>4. ConnType' /\ OnlySlot(fd)
    <3>1. /\ interest' \in [Descriptors -> {"closed", "in", "none", "out"}]
          /\ unprocessed' \in Int
      BY <1>1, <2>1 DEF TypeOK
    <3>2. /\ buffers' \in [Slots -> Buffer \cup {Null}]
          /\ requests' \in [Slots -> Request \cup {Null}]
      BY <1>1, <2>1, FactoryTypes, Zenon DEF TypeOK
    <3>3. OnlySlot(fd)
      BY <1>1, <2>1, <2>3, Zenon DEF OnlySlot, TypeOK
    <3> QED
      BY <2>3, <3>1, <3>2, <3>3, Zenon DEF ConnType
  <2>5. /\ interest'[fd] = "in" /\ requests'[fd] = requestFactory
        /\ buffers'[fd] = bufferFactory
    BY <1>1, <2>1, <2>2, Zenon DEF TypeOK
  <2>6. /\ requests'[fd] # Null /\ buffers'[fd] # Null
        /\ requests'[fd].pending = Null /\ ~requests'[fd].closingConnect
        /\ NothingLeft(requests'[fd])
        /\ buffers'[fd].bytesToSend = 0 /\ buffers'[fd].posOut = 0
        /\ buffers'[fd].content = "none"
    <3>1. requestFactory # Null /\ bufferFactory # Null
      BY FactoryTypes, NullAssumption, Zenon
    <3>2. /\ requestFactory.pending = Null /\ requestFactory.closingConnect = FALSE
          /\ NothingLeft(requestFactory)
          /\ bufferFactory.bytesToSend = 0 /\ bufferFactory.posOut = 0
          /\ bufferFactory.content = "none"
      BY DEF requestFactory, bufferFactory, NothingLeft
    <3> QED
      BY <2>5, <3>1, <3>2
  <2>7. ConnInv'
    BY <1>1, <1>2, <2>2, <2>3, <2>4, <2>5, <2>6, FreshSlotKeeps, Zenon
  <2>8. allocFailures' \in 0 .. MaxAllocFailures
    BY <1>1, <2>1, Zenon DEF TypeOK
  <2> QED
    BY <1>1, <1>2, <1>3, <2>7, <2>8, TypeParts, TypePartsNext, TasksUntouched, Zenon
    DEF IInv, ConnInv
<1>7. ASSUME NEW fd \in Descriptors, AcceptWithoutMemory(fd) PROVE IInv'
  <2>1. /\ buffers' = [buffers EXCEPT ![fd] = Null] /\ unprocessed' = unprocessed + 1
        /\ UNCHANGED <<interest, requests>> /\ Stamp(fd)
        /\ interest[fd] = "closed" /\ fd <= MaxConnection - 1
        /\ allocFailures < MaxAllocFailures /\ allocFailures' = allocFailures + 1
    BY <1>7 DEF AcceptWithoutMemory
  <2>2. fd \in Slots /\ NoEventLeft(fd) /\ requests[fd] = Null
    BY <1>5, <2>1, Zenon
  <2>3. /\ aliveSockets' \in [Slots -> TimePoint] /\ overdue' \in [Slots -> BOOLEAN]
        /\ aliveSockets'[fd] \in FreshTimes(fd)
        /\ \A g \in Slots \ {fd} : aliveSockets'[g] = aliveSockets[g]
    BY <1>1, <2>1, <2>2, StampEffect, Zenon
  <2>4. ConnType' /\ OnlySlot(fd)
    <3>1. /\ interest' \in [Descriptors -> {"closed", "in", "none", "out"}]
          /\ requests' \in [Slots -> Request \cup {Null}]
          /\ unprocessed' \in Int
      BY <1>1, <2>1 DEF TypeOK
    <3>2. buffers' \in [Slots -> Buffer \cup {Null}]
      BY <1>1, <2>1, Zenon DEF TypeOK
    <3>3. OnlySlot(fd)
      BY <1>1, <2>1, <2>3, Zenon DEF OnlySlot, TypeOK
    <3> QED
      BY <2>3, <3>1, <3>2, <3>3, Zenon DEF ConnType
  <2>5. interest'[fd] = "closed" /\ requests'[fd] = Null /\ buffers'[fd] = Null
    BY <1>1, <2>1, <2>2, Zenon DEF TypeOK
  <2>6. ConnInv'
    BY <1>1, <1>2, <2>2, <2>3, <2>4, <2>5, FreshSlotKeeps, Zenon
  <2>7. allocFailures' \in 0 .. MaxAllocFailures
    BY <1>1, <2>1, ConstantsAssumption DEF TypeOK
  <2> QED
    BY <1>1, <1>2, <1>3, <2>6, <2>7, TypeParts, TypePartsNext, TasksUntouched
    DEF IInv, ConnInv
<1> QED
  BY <1>4, <1>6, <1>7, Zenon DEF Accept

LEMMA HandlerDone ==
  ASSUME IInv, NEW e, Handling(e), ConnInv', TaskType', TaskHasOneOwner',
         running' \in BOOLEAN
  PROVE  IInv'
<1>1. LoopType'
  BY HandlingEffect DEF IInv
<1> QED
  BY <1>1, TypePartsNext, Zenon DEF IInv, ConnInv

\* A buffer and a request as they are while the connection is read from.
Clean(b, r) ==
    /\ b \in Buffer /\ r \in Request
    /\ b.bytesToSend = 0 /\ b.posOut = 0 /\ b.content = "none"
    /\ r.pending = Null /\ ~r.closingConnect /\ NothingLeft(r)

\* A connection that is read from has no output, and no task passes the test
\* for it.
LEMMA ReadingEffect ==
  ASSUME IInv, NEW e, Reading(e)
  PROVE  /\ interest[e.fd] = "in" /\ Clean(buffers[e.fd], requests[e.fd])
         /\ \A p \in PtrTask : tasks[p] # Null /\ tasks[p].fd = e.fd =>
              tasks[p].timePoint # aliveSockets[e.fd]
<1>1. TypeOK /\ ConnInv /\ Handling(e) /\ e.kind = "in"
  BY DEF IInv, Reading
<1>2. /\ SlotOK(e.fd) /\ requests[e.fd] \in Request /\ requests[e.fd] # Null
      /\ buffers[e.fd] \in Buffer /\ e.kind \in {"hangup", interest[e.fd]}
  BY <1>1, HandlingEffect, Zenon
<1>3. interest[e.fd] = "in"
  BY <1>1, <1>2, ZenonT(60)
<1>4. requests[e.fd].pending = Null /\ Null \notin PtrTask
  BY <1>2, <1>3, ConstantsAssumption DEF SlotOK
<1> QED
  BY <1>2, <1>3, <1>4, Zenon DEF SlotOK, Clean

\* A response of the loop itself to a request just read.
LEMMA NoticeOK ==
  ASSUME IInv, NEW e, Reading(e), NEW b \in Buffer, NEW r \in Request, NEW n \in Nat,
         b.bytesToSend = 0, r.pending = Null,
         WriteToOutputBuffer(e.fd, b, r, n, "notice"),
         UNCHANGED <<aliveSockets, overdue>>, UNCHANGED taskVars, running' \in BOOLEAN
  PROVE  IInv'
<1>1. TypeOK /\ ConnInv /\ TaskHasOneOwner /\ TaskType /\ Handling(e)
  BY TypeParts, Zenon DEF IInv, Reading
<1>2. e.fd \in Slots /\ NoEventLeft(e.fd)
  BY <1>1, HandlingEffect, Zenon
<1>3. /\ tasks' = tasks /\ OnlyTasksOf(e.fd) /\ TaskType' /\ TaskHasOneOwner'
  BY <1>1, TasksUntouched, Zenon
<1>4. /\ aliveSockets' \in [Slots -> TimePoint] /\ overdue' \in [Slots -> BOOLEAN]
      /\ \A g \in Slots \ {e.fd} : aliveSockets'[g] = aliveSockets[g]
  BY <1>1 DEF TypeOK
<1>5. \A p \in PtrTask : tasks'[p] # Null /\ tasks'[p].fd = e.fd =>
         tasks'[p].timePoint # aliveSockets'[e.fd]
  BY <1>3, ReadingEffect, Zenon
<1>6. ConnInv'
  BY <1>1, <1>2, <1>3, <1>4, <1>5, WriteKeeps, Zenon
<1> QED
  BY <1>1, <1>3, <1>6, HandlerDone

LEMMA ReadTooLargeOK ==
  ASSUME IInv, NEW e, ReadTooLarge(e)
  PROVE  IInv'
<1> DEFINE r == [requests[e.fd] EXCEPT !.closingConnect = TRUE, !.headerAccept = TRUE]
<1>1. Reading(e) /\ Handling(e) /\ UNCHANGED taskVars /\ TooLargeLength \in Nat
  BY ConstantsAssumption DEF ReadTooLarge, Reading
<1>2. Clean(buffers[e.fd], requests[e.fd])
  BY <1>1, ReadingEffect, Zenon
<1>3. r \in Request /\ r.pending = Null
  BY <1>2, Zenon DEF Clean, Request
<1>4. CASE /\ WriteToOutputBuffer(e.fd, buffers[e.fd], r, TooLargeLength, "notice")
           /\ UNCHANGED <<aliveSockets, overdue, running>>
  <2>1. running' \in BOOLEAN
    BY <1>4 DEF IInv, TypeOK
  <2> HIDE DEF r
  <2> QED
    BY <1>1, <1>2, <1>3, <1>4, <2>1, NoticeOK, Zenon DEF Clean
<1>5. CASE WriteFailsUnnoticed(e.fd)
  BY <1>1, <1>5, HandlerCloses, Zenon DEF WriteFailsUnnoticed, ModifyFails
<1> QED
  BY <1>4, <1>5 DEF ReadTooLarge

\* What recv adds to the input buffer.
LEMMA ReceivedBytes ==
  ASSUME NEW b, NEW n \in Receivable(b)
  PROVE  n \in Nat
  BY ConstantsAssumption DEF Receivable

LEMMA InputKept ==
  ASSUME NEW b \in Buffer, NEW n \in Nat
  PROVE  /\ InputWith(b, n) \in Buffer /\ InputWith(b, n).posOut = b.posOut
         /\ InputWith(b, n).bytesToSend = b.bytesToSend
         /\ InputWith(b, n).content = b.content
  BY DEF InputWith, Buffer

\* What send moves from the bytes to send to the bytes sent.
LEMMA SentBytes ==
  ASSUME NEW x \in Nat, NEW y \in Nat, NEW n \in 1 .. x - 1
  PROVE  /\ n \in Nat /\ n <= x /\ x - n \in Nat /\ y + n \in Nat
         /\ y + n + (x - n) = y + x
  OBVIOUS

\* A slot that is read from.
LEMMA ReadingSlot ==
  ASSUME NEW fd, NEW b, NEW r, b # Null, r # Null,
         buffers'[fd] = b, requests'[fd] = r, interest'[fd] = "in",
         b.bytesToSend = 0, b.posOut = 0, b.content = "none",
         r.pending = Null, ~r.closingConnect, NothingLeft(r),
         \A q \in PtrTask : tasks'[q] # Null /\ tasks'[q].fd = fd =>
            tasks'[q].timePoint # aliveSockets'[fd]
  PROVE  SlotOK(fd)'
<1>1. Null \notin PtrTask
  BY ConstantsAssumption, Zenon
<1>2. NothingLeft(requests[fd])'
  BY Zenon DEF NothingLeft
<1>3. \A q \in PtrTask : tasks'[q] # Null /\ tasks'[q].fd = fd =>
          (tasks'[q].timePoint = aliveSockets'[fd]
             <=> requests'[fd] # Null /\ requests'[fd].pending = q)
  BY <1>1, Zenon
<1>4. b.posOut + b.bytesToSend <= MaxOutputBufferLength
  BY EmptyOutput, Zenon
<1> QED
  BY <1>2, <1>3, <1>4, Zenon DEF SlotOK

\* A slot that waits for task p.
LEMMA WaitingSlot ==
  ASSUME NEW fd, NEW b, NEW r, NEW p \in PtrTask, b # Null, r # Null,
         buffers'[fd] = b, requests'[fd] = r, interest'[fd] = "none",
         b.bytesToSend = 0, b.posOut = 0, b.content = "none",
         r.pending = p, ~r.closingConnect,
         tasks'[p] # Null, tasks'[p].fd = fd,
         \A q \in PtrTask : tasks'[q] # Null /\ tasks'[q].fd = fd =>
            (tasks'[q].timePoint = aliveSockets'[fd] <=> q = p)
  PROVE  SlotOK(fd)'
<1>1. Null \notin PtrTask
  BY ConstantsAssumption, ZenonT(60)
<1>2. \A q \in PtrTask : tasks'[q] # Null /\ tasks'[q].fd = fd =>
          (tasks'[q].timePoint = aliveSockets'[fd]
             <=> requests'[fd] # Null /\ requests'[fd].pending = q)
  OBVIOUS
<1>3. b.posOut + b.bytesToSend <= MaxOutputBufferLength
  BY EmptyOutput, Zenon
<1> QED
  BY <1>1, <1>2, <1>3, Zenon DEF SlotOK

\* More input, and the request is still not complete.
LEMMA StillReadingOK ==
  ASSUME IInv, NEW e, Reading(e), NEW b, NEW r, Clean(b, r),
         buffers' = [buffers EXCEPT ![e.fd] = b],
         requests' = [requests EXCEPT ![e.fd] = r],
         UNCHANGED <<interest, aliveSockets, overdue, unprocessed>>,
         UNCHANGED taskVars, UNCHANGED running
  PROVE  IInv'
<1>1. TypeOK /\ ConnInv /\ TaskHasOneOwner /\ TaskType /\ Handling(e)
  BY TypeParts, Zenon DEF IInv, Reading
<1>2. e.fd \in Slots /\ NoEventLeft(e.fd)
  BY <1>1, HandlingEffect, Zenon
<1>3. /\ tasks' = tasks /\ OnlyTasksOf(e.fd) /\ TaskType' /\ TaskHasOneOwner'
  BY <1>1, TasksUntouched, Zenon
<1>4. /\ buffers' \in [Slots -> Buffer \cup {Null}]
      /\ requests' \in [Slots -> Request \cup {Null}]
  <2>1. /\ buffers \in [Slots -> Buffer \cup {Null}] /\ b \in Buffer \cup {Null}
        /\ requests \in [Slots -> Request \cup {Null}] /\ r \in Request \cup {Null}
    BY <1>1 DEF TypeOK, Clean
  <2>2. buffers' \in [Slots -> Buffer \cup {Null}]
    BY <2>1, Zenon
  <2>3. requests' \in [Slots -> Request \cup {Null}]
    BY <2>1, Zenon
  <2> QED
    BY <2>2, <2>3, Zenon
<1>5. ConnType'
  BY <1>1, <1>4, Zenon DEF ConnType, ConnInv
<1>6. OnlySlot(e.fd) /\ buffers'[e.fd] = b /\ requests'[e.fd] = r
  BY <1>1, <1>2, Zenon DEF OnlySlot, TypeOK
<1>7. b # Null /\ r # Null
  BY NullAssumption, Zenon DEF Clean
<1>8. SlotOK(e.fd)'
  <2>1. /\ b.bytesToSend = 0 /\ b.posOut = 0 /\ b.content = "none"
        /\ r.pending = Null /\ ~r.closingConnect /\ NothingLeft(r)
    BY Zenon DEF Clean
  <2>2. interest'[e.fd] = "in" /\ aliveSockets'[e.fd] = aliveSockets[e.fd]
    BY ReadingEffect, ZenonT(60)
  <2>3. \A q \in PtrTask : tasks'[q] # Null /\ tasks'[q].fd = e.fd =>
            tasks'[q].timePoint # aliveSockets'[e.fd]
    BY <1>3, <2>2, ReadingEffect, Zenon
  <2> QED
    BY <1>6, <1>7, <2>1, <2>2, <2>3, ReadingSlot, Zenon
<1>9. ConnInv'
  BY <1>1, <1>2, <1>3, <1>5, <1>6, <1>8, OneSlot, Zenon
<1> QED
  BY <1>1, <1>3, <1>9, HandlerDone, Zenon DEF TypeOK

\* The request becomes a task: the only one that passes the test for the slot.
LEMMA AllocateTaskOK ==
  ASSUME IInv, NEW e, Reading(e), NEW b, NEW r, Clean(b, r),
         NEW p \in PtrTask \ Allocated, AllocateTask(p, e.fd, b, r),
         \/ /\ tasksQueue' = Append(tasksQueue, p)
            /\ UNCHANGED staticTasksQueue
         \/ /\ staticTasksQueue' = Append(staticTasksQueue, p)
            /\ UNCHANGED tasksQueue
  PROVE  IInv'
<1> DEFINE t == [fd |-> e.fd, timePoint |-> aliveSockets[e.fd], responseLength |-> 0]
           s == [r EXCEPT !.pending = p]
<1>1. TypeOK /\ ConnInv /\ TaskHasOneOwner /\ TaskType /\ Handling(e)
  BY TypeParts DEF IInv, Reading
<1>2. e.fd \in Slots /\ NoEventLeft(e.fd)
  BY <1>1, HandlingEffect, Zenon
<1>3. t \in Task /\ t.fd = e.fd /\ t.timePoint = aliveSockets[e.fd] /\ t # Null
  <2>1. aliveSockets[e.fd] \in TimePoint
    BY <1>1, <1>2, ZenonT(60) DEF TypeOK
  <2>2. t \in Task
    BY <1>2, <2>1 DEF Task
  <2> QED
    BY <2>2, NullAssumption, Zenon
<1>4. s \in Request /\ s.pending = p /\ ~s.closingConnect /\ s # Null
  <2>1. r \in Request /\ ~r.closingConnect
    BY DEF Clean
  <2>2. s \in Request /\ s.pending = p /\ ~s.closingConnect
    BY <2>1 DEF Request
  <2> QED
    BY <2>2, NullAssumption
<1>5. /\ tasks' = [tasks EXCEPT ![p] = t]
      /\ buffers' = [buffers EXCEPT ![e.fd] = b]
      /\ requests' = [requests EXCEPT ![e.fd] = s]
      /\ interest' = [interest EXCEPT ![e.fd] = "none"]
      /\ UNCHANGED <<aliveSockets, overdue, unprocessed, running>>
      /\ UNCHANGED <<performedTasksQueue, worker>>
  BY DEF AllocateTask
<1> HIDE DEF t, s
<1>6. TaskType' /\ TaskHasOneOwner'
  BY <1>1, <1>3, <1>5, AllocateKeepsOwners, Zenon
<1>7. tasks'[p] = t /\ tasks[p] = Null /\ \A q \in PtrTask \ {p} : tasks'[q] = tasks[q]
  BY <1>1, <1>5, Zenon DEF TaskType, Allocated
<1>8. OnlyTasksOf(e.fd)
  BY <1>3, <1>7, Zenon DEF OnlyTasksOf
<1>9. ConnType'
  <2>1. interest' \in [Descriptors -> {"closed", "in", "none", "out"}]
    BY <1>1, <1>5, Zenon DEF TypeOK
  <2>2. buffers \in [Slots -> Buffer \cup {Null}] /\ b \in Buffer \cup {Null}
    BY <1>1, Zenon DEF TypeOK, Clean
  <2>3. requests \in [Slots -> Request \cup {Null}]
    BY <1>1 DEF TypeOK
  <2>4. buffers' \in [Slots -> Buffer \cup {Null}]
    BY <1>5, <2>2, Zenon
  <2>5. requests' \in [Slots -> Request \cup {Null}]
    BY <1>4, <1>5, <2>3, ZenonT(60)
  <2> QED
    BY <1>1, <1>5, <2>1, <2>4, <2>5 DEF ConnType, ConnInv
<1>10. /\ OnlySlot(e.fd) /\ buffers'[e.fd] = b /\ requests'[e.fd] = s
       /\ interest'[e.fd] = "none" /\ aliveSockets'[e.fd] = aliveSockets[e.fd]
  BY <1>1, <1>2, <1>5, SlotsAreDescriptors DEF OnlySlot, TypeOK
<1>11. b # Null
  BY NullAssumption DEF Clean
<1>12. \A q \in PtrTask : tasks'[q] # Null /\ tasks'[q].fd = e.fd =>
          (tasks'[q].timePoint = aliveSockets'[e.fd] <=> q = p)
  BY <1>3, <1>7, <1>10, ReadingEffect, Zenon
<1>13. SlotOK(e.fd)'
  <2>1. b.bytesToSend = 0 /\ b.posOut = 0 /\ b.content = "none"
    BY DEF Clean
  <2>2. tasks'[p] # Null /\ tasks'[p].fd = e.fd
    BY <1>3, <1>7, Zenon
  <2> QED
    BY <1>4, <1>10, <1>11, <1>12, <2>1, <2>2, WaitingSlot, ZenonT(60)
<1>14. ConnInv'
  BY <1>1, <1>2, <1>8, <1>9, <1>10, <1>13, OneSlot, Zenon
<1> QED
  BY <1>1, <1>5, <1>6, <1>14, HandlerDone, Zenon DEF TypeOK

LEMMA DispatchOK ==
  ASSUME IInv, NEW e, Reading(e), NEW b, NEW r, Clean(b, r), Dispatch(e.fd, b, r)
  PROVE  IInv'
<1>1. Handling(e) /\ running \in BOOLEAN /\ NoticeLength \in Nat
  BY ConstantsAssumption DEF Reading, IInv, TypeOK
<1>2. CASE /\ CloseAllSocketsAndClearData(e.fd)
           /\ UNCHANGED taskVars /\ running' \in BOOLEAN
  BY <1>1, <1>2, HandlerCloses, Zenon
<1>3. CASE /\ WriteToOutputBuffer(e.fd, b, r, NoticeLength, "notice")
           /\ UNCHANGED <<aliveSockets, overdue, running>> /\ UNCHANGED taskVars
  BY <1>1, <1>3, NoticeOK, Zenon DEF Clean
<1>4. ASSUME NEW p \in PtrTask \ Allocated, AllocateTask(p, e.fd, b, r),
             \/ tasksQueue' = Append(tasksQueue, p) /\ UNCHANGED staticTasksQueue
             \/ staticTasksQueue' = Append(staticTasksQueue, p) /\ UNCHANGED tasksQueue
      PROVE  IInv'
  BY <1>4, AllocateTaskOK
<1>5. CASE AnswerDirectly(e.fd, b, r)
  BY <1>2, <1>3, <1>5, Zenon DEF AnswerDirectly, ModifyFails
<1> QED
  BY <1>1, <1>2, <1>4, <1>5, ZenonT(60) DEF Dispatch, ModifyFails

LEMMA ReadPartOfHeaderOK ==
  ASSUME IInv, NEW e, ReadPartOfHeader(e)
  PROVE  IInv'
<1> DEFINE b == buffers[e.fd]
<1>1. Reading(e)
  BY Zenon DEF ReadPartOfHeader
<1>2. Clean(b, requests[e.fd])
  BY <1>1, ReadingEffect, Zenon
<1>3. PICK n \in Receivable(b) : buffers' = [buffers EXCEPT ![e.fd] = InputWith(b, n)]
  BY Zenon DEF ReadPartOfHeader
<1>4. n \in Nat
  BY <1>3, ReceivedBytes, Zenon
<1>5. Clean(InputWith(b, n), requests[e.fd])
  <2> DEFINE c == InputWith(b, n)
  <2>1. b \in Buffer
    BY <1>2 DEF Clean
  <2>2. /\ c \in Buffer /\ c.bytesToSend = b.bytesToSend /\ c.posOut = b.posOut
        /\ c.content = b.content
    BY <1>4, <2>1, InputKept, Zenon
  <2> HIDE DEF c
  <2>3. Clean(c, requests[e.fd])
    BY <1>2, <2>2, ZenonT(60) DEF Clean
  <2> QED
    BY <2>3, Zenon DEF c
<1>6. requests' = [requests EXCEPT ![e.fd] = requests[e.fd]]
  BY DEF ReadPartOfHeader, IInv, TypeOK
<1> HIDE DEF b
<1> QED
  BY <1>1, <1>3, <1>5, <1>6, StillReadingOK, Zenon DEF ReadPartOfHeader

LEMMA ReadHeaderOK ==
  ASSUME IInv, NEW e, ReadHeader(e)
  PROVE  IInv'
<1> DEFINE b == buffers[e.fd]
           q == requests[e.fd]
<1>1. Reading(e)
  BY Zenon DEF ReadHeader
<1>2. Clean(b, q)
  BY <1>1, ReadingEffect, Zenon
<1>3. PICK n \in Receivable(b), length \in BodyLengths, ka \in KeepAliveAsked :
      \E h \in HeaderEnds(b, q, n) :
        LET r == HeaderAccepted(q, length, ka)
            c == InputWith(b, n)
        IN  IF r.bodyExists /\ c.posIn # h + r.contentLength
            THEN /\ buffers' = [buffers EXCEPT ![e.fd] = [c EXCEPT !.headerEnd = h]]
                 /\ requests' = [requests EXCEPT ![e.fd] = r]
                 /\ UNCHANGED <<interest, aliveSockets, overdue, unprocessed,
                                taskVars, running>>
            ELSE Dispatch(e.fd, [c EXCEPT !.headerEnd = 0],
                          [r EXCEPT !.bodyAccept = r.bodyExists])
  BY DEF ReadHeader
<1> DEFINE r == HeaderAccepted(q, length, ka)
           c == InputWith(b, n)
<1>4. PICK h \in HeaderEnds(b, q, n) :
        IF r.bodyExists /\ c.posIn # h + r.contentLength
        THEN /\ buffers' = [buffers EXCEPT ![e.fd] = [c EXCEPT !.headerEnd = h]]
             /\ requests' = [requests EXCEPT ![e.fd] = r]
             /\ UNCHANGED <<interest, aliveSockets, overdue, unprocessed,
                            taskVars, running>>
        ELSE Dispatch(e.fd, [c EXCEPT !.headerEnd = 0],
                      [r EXCEPT !.bodyAccept = r.bodyExists])
  BY <1>3, Zenon
<1>5. n \in Nat /\ length \in Nat /\ ka \in BOOLEAN
  <2>1. n \in Nat
    BY ReceivedBytes, Zenon
  <2>2. length \in Nat /\ ka \in BOOLEAN
    BY ConstantsAssumption, ZenonT(60)
  <2> QED
    BY <2>1, <2>2, Zenon
<1>6. h \in Nat
  BY <1>2, <1>5 DEF HeaderEnds, Clean, Buffer
<1>7. c \in Buffer /\ c.bytesToSend = 0 /\ c.posOut = 0 /\ c.content = "none"
  BY <1>2, <1>5 DEF Clean, InputWith, Buffer
<1>8. r \in Request /\ r.pending = Null /\ ~r.closingConnect /\ NothingLeft(r)
  <2>1. CASE q.headerAccept
    BY <1>2, <2>1 DEF Clean, HeaderAccepted
  <2>2. CASE ~q.headerAccept
    <3>1. (length # 0) \in BOOLEAN
      OBVIOUS
    <3> QED
      BY <1>2, <1>5, <2>2, <3>1, Zenon DEF Clean, HeaderAccepted, Request, NothingLeft
  <2> QED
    BY <2>1, <2>2, Zenon
<1> HIDE DEF b, q, r, c
<1>9. Clean([c EXCEPT !.headerEnd = h], r)
  BY <1>6, <1>7, <1>8 DEF Clean, Buffer
<1>10. Clean([c EXCEPT !.headerEnd = 0], [r EXCEPT !.bodyAccept = r.bodyExists])
  BY <1>7, <1>8 DEF Clean, Buffer, Request, NothingLeft
<1>11. CASE r.bodyExists /\ c.posIn # h + r.contentLength
  BY <1>1, <1>4, <1>9, <1>11, StillReadingOK, Zenon
<1>12. CASE ~(r.bodyExists /\ c.posIn # h + r.contentLength)
  BY <1>1, <1>4, <1>10, <1>12, DispatchOK, Zenon
<1> QED
  BY <1>11, <1>12

\* Bytes are sent: within the output, whatever the socket takes.
LEMMA SendPartOK ==
  ASSUME IInv, NEW e, SendPart(e)
  PROVE  IInv'
<1> DEFINE b == buffers[e.fd]
<1>1. TypeOK /\ ConnInv /\ TaskHasOneOwner /\ TaskType /\ Handling(e)
  BY TypeParts DEF IInv, SendPart, Sending
<1>2. /\ e.fd \in Slots /\ NoEventLeft(e.fd) /\ SlotOK(e.fd) /\ b \in Buffer
      /\ b # Null /\ requests[e.fd] # Null /\ e.kind \in {"hangup", interest[e.fd]}
  BY <1>1, HandlingEffect, Zenon
<1>3. interest[e.fd] = "out"
  BY <1>2, Zenon DEF SendPart, Sending
<1>4. /\ UNCHANGED <<interest, requests, aliveSockets, overdue, unprocessed>>
      /\ UNCHANGED taskVars /\ UNCHANGED running
      /\ tasks' = tasks /\ OnlyTasksOf(e.fd) /\ TaskType' /\ TaskHasOneOwner'
  BY <1>1, TasksUntouched DEF SendPart
<1>5. PICK n \in 1 .. b.bytesToSend - 1 :
        buffers' = [buffers EXCEPT ![e.fd] = Sent(@, n)]
  BY Zenon DEF SendPart
<1> DEFINE c == Sent(b, n)
<1>6. n \in Nat /\ n <= b.bytesToSend /\ b.bytesToSend \in Nat /\ b.posOut \in Nat
  <2>1. b.bytesToSend \in Nat /\ b.posOut \in Nat
    BY <1>2, Zenon DEF Buffer
  <2> QED
    BY <2>1, SentBytes, Zenon
<1>7. /\ c \in Buffer /\ c.content = b.content
      /\ c.posOut + c.bytesToSend = b.posOut + b.bytesToSend
  <2> DEFINE k == b.bytesToSend - n
             m == b.posOut + n
  <2>1. k \in Nat /\ m \in Nat /\ m + k = b.posOut + b.bytesToSend
    BY <1>6, SentBytes, Zenon
  <2>2. c = [b EXCEPT !.bytesToSend = k, !.posOut = m]
    BY <1>2 DEF Buffer, Sent
  <2> HIDE DEF b, c, k, m
  <2>3. /\ c \in Buffer /\ c.content = b.content
        /\ c.posOut = m /\ c.bytesToSend = k
    BY <1>2, <2>1, <2>2, Zenon DEF Buffer
  <2> QED
    BY <2>1, <2>3, Zenon
<1>8. buffers' = [buffers EXCEPT ![e.fd] = c]
  BY <1>1, <1>2, <1>5, Zenon DEF TypeOK
<1> HIDE DEF c
<1>9. /\ buffers' \in [Slots -> Buffer \cup {Null}] /\ buffers'[e.fd] = c
      /\ \A g \in Slots \ {e.fd} : buffers'[g] = buffers[g]
  BY <1>1, <1>2, <1>7, <1>8, Zenon DEF TypeOK
<1>10. ConnType' /\ OnlySlot(e.fd)
  BY <1>1, <1>4, <1>9, Zenon DEF ConnType, OnlySlot, ConnInv
<1>11. c # Null
  BY <1>7, NullAssumption
<1>12. SlotOK(e.fd)'
  <2>1. /\ interest'[e.fd] = "out" /\ requests'[e.fd] = requests[e.fd]
        /\ aliveSockets'[e.fd] = aliveSockets[e.fd]
    BY <1>3, <1>4, Zenon
  <2> HIDE DEF b
  <2> QED
    BY <1>2, <1>3, <1>4, <1>7, <1>9, <1>11, <2>1, Zenon DEF SlotOK, b
<1>13. ConnInv'
  BY <1>1, <1>2, <1>4, <1>10, <1>12, OneSlot, Zenon
<1> QED
  BY <1>1, <1>4, <1>13, HandlerDone, Zenon DEF TypeOK

\* Everything is sent.
LEMMA SendAllOK ==
  ASSUME IInv, NEW e, SendAll(e)
  PROVE  IInv'
<1>1. TypeOK /\ ConnInv /\ TaskHasOneOwner /\ TaskType /\ Handling(e)
  BY TypeParts, Zenon DEF IInv, SendAll, Sending
<1>2. /\ UNCHANGED taskVars /\ UNCHANGED running /\ running' \in BOOLEAN
      /\ tasks' = tasks /\ TaskType' /\ TaskHasOneOwner'
  BY <1>1, TasksUntouched, Zenon DEF SendAll, TypeOK
<1>3. CASE CloseAllSocketsAndClearData(e.fd)
  BY <1>1, <1>2, <1>3, HandlerCloses, Zenon
<1>4. CASE /\ ~requests[e.fd].closingConnect
           /\ buffers' = [buffers EXCEPT ![e.fd] = BufferClear(@)]
           /\ requests' = [requests EXCEPT ![e.fd] = RequestClear(@)]
           /\ interest' = [interest EXCEPT ![e.fd] = "in"]
           /\ Stamp(e.fd)
           /\ UNCHANGED unprocessed
  <2> DEFINE b == BufferClear(buffers[e.fd])
             r == RequestClear(requests[e.fd])
  <2>1. /\ e.fd \in Slots /\ NoEventLeft(e.fd)
        /\ requests[e.fd] \in Request /\ buffers[e.fd] \in Buffer
    BY <1>1, HandlingEffect, ZenonT(60)
  <2>2. /\ b \in Buffer /\ b.bytesToSend = 0 /\ b.posOut = 0 /\ b.content = "none"
    BY <2>1, ClearEffect
  <2>3. r \in Request /\ r.pending = Null /\ ~r.closingConnect /\ NothingLeft(r)
    <3>1. /\ requestFactory \in Request /\ requestFactory.pending = Null
          /\ NothingLeft(requestFactory)
      BY FactoryTypes DEF requestFactory, NothingLeft
    <3>2. /\ requests[e.fd].closingConnect \in BOOLEAN
          /\ r = [requestFactory EXCEPT !.closingConnect = requests[e.fd].closingConnect]
      BY <2>1, Zenon DEF RequestClear, Request
    <3> QED
      BY <1>4, <3>1, <3>2, Zenon DEF Request, NothingLeft
  <2>4. b # Null /\ r # Null
    BY <2>2, <2>3, NullAssumption, Zenon
  <2>5. /\ buffers' = [buffers EXCEPT ![e.fd] = b]
        /\ requests' = [requests EXCEPT ![e.fd] = r]
    BY <1>1, <1>4, <2>1, Zenon DEF TypeOK
  <2> HIDE DEF b, r
  <2>6. /\ aliveSockets' \in [Slots -> TimePoint] /\ overdue' \in [Slots -> BOOLEAN]
        /\ aliveSockets'[e.fd] \in FreshTimes(e.fd)
        /\ \A g \in Slots \ {e.fd} : aliveSockets'[g] = aliveSockets[g]
    BY <1>1, <1>4, <2>1, StampEffect, Zenon
  <2>7. ConnType'
    <3>1. interest' \in [Descriptors -> {"closed", "in", "none", "out"}]
          /\ unprocessed' \in Int
      BY <1>1, <1>4, Zenon DEF TypeOK
    <3>2. /\ buffers' \in [Slots -> Buffer \cup {Null}]
          /\ requests' \in [Slots -> Request \cup {Null}]
      BY <1>1, <2>2, <2>3, <2>5, Zenon DEF TypeOK
    <3> QED
      BY <2>6, <3>1, <3>2, Zenon DEF ConnType
  <2>8. /\ OnlySlot(e.fd) /\ interest'[e.fd] = "in"
        /\ buffers'[e.fd] = b /\ requests'[e.fd] = r
    BY <1>1, <1>4, <2>1, <2>5, <2>6, SlotsAreDescriptors, Zenon DEF OnlySlot, TypeOK
  <2>9. ConnInv'
    BY <1>1, <1>2, <2>1, <2>2, <2>3, <2>4, <2>6, <2>7, <2>8, FreshSlotKeeps, Zenon
  <2> QED
    BY <1>1, <1>2, <2>9, HandlerDone, Zenon
<1> QED
  BY <1>3, <1>4, Zenon DEF SendAll, ModifyFails

LEMMA HandleEventOK ==
  ASSUME IInv, NEW e, HandleEvent(e)
  PROVE  IInv'
<1>1. running \in BOOLEAN
  BY Zenon DEF IInv, TypeOK
<1>2. CASE HangUp(e) \/ ReadFails(e) \/ SendFails(e)
  BY <1>1, <1>2, HandlerCloses, Zenon DEF HangUp, ReadFails, SendFails, Reading, Sending
<1>3. CASE ReadWouldBlock(e) \/ SendNothing(e)
  <2>1. /\ Handling(e) /\ UNCHANGED connVars /\ UNCHANGED taskVars
        /\ running' \in BOOLEAN
    BY <1>1, <1>3, Zenon DEF ReadWouldBlock, SendNothing, Reading, Sending
  <2> QED
    BY <2>1, HandlerIdles
<1> QED
  BY <1>2, <1>3, ReadTooLargeOK, ReadPartOfHeaderOK, ReadHeaderOK, SendPartOK, SendAllOK, Zenon
  DEF HandleEvent

\* Workers and time change no connection.
LEMMA WorkerOK ==
  ASSUME IInv, NEW w \in Workers, TakeTask(w) \/ FinishTask(w)
  PROVE  IInv'
<1>1. TypeOK /\ ConnInv /\ TaskHasOneOwner /\ TaskType /\ LoopType
  BY TypeParts DEF IInv
<1>2. UNCHANGED connVars /\ UNCHANGED <<phase, scanVars, incoming, batch, envVars>>
  BY Zenon DEF TakeTask, FinishTask
<1>3. LoopType'
  BY <1>1, <1>2, Zenon DEF LoopType, scanVars, envVars
<1>4. batch' # {} => phase' = "events"
  BY <1>1, <1>2, Zenon DEF ConnInv, EventsOK
<1>5. CASE TakeTask(w)
  <2>1. TaskType' /\ TaskHasOneOwner' /\ tasks' = tasks
    BY <1>1, <1>5, TakeKeepsOwners, Zenon DEF TakeTask
  <2>2. ConnInv'
    BY <1>1, <1>2, <1>4, <2>1, ConnKept, Zenon DEF connVars, TypeOK
  <2> QED
    BY <1>3, <2>1, <2>2, TypePartsNext, Zenon DEF IInv, ConnInv
<1>6. CASE FinishTask(w)
  <2>1. /\ TaskType' /\ TaskHasOneOwner'
        /\ \A q \in PtrTask :
              /\ tasks'[q] # Null <=> tasks[q] # Null
              /\ tasks[q] # Null => /\ tasks'[q].fd = tasks[q].fd
                                    /\ tasks'[q].timePoint = tasks[q].timePoint
    BY <1>1, <1>6, FinishKeepsOwners, Zenon
  <2>2. ConnInv'
    BY <1>1, <1>2, <1>4, <2>1, ConnKept, Zenon DEF connVars, TypeOK
  <2> QED
    BY <1>3, <2>1, <2>2, TypePartsNext, Zenon DEF IInv, ConnInv
<1> QED
  BY <1>5, <1>6, Zenon

LEMMA ElapseOK ==
  ASSUME IInv, NEW fd \in Slots, Elapse(fd)
  PROVE  IInv'
<1>1. TypeOK /\ ConnInv /\ TaskHasOneOwner /\ TaskType /\ LoopType
  BY TypeParts DEF IInv
<1>2. /\ UNCHANGED <<interest, buffers, requests, aliveSockets, unprocessed>>
      /\ UNCHANGED taskVars
      /\ UNCHANGED <<phase, scanVars, incoming, batch, envVars>>
      /\ overdue' = [overdue EXCEPT ![fd] = TRUE]
  BY Zenon DEF Elapse
<1>3. overdue' \in [Slots -> BOOLEAN]
  BY <1>1, <1>2, Zenon DEF TypeOK
<1>4. LoopType'
  BY <1>1, <1>2 DEF LoopType, scanVars, envVars
<1>5. ConnInv'
  BY <1>1, <1>2, <1>3, ConnKept, TasksUntouched, Zenon DEF ConnInv, EventsOK
<1> QED
  BY <1>1, <1>2, <1>4, <1>5, TypePartsNext, TasksUntouched, Zenon DEF IInv, ConnInv

LEMMA StutterOK ==
  ASSUME IInv, UNCHANGED vars
  PROVE  IInv'
<1>1. TypeOK /\ ConnInv /\ TaskHasOneOwner /\ TaskType /\ LoopType
  BY TypeParts DEF IInv
<1>2. UNCHANGED connVars /\ UNCHANGED taskVars
      /\ UNCHANGED <<phase, scanVars, incoming, batch, envVars>>
  BY DEF vars
<1>3. LoopType'
  BY <1>1, <1>2 DEF LoopType, scanVars, envVars
<1>4. ConnInv'
  BY <1>1, <1>2, ConnKept, TasksUntouched, Zenon DEF connVars, ConnInv, EventsOK, TypeOK
<1> QED
  BY <1>1, <1>2, <1>3, <1>4, TypePartsNext, TasksUntouched, Zenon DEF IInv, ConnInv

LEMMA NextOK ==
  ASSUME IInv, [Next]_vars
  PROVE  IInv'
<1>1. CASE Loop
  BY <1>1, CheckTimeLimitOK, PhaseStepsOK, DrainPerformedOK, EpollWaitOK, AcceptOK,
     HandleEventOK, Zenon
  DEF Loop
<1>2. CASE TasksHandler
  BY <1>2, WorkerOK DEF TasksHandler
<1>3. CASE \E fd \in Slots : Elapse(fd)
  BY <1>3, ElapseOK
<1>4. CASE UNCHANGED vars
  BY <1>4, StutterOK
<1> QED
  BY <1>1, <1>2, <1>3, <1>4, Zenon DEF Next, Halted

LEMMA Inductive == Spec => []IInv
  BY InitOK, NextOK, PTL DEF Spec

-----------------------------------------------------------------------------
(* The theorems *)

LEMMA IInvImplies ==
  ASSUME IInv
  PROVE  /\ TypeOK /\ TaskHasOneOwner /\ TimePointTestExact /\ MutedHasTask
         /\ EventsNotStale /\ SlotsAgree /\ MixedOutputIsLast /\ OutputFits
         /\ ReadingStartsClean
<1>1. TypeOK /\ TaskHasOneOwner /\ Registered /\ EventsOK
      /\ \A fd \in Slots : SlotOK(fd)
  BY DEF IInv, ConnInv
<1>2. TimePointTestExact
  <2> SUFFICES ASSUME NEW p \in Allocated
               PROVE  StillAlive(p) <=> /\ Open(tasks[p].fd)
                                        /\ requests[tasks[p].fd].pending = p
    BY Zenon DEF TimePointTestExact
  <2>1. p \in PtrTask /\ tasks[p] # Null /\ tasks[p].fd \in Slots
    BY <1>1, Zenon DEF Allocated, TypeOK, Task
  <2> QED
    BY <1>1, <2>1, Zenon DEF SlotOK, StillAlive, Open
<1>3. MutedHasTask
  <2> SUFFICES ASSUME NEW fd \in Slots, interest[fd] = "none"
               PROVE  requests[fd].pending \in Allocated
    BY Zenon DEF MutedHasTask
  <2>1. requests[fd] # Null /\ requests[fd].pending # Null
        /\ tasks[requests[fd].pending] # Null
    BY <1>1, Zenon DEF SlotOK
  <2>2. requests[fd].pending \in PtrTask
    BY <1>1, <2>1, Zenon DEF TypeOK, Request
  <2> QED
    BY <2>1, <2>2, Zenon DEF Allocated
<1>4. EventsNotStale
  BY <1>1, Zenon DEF EventsNotStale, EventsOK, SlotOK
<1>5. SlotsAgree
  BY <1>1, Zenon DEF SlotsAgree, Registered, SlotOK
<1>6. MixedOutputIsLast /\ OutputFits
  BY <1>1, Zenon DEF MixedOutputIsLast, OutputFits, SlotOK, Open
<1>7. ReadingStartsClean
  BY <1>1, Zenon DEF ReadingStartsClean, SlotOK, NothingLeft
<1> QED
  BY <1>1, <1>2, <1>3, <1>4, <1>5, <1>6, <1>7, ZenonT(60)

\* Every reachable state is well typed: in particular the scan's counter wraps
\* round into the table of slots, and no buffer position goes below zero.
THEOREM TypeCorrect == Spec => []TypeOK
  BY Inductive, IInvImplies, PTL

\* However many connections, workers and tasks there are, the comparison of
\* time points at server.cpp:347 accepts exactly the results that the
\* connections of the moment are waiting for.
THEOREM TimePointTestIsExact == Spec => []TimePointTestExact
  BY Inductive, IInvImplies, PTL

\* A task has one owner from its allocation in dispatcher to the delete at
\* server.cpp:356.
THEOREM TasksHaveOneOwner == Spec => []TaskHasOneOwner
  BY Inductive, IInvImplies, PTL

\* A descriptor muted at server.cpp:514 has a task on its way.
THEOREM MutedHaveTasks == Spec => []MutedHasTask
  BY Inductive, IInvImplies, PTL

\* The handlers of server.cpp:360-608 meet no event for a slot that an earlier
\* handler of the same batch has closed or registered for something else.
THEOREM EventsStayValid == Spec => []EventsNotStale
  BY Inductive, IInvImplies, PTL

\* buffers, requests and the epoll set describe the same connections.
THEOREM SlotsAlwaysAgree == Spec => []SlotsAgree
  BY Inductive, IInvImplies, PTL

\* Output that was written over is the last output of its connection.
THEOREM BrokenOutputIsLast == Spec => []MixedOutputIsLast
  BY Inductive, IInvImplies, PTL

\* Output that was not written over lies within the buffer.
THEOREM OutputAlwaysFits == Spec => []OutputFits
  BY Inductive, IInvImplies, PTL

\* A connection that is read from starts afresh, be it new or kept alive.
THEOREM ReadingIsClean == Spec => []ReadingStartsClean
  BY Inductive, IInvImplies, PTL

\* Only DrainPerformed takes a performed task off its queue.
LEMMA OnlyDrainPops ==
  ASSUME IInv, [Next]_vars, performedTasksQueue # <<>>,
         performedTasksQueue' = Tail(performedTasksQueue)
  PROVE  DrainPerformed
<1>1. performedTasksQueue \in Seq(PtrTask)
  BY DEF IInv, TypeOK
<1>2. performedTasksQueue' # performedTasksQueue
  BY <1>1
<1>3. ~ UNCHANGED taskVars
  BY <1>2 DEF taskVars
<1>4. ASSUME NEW w \in Workers, FinishTask(w) PROVE FALSE
  <2>1. worker[w] \in PtrTask
    BY <1>4, Zenon DEF FinishTask, IInv, TypeOK
  <2> QED
    BY <1>1, <1>4, <2>1 DEF FinishTask
<1>5. ASSUME NEW w \in Workers, TakeTask(w) PROVE FALSE
  BY <1>2, <1>5 DEF TakeTask
<1>6. ASSUME NEW e, HandleEvent(e) PROVE FALSE
  <2>1. CASE ReadHeader(e)
    <3>1. ASSUME NEW fd, NEW b, NEW r, Dispatch(fd, b, r) PROVE FALSE
      BY <1>2, <3>1, Zenon DEF Dispatch, AnswerDirectly, AllocateTask, taskVars
    <3> QED
      BY <1>3, <2>1, <3>1, ZenonT(60) DEF ReadHeader
  <2> QED
    BY <1>3, <1>6, <2>1, Zenon DEF HandleEvent, HangUp, ReadFails, ReadTooLarge,
       ReadWouldBlock, ReadPartOfHeader, SendNothing, SendFails, SendPart, SendAll
<1>7. ~Accept
  BY <1>3, Zenon DEF Accept, AcceptRefused, AcceptConnection, AcceptWithoutMemory, Accepting
<1>8. ~CheckTimeLimit /\ ~EndScan /\ ~EndDrain /\ ~EpollWait /\ ~EndEvents
  BY <1>3, Zenon DEF CheckTimeLimit, EndScan, EndDrain, EpollWait, EndEvents
<1>9. ~(\E fd \in Slots : Elapse(fd)) /\ ~ UNCHANGED vars
  BY <1>3 DEF Elapse, vars
<1> QED
  BY <1>4, <1>5, <1>6, <1>7, <1>8, <1>9, ZenonT(60) DEF Next, Loop, TasksHandler, Halted

\* The drain (server.cpp:341-358) writes to a connection only the response
\* that the connection waits for, and only into an empty output buffer.
THEOREM AnswersOnlyPendingRequests == Spec => AnswersPendingRequest
<1> DEFINE Answers(fd) ==
      /\ performedTasksQueue # <<>>
      /\ performedTasksQueue' = Tail(performedTasksQueue)
      /\ buffers'[fd] # buffers[fd]
      => /\ Open(fd) /\ requests[fd].pending = Head(performedTasksQueue)
         /\ buffers[fd].bytesToSend = 0
<1>1. ASSUME IInv, [Next]_vars PROVE \A fd \in Slots : Answers(fd)
  <2> SUFFICES ASSUME NEW g \in Slots, performedTasksQueue # <<>>,
                      performedTasksQueue' = Tail(performedTasksQueue),
                      buffers'[g] # buffers[g]
               PROVE  /\ Open(g) /\ requests[g].pending = Head(performedTasksQueue)
                      /\ buffers[g].bytesToSend = 0
    BY Zenon
  <2> DEFINE p  == Head(performedTasksQueue)
             fd == tasks[p].fd
  <2>1. DrainPerformed
    BY <1>1, OnlyDrainPops, Zenon
  <2>2. TypeOK /\ ConnInv /\ TaskHasOneOwner /\ TaskType
    BY <1>1, TypeParts DEF IInv
  <2>3. p \in PtrTask /\ tasks[p] # Null /\ fd \in Slots /\ Null \notin PtrTask
    BY <2>1, <2>2, DrainKeepsOwners, ConstantsAssumption, Zenon DEF Allocated, TaskType, Task
  <2>4. StillAlive(p) /\ g = fd
    <3>1. \A f \in Slots : f # fd => buffers'[f] = buffers[f]
      BY <2>1, <2>2, <2>3, ZenonT(60)
      DEF DrainPerformed, WriteToOutputBuffer, ModifyFails,
          CloseAllSocketsAndClearData, connVars, TypeOK
    <3> QED
      BY <2>1, <3>1, Zenon DEF DrainPerformed, connVars
  <2>5. SlotOK(fd)
    BY <2>2, <2>3 DEF ConnInv
  <2> QED
    BY <2>3, <2>4, <2>5, Zenon DEF SlotOK, StillAlive, Open
<1> QED
  BY <1>1, Inductive, PTL DEF Spec, AnswersPendingRequest

=============================================================================
