----------------------- MODULE HttpServerCountProofs -----------------------
(***************************************************************************)
(* The counters of the statistics page, for every value of the constants   *)
(* of HttpServer.  By the inductive invariant of HttpServerProofs a slot   *)
(* is open exactly while its descriptor is registered with epoll, so that  *)
(* the steps are told apart by what they do to interest.                   *)
(***************************************************************************)
EXTENDS HttpServerProofs, FiniteSetTheorems

\* The four ways a step can treat the counters and the registered slots.
Kept ==
    /\ \A fd \in Slots : interest'[fd] = "closed" <=> interest[fd] = "closed"
    /\ UNCHANGED <<unprocessed, allocFailures>>

Closed(fd) ==
    /\ interest[fd] # "closed"
    /\ interest' = [interest EXCEPT ![fd] = "closed"]
    /\ unprocessed' = unprocessed - 1 /\ UNCHANGED allocFailures

Opened(fd) ==
    /\ interest[fd] = "closed"
    /\ interest' = [interest EXCEPT ![fd] = "in"]
    /\ unprocessed' = unprocessed + 1 /\ UNCHANGED allocFailures

Refused ==
    /\ interest' = interest
    /\ unprocessed' = unprocessed + 1 /\ allocFailures' = allocFailures + 1

Counted == Kept \/ Refused \/ \E fd \in Slots : Closed(fd) \/ Opened(fd)

\* A registered slot that is registered for something else stays registered.
LEMMA ArmedIsKept ==
  ASSUME TypeOK, NEW fd \in Slots, interest[fd] # "closed",
         NEW x \in {"in", "none", "out"},
         interest' = [interest EXCEPT ![fd] = x],
         UNCHANGED <<unprocessed, allocFailures>>
  PROVE  Kept
BY SlotsAreDescriptors DEF Kept, TypeOK

\* The handler of an event keeps its connection or closes it, once.
LEMMA HandlerCounted ==
  ASSUME IInv, NEW e, HandleEvent(e)
  PROVE  Counted
<1> DEFINE fd == e.fd
<1>1. TypeOK /\ ConnInv
  BY Zenon DEF IInv
<1>2. Handling(e)
  BY Zenon DEF HandleEvent, HangUp, ReadFails, ReadTooLarge, ReadWouldBlock,
     ReadPartOfHeader, ReadHeader, SendNothing, SendFails, SendPart, SendAll,
     Reading, Sending
<1>3. /\ fd \in Slots /\ interest[fd] # "closed" /\ UNCHANGED allocFailures
  <2>1. fd \in Slots /\ SlotOK(fd) /\ requests[fd] # Null
    BY <1>1, <1>2, HandlingEffect, Zenon
  <2> QED
    BY <1>2, <2>1, Zenon DEF SlotOK, Handling
<1>4. CASE CloseAllSocketsAndClearData(fd)
  BY <1>3, <1>4, Zenon DEF CloseAllSocketsAndClearData, Counted, Closed
<1>5. CASE interest' = interest /\ UNCHANGED unprocessed
  BY <1>3, <1>5, Zenon DEF Counted, Kept
<1>6. CASE /\ \E x \in {"in", "none", "out"} : interest' = [interest EXCEPT ![fd] = x]
           /\ UNCHANGED unprocessed
  BY <1>1, <1>3, <1>6, ArmedIsKept, Zenon DEF Counted
<1>7. ASSUME NEW b, NEW r, AnswerDirectly(fd, b, r) PROVE Counted
  BY <1>4, <1>6, <1>7, Zenon DEF AnswerDirectly, WriteToOutputBuffer, ModifyFails
<1>8. ASSUME NEW p, NEW b, NEW r, AllocateTask(p, fd, b, r) PROVE Counted
  BY <1>6, <1>8, Zenon DEF AllocateTask
<1>9. ASSUME NEW b, NEW r, Dispatch(fd, b, r) PROVE Counted
  BY <1>4, <1>7, <1>8, <1>9, Zenon DEF Dispatch, ModifyFails
<1>10. CASE ReadHeader(e)
  BY <1>5, <1>9, <1>10, ZenonT(60) DEF ReadHeader
<1>11. CASE ReadTooLarge(e)
  BY <1>4, <1>6, <1>11, Zenon
  DEF ReadTooLarge, WriteToOutputBuffer, WriteFailsUnnoticed, ModifyFails
<1>12. CASE SendAll(e)
  BY <1>4, <1>6, <1>12, Zenon DEF SendAll, ModifyFails
<1>13. CASE ReadWouldBlock(e) \/ SendNothing(e) \/ ReadPartOfHeader(e) \/ SendPart(e)
  BY <1>5, <1>13, Zenon DEF ReadWouldBlock, SendNothing, ReadPartOfHeader, SendPart, connVars
<1> QED
  BY <1>4, <1>10, <1>11, <1>12, <1>13, Zenon DEF HandleEvent, HangUp, ReadFails, SendFails

\* So does the scan, and the drain closes no slot that is closed already,
\* because a result that passes the comparison of time points has a waiting
\* connection.
LEMMA NextCounted ==
  ASSUME IInv, [Next]_vars
  PROVE  Counted
<1>1. TypeOK /\ ConnInv /\ TaskHasOneOwner /\ TaskType
  BY TypeParts DEF IInv
<1>2. CASE UNCHANGED connVars /\ UNCHANGED allocFailures
  BY <1>2, Zenon DEF Counted, Kept, connVars
<1>3. ASSUME NEW fd \in Slots, requests[fd] # Null, UNCHANGED allocFailures,
             \/ CloseAllSocketsAndClearData(fd)
             \/ \E b, r, n, what : WriteToOutputBuffer(fd, b, r, n, what)
      PROVE  Counted
  <2>1. interest[fd] # "closed"
    BY <1>1, <1>3, Zenon DEF ConnInv, SlotOK
  <2>2. CASE CloseAllSocketsAndClearData(fd)
    BY <1>3, <2>1, <2>2, Zenon DEF CloseAllSocketsAndClearData, Counted, Closed
  <2>3. ASSUME NEW b, NEW r, NEW n, NEW what, WriteToOutputBuffer(fd, b, r, n, what)
        PROVE  Counted
    <3>1. /\ interest' = [interest EXCEPT ![fd] = "out"] /\ "out" \in {"in", "none", "out"}
          /\ UNCHANGED <<unprocessed, allocFailures>>
      BY <1>3, <2>3, Zenon DEF WriteToOutputBuffer
    <3> QED
      BY <1>1, <2>1, <3>1, ArmedIsKept, Zenon DEF Counted
  <2> QED
    BY <1>3, <2>2, <2>3, Zenon
<1>4. CASE CheckTimeLimit
  <2>1. slot \in Slots
    BY <1>1, <1>4, ConstantsAssumption DEF CheckTimeLimit, InScan, Slots, TypeOK
  <2>2. UNCHANGED allocFailures
    BY <1>4, Zenon DEF CheckTimeLimit
  <2> QED
    BY <1>2, <1>3, <1>4, <2>1, <2>2, Zenon
    DEF CheckTimeLimit, RequestTimeout, WriteFailsUnnoticed, ModifyFails
<1>5. CASE DrainPerformed
  <2> DEFINE p  == Head(performedTasksQueue)
             fd == tasks[p].fd
  <2>1. p \in PtrTask /\ tasks[p] # Null /\ fd \in Slots
    BY <1>1, <1>5, DrainKeepsOwners, Zenon DEF Allocated, TaskType, Task
  <2>2. StillAlive(p) => requests[fd] # Null
    BY <1>1, <2>1, Zenon DEF ConnInv, SlotOK, StillAlive
  <2>3. UNCHANGED allocFailures
    BY <1>5 DEF DrainPerformed, envVars
  <2> QED
    BY <1>2, <1>3, <1>5, <2>1, <2>2, <2>3, Zenon DEF DrainPerformed, ModifyFails
<1>6. CASE Accept
  <2>1. CASE AcceptRefused
    BY <1>2, <2>1, Zenon DEF AcceptRefused
  <2>2. ASSUME NEW fd \in Descriptors, AcceptConnection(fd) PROVE Counted
    <3>1. fd \in Slots
      BY <2>2, ConstantsAssumption DEF AcceptConnection, Descriptors, Slots
    <3> QED
      BY <2>2, <3>1, Zenon DEF AcceptConnection, Counted, Opened
  <2>3. ASSUME NEW fd \in Descriptors, AcceptWithoutMemory(fd) PROVE Counted
    BY <2>3, Zenon DEF AcceptWithoutMemory, Counted, Refused
  <2> QED
    BY <1>6, <2>1, <2>2, <2>3, Zenon DEF Accept
<1>7. CASE EndScan \/ EndDrain \/ EpollWait \/ EndEvents \/ TasksHandler
  BY <1>2, <1>7, Zenon DEF EndScan, EndDrain, EpollWait, EndEvents, TasksHandler,
     TakeTask, FinishTask, envVars
<1>8. ASSUME NEW fd \in Slots, Elapse(fd) PROVE Counted
  BY <1>8, Zenon DEF Elapse, envVars, Counted, Kept
<1>9. CASE UNCHANGED vars
  BY <1>2, <1>9 DEF vars, envVars
<1> QED
  BY <1>4, <1>5, <1>6, <1>7, <1>8, <1>9, HandlerCounted, Zenon DEF Next, Loop, Halted

\* A closed connection is taken off the count, an opened one is put on it.
LEMMA CountKept ==
  ASSUME IInv, IInv', ConnectionsBalance, Counted
  PROVE  ConnectionsBalance'
<1> DEFINE S == {fd \in Slots : interest[fd] # "closed"}
           T == {fd \in Slots : interest'[fd] # "closed"}
<1>1. /\ S = {fd \in Slots : Open(fd)} /\ T = {fd \in Slots : Open(fd)'}
      /\ \A fd \in Slots : fd \in Descriptors
  <2>1. \A fd \in Slots : SlotOK(fd) /\ SlotOK(fd)'
    BY Zenon DEF IInv, ConnInv
  <2>2. \A fd \in Slots : Open(fd) <=> interest[fd] # "closed"
    BY <2>1, Zenon DEF SlotOK, Open
  <2>3. \A fd \in Slots : Open(fd)' <=> interest'[fd] # "closed"
    BY <2>1, Zenon DEF SlotOK, Open
  <2> QED
    BY <2>2, <2>3, SlotsAreDescriptors, Zenon
<1>2. /\ unprocessed \in Int /\ allocFailures \in Int
      /\ interest \in [Descriptors -> {"closed", "in", "none", "out"}]
  BY ConstantsAssumption DEF IInv, TypeOK
<1>3. unprocessed = Cardinality(S) + allocFailures
  BY <1>1 DEF ConnectionsBalance
<1>4. IsFiniteSet(Slots)
  BY FS_Interval, ConstantsAssumption DEF Slots
<1>5. IsFiniteSet(S) /\ Cardinality(S) \in Nat
  BY <1>4, FS_Subset, FS_CardinalityType
<1>6. unprocessed' = Cardinality(T) + allocFailures'
  <2>1. CASE Kept
    <3>1. S = T
      BY <2>1, Zenon DEF Kept
    <3> QED
      BY <1>3, <2>1, <3>1 DEF Kept
  <2>2. CASE Refused
    BY <1>2, <1>3, <1>5, <2>2 DEF Refused
  <2>3. ASSUME NEW fd \in Slots, Closed(fd) PROVE unprocessed' = Cardinality(T) + allocFailures'
    <3>1. T = S \ {fd} /\ fd \in S
      BY <1>1, <1>2, <2>3 DEF Closed
    <3>2. Cardinality(T) = Cardinality(S) - 1
      BY <1>5, <3>1, FS_RemoveElement
    <3> QED
      BY <1>2, <1>3, <1>5, <2>3, <3>2 DEF Closed
  <2>4. ASSUME NEW fd \in Slots, Opened(fd) PROVE unprocessed' = Cardinality(T) + allocFailures'
    <3>1. T = S \cup {fd} /\ fd \notin S
      BY <1>1, <1>2, <2>4 DEF Opened
    <3>2. Cardinality(T) = Cardinality(S) + 1
      BY <1>5, <3>1, FS_AddElement
    <3> QED
      BY <1>2, <1>3, <1>5, <2>4, <3>2 DEF Opened
  <2> QED
    BY <2>1, <2>2, <2>3, <2>4, Zenon DEF Counted
<1> QED
  BY <1>1, <1>6 DEF ConnectionsBalance

\* However many connections there are and however they end - a hang-up, a
\* failed call, a timeout, a last response - the difference of the two
\* counters of the statistics page is the number of open connections, plus
\* those that server.cpp:399-413 refused for lack of memory.
THEOREM ConnectionsAlwaysBalance == Spec => []ConnectionsBalance
<1>1. Init => ConnectionsBalance
  <2> SUFFICES ASSUME Init PROVE ConnectionsBalance
    OBVIOUS
  <2>1. {fd \in Slots : Open(fd)} = {}
    BY Zenon DEF Init, Open
  <2>2. Cardinality({}) = 0
    BY FS_EmptySet
  <2>3. unprocessed = 0 /\ allocFailures = 0
    BY Zenon DEF Init
  <2> QED
    BY <2>1, <2>2, <2>3, 0 = 0 + 0 DEF ConnectionsBalance
<1>2. ASSUME IInv, IInv', ConnectionsBalance, [Next]_vars PROVE ConnectionsBalance'
  <2>1. Counted
    BY <1>2, NextCounted, Zenon
  <2> QED
    BY <1>2, <2>1, CountKept, Zenon
<1> QED
  BY <1>1, <1>2, Inductive, PTL DEF Spec

=============================================================================
