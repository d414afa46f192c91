----------------------------- MODULE HttpServer -----------------------------
(***************************************************************************)
(* The event loop of onyxup::HttpServer (server/server.cpp, run), the      *)
(* slots it keeps per descriptor, the three task queues and the worker     *)
(* threads (tasksHandler).                                                 *)
(*                                                                         *)
(* One loop thread owns the slots.  An iteration has four phases: the      *)
(* time-limit scan, the drain of the performed tasks, epoll_wait, and the  *)
(* handling of the reported events.  Worker threads meet the loop only at  *)
(* the queues, which are atomic here.                                      *)
(*                                                                         *)
(* A request is handed to a worker as a heap-allocated task that carries   *)
(* the descriptor and a copy of aliveSockets[fd].  When the task comes     *)
(* back the loop decides by comparing the two time points whether the      *)
(* connection is still the one that asked (server.cpp:347).                *)
(*                                                                         *)
(* Bytes are counted, not represented.  What the peer and the kernel do    *)
(* (which events are reported, what recv and send return, how the input    *)
(* parses) is chosen freely among the outcomes the code distinguishes.     *)
(***************************************************************************)
EXTENDS Integers, Sequences, FiniteSets

CONSTANTS
    Null,                   \* nullptr
    PtrTask,                \* the addresses a task can be allocated at
    TimePoint,              \* readings of steady_clock
    LocalWorkers,           \* ids of the threads that serve tasksQueue
    MaxDescriptor,          \* accept returns a descriptor in 0..MaxDescriptor
    MaxConnection,          \* maxConnection
    LimitLocalTasks,        \* limitLocalTasks
    MaxInputBufferLength,   \* maxInputBufferLength
    MaxOutputBufferLength,  \* maxOutputBufferLength
    RecvLength,             \* sizeof(data) of the recv call, 4096
    ScanWidth,              \* slots examined per iteration, 100
    MaxEvents,              \* maxEventsEpoll
    BodyLengths,            \* the Content-Length values peers announce
    KeepAliveAsked,         \* BOOLEAN: whether peers send Connection: Keep-Alive
    ResponseLengths,        \* the lengths of the handlers' responses
    NoticeLength,           \* length of a 404, 408 or 503 response
    TooLargeLength,         \* length of a 413 response
    RouteTypes,             \* task types of the routes that were added
    SystemCallsFail,        \* {FALSE}, or BOOLEAN: epoll_ctl may fail, and
                            \* recv on a readable socket may return EWOULDBLOCK
    MaxAllocFailures,       \* bound: failed allocations at accept
    MaxUnsent               \* bound: unsent bytes at which time stops passing

ASSUME ConstantsAssumption ==
    /\ MaxConnection \in Nat \ {0}
    /\ MaxDescriptor \in Nat /\ MaxConnection - 1 <= MaxDescriptor
    /\ LimitLocalTasks \in Nat
    /\ MaxInputBufferLength \in Nat /\ MaxOutputBufferLength \in Nat
    /\ RecvLength \in Nat \ {0} /\ ScanWidth \in Nat \ {0} /\ MaxEvents \in Nat
    /\ BodyLengths \subseteq Nat /\ ResponseLengths \subseteq Nat \ {0}
    /\ KeepAliveAsked \subseteq BOOLEAN
    /\ NoticeLength \in Nat \ {0} /\ TooLargeLength \in Nat \ {0}
    /\ TooLargeLength < MaxOutputBufferLength
    /\ RouteTypes \subseteq {"LOCAL_TASK", "STATIC_RESOURCES_TASK", "JSON_RPC_TASK"}
    /\ SystemCallsFail \subseteq BOOLEAN
    /\ MaxAllocFailures \in Nat /\ MaxUnsent \in Nat
    /\ TimePoint # {}
    /\ 0 \notin LocalWorkers
    /\ Null \notin PtrTask

VARIABLES
    interest,             \* the epoll registration of every descriptor
    buffers,              \* buffers[fd]
    requests,             \* requests[fd]
    aliveSockets,         \* aliveSockets[fd]
    overdue,              \* now - aliveSockets[fd] exceeds the time limit
    unprocessed,          \* connections accepted - connections processed, as
                          \* counted when statistics are enabled
    tasks,                \* the heap of tasks
    tasksQueue,           \* pointers to tasks for the local workers
    staticTasksQueue,     \* pointers to tasks for the static worker
    performedTasksQueue,  \* pointers to tasks with a response
    worker,               \* the task a worker thread is executing
    phase,                \* where the loop thread is in its iteration
    slot,                 \* i, the slot the scan is at
    counter,              \* counter_check_limit_time_request
    incoming,             \* the listening socket is among the events
    batch,                \* the other events not yet handled
    allocFailures,        \* failed allocations so far
    running               \* FALSE once the process has died

connVars == <<interest, buffers, requests, aliveSockets, overdue, unprocessed>>
taskVars == <<tasks, tasksQueue, staticTasksQueue, performedTasksQueue, worker>>
scanVars == <<slot, counter>>
envVars  == <<allocFailures, running>>
vars == <<connVars, taskVars, phase, scanVars, incoming, batch, envVars>>

Descriptors == 0 .. MaxDescriptor
Slots       == 0 .. MaxConnection - 1
Workers     == {0} \cup LocalWorkers

-----------------------------------------------------------------------------
(* Buffers, requests and tasks *)

\* What the unsent output consists of: nothing, a handler's response, a
\* response of the loop itself (404, 408, 413, 503), or bytes of more than
\* one response written over each other.
Contents == {"none", "answer", "notice", "mixed"}

\* headerEnd is what the parser last found in the input while the body is
\* still awaited, 0 otherwise.
Buffer == [posIn : Nat, posOut : Nat, bytesToSend : Nat,
           headerEnd : Nat, content : Contents]

\* fullURI stands for a non-empty fullUri, keepAlive for the header
\* "connection" being "Keep-Alive".  pending is history: the task the
\* connection is waiting for.
Request == [headerAccept : BOOLEAN, bodyExists : BOOLEAN, bodyAccept : BOOLEAN,
            closingConnect : BOOLEAN, fullURI : BOOLEAN, keepAlive : BOOLEAN,
            contentLength : Nat, pending : PtrTask \cup {Null}]

Event == [fd : Descriptors, kind : {"hangup", "in", "out"}]

Task == [fd : Slots, timePoint : TimePoint, responseLength : Nat]

\* nullptr is no object.
ASSUME NullAssumption ==
    Null \notin Buffer /\ Null \notin Request /\ Null \notin Task

bufferFactory ==
    [posIn |-> 0, posOut |-> 0, bytesToSend |-> 0, headerEnd |-> 0,
     content |-> "none"]

requestFactory ==
    [headerAccept |-> FALSE, bodyExists |-> FALSE, bodyAccept |-> FALSE,
     closingConnect |-> FALSE, fullURI |-> FALSE, keepAlive |-> FALSE,
     contentLength |-> 0, pending |-> Null]

BufferClear(b) ==
    [b EXCEPT !.posIn = 0, !.posOut = 0, !.bytesToSend = 0, !.headerEnd = 0,
              !.content = "none"]

\* Mutant: the body flags survive.
RequestClear_KeepsBodyFlags(r) ==
    [requestFactory EXCEPT !.closingConnect = r.closingConnect,
                           !.bodyExists = r.bodyExists,
                           !.bodyAccept = r.bodyAccept]

\* Everything but closingConnect.
RequestClear(r) == [requestFactory EXCEPT !.closingConnect = r.closingConnect]

\* addDataToOutputBuffer copies to outputBuffer + posOutputBuffer, over any
\* bytes that still wait there.
AddDataToOutputBuffer(b, n, what) ==
    [b EXCEPT !.bytesToSend = @ + n,
              !.content = IF b.bytesToSend = 0 THEN what ELSE "mixed"]

\* Mutant: the length of the response is left out of the comparison.
Written_IgnoresLength(b, n, what) ==
    IF b.posOut >= MaxOutputBufferLength
    THEN AddDataToOutputBuffer(BufferClear(b), TooLargeLength, "notice")
    ELSE AddDataToOutputBuffer(b, n, what)

\* The buffer after writeToOutputBuffer: a response that does not fit is
\* replaced by a 413 in the cleared buffer.
Written(b, n, what) ==
    IF b.posOut + n >= MaxOutputBufferLength
    THEN [AddDataToOutputBuffer(BufferClear(b), TooLargeLength, "notice")
            EXCEPT !.content = IF b.bytesToSend = 0 THEN "notice" ELSE "mixed"]
    ELSE AddDataToOutputBuffer(b, n, what)

Allocated == {p \in PtrTask : tasks[p] # Null}

\* The readings steady_clock may return for fd: the clock never shows again
\* a time that a task for fd still holds.
FreshTimes(fd) ==
    TimePoint \ {tasks[p].timePoint : p \in {q \in Allocated : tasks[q].fd = fd}}

\* aliveSockets[fd] = steady_clock::now()
Stamp(fd) ==
    /\ FreshTimes(fd) # {}
    /\ aliveSockets' = [aliveSockets EXCEPT ![fd] =
                            CHOOSE t \in FreshTimes(fd) : TRUE]
    /\ overdue' = [overdue EXCEPT ![fd] = FALSE]

-----------------------------------------------------------------------------
(* Operations shared by the handlers *)

\* Mutants: the close does not touch aliveSockets; it is not counted.
CloseAllSocketsAndClearData_NoStamp(fd) ==
    /\ interest' = [interest EXCEPT ![fd] = "closed"]
    /\ buffers'  = [buffers EXCEPT ![fd] = Null]
    /\ requests' = [requests EXCEPT ![fd] = Null]
    /\ unprocessed' = unprocessed - 1
    /\ UNCHANGED <<aliveSockets, overdue>>

CloseAllSocketsAndClearData_NotCounted(fd) ==
    /\ interest' = [interest EXCEPT ![fd] = "closed"]
    /\ buffers'  = [buffers EXCEPT ![fd] = Null]
    /\ requests' = [requests EXCEPT ![fd] = Null]
    /\ Stamp(fd)
    /\ UNCHANGED unprocessed

CloseAllSocketsAndClearData(fd) ==
    /\ interest' = [interest EXCEPT ![fd] = "closed"]
    /\ buffers'  = [buffers EXCEPT ![fd] = Null]
    /\ requests' = [requests EXCEPT ![fd] = Null]
    /\ Stamp(fd)
    /\ unprocessed' = unprocessed - 1

\* Mutant: the descriptor is not armed for EPOLLOUT.
WriteToOutputBuffer_NotArmed(fd, b, r, n, what) ==
    /\ buffers'  = [buffers EXCEPT ![fd] = Written(b, n, what)]
    /\ requests' = [requests EXCEPT ![fd] = r]
    /\ interest' = [interest EXCEPT ![fd] = "none"]
    /\ UNCHANGED unprocessed

\* writeToOutputBuffer when epoll_ctl succeeds.  b and r are the buffer and
\* the request as the calling handler has them.
WriteToOutputBuffer(fd, b, r, n, what) ==
    /\ buffers'  = [buffers EXCEPT ![fd] = Written(b, n, what)]
    /\ requests' = [requests EXCEPT ![fd] = r]
    /\ interest' = [interest EXCEPT ![fd] = "out"]
    /\ UNCHANGED unprocessed

\* EPOLL_CTL_MOD fails, and the slot is cleared.
ModifyFails(fd) ==
    /\ TRUE \in SystemCallsFail
    /\ CloseAllSocketsAndClearData(fd)

\* writeToOutputBuffer fails, and the caller, which ignores its result, goes
\* on to write through requests[fd], now nullptr.
WriteFailsUnnoticed(fd) ==
    /\ ModifyFails(fd)
    /\ running' = FALSE

-----------------------------------------------------------------------------
(* The time-limit scan *)

\* Mutant: the last slot is never examined.
InScan_LastSlotMissed ==
    /\ running /\ phase = "scan"
    /\ slot < MaxConnection - 1 /\ slot < counter + ScanWidth

InScan ==
    /\ running /\ phase = "scan"
    /\ slot < MaxConnection /\ slot < counter + ScanWidth

\* Mutant: the connection is not marked for closing.
TimedOut_NotClosing(r) == [r EXCEPT !.pending = Null]

\* The request once 408 has been written for it.
TimedOut(r) == [r EXCEPT !.closingConnect = TRUE, !.pending = Null]

\* Mutant: aliveSockets keeps the time the task was given.
RequestTimeout_NoStamp(fd) ==
    /\ WriteToOutputBuffer(fd, buffers[fd], TimedOut(requests[fd]),
                           NoticeLength, "notice")
    /\ overdue' = [overdue EXCEPT ![fd] = FALSE]
    /\ UNCHANGED aliveSockets

\* The limit has passed for the request in slot fd.
RequestTimeout(fd) ==
    /\ WriteToOutputBuffer(fd, buffers[fd], TimedOut(requests[fd]),
                           NoticeLength, "notice")
    /\ Stamp(fd)

\* A request whose header is not there yet is dropped; any other is told 408
\* and marked for closing.
CheckTimeLimit ==
    /\ InScan
    /\ slot' = slot + 1
    /\ UNCHANGED <<taskVars, phase, counter, incoming, batch, allocFailures>>
    /\ \/ /\ requests[slot] = Null \/ ~overdue[slot]
          /\ UNCHANGED <<connVars, running>>
       \/ /\ requests[slot] # Null /\ overdue[slot]
          /\ ~requests[slot].fullURI
          /\ CloseAllSocketsAndClearData(slot)
          /\ UNCHANGED running
       \/ /\ requests[slot] # Null /\ overdue[slot]
          /\ requests[slot].fullURI
          /\ \/ RequestTimeout(slot) /\ UNCHANGED running
             \/ WriteFailsUnnoticed(slot)

EndScan ==
    /\ running /\ phase = "scan" /\ ~InScan
    /\ phase' = "drain"
    /\ counter' = (counter + ScanWidth) % MaxConnection
    /\ UNCHANGED <<connVars, taskVars, slot, incoming, batch, envVars>>

-----------------------------------------------------------------------------
(* The performed tasks *)

\* The test of server.cpp:347.
StillAlive(p) == tasks[p].timePoint = aliveSockets[tasks[p].fd]

\* Mutant: a task that comes too late is not deleted.
DeleteTask_OnlyIfAlive(p) ==
    IF StillAlive(p) THEN [tasks EXCEPT ![p] = Null] ELSE tasks

DeleteTask(p) == [tasks EXCEPT ![p] = Null]

\* One turn of the while loop: the response is written if the connection is
\* still the one that asked, and the task is deleted.
DrainPerformed ==
    /\ running /\ phase = "drain" /\ performedTasksQueue # <<>>
    /\ LET p  == Head(performedTasksQueue)
           fd == tasks[p].fd
       IN  /\ tasks' = DeleteTask(p)
           /\ performedTasksQueue' = Tail(performedTasksQueue)
           /\ \/ /\ StillAlive(p)
                 /\ \/ /\ WriteToOutputBuffer(fd, buffers[fd],
                              [requests[fd] EXCEPT !.pending = Null],
                              tasks[p].responseLength, "answer")
                       /\ UNCHANGED <<aliveSockets, overdue>>
                    \/ ModifyFails(fd)
              \/ /\ ~StillAlive(p)
                 /\ UNCHANGED connVars
    /\ UNCHANGED <<tasksQueue, staticTasksQueue, worker>>
    /\ UNCHANGED <<phase, scanVars, incoming, batch, envVars>>

EndDrain ==
    /\ running /\ phase = "drain" /\ performedTasksQueue = <<>>
    /\ phase' = "wait"
    /\ UNCHANGED <<connVars, taskVars, scanVars, incoming, batch, envVars>>

-----------------------------------------------------------------------------
(* epoll_wait *)

\* What the kernel may report for fd: a hang-up or error at any time, or the
\* readiness the loop has asked for.
ReadyEvents ==
    {e \in Event : /\ interest[e.fd] # "closed"
                   /\ e.kind \in {"hangup", interest[e.fd]}}

\* One event per descriptor, MaxEvents in all, none when the 100 ms are over.
EpollWait ==
    /\ running /\ phase = "wait"
    /\ phase' = "events"
    /\ batch' \in SUBSET ReadyEvents
    /\ \A e, f \in batch' : e.fd = f.fd => e = f
    /\ incoming' \in BOOLEAN
    /\ Cardinality(batch') + (IF incoming' THEN 1 ELSE 0) <= MaxEvents
    /\ UNCHANGED <<connVars, taskVars, scanVars, envVars>>

EndEvents ==
    /\ running /\ phase = "events" /\ batch = {} /\ ~incoming
    /\ phase' = "scan"
    /\ slot' = counter
    /\ UNCHANGED <<connVars, taskVars, counter, incoming, batch, envVars>>

\* The turn of event e.
Handling(e) ==
    /\ running /\ phase = "events" /\ e \in batch
    /\ batch' = batch \ {e}
    /\ UNCHANGED <<phase, scanVars, incoming, allocFailures>>

\* Mutant: no "continue", the event goes on to the next branch.
HangUp_FallsThrough(e) ==
    /\ running /\ phase = "events" /\ e \in batch /\ e.kind = "hangup"
    /\ batch' = (batch \ {e}) \cup {[e EXCEPT !.kind = "in"]}
    /\ CloseAllSocketsAndClearData(e.fd)
    /\ UNCHANGED <<phase, scanVars, incoming, taskVars, envVars>>

HangUp(e) ==
    /\ Handling(e) /\ e.kind = "hangup"
    /\ CloseAllSocketsAndClearData(e.fd)
    /\ UNCHANGED <<taskVars, running>>

-----------------------------------------------------------------------------
(* Accepting a connection *)

Accepting ==
    /\ running /\ phase = "events" /\ incoming
    /\ incoming' = FALSE
    /\ UNCHANGED <<taskVars, phase, scanVars, batch, running>>

\* accept, fcntl or EPOLL_CTL_ADD fails, or the descriptor has no slot.
AcceptRefused ==
    /\ Accepting
    /\ UNCHANGED <<connVars, allocFailures>>

\* The kernel returns a descriptor that is not open.
AcceptConnection(fd) ==
    /\ Accepting
    /\ interest[fd] = "closed" /\ fd <= MaxConnection - 1
    /\ interest' = [interest EXCEPT ![fd] = "in"]
    /\ unprocessed' = unprocessed + 1
    /\ Stamp(fd)
    /\ buffers'  = [buffers EXCEPT ![fd] = bufferFactory]
    /\ requests' = [requests EXCEPT ![fd] = requestFactory]
    /\ UNCHANGED allocFailures

\* bufferFactory or requestFactory returns nullptr: the connection has been
\* counted as accepted and is closed without being counted as processed.
AcceptWithoutMemory(fd) ==
    /\ Accepting
    /\ interest[fd] = "closed" /\ fd <= MaxConnection - 1
    /\ allocFailures < MaxAllocFailures
    /\ allocFailures' = allocFailures + 1
    /\ unprocessed' = unprocessed + 1
    /\ Stamp(fd)
    /\ buffers'  = [buffers EXCEPT ![fd] = Null]
    /\ UNCHANGED <<interest, requests>>

-----------------------------------------------------------------------------
(* Reading a request *)

\* The loop answers at once, without a task: 404 or 503.  If the write fails
\* the log line reads the freed request, which may or may not be survived.
AnswerDirectly(fd, b, r) ==
    /\ \/ /\ WriteToOutputBuffer(fd, b, r, NoticeLength, "notice")
          /\ UNCHANGED <<aliveSockets, overdue, running>>
       \/ /\ ModifyFails(fd)
          /\ running' \in BOOLEAN
    /\ UNCHANGED taskVars

\* dispatcher allocates task p, and addTask puts it on a queue.
AllocateTask(p, fd, b, r) ==
    /\ tasks' = [tasks EXCEPT ![p] =
           [fd |-> fd, timePoint |-> aliveSockets[fd], responseLength |-> 0]]
    /\ buffers'  = [buffers EXCEPT ![fd] = b]
    /\ requests' = [requests EXCEPT ![fd] = [r EXCEPT !.pending = p]]
    /\ interest' = [interest EXCEPT ![fd] = "none"]
    /\ UNCHANGED <<aliveSockets, overdue, unprocessed, running>>
    /\ UNCHANGED <<performedTasksQueue, worker>>

\* A complete request.  The descriptor is muted, the dispatcher looks for a
\* route (and memory), and the task goes to the queue of its type; one of an
\* unknown type is deleted and the connection closed.
Dispatch(fd, b, r) ==
    \/ /\ ModifyFails(fd)
       /\ UNCHANGED <<taskVars, running>>
    \/ AnswerDirectly(fd, b, r)
    \/ /\ "LOCAL_TASK" \in RouteTypes /\ Allocated # PtrTask
       /\ Len(tasksQueue) > LimitLocalTasks
       /\ AnswerDirectly(fd, b, r)
    \/ /\ "LOCAL_TASK" \in RouteTypes
       /\ Len(tasksQueue) <= LimitLocalTasks
       /\ \E p \in PtrTask \ Allocated :
             /\ AllocateTask(p, fd, b, r)
             /\ tasksQueue' = Append(tasksQueue, p)
       /\ UNCHANGED staticTasksQueue
    \/ /\ "STATIC_RESOURCES_TASK" \in RouteTypes
       /\ \E p \in PtrTask \ Allocated :
             /\ AllocateTask(p, fd, b, r)
             /\ staticTasksQueue' = Append(staticTasksQueue, p)
       /\ UNCHANGED tasksQueue
    \/ /\ "JSON_RPC_TASK" \in RouteTypes /\ Allocated # PtrTask
       /\ CloseAllSocketsAndClearData(fd)
       /\ UNCHANGED <<taskVars, running>>

Reading(e) == Handling(e) /\ e.kind = "in"

\* recv fails, the peer has closed, or the input does not parse.
ReadFails(e) ==
    /\ Reading(e)
    /\ CloseAllSocketsAndClearData(e.fd)
    /\ UNCHANGED <<taskVars, running>>

\* posIn + res reaches the limit.  EWOULDBLOCK leaves res = -1, and with an
\* empty buffer the unsigned sum wraps round and exceeds every limit.
ReadTooLarge(e) ==
    /\ Reading(e)
    /\ \/ buffers[e.fd].posIn + RecvLength >= MaxInputBufferLength
       \/ TRUE \in SystemCallsFail /\ buffers[e.fd].posIn = 0
    /\ \/ /\ WriteToOutputBuffer(e.fd, buffers[e.fd],
                [requests[e.fd] EXCEPT !.closingConnect = TRUE,
                                       !.headerAccept = TRUE],
                TooLargeLength, "notice")
          /\ UNCHANGED <<aliveSockets, overdue, running>>
       \/ WriteFailsUnnoticed(e.fd)
    /\ UNCHANGED taskVars

\* EWOULDBLOCK with data in the buffer: a memcpy of (size_t) -1 bytes.
ReadWouldBlock(e) ==
    /\ Reading(e)
    /\ TRUE \in SystemCallsFail /\ buffers[e.fd].posIn > 0
    /\ running' = FALSE
    /\ UNCHANGED <<connVars, taskVars>>

\* n bytes are appended to the input.
InputWith(b, n) == [b EXCEPT !.posIn = @ + n]

\* n bytes that recv can deliver and the buffer can take.
Receivable(b) ==
    {n \in 1 .. RecvLength : b.posIn + n < MaxInputBufferLength}

\* The header lengths phr_parse_request may find in n more bytes.  It is told
\* one byte more than there is, so a header may end one byte past the input;
\* a header that lies in the bytes already there is found again.
HeaderEnds(b, r, n) ==
    IF r.headerAccept /\ b.headerEnd <= b.posIn
    THEN {b.headerEnd}
    ELSE b.posIn + 1 .. b.posIn + n + 1

\* The parser asks for more (-2).
ReadPartOfHeader(e) ==
    /\ Reading(e)
    /\ LET b == buffers[e.fd]
           r == requests[e.fd]
       IN  /\ r.headerAccept => b.headerEnd > b.posIn
           /\ \E n \in Receivable(b) :
                 buffers' = [buffers EXCEPT ![e.fd] = InputWith(b, n)]
    /\ UNCHANGED <<interest, requests, aliveSockets, overdue, unprocessed>>
    /\ UNCHANGED <<taskVars, running>>

\* The first successful parse fills in the request.
HeaderAccepted(r, length, keepAlive) ==
    IF r.headerAccept THEN r
    ELSE [r EXCEPT !.headerAccept = TRUE, !.fullURI = TRUE,
                   !.keepAlive = keepAlive, !.contentLength = length,
                   !.bodyExists = length # 0]

\* A header is there; the body counts only when the input ends exactly with
\* it.
ReadHeader(e) ==
    /\ Reading(e)
    /\ LET b == buffers[e.fd]
       IN  \E n \in Receivable(b), length \in BodyLengths, ka \in KeepAliveAsked :
           \E h \in HeaderEnds(b, requests[e.fd], n) :
             LET r == HeaderAccepted(requests[e.fd], length, ka)
                 c == InputWith(b, n)
             IN  IF r.bodyExists /\ c.posIn # h + r.contentLength
                 THEN /\ buffers' = [buffers EXCEPT ![e.fd] =
                                       [c EXCEPT !.headerEnd = h]]
                      /\ requests' = [requests EXCEPT ![e.fd] = r]
                      /\ UNCHANGED <<interest, aliveSockets, overdue,
                                     unprocessed, taskVars, running>>
                 ELSE Dispatch(e.fd, [c EXCEPT !.headerEnd = 0],
                               [r EXCEPT !.bodyAccept = r.bodyExists])

-----------------------------------------------------------------------------
(* Sending a response *)

Sending(e) == Handling(e) /\ e.kind = "out"

\* The conditions of server.cpp:570-574.
MaySend(fd) ==
    /\ buffers[fd].bytesToSend > 0 /\ requests[fd].headerAccept
    /\ requests[fd].bodyExists => requests[fd].bodyAccept

SendNothing(e) ==
    /\ Sending(e) /\ ~MaySend(e.fd)
    /\ UNCHANGED <<connVars, taskVars, running>>

SendFails(e) ==
    /\ Sending(e) /\ MaySend(e.fd)
    /\ CloseAllSocketsAndClearData(e.fd)
    /\ UNCHANGED <<taskVars, running>>

\* The buffer after n of its bytes are sent.
Sent(b, n) == [b EXCEPT !.bytesToSend = @ - n, !.posOut = @ + n]

SendPart(e) ==
    /\ Sending(e) /\ MaySend(e.fd)
    /\ \E n \in 1 .. buffers[e.fd].bytesToSend - 1 :
          buffers' = [buffers EXCEPT ![e.fd] = Sent(@, n)]
    /\ UNCHANGED <<interest, requests, aliveSockets, overdue, unprocessed>>
    /\ UNCHANGED <<taskVars, running>>

\* Everything is sent: the connection is closed, or made ready for the next
\* request if the peer asked for Keep-Alive.
SendAll(e) ==
    /\ Sending(e) /\ MaySend(e.fd)
    /\ IF ~requests[e.fd].closingConnect /\ requests[e.fd].keepAlive
       THEN \/ /\ buffers' = [buffers EXCEPT ![e.fd] = BufferClear(@)]
               /\ requests' = [requests EXCEPT ![e.fd] = RequestClear(@)]
               /\ interest' = [interest EXCEPT ![e.fd] = "in"]
               /\ Stamp(e.fd)
               /\ UNCHANGED unprocessed
            \/ ModifyFails(e.fd)
       ELSE CloseAllSocketsAndClearData(e.fd)
    /\ UNCHANGED <<taskVars, running>>

-----------------------------------------------------------------------------
(* Worker threads *)

\* wait_and_pop: thread 0 serves the static queue, the others the local one.
TakeTask(w) ==
    /\ running /\ worker[w] = Null
    /\ \/ /\ w # 0 /\ tasksQueue # <<>>
          /\ worker' = [worker EXCEPT ![w] = Head(tasksQueue)]
          /\ tasksQueue' = Tail(tasksQueue)
          /\ UNCHANGED staticTasksQueue
       \/ /\ w = 0 /\ staticTasksQueue # <<>>
          /\ worker' = [worker EXCEPT ![w] = Head(staticTasksQueue)]
          /\ staticTasksQueue' = Tail(staticTasksQueue)
          /\ UNCHANGED tasksQueue
    /\ UNCHANGED <<connVars, tasks, performedTasksQueue>>
    /\ UNCHANGED <<phase, scanVars, incoming, batch, envVars>>

\* The handler and the response chain have run; the task is performed.
FinishTask(w) ==
    /\ running /\ worker[w] # Null
    /\ \E n \in ResponseLengths :
          tasks' = [tasks EXCEPT ![worker[w]].responseLength = n]
    /\ performedTasksQueue' = Append(performedTasksQueue, worker[w])
    /\ worker' = [worker EXCEPT ![w] = Null]
    /\ UNCHANGED <<connVars, tasksQueue, staticTasksQueue>>
    /\ UNCHANGED <<phase, scanVars, incoming, batch, envVars>>

-----------------------------------------------------------------------------
(* Time *)

\* The time limit of the request in slot fd runs out.
Elapse(fd) ==
    /\ running /\ requests[fd] # Null /\ ~overdue[fd]
    /\ buffers[fd].bytesToSend <= MaxUnsent
    /\ overdue' = [overdue EXCEPT ![fd] = TRUE]
    /\ UNCHANGED <<interest, buffers, requests, aliveSockets, unprocessed>>
    /\ UNCHANGED <<taskVars, phase, scanVars, incoming, batch, envVars>>

-----------------------------------------------------------------------------
Init ==
    /\ interest = [fd \in Descriptors |-> "closed"]
    /\ buffers = [fd \in Slots |-> Null]
    /\ requests = [fd \in Slots |-> Null]
    /\ aliveSockets = [fd \in Slots |-> CHOOSE t \in TimePoint : TRUE]
    /\ overdue = [fd \in Slots |-> FALSE]
    /\ unprocessed = 0
    /\ tasks = [p \in PtrTask |-> Null]
    /\ tasksQueue = <<>> /\ staticTasksQueue = <<>> /\ performedTasksQueue = <<>>
    /\ worker = [w \in Workers |-> Null]
    /\ phase = "scan" /\ slot = 0 /\ counter = 0
    /\ incoming = FALSE /\ batch = {}
    /\ allocFailures = 0 /\ running = TRUE

HandleEvent(e) ==
    \/ HangUp(e)
    \/ ReadFails(e) \/ ReadTooLarge(e) \/ ReadWouldBlock(e)
    \/ ReadPartOfHeader(e) \/ ReadHeader(e)
    \/ SendNothing(e) \/ SendFails(e) \/ SendPart(e) \/ SendAll(e)

Accept ==
    \/ AcceptRefused
    \/ \E fd \in Descriptors : AcceptConnection(fd) \/ AcceptWithoutMemory(fd)

Loop ==
    \/ CheckTimeLimit \/ EndScan
    \/ DrainPerformed \/ EndDrain
    \/ EpollWait \/ Accept \/ EndEvents
    \/ \E e \in Event : HandleEvent(e)

TasksHandler == \E w \in Workers : TakeTask(w) \/ FinishTask(w)

\* The process is gone.
Halted == ~running /\ UNCHANGED vars

Next ==
    \/ Loop
    \/ TasksHandler
    \/ \E fd \in Slots : Elapse(fd)
    \/ Halted

Spec == Init /\ [][Next]_vars

-----------------------------------------------------------------------------
(* Properties *)

\* Every variable holds a value of its type.
TypeOK ==
    /\ interest \in [Descriptors -> {"closed", "in", "none", "out"}]
    /\ buffers \in [Slots -> Buffer \cup {Null}]
    /\ requests \in [Slots -> Request \cup {Null}]
    /\ aliveSockets \in [Slots -> TimePoint]
    /\ overdue \in [Slots -> BOOLEAN]
    /\ unprocessed \in Int
    /\ tasks \in [PtrTask -> Task \cup {Null}]
    /\ tasksQueue \in Seq(PtrTask)
    /\ staticTasksQueue \in Seq(PtrTask)
    /\ performedTasksQueue \in Seq(PtrTask)
    /\ worker \in [Workers -> PtrTask \cup {Null}]
    /\ phase \in {"scan", "drain", "wait", "events"}
    /\ slot \in Nat /\ counter \in Slots
    /\ incoming \in BOOLEAN
    /\ batch \subseteq Event
    /\ allocFailures \in 0 .. MaxAllocFailures
    /\ running \in BOOLEAN

Open(fd) == requests[fd] # Null

\* The comparison of time points at server.cpp:347 is exact: a task passes it
\* if and only if the connection in its slot is waiting for that very task.
\* No late result is taken for a fresh one after a timeout, a close, a reuse
\* of the descriptor or a keep-alive turn, and no awaited result is dropped.
TimePointTestExact ==
    \A p \in Allocated :
        StillAlive(p) <=> /\ Open(tasks[p].fd)
                          /\ requests[tasks[p].fd].pending = p

NoRepeats(q) == \A i, j \in DOMAIN q : q[i] = q[j] => i = j

Members(q) == {q[i] : i \in DOMAIN q}

Busy == {worker[w] : w \in Workers} \ {Null}

\* Every task is owned by exactly one party - a queue or a worker thread -
\* from taskFactory to delete: none is leaked, queued twice, or used after it
\* was deleted.
TaskHasOneOwner ==
    /\ NoRepeats(tasksQueue) /\ NoRepeats(staticTasksQueue)
    /\ NoRepeats(performedTasksQueue)
    /\ \A v, w \in Workers : worker[v] = worker[w] /\ worker[v] # Null => v = w
    /\ Members(tasksQueue) \cap Members(staticTasksQueue) = {}
    /\ Members(tasksQueue) \cap Members(performedTasksQueue) = {}
    /\ Members(staticTasksQueue) \cap Members(performedTasksQueue) = {}
    /\ Busy \cap (Members(tasksQueue) \cup Members(staticTasksQueue)
                   \cup Members(performedTasksQueue)) = {}
    /\ Members(tasksQueue) \cup Members(staticTasksQueue)
         \cup Members(performedTasksQueue) \cup Busy = Allocated

\* A descriptor that is muted (neither EPOLLIN nor EPOLLOUT) has a task on
\* its way, so that something other than the time limit will wake it again.
MutedHasTask ==
    \A fd \in Slots : interest[fd] = "none" =>
        requests[fd].pending \in Allocated

\* A connection that is read from carries nothing over from the request
\* before: no unsent output, no task, no flag of the old header or body.
ReadingStartsClean ==
    \A fd \in Slots : interest[fd] = "in" =>
        /\ buffers[fd].bytesToSend = 0 /\ buffers[fd].posOut = 0
        /\ requests[fd].pending = Null /\ ~requests[fd].closingConnect
        /\ ~requests[fd].headerAccept =>
             /\ ~requests[fd].bodyExists /\ ~requests[fd].bodyAccept
             /\ ~requests[fd].fullURI /\ ~requests[fd].keepAlive

\* Responses overwrite each other in the output buffer only when the time
\* limit strikes a connection that is still sending, and then the connection
\* is doomed: the peer never reads a second response after a broken one.
MixedOutputIsLast ==
    \A fd \in Slots : Open(fd) /\ buffers[fd].content = "mixed" =>
        requests[fd].closingConnect

\* As long as responses have not been written over each other, what is left
\* to send lies within the output buffer.
OutputFits ==
    \A fd \in Slots : Open(fd) /\ buffers[fd].content # "mixed" =>
        buffers[fd].posOut + buffers[fd].bytesToSend <= MaxOutputBufferLength

\* An event of the batch is still meant for the connection it was reported
\* for when its turn comes: the slot is in use and registered for it.
EventsNotStale ==
    \A e \in batch :
        /\ e.fd \in Slots
        /\ requests[e.fd] # Null /\ buffers[e.fd] # Null
        /\ e.kind \in {"hangup", interest[e.fd]}

\* buffers, requests and the epoll set agree on which connections exist.
SlotsAgree ==
    \A fd \in Descriptors :
        /\ fd \in Slots => (requests[fd] = Null <=> buffers[fd] = Null)
        /\ interest[fd] # "closed" <=> fd \in Slots /\ requests[fd] # Null

\* The counters of the statistics page: every accepted connection is counted
\* as processed exactly once, except those refused for lack of memory.
ConnectionsBalance ==
    unprocessed = Cardinality({fd \in Slots : Open(fd)}) + allocFailures

\* The drain changes a connection only if that connection is waiting for the
\* task being drained, and then its output buffer is empty: a late or foreign
\* response is never written, and a response never lands on another one.
AnswersPendingRequest ==
    [][\A fd \in Slots :
        /\ performedTasksQueue # <<>>
        /\ performedTasksQueue' = Tail(performedTasksQueue)
        /\ buffers'[fd] # buffers[fd]
        => /\ Open(fd) /\ requests[fd].pending = Head(performedTasksQueue)
           /\ buffers[fd].bytesToSend = 0]_vars

-----------------------------------------------------------------------------
(* Fairness and liveness *)

\* The kernel reports that fd is writable.
ReportsWritable(fd) ==
    EpollWait /\ [fd |-> fd, kind |-> "out"] \in batch'

\* The socket takes everything that is left for fd.
SendsRest(fd) == \E e \in Event : e.fd = fd /\ SendAll(e)

\* Time passes while fd waits for task p.
TimePasses(fd, p) == Open(fd) /\ requests[fd].pending = p /\ Elapse(fd)

\* The loop thread keeps running; a peer that stays connected reads what it
\* is sent; a request that waits long enough exceeds the limit.  Nothing is
\* assumed of the workers: a handler may run forever.
FairSpec ==
    /\ Spec
    /\ WF_vars(Loop)
    /\ \A fd \in Slots :
          /\ SF_vars(ReportsWritable(fd))
          /\ SF_vars(SendsRest(fd))
          /\ \A p \in PtrTask : WF_vars(TimePasses(fd, p))

Overdue(fd) == Open(fd) /\ overdue[fd]

RequestOver(fd) == Open(fd) => ~requests[fd].headerAccept /\ ~overdue[fd]

AwaitsBody(fd) ==
    Open(fd) /\ requests[fd].bodyExists /\ ~requests[fd].bodyAccept

WaitsFor(fd, p) == Open(fd) /\ requests[fd].pending = p

\* A connection does not wait for a task forever, even if the handler never
\* returns: the response is written, or the time limit ends the wait.
WaitEnds ==
    \A fd \in Slots, p \in PtrTask : WaitsFor(fd, p) ~> ~WaitsFor(fd, p)

\* A request that has been handed to a worker is followed, if the peer reads,
\* by a closed connection or by one that is ready for the next request.
DispatchedIsCompleted ==
    \A fd \in Slots :
        (\E p \in PtrTask : WaitsFor(fd, p))
            ~> (Open(fd) => ~requests[fd].headerAccept)

\* A request for which the limit has passed comes to an end - the connection
\* is closed, or its response went out just in time - unless it is stuck
\* without the end of its body.
LimitEndsRequest ==
    \A fd \in Slots : Overdue(fd) ~> RequestOver(fd) \/ AwaitsBody(fd)

\* A request that was handed over is answered and over, and one for which the
\* limit has passed comes to an end.
CompletesInTime == DispatchedIsCompleted /\ LimitEndsRequest

\* The same without the exception, which is what README.md:108 says ("Maximum
\* time of a request's execution on the server").
TimeLimitEnforced ==
    \A fd \in Slots : Overdue(fd) ~> RequestOver(fd)

\* README.md:113: "Maximum number of tasks in the queue on the server".
QueueWithinLimit == Len(tasksQueue) <= LimitLocalTasks

=============================================================================
