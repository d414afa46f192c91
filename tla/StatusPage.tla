----------------------------- MODULE StatusPage -----------------------------
(***************************************************************************)
(* The status page of StatisticsService: a worker thread counts the        *)
(* connections by walking the server's tables three times (reading,        *)
(* writing, all of them) while the loop thread, which owns the tables,     *)
(* goes on accepting, reading, sending and closing.  Nothing synchronises  *)
(* the two, and two workers that serve the page share the service's        *)
(* counters.                                                               *)
(*                                                                         *)
(* The loop is reduced to the accesses the page can see; a step is one     *)
(* assignment to the tables or the counters.  Objects are told apart only  *)
(* by what the page asks of them.                                          *)
(***************************************************************************)
EXTENDS Integers, Sequences, FiniteSets

CONSTANTS
    Readers,            \* the workers that serve the page
    MaxConnection,      \* buffersAndRequestsLength
    Word,               \* unsigned long long counts modulo this
    MaxAccepted,        \* bound: connections accepted
    MaxRequests,        \* bound: requests counted
    MaxQueued           \* bound: tasks waiting in the queues

ASSUME StatusAssumption ==
    /\ IsFiniteSet(Readers)
    /\ MaxConnection \in Nat \ {0}
    /\ MaxAccepted \in Nat /\ MaxRequests \in Nat /\ MaxQueued \in Nat
    /\ Word \in Nat /\ Word > MaxConnection /\ Word > MaxAccepted
    /\ Word > MaxRequests /\ Word > MaxQueued

VARIABLES
    slots,      \* buffers[i] and requests[i]
    loop,       \* what the loop thread is doing, and to which slot
    totals,     \* totalNumberConnectionsAccepted, -Processed, -ClientRequests;
                \* history: accepted connections that got no memory
    counts,     \* currentNumberReadRequests, -WriteRequests, -WaitRequests, -Tasks
    queued,     \* tasksQueue.size() + staticTasksQueue.size()
    reader,     \* where a worker is in the callback
    page,       \* what it has put on the page so far
    running     \* FALSE once the process has died

loopVars == <<slots, loop, totals>>
statusVars == <<loopVars, counts, queued, reader, page, running>>

Slots == 0 .. MaxConnection - 1

\* A pointer of the tables: nullptr, an object, or an object that was deleted.
Pointers == {"null", "live", "freed"}

\* header is isHeaderAccept, in and out say whether the positions of the
\* buffers are above 0.
Slot == [buffer : Pointers, request : Pointers,
         header : BOOLEAN, in : BOOLEAN, out : BOOLEAN]

NoConnection == [buffer |-> "null", request |-> "null",
                 header |-> FALSE, in |-> FALSE, out |-> FALSE]

\* What the loop may be in the middle of; "ready" is between two handlers.
Stages == {"ready", "allocate", "request", "undo", "parse", "dispatch", "count",
           "sent", "cleared", "delete", "deleteRequest", "nullBuffer",
           "nullRequest", "processed"}

\* The numbers of the page in the order callback puts them on it.
Shown == <<"accepted", "processed", "requests", "read", "write", "wait", "tasks">>

Totals == {"accepted", "processed", "requests", "failed"}
Counts == {"read", "write", "wait", "tasks"}

\* The three walks, in callback's order, then the page.
Walks == <<"read", "write", "wait">>

\* Serving the page: walk is the position in Walks (4: the page is written),
\* at the next slot or the next number, seen whether the test of the pointers
\* came out true.  History: quiet says that nobody else has moved since the
\* callback began, sound that no deleted object was asked, begun holds the
\* totals of that moment.
Reader == [walk : 0 .. 4, at : Nat, seen : BOOLEAN, quiet : BOOLEAN,
           sound : BOOLEAN, begun : [Totals -> 0 .. Word - 1]]

Resting == [walk |-> 0, at |-> 0, seen |-> FALSE, quiet |-> FALSE,
            sound |-> TRUE, begun |-> [t \in Totals |-> 0]]

StatusInit ==
    /\ slots = [i \in Slots |-> NoConnection]
    /\ loop = [at |-> "ready", slot |-> 0]
    /\ totals = [t \in Totals |-> 0]
    /\ counts = [c \in Counts |-> 0]
    /\ queued = 0
    /\ reader = [r \in Readers |-> Resting]
    /\ page = [r \in Readers |-> [n \in Totals \cup Counts |-> 0]]
    /\ running = TRUE

-----------------------------------------------------------------------------
(* The loop thread *)

\* One assignment of the loop to a slot or a total.
Assign(from, to, slot, total) == [from |-> from, to |-> to, slot |-> slot, total |-> total]

\* accept: the connection is counted, then gets a buffer and a request; either
\* allocation may fail.
Accept(s) ==
    {Assign("ready", "allocate", s, "accepted") : x \in {s} \cap {NoConnection}}
    \cup {Assign("allocate", "request", [s EXCEPT !.buffer = "live"], "none"),
          Assign("allocate", "ready", s, "failed"),
          Assign("request", "ready", [s EXCEPT !.request = "live"], "none"),
          Assign("request", "undo", [s EXCEPT !.buffer = "freed"], "failed"),
          Assign("undo", "ready", [s EXCEPT !.buffer = "null"], "none")}

\* Input: too long (413, the header counts as accepted) or appended; then the
\* header is incomplete, complete without its body, or the request is
\* complete.  The request is counted when its task is already queued.
Read(s) ==
    {Assign("ready", "ready", [s EXCEPT !.header = TRUE], "none"),
     Assign("ready", "parse", [s EXCEPT !.in = TRUE], "none"),
     Assign("parse", "ready", s, "none"),
     Assign("parse", "ready", [s EXCEPT !.header = TRUE], "none"),
     Assign("parse", "dispatch", [s EXCEPT !.header = TRUE], "none"),
     Assign("count", "ready", s, "requests")}

\* send moves the output position; when all is sent the connection stays, and
\* the buffer is cleared, then the request, or it is closed.
Send(s) ==
    {Assign("ready", to, [s EXCEPT !.out = TRUE], "none") :
        to \in {t \in {"ready", "sent", "delete"} : s.header}}
    \cup {Assign("sent", "cleared", [s EXCEPT !.in = FALSE, !.out = FALSE], "none"),
          Assign("cleared", "ready", [s EXCEPT !.header = FALSE], "none")}

\* A hang-up, an error or the time limit; the objects are deleted before the
\* tables forget them.
CloseAllSocketsAndClearData(s) ==
    {Assign("ready", "delete", s, "none"),
     Assign("delete", "deleteRequest", [s EXCEPT !.buffer = "freed"], "none"),
     Assign("deleteRequest", "nullBuffer", [s EXCEPT !.request = "freed"], "none"),
     Assign("nullBuffer", "nullRequest", [s EXCEPT !.buffer = "null"], "none"),
     Assign("nullRequest", "processed", NoConnection, "none"),
     Assign("processed", "ready", s, "processed")}

\* The handlers that need a connection in the slot.
LoopHandlers(s) ==
    {a \in Read(s) \cup Send(s) \cup CloseAllSocketsAndClearData(s) :
        a.from = "ready" => s.buffer = "live" /\ s.request = "live"}

\* Somebody else moves: nobody in the set has been alone.
Disturbed(others) ==
    [r \in Readers |-> IF r \in others THEN [reader[r] EXCEPT !.quiet = FALSE]
                       ELSE reader[r]]

\* The loop goes from one stage of a handler to the next.
LoopTurn(i, a) ==
    /\ running
    /\ loop.at = a.from /\ (a.from # "ready" => loop.slot = i)
    /\ loop' = [at |-> a.to, slot |-> IF a.to = "ready" THEN 0 ELSE i]
    /\ slots' = [slots EXCEPT ![i] = a.slot]
    /\ a.total = "accepted" => totals["accepted"] < MaxAccepted
    /\ a.total = "requests" => totals["requests"] < MaxRequests
    /\ totals' = [t \in Totals |-> IF t = a.total THEN (totals[t] + 1) % Word
                                   ELSE totals[t]]
    /\ reader' = Disturbed(Readers)
    /\ UNCHANGED <<counts, page, running>>

HandleSlot(i) ==
    /\ \E a \in Accept(slots[i]) \cup LoopHandlers(slots[i]) : LoopTurn(i, a)
    /\ UNCHANGED queued

\* A task is queued, or the request is answered on the spot.
Dispatch(i) ==
    /\ LoopTurn(i, Assign("dispatch", "count", slots[i], "none"))
    /\ queued' \in {n \in {queued, queued + 1} : n <= MaxQueued}

\* The first thing of an iteration.
SetCurrentNumberTasks ==
    /\ running /\ loop.at = "ready"
    /\ counts' = [counts EXCEPT !["tasks"] = queued]
    /\ reader' = Disturbed(Readers)
    /\ UNCHANGED <<loopVars, queued, page, running>>

\* A worker takes a task of another route.
TakeOtherTask ==
    /\ running
    /\ queued > 0
    /\ queued' = queued - 1
    /\ UNCHANGED <<loopVars, counts, reader, page, running>>

-----------------------------------------------------------------------------
(* The workers that serve the page *)

\* Worker r takes a task of the status route and begins the first walk.
Start(r) ==
    /\ running
    /\ queued > 0
    /\ reader[r].walk = 0
    /\ queued' = queued - 1
    /\ counts' = [counts EXCEPT !["read"] = 0]
    /\ reader' = [Disturbed(Readers) EXCEPT ![r] =
                    [walk |-> 1, at |-> 0, seen |-> FALSE, sound |-> TRUE,
                     quiet |-> loop.at = "ready", begun |-> totals]]
    /\ UNCHANGED <<loopVars, page, running>>

\* Reader r goes on as next; other readers are not alone.
Continue(r, next) ==
    /\ running
    /\ reader' = [Disturbed(Readers) EXCEPT ![r] = next]
    /\ UNCHANGED <<loopVars, queued>>

Walking(r, walks) == reader[r].walk \in walks /\ reader[r].at \in Slots

\* if (requests[i] && buffers[i])
TestSlot(r) ==
    LET p == reader[r]
        s == slots[p.at]
    IN  /\ Walking(r, {1, 2}) /\ ~p.seen
        /\ Continue(r, IF s.request # "null" /\ s.buffer # "null"
                       THEN [p EXCEPT !.seen = TRUE]
                       ELSE [p EXCEPT !.at = @ + 1])
        /\ UNCHANGED <<counts, page, running>>

Exists(s) == s.request = "live" /\ s.buffer = "live"

\* Mutant: whatever has input counts as reading.
Answers_AnyInput(s, walk) ==
    IF ~Exists(s) THEN BOOLEAN
    ELSE {IF walk = 1 THEN s.in ELSE s.header /\ s.out}

\* The answers the objects may give: what is in them, or anything once they
\* are deleted.
Answers(s, walk) ==
    IF ~Exists(s) THEN BOOLEAN
    ELSE {IF walk = 1 THEN ~s.header /\ s.in ELSE s.header /\ s.out}

Increment(c) == counts' = [counts EXCEPT ![c] = (@ + 1) % Word]

\* The flags are read and the counter may be incremented.
CountSlot(r) ==
    LET p == reader[r]
    IN  /\ Walking(r, {1, 2}) /\ p.seen
        /\ Continue(r, [p EXCEPT !.seen = FALSE, !.at = @ + 1,
                                 !.sound = @ /\ Exists(slots[p.at])])
        /\ \E yes \in Answers(slots[p.at], p.walk) :
              IF yes THEN Increment(Walks[p.walk]) ELSE UNCHANGED counts
        /\ UNCHANGED <<page, running>>

\* A pointer that is nullptr by now is followed.
FollowNull(r) ==
    /\ running
    /\ Walking(r, {1, 2}) /\ reader[r].seen
    /\ "null" \in {slots[reader[r].at].request, slots[reader[r].at].buffer}
    /\ running' = FALSE
    /\ UNCHANGED <<loopVars, counts, queued, reader, page>>

\* computeCurrentNumberWaitRequests: every request counts.
CountAny(r) ==
    LET p == reader[r]
    IN  /\ Walking(r, {3})
        /\ Continue(r, [p EXCEPT !.at = @ + 1])
        /\ IF slots[p.at].request # "null" THEN Increment("wait") ELSE UNCHANGED counts
        /\ UNCHANGED <<page, running>>

\* The next walk begins with its counter set to 0.
EndWalk(r) ==
    LET p == reader[r]
    IN  /\ p.walk \in {1, 2} /\ p.at = MaxConnection
        /\ Continue(r, [p EXCEPT !.walk = @ + 1, !.at = 0])
        /\ counts' = [counts EXCEPT ![Walks[p.walk + 1]] = 0]
        /\ UNCHANGED <<page, running>>

\* The idle connections: what is left of all, modulo the width of the word.
Subtract(r) ==
    LET p == reader[r]
    IN  /\ p.walk = 3 /\ p.at = MaxConnection
        /\ Continue(r, [p EXCEPT !.walk = 4, !.at = 1])
        /\ counts' = [counts EXCEPT !["wait"] =
                        (@ - counts["read"] - counts["write"]) % Word]
        /\ UNCHANGED <<page, running>>

\* The numbers are put on the page one after another.
ShowPage(r) ==
    LET p == reader[r]
    IN  /\ p.walk = 4 /\ p.at \in 1 .. Len(Shown)
        /\ Continue(r, [p EXCEPT !.at = @ + 1])
        /\ page' = [page EXCEPT ![r][Shown[p.at]] =
                      IF Shown[p.at] \in Totals THEN totals[Shown[p.at]]
                      ELSE counts[Shown[p.at]]]
        /\ UNCHANGED <<counts, running>>

\* The page is returned.
Finished(r) == reader[r].walk = 4 /\ reader[r].at = Len(Shown) + 1

ReturnPage(r) ==
    /\ Finished(r)
    /\ Continue(r, Resting)
    /\ page' = [page EXCEPT ![r] = [n \in Totals \cup Counts |-> 0]]
    /\ UNCHANGED <<counts, running>>

Callback(r) ==
    \/ Start(r) \/ TestSlot(r) \/ CountSlot(r) \/ FollowNull(r) \/ CountAny(r)
    \/ EndWalk(r) \/ Subtract(r) \/ ShowPage(r) \/ ReturnPage(r)

StatusNext ==
    \/ \E i \in Slots : HandleSlot(i) \/ Dispatch(i)
    \/ SetCurrentNumberTasks
    \/ TakeOtherTask
    \/ \E r \in Readers : Callback(r)

StatusSpec == StatusInit /\ [][StatusNext]_statusVars

-----------------------------------------------------------------------------
(* Properties *)

\* Types; the differences stay in the range of the word.
StatusTypeOK ==
    /\ slots \in [Slots -> Slot]
    /\ loop \in [at : Stages, slot : Slots]
    /\ totals \in [Totals -> 0 .. Word - 1]
    /\ counts \in [Counts -> 0 .. Word - 1]
    /\ queued \in 0 .. MaxQueued
    /\ reader \in [Readers -> Reader]
    /\ page \in [Readers -> [Totals \cup Counts -> 0 .. Word - 1]]
    /\ running \in BOOLEAN

Open == {i \in Slots : slots[i].request = "live"}
Reading == {i \in Open : ~slots[i].header /\ slots[i].in}
Writing == {i \in Open : slots[i].header /\ slots[i].out}

\* A page that was made while the loop and the other workers stood still tells
\* the truth: the three walks of callback find exactly the connections that
\* read, that write, and the others.
SnapshotExact ==
    \A r \in Readers :
       Finished(r) /\ reader[r].quiet =>
          /\ page[r]["read"] = Cardinality(Reading)
          /\ page[r]["write"] = Cardinality(Writing)
          /\ page[r]["wait"] = Cardinality(Open \ (Reading \cup Writing))

\* Such a page adds up: the connections accepted and not yet processed are the
\* ones the walks have found, save those that got no memory, which
\* closeAllSocketsAndClearData never sees.
PageAddsUp ==
    \A r \in Readers :
       Finished(r) /\ reader[r].quiet =>
          page[r]["accepted"] - page[r]["processed"] - totals["failed"]
             = page[r]["read"] + page[r]["write"] + page[r]["wait"]

\* Whatever the loop does meanwhile, a total on the page was true at some moment
\* of the callback.
TotalsFresh ==
    \A r \in Readers, t \in {"accepted", "processed", "requests"} :
       Finished(r) => page[r][t] \in reader[r].begun[t] .. totals[t]

\* What the status page shows is true: a page nobody disturbed is exact and
\* adds up, and a disturbed one has totals of its own time.
PageIsTrue == SnapshotExact /\ PageAddsUp /\ TotalsFresh

=============================================================================
