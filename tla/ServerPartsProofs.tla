-------------------------- MODULE ServerPartsProofs --------------------------
(***************************************************************************)
(* Theorems about two parts of the server that share no state: the start   *)
(* and the routes.  The constructor makes a sound server, and a request is *)
(* dispatched to the earliest call of addRoute that takes it, for any      *)
(* settings, calls and requests.                                           *)
(***************************************************************************)
EXTENDS Startup, Routes, FiniteSetTheorems, WellFoundedInduction, NaturalsInduction, TLAPS

\* Steps go to the SMT solver unless they name another prover.
USE SMTT(30)

-----------------------------------------------------------------------------
(* Start: the constructor's order of steps makes a sound server.           *)

\* Where the thread that owns the server may be; past spawn the pool is full, and
\* an exception may find it as it is.
Unspawned == {"configure", "allocate", "thrown"}
Pooled == {"socket", "setsockopt", "nonblock", "bind", "listen", "epoll_create1",
           "ready", "running", "joining"}
Failing == {"performedTasksQueue", "staticTasksQueue", "tasksQueue", "threadsPool", "terminated"}

\* The workers are numbered from 0 and never more than the setting asks for;
\* before the pool is allocated there is none, and after the loop that spawns
\* them there are all.  What a worker has latched is the setting as long as
\* nobody changed it.
PoolInv ==
    /\ file \in Configurations
    /\ DOMAIN settings = Fields
    /\ settings["threads"] \in Nat
    /\ setLater \in BOOLEAN
    /\ stage \in Unspawned \cup {"spawn"} \cup Pooled \cup Failing
    /\ stage \in Unspawned => Spawned = {}
    /\ stage = "spawn" => \E k \in 0 .. settings["threads"] : Spawned = 0 .. k - 1
    /\ stage \in Pooled => Spawned = 0 .. settings["threads"] - 1
    /\ stage \in {"spawn"} \cup Pooled => settings["threads"] >= 2
    /\ WorkersFollowFile

\* The numbers 0 .. k - 1 are k.
LEMMA CountUpTo ==
    ASSUME NEW k \in Nat
    PROVE  Cardinality(0 .. k - 1) = k
<1>1. Cardinality(0 .. k - 1) = IF 0 > k - 1 THEN 0 ELSE (k - 1) - 0 + 1
  BY FS_Interval
<1> QED
  BY <1>1

LEMMA PoolInit == StartupInit => PoolInv
<1> SUFFICES ASSUME StartupInit PROVE PoolInv
  OBVIOUS
<1>1. PICK n \in Arguments : settings = Defaults(n)
  BY DEF StartupInit
<1>2. DOMAIN settings = Fields /\ settings["threads"] = n
  BY <1>1, Zenon DEF Defaults, Fields, ServerFields, ResourceFields, StatisticsFields
<1>3. Spawned = {}
  BY DEF StartupInit, Spawned
<1>4. WorkersFollowFile
  BY <1>3 DEF WorkersFollowFile
<1> QED
  BY <1>2, <1>3, <1>4, StartupAssumption, Zenon DEF StartupInit, PoolInv, Unspawned, Pooled, Failing

LEMMA PoolNext == PoolInv /\ [StartupNext]_startupVars => PoolInv'
<1> SUFFICES ASSUME PoolInv, [StartupNext]_startupVars PROVE PoolInv'
  OBVIOUS
<1> USE StartupAssumption
<1>1. CASE Configure
  <2>1. DOMAIN settings' = Fields
    BY <1>1 DEF Configure
  <2>2. settings'["threads"] \in Nat
    <3> DEFINE v == file.file["threads"]
    <3>1. file.file \in [Fields -> Value]
      BY DEF PoolInv, Configuration
    <3>2. "threads" \in Fields /\ "threads" \in ServerFields /\ "threads" \in SizeFields /\ "threads" \notin StatisticsFields
      BY DEF Fields, ServerFields, SizeFields, StatisticsFields
    <3>3. v.value \in -1 .. 3
      BY <3>1, <3>2 DEF Value
    <3>4. Get("threads", v) \in Nat
      <4>1. Get("threads", v) = IF v.value < 0 THEN Huge ELSE v.value
        BY <3>2 DEF Get
      <4> QED
        BY <4>1, <3>3 DEF Huge
    <3>5. Lookup("threads") = v
      BY <3>2 DEF Lookup
    <3> QED
      BY <1>1, <3>2, <3>4, <3>5 DEF Configure, PoolInv
  <2>3. Spawned = {} /\ Spawned' = {}
    BY <1>1 DEF Configure, PoolInv, Unspawned, Spawned
  <2>4. WorkersFollowFile'
    BY <2>3 DEF WorkersFollowFile
  <2> QED
    BY <1>1, <2>1, <2>2, <2>3, <2>4 DEF Configure, PoolInv, Unspawned, Pooled, Failing
<1>2. CASE Allocate
  <2>1. "threads" \in Fields
    BY DEF Fields, ServerFields
  <2>2. /\ DOMAIN settings' = Fields
        /\ settings'["threads"] \in Nat /\ (stage' = "spawn" => settings'["threads"] >= 2)
    BY <1>2, <2>1 DEF Allocate, Unwind, PoolInv, AtLeastTwo
  <2>3. Spawned = {} /\ Spawned' = {}
    BY <1>2 DEF Allocate, PoolInv, Unspawned, Spawned
  <2>4. WorkersFollowFile'
    BY <2>3 DEF WorkersFollowFile
  <2>5. Spawned' = 0 .. 0 - 1
    BY <2>3
  <2>6. stage' \in {"performedTasksQueue", "spawn"} /\ UNCHANGED <<file, setLater>>
    BY <1>2 DEF Allocate, Unwind
  <2> QED
    BY <2>2, <2>3, <2>4, <2>5, <2>6 DEF PoolInv, Unspawned, Pooled, Failing
<1>3. CASE Spawn
  <2>1. PICK k \in 0 .. settings["threads"] : Spawned = 0 .. k - 1
    BY <1>3 DEF Spawn, PoolInv
  <2>2. Cardinality(Spawned) = k /\ k < settings["threads"]
    BY <1>3, <2>1, CountUpTo DEF Spawn, PoolInv
  <2>3. Spawned' = 0 .. (k + 1) - 1
    BY <1>3, <2>1, <2>2 DEF Spawn, PoolInv, Spawned
  <2>4. WorkersFollowFile'
    <3>1. \A i \in Spawned' : workers'[i] = IF i \in Spawned THEN workers[i] ELSE "spawned"
      BY <1>3 DEF Spawn, Spawned
    <3> QED
      BY <1>3, <3>1, Zenon DEF Spawn, PoolInv, WorkersFollowFile
  <2>5. k + 1 \in 0 .. settings'["threads"]
    BY <1>3, <2>2 DEF Spawn, PoolInv
  <2>6. stage' = "spawn" /\ UNCHANGED <<file, settings, setLater>>
    BY <1>3 DEF Spawn
  <2>7. \E m \in 0 .. settings'["threads"] : Spawned' = 0 .. m - 1
    BY <2>3, <2>5
  <2> QED
    BY <1>3, <2>4, <2>6, <2>7 DEF Spawn, PoolInv, Unspawned, Pooled, Failing
<1>4. CASE SpawnedAll
  <2>1. PICK k \in 0 .. settings["threads"] : Spawned = 0 .. k - 1
    BY <1>4 DEF SpawnedAll, PoolInv
  <2>2. k = settings["threads"]
    BY <1>4, <2>1, CountUpTo DEF SpawnedAll, PoolInv
  <2> QED
    BY <1>4, <2>1, <2>2 DEF SpawnedAll, PoolInv, Unspawned, Pooled, Failing, Spawned, WorkersFollowFile
<1>5. CASE Call
  <2>1. stage \in Pooled /\ stage' \in Pooled
    BY <1>5 DEF Call, Calls, Pooled
  <2> QED
    BY <1>5, <2>1 DEF Call, PoolInv, Unspawned, Pooled, Failing, Spawned, WorkersFollowFile
<1>6. CASE SpawnFails \/ Throw \/ DestroyQueue
  <2>1. stage' \in Failing
    BY <1>6 DEF SpawnFails, Throw, DestroyQueue, Unwind, Unwinding, Failing
  <2>2. UNCHANGED <<file, settings, workers, setLater>>
    BY <1>6 DEF SpawnFails, Throw, DestroyQueue
  <2> QED
    BY <2>1, <2>2 DEF PoolInv, Unspawned, Pooled, Failing, Spawned, WorkersFollowFile
<1>7. CASE DestroyPool
  <2>1. stage' \in {"thrown", "terminated"} /\ (stage' = "thrown" => Spawned = {})
    BY <1>7 DEF DestroyPool
  <2>2. UNCHANGED <<file, settings, workers, setLater>>
    BY <1>7 DEF DestroyPool
  <2> QED
    BY <2>1, <2>2 DEF PoolInv, Unspawned, Pooled, Failing, Spawned, WorkersFollowFile
<1>8. ASSUME NEW i \in 0 .. MaxThreads, WorkerStarts(i) PROVE PoolInv'
  <2>1. Spawned' = Spawned
    BY <1>8 DEF WorkerStarts, Spawned
  <2>2. WorkersFollowFile'
    BY <1>8, <2>1 DEF WorkerStarts, PoolInv, WorkersFollowFile, Spawned
  <2>3. stage' = stage \/ stage' = "terminated"
    BY <1>8 DEF WorkerStarts
  <2> QED
    BY <1>8, <2>1, <2>2, <2>3 DEF WorkerStarts, PoolInv, Unspawned, Pooled, Failing
<1>9. ASSUME NEW flag \in BOOLEAN, SetCompressStaticResources(flag) PROVE PoolInv'
  <2>1. settings'["threads"] = settings["threads"] /\ DOMAIN settings' = DOMAIN settings
    BY <1>9 DEF SetCompressStaticResources, PoolInv, Fields, ServerFields
  <2>2. WorkersFollowFile' /\ setLater' \in BOOLEAN
    BY <1>9 DEF SetCompressStaticResources, WorkersFollowFile
  <2> QED
    BY <1>9, <2>1, <2>2 DEF SetCompressStaticResources, PoolInv, Spawned
<1>10. CASE Run
  BY <1>10 DEF Run, PoolInv, Unspawned, Pooled, Failing, Spawned, WorkersFollowFile
<1>11. CASE Destroy
  BY <1>11 DEF Destroy, PoolInv, Unspawned, Pooled, Failing, Spawned, WorkersFollowFile
<1>12. CASE UNCHANGED startupVars
  BY <1>12 DEF startupVars, PoolInv, Spawned, WorkersFollowFile
<1> QED
  BY <1>1, <1>2, <1>3, <1>4, <1>5, <1>6, <1>7, <1>8, <1>9, <1>10, <1>11, <1>12 DEF StartupNext

\* The constructor leaves a server whose two queues are served, or an exception and
\* no worker, or no process, and workers that follow the file: for any files,
\* arguments and number of threads, whatever fails and whenever workers start.
THEOREM StartAlwaysSound == StartupSpec => []StartIsSound
<1>1. PoolInv => StartIsSound
  <2> SUFFICES ASSUME PoolInv PROVE StartIsSound
    OBVIOUS
  <2>1. QueuesServed
    <3> SUFFICES ASSUME stage \in {"ready", "running", "joining"}
                 PROVE  0 \in Spawned /\ Spawned # {0}
      BY DEF QueuesServed
    <3>1. Spawned = 0 .. settings["threads"] - 1 /\ settings["threads"] >= 2
      BY DEF PoolInv, Pooled, Unspawned
    <3>2. 0 \in Spawned /\ 1 \in Spawned
      BY <3>1 DEF PoolInv
    <3> QED
      BY <3>2
  <2> QED
    BY <2>1 DEF PoolInv, Unspawned, StartIsSound, NoOrphanWorker
<1> QED
  BY <1>1, PoolInit, PoolNext, PTL DEF StartupSpec

-----------------------------------------------------------------------------
(* Routes: the vector of routes stands for the calls of addRoute.          *)

\* A call of addRoute takes requests of a method.
Takes(call, method) ==
    \/ ToUpper[call.method] = method
    \/ ToUpper[call.method] = "GET" /\ method = "HEAD"

AnyHandler == Handlers \cup {Statistics}
RouteRecord == [method : Methods, regex : Regexes, handler : AnyHandler]

RouteTypeOK ==
    /\ calls \in Seq(RouteRecord)
    /\ routes \in Seq(RouteRecord)
    /\ request \in [method : Methods, uri : URIs]
    /\ it \in Nat \ {0}
    /\ dispatch \in {"setup", "ready", "search", "clean", "terminated"}

\* Every route was added by a call, which has its expression and handler and
\* takes its method; routes are in the order of their calls; and a call has a
\* route for every method it takes.
Represents(origin) ==
    /\ origin \in [1 .. Len(routes) -> 1 .. Len(calls)]
    /\ \A i, j \in 1 .. Len(routes) : i < j => origin[i] <= origin[j]
    /\ \A i \in 1 .. Len(routes) :
          /\ routes[i].regex = calls[origin[i]].regex
          /\ routes[i].handler = calls[origin[i]].handler
          /\ Takes(calls[origin[i]], routes[i].method)
    /\ dispatch # "terminated" =>
          \A c \in 1 .. Len(calls), m \in Methods :
             Takes(calls[c], m) =>
                \E i \in 1 .. Len(routes) : origin[i] = c /\ routes[i].method = m

\* A GET route is followed by a HEAD route of the same expression and handler;
\* if nobody added routes for HEAD, every HEAD route is such a one.
Pair(i, j) ==
    /\ routes[i].method = "GET" /\ routes[j].method = "HEAD"
    /\ routes[i].regex = routes[j].regex /\ routes[i].handler = routes[j].handler

NoHeadCalls == \A i \in 1 .. Len(calls) : ToUpper[calls[i].method] # "HEAD"

HeadFollowsGet ==
    /\ \A i \in 1 .. Len(routes) :
          routes[i].method = "GET" => i + 1 \in 1 .. Len(routes) /\ Pair(i, i + 1)
    /\ NoHeadCalls => \A i \in 1 .. Len(routes) :
          routes[i].method = "HEAD" => i - 1 \in 1 .. Len(routes) /\ Pair(i - 1, i)

\* Nobody before the iterator matches, and what the dispatcher returned is what
\* it has found.
SearchInv ==
    /\ dispatch = "setup" => result = "none"
    /\ dispatch \in {"setup", "ready", "terminated"} => heap = {}
    /\ dispatch = "search" =>
          \A i \in 1 .. Len(routes) : i < it =>
             ~(routes[i].method = request.method /\ request.uri \in routes[i].regex)
    /\ dispatch = "clean" =>
          result = "nullptr" /\ (it <= 1 \/ \A i \in 1 .. Len(calls) : ~Meant(i, request))
    /\ EarliestRouteWins

RouteInv ==
    /\ RouteTypeOK
    /\ \E origin \in [1 .. Len(routes) -> 1 .. Len(calls)] : Represents(origin)
    /\ HeadFollowsGet
    /\ SearchInv

LEMMA RouteInvInit == RouteInit => RouteInv
<1> SUFFICES ASSUME RouteInit PROVE RouteInv
  OBVIOUS
<1> USE RoutesAssumption
<1>1. RouteTypeOK
  <2>1. (CHOOSE u \in URIs : TRUE) \in URIs
    OBVIOUS
  <2> QED
    BY <2>1 DEF RouteInit, RouteTypeOK
<1>2. Len(routes) = 0 /\ Len(calls) = 0
  BY DEF RouteInit
<1>3. Represents([i \in 1 .. Len(routes) |-> 1])
  BY <1>2 DEF Represents
<1>4. [i \in 1 .. Len(routes) |-> 1] \in [1 .. Len(routes) -> 1 .. Len(calls)]
  BY <1>2
<1>5. HeadFollowsGet
  BY <1>2 DEF HeadFollowsGet
<1>6. SearchInv
  BY DEF RouteInit, SearchInv, EarliestRouteWins
<1> QED
  BY <1>1, <1>3, <1>4, <1>5, <1>6 DEF RouteInv

\* What addRoute does to the vector: one route, or the two for GET and HEAD.
LEMMA AddedRoutes ==
    ASSUME RouteTypeOK, NEW m \in Methods, NEW r \in Regexes, NEW h \in AnyHandler
    PROVE  LET new == Added(m, r, h)
               n == Len(routes)
           IN  /\ new \in Seq(RouteRecord)
               /\ Len(new) = IF ToUpper[m] = "GET" THEN n + 2 ELSE n + 1
               /\ \A i \in 1 .. n : new[i] = routes[i]
               /\ new[n + 1] = Route(ToUpper[m], r, h)
               /\ ToUpper[m] = "GET" => new[n + 2] = Route("HEAD", r, h)
<1> USE RoutesAssumption DEF RouteTypeOK
<1>1. Route(ToUpper[m], r, h) \in RouteRecord /\ Route("HEAD", r, h) \in RouteRecord
  BY DEF Route, RouteRecord
<1>2. CASE ToUpper[m] = "GET"
  <2>1. Added(m, r, h) = Append(routes, Route(ToUpper[m], r, h)) \o <<Route("HEAD", r, h)>>
    BY <1>2 DEF Added
  <2> HIDE DEF RouteTypeOK
  <2>2. routes \in Seq(RouteRecord)
    BY DEF RouteTypeOK
  <2> QED
    BY <1>1, <1>2, <2>1, <2>2
<1>3. CASE ToUpper[m] # "GET"
  <2>1. Added(m, r, h) = Append(routes, Route(ToUpper[m], r, h)) \o <<>>
    BY <1>3 DEF Added
  <2> HIDE DEF RouteTypeOK
  <2>2. routes \in Seq(RouteRecord)
    BY DEF RouteTypeOK
  <2> QED
    BY <1>1, <1>3, <2>1, <2>2
<1> QED
  BY <1>2, <1>3

\* addRoute keeps the vector a picture of the calls.
LEMMA AddRouteKeeps ==
    ASSUME RouteInv, dispatch = "setup",
           NEW m \in Methods, NEW r \in Regexes, NEW h \in AnyHandler,
           NEW next \in {"setup", "ready"}, AddRoute(m, r, h, next)
    PROVE  RouteInv'
<1> USE RoutesAssumption
<1> DEFINE n == Len(routes)
           c == Len(calls)
<1>0. /\ calls \in Seq(RouteRecord) /\ routes \in Seq(RouteRecord)
      /\ n \in Nat /\ c \in Nat
  BY DEF RouteInv, RouteTypeOK
<1>1. Route(m, r, h) \in RouteRecord
  BY DEF Route, RouteRecord
<1>2. /\ calls' \in Seq(RouteRecord) /\ Len(calls') = c + 1
      /\ \A i \in 1 .. c : calls'[i] = calls[i]
      /\ calls'[c + 1] = Route(m, r, h)
  <2>1. calls' = Append(calls, Route(m, r, h))
    BY DEF AddRoute
  <2> QED
    BY <1>0, <1>1, <2>1
<1>3. PICK origin \in [1 .. n -> 1 .. c] : Represents(origin)
  BY DEF RouteInv
<1>4. heap' = {} /\ result' = "none" /\ UNCHANGED <<request, it>>
  BY DEF AddRoute, RouteInv, SearchInv
<1>5. CASE r = Malformed
  <2>1. routes' = routes /\ dispatch' = "terminated"
    BY <1>5 DEF AddRoute
  <2>2. RouteTypeOK'
    BY <1>0, <1>2, <1>4, <2>1 DEF RouteInv, RouteTypeOK
  <2>3. Represents(origin)'
    <3>1. \A i \in 1 .. n : calls'[origin[i]] = calls[origin[i]]
      BY <1>2, <1>3
    <3> QED
      BY <1>0, <1>2, <1>3, <2>1, <3>1 DEF Represents, Takes
  <2>4. origin \in [1 .. Len(routes') -> 1 .. Len(calls')]
    BY <1>0, <1>2, <1>3, <2>1
  <2>5. HeadFollowsGet'
    <3>1. NoHeadCalls' => NoHeadCalls
      BY <1>0, <1>2 DEF NoHeadCalls
    <3> QED
      BY <2>1, <3>1, Zenon DEF RouteInv, HeadFollowsGet, Pair
  <2>6. SearchInv'
    BY <1>4, <2>1 DEF SearchInv, EarliestRouteWins
  <2> QED
    BY <2>2, <2>3, <2>4, <2>5, <2>6 DEF RouteInv
<1>6. CASE r # Malformed
  <2>1. routes' = Added(m, r, h) /\ dispatch' = next
    BY <1>6 DEF AddRoute
  <2>2. /\ routes' \in Seq(RouteRecord)
        /\ Len(routes') = IF ToUpper[m] = "GET" THEN n + 2 ELSE n + 1
        /\ \A i \in 1 .. n : routes'[i] = routes[i]
        /\ routes'[n + 1] = Route(ToUpper[m], r, h)
        /\ ToUpper[m] = "GET" => routes'[n + 2] = Route("HEAD", r, h)
    BY <2>1, AddedRoutes DEF RouteInv
  <2>3. PICK o \in [1 .. Len(routes') -> 1 .. Len(calls')] :
           \A i \in 1 .. Len(routes') : o[i] = IF i <= n THEN origin[i] ELSE c + 1
    <3> DEFINE f == [i \in 1 .. Len(routes') |-> IF i <= n THEN origin[i] ELSE c + 1]
    <3>1. f \in [1 .. Len(routes') -> 1 .. Len(calls')]
      BY <1>0, <1>2, <1>3, <2>2
    <3> QED
      BY <3>1, Zenon
  <2>4. RouteTypeOK'
    BY <1>0, <1>2, <1>4, <2>1, <2>2 DEF RouteInv, RouteTypeOK
  <2>5. Represents(o)'
    <3>1. \A i, j \in 1 .. Len(routes') : i < j => o[i] <= o[j]
      <4> SUFFICES ASSUME NEW i \in 1 .. Len(routes'), NEW j \in 1 .. Len(routes'), i < j
                   PROVE  o[i] <= o[j]
        OBVIOUS
      <4>1. CASE j <= n
        BY <1>0, <1>3, <2>2, <2>3, <4>1 DEF Represents
      <4>2. CASE j > n
        <5>1. o[j] = c + 1
          BY <1>0, <2>2, <2>3, <4>2
        <5>2. o[i] \in 1 .. c + 1
          BY <2>3, <1>2
        <5> QED
          BY <1>0, <5>1, <5>2
      <4> QED
        BY <4>1, <4>2, <1>0, <2>2
    <3>2. \A i \in 1 .. Len(routes') :
             /\ routes'[i].regex = calls'[o[i]].regex
             /\ routes'[i].handler = calls'[o[i]].handler
             /\ Takes(calls'[o[i]], routes'[i].method)
      <4> SUFFICES ASSUME NEW i \in 1 .. Len(routes')
                   PROVE  /\ routes'[i].regex = calls'[o[i]].regex
                          /\ routes'[i].handler = calls'[o[i]].handler
                          /\ Takes(calls'[o[i]], routes'[i].method)
        OBVIOUS
      <4>1. CASE i <= n
        <5>1. routes'[i] = routes[i] /\ o[i] = origin[i] /\ calls'[o[i]] = calls[origin[i]]
          BY <1>0, <1>2, <1>3, <2>2, <2>3, <4>1
        <5> QED
          BY <1>0, <1>3, <4>1, <5>1 DEF Represents
      <4>2. CASE i = n + 1
        <5>1. calls'[o[i]] = Route(m, r, h) /\ routes'[i] = Route(ToUpper[m], r, h)
          BY <1>0, <1>2, <2>2, <2>3, <4>2
        <5> QED
          BY <5>1 DEF Takes, Route
      <4>3. CASE i = n + 2
        <5>1. calls'[o[i]] = Route(m, r, h) /\ ToUpper[m] = "GET" /\ routes'[i] = Route("HEAD", r, h)
          BY <1>0, <1>2, <2>2, <2>3, <4>3
        <5> QED
          BY <5>1 DEF Takes, Route
      <4> QED
        BY <1>0, <2>2, <4>1, <4>2, <4>3
    <3>3. \A d \in 1 .. Len(calls'), q \in Methods :
             Takes(calls'[d], q) =>
                \E i \in 1 .. Len(routes') : o[i] = d /\ routes'[i].method = q
      <4> SUFFICES ASSUME NEW d \in 1 .. Len(calls'), NEW q \in Methods, Takes(calls'[d], q)
                   PROVE  \E i \in 1 .. Len(routes') : o[i] = d /\ routes'[i].method = q
        OBVIOUS
      <4>1. CASE d <= c
        <5>1. calls'[d] = calls[d] /\ d \in 1 .. c
          BY <1>0, <1>2, <4>1
        <5>2. PICK i \in 1 .. n : origin[i] = d /\ routes[i].method = q
          BY <1>3, <5>1 DEF Represents
        <5>3. i \in 1 .. Len(routes') /\ o[i] = d /\ routes'[i].method = q
          BY <1>0, <2>2, <2>3, <5>2
        <5> QED
          BY <5>3
      <4>2. CASE d = c + 1
        <5>1. ToUpper[m] = q \/ (ToUpper[m] = "GET" /\ q = "HEAD")
          BY <1>2, <4>2 DEF Takes, Route
        <5>2. n + 1 \in 1 .. Len(routes') /\ o[n + 1] = d /\ routes'[n + 1].method = ToUpper[m]
          BY <1>0, <2>2, <2>3, <4>2 DEF Route
        <5>3. ASSUME ToUpper[m] = "GET"
              PROVE  n + 2 \in 1 .. Len(routes') /\ o[n + 2] = d /\ routes'[n + 2].method = "HEAD"
          <6>1. n + 2 \in 1 .. Len(routes') /\ ~(n + 2 <= n)
            BY <1>0, <2>2, <5>3
          <6> QED
            BY <2>2, <2>3, <4>2, <5>3, <6>1 DEF Route
        <5> QED
          BY <5>1, <5>2, <5>3
      <4> QED
        BY <1>0, <1>2, <4>1, <4>2
    <3> QED
      BY <2>3, <3>1, <3>2, <3>3 DEF Represents, Takes
  <2>6. HeadFollowsGet'
    <3>1. ASSUME NEW i \in 1 .. Len(routes'), routes'[i].method = "GET"
          PROVE  i + 1 \in 1 .. Len(routes') /\ Pair(i, i + 1)'
      <4>1. CASE i <= n
        <5>1. i \in 1 .. n /\ routes'[i] = routes[i]
          BY <1>0, <2>2, <4>1
        <5>2. i + 1 \in 1 .. n /\ Pair(i, i + 1)
          BY <3>1, <5>1 DEF RouteInv, HeadFollowsGet
        <5>3. routes'[i + 1] = routes[i + 1]
          BY <2>2, <5>2
        <5> QED
          BY <1>0, <2>2, <5>1, <5>2, <5>3 DEF Pair
      <4>2. CASE i = n + 1
        BY <1>0, <2>2, <3>1, <4>2 DEF Pair, Route
      <4>3. CASE i = n + 2
        BY <1>0, <2>2, <3>1, <4>3 DEF Route
      <4> QED
        BY <1>0, <2>2, <4>1, <4>2, <4>3
    <3>2. ASSUME NoHeadCalls', NEW i \in 1 .. Len(routes'), routes'[i].method = "HEAD"
          PROVE  i - 1 \in 1 .. Len(routes') /\ Pair(i - 1, i)'
      <4>0. NoHeadCalls /\ ToUpper[m] # "HEAD"
        BY <1>0, <1>2, <3>2 DEF NoHeadCalls, Route
      <4>1. CASE i <= n
        <5>1. i \in 1 .. n /\ routes'[i] = routes[i]
          BY <1>0, <2>2, <4>1
        <5>2. i - 1 \in 1 .. n /\ Pair(i - 1, i)
          BY <3>2, <4>0, <5>1 DEF RouteInv, HeadFollowsGet
        <5>3. routes'[i - 1] = routes[i - 1]
          BY <2>2, <5>2, Zenon
        <5> QED
          BY <1>0, <2>2, <5>1, <5>2, <5>3 DEF Pair
      <4>2. CASE i = n + 1
        BY <1>0, <2>2, <3>2, <4>0, <4>2 DEF Route
      <4>3. CASE i = n + 2
        <5>1. ToUpper[m] = "GET" /\ Len(routes') = n + 2
          BY <1>0, <2>2, <4>3
        <5>2. routes'[i] = Route("HEAD", r, h) /\ routes'[i - 1] = Route("GET", r, h)
          BY <1>0, <2>2, <4>3, <5>1
        <5> QED
          BY <1>0, <4>3, <5>1, <5>2 DEF Pair, Route
      <4>4. i <= n \/ i = n + 1 \/ i = n + 2
        BY <1>0, <2>2
      <4> QED
        BY <4>1, <4>2, <4>3, <4>4
    <3> QED
      BY <3>1, <3>2 DEF HeadFollowsGet
  <2>7. SearchInv'
    BY <1>4, <2>1 DEF SearchInv, EarliestRouteWins
  <2> QED
    BY <2>3, <2>4, <2>5, <2>6, <2>7 DEF RouteInv
<1> QED
  BY <1>5, <1>6

\* A step that leaves the calls and the routes alone.
LEMMA TableKept ==
    ASSUME RouteInv, UNCHANGED <<calls, routes>>,
           dispatch' # "terminated" => dispatch # "terminated",
           RouteTypeOK', SearchInv'
    PROVE  RouteInv'
<1>1. PICK origin \in [1 .. Len(routes) -> 1 .. Len(calls)] : Represents(origin)
  BY DEF RouteInv
<1>2. Represents(origin)'
  BY <1>1 DEF Represents
<1>3. HeadFollowsGet'
  BY DEF RouteInv, HeadFollowsGet, Pair, NoHeadCalls
<1> QED
  BY <1>2, <1>3, <1>1 DEF RouteInv

\* The search stops at a route of the earliest call that is meant.
LEMMA MatchFindsEarliest ==
    ASSUME RouteInv, Match
    PROVE  \E i \in 1 .. Len(calls) :
              /\ Meant(i, request) /\ routes[it].handler = calls[i].handler
              /\ \A j \in 1 .. i - 1 : ~Meant(j, request)
<1>1. PICK origin \in [1 .. Len(routes) -> 1 .. Len(calls)] : Represents(origin)
  BY DEF RouteInv
<1>2. /\ it \in 1 .. Len(routes) /\ Len(calls) \in Nat /\ Len(routes) \in Nat
      /\ dispatch = "search" /\ Matches(request) /\ request \in [method : Methods, uri : URIs]
  BY DEF RouteInv, RouteTypeOK, Match
<1>3. origin[it] \in 1 .. Len(calls)
  BY <1>1, <1>2
<1>4. Meant(origin[it], request) /\ routes[it].handler = calls[origin[it]].handler
  BY <1>1, <1>2 DEF Represents, Meant, Matches, Takes
<1>5. ASSUME NEW j \in 1 .. origin[it] - 1, Meant(j, request) PROVE FALSE
  <2>1. j \in 1 .. Len(calls) /\ j < origin[it]
    BY <1>2, <1>3
  <2>2. Takes(calls[j], request.method)
    BY <1>5 DEF Meant, Takes
  <2>3. PICK i \in 1 .. Len(routes) : origin[i] = j /\ routes[i].method = request.method
    BY <1>1, <1>2, <2>1, <2>2 DEF Represents
  <2>4. request.uri \in routes[i].regex
    BY <1>1, <1>5, <2>3 DEF Represents, Meant
  <2>5. i < it
    <3>1. ~(it < i)
      BY <1>1, <1>2, <2>1, <2>3 DEF Represents
    <3>2. i # it
      BY <2>1, <2>3, <1>3
    <3> QED
      BY <1>2, <3>1, <3>2
  <2> QED
    BY <1>2, <2>3, <2>4, <2>5 DEF RouteInv, SearchInv
<1> QED
  BY <1>3, <1>4, <1>5

\* A search that reaches the end has met a route of every call.
LEMMA NoMatchMeansNoCall ==
    ASSUME RouteInv, NoMatch
    PROVE  \A j \in 1 .. Len(calls) : ~Meant(j, request)
<1> SUFFICES ASSUME NEW j \in 1 .. Len(calls), Meant(j, request) PROVE FALSE
  OBVIOUS
<1>1. PICK origin \in [1 .. Len(routes) -> 1 .. Len(calls)] : Represents(origin)
  BY DEF RouteInv
<1>2. /\ it \in Nat /\ it > Len(routes) /\ Len(routes) \in Nat /\ dispatch = "search"
      /\ request \in [method : Methods, uri : URIs]
  BY DEF RouteInv, RouteTypeOK, NoMatch
<1>3. Takes(calls[j], request.method)
  BY DEF Meant, Takes
<1>4. PICK i \in 1 .. Len(routes) : origin[i] = j /\ routes[i].method = request.method
  BY <1>1, <1>2, <1>3 DEF Represents
<1>5. request.uri \in routes[i].regex
  BY <1>1, <1>4 DEF Represents, Meant
<1> QED
  BY <1>2, <1>4, <1>5 DEF RouteInv, SearchInv

LEMMA RouteInvNext == RouteInv /\ [RouteNext]_routeVars => RouteInv'
<1> SUFFICES ASSUME RouteInv, [RouteNext]_routeVars PROVE RouteInv'
  OBVIOUS
<1> USE RoutesAssumption
<1>1. CASE UserAddsRoute
  <2>1. PICK m \in Methods, r \in Regexes, h \in Handlers : AddRoute(m, r, h, "setup")
    BY <1>1 DEF UserAddsRoute
  <2> QED
    BY <1>1, <2>1, AddRouteKeeps DEF UserAddsRoute, AnyHandler
<1>2. CASE RunRoutes
  <2>1. ASSUME NEW r \in Regexes, AddRoute("GET", r, Statistics, "ready") PROVE RouteInv'
    BY <1>2, <2>1, AddRouteKeeps DEF RunRoutes, AnyHandler
  <2>2. ASSUME dispatch' = "ready", UNCHANGED <<calls, routes, request, it, heap, result>>
        PROVE  RouteInv'
    <3>1. RouteTypeOK'
      BY <2>2 DEF RouteInv, RouteTypeOK
    <3>2. SearchInv'
      BY <1>2, <2>2 DEF RouteInv, SearchInv, RunRoutes, EarliestRouteWins
    <3> QED
      BY <1>2, <2>2, <3>1, <3>2, TableKept DEF RunRoutes
  <2> QED
    BY <1>2, <2>1, <2>2, Zenon DEF RunRoutes
<1>3. CASE Dispatcher
  <2>1. RouteTypeOK'
    BY <1>3 DEF Dispatcher, RouteInv, RouteTypeOK
  <2>2. SearchInv'
    BY <1>3 DEF Dispatcher, SearchInv, EarliestRouteWins
  <2> QED
    BY <1>3, <2>1, <2>2, TableKept DEF Dispatcher
<1>4. CASE Match
  <2>1. RouteTypeOK'
    BY <1>4 DEF Match, RouteInv, RouteTypeOK
  <2>2. PICK i \in 1 .. Len(calls) :
              /\ Meant(i, request) /\ routes[it].handler = calls[i].handler
              /\ \A j \in 1 .. i - 1 : ~Meant(j, request)
    BY <1>4, MatchFindsEarliest
  <2>3. /\ dispatch' = "ready" /\ heap' = {} /\ result' = calls[i].handler
        /\ UNCHANGED <<calls, routes, request, it>>
    BY <1>4, <2>2 DEF Match
  <2>4. EarliestRouteWins'
    <3>1. Meant(i, request)' /\ \A j \in 1 .. i - 1 : ~Meant(j, request)'
      BY <2>2, <2>3 DEF Meant
    <3> QED
      BY <2>3, <3>1 DEF EarliestRouteWins
  <2>5. SearchInv'
    BY <2>3, <2>4 DEF SearchInv
  <2> QED
    BY <1>4, <2>1, <2>5, <2>3, TableKept DEF Match
<1>5. CASE Advance
  <2>1. RouteTypeOK'
    BY <1>5 DEF Advance, RouteInv, RouteTypeOK
  <2>2. \A i \in 1 .. Len(routes) : i < it + 1 =>
             ~(routes[i].method = request.method /\ request.uri \in routes[i].regex)
    <3> SUFFICES ASSUME NEW i \in 1 .. Len(routes), i < it + 1
                 PROVE  ~(routes[i].method = request.method /\ request.uri \in routes[i].regex)
      OBVIOUS
    <3>1. i < it \/ i = it
      BY DEF RouteInv, RouteTypeOK
    <3> QED
      BY <1>5, <3>1 DEF Advance, Matches, RouteInv, SearchInv
  <2>3. dispatch' = "search" /\ it' = it + 1 /\ UNCHANGED <<calls, routes, request, heap, result>>
    BY <1>5 DEF Advance
  <2>4. SearchInv'
    BY <2>2, <2>3 DEF SearchInv, EarliestRouteWins
  <2> QED
    BY <1>5, <2>1, <2>3, <2>4, TableKept DEF Advance
<1>6. CASE NoMatch
  <2>1. RouteTypeOK'
    BY <1>6 DEF NoMatch, RouteInv, RouteTypeOK
  <2>2. \A i \in 1 .. Len(calls) : ~Meant(i, request)
    BY <1>6, NoMatchMeansNoCall
  <2>3. dispatch' = "clean" /\ result' = "nullptr" /\ UNCHANGED <<calls, routes, request, it, heap>>
    BY <1>6 DEF NoMatch
  <2>4. SearchInv'
    BY <2>2, <2>3 DEF SearchInv, EarliestRouteWins, Meant
  <2> QED
    BY <1>6, <2>1, <2>3, <2>4, TableKept DEF NoMatch
<1>7. CASE Clean
  <2>1. RouteTypeOK'
    BY <1>7 DEF Clean, RouteInv, RouteTypeOK
  <2>2. SearchInv'
    BY <1>7 DEF Clean, RouteInv, SearchInv, EarliestRouteWins, Meant
  <2> QED
    BY <1>7, <2>1, <2>2, TableKept DEF Clean
<1>8. CASE UNCHANGED routeVars
  <2>1. RouteTypeOK'
    BY <1>8 DEF routeVars, RouteInv, RouteTypeOK
  <2>2. SearchInv'
    BY <1>8 DEF routeVars, RouteInv, SearchInv, EarliestRouteWins, Meant
  <2> QED
    BY <1>8, <2>1, <2>2, TableKept DEF routeVars
<1> QED
  BY <1>1, <1>2, <1>3, <1>4, <1>5, <1>6, <1>7, <1>8 DEF RouteNext

\* A set of positions that is not empty has a first.
LEMMA FirstPosition ==
    ASSUME NEW S \in SUBSET Nat, S # {}
    PROVE  \E i \in S : \A j \in S : i <= j
<1>1. PICK i \in S : \A j \in S : ~(<<j, i>> \in OpToRel(<, Nat))
  BY NatLessThanWellFounded, WFMin, Zenon
<1>2. \A j \in S : ~(j < i)
  BY <1>1, Zenon DEF OpToRel
<1> QED
  BY <1>2

\* As the routes of GET and HEAD stand in pairs, the first ones that match a
\* URI are a pair.
LEMMA PairsAreAlike == RouteInv => HeadLikeGet
<1> SUFFICES ASSUME RouteInv, NoHeadCalls, NEW u \in URIs
             PROVE  First("HEAD", u) = First("GET", u)
  BY DEF HeadLikeGet, NoHeadCalls
<1> DEFINE found(m) == {i \in 1 .. Len(routes) : routes[i].method = m /\ u \in routes[i].regex}
           first(m) == CHOOSE i \in found(m) : \A j \in found(m) : i <= j
<1>0. Len(routes) \in Nat
  BY DEF RouteInv, RouteTypeOK
<1>1. \A i \in found("GET") : i + 1 \in found("HEAD") /\ routes[i + 1].handler = routes[i].handler
  BY DEF RouteInv, HeadFollowsGet, Pair
<1>2. \A i \in found("HEAD") : i - 1 \in found("GET") /\ routes[i - 1].handler = routes[i].handler
  BY DEF RouteInv, HeadFollowsGet, Pair
<1>3. /\ First("HEAD", u) = IF found("HEAD") = {} THEN "nullptr" ELSE routes[first("HEAD")].handler
      /\ First("GET", u) = IF found("GET") = {} THEN "nullptr" ELSE routes[first("GET")].handler
  BY DEF First
<1>4. found("HEAD") \subseteq Nat /\ found("GET") \subseteq Nat
  BY <1>0
<1> HIDE DEF found
<1>5. CASE found("GET") = {}
  BY <1>2, <1>3, <1>5
<1>6. CASE found("GET") # {}
  <2>1. found("HEAD") # {}
    BY <1>1, <1>6
  <2>2. first("GET") \in found("GET") /\ \A j \in found("GET") : first("GET") <= j
    BY <1>4, <1>6, FirstPosition
  <2>3. first("HEAD") \in found("HEAD") /\ \A j \in found("HEAD") : first("HEAD") <= j
    BY <1>4, <2>1, FirstPosition
  <2> HIDE DEF first
  <2>4. first("HEAD") = first("GET") + 1
    <3>1. first("GET") + 1 \in found("HEAD") /\ first("HEAD") - 1 \in found("GET")
      BY <1>1, <1>2, <2>2, <2>3
    <3>2. first("HEAD") <= first("GET") + 1 /\ first("GET") <= first("HEAD") - 1
      BY <2>2, <2>3, <3>1
    <3>3. first("HEAD") \in Nat /\ first("GET") \in Nat
      BY <1>4, <2>2, <2>3
    <3> QED
      BY <3>2, <3>3
  <2> QED
    BY <1>1, <1>3, <1>6, <2>1, <2>2, <2>4
<1> QED
  BY <1>5, <1>6

\* The dispatcher finds the handler of the earliest call of addRoute that is
\* meant, HEAD is dispatched like GET, and nothing is left allocated: for any
\* number of routes, methods and URIs.
THEOREM DispatchAlwaysRight == RouteSpec => []DispatchIsRight
<1>1. RouteInv => DispatchIsRight
  BY PairsAreAlike DEF RouteInv, SearchInv, NothingLeaks, DispatchIsRight
<1> QED
  BY <1>1, RouteInvInit, RouteInvNext, PTL DEF RouteSpec

==============================================================================
