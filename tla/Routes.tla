------------------------------- MODULE Routes -------------------------------
(***************************************************************************)
(* Routes and the dispatcher of HttpServer.  The user adds routes, run()   *)
(* adds the status page, then every complete request is compared with the  *)
(* routes in their order.  The copy of the request and the task are        *)
(* allocated before a route is found, either allocation may fail, and what *)
(* no task takes along has to be freed.                                    *)
(***************************************************************************)
EXTENDS Integers, Sequences

CONSTANTS
    URIs,           \* full URIs of requests
    Methods,        \* the methods routes are added with and requests have
    ToUpper,        \* [Methods -> Methods], std::toupper on every character
    Handlers,       \* handlers of the user
    MaxRoutes,      \* bound: calls of addRoute
    RunAdds         \* {FALSE}, {TRUE}: isStatisticsEnable

ASSUME RoutesAssumption ==
    /\ URIs # {} /\ {"GET", "HEAD"} \subseteq Methods
    /\ ToUpper \in [Methods -> Methods]
    /\ ToUpper["GET"] = "GET" /\ ToUpper["HEAD"] = "HEAD"
    /\ MaxRoutes \in Nat /\ RunAdds \subseteq BOOLEAN

\* A regular expression is the set of URIs it matches; one does not compile.
Malformed == {"malformed"}
Regexes == (SUBSET URIs) \cup {Malformed}

\* The route of the status page; its URL is a regular expression like others.
Statistics == "statistics"

VARIABLES
    calls,      \* history: the arguments of addRoute
    routes,     \* the vector of routes
    dispatch,   \* what the thread of the server is doing
    request,    \* the request the dispatcher is at
    it,         \* its iterator
    heap,       \* the allocated objects it owns: "request", "task"
    result      \* handler of the task it returned last, or "nullptr"

routeVars == <<calls, routes, dispatch, request, it, heap, result>>

RouteInit ==
    /\ calls = <<>> /\ routes = <<>>
    /\ dispatch = "setup"
    /\ request = [method |-> "GET", uri |-> CHOOSE u \in URIs : TRUE]
    /\ it = 1
    /\ heap = {}
    /\ result = "none"

-----------------------------------------------------------------------------

Route(method, regex, handler) == [method |-> method, regex |-> regex, handler |-> handler]

\* Mutant: the HEAD route goes to the front.
Added_HeadFirst(method, regex, handler) ==
    IF ToUpper[method] = "GET"
    THEN <<Route("HEAD", regex, handler)>> \o Append(routes, Route("GET", regex, handler))
    ELSE Append(routes, Route(ToUpper[method], regex, handler))

\* The vector after addRoute: a route for GET is followed by one for HEAD.
Added(method, regex, handler) ==
    Append(routes, Route(ToUpper[method], regex, handler))
    \o (IF ToUpper[method] = "GET" THEN <<Route("HEAD", regex, handler)>> ELSE <<>>)

\* A regular expression that does not compile throws out of a noexcept function.
AddRoute(method, regex, handler, next) ==
    /\ calls' = Append(calls, Route(method, regex, handler))
    /\ IF regex = Malformed
       THEN routes' = routes /\ dispatch' = "terminated"
       ELSE routes' = Added(method, regex, handler) /\ dispatch' = next
    /\ UNCHANGED <<request, it, heap, result>>

UserAddsRoute ==
    /\ dispatch = "setup" /\ Len(calls) < MaxRoutes
    /\ \E m \in Methods, r \in Regexes, h \in Handlers : AddRoute(m, r, h, "setup")

\* run() comes after the user's routes.
RunRoutes ==
          /\ dispatch = "setup"
          /\ \/ /\ TRUE \in RunAdds
                /\ \E r \in Regexes : AddRoute("GET", r, Statistics, "ready")
             \/ /\ FALSE \in RunAdds
                /\ dispatch' = "ready"
                /\ UNCHANGED <<calls, routes, request, it, heap, result>>

\* A complete request: the dispatcher copies it and allocates a task.
Dispatcher ==
    /\ dispatch = "ready"
    /\ \E m \in Methods, u \in URIs : request' = [method |-> m, uri |-> u]
    /\ it' = 1
    /\ heap' \in {{}, {"request"}, {"request", "task"}}
    /\ IF heap' = {"request", "task"}
       THEN dispatch' = "search" /\ result' = "none"
       ELSE dispatch' = "clean" /\ result' = "nullptr"
    /\ UNCHANGED <<calls, routes>>

Matches(r) == routes[it].method = r.method /\ r.uri \in routes[it].regex

\* The first route that matches gives the task its type and handler; the task
\* takes the copy of the request along.
Match ==
    /\ dispatch = "search" /\ it <= Len(routes) /\ Matches(request)
    /\ result' = routes[it].handler
    /\ heap' = {}
    /\ dispatch' = "ready"
    /\ UNCHANGED <<calls, routes, request, it>>

Advance ==
    /\ dispatch = "search" /\ it <= Len(routes) /\ ~Matches(request)
    /\ it' = it + 1
    /\ UNCHANGED <<calls, routes, dispatch, request, heap, result>>

NoMatch ==
    /\ dispatch = "search" /\ it > Len(routes)
    /\ result' = "nullptr"
    /\ dispatch' = "clean"
    /\ UNCHANGED <<calls, routes, request, it, heap>>

\* delete req; delete task
Clean ==
    /\ dispatch = "clean"
    /\ heap' = {}
    /\ dispatch' = "ready"
    /\ UNCHANGED <<calls, routes, request, it, result>>

RouteNext ==
    \/ UserAddsRoute \/ RunRoutes
    \/ Dispatcher \/ Match \/ Advance \/ NoMatch \/ Clean

RouteSpec == RouteInit /\ [][RouteNext]_routeVars

-----------------------------------------------------------------------------
(* Properties *)

\* Whether the i-th call of addRoute is meant for a request.
Meant(i, r) ==
    /\ r.uri \in calls[i].regex
    /\ \/ ToUpper[calls[i].method] = r.method
       \/ ToUpper[calls[i].method] = "GET" /\ r.method = "HEAD"

\* A task has the handler of the earliest call of addRoute that is meant for
\* the request, the copies for HEAD notwithstanding; there is no task only if
\* no call is, or an allocation failed.
EarliestRouteWins ==
    dispatch = "ready" /\ result # "none" =>
       \/ \E i \in 1 .. Len(calls) :
             /\ Meant(i, request) /\ result = calls[i].handler
             /\ \A j \in 1 .. i - 1 : ~Meant(j, request)
       \/ result = "nullptr" /\ (it <= 1 \/ \A i \in 1 .. Len(calls) : ~Meant(i, request))

\* Unless the user adds a route for HEAD, HEAD is dispatched like GET, in
\* whatever case the methods were written.
First(method, u) ==
    LET found == {i \in 1 .. Len(routes) : routes[i].method = method /\ u \in routes[i].regex}
    IN  IF found = {} THEN "nullptr"
        ELSE routes[CHOOSE i \in found : \A j \in found : i <= j].handler

HeadLikeGet ==
    (\A i \in 1 .. Len(calls) : ToUpper[calls[i].method] # "HEAD") =>
       \A u \in URIs : First("HEAD", u) = First("GET", u)

\* Between two requests the dispatcher owns nothing: the copy and the task are
\* with the queue or deleted.
NothingLeaks == dispatch \in {"setup", "ready", "terminated"} => heap = {}

\* The dispatcher finds the handler the user meant, for HEAD as for GET, and
\* keeps nothing.
DispatchIsRight == EarliestRouteWins /\ HeadLikeGet /\ NothingLeaks

=============================================================================
