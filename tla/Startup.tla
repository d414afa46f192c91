------------------------------- MODULE Startup -------------------------------
(***************************************************************************)
(* The life of an HttpServer around its event loop: the constructor reads  *)
(* the configuration file, allocates the tables, spawns the workers and    *)
(* opens the listening socket; then run is called, or the object is        *)
(* destroyed.  An exception of the constructor destroys the members from   *)
(* the last to the first.  The workers are scheduled at their own time and *)
(* copy the compression setting when they start; the user's setters run at *)
(* any time after the constructor.                                         *)
(***************************************************************************)
EXTENDS Integers, FiniteSets

CONSTANTS
    Configurations,     \* the files that may be found, see Configuration
    Arguments,          \* values of the constructor's argument n
    MaxThreads          \* bound: threads the system can start

\* A value of the file: a JSON type and, for numbers and booleans, its value.
Missing == [type |-> "missing", value |-> 0]
Value == [type : {"missing", "integer", "float", "boolean", "string", "null"},
          value : -1 .. 3]

ServerFields == {"threads", "max_connection", "max_input_length_buffer",
                 "max_output_length_buffer", "time_limit_request_seconds",
                 "limit_local_tasks"}
ResourceFields == {"directory", "compress", "cache"}
StatisticsFields == {"enable", "url"}
Fields == ServerFields \cup ResourceFields \cup StatisticsFields

\* file[f] is the field in its section; top[f] a field of the same name outside
\* of all sections.
Configuration == [sections : SUBSET {"server", "static-resources", "statistics"},
                  file : [Fields -> Value], top : [StatisticsFields -> Value]]

ASSUME StartupAssumption ==
    /\ Configurations \subseteq Configuration
    /\ Arguments \subseteq Nat
    /\ MaxThreads \in Nat /\ MaxThreads >= 2

VARIABLES
    stage,      \* where the thread that owns the server is
    file,       \* the configuration file
    settings,   \* the members and static members of HttpServer
    workers,    \* the threads of the pool and what they have latched
    setLater    \* history: setCompressStaticResources was called

startupVars == <<stage, file, settings, workers, setLater>>

\* What a negative int becomes in a size_t.
Huge == MaxThreads + 1

\* The settings before the file is read.
Defaults(n) ==
    [threads |-> n, max_connection |-> 3, max_input_length_buffer |-> 2,
     max_output_length_buffer |-> 3, time_limit_request_seconds |-> 2,
     limit_local_tasks |-> 3, directory |-> "", compress |-> FALSE, cache |-> TRUE,
     enable |-> FALSE, url |-> "^/onyxup-status-page$"]

StartupInit ==
    /\ stage = "configure"
    /\ file \in Configurations
    /\ \E n \in Arguments : settings = Defaults(n)
    /\ workers = <<>>
    /\ setLater = FALSE

-----------------------------------------------------------------------------
(* The configuration file *)

\* get<int>, get<bool> and get<std::string>: the types they accept without
\* throwing, and what they make of the value.
Accepts(f) ==
    CASE f \in ServerFields                   -> {"integer", "float", "boolean"}
      [] f \in {"compress", "cache", "enable"} -> {"boolean"}
      [] OTHER                                 -> {"string"}

SizeFields == ServerFields \ {"time_limit_request_seconds", "limit_local_tasks"}

Get(f, v) ==
    CASE f \in ServerFields                   -> IF f \in SizeFields /\ v.value < 0 THEN Huge ELSE v.value
      [] f \in {"compress", "cache", "enable"} -> v.value # 0
      [] OTHER                                 -> "from file"

\* The section a field is looked up in, and where its value is then taken from:
\* the statistics fields are read from the top level.
SectionOf(f) ==
    CASE f \in ServerFields   -> "server"
      [] f \in ResourceFields -> "static-resources"
      [] OTHER                -> "statistics"

Lookup(f) == IF f \in StatisticsFields THEN file.top[f] ELSE file.file[f]

\* A field that is missing or of another type keeps its setting.
Configure ==
    /\ stage = "configure"
    /\ settings' = [f \in Fields |->
                      IF SectionOf(f) \in file.sections /\ Lookup(f).type \in Accepts(f)
                      THEN Get(f, Lookup(f)) ELSE settings[f]]
    /\ stage' = "allocate"
    /\ UNCHANGED <<file, workers, setLater>>

-----------------------------------------------------------------------------
(* The rest of the constructor *)

\* At least one worker for each of the two queues.
AtLeastTwo(n) == IF n < 2 THEN 2 ELSE n

\* An exception leaves the constructor: the last member is destroyed first.
Unwind == stage' = "performedTasksQueue"

\* The tables and the pool; a size that was negative throws, and memory may
\* always be short.
Allocate ==
    /\ stage = "allocate"
    /\ \/ /\ Huge \notin {settings["max_connection"], settings["threads"]}
          /\ settings' = [settings EXCEPT !["threads"] = AtLeastTwo(@)]
          /\ stage' = "spawn"
       \/ Unwind /\ UNCHANGED settings
    /\ UNCHANGED <<file, workers, setLater>>

Spawned == DOMAIN workers

\* threadsPool[i] = std::thread(&HttpServer::tasksHandler, this, i)
Spawn ==
    /\ stage = "spawn" /\ Cardinality(Spawned) < settings["threads"]
    /\ workers' = [i \in Spawned \cup {Cardinality(Spawned)} |->
                     IF i \in Spawned THEN workers[i] ELSE "spawned"]
    /\ UNCHANGED <<stage, file, settings, setLater>>

\* The constructor of a std::thread throws: the system has no more threads.
SpawnFails ==
    /\ stage = "spawn" /\ Cardinality(Spawned) < settings["threads"]
    /\ Unwind
    /\ UNCHANGED <<file, settings, workers, setLater>>

\* The system calls in their order.
Calls == [socket |-> "setsockopt", setsockopt |-> "nonblock", nonblock |-> "bind",
          bind |-> "listen", listen |-> "epoll_create1", epoll_create1 |-> "ready"]

SpawnedAll ==
    /\ stage = "spawn" /\ Cardinality(Spawned) = settings["threads"]
    /\ stage' = "socket"
    /\ UNCHANGED <<file, settings, workers, setLater>>

Call ==
    /\ stage \in DOMAIN Calls
    /\ stage' = Calls[stage]
    /\ UNCHANGED <<file, settings, workers, setLater>>

\* A call fails and OnyxupException is thrown.
Throw ==
    /\ stage \in DOMAIN Calls
    /\ Unwind
    /\ UNCHANGED <<file, settings, workers, setLater>>

-----------------------------------------------------------------------------
(* The workers, and the destructors of the members they use                *)

\* The queue a worker waits on.
QueueOf(i) == IF i = 0 THEN "staticTasksQueue" ELSE "tasksQueue"

\* The members in the order of their destruction; the stage is the next one.
Unwinding == [performedTasksQueue |-> "staticTasksQueue", staticTasksQueue |-> "tasksQueue",
              tasksQueue |-> "threadsPool"]

Gone ==
    CASE stage = "staticTasksQueue"        -> {"performedTasksQueue"}
      [] stage = "tasksQueue"              -> {"performedTasksQueue", "staticTasksQueue"}
      [] stage \in {"threadsPool", "thrown"} -> DOMAIN Unwinding
      [] OTHER                             -> {}

\* A queue is destroyed.  It is undefined what happens when a worker waits on its
\* condition variable: the process ends, the destructor returns, or it waits for
\* ever, which is to say that this step is not taken.
DestroyQueue ==
    /\ stage \in DOMAIN Unwinding
    /\ \/ stage' = Unwinding[stage]
       \/ /\ \E i \in Spawned : workers[i] # "spawned" /\ QueueOf(i) = stage
          /\ stage' = "terminated"
    /\ UNCHANGED <<file, settings, workers, setLater>>

\* Mutant: the pool does not mind its threads.
DestroyPool_Detaches ==
    /\ stage = "threadsPool"
    /\ stage' = "thrown"
    /\ UNCHANGED <<file, settings, workers, setLater>>

\* The pool is destroyed: a thread in it that is joinable ends the process.
DestroyPool ==
    /\ stage = "threadsPool"
    /\ stage' = IF Spawned = {} THEN "thrown" ELSE "terminated"
    /\ UNCHANGED <<file, settings, workers, setLater>>

\* A worker gets to run: its chain copies the setting, for ever, and it waits on
\* its queue; if that has been destroyed, it waits or the process ends.
WorkerStarts(i) ==
    /\ stage # "terminated"
    /\ i \in Spawned /\ workers[i] = "spawned"
    /\ workers' = [workers EXCEPT ![i] = IF settings["compress"] THEN "compress" ELSE "plain"]
    /\ \/ UNCHANGED stage
       \/ QueueOf(i) \in Gone /\ stage' = "terminated"
    /\ UNCHANGED <<file, settings, setLater>>

-----------------------------------------------------------------------------
(* After the constructor *)

SetCompressStaticResources(flag) ==
    /\ stage \in {"ready", "running"}
    /\ settings' = [settings EXCEPT !["compress"] = flag]
    /\ setLater' = TRUE
    /\ UNCHANGED <<stage, file, workers>>

\* run() takes maxConnection as a modulus.
Run ==
    /\ stage = "ready"
    /\ stage' = IF settings["max_connection"] = 0 THEN "terminated" ELSE "running"
    /\ UNCHANGED <<file, settings, workers, setLater>>

\* The destructor, if run was never called, joins threads that never return
\* and gets no further.
Destroy ==
    /\ stage = "ready"
    /\ stage' = "joining"
    /\ UNCHANGED <<file, settings, workers, setLater>>

StartupNext ==
    \/ Configure \/ Allocate \/ Spawn \/ SpawnFails \/ SpawnedAll \/ Call \/ Throw
    \/ DestroyQueue \/ DestroyPool
    \/ \E i \in 0 .. MaxThreads : WorkerStarts(i)
    \/ \E flag \in BOOLEAN : SetCompressStaticResources(flag)
    \/ Run \/ Destroy

StartupSpec == StartupInit /\ [][StartupNext]_startupVars

-----------------------------------------------------------------------------
(* Properties *)

\* Whatever number of threads is asked for, by the caller or the file, a server
\* that can run has a worker for the static queue and one for the other.
QueuesServed ==
    stage \in {"ready", "running", "joining"} => 0 \in Spawned /\ Spawned # {0}

\* Whatever fails in the constructor, and whenever the workers get to run: the
\* caller sees the exception only if no worker was spawned.  (With one, its queue
\* is destroyed under it, and the process ends with the pool at the latest.)
NoOrphanWorker == stage = "thrown" => Spawned = {}

\* The file decides for every worker whether static resources are compressed,
\* however late the worker starts, unless the setter is called.
WorkersFollowFile ==
    ~setLater => \A i \in Spawned :
                    workers[i] \in {"spawned", IF settings["compress"] THEN "compress"
                                                ELSE "plain"}

\* The constructor leaves a server that can run, or an exception and no worker,
\* or no process; and the workers follow the file.
StartIsSound == QueuesServed /\ NoOrphanWorker /\ WorkersFollowFile

=============================================================================
