# TLA+ specifications of onyxup

onyxup is a small HTTP framework in C++: one thread runs an epoll loop, a pool
of threads runs the handlers, and they meet at three queues. It brings its own
copies of a header parser (picohttpparser), a JSON library (nlohmann), a logger
(plog) and a gzip wrapper. The modules here specify the server and the parts of
those libraries that keep state or have a contract; TLC checks them on small
instances, and TLAPS proves the safety properties of eleven of them for
instances of every size.

Line numbers such as server.cpp:347 refer to `src/sources/server/server.cpp`;
other files are named by their path under `src/sources/`, and json.hpp is
`json/json.hpp`.

## The system

| Part | Source | What it does | Module |
| --- | --- | --- | --- |
| Event loop | server/server.cpp `run` | scans for timed-out requests, drains performed tasks, waits for events, accepts, reads, dispatches, sends | HttpServer |
| Slots | buffer/, request/, `aliveSockets` | one Buffer, one Request and one time point per descriptor, allocated on accept, reused by keep-alive | HttpServer |
| Tasks | task/ | heap objects that carry a copy of the request, its descriptor and its time point to a worker and back | HttpServer |
| Workers | server.cpp `tasksHandler` | thread 0 serves static resources, the others the local tasks | HttpServer |
| Thread-safe queue | queue/thread-safe-queue.h | `std::queue`, mutex, condition variable | ThreadSafeQueue, TaskQueue |
| Start-up, configuration, shutdown | server.cpp constructor, destructor | config.json, tables, threads, socket | Startup |
| Dispatcher, routes | server.cpp `dispatcher`, `addRoute`, route/ | finds the handler of a request | Routes |
| Statistics | services/statistics/ | counters and a status page | StatusPage, HttpServer |
| Static resources, MIME types | server.cpp `defaultStaticResourcesCallback`, mime/ | files, with a cache | StaticResources |
| Response chains | response/chains/ | HEAD, ranges, compression, Content-Length | ResponseChains |
| Responses | response/ | response classes, what returning one does, the text of a response | Responses |
| Query strings and forms | server/utils.cpp, multipart/ | parameters, urlencoded and multipart forms | QueryString, Multipart |
| Header parser | httpparser/ | requests, responses, header blocks, chunked bodies | PicoHttpParser, ChunkedDecoder |
| Compression | gzip/ | loops around zlib | Gzip |
| Logging | plog/ | logger, console and rolling file appender | Logging |
| JSON | json/ | lexer, parser, values, pointers, patches, serializer, four binary formats | Json* |

How they interact: the loop reads bytes into the Buffer of a slot. When a
request is complete it mutes the descriptor (neither EPOLLIN nor EPOLLOUT),
allocates a task and pushes it on `tasksQueue` or `staticTasksQueue`. A worker
pops it, runs the handler and pushes it on `performedTasksQueue`. The loop pops
it there, and writes the response to the slot if `aliveSockets[fd]` is still the
time point the task was given (server.cpp:347). Every close, reuse, timeout and
keep-alive turn writes a new time point, so this one comparison is what keeps a
late result from reaching the wrong request.

Around that core: the constructor (Startup) reads config.json with the JSON
parser, makes the tables and starts the workers; the dispatcher (Routes) gives
a request its handler; the handler's response is moved to the worker (Responses)
and goes through the chain (ResponseChains, Gzip) into the text that the loop
sends. Two of the handlers are the server's own: static files (StaticResources)
and the status page (StatusPage). Every thread logs (Logging).

## Modules

### HttpServer

State: the tables `buffers`, `requests`, `aliveSockets` by slot; `interest`, the
epoll registration of each descriptor; `tasks`, the heap of tasks by address;
the three queues (of addresses) and `worker`, the task each thread executes;
`phase`, `slot`, `counter`, `incoming`, `batch`, the place of the loop in its
iteration; `overdue[fd]`, which says that `now - aliveSockets[fd]` exceeds the
limit; `unprocessed`, accepted minus processed connections; `running`, FALSE
when undefined behaviour has ended the process.

One action is one turn of a loop or one branch of a handler, with everything the
branch calls:

| Action | Code |
| --- | --- |
| CheckTimeLimit, EndScan | server.cpp:319-339 |
| DrainPerformed, EndDrain | server.cpp:341-358 |
| EpollWait, EndEvents, HangUp | server.cpp:359-364 |
| AcceptConnection, AcceptRefused, AcceptWithoutMemory | server.cpp:365-417 |
| ReadFails, ReadTooLarge, ReadWouldBlock, ReadPartOfHeader, ReadHeader (with Dispatch) | server.cpp:419-569 |
| SendNothing, SendFails, SendPart, SendAll | server.cpp:570-606 |
| TakeTask, FinishTask | server.cpp:126-142 |
| Elapse | time passing, as server.cpp:322 sees it |

`CloseAllSocketsAndClearData`, `WriteToOutputBuffer`, `BufferClear`,
`RequestClear` and the factories are the functions of those names.

What is abstracted:

- Bytes are counted. A Buffer is its two positions, the number of bytes to send
  and what those bytes are (`content`: nothing, a handler's answer, a notice of
  the loop, or several of them over each other).
- The parser's result is chosen: error, incomplete, or a header length. It is
  given `posIn + 1` as length (server.cpp:457), so a header may end one byte past
  the input; `HeaderEnds` allows that.
- Content-Length is a natural number; a negative value (which `atoi` accepts) is
  not modelled.
- `pending`, a history field of a request, names the task the connection waits
  for. No action reads it.
- The clock never shows again a time that a task for the same descriptor holds
  (`FreshTimes`): between two readings for one descriptor there are system calls.
  Times are recycled when no task holds them, which keeps the model finite.
- `now` is read once per iteration in the code, while `overdue` may change at any
  time. A request found overdue by the model a little earlier is found overdue
  by the code one iteration later.
- The counters are those of a server with statistics enabled.
- Undefined behaviour that the code runs into is `running' = FALSE` where the
  build crashes (a write through nullptr, a memcpy of 2^64 - 1 bytes), and a free
  choice where it may survive (the log line that reads a freed request).
- Handlers return a response of some length or never return. They do not throw.

### ThreadSafeQueue and TaskQueue

ThreadSafeQueue has a step for entering an operation, for taking the mutex, for
the operation itself and for giving the mutex back. `cond.wait` sleeps and
releases the mutex in one step, may wake spuriously, and looks at the queue again
before it returns. TaskQueue is what the rest of the server relies on: items
leave in the order they came, each to one thread. HttpServer's atomic queues are
this abstract queue.

### ResponseChains

What a worker does with a handler's response between `getHandler()` and
`setResponseData`, one action per link of the chain and per step of
`parseRangesRequest`. A body is the list of intervals it is made of, so the model
tells which bytes of the handler's body are sent without holding any. A range
header is a list of tokens of four kinds ("a-", "-b", "a-b", anything else); its
numbers are summed modulo `SizeMod`, the number of values of a `size_t`. Pairs with
the same beginning may be left in any order by `std::sort`.

`checkRequestRange` and `checkSupportGzipEncoding` end without a return when the
header is there but not the word they look for; both results are possible in the
model. A range of an empty body is cut out of nothing (the length handed to the
parser wraps around): the model keeps the interval, and the properties that
speak of bytes leave empty bodies out.

### The rest of the server

**Startup**: the constructor statement by statement: each field of the
configuration with the conversion `get<int>`, `get<bool>` or `get<std::string>`
makes (a field of another type throws), the allocations, the threads and the
socket calls, each of which may fail and throws, the spawned workers, which
take the compression setting when they are scheduled, `run` and the destructor,
which joins threads that never end. An exception destroys the members from the
last to the first (server.h:85-102), one a step, while workers go on starting:
`performedTasksQueue`, `staticTasksQueue`, `tasksQueue`, then `threadsPool`. What
happens when a queue is destroyed under a worker that waits on it is undefined: the
process ends, the destructor returns, or it never does. A pool with a joinable
thread ends the process (`std::terminate`).

**Routes**: `addRoute` (with the copy it makes for HEAD), the route of the status
page that `run` adds, and `dispatcher`. A regular expression is the set of URIs
it matches. Both allocations of the dispatcher may fail.

**StatusPage**: the page is computed by a worker in three walks over tables that
the loop thread owns, without a lock. The module interleaves the walks, one
table entry a step, with the loop's assignments, one a step. Counts are
unsigned words of `Word` values.

**StaticResources**: one worker runs the callback; between any two of its steps a
file may be written or removed, the directory changed, and the cache switched on
or off. A path is a name with its extension, its query and the file name that
its first 119 characters give.

**Responses**: how a response object is built and handed over (moved, sliced,
copied), completed by the chain and turned into the text of the output buffer,
and a client that reads a kept connection and relies on Content-Length. Texts
are sequences of header fields and body units; the head is cut at the size of
`prepareHttpHeader`'s buffer.

**QueryString, Multipart**: `parseParamsRequest` (strtok_r) and `urlencoded`
(getline) over characters, turn by turn; `multipartFormData` over tokens, for
forms that a client builds from parts.

### The libraries

**PicoHttpParser**: all three parsers over classes of bytes, one action per
control point of the code, in the build without SSE4.2. A message arrives in
pieces; it is parsed again from its first byte, as the server does it, with the
extra byte of length the server adds, or with `last_len`. The extra byte is one of
`Stale`, whatever an earlier request left in the buffer.

**ChunkedDecoder**: `phr_decode_chunked`, byte by byte, with the state that it
keeps between calls and the compaction of the buffer. `SizeMod` is the number of
values of its `size_t`.

**Gzip**: the loops of `Compressor::compress` and `Decompressor::decompress`, turn by
turn: how much room zlib is given and where. zlib delivers what fits into the
room; a stream may arrive whole, cut short or damaged. `avail_in` and `avail_out`
are taken modulo `UIntMod`.

**Logging**: `Logger`, the console appender that the server installs, and the
rolling file appender: opening, the header, rolling by unlink and rename, with
a crash at any step. Each of these calls may fail; nobody looks at the results of
unlink and rename, and the file stays where it is. A step is a system call or a
statement under the appender's mutex.

**JsonLexer, JsonParser**: bytes to tokens, and tokens to events for the three
receivers (the builder of a value, the builder with a callback, the acceptor).
**JsonValue, JsonContainer, JsonCompare**: the calls on a value, programs that
change two values and keep an iterator, and sorting by `operator<`.
**JsonPointer, JsonAccess, JsonPatch**: pointers and the five ways to follow one,
flatten, patch, diff, merge_patch.
**JsonEscape, JsonSerializer, JsonNumberText**: strings, structure and numbers of
the text `dump` writes. The shortest digits of a float are an input.
**JsonBytes, JsonCbor, JsonMsgPack, JsonUbjson, JsonBson, JsonBinary**: readers and
writers of the binary formats over bytes, and bytes that are cut, extended or
changed between them. Machine numbers are bytes; where a module calculates with
them, a type has 2 * `Half` values.

### Modules that instantiate the others

MCHttpServer, MCServer, MCLibraries and MCJson give the constants their small
values; the other modules take them from a .cfg. MCServer, MCLibraries and MCJson
extend several modules that share no state and check them side by side: the
variable `part`, chosen in Init and never changed, says which of them moves, and
the variables of the others stay at their initial values. A behaviour of such a
run is a behaviour of one module, and its properties are those of that module.

## Runs

Passing runs:

| Run | Module | Properties | What it shows |
| --- | --- | --- | --- |
| one_slot | MCHttpServer | TimePointTestExact, TaskHasOneOwner, MutedHasTask, ReadingStartsClean, MixedOutputIsLast, OutputFits, ConnectionsBalance | Whatever the loop, the workers, the peer and the clock do, with partial reads and sends and failing calls: a result meets the request that asked for it, a task is owned once, a connection carries nothing over, and the counts add up. |
| two_slots | MCHttpServer | EventsNotStale, AnswersPendingRequest | Two connections and a descriptor without a slot: no event of a batch is stale, and the drain touches only the connection that waits for the drained task. |
| progress | MCHttpServer | WaitEnds, CompletesInTime | A connection never waits for a worker forever, even if the handler never returns; a complete request whose limit has passed comes to an end. |
| worker_queue | ThreadSafeQueue | NoLostWakeup, Linearizable | The loop pushes and workers wait, with spurious wake-ups: the queue implements TaskQueue, and no item lies next to a sleeping worker. |
| performed_queue | ThreadSafeQueue | DrainFinds, PerformedAreTaken | Workers push and the loop drains: its check for emptiness is never stale, and every performed task is taken. |
| response_chain | ResponseChains | RangesWithinBody, ServedAsAsked, HeadersTellBody | Lists of up to three ranges and every other header through the whole chain: what is cut lies in the body and is what the header asks for, and the headers describe the body that is sent. |
| status_page | StatusPage | PageIsTrue | A worker builds the page while the loop accepts, reads, sends and closes: a page nobody disturbed is exact and adds up, and its totals were true during the callback. |
| server_parts | MCServer | StartIsSound, DispatchIsRight, ResponsesArrive, ParametersAsWritten, FormAsSent, NeverBack | Start-up, dispatching, responses, query strings, forms and static files, one at a time. |
| libraries | MCLibraries | ParsesInPieces, DecodesInPieces, GzipIsSound, LogIsWhole, LoopsEnd | The header parser, the chunked decoder, the gzip loops and the logger, one at a time. |
| json | MCJson | LexerIsRight, ParserIsRight, BinaryIsRight, SortedThroughout, PointersAgree, DumpIsRight, NumberTextIsRight, ContainerIsRight, PatchesWork, EscapeIsRight | The parts of the JSON library, one at a time. |

Several properties are conjunctions, of statements about one module that
support each other:

- `HeadersTellBody`: Content-Length is the length of the body, a body is cut or
  compressed and never both, Content-Range names the handler's size.
- `PageIsTrue`: SnapshotExact, PageAddsUp, TotalsFresh.
- `StartIsSound`: a server that can run has a worker for both queues; whatever
  fails, the constructor's exception reaches the caller only if no worker was
  spawned; the compression setting of the file reaches every worker. It does not
  say that the workers are safe until the process ends: their queues are
  destroyed first.
- `DispatchIsRight`: the earliest call of addRoute that is meant for a request
  handles it, HEAD follows GET, what is not handed over is freed.
- `ResponsesArrive`: a client of a kept connection that relies on Content-Length
  stays in step, and reads what the handlers made.
- `ParametersAsWritten`, `FormAsSent`: against a definition that looks at the
  text, or at the list of parts, as a whole.
- `ParsesInPieces`: reads stay in the buffer, answers are final, last_len changes
  no answer, fields are where the message has them. With any leftover byte behind
  the received ones an answer that was final stays the same, and an incomplete
  message is taken for complete only if the byte is a line feed and the header
  lacked just that. Whether the parser then refuses a message that is only cut
  is left open: it does for a control byte inside a field.
- `DecodesInPieces`: the decoder stays in its buffer, gives out the data and the
  exact rest, and completes no broken stream.
- `GzipIsSound`: writes stay in the string, nothing is lost, a body comes back,
  the limit holds.
- `LogIsWhole`: records are not mixed on the console; across failing calls and a
  crash at any step, what is on disk is in order and ends with the last record
  written, and it has no gap unless the rename of a file between the current and
  the oldest one failed; files are bounded, by one record more for every restart
  and every time the current file could not be renamed, and have one header each.
- `LoopsEnd`: the decoder's calls, compress, calls to log, and decompress of data
  that is not empty end. decompress of no data does not.
- `FormAsSent` says of names, file names and types that a part keeps its own, not
  that a part without one gets none; `ResponsesArrive` is about requests that a
  handler answers; `PageIsTrue` about pages no closing disturbs, and totals.
- `ParserIsRight`: with a callback that discards a key, a scalar or a container, at
  its start or its end, the value is that of the text without the discarded
  parts, up to placeholders (see below).

Runs that end in a violation, because the code differs from the repository's
README:

| Run | Property | What the code does |
| --- | --- | --- |
| time_limit | TimeLimitEnforced | A request whose body never arrives in full is not ended by the time limit: its 408 is never sent and the connection stays. |
| queue_limit | QueueWithinLimit | The queue of local tasks grows to one more than the configured maximum. |

`CompletesInTime` states what does hold of the time limit.

### Bounds and why they are enough

- one_slot has two task addresses and one slot: a task of an earlier request can
  be on its way while a second one is executed for the same slot, which is the
  case server.cpp:347 is about. The descriptor 1 has no slot. Buffers hold three
  bytes, so that input arrives in parts, output leaves in parts, one response
  length fits and one does not. `MaxAllocFailures` bounds failed allocations;
  `MaxUnsent` stops time while more than that many bytes wait, because every 408
  that strikes an unsent one adds its length.
- two_slots adds what one slot cannot show: batches with events of two
  connections, reuse of a descriptor while the other is being handled, a task
  drained for one slot while the other waits.
- The queue runs let three workers be asleep, notified and waiting for the mutex
  at once.
- response_chain has three ranges, enough for a pair between two others to be out
  of order or to overlap either neighbour, and numbers inside, at the end of and
  past bodies of up to four bytes, one of them too large for the three-bit
  `size_t`.
- status_page has two connections, so that one may close while the other is
  counted, and words of eight values, so that a negative difference wraps.
- server_parts: static files have two paths that share a cut file name, two
  directories and three writes, one before, one during and one after a read.
  Configuration files say something in up to three fields, for 0, 1 or 3 threads:
  none left for a queue, and more than queues. Two routes of the user over two
  URIs and the status page are an earlier and a later route that both match. Two
  responses on a connection show whether the first left the client in step. Query
  strings are all texts of up to five characters over the separators and two
  letters. Forms have two parts, since what goes wrong between parts goes wrong
  between two.
- libraries: the parser gets a well-formed message of each shape and all that
  differ from it in one byte, so that each branch is taken on both sides. The
  decoder gets streams of up to two chunks in pieces of up to three bytes, and
  sizes of two digits, so that a third overflows. gzip gets streams of one to
  five turns that end inside and at the end of a turn's room. The logger has
  four records in three files of one record each, a restart, and a failing unlink
  or rename for each file, so that rolling happens with all files present, after a
  crash in the middle of a roll and after a file stayed where it was; two
  threads log at once until the third record, and take turns from then on. `Stale`
  has a line feed, a carriage return, a zero and a letter: the bytes that end a
  line, that the parser refuses, and that it takes.
- json enumerates texts and values around every boundary the code tests: UTF-8
  lengths and surrogates, widths of the integer types, the lengths at which a
  binary format changes its marker, keys that look like indices, the fill of the
  escape buffer and of `indent_string`. The binary formats' numbers of two and four
  bytes are reached by changing the first byte of an integer. Nested containers go two or three levels
  deep: the code handles a container the same way at every depth.

Task addresses and local workers are interchangeable in every action and
property of HttpServer, so its safety runs use symmetry; the liveness runs do
not. Runs whose .cfg says CHECK_DEADLOCK FALSE are of calls that return and of
programs that end.

### Fairness

HttpServer: the loop thread keeps running (WF of Loop); a peer that
stays connected reads, so its socket is reported writable again and again and
finally takes the rest (SF of ReportsWritable, SendsRest); time passes while a
connection waits for a task (WF of TimePasses). Nothing is assumed of the
workers, of peers sending, or of events other than writability. ThreadSafeQueue:
a thread inside an operation finishes it (WF of Work) and the mutex starves
nobody (SF of Lock); in performed_queue the loop also comes back to look (WF of
Call). A worker outside the queue may stay away forever. Logging: a thread inside
`log` goes on (WF of its steps). ChunkedDecoder and Gzip: a running loop goes on;
callers need not come back.

## Proofs

Eight modules hold theorems. Each result is about every value of the constants
that satisfies the ASSUME of the module it is about; these say that counts and
sizes are natural numbers, limits positive where the code divides or loops by
them, and that sets of kinds are made of the kinds the code knows. One is met by
the default settings and not enforced by the code: that a 413 response fits into
the output buffer (`TooLargeLength < MaxOutputBufferLength`), on which OutputFits
rests.

| Module | About | Proves |
| --- | --- | --- |
| HttpServerProofs | HttpServer | TypeOK, TimePointTestExact, TaskHasOneOwner, MutedHasTask, EventsNotStale, SlotsAgree, MixedOutputIsLast, OutputFits, ReadingStartsClean, AnswersPendingRequest |
| HttpServerCountProofs | HttpServer | ConnectionsBalance |
| ThreadSafeQueueProofs | ThreadSafeQueue | TypeOK, Linearizable, NoLostWakeup, DrainFinds |
| ResponseChainsProofs | ResponseChains | RangesWithinBody, PartsAscend, ServedAsAsked, HeadersTellBody |
| StatusPageProofs | StatusPage | StatusTypeOK, PageIsTrue |
| ServerPartsProofs | Startup, Routes | StartIsSound, DispatchIsRight |
| ContentProofs | StaticResources, ChunkedDecoder, Gzip | NeverBack, Frozen, InBounds, GzipIsSound |
| LoggingProofs | Logging | LogIsWhole |

**HttpServerProofs.** The invariants are not inductive one by one. That a
comparison of time points is
exact depends on which connection waits for which task; that depends on what a
slot may look like for each registration; and that an event is handled for the
right registration depends on nothing closing a slot whose event is still in the
batch. So the inductive invariant `IInv` is TypeOK, TaskHasOneOwner and `ConnInv`:

- `SlotOK(fd)`: buffers and requests are allocated together, exactly when the
  descriptor is registered; and for each registration what the slot may hold
  (reading: nothing to send, no task; muted: nothing to send and an allocated
  task; writing: something to send, no task);
- a task passes the test of server.cpp:347 if and only if the slot waits for it,
  and two slots never wait for the same task;
- `EventsOK`: at most one event per descriptor in the batch, each for a slot that
  is registered for it.

The proof has a lemma for what each shared operation does to one slot
(`CloseKeeps`, `WriteKeeps`, ...), that a step on one slot leaves the others
alone, and one lemma per action.

**HttpServerCountProofs.** By `SlotOK` a slot is open exactly while its descriptor
is registered, so every step keeps the set
of registered slots, closes one that was registered, opens one that was not, or
refuses a connection (`Counted`); the counters follow in each case. That the
drain never closes a closed slot needs the comparison of time points.

**ThreadSafeQueueProofs.** `Linearizable` is the refinement of TaskQueue (push is
Put, wait_and_pop and a successful try_pop are Get, every other step changes
nothing of the abstract queue), from the invariant that the queue holds the last
items pushed, in order. NoLostWakeup goes by counting: a push adds one item and,
if anybody sleeps, one
thread on its way; a pop removes one of each; a thread falls asleep only when
there is no item. DrainFinds holds because only the one poller takes items.

**ResponseChainsProofs.** The invariant `CInv` says
that until a link takes the response its body is the handler's, that the pairs
collected so far lie in it, and that they are sorted once `std::sort` has run. The
comparison of neighbours then orders all pairs: the end of a pair is at most the
beginning of the next, which is at most the beginning of any later one.
`HeadersInv` adds what the headers say of the body at each link. `ServedInv`
adds, for ServedAsAsked, that the pairs collected are those the tokens read so
far ask for, and that the sorted pairs are the same pairs in another order
(`Arranged`); a permutation of a finite set of places is onto, so no range is lost
by the sort. What is sent is then the set of the intervals asked for; and a list
whose ranges are disjoint and in the body is never refused, since two neighbours
that the comparison refuses share a byte.

**StatusPageProofs.** `LoopInv` says what a slot may be at each step of the loop,
and that accepted connections are those processed, failed, open, or not yet
settled by the step under way. `QuietInv` says of a walk nobody disturbed that it
has counted the slots before its place, by the cardinality of the set of those;
`FreshInv` that the totals on the page lie between their values at the
begin of the callback and now.

**ServerPartsProofs.** `PoolInv` says which workers exist at each statement of the
constructor, that an exception reaches the caller with none of them (the pool is
destroyed last, and ends the process otherwise), and that they latched the
file's setting. `RouteInv` says that the
routes represent the calls of addRoute: every route comes from a call, in the
order of the calls and with the copy for HEAD behind its original; the search
has passed no route that matches.

**ContentProofs.** StaticResources: the invariant dates each content: what the
callback holds and what the cache holds are no newer than the disk.
ChunkedDecoder: the write position never passes the read position, which never
passes the end. Gzip: the code's count is what zlib has delivered, and below the
limits no conversion to unsigned int changes a value; `GzipAssumption` has the
relations between the default limits and 2^32.

**LoggingProofs.** The console is unfinished exactly while the owner of the mutex
is between two of its writes. `FileInv` says what each place in the roll may rely
on, with the crash that leaves it. `KeptInv` names, for every file, the first and
the last of the records in it: each file holds a piece of what was written, and
the piece of file n ends no later than that of file n - 1 begins. Unlinking the
last file drops the oldest piece; renaming a file moves its piece to the place
behind it; a crash, or a call that fails, leaves the pieces as they are. The
pieces meet as long as a file is moved to a place that is empty or the last one,
which the turn before has vacated unless its rename failed (`Free`): if it did,
the file there is replaced, and its piece is the gap. A roll whose last rename
fails opens a full file again, which is the term `failed[0]` of the bound.

Only model-checked:

- The liveness properties WaitEnds, CompletesInTime, PerformedAreTaken and
  LoopsEnd: the prover has no rules for fairness.
- ParametersAsWritten, FormAsSent, ParsesInPieces, the rest of DecodesInPieces and
  all properties of the JSON modules: they compare a loop with what a recursive
  definition computes, and the prover has no induction over data.
- ResponsesArrive, whose reference is a client that reads a text unit by unit.

## Where code and comments part

Met while modelling; the models follow the code, and the properties leave these
cases out or state what does hold.

- The number of idle connections on the status page wraps around when a
  connection counted as writing is closed before the last walk.
- A query with a dot decides the MIME type a path is cached with.
- The statistics section of the configuration file has no effect: its fields are
  looked up outside of it.
- A form whose boundaries begin with two dashes that the header does not announce
  arrives with a line end the client did not send behind each content; a field
  without a file name that precedes a file arrives with the file's name.
- `phr_parse_headers` with a last_len calls an empty block incomplete.
- The loop answers a HEAD request without a route with a body.
- A handler that returns a temporary, as the examples of the repository's README
  do, loses the header fields of the response.
- An exception of the constructor destroys the queues before the pool, under
  workers that wait on them; the process does not get to the caller's handler.
- A request is parsed with one byte more than was received. A line feed left from
  an earlier request completes a header one byte early, and a zero or another
  control byte behind a message that is cut inside a field makes the parser refuse
  it, so that the connection is closed (server.cpp:564).
- The logger ignores failures of unlink and rename: a file that cannot be moved is
  replaced by the next newer one, and a current file that cannot be moved grows.
- `decompress` of no data never returns: the room of a turn is zero bytes, and none
  of it is ever left (decompress.hpp:73-93).
- Compressed data of little more than half the limit is refused, and so is a
  result that fits but fills the room of its last turn.
- json.hpp: what the callback discards should be as if it was never read
  (json.hpp:15507), but a scalar or an array discarded in an object, and an object
  discarded at its end in an array, stay there as a value of the type discarded,
  and a repeated key whose value is discarded takes the earlier member with it;
  after a number that ends at a line feed the column is 0
  before the line feed is consumed; the table in the comment of `scan_number`
  refuses the digits 1-9 after a decimal point, the code accepts them; a CBOR
  negative integer below the smallest `number_integer_t` is read as a positive one;
  a large unsigned number equals a negative one; an object whose first key is
  "0" comes back from unflatten as an array, or not at all; `contains` throws more
  exceptions than its comment lists; `operator[]` with the pointer token -1 and
  the add operation below a primitive value reach places that are asserted to
  be out of reach; deep values are indented with blanks once `indent_string` has grown, and an
  indentation of more than 1024 per level is taken from beyond it; a pointer's index
  may have blanks or a plus before it, so that several pointers name one element.

## Not modelled

- The listening socket's error event; what follows the join in the destructor,
  which cannot be reached.
- Texts: HTML of the pages, wording of log lines and exceptions, plog's record,
  formatters and converters.
- Handlers that throw (the process ends) and two servers in one process.
- json.hpp: the conversions from and to C++ types (from_json, to_json), which are
  overloads without state; the input adapters (UTF-16 and UTF-32 input, which the
  server never uses); the search for the shortest digits of a float (Grisu2), a
  calculation with 64-bit mantissas and a table of powers, out of TLC's reach.
- plog's appenders for Windows and Android.
- zlib, the C library's number conversion, the kernel and the file system, which
  are modelled from how the code uses them.
