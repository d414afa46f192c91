--------------------------- MODULE ResponseChains ---------------------------
(***************************************************************************)
(* The chain of handlers through which a worker thread passes the response *)
(* of a task (HttpServer::tasksHandler): HEAD, then range requests, then   *)
(* compression, then the default.  A link that takes the response ends the *)
(* chain.  The range link parses the header with utils::parseRangesRequest *)
(* and cuts the body.                                                      *)
(*                                                                         *)
(* A body is what it is made of: intervals <<first, last>> of the bytes    *)
(* the route's handler returned, numbered from 0.                          *)
(***************************************************************************)
EXTENDS Integers, Sequences, FiniteSets

CONSTANTS
    SizeMod,                \* size_t counts modulo this
    BodySizes,              \* sizes of the bodies the handlers return
    Codes,                  \* status codes the handlers return
    Numbers,                \* the numbers a range header is written with
    MaxRanges,              \* how many ranges a header has at most
    RangeKinds,             \* which range headers are sent, see Headers
    AcceptEncodings,        \* "absent", "gzip" or "other"
    TaskTypes,              \* "LOCAL_TASK", "STATIC_RESOURCES_TASK"
    CompressStaticResources,\* the server's setting
    GzipOverhead,           \* by how much gzip changes a body's size
    PartOverhead            \* size of what introduces a part of a multipart body

ASSUME ChainsAssumption ==
    /\ SizeMod \in Nat \ {0} /\ BodySizes \subseteq 0 .. SizeMod - 1
    /\ Numbers \subseteq Nat /\ MaxRanges \in Nat
    /\ RangeKinds \subseteq {"absent", "otherUnit", "noEquals", "list"}
    /\ AcceptEncodings \subseteq {"absent", "gzip", "other"}
    /\ TaskTypes \subseteq {"LOCAL_TASK", "STATIC_RESOURCES_TASK"}
    /\ CompressStaticResources \in BOOLEAN
    /\ GzipOverhead \in Nat /\ PartOverhead \in Nat /\ Codes \subseteq Nat

\* A comma-separated element of the header: "a-", "-b", "a-b", or anything else.
Tokens ==
    [kind : {"from"}, left : Numbers, right : {0}]
    \cup [kind : {"last"}, left : {0}, right : Numbers]
    \cup [kind : {"closed"}, left : Numbers, right : Numbers]
    \cup [kind : {"bad"}, left : {0}, right : {0}]

\* Range headers: none, one without "bytes", one with "bytes" but not
\* "bytes=", or "bytes=" and a list.
Headers ==
    [kind : RangeKinds \ {"list"}, tokens : {<<>>}]
    \cup {h \in [kind : {"list"}, tokens : UNION {[1 .. n -> Tokens] : n \in 0 .. MaxRanges}] :
             "list" \in RangeKinds}

\* No Content-Length header yet.
NoLength == -1

VARIABLES
    stage,      \* the link, or the step of parseRangesRequest, that is next
    task,       \* the request's method, headers and type; the code put in the task
    returned,   \* size of the body the handler returned
    response,   \* the response the chain works on
    next,       \* how many tokens parseRangesRequest has read
    ranges      \* the pairs it has collected

vars == <<stage, task, returned, response, next, ranges>>

\* The bodies: none, all of the handler's n bytes.
Empty == [form |-> "empty", parts |-> <<>>, size |-> 0]
Whole(n) ==
    IF n = 0 THEN Empty ELSE [form |-> "whole", parts |-> <<<<0, n - 1>>>>, size |-> n]

\* Bytes that std::copy takes from begin + p[1] to begin + p[2] + 1.
PartLength(p) == (p[2] - p[1] + 1) % SizeMod

\* What is cut out of a body; several parts are introduced by a header each.
\* Copying bytes the body does not have is undefined: such a part stays in the
\* model as the interval it is, see RangesWithinBody.
Cut(ps) ==
    LET overhead == IF Len(ps) = 1 THEN 0 ELSE PartOverhead
        total[i \in 0 .. Len(ps)] ==
          IF i = 0 THEN 0 ELSE total[i - 1] + PartLength(ps[i]) + overhead
    IN  [form |-> "cut", parts |-> ps, size |-> total[Len(ps)]]

\* gzip::compress: all of the body, in another form (module Gzip has its loop).
Gzip(b) == [form |-> "gzip", parts |-> b.parts, size |-> b.size + GzipOverhead]

-----------------------------------------------------------------------------
\* A worker waits for a task: its response, and the locals of the chain, are gone.
Waiting ==
    [stage |-> "idle", returned |-> 0, next |-> 0, ranges |-> <<>>,
     task |-> [method |-> "GET", range |-> [kind |-> "absent", tokens |-> <<>>],
               accept |-> "absent", type |-> "LOCAL_TASK", code |-> 0],
     response |-> [code |-> 0, body |-> Empty, compress |-> FALSE,
                   contentLength |-> NoLength, contentRange |-> <<>>,
                   gzipHeader |-> FALSE]]

Init ==
    /\ stage = Waiting.stage /\ task = Waiting.task /\ returned = Waiting.returned
    /\ response = Waiting.response /\ next = Waiting.next /\ ranges = Waiting.ranges

\* The worker calls the route's handler and notes the code of its response.
\* "GET" stands for every method that is not HEAD.
CallHandler ==
    /\ stage = "idle"
    /\ \E method \in {"GET", "HEAD"}, h \in Headers, a \in AcceptEncodings,
          type \in TaskTypes, code \in Codes, n \in BodySizes, z \in BOOLEAN :
         /\ task' = [method |-> method, range |-> h, accept |-> a, type |-> type,
                     code |-> code]
         /\ returned' = n
         /\ response' = [code |-> code, compress |-> z,
                         body |-> Whole(n),
                         contentLength |-> NoLength, contentRange |-> <<>>,
                         gzipHeader |-> FALSE]
    /\ stage' = "head"
    /\ UNCHANGED <<next, ranges>>

\* The chain ends; the worker puts the response in the task.
Finish(r) ==
    /\ response' = r
    /\ stage' = "done"
    /\ UNCHANGED <<task, returned, next, ranges>>

Goto(s) ==
    /\ stage' = s
    /\ UNCHANGED <<task, returned, response, next, ranges>>

HeadChain ==
    /\ stage = "head"
    /\ IF task.method = "HEAD"
       THEN Finish([response EXCEPT !.contentLength = response.body.size,
                                    !.body = Empty])
       ELSE Goto("range")

\* Mutant: the size of the body is given.
LastByte_WholeSize == response.body.size % SizeMod

\* What the range link gives parseRangesRequest as the length: one less than
\* the size of the body.  It wraps around for an empty body.
LastByte == (response.body.size - 1) % SizeMod

\* A range header without "bytes" runs off the end of checkRequestRange, which
\* then returns either value.
CheckRequestRange ==
    CASE task.range.kind = "absent"    -> {FALSE}
      [] task.range.kind = "otherUnit" -> BOOLEAN
      [] OTHER                         -> {TRUE}

PrepareRangeNotSatisfiable(r) ==
    [r EXCEPT !.contentRange = <<r.body.size>>, !.code = 416, !.body = Empty]

\* What a thrown OnyxupException leads to.
NotSatisfiable == Finish(PrepareRangeNotSatisfiable(response))

RangeChain ==
    /\ stage = "range"
    /\ \/ /\ FALSE \in CheckRequestRange
          /\ Goto("compress")
       \/ /\ TRUE \in CheckRequestRange
          /\ IF LastByte = 0 \/ task.range.kind # "list"
             THEN NotSatisfiable
             ELSE Goto("tokens")

\* Digits are summed up in a size_t.
Value(n) == n % SizeMod

\* The pair a token stands for, and whether it is refused.
PairOf(t) ==
    CASE t.kind = "from"   -> <<Value(t.left), LastByte>>
      [] t.kind = "last"   -> <<LastByte - Value(t.right), LastByte>>
      [] t.kind = "closed" -> <<Value(t.left), Value(t.right)>>

Refused(t) ==
    \/ t.kind = "bad"
    \/ t.kind = "from" /\ Value(t.left) > LastByte
    \/ t.kind = "last" /\ Value(t.right) > LastByte
    \/ t.kind = "closed" /\ \/ Value(t.right) < Value(t.left)
                            \/ Value(t.right) > LastByte

\* One token of the header.
ParseToken ==
    /\ stage = "tokens"
    /\ next < Len(task.range.tokens)
    /\ LET t == task.range.tokens[next + 1]
       IN  IF Refused(t)
           THEN NotSatisfiable
           ELSE /\ ranges' = Append(ranges, PairOf(t))
                /\ next' = next + 1
                /\ UNCHANGED <<stage, task, returned, response>>

\* std::sort by the first component: pairs with the same one are left in any order.
SortedRanges ==
    {[i \in DOMAIN ranges |-> ranges[f[i]]] :
        f \in {g \in [DOMAIN ranges -> DOMAIN ranges] :
                 /\ \A i, j \in DOMAIN ranges : i # j => g[i] # g[j]
                 /\ \A i, j \in DOMAIN ranges : i < j => ranges[g[i]][1] <= ranges[g[j]][1]}}

SortRanges ==
    /\ stage = "tokens"
    /\ next = Len(task.range.tokens)
    /\ IF ranges = <<>>
       THEN NotSatisfiable
       ELSE /\ ranges' \in SortedRanges
            /\ stage' = "border"
            /\ UNCHANGED <<task, returned, response, next>>

\* Mutant: the beginnings of neighbours are compared.
Overlap_ComparesFirsts ==
    \E i \in 2 .. Len(ranges) :
        ranges[i][1] < ranges[i - 1][1] \/ ranges[i][2] > LastByte

\* A pair that begins before the end of the pair before it is refused.
Overlap ==
    \E i \in 2 .. Len(ranges) :
        ranges[i][1] < ranges[i - 1][2] \/ ranges[i][2] > LastByte

\* Mutant: Content-Length is taken before the body is replaced.
PrepareRange_LengthFirst(r) ==
    [r EXCEPT !.code = 206, !.body = Cut(ranges), !.contentLength = r.body.size,
              !.contentRange = IF Len(ranges) = 1 THEN ranges[1] \o <<r.body.size>> ELSE @]

\* One range is the body; several become a multipart body, without Content-Range.
PrepareRange(r) ==
    [r EXCEPT !.code = 206, !.body = Cut(ranges), !.contentLength = Cut(ranges).size,
              !.contentRange = IF Len(ranges) = 1 THEN ranges[1] \o <<r.body.size>> ELSE @]

CheckBorders ==
    /\ stage = "border"
    /\ IF Overlap THEN NotSatisfiable ELSE Finish(PrepareRange(response))

\* As checkRequestRange: a header without "gzip" runs off the end.
CheckSupportGzipEncoding ==
    CASE task.accept = "absent" -> {FALSE}
      [] task.accept = "other"  -> BOOLEAN
      [] OTHER                  -> {TRUE}

PrepareCompress(r) ==
    [r EXCEPT !.gzipHeader = TRUE, !.body = Gzip(r.body),
              !.contentLength = Gzip(r.body).size]

CompressChain ==
    /\ stage = "compress"
    /\ \E supported \in CheckSupportGzipEncoding :
         IF \/ supported /\ response.compress
            \/ task.type = "STATIC_RESOURCES_TASK" /\ CompressStaticResources
         THEN Finish(PrepareCompress(response))
         ELSE Goto("default")

DefaultChain ==
    /\ stage = "default"
    /\ Finish([response EXCEPT !.contentLength = response.body.size])

\* The worker pushes the task and takes the next one.
NextTask ==
    /\ stage = "done"
    /\ stage' = Waiting.stage /\ task' = Waiting.task /\ returned' = Waiting.returned
    /\ response' = Waiting.response /\ next' = Waiting.next /\ ranges' = Waiting.ranges

Next ==
    \/ CallHandler \/ HeadChain \/ RangeChain \/ ParseToken \/ SortRanges
    \/ CheckBorders \/ CompressChain \/ DefaultChain \/ NextTask

Spec == Init /\ [][Next]_vars

-----------------------------------------------------------------------------
Body ==
    [form : {"empty", "whole", "cut", "gzip"}, parts : Seq(Int \X Int), size : Nat]

\* Every variable has its type.
TypeOK ==
    /\ stage \in {"idle", "head", "range", "tokens", "border", "compress",
                  "default", "done"}
    /\ task.method \in {"GET", "HEAD"} /\ task.code \in Codes \cup {0}
    /\ returned \in BodySizes \cup {0}
    /\ response.body \in Body
    /\ response.contentLength \in Nat \cup {NoLength}
    /\ response.gzipHeader \in BOOLEAN
    /\ next \in 0 .. Len(task.range.tokens)
    /\ ranges \in Seq(Int \X Int)

Done == stage = "done"

\* What is sent of a body that is not empty are bytes of that body: std::copy of prepareRangeResponse stays between begin and end,
\* whatever the header says, numbers that do not fit a size_t included.
RangesWithinBody ==
    Done /\ returned > 0 =>
        \A i \in DOMAIN response.body.parts :
            LET p == response.body.parts[i]
            IN  0 <= p[1] /\ p[1] <= p[2] /\ p[2] < returned

\* The interval of the body a token asks for, read as the numbers it is
\* written with.
Asked(t) ==
    CASE t.kind = "from"   -> t.left .. returned - 1
      [] t.kind = "last"   -> returned - 1 - t.right .. returned - 1
      [] t.kind = "closed" -> t.left .. t.right
      [] OTHER             -> {}

\* Every token names bytes of the body.
AllSatisfiable(ts) ==
    \A i \in DOMAIN ts : Asked(ts[i]) # {} /\ Asked(ts[i]) \subseteq 0 .. returned - 1

\* No two tokens ask for the same byte; for the same two bytes.
Disjoint(ts) ==
    \A i, j \in DOMAIN ts : i # j => Asked(ts[i]) \cap Asked(ts[j]) = {}

TouchOnly(ts) ==
    \A i, j \in DOMAIN ts :
        i # j => Cardinality(Asked(ts[i]) \cap Asked(ts[j])) <= 1

\* The numbers are numbers of a size_t.
Representable(ts) ==
    \A i \in DOMAIN ts : ts[i].left < SizeMod /\ ts[i].right < SizeMod

\* parseRangesRequest against what the header says: a list of ranges of a body
\* of at least two bytes is served when its ranges lie in the body and are
\* disjoint, and only when they lie in the body and two of them share a byte at
\* most; the parts are then the ranges asked for.
ServedAsAsked ==
    LET ts == task.range.tokens
        parts == response.body.parts
    IN  /\ Done /\ task.method = "GET" /\ task.range.kind = "list"
        /\ returned > 1 /\ Representable(ts)
        => /\ response.code \in {206, 416}
           /\ ts # <<>> /\ AllSatisfiable(ts) /\ Disjoint(ts) => response.code = 206
           /\ response.code = 206 =>
                /\ AllSatisfiable(ts) /\ TouchOnly(ts)
                /\ Len(parts) = Len(ts)
                /\ {Asked(ts[i]) : i \in DOMAIN ts}
                     = {parts[i][1] .. parts[i][2] : i \in DOMAIN parts}

\* The parts are sent in the order of the body, whatever the order they are
\* asked for in: no part begins before the end of an earlier one.
PartsAscend ==
    Done /\ returned > 0 =>
        \A i, j \in DOMAIN response.body.parts :
            i < j => response.body.parts[i][2] <= response.body.parts[j][1]

\* Content-Length is the length of the body that follows; of the handler's body
\* in the answer to HEAD, which has none.  Only a 416 has no such header.
LengthTells ==
    Done =>
        \/ response.contentLength = IF task.method = "HEAD" THEN returned ELSE response.body.size
        \/ response.contentLength = NoLength /\ response.code = 416 /\ response.body = Empty

\* One link takes the response: a body is cut or compressed, never both, and a
\* compressed body is all of the handler's and says that it is compressed.
CutOrCompressed ==
    Done =>
        /\ response.gzipHeader <=> response.body.form = "gzip"
        /\ response.gzipHeader =>
             /\ response.contentRange = <<>>
             /\ returned > 0 => response.body.parts = Whole(returned).parts

\* Content-Range tells the size of the handler's body, not of what is left of
\* it: prepareRangeResponse and prepareRangeNotSatisfiableResponse read it
\* before they replace the body.
ContentRangeTellsSize ==
    Done /\ response.contentRange # <<>> =>
        response.contentRange[Len(response.contentRange)] = returned

\* The headers of an answer agree with its body: its length, whether it is
\* compressed, and the size a range was cut from.
HeadersTellBody == LengthTells /\ CutOrCompressed /\ ContentRangeTellsSize

=============================================================================
