----------------------------- MODULE Responses ------------------------------
(***************************************************************************)
(* Responses from the handler that makes one to the client that reads it   *)
(* (response-base.cpp and the classes derived from ResponseBase): the      *)
(* object is built, handed over as the return value of the handler,        *)
(* completed by the chain and turned into text in a buffer of fixed size.  *)
(* Requests here are without Range and Accept-Encoding headers, so that    *)
(* the chain is its first or its last link; ResponseChains has the others. *)
(*                                                                         *)
(* A text is a sequence of units: a field of the head, or a byte of the    *)
(* body.                                                                   *)
(***************************************************************************)
EXTENDS Integers, Sequences, FiniteSets, SequencesExt

CONSTANTS
    FileContents,       \* contents of files: sequences of lines, each of bytes
    Bodies,             \* bodies handlers give to the other classes
    Own,                \* header fields that handlers add
    UnitsOf(_),         \* units a header field takes in the text
    HeadCapacity,       \* size of the buffer of prepareResponse
    MaxResponses        \* responses written to one connection

VARIABLES
    method,     \* of the request that is served
    response,   \* the object, or NoResponse
    reply,      \* "idle", "making", "returned", "prepared"
    made,       \* what the handler made: history
    stream,     \* all that was written to the output
    replies     \* what should be read there: history

responseVars == <<method, response, reply, made, stream, replies>>

NoResponse == [code |-> 0, mime |-> "none", body |-> <<>>, headers |-> {}, length |-> 0]

-----------------------------------------------------------------------------
(* The classes *)

Newline == "newline"
\* ResponseFile reads all bytes, ResponseHtml line by line.
FileBytes(lines) == FlattenSeq([i \in DOMAIN lines |-> IF i < Len(lines) THEN Append(lines[i], Newline) ELSE lines[i]])
FileLines(lines) == FlattenSeq(lines)

Base(code, mime, body, headers) ==
    [code |-> code, mime |-> mime, body |-> body, headers |-> headers, length |-> 0]
ResponseFile(lines) ==
    Base(200, "octet-stream", FileBytes(lines), {"Content-Description", "Content-Transfer-Encoding"})
ResponseHtml(lines) == Base(200, "html", FileLines(lines), {})
ResponseJson(body) == Base(200, "json", body, {})
ResponsePlain(body) == Base(200, "plain", body, {})
ResponseXML(body) == Base(200, "xml", body, {})
ResponsePDF(body) == Base(200, "pdf", body, {})
ErrorBody == <<"error">>
Response403 == Base(403, "html", ErrorBody, {})
Response404 == Base(404, "html", ErrorBody, {})
Response408 == Base(408, "html", ErrorBody, {})
Response413 == Base(413, "html", ErrorBody, {})
Response503 == Base(503, "html", ErrorBody, {})

\* A file that cannot be read gives an empty body.
FromFile == {ResponseFile(f) : f \in FileContents \cup {<<>>}} \cup {ResponseHtml(f) : f \in FileContents \cup {<<>>}}
FromBody == UNION {{ResponseJson(b), ResponsePlain(b), ResponseXML(b), ResponsePDF(b)} : b \in Bodies}

\* The move constructor leaves the header fields behind.
Moved(r) == [r EXCEPT !.headers = {}]

-----------------------------------------------------------------------------
(* A handler *)

ResponseInit ==
    /\ method \in {"GET", "HEAD"} /\ response = NoResponse /\ reply = "idle"
    /\ made = NoResponse /\ stream = <<>> /\ replies = <<>>

Construct(r) ==
    /\ reply = "idle" /\ Len(replies) < MaxResponses
    /\ response' = r /\ made' = r /\ reply' = "making"
    /\ UNCHANGED <<method, stream, replies>>

AddHeader(h) ==
    /\ reply = "making" /\ h \notin response.headers
    /\ response' = [response EXCEPT !.headers = @ \cup {h}] /\ made' = response'
    /\ UNCHANGED <<method, reply, stream, replies>>

ReturnResponse(r) == response' = r /\ reply' = "returned" /\ UNCHANGED <<method, made, stream, replies>>
\* A temporary of a derived class is moved into the value of the handler; a
\* variable is copied, moved or stays where it is, as the compiler sees fit.
ReturnTemporary == reply = "making" /\ response.headers \cap Own = {} /\ ReturnResponse(Moved(response))
ReturnVariable == reply = "making" /\ (ReturnResponse(response) \/ ReturnResponse(Moved(response)))

-----------------------------------------------------------------------------
(* The chain and the text *)

WithLength(r) == [r EXCEPT !.headers = @ \cup {"Content-Length"}, !.length = Len(r.body)]
\* Mutant: a HEAD request is answered with the body.
prepareHeadResponse_KeepsBody(r) == WithLength(r)
prepareHeadResponse(r) == [WithLength(r) EXCEPT !.body = <<>>]
prepareDefaultResponse(r) == WithLength(r)

ExecuteChain ==
    /\ reply = "returned"
    /\ response' = IF method = "HEAD" THEN prepareHeadResponse(response) ELSE prepareDefaultResponse(response)
    /\ reply' = "prepared"
    /\ UNCHANGED <<method, made, stream, replies>>

Field(r, h) == IF h = "Content-Length" THEN <<<<h, r.length>>>> ELSE [k \in 1 .. UnitsOf(h) |-> <<h, k>>]
Fixed(r) == <<<<"status", r.code>>, <<"type", r.mime>>>>
WholeHead(r, order) == Fixed(r) \o FlattenSeq([i \in DOMAIN order |-> Field(r, order[i])]) \o <<<<"end", 0>>>>
\* prepareResponse: the fields in any order, cut off where the buffer ends.
PreparedText(r, order) ==
    LET head == WholeHead(r, order)
    IN  (IF Len(head) < HeadCapacity THEN head ELSE SubSeq(head, 1, HeadCapacity - 1))
        \o [i \in DOMAIN r.body |-> <<"byte", r.body[i]>>]

\* Text written for a request, the next request of the connection.
Write(r, byLoop) ==
    /\ \E order \in SetToSeqs(r.headers) :
          /\ stream' = stream \o PreparedText(r, order)
          /\ replies' = Append(replies, [method |-> method, code |-> r.code, mime |-> r.mime,
                                         body |-> IF method = "HEAD" THEN <<>> ELSE r.body,
                                         byLoop |-> byLoop, cut |-> Len(WholeHead(r, order)) >= HeadCapacity])
    /\ method' \in {"GET", "HEAD"}

SendPrepared ==
    /\ reply = "prepared"
    /\ Write(response, FALSE)
    /\ response' = NoResponse /\ made' = NoResponse /\ reply' = "idle"

\* The event loop answers by itself; a request out of time is the last one.
LoopReply(r) ==
    /\ reply = "idle" /\ Len(replies) < MaxResponses
    /\ Write(WithLength(Moved(r)), TRUE)
    /\ reply' = IF r.code = 408 THEN "closing" ELSE "idle"
    /\ UNCHANGED <<response, made>>

ResponseNext ==
    \/ \E r \in FromFile \cup FromBody \cup {Response403, Response413} : Construct(r)
    \/ \E h \in Own : AddHeader(h)
    \/ ReturnTemporary \/ ReturnVariable \/ ExecuteChain \/ SendPrepared
    \/ \E r \in {Response404, Response408, Response503} : LoopReply(r)

ResponseSpec == ResponseInit /\ [][ResponseNext]_responseVars

-----------------------------------------------------------------------------
(* Properties *)

\* What a client reads that asked the given methods: a head up to its end, then
\* as many bytes as Content-Length says unless it asked HEAD.
RECURSIVE ClientReads(_, _)
ClientReads(text, methods) ==
    IF methods = <<>> THEN IF text = <<>> THEN <<>> ELSE <<[code |-> 0, mime |-> "rest", body |-> <<>>]>>
    ELSE LET ends == {k \in DOMAIN text : text[k] = <<"end", 0>>}
             end == CHOOSE k \in ends : \A j \in ends : k <= j
             Find(name) == {k \in 1 .. end : text[k][1] = name}
             length == IF Head(methods) = "HEAD" THEN 0 ELSE text[CHOOSE k \in Find("Content-Length") : TRUE][2]
         IN  IF \/ ends = {} \/ text[1][1] # "status" \/ Find("Content-Length") = {}
                \/ Cardinality(Find("status")) # 1 \/ Len(text) < end + length
             THEN <<[code |-> 0, mime |-> "unreadable", body |-> <<>>]>>
             ELSE <<[code |-> text[1][2], mime |-> text[2][2], body |-> [i \in 1 .. length |-> text[end + i][2]]]>>
                  \o ClientReads(SubSeq(text, end + length + 1, Len(text)), Tail(methods))

AsRead == [i \in DOMAIN replies |-> [code |-> replies[i].code, mime |-> replies[i].mime, body |-> replies[i].body]]
InStep == ClientReads(stream, [i \in DOMAIN replies |-> replies[i].method]) = AsRead
NoneCut == \A i \in DOMAIN replies : ~replies[i].cut

\* A client that keeps the connection reads the responses one after the other
\* as they were made, as long as their heads fit the buffer and the loop does
\* not answer a HEAD request by itself (prepareHeadResponse,
\* prepareDefaultResponse, prepareResponse).
StreamInStep ==
    NoneCut /\ (\A i \in DOMAIN replies : ~(replies[i].byLoop /\ replies[i].method = "HEAD")) => InStep

\* A response arrives at the chain with the code, type and body the handler
\* gave it, however it was returned (the move constructor of ResponseBase).
ReturnedAsMade ==
    reply = "returned" => /\ response.code = made.code /\ response.mime = made.mime
                          /\ response.body = made.body

\* The response of a handler reaches the client as it was made.
ResponsesArrive == StreamInStep /\ ReturnedAsMade

=============================================================================
