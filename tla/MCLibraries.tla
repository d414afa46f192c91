---------------------------- MODULE MCLibraries -----------------------------
(***************************************************************************)
(* The libraries the server calls, each on a small instance: the HTTP      *)
(* parser, its decoder of chunked bodies, the gzip functions and the       *)
(* logger.  They share no state, so they are checked side by side: the     *)
(* initial state says which one runs, and the others stay where they       *)
(* start.                                                                  *)
(***************************************************************************)
EXTENDS PicoHttpParser, ChunkedDecoder, Gzip, Logging

VARIABLE part

vars == <<part, picoVars, chunkedVars, gzipVars, logVars>>

Init ==
    /\ part \in {"parser", "decoder", "gzip", "log"}
    /\ IF part = "parser" THEN PicoInit
       ELSE /\ kind = "none" /\ msg = <<>> /\ n = 0 /\ extra = <<>> /\ last = 0
            /\ control = "none" /\ place = 0 /\ cnt = 0 /\ start = 0
            /\ slices = NoFields /\ answer = 0 /\ answers = <<>> /\ refused = FALSE
    /\ IF part = "decoder" THEN ChunkedInit
       ELSE /\ stream = (CHOOSE s \in Streams : s.good) /\ given = 0
            /\ state = "SIZE" /\ left = 0 /\ hexCount = 0 /\ buf = <<>> /\ src = 0 /\ dst = 0
            /\ running = FALSE /\ ret = -2 /\ out = <<>>
    /\ GzipInit
    /\ LogInit

\* The first records are logged by two threads at once, the later ones one after
\* the other, so that the files roll often enough at a bearable number of states.
LogTurn(t) == Step(t) /\ (clock' > 2 => \A u \in Threads \ {t} : pc[u] = "idle")
LogStep == Crash \/ \E t \in Threads : LogTurn(t)

Next ==
    \/ part = "parser" /\ PicoNext /\ UNCHANGED <<part, chunkedVars, gzipVars, logVars>>
    \/ part = "decoder" /\ ChunkedNext /\ UNCHANGED <<part, picoVars, gzipVars, logVars>>
    \/ part = "gzip" /\ GzipNext /\ UNCHANGED <<part, picoVars, chunkedVars, logVars>>
    \/ part = "log" /\ LogStep /\ UNCHANGED <<part, picoVars, chunkedVars, gzipVars>>

\* The fairness of ChunkedSpec, GzipFairSpec and LogFairSpec for the part that
\* runs: a loop goes on, and so does every thread.
Loop ==
    \/ part = "decoder" /\ Decode /\ UNCHANGED gzipVars
    \/ part = "gzip" /\ (DeflateTurn \/ InflateTurn) /\ UNCHANGED chunkedVars
Spec ==
    /\ Init /\ [][Next]_vars
    /\ WF_<<chunkedVars, gzipVars>>(Loop)
    /\ \A t \in Threads : WF_logVars(part = "log" /\ LogTurn(t))

-----------------------------------------------------------------------------
(* Messages for the parser: well-formed ones of every shape, and all that  *)
(* differ from one of them in one byte.                                    *)

AnyToken == {"g", "1", ":", "SP", "HT", "CR", "LF", "NUL", "hi", "V"}

Variants(m) ==
    {m} \cup {[m EXCEPT ![i] = t] : i \in 1 .. Len(m), t \in AnyToken}
        \cup {RemoveAt(m, i) : i \in 1 .. Len(m)}
        \cup {InsertAt(m, i, t) : i \in 1 .. Len(m), t \in {"g", "SP", "CR", "LF"}}

RequestLine == <<"g", "SP", "g", "SP", "V", "1">>
StatusLine == <<"V", "1", "SP", "1", "1", "1", "SP", "g">>

MCMessages ==
    [k \in {"request", "response", "headers"} |->
       UNION {Variants(m) : m \in
          CASE k = "request" ->
                 {<<"CR", "LF">> \o RequestLine \o <<"LF", "g", ":", "g", "LF", "CR", "LF">>,
                  RequestLine \o <<"LF", "g", ":", "LF", "SP", "g", "LF", "LF">>}
            [] k = "response" -> {StatusLine \o <<"CR", "LF", "CR", "LF">>}
            [] k = "headers" -> {<<"g", ":", "SP", "g", "HT", "LF", "g", ":", "hi", "LF", "LF">>}}]

-----------------------------------------------------------------------------
(* Streams for the decoder, with a size_t of two hexadecimal digits.       *)

LineEnds == {<<"LF">>, <<"CR", "LF">>}

\* A chunk: the digits of its size, what follows them on the line, its data.
Chunks ==
    {[text |-> c.head \o e \o c.data \o f, data |-> c.data] :
       e \in LineEnds, f \in LineEnds,
       c \in {[head |-> <<"1">>, data |-> <<"LF">>],
              [head |-> <<"0", "2", ";">>, data |-> <<"0", "d">>]}}

Lasts == {<<"0">> \o e : e \in LineEnds} \cup {<<"0", "0", ";">> \o e : e \in LineEnds}
Trailers == {<<"CR", "LF">>, <<"d", ":", "CR", "LF", "LF">>}

ChunkLists ==
    {[text |-> <<>>, data |-> <<>>]} \cup Chunks
    \cup {[text |-> a.text \o b.text, data |-> a.data \o b.data] : a \in Chunks, b \in {c \in Chunks : Len(c.data) = 1}}

\* Well-formed streams, with bytes of a next message behind them.
Good ==
    {[text |-> b.text \o l \o t \o <<"d">>, data |-> b.data, trailer |-> c, good |-> TRUE,
      rest |-> IF c THEN <<"d">> ELSE t \o <<"d">>] :
       b \in ChunkLists, l \in Lasts, t \in Trailers, c \in BOOLEAN}

\* No size, too many digits, no line end behind the data; and a size that is
\* larger than the data.
Broken ==
    {[text |-> t, data |-> <<>>, trailer |-> c, good |-> FALSE, rest |-> <<>>] :
       c \in BOOLEAN,
       t \in {<<";", "LF", "0", "LF">>, <<"0", "0", "0", "LF", "LF">>,
              <<"1", "0", "0", "LF", "LF", "0", "LF">>, <<"1", "LF", "d", "d", "0", "LF">>,
              <<"F", "F", "LF", "0", "LF", "LF", "0", "LF", "LF">>}}

MCStreams == Good \cup Broken

-----------------------------------------------------------------------------
(* Bodies for gzip of up to 7 bytes, one more than compress takes, of      *)
(* which zlib makes 1 to 5: the room of a turn is 1 to 4 bytes for         *)
(* deflate, so that it takes one to five turns, and streams end inside and *)
(* at the end of a turn's room; for inflate it is 0 to 6 bytes with a      *)
(* limit of 7.                                                             *)

MCSizes == 0 .. 7
MCLengths == 1 .. 5

-----------------------------------------------------------------------------
(* The logger has both appenders, the console first.                       *)

MCAppenders == <<"console", "file">>

\* The decoder's loop over the bytes, compress, a call to log, and decompress of
\* data that is not empty come to an end.  decompress of no data does not
\* (decompress.hpp:73-93): the room of a turn is zero bytes, zlib leaves none of
\* it, and the loop goes on for ever.
LoopsEnd == CallsEnd /\ CompressEnds /\ DecompressEnds /\ LogReturns

=============================================================================
