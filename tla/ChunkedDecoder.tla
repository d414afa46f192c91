--------------------------- MODULE ChunkedDecoder ---------------------------
(***************************************************************************)
(* phr_decode_chunked: the caller gives it the bytes of a stream as they   *)
(* arrive, the decoder compacts the data to the front of each buffer and   *)
(* keeps its state for the next.  A step reads one byte, or moves the data *)
(* of a chunk.                                                             *)
(***************************************************************************)
EXTENDS Integers, Sequences

CONSTANTS
    Streams,        \* records: text, and what it holds: data, rest, good
    HexDigits,      \* sizeof(size_t) * 2
    MaxPiece        \* bound: bytes per call

\* A size_t counts modulo this.
SizeMod == 16 ^ HexDigits

ASSUME ChunkedAssumption ==
    /\ \A s \in Streams : s.text \in Seq(STRING) /\ s.trailer \in BOOLEAN
    /\ HexDigits \in Nat \ {0} /\ MaxPiece \in Nat \ {0} /\ SizeMod \in Nat \ {0}

VARIABLES
    stream, given,  \* the stream, and how much of it the caller has supplied
    state, left, hexCount,          \* phr_chunked_decoder
    buf, src, dst,  \* the buffer of this call
    running,        \* a call is under way
    ret,
    out             \* history: the decoded bytes of the calls before

chunkedVars == <<stream, given, state, left, hexCount, buf, src, dst, running, ret, out>>
decoder == <<state, left, hexCount>>
caller == <<stream, given, running, ret, out>>

\* decode_hex, over the digits the streams use.
Hex == [c \in {"0", "1", "2", "F"} |-> CASE c = "0" -> 0 [] c = "1" -> 1 [] c = "2" -> 2 [] c = "F" -> 15]

ChunkedInit ==
    /\ stream \in Streams /\ given = 0
    /\ state = "SIZE" /\ left = 0 /\ hexCount = 0
    /\ buf = <<>> /\ src = 0 /\ dst = 0
    /\ running = FALSE /\ ret = -2
    /\ out = <<>>

\* The caller supplies newly arrived data while the decoder wants more.
Call ==
    /\ ~running /\ ret = -2
    /\ \E k \in 1 .. MaxPiece :
          /\ given + k <= Len(stream.text)
          /\ buf' = SubSeq(stream.text, given + 1, given + k)
          /\ given' = given + k
    /\ src' = 0 /\ dst' = 0
    /\ running' = TRUE
    /\ UNCHANGED <<stream, state, left, hexCount, ret, out>>

-----------------------------------------------------------------------------

MemMove(b, to, from, len) ==
    [i \in 1 .. Len(b) |-> IF i \in to + 1 .. to + len THEN b[i - to + from] ELSE b[i]]

\* The end of a call: what was not decoded moves behind the decoded data.
Exit(r) ==
    /\ buf' = MemMove(buf, dst, src, Len(buf) - src)
    /\ out' = out \o SubSeq(buf', 1, dst)
    /\ ret' = r /\ running' = FALSE
    /\ UNCHANGED <<stream, given, src, dst>>

At(s) == running /\ state = s

\* Every loop over bytes leaves the function when the buffer is used up.
Exhausted ==
    /\ running /\ state # "DATA" /\ src = Len(buf)
    /\ Exit(-2)
    /\ UNCHANGED decoder

Read(s) == At(s) /\ src < Len(buf)
next == buf[src + 1]

ReadOn == src' = src + 1 /\ UNCHANGED <<buf, dst, caller>>
Fail == Exit(-1) /\ UNCHANGED decoder

SizeDigit ==
    /\ Read("SIZE") /\ next \in DOMAIN Hex
    /\ IF hexCount = HexDigits THEN Fail
       ELSE /\ left' = (left * 16 + Hex[next]) % SizeMod
            /\ hexCount' = hexCount + 1
            /\ ReadOn
            /\ UNCHANGED state

SizeEnd ==
    /\ Read("SIZE") /\ next \notin DOMAIN Hex
    /\ IF hexCount = 0 THEN Fail
       ELSE hexCount' = 0 /\ state' = "EXT" /\ UNCHANGED <<left, buf, src, dst, caller>>

\* Complete: the call ends behind this byte and tells how many are left.
Complete ==
    /\ buf' = MemMove(buf, dst, src + 1, Len(buf) - (src + 1))
    /\ out' = out \o SubSeq(buf', 1, dst)
    /\ ret' = Len(buf) - (src + 1) /\ running' = FALSE /\ src' = src + 1
    /\ UNCHANGED <<stream, given, dst>>

\* The rest of the line behind a size; a size of zero is the last one.
ChunkExtension ==
    /\ Read("EXT")
    /\ IF next # "LF" THEN ReadOn /\ UNCHANGED decoder
       ELSE IF left = 0 /\ ~stream.trailer THEN Complete /\ UNCHANGED decoder
       ELSE /\ state' = IF left = 0 THEN "TRAILERS_LINE_HEAD" ELSE "DATA"
            /\ ReadOn
            /\ UNCHANGED <<left, hexCount>>

\* Mutant: data stays where it is.
Take_NoMove(len) ==
    /\ src' = src + len /\ dst' = dst + len
    /\ UNCHANGED buf

Take(len) ==
    /\ buf' = MemMove(buf, dst, src, len)
    /\ src' = src + len /\ dst' = dst + len

\* Less than the chunk is in the buffer: its data ends the call.
PartOfData ==
    /\ At("DATA") /\ Len(buf) - src < left
    /\ LET avail == Len(buf) - src
       IN  /\ Take(avail)
           /\ out' = out \o SubSeq(buf', 1, dst + avail)
           /\ left' = left - avail
    /\ ret' = -2 /\ running' = FALSE
    /\ UNCHANGED <<stream, given, state, hexCount>>

RestOfData ==
    /\ At("DATA") /\ Len(buf) - src >= left
    /\ Take(left)
    /\ left' = 0 /\ state' = "CRLF"
    /\ UNCHANGED <<hexCount, caller>>

\* Mutant: the loop over carriage returns does not move on.
DataEnd_Spins ==
    /\ Read("CRLF")
    /\ CASE next = "LF" -> state' = "SIZE" /\ ReadOn /\ UNCHANGED <<left, hexCount>>
         [] next = "CR" -> UNCHANGED chunkedVars
         [] OTHER -> Fail

\* The line end behind the data, and the next size.
DataEnd ==
    /\ Read("CRLF")
    /\ CASE next = "CR" -> ReadOn /\ UNCHANGED decoder
         [] next = "LF" -> state' = "SIZE" /\ ReadOn /\ UNCHANGED <<left, hexCount>>
         [] OTHER -> Fail

\* Trailers end with an empty line.
TrailerHead ==
    /\ Read("TRAILERS_LINE_HEAD")
    /\ CASE next = "CR" -> ReadOn /\ UNCHANGED decoder
         [] next = "LF" -> Complete /\ UNCHANGED decoder
         [] OTHER -> state' = "TRAILERS_LINE_MIDDLE" /\ ReadOn /\ UNCHANGED <<left, hexCount>>

TrailerMiddle ==
    /\ Read("TRAILERS_LINE_MIDDLE")
    /\ ReadOn
    /\ state' = IF next = "LF" THEN "TRAILERS_LINE_HEAD" ELSE state
    /\ UNCHANGED <<left, hexCount>>

Decode ==
    \/ Exhausted \/ SizeDigit \/ SizeEnd \/ ChunkExtension \/ PartOfData \/ RestOfData
    \/ DataEnd \/ TrailerHead \/ TrailerMiddle

ChunkedNext == Call \/ Decode

ChunkedSpec == ChunkedInit /\ [][ChunkedNext]_chunkedVars /\ WF_chunkedVars(Decode)

-----------------------------------------------------------------------------
(* Properties *)

\* The decoder stays inside the buffer and never writes over bytes it has not
\* read.
InBounds == 0 <= dst /\ dst <= src /\ src <= Len(buf) /\ left >= 0

\* However the stream is cut: what has been decoded is a beginning of its data;
\* when the decoder says the stream has ended it is all of it, and the bytes it
\* reports as left over, followed by those not supplied yet, are the rest.
DecodesTheData ==
    ~running /\ stream.good =>
       /\ out = SubSeq(stream.data, 1, Len(out))
       /\ ret # -1
       /\ ret >= 0 => /\ out = stream.data
                      /\ SubSeq(buf, dst + 1, dst + ret)
                            \o SubSeq(stream.text, given + 1, Len(stream.text)) = stream.rest

\* A stream that breaks the format never counts as complete.
BrokenNeverCompletes == ~stream.good => ret < 0

\* A call ends whatever the bytes are.
CallsEnd == running ~> ~running

\* A stream is decoded alike however it is cut into pieces, inside its buffer.
DecodesInPieces == InBounds /\ DecodesTheData /\ BrokenNeverCompletes

=============================================================================
