-------------------------------- MODULE Gzip --------------------------------
(***************************************************************************)
(* The gzip wrapper (gzip/compress.hpp, gzip/decompress.hpp): a body is    *)
(* compressed as ResponsePrepareCompressChain does it, and what arrives of *)
(* it, whole, cut short or damaged, is decompressed.  Both operations ask  *)
(* zlib to finish, into a string that they lengthen until zlib leaves room *)
(* in it.  Bytes are counted.  zlib is external: of a stream it delivers   *)
(* what fits into the room it is given, in order.                          *)
(***************************************************************************)
EXTENDS Integers, FiniteSetsExt

CONSTANTS
    MaxBytes,          \* Compressor's max_, 2000000000 by default
    MaxDecompressed,   \* Decompressor's max_, 1000000000 by default
    Headroom,          \* 1024
    UIntMod,           \* 2 ^ 32, the range of avail_in and avail_out
    Sizes,             \* sizes of bodies
    Lengths,           \* lengths zlib may compress a body to
    Held,              \* sizes of the string that is passed for the output
    CallsFail          \* {TRUE} if zlib may have no memory

ASSUME GzipAssumption ==
    /\ MaxBytes \in Nat /\ MaxDecompressed \in Nat /\ Headroom \in Nat \ {0}
    /\ UIntMod \in Nat \ {0}
    /\ MaxBytes < UIntMod /\ MaxDecompressed < UIntMod
    /\ MaxBytes \div 2 + Headroom < UIntMod
    /\ Sizes \subseteq Nat /\ Lengths \subseteq Nat \ {0} /\ Held \subseteq Nat

VARIABLES
    stage,    \* where the exchange is
    body,     \* the size of what was compressed
    size,     \* the size of the operation's input
    output,   \* output.size()
    count,    \* size_compressed, size_uncompressed
    call,     \* the last call of zlib: where its room ended, output.size()
    zstream   \* zlib's side

gzipVars == <<stage, body, size, output, count, call, zstream>>

\* What zlib has to deliver in all, what of it is left, and how its input ends.
Stream == [total : Nat, left : Nat, ending : {"whole", "cut", "bad"}]

Begin(n, h, total, ending) ==
    /\ size' = n /\ output' = h /\ count' = 0
    /\ call' = [to |-> 0, size |-> 0]
    /\ zstream' = [total |-> total, left |-> total, ending |-> ending]

-----------------------------------------------------------------------------
(* Compressor::compress *)

\* deflate sees the size as an unsigned int.
Compress ==
    /\ stage = "start"
    /\ \E n \in Sizes, h \in Held, k \in Lengths :
          /\ body' = n
          /\ \/ n > MaxBytes /\ stage' = "tooLarge"
             \/ n <= MaxBytes /\ TRUE \in CallsFail /\ stage' = "failed"
             \/ n <= MaxBytes /\ stage' = "deflate"
          /\ Begin(n, h, k, "whole")

\* How much room each turn of the loop gives deflate.
Increase(n) == n \div 2 + Headroom

\* zlib takes from the stream what fits into avail bytes.
Delivered(avail) == Min({avail, zstream.left})

Deliver(n) == zstream' = [zstream EXCEPT !.left = @ - n]

\* One turn of the loop; after the last the string is cut to what is there.
DeflateTurn ==
    /\ stage = "deflate"
    /\ LET increase == Increase(size)
           avail    == increase % UIntMod
           got      == Delivered(avail)
           room     == Max({output, count + increase})
       IN  /\ call' = [to |-> count + avail, size |-> room]
           /\ Deliver(got)
           /\ count' = count + (increase - (avail - got))
           /\ \/ avail - got = 0 /\ output' = room /\ UNCHANGED stage
              \/ avail - got # 0 /\ output' = count' /\ stage' = "compressed"
    /\ UNCHANGED <<body, size>>

-----------------------------------------------------------------------------
(* Decompressor::decompress *)

\* What may arrive: all of the stream, in which inflate finds the body as
\* deflate saw it; the beginning of it, with a beginning of the body; or as
\* many bytes that are not all what was sent, and then anything.
Arrives(n, total, ending) ==
    LET fed == body % UIntMod
    IN  \/ n = output /\ ending = "whole" /\ total = fed
        \/ n \in 0 .. output - 1 /\ ending = "cut" /\ total \in 0 .. fed
           /\ (n = 0 => total = 0)
        \/ n = output /\ ending = "bad"

Decompress ==
    /\ stage = "compressed"
    /\ \E n \in 0 .. output, h \in Held, ending \in {"whole", "cut", "bad"} :
       \E total \in Sizes \cup 0 .. body :
          /\ Arrives(n, total, ending)
          /\ \/ TRUE \in CallsFail /\ stage' = "failed"
             \/ (n > MaxDecompressed \/ n * 2 > MaxDecompressed) /\ stage' = "refused"
             \/ n * 2 <= MaxDecompressed /\ stage' = "inflate"
          /\ Begin(n, h, total, ending)
    /\ UNCHANGED body

\* inflate meets the damage after the bytes that are good; if they fill the
\* room it may meet it in the next call.
Meets(avail, got) ==
    {bad \in BOOLEAN : /\ bad => zstream.ending = "bad" /\ got = zstream.left
                       /\ (zstream.ending = "bad" /\ got < avail) => bad}

\* Mutant: the string keeps its length after the last turn.
InflateTurn_NotCut ==
    /\ stage = "inflate"
    /\ LET chunk == 2 * size
           avail == chunk % UIntMod
           got   == Delivered(avail)
           room  == count + chunk
       IN  \/ /\ room > MaxDecompressed /\ stage' = "refused"
              /\ UNCHANGED <<output, count, call, zstream>>
           \/ /\ room <= MaxDecompressed
              /\ call' = [to |-> count + avail, size |-> room]
              /\ Deliver(got)
              /\ output' = room
              /\ \E bad \in Meets(avail, got) :
                    \/ bad /\ stage' = "failed" /\ UNCHANGED count
                    \/ /\ ~bad /\ count' = count + (chunk - (avail - got))
                       /\ stage' = IF avail - got = 0 THEN stage ELSE "done"
    /\ UNCHANGED <<body, size>>

\* One turn: the limit, the room, inflate, and what it returned.
InflateTurn ==
    /\ stage = "inflate"
    /\ LET chunk == 2 * size
           avail == chunk % UIntMod
           got   == Delivered(avail)
           room  == count + chunk
       IN  \/ /\ room > MaxDecompressed /\ stage' = "refused"
              /\ UNCHANGED <<output, count, call, zstream>>
           \/ /\ room <= MaxDecompressed
              /\ call' = [to |-> count + avail, size |-> room]
              /\ Deliver(got)
              /\ \E bad \in Meets(avail, got) :
                    \/ /\ bad /\ stage' = "failed" /\ output' = room
                       /\ UNCHANGED count
                    \/ /\ ~bad /\ count' = count + (chunk - (avail - got))
                       /\ \/ avail - got = 0 /\ output' = room /\ UNCHANGED stage
                          \/ avail - got # 0 /\ output' = count' /\ stage' = "done"
    /\ UNCHANGED <<body, size>>

-----------------------------------------------------------------------------
Over == {"tooLarge", "refused", "failed", "done"}

\* The next body.
Again ==
    /\ stage \in Over
    /\ stage' = "start"
    /\ UNCHANGED <<body, size, output, count, call, zstream>>

GzipInit ==
    /\ stage = "start" /\ body = 0 /\ size = 0 /\ output = 0 /\ count = 0
    /\ call = [to |-> 0, size |-> 0]
    /\ zstream = [total |-> 0, left |-> 0, ending |-> "whole"]

GzipNext == Compress \/ DeflateTurn \/ Decompress \/ InflateTurn \/ Again

GzipSpec == GzipInit /\ [][GzipNext]_gzipVars

\* A thread that is in a loop goes on.
GzipFairSpec == GzipSpec /\ WF_gzipVars(DeflateTurn) /\ WF_gzipVars(InflateTurn)

-----------------------------------------------------------------------------
(* Properties *)

\* The room given to zlib lies within the string: what is written in the
\* second turn of either loop, after what is there, does not leave it.
WritesInside == call.to <= call.size

\* compress returns the whole stream, also when it is as long as the room of
\* one or more turns and zlib ends with no room left.
NothingLost == stage = "compressed" => output = zstream.total

\* What decompress returns is the body, if all of the stream has arrived; if
\* it was cut short it is a beginning of the body, without an error; and
\* damage is never taken for the end.
RoundTrip ==
    stage = "done" =>
        /\ zstream.ending # "bad"
        /\ output <= body
        /\ zstream.ending = "whole" => output = body

\* The string is never made longer than the limit.
MemoryLimited ==
    stage \in {"inflate", "done"} => call.size <= MaxDecompressed

\* compress ends.
CompressEnds == stage = "deflate" ~> stage = "compressed"

\* So does decompress of data that is not empty.  With no data it spins for ever:
\* the room of a turn is zero bytes, and none of it is left.
DecompressEnds == stage = "inflate" /\ size > 0 ~> stage \in Over

\* Both loops around zlib stay inside their string and its limit, and lose
\* nothing.
GzipIsSound == WritesInside /\ NothingLost /\ RoundTrip /\ MemoryLimited

=============================================================================
