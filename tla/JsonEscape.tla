----------------------------- MODULE JsonEscape -----------------------------
(***************************************************************************)
(* Writing a string as JSON text (json.hpp, serializer::dump_escaped): the *)
(* bytes are decoded as UTF-8, escaped into a buffer of fixed size and     *)
(* passed on when little room is left; ill-formed bytes are refused,       *)
(* dropped or replaced.                                                    *)
(***************************************************************************)
EXTENDS Integers, Sequences, SequencesExt, TLC

CONSTANTS
    Strings,        \* sequences of bytes
    BufferSize      \* of string_buffer

ASSUME BufferAssumption == BufferSize \in Nat /\ BufferSize > 12

VARIABLES
    s, ensure_ascii, error_handler,
    i,              \* bytes read
    state, point,
    buffer,         \* the bytes in string_buffer
    accepted,       \* bytes_after_last_accept
    undumped,       \* undumped_chars
    used,           \* the furthest byte written in string_buffer
    out,            \* written to the output
    status          \* "running", "done" or "thrown"

escapeVars == <<s, ensure_ascii, error_handler, i, state, point, buffer, accepted, undumped, used, out, status>>

-----------------------------------------------------------------------------
(* decode *)

ByteType(b) ==
    CASE b <= 127 -> 0
      [] b \in 128 .. 143 -> 1
      [] b \in 144 .. 159 -> 9
      [] b \in 160 .. 191 -> 7
      [] b \in {192, 193} \cup 245 .. 255 -> 8
      [] b \in 194 .. 223 -> 2
      [] b = 224 -> 10
      [] b = 237 -> 4
      [] b \in (225 .. 239) \ {237} -> 3
      [] b = 240 -> 11
      [] b \in 241 .. 243 -> 6
      [] b = 244 -> 5

UTF8_ACCEPT == 0
Reject == 1
\* The state after a first byte of each type, and the types that go on from a
\* state to another.
First == (0 :> 0) @@ (2 :> 2) @@ (3 :> 3) @@ (4 :> 5) @@ (5 :> 8) @@ (6 :> 7) @@ (10 :> 4) @@ (11 :> 6)
Follow == (2 :> <<{1, 7, 9}, 0>>) @@ (3 :> <<{1, 7, 9}, 2>>) @@ (4 :> <<{7}, 2>>) @@ (5 :> <<{1, 9}, 2>>)
          @@ (6 :> <<{7, 9}, 3>>) @@ (7 :> <<{1, 7, 9}, 3>>) @@ (8 :> <<{1}, 3>>)
NextState(st, t) ==
    IF st = UTF8_ACCEPT THEN IF t \in DOMAIN First THEN First[t] ELSE Reject
    ELSE IF t \in Follow[st][1] THEN Follow[st][2] ELSE Reject
Codepoint(st, cp, b) ==
    IF st # UTF8_ACCEPT THEN cp * 64 + (b % 64)
    ELSE IF ByteType(b) < 8 THEN b % (2 ^ (8 - ByteType(b))) ELSE 0

-----------------------------------------------------------------------------
(* Escapes *)

HexCharacter(n) == IF n < 10 THEN 48 + n ELSE 87 + n
U(n) == <<92, 117, HexCharacter(n \div 4096), HexCharacter((n \div 256) % 16), HexCharacter((n \div 16) % 16), HexCharacter(n % 16)>>
Simple == (8 :> 98) @@ (9 :> 116) @@ (10 :> 110) @@ (12 :> 102) @@ (13 :> 114) @@ (34 :> 34) @@ (92 :> 92)
Numbered(cp) == cp \notin DOMAIN Simple /\ (cp <= 31 \/ (ensure_ascii /\ cp >= 127))
EscapedText(cp, b) ==
    IF cp \in DOMAIN Simple THEN <<92, Simple[cp]>>
    ELSE IF ~Numbered(cp) THEN <<b>>
    ELSE IF cp <= 65535 THEN U(cp) ELSE U(55232 + (cp \div 1024)) \o U(56320 + (cp % 1024))
\* snprintf ends its text with a zero.
Terminator(cp) == IF Numbered(cp) THEN 1 ELSE 0
Replacement == IF ensure_ascii THEN U(65533) ELSE <<239, 191, 189>>

\* Room is kept for the longest escape and its terminating zero.
NoRoom(b) == BufferSize - Len(b) < 13
Larger(m, n) == IF m > n THEN m ELSE n

-----------------------------------------------------------------------------
EscapeInit ==
    /\ s \in Strings /\ ensure_ascii \in BOOLEAN /\ error_handler \in {"strict", "replace", "ignore"}
    /\ i = 0 /\ state = UTF8_ACCEPT /\ point = 0
    /\ buffer = <<>> /\ accepted = 0 /\ undumped = 0 /\ used = 0 /\ out = <<>> /\ status = "running"

\* The text in the buffer after a complete step, passed on if little room is left.
Settle(text) ==
    /\ IF NoRoom(text) THEN out' = out \o text /\ buffer' = <<>> ELSE buffer' = text /\ UNCHANGED out
    /\ accepted' = Len(buffer') /\ undumped' = 0

Byte == s[i + 1]
Decoded == NextState(state, ByteType(Byte))
More == status = "running" /\ i < Len(s)

AcceptByte ==
    /\ More /\ Decoded = UTF8_ACCEPT
    /\ LET cp == Codepoint(state, point, Byte)
           text == buffer \o EscapedText(cp, Byte)
       IN  /\ point' = cp
           /\ used' = Larger(used, Len(text) + Terminator(cp))
           /\ Settle(text)
    /\ state' = UTF8_ACCEPT /\ i' = i + 1
    /\ UNCHANGED <<s, ensure_ascii, error_handler, status>>

\* A byte that ended an unfinished character is looked at again.
\* Mutant: it is skipped.
Reread_Never == i + 1
Reread == IF undumped > 0 THEN i ELSE i + 1
\* The bytes of an unfinished character are taken back out of the buffer.
RejectByte ==
    /\ More /\ Decoded = Reject
    /\ point' = Codepoint(state, point, Byte)
    /\ IF error_handler = "strict"
       THEN status' = "thrown" /\ UNCHANGED <<i, state, buffer, accepted, undumped, used, out>>
       ELSE LET text == SubSeq(buffer, 1, accepted) IN
            /\ i' = Reread
            /\ IF error_handler = "replace"
               THEN Settle(text \o Replacement) /\ used' = Larger(used, Len(text \o Replacement))
               ELSE buffer' = text /\ undumped' = 0 /\ UNCHANGED <<accepted, used, out>>
            /\ state' = UTF8_ACCEPT /\ UNCHANGED status
    /\ UNCHANGED <<s, ensure_ascii, error_handler>>

ContinueByte ==
    /\ More /\ Decoded \notin {UTF8_ACCEPT, Reject}
    /\ point' = Codepoint(state, point, Byte)
    /\ buffer' = IF ensure_ascii THEN buffer ELSE Append(buffer, Byte)
    /\ used' = Larger(used, Len(buffer'))
    /\ undumped' = undumped + 1 /\ state' = Decoded /\ i' = i + 1
    /\ UNCHANGED <<s, ensure_ascii, error_handler, accepted, out, status>>

FinishDump ==
    /\ status = "running" /\ i = Len(s)
    /\ status' = IF state # UTF8_ACCEPT /\ error_handler = "strict" THEN "thrown" ELSE "done"
    /\ out' = CASE status' = "thrown" -> out
                [] status' = "done" /\ state = UTF8_ACCEPT -> out \o buffer
                [] status' = "done" /\ state # UTF8_ACCEPT ->
                     out \o SubSeq(buffer, 1, accepted) \o IF error_handler = "replace" THEN Replacement ELSE <<>>
    /\ UNCHANGED <<s, ensure_ascii, error_handler, i, state, point, buffer, accepted, undumped, used>>

EscapeNext == AcceptByte \/ RejectByte \/ ContinueByte \/ FinishDump
EscapeSpec == EscapeInit /\ [][EscapeNext]_escapeVars

-----------------------------------------------------------------------------
(* Reference: the characters of a string, by the table of well-formed byte
   sequences of the Unicode standard, and of a JSON text. *)

Second == (224 :> 160 .. 191) @@ (237 :> 128 .. 159) @@ (240 :> 144 .. 191) @@ (244 :> 128 .. 143)
Tail2 == 128 .. 191
CharLength(b) == IF b <= 127 THEN 1 ELSE IF b \in 194 .. 223 THEN 2 ELSE IF b \in 224 .. 239 THEN 3
                 ELSE IF b \in 240 .. 244 THEN 4 ELSE 0
\* How many bytes from p on belong together.
Fits(t, p, k) == \/ k = 1
                 \/ k > 1 /\ p + k - 1 <= Len(t)
                    /\ \A q \in 2 .. k : t[p + q - 1] \in IF q = 2 /\ t[p] \in DOMAIN Second THEN Second[t[p]] ELSE Tail2
Together(t, p) == CHOOSE k \in 1 .. 4 : /\ Fits(t, p, k) /\ k <= Larger(1, CharLength(t[p]))
                                        /\ \/ k >= CharLength(t[p])
                                           \/ ~Fits(t, p, k + 1)
Bits(t, p, n) ==
    CASE n = 1 -> t[p]
      [] n = 2 -> (t[p] % 32) * 64 + (t[p + 1] % 64)
      [] n = 3 -> (t[p] % 16) * 4096 + (t[p + 1] % 64) * 64 + (t[p + 2] % 64)
      [] n = 4 -> (t[p] % 8) * 262144 + (t[p + 1] % 64) * 4096 + (t[p + 2] % 64) * 64 + (t[p + 3] % 64)
\* Code points, -1 for what is ill-formed.
RECURSIVE Characters(_, _)
Characters(t, p) ==
    IF p > Len(t) THEN <<>>
    ELSE LET n == Together(t, p) IN
         <<IF n = CharLength(t[p]) THEN Bits(t, p, n) ELSE -1>> \o Characters(t, p + n)

HexValue(c) == IF c < 58 THEN c - 48 ELSE c - 87
UnitAt(t, p) == HexValue(t[p + 2]) * 4096 + HexValue(t[p + 3]) * 256 + HexValue(t[p + 4]) * 16 + HexValue(t[p + 5])
RECURSIVE ReadText(_, _)
ReadText(t, p) ==
    IF p > Len(t) THEN <<>>
    ELSE IF t[p] # 92 THEN <<Bits(t, p, CharLength(t[p]))>> \o ReadText(t, p + CharLength(t[p]))
    ELSE IF t[p + 1] # 117 THEN <<CHOOSE c \in DOMAIN Simple : Simple[c] = t[p + 1]>> \o ReadText(t, p + 2)
    ELSE IF UnitAt(t, p) \in 55296 .. 56319
    THEN <<65536 + (UnitAt(t, p) - 55296) * 1024 + (UnitAt(t, p + 6) - 56320)>> \o ReadText(t, p + 12)
    ELSE <<UnitAt(t, p)>> \o ReadText(t, p + 6)

-----------------------------------------------------------------------------
(* Properties *)

\* The text reads as the string, each maximal ill-formed piece of which was
\* replaced by one U+FFFD, left out, or made the call throw (dump_escaped with
\* its three error handlers).
TextReadsAsString ==
    LET chars == Characters(s, 1)
        wanted == CASE error_handler = "strict" -> chars
                    [] error_handler = "ignore" -> SelectSeq(chars, LAMBDA c : c # -1)
                    [] error_handler = "replace" -> [k \in DOMAIN chars |-> IF chars[k] = -1 THEN 65533 ELSE chars[k]]
    IN  /\ status = "done" => ReadText(out, 1) = wanted
        /\ status = "thrown" => error_handler = "strict" /\ -1 \in {chars[k] : k \in DOMAIN chars}

\* No byte outside string_buffer is written, the zeros of snprintf included.
BufferHolds == used <= BufferSize

\* The text has no raw control characters, and with ensure_ascii no byte beyond
\* ASCII.
TextIsPlain ==
    \A k \in DOMAIN out : out[k] >= 32 /\ (ensure_ascii => out[k] < 127)

\* Every byte is read at most twice, so the loop ends though it steps back: it
\* stays where it is only to give up bytes it had read before (dump_escaped).
ReadAtMostTwice == [][status' = "running" /\ i' = i => undumped' < undumped]_escapeVars

\* A string is written as a text that reads as the string, in plain characters,
\* inside the buffer, in one pass.
EscapeIsRight == [](TextReadsAsString /\ BufferHolds /\ TextIsPlain) /\ ReadAtMostTwice

=============================================================================
