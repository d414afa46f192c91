----------------------------- MODULE JsonLexer ------------------------------
(***************************************************************************)
(* The lexer under the JSON parser (json.hpp, class lexer): bytes in,      *)
(* tokens out.  Every action reads one character with get(); the states    *)
(* are the places in scan(), scan_string() and scan_number() where the     *)
(* code waits for one.  The parser calls scan() until it gets the end of   *)
(* the input or an error.  Bytes are numbers, the number types have UMax   *)
(* and IMax as largest values.                                             *)
(***************************************************************************)
EXTENDS Integers, Sequences, SequencesExt

CONSTANTS
    Inputs,         \* records [bytes, tokens]: a text and, if written, its tokens
    DecimalPoint,   \* of the locale
    UMax, IMax      \* the largest number_unsigned_t and number_integer_t

ASSUME LexerAssumption ==
    /\ \A i \in Inputs : i.bytes \in Seq(0 .. 255)
    /\ DecimalPoint \in {44, 46}
    /\ UMax \in Nat /\ IMax \in Nat

VARIABLES
    text, written,
    in,             \* current, next_unget, position, token_string
    token_buffer,
    st,             \* where scan is
    codepoint, ranges, number_type,
    tokens          \* what scan has returned

lexerVars == <<text, written, in, token_buffer, st, codepoint, ranges, number_type, tokens>>

EOF == -1
LF == 10
Quote == 34
Backslash == 92
DigitBytes == 48 .. 57
OneToNine == 49 .. 57
ExponentBytes == {69, 101}
Signs == {43, 45}

-----------------------------------------------------------------------------
(* Input management *)

Fresh == [current |-> EOF, next_unget |-> FALSE, read |-> 0, total |-> 0,
          column |-> 0, lines |-> 0, token_string |-> <<>>]

get_character(i) == IF i.read < Len(text) THEN text[i.read + 1] ELSE EOF

get(i) ==
    LET c == IF i.next_unget THEN i.current ELSE get_character(i)
    IN  [current |-> c, next_unget |-> FALSE,
         read |-> IF i.next_unget \/ c = EOF THEN i.read ELSE i.read + 1,
         total |-> i.total + 1,
         column |-> IF c = LF THEN 0 ELSE i.column + 1,
         lines |-> IF c = LF THEN i.lines + 1 ELSE i.lines,
         token_string |-> IF c = EOF THEN i.token_string ELSE Append(i.token_string, c)]

\* Mutant: a line end that is put back stays counted.
unget_KeepsLine(i) ==
    [i EXCEPT !.next_unget = TRUE, !.total = @ - 1,
              !.column = IF @ = 0 THEN 0 ELSE @ - 1,
              !.token_string = IF i.current = EOF THEN @ ELSE Front(@)]

unget(i) ==
    [i EXCEPT !.next_unget = TRUE, !.total = @ - 1,
              !.lines = IF i.column = 0 /\ @ > 0 THEN @ - 1 ELSE @,
              !.column = IF @ = 0 THEN 0 ELSE @ - 1,
              !.token_string = IF i.current = EOF THEN @ ELSE Front(@)]

reset(i) == [i EXCEPT !.token_string = <<i.current>>]

Next1 == get(in)            \* the lexer after get()
c1 == Next1.current         \* and the character it returned

-----------------------------------------------------------------------------
(* The end of a call of scan *)

ReturnToken(i, type, value) ==
    /\ in' = i
    /\ tokens' = Append(tokens, [type |-> type, value |-> value])
    /\ st' = IF type \in {"parse_error", "end_of_input"} THEN "stopped" ELSE "scan"

Fail == ReturnToken(Next1, "parse_error", <<>>) /\ UNCHANGED <<token_buffer, codepoint, ranges, number_type>>

GoTo(s) == in' = Next1 /\ st' = s /\ UNCHANGED tokens

Still == UNCHANGED <<codepoint, ranges, number_type>>

-----------------------------------------------------------------------------
(* scan *)

\* Only before anything was read.
SkipBom ==
    /\ st = "scan" /\ in.total = 0
    /\ IF c1 = 239 THEN GoTo("bom2")
       ELSE in' = unget(Next1) /\ st' = "space" /\ UNCHANGED tokens
    /\ Still /\ UNCHANGED token_buffer

RestOfBom ==
    /\ st \in {"bom2", "bom3"}
    /\ IF c1 = (IF st = "bom2" THEN 187 ELSE 191)
       THEN GoTo(IF st = "bom2" THEN "bom3" ELSE "space") /\ Still /\ UNCHANGED token_buffer
       ELSE Fail

NoBom ==
    /\ st = "scan" /\ in.total > 0
    /\ st' = "space" /\ UNCHANGED <<in, token_buffer, codepoint, ranges, number_type, tokens>>

Whitespace ==
    /\ st = "space" /\ c1 \in {32, 9, 10, 13}
    /\ GoTo("space") /\ Still /\ UNCHANGED token_buffer

Structural == 91 :> "begin_array" @@ 93 :> "end_array" @@ 123 :> "begin_object"
              @@ 125 :> "end_object" @@ 58 :> "name_separator" @@ 44 :> "value_separator"
              @@ 0 :> "end_of_input" @@ EOF :> "end_of_input"

OneCharacter ==
    /\ st = "space" /\ c1 \in DOMAIN Structural
    /\ ReturnToken(Next1, Structural[c1], <<>>) /\ Still /\ UNCHANGED token_buffer

Literal == 116 :> <<114, 117, 101>> @@ 102 :> <<97, 108, 115, 101>> @@ 110 :> <<117, 108, 108>>
LiteralToken == 116 :> "literal_true" @@ 102 :> "literal_false" @@ 110 :> "literal_null"

\* codepoint holds the literal's first character and the place in the rest.
StartLiteral ==
    /\ st = "space" /\ c1 \in DOMAIN Literal
    /\ GoTo("literal") /\ codepoint' = <<c1, 1>>
    /\ UNCHANGED <<token_buffer, ranges, number_type>>

scan_literal ==
    /\ st = "literal"
    /\ LET rest == Literal[codepoint[1]]
       IN  IF c1 # rest[codepoint[2]] THEN Fail
           ELSE /\ IF codepoint[2] = Len(rest) THEN ReturnToken(Next1, LiteralToken[codepoint[1]], <<>>)
                   ELSE GoTo("literal")
                /\ codepoint' = <<codepoint[1], codepoint[2] + 1>>
                /\ UNCHANGED <<token_buffer, ranges, number_type>>

StartString ==
    /\ st = "space" /\ c1 = Quote
    /\ in' = reset(Next1) /\ token_buffer' = <<>> /\ st' = "string"
    /\ Still /\ UNCHANGED tokens

\* state (init) of scan_number
StartNumber ==
    /\ st = "space" /\ c1 \in DigitBytes \cup {45}
    /\ in' = reset(Next1) /\ token_buffer' = <<c1>>
    /\ st' = IF c1 = 45 THEN "minus" ELSE IF c1 = 48 THEN "zero" ELSE "any1"
    /\ number_type' = IF c1 = 45 THEN "value_integer" ELSE "value_unsigned"
    /\ UNCHANGED <<codepoint, ranges, tokens>>

InvalidLiteral ==
    /\ st = "space"
    /\ c1 \notin {32, 9, 10, 13, Quote, 45} \cup DigitBytes \cup DOMAIN Structural \cup DOMAIN Literal
    /\ Fail

-----------------------------------------------------------------------------
(* scan_string *)

Plain == (32 .. 127) \ {Quote, Backslash}
TwoBytes == 194 .. 223
ThreeBytes == (225 .. 236) \cup {238, 239}
FourBytes == 241 .. 243
Trail == <<128, 191>>

\* What may follow a first byte: no overlong forms, no surrogates, nothing
\* beyond U+10FFFF.
LeadBytes == TwoBytes \cup ThreeBytes \cup FourBytes \cup {224, 237, 240, 244}
TrailRanges(c) ==
    CASE c \in TwoBytes -> <<Trail>>
      [] c = 224 -> <<<<160, 191>>, Trail>>
      [] c \in ThreeBytes -> <<Trail, Trail>>
      [] c = 237 -> <<<<128, 159>>, Trail>>
      [] c = 240 -> <<<<144, 191>>, Trail, Trail>>
      [] c \in FourBytes -> <<Trail, Trail, Trail>>
      [] c = 244 -> <<<<128, 143>>, Trail, Trail>>

ClosingQuote ==
    /\ st = "string" /\ c1 = Quote
    /\ ReturnToken(Next1, "value_string", token_buffer) /\ Still /\ UNCHANGED token_buffer

PlainCharacter ==
    /\ st = "string" /\ c1 \in Plain
    /\ GoTo("string") /\ token_buffer' = Append(token_buffer, c1) /\ Still

LeadByte ==
    /\ st = "string" /\ c1 \in LeadBytes
    /\ GoTo("trail") /\ token_buffer' = Append(token_buffer, c1)
    /\ ranges' = TrailRanges(c1) /\ UNCHANGED <<codepoint, number_type>>

next_byte_in_range ==
    /\ st = "trail"
    /\ IF c1 < Head(ranges)[1] \/ c1 > Head(ranges)[2] THEN Fail
       ELSE /\ GoTo(IF Len(ranges) = 1 THEN "string" ELSE "trail")
            /\ token_buffer' = Append(token_buffer, c1)
            /\ ranges' = Tail(ranges) /\ UNCHANGED <<codepoint, number_type>>

ControlCharacter == st = "string" /\ c1 \in 0 .. 31 /\ Fail
MissingQuote == st = "string" /\ c1 = EOF /\ Fail
IllFormedByte == st = "string" /\ c1 \in (128 .. 255) \ LeadBytes /\ Fail

Escape ==
    /\ st = "string" /\ c1 = Backslash
    /\ GoTo("escape") /\ Still /\ UNCHANGED token_buffer

EscapedByte == 34 :> 34 @@ 92 :> 92 @@ 47 :> 47 @@ 98 :> 8 @@ 102 :> 12 @@ 110 :> 10 @@ 114 :> 13 @@ 116 :> 9

AfterBackslash ==
    /\ st = "escape"
    /\ \/ /\ c1 \in DOMAIN EscapedByte
          /\ GoTo("string") /\ token_buffer' = Append(token_buffer, EscapedByte[c1]) /\ Still
       \/ /\ c1 = 117
          /\ GoTo("hex1") /\ codepoint' = <<0, 0>> /\ UNCHANGED <<token_buffer, ranges, number_type>>
       \/ c1 \notin DOMAIN EscapedByte \cup {117} /\ Fail

HexDigitValue(c) ==
    IF c \in DigitBytes THEN c - 48 ELSE IF c \in 65 .. 70 THEN c - 55
    ELSE IF c \in 97 .. 102 THEN c - 87 ELSE -1

HexStates == <<"hex1", "hex2", "hex3", "hex4">>

\* codepoint[1] is the high surrogate read before, or 0.
High(cp) == 55296 <= cp /\ cp <= 56319
Low(cp) == 56320 <= cp /\ cp <= 57343

Pair(high, low) == high * 1024 + low - 56613888

utf8(cp) ==
    IF cp < 128 THEN <<cp>>
    ELSE IF cp <= 2047 THEN <<192 + (cp \div 64), 128 + (cp % 64)>>
    ELSE IF cp <= 65535 THEN <<224 + (cp \div 4096), 128 + ((cp \div 64) % 64), 128 + (cp % 64)>>
    ELSE <<240 + (cp \div 262144), 128 + ((cp \div 4096) % 64), 128 + ((cp \div 64) % 64), 128 + (cp % 64)>>

\* After the fourth digit: the code point, a surrogate that needs another, or
\* an error.
EndOfCodepoint(cp) ==
    \/ /\ codepoint[1] = 0 /\ High(cp)
       /\ GoTo("low") /\ codepoint' = <<cp, 0>> /\ UNCHANGED <<token_buffer, ranges, number_type>>
    \/ /\ codepoint[1] = 0 /\ ~High(cp) /\ ~Low(cp)
       /\ GoTo("string") /\ token_buffer' = token_buffer \o utf8(cp) /\ Still
    \/ /\ codepoint[1] # 0 /\ Low(cp)
       /\ GoTo("string") /\ token_buffer' = token_buffer \o utf8(Pair(codepoint[1], cp)) /\ Still
    \/ /\ IF codepoint[1] = 0 THEN Low(cp) ELSE ~Low(cp)
       /\ Fail

get_codepoint ==
    \E d \in 1 .. 4 :
      /\ st = HexStates[d]
      /\ IF HexDigitValue(c1) = -1 THEN Fail
         ELSE LET cp == codepoint[2] * 16 + HexDigitValue(c1)
              IN  IF d = 4 THEN EndOfCodepoint(cp)
                  ELSE /\ GoTo(HexStates[d + 1]) /\ codepoint' = <<codepoint[1], cp>>
                       /\ UNCHANGED <<token_buffer, ranges, number_type>>

\* The \u of the low surrogate.
LowSurrogate ==
    \/ st = "low" /\ c1 = Backslash /\ GoTo("lowu") /\ Still /\ UNCHANGED token_buffer
    \/ st = "lowu" /\ c1 = 117 /\ GoTo("hex1") /\ Still /\ UNCHANGED token_buffer
    \/ st = "low" /\ c1 # Backslash /\ Fail
    \/ st = "lowu" /\ c1 # 117 /\ Fail

-----------------------------------------------------------------------------
(* scan_number: the next label *)

scan_number_minus(c) == IF c = 48 THEN "zero" ELSE IF c \in OneToNine THEN "any1" ELSE "error"
scan_number_zero(c) == IF c = 46 THEN "decimal1" ELSE IF c \in ExponentBytes THEN "exponent" ELSE "done"
scan_number_any1(c) ==
    IF c \in DigitBytes THEN "any1" ELSE IF c = 46 THEN "decimal1"
    ELSE IF c \in ExponentBytes THEN "exponent" ELSE "done"
scan_number_decimal1(c) == IF c \in DigitBytes THEN "decimal2" ELSE "error"
scan_number_decimal2(c) ==
    IF c \in DigitBytes THEN "decimal2" ELSE IF c \in ExponentBytes THEN "exponent" ELSE "done"
scan_number_exponent(c) == IF c \in Signs THEN "sign" ELSE IF c \in DigitBytes THEN "any2" ELSE "error"
scan_number_sign(c) == IF c \in DigitBytes THEN "any2" ELSE "error"
scan_number_any2(c) == IF c \in DigitBytes THEN "any2" ELSE "done"

Label(s, c) ==
    CASE s = "minus" -> scan_number_minus(c)
      [] s = "zero" -> scan_number_zero(c)
      [] s = "any1" -> scan_number_any1(c)
      [] s = "decimal1" -> scan_number_decimal1(c)
      [] s = "decimal2" -> scan_number_decimal2(c)
      [] s = "exponent" -> scan_number_exponent(c)
      [] s = "sign" -> scan_number_sign(c)
      [] s = "any2" -> scan_number_any2(c)
NumberStates == {"minus", "zero", "any1", "decimal1", "decimal2", "exponent", "sign", "any2"}

\* strtoull and strtoll of the digits; strtof keeps the text.
NumberValue(s) == FoldLeft(LAMBDA v, d : IF v > UMax THEN v ELSE v * 10 + d - 48, 0, s)

scan_number_done ==
    IF number_type = "value_unsigned" /\ NumberValue(token_buffer) <= UMax
    THEN [type |-> number_type, value |-> <<NumberValue(token_buffer)>>]
    ELSE IF number_type = "value_integer" /\ NumberValue(Tail(token_buffer)) <= IMax + 1
    THEN [type |-> number_type, value |-> <<-NumberValue(Tail(token_buffer))>>]
    ELSE [type |-> "value_float", value |-> token_buffer]

scan_number ==
    /\ st \in NumberStates
    /\ LET s == Label(st, c1)
       IN  \/ s = "error" /\ Fail
           \/ /\ s = "done"
              /\ ReturnToken(unget(Next1), scan_number_done.type, scan_number_done.value)
              /\ Still /\ UNCHANGED token_buffer
           \/ /\ s \notin {"error", "done"}
              /\ GoTo(s)
              /\ token_buffer' = Append(token_buffer, IF c1 = 46 THEN DecimalPoint ELSE c1)
              /\ number_type' = IF s \in {"decimal1", "exponent"} THEN "value_float" ELSE number_type
              /\ UNCHANGED <<codepoint, ranges>>

-----------------------------------------------------------------------------
LexerInit ==
    /\ \E i \in Inputs : text = i.bytes /\ written = i.tokens
    /\ in = Fresh /\ token_buffer = <<>> /\ st = "scan"
    /\ codepoint = <<0, 0>> /\ ranges = <<>> /\ number_type = "value_unsigned" /\ tokens = <<>>

Scan == SkipBom \/ RestOfBom \/ NoBom \/ Whitespace \/ OneCharacter \/ StartLiteral \/ scan_literal
        \/ StartString \/ StartNumber \/ InvalidLiteral \/ ClosingQuote \/ PlainCharacter
        \/ LeadByte \/ next_byte_in_range \/ ControlCharacter \/ MissingQuote \/ IllFormedByte \/ Escape \/ AfterBackslash
        \/ get_codepoint \/ LowSurrogate \/ scan_number

LexerNext == Scan /\ UNCHANGED <<text, written>>

\* A call of scan runs to its end.
LexerSpec == LexerInit /\ [][LexerNext]_lexerVars

-----------------------------------------------------------------------------
(* Properties *)

\* The tokens are the ones the text was written with, in order: no character
\* is lost or read twice around an unget, every escape, surrogate pair and
\* UTF-8 sequence has its bytes, a number keeps its value, and the text stops
\* at the first place that is not JSON (scan, scan_string, scan_number).
TokensAsWritten ==
    written # <<>> => /\ IsPrefix(tokens, written)
                      /\ st = "stopped" => tokens = written

CodeUnit(u) ==
    LET low(i) == u[i] - 128
        cp == CASE Len(u) = 1 -> u[1]
                [] Len(u) = 2 -> (u[1] - 192) * 64 + low(2)
                [] Len(u) = 3 -> (u[1] - 224) * 4096 + low(2) * 64 + low(3)
                [] OTHER -> (u[1] - 240) * 262144 + low(2) * 4096 + low(3) * 64 + low(4)
    IN  /\ Len(u) <= 4
        /\ cp \in <<0 .. 127, 128 .. 2047, (2048 .. 65535) \ (55296 .. 57343), 65536 .. 1114111>>[Len(u)]
WellFormed(s) ==
    LET starts == {i \in 1 .. Len(s) : s[i] \notin 128 .. 191} \cup {Len(s) + 1}
    IN  /\ 1 \in starts
        /\ \A i, j \in starts : i < j /\ (\A k \in starts : k <= i \/ k >= j) => CodeUnit(SubSeq(s, i, j - 1))

\* Whatever the bytes of the text are, a string token is well-formed UTF-8:
\* one encoding per code point, no surrogates, at most U+10FFFF
\* (next_byte_in_range and the translation of \u in scan_string).
StringsAreUtf8 == \A i \in DOMAIN tokens : tokens[i].type = "value_string" => WellFormed(tokens[i].value)

Consumed == SubSeq(text, 1, in.read - (IF in.next_unget /\ in.current # EOF THEN 1 ELSE 0))
PastEnd == in.current = EOF /\ ~in.next_unget /\ in.total > 0
\* The position counts the characters and lines that were consumed, the one
\* looked at and put back by unget not counted (get, unget).
PositionCounts == ~PastEnd => /\ in.total = Len(Consumed)
                              /\ in.lines = Len(SelectSeq(Consumed, LAMBDA c : c = LF))

\* What an error message quotes is the text just before the position
\* (reset, get, unget and token_string).
QuotesWhatWasRead == IsSuffix(in.token_string, Consumed)

\* The lexer finds the tokens of the text and tells where it is.
LexerIsRight == TokensAsWritten /\ StringsAreUtf8 /\ PositionCounts /\ QuotesWhatWasRead

=============================================================================
