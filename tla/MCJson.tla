------------------------------- MODULE MCJson -------------------------------
(***************************************************************************)
(* The parts of the JSON library, each on a small instance.  They share    *)
(* operators and no state, so they are checked side by side: the initial   *)
(* state says which part runs, and the others stay where they rest.        *)
(***************************************************************************)
EXTENDS JsonLexer, JsonParser, JsonBinary, JsonContainer, JsonCompare, JsonAccess, JsonPatch, JsonEscape,
        JsonSerializer, JsonNumberText

VARIABLE part

vars == <<part, lexerVars, parserVars, binaryVars, containerVars, compareVars, accessVars, patchVars, escapeVars, dumpVars, numberVars>>

Init ==
    /\ part \in {"lexer", "parser", "binary", "container", "compare", "access", "patch", "escape", "dump", "number"}
    /\ IF part = "lexer" THEN LexerInit
       ELSE /\ text = <<>> /\ written = <<>> /\ in = Fresh /\ token_buffer = <<>> /\ st = "stopped"
            /\ codepoint = <<0, 0>> /\ ranges = <<>> /\ number_type = "value_unsigned" /\ tokens = <<>>
    /\ IF part = "parser" THEN ParserInit
       ELSE /\ tokenText = <<>> /\ receiver = "dom" /\ filter = <<"none", "">> /\ strict = TRUE /\ pos = 1
            /\ states = <<>> /\ phase = "value" /\ sax = FreshSax /\ parsed = "none"
    /\ IF part = "binary" THEN BinaryInit
       ELSE /\ j = Null /\ format = "cbor" /\ damages = FALSE /\ bytes = <<>> /\ damage = "none"
            /\ stage = "value" /\ readValue = Fails /\ again = Fails
    /\ IF part = "container" THEN ContainerInit
       ELSE a = Null /\ b = Null /\ it = NoIterator /\ last = [call |-> "other", threw |-> FALSE]
    /\ IF part = "compare" THEN CompareInit
       ELSE items = [k \in 1 .. SortLength |-> Null] /\ done = FALSE
    /\ IF part = "access" THEN AccessInit
       ELSE /\ doc = Null /\ pointerText = <<>> /\ accessed = "text" /\ ptr = Returns(<<>>)
            /\ before = Null /\ outcome = Returns(Null)
    /\ IF part = "patch" THEN PatchInit
       ELSE /\ source = Null /\ patched = Null /\ patch = <<>> /\ use = <<"edit", Null>>
            /\ patchStatus = "done" /\ merged = 0
    /\ IF part = "escape" THEN EscapeInit
       ELSE /\ s = <<>> /\ ensure_ascii = TRUE /\ error_handler = "strict" /\ i = 0
            /\ state = UTF8_ACCEPT /\ point = 0 /\ buffer = <<>> /\ accepted = 0 /\ undumped = 0
            /\ used = 0 /\ out = <<>> /\ status = "done"
    /\ IF part = "dump" THEN DumpInit
       ELSE subject = Null /\ indent = -1 /\ indent_char = " " /\ dumped = <<>>
    /\ NumberInit

Next ==
    \/ /\ part = "lexer" /\ LexerNext
       /\ UNCHANGED <<part, parserVars, binaryVars, containerVars, compareVars, accessVars, patchVars, escapeVars, dumpVars, numberVars>>
    \/ /\ part = "parser" /\ ParserNext
       /\ UNCHANGED <<part, lexerVars, binaryVars, containerVars, compareVars, accessVars, patchVars, escapeVars, dumpVars, numberVars>>
    \/ /\ part = "binary" /\ BinaryNext
       /\ UNCHANGED <<part, lexerVars, parserVars, containerVars, compareVars, accessVars, patchVars, escapeVars, dumpVars, numberVars>>
    \/ /\ part = "container" /\ ContainerNext
       /\ UNCHANGED <<part, lexerVars, parserVars, binaryVars, compareVars, accessVars, patchVars, escapeVars, dumpVars, numberVars>>
    \/ /\ part = "compare" /\ CompareNext
       /\ UNCHANGED <<part, lexerVars, parserVars, binaryVars, containerVars, accessVars, patchVars, escapeVars, dumpVars, numberVars>>
    \/ /\ part = "access" /\ AccessNext
       /\ UNCHANGED <<part, lexerVars, parserVars, binaryVars, containerVars, compareVars, patchVars, escapeVars, dumpVars, numberVars>>
    \/ /\ part = "patch" /\ PatchNext
       /\ UNCHANGED <<part, lexerVars, parserVars, binaryVars, containerVars, compareVars, accessVars, escapeVars, dumpVars, numberVars>>
    \/ /\ part = "escape" /\ EscapeNext
       /\ UNCHANGED <<part, lexerVars, parserVars, binaryVars, containerVars, compareVars, accessVars, patchVars, dumpVars, numberVars>>
    \/ /\ part = "dump" /\ DumpNext
       /\ UNCHANGED <<part, lexerVars, parserVars, binaryVars, containerVars, compareVars, accessVars, patchVars, escapeVars, numberVars>>
    \/ /\ part = "number" /\ NumberNext
       /\ UNCHANGED <<part, lexerVars, parserVars, binaryVars, containerVars, compareVars, accessVars, patchVars, escapeVars, dumpVars>>

Spec == Init /\ [][Next]_vars

-----------------------------------------------------------------------------
(* Strings for the lexer, each with the tokens it is written with: pieces  *)
(* that denote a code point, and longer strings with bytes changed.        *)

T(t, v) == [type |-> t, value |-> v]
Err == T("parse_error", <<>>)
End == T("end_of_input", <<>>)
Bad == -1

\* <<bytes, code point>>
Esc(h1, h2, h3, h4) == <<92, 117, h1, h2, h3, h4>>
GoodPieces == {
    <<<<97>>, 97>>, <<<<127>>, 127>>, <<<<92, 110>>, 10>>, <<<<92, 34>>, 34>>, <<<<92, 98>>, 8>>,
    <<Esc(48, 48, 48, 48), 0>>, <<Esc(48, 48, 55, 70), 127>>, <<Esc(48, 48, 56, 48), 128>>,
    <<Esc(48, 55, 102, 70), 2047>>, <<Esc(48, 56, 48, 48), 2048>>, <<Esc(70, 70, 70, 70), 65535>>,
    <<Esc(68, 55, 70, 70), 55295>>, <<Esc(69, 48, 48, 48), 57344>>,
    <<Esc(68, 56, 48, 48) \o Esc(68, 67, 48, 48), 65536>>, <<Esc(68, 66, 70, 70) \o Esc(68, 70, 70, 70), 1114111>>,
    <<<<194, 128>>, 128>>, <<<<223, 191>>, 2047>>, <<<<224, 160, 128>>, 2048>>, <<<<239, 191, 191>>, 65535>>,
    <<<<237, 159, 191>>, 55295>>, <<<<240, 144, 128, 128>>, 65536>>, <<<<244, 143, 191, 191>>, 1114111>>}
BadPieces == {
    <<193, 191>>, <<224, 159, 191>>, <<237, 160, 128>>, <<240, 143, 191, 191>>, <<244, 144, 128, 128>>,
    <<245, 128, 128, 128>>, <<128>>, <<31>>, <<10>>, <<0>>, <<92, 120>>, <<92, 117, 49, 103>>,
    Esc(68, 67, 48, 48), Esc(68, 56, 48, 48), Esc(68, 56, 48, 48) \o <<92, 110>>,
    Esc(68, 56, 48, 48) \o Esc(68, 56, 48, 48), <<194>>, <<225, 128>>}
StringPieces == GoodPieces \cup {<<c, Bad>> : c \in BadPieces}

\* The UTF-8 form of a code point, by where it lies.
Encoded(cp) ==
    LET n == CHOOSE n \in 1 .. 4 : cp \in <<0 .. 127, 128 .. 2047, 2048 .. 65535, 65536 .. 1114111>>[n]
        six(k) == (cp \div 64 ^ k) % 64
    IN  [k \in 1 .. n |-> IF k > 1 THEN 128 + six(n - k)
                          ELSE <<0, 192, 224, 240>>[n] + cp \div 64 ^ (n - 1)]

StringOf(p, q) ==
    LET body == p[1] \o q[1]
    IN  [bytes |-> <<34>> \o body \o <<34>>,
         tokens |-> IF Bad \in {p[2], q[2]} THEN <<Err>>
                    ELSE <<T("value_string", Encoded(p[2]) \o Encoded(q[2])), End>>]
LexerStrings == {StringOf(p, q) : p \in GoodPieces, q \in StringPieces}
           \cup {StringOf(<<c, Bad>>, <<<<97>>, 97>>) : c \in BadPieces}
           \cup {[bytes |-> <<34, 97>>, tokens |-> <<Err>>], [bytes |-> <<34, 92>>, tokens |-> <<Err>>],
                 [bytes |-> <<34, 34>>, tokens |-> <<T("value_string", <<>>), End>>]}

\* Strings in which a byte is something else.
Bytes == {0, 31, 34, 48, 92, 117, 127, 128, 143, 144, 159, 160, 191, 193, 194, 224, 237, 240, 244, 245, 255}
LongString == <<34>> \o <<237, 159, 191>> \o <<240, 144, 128, 128>> \o <<224, 160, 128>>
              \o Esc(68, 56, 48, 48) \o Esc(68, 67, 48, 48) \o <<244, 143, 191, 191, 34>>
EditedStrings == {[bytes |-> [[LongString EXCEPT ![k] = x] EXCEPT ![l] = y], tokens |-> <<>>] :
             k \in 2 .. Len(LongString) - 1, l \in {3, 6, 9}, x \in Bytes, y \in {128, 160}}

-----------------------------------------------------------------------------
(* Numbers for the lexer: the grammar of RFC 7159.                         *)

OnlyDigits(t) == t # <<>> /\ \A k \in DOMAIN t : t[k] \in DigitBytes
IsInt(t) == OnlyDigits(t) /\ (Len(t) = 1 \/ t[1] # 48)
IsExp(t) == t[1] \in ExponentBytes /\ (OnlyDigits(Tail(t)) \/ (Len(t) > 2 /\ t[2] \in Signs /\ OnlyDigits(SubSeq(t, 3, Len(t)))))
IsNumber(t) ==
    LET c == IF t # <<>> /\ t[1] = 45 THEN Tail(t) ELSE t
    IN  \E p \in 1 .. Len(c) : \E q \in p .. Len(c) :
          /\ IsInt(SubSeq(c, 1, p))
          /\ q = p \/ (c[p + 1] = 46 /\ OnlyDigits(SubSeq(c, p + 2, q)))
          /\ q = Len(c) \/ IsExp(SubSeq(c, q + 1, Len(c)))
Viable(t) == IsNumber(t) \/ IsNumber(Append(t, 48))

DecimalOf(t) == FoldLeft(LAMBDA v, d : v * 10 + d - 48, 0, t)
NumberToken(t) ==
    IF OnlyDigits(t) /\ DecimalOf(t) <= UMax THEN T("value_unsigned", <<DecimalOf(t)>>)
    ELSE IF t[1] = 45 /\ OnlyDigits(Tail(t)) /\ DecimalOf(Tail(t)) <= IMax + 1 THEN T("value_integer", <<-DecimalOf(Tail(t))>>)
    ELSE T("value_float", [k \in DOMAIN t |-> IF t[k] = 46 THEN DecimalPoint ELSE t[k]])

RECURSIVE NumberTokens(_)
NumberTokens(t) ==
    IF t = <<>> THEN <<End>>
    ELSE IF t[1] \in {32, LF} THEN NumberTokens(Tail(t))
    ELSE IF t[1] = 44 THEN <<T("value_separator", <<>>)>> \o NumberTokens(Tail(t))
    ELSE IF t[1] \notin DigitBytes \cup {45} THEN <<Err>>
    ELSE LET n == CHOOSE n \in 1 .. Len(t) : /\ Viable(SubSeq(t, 1, n))
                                             /\ \A k \in n + 1 .. Len(t) : ~Viable(SubSeq(t, 1, k))
         IN  IF IsNumber(SubSeq(t, 1, n)) THEN <<NumberToken(SubSeq(t, 1, n))>> \o NumberTokens(SubSeq(t, n + 1, Len(t)))
             ELSE <<Err>>

NumberBytes == {45, 48, 49, 46, 101, 43}
NumberTexts == UNION {[1 .. n -> NumberBytes] : n \in 1 .. 4}
\* At the limits of the integer types.
Limits == {<<49, 53>>, <<49, 54>>, <<45, 55>>, <<45, 56>>, <<45, 57>>, <<49, 48, 48>>, <<45, 48>>, <<45, 49, 48>>}
LongNumbers == {m \o k \o f \o e : m \in {<<>>, <<45>>}, k \in {<<48>>, <<49, 48>>}, f \in {<<>>, <<46, 48, 49>>, <<46>>},
                               e \in {<<>>, <<101, 49, 48>>, <<69, 43, 48, 49>>, <<101, 45>>, <<101>>}}
NumberLines == {[bytes |-> t \o e, tokens |-> NumberTokens(t \o e)] :
              t \in NumberTexts \cup Limits \cup LongNumbers, e \in {<<>>, <<44>>, <<LF, 49>>}}

-----------------------------------------------------------------------------
(* Lists of lexemes for the lexer, with and without a byte order mark.     *)

Lexemes == {
    <<<<91>>, T("begin_array", <<>>)>>, <<<<125>>, T("end_object", <<>>)>>, <<<<44>>, T("value_separator", <<>>)>>,
    <<<<116, 114, 117, 101>>, T("literal_true", <<>>)>>, <<<<102, 97, 108, 115, 101>>, T("literal_false", <<>>)>>,
    <<<<110, 117, 108, 108>>, T("literal_null", <<>>)>>, <<<<34, 97, 34>>, T("value_string", <<97>>)>>,
    <<<<49>>, T("value_unsigned", <<1>>)>>, <<<<45, 55>>, T("value_integer", <<-7>>)>>,
    <<<<49, 46, 49>>, T("value_float", <<49, DecimalPoint, 49>>)>>, <<<<110, 117, 120>>, Err>>, <<<<46>>, Err>>, <<<<0>>, End>>}
Spaces == {<<>>, <<32>>, <<13, LF>>}
NumberTypes == {"value_unsigned", "value_integer", "value_float"}
Stops(t) == t.type \in {"parse_error", "end_of_input"}
Boms == {<<>>, <<239, 187, 191>>}

ListOf(bom, l, t, c) ==
    [bytes |-> bom \o l[1] \o t \o c[1] \o t,
     tokens |-> IF Stops(l[2]) THEN <<l[2]>> ELSE IF Stops(c[2]) THEN <<l[2], c[2]>> ELSE <<l[2], c[2], End>>]
LexemeLists == {ListOf(bom, l, t, c) : bom \in Boms, l \in {x \in Lexemes : x[2].type \notin NumberTypes}, t \in Spaces, c \in Lexemes}
         \cup {ListOf(bom, l, t, c) : bom \in Boms, l \in {x \in Lexemes : x[2].type \in NumberTypes}, t \in Spaces \ {<<>>}, c \in Lexemes}
         \cup {[bytes |-> <<239>> \o t, tokens |-> <<Err>>] : t \in {<<>>, <<187>>, <<187, 49>>, <<49>>}}
         \cup {[bytes |-> <<>>, tokens |-> <<End>>]}

AllInputs == LexerStrings \cup EditedStrings \cup NumberLines \cup LexemeLists

-----------------------------------------------------------------------------
(* Token texts for the parser: values of depth two, and smaller ones with  *)
(* one token changed, removed or added.                                    *)

MCKeyOrder == <<"k", "l">>

TokenLeaves == {<<"1">>, <<"k">>}
ListTexts(V, W) == {<<"[", "]">>} \cup {<<"[">> \o v \o <<"]">> : v \in V}
                \cup {<<"[">> \o v \o <<",">> \o w \o <<"]">> : v \in V, w \in W}
MapTexts(V, W) == {<<"{", "}">>} \cup {<<"{", "k", ":">> \o v \o <<"}">> : v \in V}
                \cup {<<"{", "k", ":">> \o v \o <<",", "l", ":">> \o w \o <<"}">> : v \in V, w \in W}

TextsOfOne == TokenLeaves \cup ListTexts(TokenLeaves, TokenLeaves) \cup MapTexts(TokenLeaves, TokenLeaves)
TextsOfTwo == ListTexts(TextsOfOne, TokenLeaves) \cup MapTexts(TextsOfOne, TokenLeaves)
SmallTexts == {<<"[">> \o v \o <<"]">> : v \in TextsOfOne} \cup {<<"{", "k", ":">> \o v \o <<"}">> : v \in TextsOfOne}

EditedText(t) ==
    {[t EXCEPT ![k] = x] : k \in 1 .. Len(t), x \in {"{", "}", "[", "]", ",", ":", "k", "inf", "err"}}
    \cup {RemoveAt(t, k) : k \in 1 .. Len(t)}
    \cup {InsertAt(t, k, x) : k \in 1 .. Len(t), x \in {"]", "}", ",", "k"}}

\* A repeated key.
RepeatedKey == <<"{", "k", ":", "1", ",", "k", ":", "[", "]", "}">>

ValidTexts == TextsOfOne \cup TextsOfTwo \cup {RepeatedKey}
BrokenTexts == UNION {EditedText(t) : t \in SmallTexts \cup {<<"1">>, RepeatedKey}}
AllTexts == ValidTexts \cup BrokenTexts

\* A key, a scalar, and containers at their start and their end, outermost and in another.
AllFilters == {<<"none", "">>, <<"key", "k">>, <<"value", "1">>}
        \cup {"object_start", "object_end", "array_start", "array_end"} \X {"0", "1"}

-----------------------------------------------------------------------------
(* Binary formats: values at the limits of every width, and containers of  *)
(* them.                                                                   *)

\* Bytes of numbers next to the limits of the types.
Magnitudes ==
    {Number(n) : n \in {0, 1, 23, 24, 31, 32, 33, 127, 128, 129, 255, 256, 32767, 32768, 65535, 65536}}
    \cup {Filled(0, 4) \o w : w \in {<<127, 255, 255, 255>>, <<128, 0, 0, 0>>, <<255, 255, 255, 255>>}}
    \cup {<<0, 0, 0, 1, 0, 0, 0, 0>>, <<127>> \o Filled(255, 7)}
LargeNumbers == {<<128>> \o Filled(0, 7), Filled(255, 8)}

BinaryNumbers == {Uns(n) : n \in Magnitudes \cup LargeNumbers} \cup {Sgn(n) : n \in Magnitudes}
           \cup {Sgn(Complement(n)) : n \in Magnitudes}
TextOf(n) == Str(Filled(97, n))
BinaryTexts == {TextOf(n) : n \in {0, 1, 23, 24, 31, 32, 127, 128, 255, 256, 65535, 65536}}
BinaryLists == {Arr([k \in 1 .. n |-> Bool(k % 2 = 0)]) : n \in {0, 1, 15, 16, 23, 24}}
         \cup {Arr([k \in 1 .. n |-> Null]) : n \in {1, 15, 24}}
KeyBytes(n) == <<107, 48 + (n \div 100), 48 + ((n \div 10) % 10), 48 + (n % 10)>>
BinaryMaps == {Obj([k \in 1 .. n |-> <<KeyBytes(k), Uns(Number(k))>>]) : n \in {0, 1, 15, 16}}
BinaryScalars == {Null, Bool(TRUE), Bool(FALSE), Flt(<<63, 240, 0, 0, 0, 0, 0, 1>>)}

AllFormats == {"cbor", "msgpack", "bson", "ubjson", "ubjson_size", "ubjson_type"}
\* BSON has documents only.
InDocument(v) == Obj(<<<<<<97>>, v>>>>)
WholeSamples == [value : BinaryNumbers \cup BinaryTexts \cup BinaryLists \cup BinaryMaps \cup BinaryScalars, formats : {AllFormats}, damages : {FALSE}]
         \cup [value : {InDocument(v) : v \in BinaryNumbers \cup (BinaryTexts \ {TextOf(65535), TextOf(65536)}) \cup BinaryLists \cup BinaryMaps \cup BinaryScalars},
               formats : {{"bson"}}, damages : {FALSE}]

\* Containers in containers, for every pair of item types.
ItemValues == {Null, Bool(TRUE), Bool(FALSE), Uns(Number(5)), Sgn(Number(200)), Sgn(Complement(Number(5))), Uns(Number(300)),
          Str(<<97>>), Str(<<>>), Arr(<<>>), Arr(<<Null>>), Obj(<<>>), InDocument(Bool(TRUE)), Flt(Filled(1, 8))}
NestedSamples == [value : {Arr(<<v, w>>) : v, w \in ItemValues} \cup {Obj(<<<<<<>>, v>>, <<<<98>>, w>>>>) : v, w \in ItemValues}
                   \cup {Arr(<<Arr(<<v, w>>), Arr(<<v>>)>>) : v, w \in ItemValues}
                   \cup {Obj(<<<<<<97, 0>>, Null>>>>)},
           formats : {AllFormats}, damages : {FALSE}]
         \cup [value : {InDocument(Arr(<<v, w>>)) : v, w \in ItemValues}, formats : {{"bson"}}, damages : {FALSE}]

\* Small values whose bytes are cut, extended and changed.
SmallSamples == [value : {InDocument(v) : v \in {Bool(TRUE), Uns(Number(200)), Sgn(Complement(Number(40))), Str(<<98, 99>>),
                                          Arr(<<Uns(Number(1)), Sgn(Complement(Number(0)))>>), InDocument(Null),
                                          Flt(<<63, 240, 0, 0, 0, 0, 0, 1>>)}},
          formats : {AllFormats}, damages : {TRUE}]
         \cup [value : {Arr(<<Uns(Number(300)), Uns(Number(300))>>), Arr(<<Uns(Number(65536))>>)}, formats : {AllFormats \ {"bson"}}, damages : {TRUE}]

Everything == WholeSamples \cup NestedSamples \cup SmallSamples
\* First bytes and markers of every kind of value.
Marks == {0, 1, 2, 3, 4, 8, 10, 16, 18, 23, 24, 25, 32, 36, 56, 59, 67, 70, 73, 76, 78, 83, 84, 85, 90, 91, 93, 97, 100, 105, 108,
          123, 125, 127, 128, 144, 152, 159, 160, 191, 192, 194, 202, 204, 208, 217, 220, 222, 223, 224, 244, 246, 249, 250, 251, 255}

-----------------------------------------------------------------------------
(* Containers: values of every type, up to MaxSize elements.               *)

One == Sgn(1)
Text == Str(<<97>>)
KeyA == <<97>>
KeyB == <<98>>
MCItems == {One}
PairOf(x) == Arr(<<Text, x>>)
MCKeys == {KeyA, KeyB}
MCStarts == {Null, One, Arr(<<One>>)}
MCLists == {<<PairOf(One)>>}

-----------------------------------------------------------------------------
(* Order: numbers of four bits, floating-point numbers that are exact up   *)
(* to eight.                                                               *)

OrderedAtoms == {Null, Bool(FALSE), Bool(TRUE), Str(<<>>), Str(<<97>>), Str(<<97, 98>>), Arr(<<>>), Obj(NoMembers)}
\* Numbers that every type holds.
SmallNumbers == {Sgn(n) : n \in {-8, -1, 0, 7}} \cup {Uns(n) : n \in {0, 6, 7}} \cup {Flt(n) : n \in {-1, 0, 6, 8}}
OrderedLists == {Arr(<<Sgn(1)>>), Arr(<<Flt(1), Null>>), Arr(<<Uns(2)>>), Arr(<<Sgn(1), Flt(0)>>)}
          \cup {Obj(With(NoMembers, <<97>>, v)) : v \in {Sgn(1), Flt(1), Null}}
          \cup {Obj(With(With(NoMembers, <<97>>, Uns(1)), <<98>>, Null)), Obj(With(NoMembers, <<98>>, Null))}
MCUniverse == OrderedAtoms \cup SmallNumbers \cup OrderedLists

-----------------------------------------------------------------------------
(* Pointers: short texts of the characters that matter, and values of both *)
(* containers with the keys that look like something else.                 *)

\* / ~ 0 1 - a
Alphabet == {Slash, Tilde, 48, 49, 45, 97}
PointerTexts(n) == UNION {[1 .. k -> Alphabet] : k \in 0 .. n}
\* Pointers of one and two tokens.
PointerTokens == {<<>>, <<48>>, <<49>>, <<49, 48>>, <<48, 49>>, Dash, <<45, 49>>, <<43, 49>>, <<32, 49>>, <<97>>, <<49, 97>>, <<57, 57>>, <<47>>}
PointerPaths == {<<>>} \cup {to_string(<<t>>) : t \in PointerTokens} \cup {to_string(<<t, u>>) : t, u \in PointerTokens}

Object(k, v) == Obj(With(NoMembers, k, v))
Object2(k, v, l, w) == Obj(With(With(NoMembers, k, v), l, w))
LeafDocuments == {One, Null, Str(<<48>>)}
Keys1 == {<<>>, <<48>>, <<49>>, <<97>>, <<47>>, Dash}
MCNew == Str(<<119>>)
Documents ==
    LeafDocuments \cup {Arr(<<>>), Obj(NoMembers), Arr(<<One, Null>>), Arr(<<Arr(<<One>>), Object(<<97>>, One)>>),
                 Arr(<<Object(<<>>, Null), Arr(<<>>)>>), Object2(<<48>>, Arr(<<One, One>>), <<97>>, Null),
                 Object2(<<>>, Object(<<47>>, One), <<45>>, Arr(<<Null>>)), Object2(<<49>>, One, <<48, 49>>, Obj(NoMembers))}
Twelve == Arr([k \in 1 .. 12 |-> Sgn(k)])
NestedDocuments == {Object2(k, v, l, w) : k, l \in Keys1, v, w \in {One, Null, Arr(<<One, Str(<<>>)>>), Object(<<97>>, One)}}
          \cup {Arr(<<Object(k, v), w>>) : k \in Keys1, v, w \in {One, Twelve, Object(Dash, Null)}}
          \cup {Twelve, Object(<<97>>, Twelve)}

MCCases == [doc : {Null}, texts : {PointerTexts(5)}] \cup [doc : Documents, texts : {PointerPaths}] \cup [doc : NestedDocuments, texts : {{<<>>}}]

-----------------------------------------------------------------------------
(* Patches: pairs of values that share some of their structure, single     *)
(* operations with every path into and around a value, and operations with *)
(* their inverse.                                                          *)

KeySlash == <<47>>
TwoMembers(v, w) == Obj(With(With(NoMembers, KeyA, v), KeySlash, w))

Flat == {One, Uns(1), Null, Text, Arr(<<>>), Obj(NoMembers)}
ListValues == {Arr(<<x>>) : x \in {One, Text}} \cup {Arr(<<x, y>>) : x, y \in {One, Text}}
         \cup {Arr(<<One, Text, One>>), Arr(<<Text, One, Text, One>>), Arr(<<Arr(<<One, Text>>), One, Object(KeyA, One)>>),
               Arr(<<Arr(<<One>>), Object(KeyA, Null)>>), Arr(<<Arr(<<>>)>>)}
MapValues == {Object(k, x) : k \in {KeyA, KeySlash, <<>>}, x \in {One, Null, Arr(<<One, Text, One>>), Arr(<<Text>>)}}
        \cup {TwoMembers(v, w) : v, w \in {One, Arr(<<One>>), Object(KeySlash, Text), Object(KeyA, One)}}
PatchValues == Flat \cup ListValues \cup MapValues
MCPairs == [source : PatchValues, target : PatchValues]

PatchTokens == {<<48>>, <<49>>, <<50>>, Dash, KeyA, KeySlash, <<>>}
PatchPaths == {<<>>, <<97>>, <<47, 126>>} \cup {to_string(<<t>>) : t \in PatchTokens} \cup {to_string(<<t, u>>) : t, u \in PatchTokens}
Sources == {Null, One, Arr(<<One, Text>>), Arr(<<Arr(<<One, Text>>), Object(KeyA, Null)>>), Object(KeyA, Arr(<<One>>)),
            TwoMembers(Object(KeySlash, Text), One), TwoMembers(Arr(<<Text, One>>), Obj(NoMembers)), Object(<<>>, Object(<<>>, One))}
ShortPaths == {to_string(<<KeyA>>), to_string(<<<<48>>>>), to_string(<<KeyA, <<48>>>>), to_string(<<KeySlash, KeyA>>)}
Singles == {Operation(op, p, One) : op \in {"add", "replace", "test", "unknown"}, p \in PatchPaths} \cup {Removal(p) : p \in PatchPaths}
           \cup {Transfer(op, p, q) : op \in {"move", "copy"}, p \in PatchPaths, q \in ShortPaths}
           \cup {One, Obj([op |-> Str("add"), path |-> One, value |-> One]), Obj([op |-> Str("add"), path |-> Str(<<>>)]),
                 Obj([path |-> Str(<<>>)]), Obj([op |-> Str("move"), path |-> Str(<<>>)])}

\* A location that is free: its parent is a container, and no member of that
\* name is there (an element of an array makes room).
IsFree(v, t) ==
    LET r == get_checked(v, Front(t))
        parent == Get(r.value, r.path)
    IN  /\ r.error = 0
        /\ \/ is_object(parent) /\ ~contains(parent, Last(t))
           \/ is_array(parent) /\ \E k \in 0 .. size(parent) : Last(t) = Decimal(k)
Addable(v) == {t \in {<<t1>> : t1 \in PatchTokens} \cup {<<t1, t2>> : t1, t2 \in PatchTokens} : IsFree(v, t)}
Present(v) == {t \in {<<t1>> : t1 \in PatchTokens} \cup {<<t1, t2>> : t1, t2 \in PatchTokens} : contains_pointer(v, t).value}
AddAndRemove(v) == {<<Operation("add", to_string(t), Text), Removal(to_string(t))>> : t \in Addable(v)}
\* There and back; the place must be free once the element has been taken out.
ThereAndBack(v) ==
    {<<Transfer("move", to_string(q[2]), to_string(q[1])), Transfer("move", to_string(q[1]), to_string(q[2]))>> :
       q \in {c \in Present(v) \X Present(v) : /\ Front(c[1]) = Front(c[2])
                                               /\ is_array(Get(v, get_checked(v, Front(c[1])).path))}
             \cup {c \in Present(v) \X Addable(v) : /\ Len(c[1]) = 1 /\ Len(c[2]) = 1 /\ is_object(v)}}
MCEdits == UNION {[source : {v}, patch : {<<o>> : o \in Singles}, kind : {"edit"}] : v \in Sources}
           \cup UNION {[source : {v}, patch : AddAndRemove(v) \cup ThereAndBack(v), kind : {"undo"}] : v \in Sources \cup ListValues \cup MapValues}

Deep == {TwoMembers(v, w) : v, w \in {Null, One, Object(KeyA, Null), Object(KeySlash, One), Arr(<<Null>>)}}
MCMerges == [source : Flat \cup MapValues \cup Deep, patch : Flat \cup Deep \cup {Object(KeyA, d) : d \in Deep}]

-----------------------------------------------------------------------------
(* Strings to write: all short ones of bytes of every type, and longer     *)
(* ones that fill the buffer.                                              *)

Interesting == {34, 1, 127, 128, 160, 195, 226, 237, 240, 244}
Characters4 == {<<240, 144, 128, 128>>, <<244, 143, 191, 191>>, <<226, 130, 172>>, <<237, 159, 191>>, <<195, 169>>, <<1>>}
Units == {<<65>>, <<1>>, <<195, 169>>, <<240, 159, 152, 128>>, <<226, 130>>, <<255>>}
MCStrings == UNION {[1 .. n -> Interesting] : n \in 0 .. 3}
             \cup {v \o w : v, w \in Characters4}
             \cup {v \o w \o x \o y : v, w, x, y \in Units}
             \cup {SubSeq(v, 1, n) \o w : v \in Characters4 \cup {<<240, 144, 128, 65>>}, n \in 0 .. 1, w \in Characters4}

-----------------------------------------------------------------------------
(* Values to write: atoms of every type and containers up to three levels  *)
(* deep.                                                                   *)

DumpAtoms == {Null, Bool(TRUE), Uns(1), Sgn(1), Flt(1), Str(<<97>>)}
Level1 == {Arr(<<>>), Obj(NoMembers)} \cup {Arr(<<v>>) : v \in DumpAtoms} \cup {Obj(With(NoMembers, <<97>>, v)) : v \in DumpAtoms}
          \cup {Arr(<<Null, Sgn(1)>>), Obj(With(With(NoMembers, <<97>>, Null), <<98>>, Uns(1)))}
Level2 == {Arr(<<v>>) : v \in Level1} \cup {Arr(<<Arr(<<Null>>), v>>) : v \in Level1}
          \cup {Obj(With(With(NoMembers, <<97>>, v), <<97, 98>>, Null)) : v \in {Arr(<<>>), Arr(<<Sgn(1)>>), Obj(NoMembers)}}
Level3 == {Arr(<<v, Sgn(1)>>) : v \in {Arr(<<Arr(<<Null>>)>>), Obj(With(NoMembers, <<97>>, Arr(<<Obj(NoMembers), Null>>)))}}
          \cup {Arr(<<Arr(<<Arr(<<Null, Null>>)>>), Null>>)}
MCIndents == {-1, 0, 2, 8, 9}
MCValues == DumpAtoms \cup Level1 \cup Level2 \cup Level3

-----------------------------------------------------------------------------
(* Numbers to write: integers of 26 bits around every power of ten; one to *)
(* 17 digits with the exponents of the largest and the smallest double and *)
(* those where the form of the text changes.                               *)

Powers == {1, 10, 100, 1000, 10000, 100000, 1000000, 10000000}
MCIntegers == {0, -NumberHalf, 2 * NumberHalf - 1, NumberHalf, 12345678} \cup {p : p \in Powers} \cup {p - 1 : p \in Powers} \cup {-p : p \in Powers}
LongDigits == <<"1", "2", "3", "4", "5", "6", "7", "8", "9", "1", "2", "3", "4", "5", "6", "7", "8">>
MCDigits == {<<"5">>, <<"1", "2">>, <<"1", "0", "3">>, LongDigits}
MCExponents == {-324, -100, -99, -20, -17, -5, -1, 0, 1, 12, 14, 15, 99, 292}
MCFloats == {[finite |-> TRUE, negative |-> n, digits |-> d, exponent |-> e] : n \in BOOLEAN, d \in MCDigits, e \in MCExponents}
            \cup {[finite |-> TRUE, negative |-> FALSE, digits |-> SubSeq(LongDigits, 1, k), exponent |-> e] : k \in {1, 2, 4}, e \in -9 .. 16}
            \cup {[finite |-> TRUE, negative |-> n, digits |-> <<>>, exponent |-> 0] : n \in BOOLEAN}
            \cup {[finite |-> FALSE, negative |-> FALSE, digits |-> <<>>, exponent |-> 0]}
MCMinExp == -4

=============================================================================
