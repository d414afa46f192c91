--------------------------- MODULE JsonSerializer ---------------------------
(***************************************************************************)
(* Writing a value as JSON text (json.hpp, basic_json::dump and            *)
(* serializer::dump).  A text is a sequence of tokens and blanks; a string *)
(* is one token (its escapes are the subject of JsonEscape), and so is a   *)
(* number (JsonNumberText).                                                *)
(***************************************************************************)
EXTENDS JsonValue, TLC

CONSTANTS
    Values,         \* the values written
    Indents,        \* the argument indent of dump
    IndentChars,    \* the argument indent_char
    IndentSize      \* the size indent_string starts with, 512 in the code

ASSUME IndentAssumption == IndentSize \in Nat \ {0} /\ \A n \in Indents : n >= -1

VARIABLES subject, indent, indent_char, dumped

dumpVars == <<subject, indent, indent_char, dumped>>

Newline == <<"newline">>
Outside == <<"outside">>        \* a byte that is not of indent_string
Opening == [array |-> <<"[">>, object |-> <<"{">>]
Close == [array |-> <<"]">>, object |-> <<"}">>]

\* The first n bytes of indent_string, which has grown to room bytes: what it
\* is given later is blank.
Indentation(char, room, n) ==
    [k \in 1 .. n |-> IF k > room THEN Outside ELSE IF k > IndentSize THEN <<" ">> ELSE <<char>>]
\* indent_string is doubled, once.
Resized(room, n) == IF room < n THEN room * 2 ELSE room

Atom(v) ==
    CASE Type(v) = "null" -> <<"null">>
      [] Type(v) = "boolean" -> IF Val(v) THEN <<"true">> ELSE <<"false">>
      [] Type(v) \in {"integer", "unsigned"} -> <<"number", Val(v)>>
      [] Type(v) = "float" -> <<"float", Val(v)>>
      [] Type(v) = "string" -> <<"string", Val(v)>>

\* The values of an array or object, with what comes before each of them.
ItemsText(v, pretty) ==
    IF is_array(v) THEN [i \in DOMAIN Val(v) |-> [label |-> <<>>, value |-> Val(v)[i]]]
    ELSE [i \in DOMAIN Keys(v) |->
            [label |-> <<Atom(Str(Keys(v)[i])), <<":">>>> \o IF pretty THEN <<<<" ">>>> ELSE <<>>,
             value |-> Val(v)[Keys(v)[i]]]]

RECURSIVE dump(_, _, _, _, _)
RECURSIVE DumpItems(_, _, _, _, _)
\* Items of a container: the text and what has become of indent_string.
\* Mutant: a comma after the last one too.
DumpItems_LastComma(items, char, step, current, done) ==
    IF items = <<>> THEN done
    ELSE LET pretty == step >= 0
             inner == dump(Head(items).value, char, step, current, done.size)
             lead == IF pretty THEN Indentation(char, done.size, current) ELSE <<>>
             tail == <<<<",">>>> \o IF pretty THEN <<Newline>> ELSE <<>>
         IN  DumpItems(Tail(items), char, step, current,
                       [text |-> done.text \o lead \o Head(items).label \o inner.text \o tail, size |-> inner.size])
DumpItems(items, char, step, current, done) ==
    IF items = <<>> THEN done
    ELSE LET pretty == step >= 0
             inner == dump(Head(items).value, char, step, current, done.size)
             lead == IF pretty THEN Indentation(char, done.size, current) ELSE <<>>
             tail == IF Len(items) = 1 THEN <<>> ELSE <<<<",">>>> \o IF pretty THEN <<Newline>> ELSE <<>>
         IN  DumpItems(Tail(items), char, step, current,
                       [text |-> done.text \o lead \o Head(items).label \o inner.text \o tail, size |-> inner.size])

\* serializer::dump; step is -1 for the compact form.
dump(v, char, step, current, room) ==
    IF is_primitive(v) THEN [text |-> <<Atom(v)>>, size |-> room]
    ELSE IF empty(v) THEN [text |-> <<Opening[Type(v)], Close[Type(v)]>>, size |-> room]
    ELSE IF step < 0
    THEN LET inner == DumpItems(ItemsText(v, FALSE), char, step, current, [text |-> <<>>, size |-> room])
         IN  [text |-> <<Opening[Type(v)]>> \o inner.text \o <<Close[Type(v)]>>, size |-> inner.size]
    ELSE LET new_indent == current + step
             inner == DumpItems(ItemsText(v, TRUE), char, step, new_indent,
                                [text |-> <<>>, size |-> Resized(room, new_indent)])
         IN  [text |-> <<Opening[Type(v)], Newline>> \o inner.text \o <<Newline>>
                       \o Indentation(char, inner.size, current) \o <<Close[Type(v)]>>,
              size |-> inner.size]

\* basic_json::dump, with a serializer of its own.
Dumped(v, n, char) == dump(v, char, n, 0, IndentSize).text

-----------------------------------------------------------------------------
DumpInit == subject \in Values /\ indent = -1 /\ indent_char = " " /\ dumped = Dumped(subject, indent, indent_char)

Dump(v, n, char) ==
    /\ subject' = v /\ indent' = n /\ indent_char' = char
    /\ dumped' = Dumped(v, n, char)

DumpNext == \E v \in Values, n \in Indents, char \in IndentChars : Dump(v, n, char)
DumpSpec == DumpInit /\ [][DumpNext]_dumpVars

-----------------------------------------------------------------------------
(* Properties *)

Blank == {<<" ">>, <<"tab">>, Newline}
Unspaced(t) == SelectSeq(t, LAMBDA x : x \notin Blank)

\* Doubling indent_string once per level is enough for every depth, unless a
\* single level is more than twice what it starts with.
IndentStringSuffices == indent <= 2 * IndentSize => Outside \notin Range(dumped)
HasText == dumped # <<>> /\ Outside \notin Range(dumped)

\* Two values with the same compact text are equal by operator==, and the text
\* of a value is the same under every indentation up to blanks
\* (serializer::dump writes the two forms with code of their own).
TextTellsValue ==
    HasText =>
       \A w \in Values : Unspaced(dumped) = Dumped(w, -1, " ") => operator_eq(subject, w) /\ operator_eq(w, subject)

\* No comma before a closing bracket, none missing between two items, and the
\* brackets match: the text is one value.
RECURSIVE AfterValue(_, _)
\* Where a value that starts at p ends (0: there is none).
AfterItems(t, p, close) ==
    LET Step[q \in 1 .. Len(t)] ==      \* an item starts at q
            LET v == IF close = <<"}">>
                     THEN IF t[q][1] = "string" /\ q + 2 <= Len(t) /\ t[q + 1] = <<":">> THEN q + 2 ELSE 0
                     ELSE q
                e == IF v = 0 THEN 0 ELSE AfterValue(t, v)
            IN  IF e = 0 \/ e > Len(t) THEN 0
                ELSE IF t[e] = close THEN e + 1
                ELSE IF t[e] = <<",">> /\ e + 1 <= Len(t) THEN Step[e + 1] ELSE 0
    IN  IF p > Len(t) THEN 0 ELSE IF t[p] = close THEN p + 1 ELSE Step[p]
AfterValue(t, p) ==
    IF t[p] = <<"[">> THEN AfterItems(t, p + 1, <<"]">>)
    ELSE IF t[p] = <<"{">> THEN AfterItems(t, p + 1, <<"}">>)
    ELSE IF t[p] \in {<<"]">>, <<"}">>, <<",">>, <<":">>} THEN 0 ELSE p + 1
TextIsOneValue == HasText => AfterValue(Unspaced(dumped), 1) = Len(Unspaced(dumped)) + 1

\* The brackets open before position p.
Depth(t, p) == Cardinality({q \in 1 .. p - 1 : t[q] \in {<<"[">>, <<"{">>}})
               - Cardinality({q \in 1 .. p - 1 : t[q] \in {<<"]">>, <<"}">>}})
\* A line is indented by its depth: from the newline at p to the next token.
LineIndented(p) ==
    LET first == CHOOSE q \in p + 1 .. Len(dumped) :
                    dumped[q] \notin Blank /\ \A r \in p + 1 .. q - 1 : dumped[r] \in Blank
        depth == Depth(dumped, first) - (IF dumped[first] \in {<<"]">>, <<"}">>} THEN 1 ELSE 0)
    IN  /\ first - p - 1 = depth * indent
        /\ \A q \in p + 1 .. first - 1 : dumped[q] = <<indent_char>>
Lines == {p \in DOMAIN dumped : dumped[p] = Newline}
Deepest == CHOOSE d \in 0 .. Len(dumped) : /\ \E p \in 1 .. Len(dumped) + 1 : Depth(dumped, p) = d
                                           /\ \A p \in 1 .. Len(dumped) + 1 : Depth(dumped, p) <= d

\* As long as indent_string need not grow, every line starts with indent times
\* its depth of the indentation character.
IndentedByDepth == indent > 0 /\ Deepest * indent <= IndentSize => \A p \in Lines : LineIndented(p)

\* The text of a value is one value, tells it from others, and is indented by
\* its depth, from bytes of indent_string.
DumpIsRight == IndentStringSuffices /\ TextTellsValue /\ TextIsOneValue /\ IndentedByDepth

=============================================================================
