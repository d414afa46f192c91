--------------------------- MODULE PicoHttpParser ---------------------------
(***************************************************************************)
(* phr_parse_request, phr_parse_response and phr_parse_headers.  A message *)
(* arrives in pieces and the caller parses it again from its first byte,   *)
(* with last_len = 0 as the server does, or with the length of an earlier  *)
(* incomplete one.  A step is a pass through one of the parser's control   *)
(* points; bytes are tokens, all of width 1 but "V", which is "HTTP/1.".   *)
(***************************************************************************)
EXTENDS Integers, Sequences, FiniteSets, SequencesExt

CONSTANTS
    Messages,       \* kind -> sequences of tokens
    Stale,          \* bytes the buffer may hold behind the received ones
    MaxHeaders,     \* size of the caller's array of headers
    MaxNew          \* bound: bytes between two calls

ASSUME PicoAssumption ==
    /\ DOMAIN Messages \subseteq {"request", "response", "headers"}
    /\ MaxHeaders \in Nat /\ MaxNew \in Nat

\* Classes of tokens: "g" and "1" may be in a header's name, ":", "hi" (a byte
\* with its highest bit) and "V" may not.
TokenChar == {"g", "1"}
Blank == {"SP", "HT"}
Control == {"CR", "LF", "HT", "NUL"}

VARIABLES
    kind, msg,      \* the message, of which the first n tokens have arrived
    n,
    extra,          \* tokens behind them that the caller counts as arrived
    last,           \* last_len
    control,        \* control point
    place,          \* tokens read
    cnt,            \* ret_cnt of is_complete
    start,          \* where the field that is read begins
    slices,         \* method, path or status text; then names and values
    answer,
    answers,        \* history: results of the calls with last_len = 0, no extra
    refused         \* history: some other call has called the message malformed

picoVars == <<kind, msg, n, extra, last, control, place, cnt, start, slices, answer, answers, refused>>

\* The bytes given to the parser, and how many.
received == SubSeq(msg, 1, n) \o extra
end == Len(received)
Width(i, j) == (j - i) + 6 * Cardinality({k \in i + 1 .. j : received[k] = "V"})

NoFields == [first |-> <<0, 0>>, second |-> <<0, 0>>, headers |-> <<>>]

\* Where the parser proper begins.
Entry == CASE kind = "request" -> "begin" [] kind = "response" -> "version" [] OTHER -> "line"

\* Mutant: the search begins with the new bytes.
Resume_NoStepBack(last_len) == last_len

\* is_complete starts three bytes before the new ones.
Resume(last_len) == IF last_len < 3 THEN 0 ELSE last_len - 3

\* A call: outputs are reset, and with a last_len the end is looked for first.
CallParser(point) ==
    /\ control' = IF last' # 0 THEN "complete" ELSE point
    /\ place' = Resume(last')
    /\ cnt' = 0 /\ start' = 0
    /\ slices' = NoFields /\ answer' = 0
    /\ UNCHANGED <<kind, msg, refused>>

phr_parse_request == kind = "request" /\ CallParser("begin")
phr_parse_response == kind = "response" /\ CallParser("version")
phr_parse_headers == kind = "headers" /\ CallParser("line")

Parse == phr_parse_request \/ phr_parse_response \/ phr_parse_headers

PicoInit ==
    /\ kind \in DOMAIN Messages /\ msg \in Messages[kind]
    /\ n = 0 /\ extra = <<>> /\ last = 0
    /\ control = "returned" /\ place = 0 /\ cnt = 0 /\ start = 0
    /\ slices = NoFields /\ answer = -2 /\ answers = <<>> /\ refused = FALSE

\* One byte more, and the whole message again.
Arrive ==
    /\ control = "returned" /\ n < Len(msg)
    /\ n' = n + 1 /\ extra' = <<>> /\ last' = 0
    /\ answers' = answers
    /\ Parse

\* The same bytes, with the length of an earlier call that was incomplete.
Repeat ==
    /\ control = "returned" /\ extra = <<>> /\ last = 0
    /\ \E k \in 1 .. MaxNew :
          /\ n - k \in 1 .. n /\ answers[n - k] = -2
          /\ last' = n - k
    /\ UNCHANGED <<n, extra, answers>>
    /\ Parse

\* The same bytes and the one behind them, as the server calls the parser: the
\* buffer is not initialised, nor is it emptied between two requests.
OneMore ==
    /\ control = "returned" /\ extra = <<>> /\ last = 0 /\ n > 0 /\ kind = "request"
    /\ \E b \in Stale : extra' = <<b>>
    /\ last' = 0
    /\ UNCHANGED <<n, answers>>
    /\ Parse

-----------------------------------------------------------------------------

ReturnResult(r) ==
    /\ control' = "returned" /\ answer' = r
    /\ answers' = IF last = 0 /\ extra = <<>> THEN Append(answers, r) ELSE answers
    /\ refused' = (refused \/ (last # 0 /\ r = -1))
    /\ UNCHANGED <<kind, msg, n, extra, last, place, cnt, start, slices>>

Goto(point, k) ==
    /\ control' = point /\ place' = place + k /\ start' = place + k
    /\ UNCHANGED <<kind, msg, n, extra, last, cnt, answer, answers, refused>>

Advance ==
    /\ place' = place + 1
    /\ UNCHANGED <<kind, msg, n, extra, last, control, cnt, start, slices, answer, answers, refused>>

\* EXPECT_CHAR behind a carriage return: the length of the line end that begins
\* with the next byte, or the result to return.
LineEnd(i) ==
    CASE received[i + 1] = "LF" -> 1
      [] received[i + 1] = "CR" /\ i + 1 = end -> -2
      [] received[i + 1] = "CR" /\ i + 1 < end /\ received[i + 2] = "LF" -> 2
      [] OTHER -> -1

\* is_complete looks for two line ends in a row.
IsComplete ==
    /\ control = "complete"
    /\ IF place = end THEN ReturnResult(-2)
       ELSE LET isEnd == received[place + 1] \in {"CR", "LF"}
                e == IF isEnd THEN LineEnd(place) ELSE 1
                found == isEnd /\ cnt = 1
            IN  IF e < 0 THEN ReturnResult(e)
                ELSE /\ control' = IF found THEN Entry ELSE control
                     /\ place' = IF found THEN 0 ELSE place + e
                     /\ cnt' = IF isEnd /\ ~found THEN 1 ELSE 0
                     /\ UNCHANGED <<kind, msg, n, extra, last, start, slices, answer, answers, refused>>

\* parse_request skips one empty line.
BeginLine ==
    /\ control = "begin"
    /\ IF place = end THEN ReturnResult(-2)
       ELSE IF received[place + 1] \notin {"CR", "LF"} THEN Goto("method", 0) /\ UNCHANGED slices
       ELSE IF LineEnd(place) < 0 THEN ReturnResult(LineEnd(place))
       ELSE Goto("method", LineEnd(place)) /\ UNCHANGED slices

\* ADVANCE_TOKEN, for the method and the path; neither may be empty, which is
\* noticed behind the path.
Token ==
    /\ control \in {"method", "path"}
    /\ IF place = end THEN ReturnResult(-2)
       ELSE CASE received[place + 1] = "SP" /\ control = "method" ->
                    Goto("path", 1) /\ slices' = [slices EXCEPT !.first = <<start, place>>]
              [] received[place + 1] = "SP" /\ control = "path" ->
                    IF start = place \/ slices.first[1] = slices.first[2] THEN ReturnResult(-1)
                    ELSE Goto("version", 1) /\ slices' = [slices EXCEPT !.second = <<start, place>>]
              [] received[place + 1] \in Control -> ReturnResult(-1)
              [] OTHER -> Advance

\* PARSE_INT and PARSE_INT_3: k digits.
Digits(i, k) == i + k <= end /\ \A j \in i + 1 .. i + k : received[j] = "1"

\* parse_http_version looks at nothing before nine bytes are there.
Version ==
    /\ control = "version"
    /\ IF Width(place, end) < 9 THEN ReturnResult(-2)
       ELSE IF received[place + 1] # "V" \/ ~Digits(place + 1, 1) THEN ReturnResult(-1)
       ELSE Goto(IF kind = "request" THEN "eol" ELSE "status", 2) /\ UNCHANGED slices

\* The end of the request line; its first byte is read unchecked.
RequestLineEnd ==
    /\ control = "eol"
    /\ IF LineEnd(place) < 0 THEN ReturnResult(LineEnd(place))
       ELSE Goto("line", LineEnd(place)) /\ UNCHANGED slices

\* parse_response: space, three digits, space; all but the count is unchecked.
Status ==
    /\ control = "status"
    /\ IF received[place + 1] # "SP" THEN ReturnResult(-1)
       ELSE IF Width(place + 1, end) < 4 THEN ReturnResult(-2)
       ELSE IF ~Digits(place + 1, 3) \/ received[place + 5] # "SP" THEN ReturnResult(-1)
       ELSE Goto("text", 5) /\ UNCHANGED slices

NewHeader(name) ==
    [slices EXCEPT !.headers = Append(@, [name |-> name, value |-> <<0, 0>>])]

\* parse_headers: an empty line ends the message; a line that begins with a
\* blank continues the header before it.
Line ==
    /\ control = "line"
    /\ IF place = end THEN ReturnResult(-2)
       ELSE CASE received[place + 1] \in {"CR", "LF"} ->
                    ReturnResult(IF LineEnd(place) < 0 THEN LineEnd(place) ELSE place + LineEnd(place))
              [] received[place + 1] \notin {"CR", "LF"} /\ Len(slices.headers) = MaxHeaders -> ReturnResult(-1)
              [] OTHER ->
                    IF slices.headers # <<>> /\ received[place + 1] \in Blank
                    THEN Goto("value", 0) /\ slices' = NewHeader(<<0, 0>>)
                    ELSE Goto("name", 0) /\ UNCHANGED slices

Name ==
    /\ control = "name"
    /\ IF place = end THEN ReturnResult(-2)
       ELSE CASE received[place + 1] = ":" /\ start = place -> ReturnResult(-1)
              [] received[place + 1] = ":" /\ start < place ->
                    Goto("skip", 1) /\ slices' = NewHeader(<<start, place>>)
              [] received[place + 1] \in TokenChar -> Advance
              [] OTHER -> ReturnResult(-1)

Skip ==
    /\ control = "skip"
    /\ IF place = end THEN ReturnResult(-2)
       ELSE IF received[place + 1] \in Blank THEN Advance
       ELSE Goto("value", 0) /\ UNCHANGED slices

\* The range of a value without the blanks at its end.
Trim(i, j) ==
    <<i, CHOOSE k \in i .. j : /\ k = i \/ received[k] \notin Blank
                               /\ \A x \in k + 1 .. j : received[x] \in Blank>>

\* get_token_to_eol, for a header's value or the text of a status line.
Value ==
    /\ control \in {"value", "text"}
    /\ IF place = end THEN ReturnResult(-2)
       ELSE IF received[place + 1] \notin Control \ {"HT"} THEN Advance
       ELSE LET e == LineEnd(place)
            IN  IF e < 0 THEN ReturnResult(e)
                ELSE /\ Goto("line", e)
                     /\ slices' = IF control = "text" THEN [slices EXCEPT !.first = <<start, place>>]
                                  ELSE [slices EXCEPT !.headers[Len(slices.headers)].value = Trim(start, place)]

PicoNext ==
    \/ Arrive \/ Repeat \/ OneMore
    \/ IsComplete \/ BeginLine \/ Token \/ Version \/ RequestLineEnd \/ Status
    \/ Line \/ Name \/ Skip \/ Value

PicoSpec == PicoInit /\ [][PicoNext]_picoVars

-----------------------------------------------------------------------------
(* Properties *)

\* Every byte is read before the end of the buffer, also where the parser does
\* not look for the end because it counted the bytes before.
WithinBuffer ==
    /\ control = "eol" => place < end
    /\ control = "status" => place < end
    /\ place <= end

\* An answer other than "incomplete" is final: no byte that arrives later turns
\* a malformed message into a good one or moves the end of its header.
AnswersAreFinal ==
    \A i \in 2 .. Len(answers) : answers[i - 1] # -2 => answers[i] = answers[i - 1]

\* With the length of an earlier incomplete call a message is complete exactly
\* if it is without, and one that is then called malformed never gets complete.
LastLenHarmless ==
    /\ control = "returned" /\ last # 0 /\ (answer > 0 \/ answers[n] > 0) => answer = answers[n]
    /\ refused => \A i \in 1 .. Len(answers) : answers[i] <= 0

\* The byte behind the received ones that the server counts in, whatever it is,
\* changes no answer but "incomplete".  The one byte that makes such a message
\* complete is a line feed, with which the header then ends: its fields lie in
\* the bytes received.  (Any byte may make it malformed.)
OneMoreBounded ==
    control = "returned" /\ extra # <<>> =>
        /\ answers[n] # -2 => answer = answers[n]
        /\ answers[n] = -2 /\ answer > 0 => answer = n + 1 /\ extra = <<"LF">>

\* The fields of a complete message are where the message has them: every byte
\* up to its end belongs to a field or is a separator, names end at their
\* colon, and a value neither begins behind nor ends with a blank.
Bytes(f) == f[1] + 1 .. f[2]

FieldsAsWritten ==
    control = "returned" /\ answer > 0 =>
            LET H == {slices.headers[i] : i \in 1 .. Len(slices.headers)}
                values == UNION {Bytes(h.value) : h \in H}
                words == Bytes(slices.first) \cup Bytes(slices.second) \cup values
                            \cup UNION {Bytes(h.name) : h \in H}
            IN  /\ \A i \in 1 .. answer : received[i] \in {"g", "hi"} => i \in words
                /\ \A i \in words : i <= answer /\ received[i] \notin Control \ {"HT"}
                /\ \A h \in H :
                      /\ Bytes(h.name) # {} => received[h.name[2] + 1] = ":"
                      /\ Bytes(h.value) # {} => received[h.value[2]] \notin Blank
                      /\ Bytes(h.value) # {} /\ Bytes(h.name) # {} => received[h.value[1] + 1] \notin Blank
                /\ \A i \in 2 .. Len(slices.headers) :
                      slices.headers[i - 1].value[2] < slices.headers[i].value[1]

\* A message is parsed alike however it is cut into pieces, into the fields it
\* has, and with the byte behind it only its end may come a byte early.
ParsesInPieces ==
    WithinBuffer /\ AnswersAreFinal /\ LastLenHarmless /\ OneMoreBounded /\ FieldsAsWritten

=============================================================================
