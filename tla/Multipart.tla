------------------------------ MODULE Multipart ------------------------------
(***************************************************************************)
(* utils::multipartFormData.  A client builds a form from parts, the       *)
(* server takes it apart: one step is a turn of its loop from a boundary   *)
(* to the next.  A body is a sequence of tokens; "CRLF" and "--" stand for *)
(* two bytes each, so two bytes before a boundary are one token before it. *)
(***************************************************************************)
EXTENDS Integers, Sequences, SequencesExt

CONSTANTS
    Names, Filenames, PartTypes,  \* values of the parts: sequences of tokens
    Data,                       \* contents of the parts: sequences of tokens
    Framings,                   \* tokens between the line end and the boundary
    Headers,                    \* what the request says of its boundary
    MaxParts                    \* bound: parts of a form

\* A part without a file name or a type.
None == <<"none">>

Parts == [name : Names, filename : Filenames \cup {None}, type : PartTypes \cup {None}, data : Data]

VARIABLES
    parts,      \* what the client sends
    framing,    \* how it writes a boundary
    form,       \* the request's body
    header,     \* "missing", "plain", "unbounded", or the boundary token
    pos,        \* position of the boundary the loop is at
    fields,     \* the map: a function on the names
    collected

formVars == <<parts, framing, form, header, pos, fields, collected>>

-----------------------------------------------------------------------------
(* The client *)

Quoted(value) == <<"Q">> \o value \o <<"Q">>

PartText(p) ==
    <<"CRLF", "Content-Disposition", ";", "name=">> \o Quoted(p.name)
    \o (IF p.filename = None THEN <<>> ELSE <<";", "filename=">> \o Quoted(p.filename))
    \o <<"CRLF">>
    \o (IF p.type = None THEN <<>> ELSE <<"Content-Type", "SP">> \o p.type \o <<"CRLF">>)
    \o <<"CRLF">> \o p.data \o <<"CRLF">> \o framing \o <<"B">>

FormText == framing \o <<"B">> \o FlattenSeq([i \in 1 .. Len(parts) |-> PartText(parts[i])])

-----------------------------------------------------------------------------
(* The server *)

npos == Len(form) + 1

Here(i, text) == SubSeq(form, i, i + Len(text) - 1) = text

\* find: the first position from i on where one of the texts begins.
Find(i, texts) ==
    CHOOSE j \in i .. npos :
       /\ j = npos \/ \E t \in texts : j + Len(t) <= npos /\ Here(j, t)
       /\ \A k \in i .. j - 1 : \A t \in texts : k + Len(t) > npos \/ ~Here(k, t)

\* Quotes and spaces go at both ends, but the last character always stays.
TrimCharacters(s) ==
    LET start == CHOOSE i \in 1 .. Len(s) :
                    /\ i = Len(s) \/ s[i] \notin {"Q", "SP"}
                    /\ \A j \in 1 .. i - 1 : s[j] \in {"Q", "SP"}
        end == CHOOSE i \in start .. Len(s) :
                    /\ i = start \/ s[i] \notin {"Q", "SP"}
                    /\ \A j \in i + 1 .. Len(s) : s[j] \in {"Q", "SP"}
    IN  SubSeq(s, start, end)

\* The characters that follow the first of some texts, up to one that ends them.
After(i, texts, ends) ==
    LET start == Find(i, texts) + 1
        chars == SubSeq(form, start, Find(start, {<<e>> : e \in ends}) - 1)
    IN  IF start > npos \/ chars = <<>> THEN <<>> ELSE TrimCharacters(chars)

\* The boundary of the content-type header; without one there are no fields.
FormInit ==
    /\ parts \in UNION {[1 .. n -> Parts] : n \in 1 .. MaxParts}
    /\ framing \in Framings /\ header \in Headers
    /\ form = FormText
    /\ fields = <<>>
    /\ IF header \in {"missing", "plain", "unbounded", "empty"}
       THEN pos = npos /\ collected = TRUE
       ELSE pos = Find(1, {<<header>>}) /\ collected = FALSE

\* Mutant: the last part of a name wins.
Emplace_Last(name, field) ==
    [n \in DOMAIN fields \cup {name} |-> IF n = name THEN field ELSE fields[n]]

\* emplace keeps the field that is there.
Emplace(name, field) ==
    [n \in DOMAIN fields \cup {name} |-> IF n \in DOMAIN fields THEN fields[n] ELSE field]

PartFollows == pos # npos /\ Find(pos + 1, {<<"Content-Disposition">>}) # npos

\* One turn: the name, the file name and the type are the first ones after the
\* boundary, wherever they are; "name=" is also the end of "filename=".  The
\* content lies between the first empty line and two bytes before the next
\* boundary.
NextPart ==
    /\ ~collected /\ PartFollows
    /\ LET name == After(pos + 1, {<<"name=">>, <<"filename=">>}, {"SP", "CRLF", ";"})
           filename == After(pos + 1, {<<"filename=">>}, {"SP", "CRLF", ";"})
           type == After(pos + 1, {<<"Content-Type">>}, {"CRLF"})
           start == Find(pos + 1, {<<"CRLF", "CRLF">>})
           next == Find(pos + 1, {<<header>>})
           data == IF start # npos /\ next # npos THEN SubSeq(form, start + 2, next - 2) ELSE <<>>
       IN  /\ pos' = next
           /\ fields' = IF name = <<>> THEN fields
                        ELSE Emplace(name, [filename |-> filename, type |-> type, data |-> data])
    /\ UNCHANGED <<parts, framing, form, header, collected>>

ReturnFields ==
    /\ ~collected /\ ~PartFollows
    /\ collected' = TRUE
    /\ UNCHANGED <<parts, framing, form, header, pos, fields>>

FormNext == NextPart \/ ReturnFields

FormSpec == FormInit /\ [][FormNext]_formVars

-----------------------------------------------------------------------------
(* Properties *)

\* The part that the client means by a name: the first of that name.
Sent(name) ==
    parts[CHOOSE i \in 1 .. Len(parts) :
             parts[i].name = name /\ \A j \in 1 .. i - 1 : parts[j].name # name]

\* A name reaches the handler as its last quote if it is empty.
Received(name) == IF name = <<>> THEN <<"Q">> ELSE name

\* The handler sees one field per name, and for each the content of the first
\* part that has it, line ends included; nothing if the header announces no
\* boundary or another one.
FieldsAsSent ==
    collected => IF header # "B" THEN fields = <<>>
                 ELSE /\ DOMAIN fields = {Received(parts[i].name) : i \in 1 .. Len(parts)}
                      /\ \A i \in 1 .. Len(parts) :
                            fields[Received(parts[i].name)].data = Sent(parts[i].name).data

\* A part that has a file name or a type of its own keeps them, up to the first
\* space of the file name.
OwnHeadersKept ==
    collected /\ header = "B" =>
       \A i \in 1 .. Len(parts) :
          LET p == Sent(parts[i].name)
              f == fields[Received(p.name)]
          IN  /\ p.filename # None => \E q \in Prefixes(p.filename) :
                    /\ f.filename = q
                    /\ Len(q) < Len(p.filename) => p.filename[Len(q) + 1] = "SP"
              /\ p.type # None => f.type = p.type

\* A form reaches the handler as it was sent.
FormAsSent == FieldsAsSent /\ OwnHeadersKept

=============================================================================
