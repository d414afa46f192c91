----------------------------- MODULE QueryString -----------------------------
(***************************************************************************)
(* utils::parseParamsRequest (the parameters of a URI, cut with strtok_r)  *)
(* and utils::urlencoded (a form, cut with getline).  A step is a turn of  *)
(* their loops; the result is compared with a definition that looks at the *)
(* text as a whole.                                                        *)
(***************************************************************************)
EXTENDS Integers, Sequences, FiniteSets

CONSTANTS
    Alphabet,   \* the characters of the texts, "=", "&" and "?" among them
    MaxLength   \* bound: length of the texts

ASSUME QueryAssumption == {"=", "&", "?"} \subseteq Alphabet /\ MaxLength \in Nat

VARIABLES
    text,       \* the full URI, or the form
    parser,     \* "parseParamsRequest" or "urlencoded"
    uri,        \* the URI without its query
    unseen,     \* the first character the loop has not seen
    params,     \* the map: a function on its keys
    buffer,     \* whether the copy of the query could be allocated
    parsed

queryVars == <<text, parser, uri, unseen, params, buffer, parsed>>

Texts == UNION {[1 .. n -> Alphabet] : n \in 0 .. MaxLength}

Put(map, key, value) ==
    [k \in DOMAIN map \cup {key} |-> IF k = key THEN value ELSE map[k]]

\* The first position from i on that holds one of the characters, or does not;
\* Len(text) + 1 if there is none.
FirstOf(s, i, chars) ==
    CHOOSE j \in i .. Len(s) + 1 :
       /\ j = Len(s) + 1 \/ s[j] \in chars
       /\ \A k \in i .. j - 1 : s[k] \notin chars

\* The query begins after the first question mark; without one the URI is the
\* whole text.  Without memory for a copy of the query there are no parameters.
QueryInit ==
    /\ text \in Texts
    /\ buffer \in BOOLEAN
    /\ parser \in {"parseParamsRequest", "urlencoded"}
    /\ LET mark == FirstOf(text, 1, {"?"})
       IN  IF parser = "parseParamsRequest"
           THEN /\ unseen = mark + 1 /\ uri = SubSeq(text, 1, mark - 1)
              /\ parsed = (mark > Len(text) \/ ~buffer)
           ELSE unseen = 1 /\ uri = <<>> /\ parsed = FALSE
    /\ params = <<>>

-----------------------------------------------------------------------------

\* The first equals sign of a token.
Separator(token) == FirstOf(token, 1, {"="})

KeyOf(token) == SubSeq(token, 1, Separator(token) - 1)
ValueOf(token) == SubSeq(token, Separator(token) + 1, Len(token))

NextToken(next, map) ==
    /\ unseen' = next /\ params' = map
    /\ UNCHANGED <<text, parser, uri, buffer, parsed>>

Finish ==
    /\ parsed' = TRUE
    /\ UNCHANGED <<text, parser, uri, unseen, params, buffer>>

\* Mutant: empty tokens end the loop.
Strtok_StopsAtEmpty ==
    /\ parser = "parseParamsRequest" /\ ~parsed
    /\ LET end == FirstOf(text, unseen, {"&"})
           token == SubSeq(text, unseen, end - 1)
       IN  IF token = <<>> THEN Finish
           ELSE NextToken(end + 1,
                         IF Separator(token) <= Len(token)
                         THEN Put(params, KeyOf(token), ValueOf(token)) ELSE params)

\* strtok_r skips separators and ends when nothing follows them; a token with
\* an equals sign is a parameter, the last one of a name counts.
Strtok ==
    /\ parser = "parseParamsRequest" /\ ~parsed
    /\ LET start == FirstOf(text, unseen, Alphabet \ {"&"})
           end == FirstOf(text, start, {"&"})
           token == SubSeq(text, start, end - 1)
       IN  IF start > Len(text) THEN Finish
           ELSE NextToken(IF end > Len(text) THEN end ELSE end + 1,
                         IF Separator(token) <= Len(token)
                         THEN Put(params, KeyOf(token), ValueOf(token)) ELSE params)

\* getline gives empty tokens as well; a key and a value must not be empty.
GetLine ==
    /\ parser = "urlencoded" /\ ~parsed
    /\ LET end == FirstOf(text, unseen, {"&"})
           token == SubSeq(text, unseen, end - 1)
       IN  IF unseen > Len(text) THEN Finish
           ELSE NextToken(end + 1,
                         IF /\ Separator(token) <= Len(token)
                            /\ KeyOf(token) # <<>> /\ ValueOf(token) # <<>>
                         THEN Put(params, KeyOf(token), ValueOf(token)) ELSE params)

QueryNext == Strtok \/ GetLine

QuerySpec == QueryInit /\ [][QueryNext]_queryVars /\ WF_queryVars(QueryNext)

-----------------------------------------------------------------------------
(* Properties *)

\* Declaratively: a pair is a stretch i .. k of the text from a given start on,
\* between separators, with its first equals sign at j.
Pairs(from) ==
    {<<i, j, k>> \in (from .. Len(text)) \X (from .. Len(text)) \X (from .. Len(text)) :
       /\ i <= j /\ j <= k
       /\ i = from \/ text[i - 1] = "&"
       /\ k = Len(text) \/ text[k + 1] = "&"
       /\ text[j] = "=" /\ \A x \in i .. j - 1 : text[x] # "="
       /\ \A x \in i .. k : text[x] # "&"}

Key(p) == SubSeq(text, p[1], p[2] - 1)
Val(p) == SubSeq(text, p[2] + 1, p[3])

\* What a set of pairs gives when the last one of a key counts.
LastOfEach(pairs) ==
    [k \in {Key(p) : p \in pairs} |->
       Val(CHOOSE p \in pairs : Key(p) = k /\ \A q \in pairs : Key(q) = k => q[1] <= p[1])]

\* parseParamsRequest finds every pair after the first question mark: an equals
\* sign is required, an empty value is allowed, empty pairs do not matter, and
\* no character before the mark does.
QueryAsWritten ==
    parsed /\ parser = "parseParamsRequest" =>
       LET marks == {i \in 1 .. Len(text) : text[i] = "?"}
           mark == CHOOSE i \in marks : \A j \in marks : i <= j
       IN  IF marks = {} THEN uri = text /\ params = <<>>
           ELSE /\ uri \o <<"?">> = SubSeq(text, 1, mark)
                /\ params = IF buffer THEN LastOfEach(Pairs(mark + 1)) ELSE <<>>

\* urlencoded finds every pair of the form whose key and value are not empty.
FormAsWritten ==
    parsed /\ parser = "urlencoded" =>
       params = LastOfEach({p \in Pairs(1) : Key(p) # <<>> /\ Val(p) # <<>>})

\* Both parsers find the parameters the text has.
ParametersAsWritten == QueryAsWritten /\ FormAsWritten

=============================================================================
