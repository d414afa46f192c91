----------------------------- MODULE JsonParser -----------------------------
(***************************************************************************)
(* The JSON parser (json.hpp) that reads config.json: the loop of          *)
(* sax_parse_internal over the tokens of the lexer, with its stack of      *)
(* containers, and the three receivers of its events: the builder of a     *)
(* value, the builder with a callback that may discard parts, and the      *)
(* acceptor.  The stack ref_stack of pointers into the value is a stack of *)
(* the open containers; a container gets its place when it is closed.      *)
(***************************************************************************)
EXTENDS Integers, Sequences, SequencesExt

CONSTANTS
    Texts,      \* sequences of tokens
    Receivers,  \* subset of {"dom", "callback", "acceptor"}
    Filters,    \* what the callback discards: <<event, key, scalar or depth>>
    KeyOrder    \* the keys in their order in a std::map

ASSUME ParserAssumption ==
    /\ \A t \in Texts : t \in Seq(STRING)
    /\ Receivers \subseteq {"dom", "callback", "acceptor"}
    /\ KeyOrder \in Seq(STRING)

VARIABLES
    tokenText, receiver, filter, strict,
    pos,        \* last_token is the token there
    states,     \* std::vector<bool>: TRUE for an array
    phase,      \* "value", "evaluate" (skip_to_state_evaluation), "done"
    sax,        \* the receiver's fields
    parsed      \* "none", TRUE or FALSE of sax_parse_internal, then of parse

parserVars == <<tokenText, receiver, filter, strict, pos, states, phase, sax, parsed>>

-----------------------------------------------------------------------------
(* Values *)

Scalar(t) == [type |-> "scalar", value |-> t]
NullValue == [type |-> "null"]
Discarded == [type |-> "discarded"]
EmptyArray == [type |-> "array", items |-> <<>>]
EmptyObject == [type |-> "object", members |-> <<>>]

\* object->operator[](key) = v
Member(object, key, v) ==
    [object EXCEPT !.members =
       [k \in DOMAIN @ \cup {key} |-> IF k = key THEN v ELSE object.members[k]]]

-----------------------------------------------------------------------------
(* The receivers *)

\* keep and keyKeep are only used with a callback; an open container that is
\* not kept is a null pointer.
FreshSax == [root |-> NullValue, ref |-> <<>>, keep |-> <<TRUE>>, keyKeep |-> <<>>, errored |-> FALSE]
NoPointer == [null |-> TRUE]
OpenValue(v) == [null |-> FALSE, value |-> v, key |-> ""]

Top(s) == Last(s)
SetTop(st, v) == [st EXCEPT !.ref[Len(st.ref)].value = v]

\* The value gets its place in the innermost open container, or is the root.
Place(st, v) ==
    IF st.ref = <<>> THEN [st EXCEPT !.root = v]
    ELSE LET top == Top(st.ref)
         IN  IF top.value.type = "array"
             THEN SetTop(st, [top.value EXCEPT !.items = Append(@, v)])
             ELSE SetTop(st, Member(top.value, top.key, v))

Push(st, v) == [st EXCEPT !.ref = Append(@, OpenValue(v))]
PushNull(st) == [st EXCEPT !.ref = Append(@, NoPointer)]

\* callback(depth, event, parsed)
Callback(event, what) == <<event, what>> # filter

\* handle_value of the builder with a callback: whether the value is kept, and
\* the stack of keys afterwards.
HandleValue(st, kept) ==
    CASE ~Top(st.keep) \/ ~kept -> [keep |-> FALSE, keyKeep |-> st.keyKeep]
      [] Top(st.keep) /\ kept /\ st.ref = <<>> -> [keep |-> TRUE, keyKeep |-> st.keyKeep]
      [] OTHER ->
           LET top == Top(st.ref)
           IN  IF top.null THEN [keep |-> FALSE, keyKeep |-> st.keyKeep]
               ELSE IF top.value.type = "array" THEN [keep |-> TRUE, keyKeep |-> st.keyKeep]
               ELSE [keep |-> Top(st.keyKeep), keyKeep |-> Front(st.keyKeep)]

Popped(st) == [st EXCEPT !.ref = Front(@), !.keep = IF receiver = "callback" THEN Front(@) ELSE @]

\* json_sax_dom_parser: null, boolean, number_*, string; then start_*, key, end_*.
DomScalar(st, t) == Place(st, Scalar(t))
DomStart(st, empty) == Push(st, empty)
DomKey(st, k) ==
    [SetTop(st, Member(Top(st.ref).value, k, NullValue)) EXCEPT !.ref[Len(st.ref)].key = k]
DomEnd(st) == Place(Popped(st), Top(st.ref).value)

\* parse_error, without exceptions
DomError(st) == [st EXCEPT !.errored = TRUE]

\* json_sax_dom_callback_parser
CallbackScalar(st, t) ==
    LET h == HandleValue(st, Callback("value", t))
        after == [st EXCEPT !.keyKeep = h.keyKeep]
    IN  IF h.keep THEN Place(after, Scalar(t)) ELSE after

CallbackStart(st, empty, event) ==
    LET kept == Callback(event, ToString(Len(st.ref)))
        begun == [st EXCEPT !.keep = Append(@, kept)]
        h == HandleValue(begun, TRUE)
        after == [begun EXCEPT !.keyKeep = h.keyKeep]
    IN  IF h.keep THEN Push(after, empty) ELSE PushNull(after)

CallbackKey(st, k) ==
    LET kept == Callback("key", k)
        after == [st EXCEPT !.keyKeep = Append(@, kept)]
    IN  IF kept /\ ~Top(st.ref).null
        THEN [SetTop(after, Member(Top(st.ref).value, k, Discarded)) EXCEPT !.ref[Len(st.ref)].key = k]
        ELSE after

\* Mutant: a discarded object is left to its parent.
EraseDiscarded_Never(st) == st

\* The loop at the end of end_object: one discarded member of the parent goes.
EraseDiscarded(st) ==
    IF st.ref = <<>> \/ Top(st.ref).null \/ Top(st.ref).value.type # "object" THEN st
    ELSE LET members == Top(st.ref).value.members
             gone == SelectSeq(KeyOrder, LAMBDA k : k \in DOMAIN members /\ members[k] = Discarded)
         IN  IF gone = <<>> THEN st
             ELSE SetTop(st, [Top(st.ref).value EXCEPT
                                !.members = [k \in DOMAIN members \ {gone[1]} |-> members[k]]])

CallbackEndObject(st) ==
    EraseDiscarded(
       IF Top(st.ref).null THEN Popped(st)
       ELSE Place(Popped(st), IF Callback("object_end", ToString(Len(st.ref) - 1))
                              THEN Top(st.ref).value ELSE Discarded))

\* A discarded array leaves an array it is in, but not an object.
CallbackEndArray(st) ==
    LET top == Top(st.ref)
        after == Popped(st)
    IN  CASE top.null -> after
          [] ~top.null /\ Callback("array_end", ToString(Len(st.ref) - 1)) -> Place(after, top.value)
          [] OTHER -> IF after.ref # <<>> /\ Top(after.ref).value.type = "array"
                      THEN after ELSE Place(after, Discarded)

CallbackError(st) == [st EXCEPT !.errored = TRUE]

\* json_sax_acceptor: no event leaves anything behind.
Accept(st) == st

ScalarEvent(st, t) ==
    CASE receiver = "acceptor" -> Accept(st) [] receiver = "dom" -> DomScalar(st, t)
      [] receiver = "callback" -> CallbackScalar(st, t)
StartEvent(st, empty, event) ==
    CASE receiver = "acceptor" -> Accept(st) [] receiver = "dom" -> DomStart(st, empty)
      [] receiver = "callback" -> CallbackStart(st, empty, event)
Key(st, k) ==
    CASE receiver = "acceptor" -> Accept(st) [] receiver = "dom" -> DomKey(st, k)
      [] receiver = "callback" -> CallbackKey(st, k)
EndObject(st) ==
    CASE receiver = "acceptor" -> Accept(st) [] receiver = "dom" -> DomEnd(st)
      [] receiver = "callback" -> CallbackEndObject(st)
EndArray(st) ==
    CASE receiver = "acceptor" -> Accept(st) [] receiver = "dom" -> DomEnd(st)
      [] receiver = "callback" -> CallbackEndArray(st)
ErrorEvent(st) ==
    CASE receiver = "acceptor" -> Accept(st) [] receiver = "dom" -> DomError(st)
      [] receiver = "callback" -> CallbackError(st)

-----------------------------------------------------------------------------
(* The parser *)

Token(i) == IF i <= Len(tokenText) THEN tokenText[i] ELSE "eof"
IsString(t) == t \in Range(KeyOrder)
Scalars == {"1", "true"} \cup Range(KeyOrder)

ParserInit ==
    /\ tokenText \in Texts
    /\ receiver \in Receivers
    /\ filter \in IF receiver = "callback" THEN Filters ELSE {<<"none", "">>}
    /\ strict \in BOOLEAN
    /\ pos = 1
    /\ states = <<>>
    /\ phase = "value"
    /\ sax = FreshSax
    /\ parsed = "none"

Error(at) ==
    /\ sax' = ErrorEvent(sax)
    /\ parsed' = FALSE
    /\ pos' = at
    /\ phase' = "finish"
    /\ UNCHANGED <<tokenText, receiver, filter, strict, states>>

\* On to a token in a phase, with the receiver's new state.
Advance(at, next, st, stack) ==
    /\ pos' = at
    /\ phase' = next
    /\ sax' = st
    /\ states' = stack
    /\ UNCHANGED <<tokenText, receiver, filter, strict, parsed>>

\* A key and its colon; the key is the token at i.
KeyAt(i, st, stack) ==
    IF ~IsString(Token(i)) THEN Error(i)
    ELSE IF Token(i + 1) # ":" THEN Error(i + 1)
    ELSE Advance(i + 2, "value", Key(st, Token(i)), stack)

BeginObject ==
    /\ phase = "value" /\ Token(pos) = "{"
    /\ LET started == StartEvent(sax, EmptyObject, "object_start")
       IN  IF Token(pos + 1) = "}" THEN Advance(pos + 1, "evaluate", EndObject(started), states)
           ELSE KeyAt(pos + 1, started, Append(states, FALSE))

BeginArray ==
    /\ phase = "value" /\ Token(pos) = "["
    /\ LET started == StartEvent(sax, EmptyArray, "array_start")
       IN  IF Token(pos + 1) = "]" THEN Advance(pos + 1, "evaluate", EndArray(started), states)
           ELSE Advance(pos + 1, "value", started, Append(states, TRUE))

ScalarValue ==
    /\ phase = "value" /\ Token(pos) \in Scalars
    /\ Advance(pos, "evaluate", ScalarEvent(sax, Token(pos)), states)

\* An overflowing number, an error of the lexer, or a token out of place.
Unexpected ==
    /\ phase = "value" /\ Token(pos) \notin Scalars \cup {"{", "["}
    /\ Error(pos)

EndOfHierarchy ==
    /\ phase = "evaluate" /\ states = <<>>
    /\ phase' = "finish" /\ parsed' = TRUE
    /\ UNCHANGED <<tokenText, receiver, filter, strict, pos, states, sax>>

InArray ==
    /\ phase = "evaluate" /\ states # <<>> /\ Top(states)
    /\ CASE Token(pos + 1) = "," -> Advance(pos + 2, "value", sax, states)
         [] Token(pos + 1) = "]" -> Advance(pos + 1, "evaluate", EndArray(sax), Front(states))
         [] OTHER -> Error(pos + 1)

InObject ==
    /\ phase = "evaluate" /\ states # <<>> /\ ~Top(states)
    /\ CASE Token(pos + 1) = "," -> KeyAt(pos + 2, sax, states)
         [] Token(pos + 1) = "}" -> Advance(pos + 1, "evaluate", EndObject(sax), Front(states))
         [] OTHER -> Error(pos + 1)

\* In strict mode nothing may follow the value.
EndsInput(ok) == ok /\ (strict => Token(pos + 1) = "eof")

\* parse(): a value with errors is discarded, one that the callback discarded is
\* null.
FinishParse ==
    /\ phase = "finish" /\ receiver # "acceptor"
    /\ LET st == IF EndsInput(parsed) THEN sax ELSE ErrorEvent(sax)
       IN  /\ parsed' = ~st.errored
           /\ sax' = [st EXCEPT !.root = IF st.errored THEN Discarded
                                         ELSE IF @ = Discarded THEN NullValue ELSE @]
    /\ phase' = "done"
    /\ UNCHANGED <<tokenText, receiver, filter, strict, pos, states>>

\* accept() and sax_parse()
FinishAccept ==
    /\ phase = "finish" /\ receiver = "acceptor"
    /\ parsed' = EndsInput(parsed)
    /\ phase' = "done"
    /\ UNCHANGED <<tokenText, receiver, filter, strict, pos, states, sax>>

ParserNext ==
    \/ BeginObject \/ BeginArray \/ ScalarValue \/ Unexpected
    \/ EndOfHierarchy \/ InArray \/ InObject \/ FinishParse \/ FinishAccept

ParserSpec == ParserInit /\ [][ParserNext]_parserVars

-----------------------------------------------------------------------------
(* Reference: the grammar of RFC 8259 by recursive descent.  A result tells *)
(* where the value ends, what it is without the discarded parts, and        *)
(* whether it is discarded itself.                                          *)

Wrong == [ok |-> FALSE]
Right(next, value, kept) == [ok |-> TRUE, next |-> next, value |-> value, kept |-> kept]
Keeps(event, what) == receiver # "callback" \/ <<event, what>> # filter

RECURSIVE RefValue(_, _), RefItems(_, _, _), RefMembers(_, _, _)

RefItems(i, d, array) ==
    LET v == RefValue(i, d)
        more == [array EXCEPT !.items = IF v.kept THEN Append(@, v.value) ELSE @]
    IN  CASE ~v.ok -> Wrong
          [] v.ok /\ Token(v.next) = "," -> RefItems(v.next + 1, d, more)
          [] v.ok /\ Token(v.next) = "]" -> Right(v.next + 1, more, TRUE)
          [] OTHER -> Wrong

RefMembers(i, d, object) ==
    LET v == RefValue(i + 2, d)
        more == CASE ~Keeps("key", Token(i)) -> object
                  [] v.kept /\ Keeps("key", Token(i)) -> Member(object, Token(i), v.value)
                  [] OTHER -> [object EXCEPT !.members = [k \in DOMAIN @ \ {Token(i)} |-> object.members[k]]]
    IN  CASE ~IsString(Token(i)) \/ Token(i + 1) # ":" -> Wrong
          [] OTHER -> CASE ~v.ok -> Wrong
                        [] v.ok /\ Token(v.next) = "," -> RefMembers(v.next + 1, d, more)
                        [] v.ok /\ Token(v.next) = "}" -> Right(v.next + 1, more, TRUE)
                        [] OTHER -> Wrong

RefValue(i, d) ==
    LET Container(r, start, end) ==
           IF ~r.ok THEN Wrong
           ELSE Right(r.next, r.value, Keeps(start, ToString(d)) /\ Keeps(end, ToString(d)))
    IN  CASE Token(i) \in Scalars -> Right(i + 1, Scalar(Token(i)), Keeps("value", Token(i)))
          [] Token(i) = "[" -> Container(IF Token(i + 1) = "]" THEN Right(i + 2, EmptyArray, TRUE)
                                         ELSE RefItems(i + 1, d + 1, EmptyArray),
                                         "array_start", "array_end")
          [] Token(i) = "{" -> Container(IF Token(i + 1) = "}" THEN Right(i + 2, EmptyObject, TRUE)
                                         ELSE RefMembers(i + 1, d + 1, EmptyObject),
                                         "object_start", "object_end")
          [] OTHER -> Wrong

-----------------------------------------------------------------------------
(* Properties *)

\* A value without the placeholders of discarded parts.
RECURSIVE Cleaned(_)
Cleaned(v) ==
    CASE v.type = "array" ->
           LET items == SelectSeq(v.items, LAMBDA x : x # Discarded)
           IN  [v EXCEPT !.items = [k \in DOMAIN items |-> Cleaned(items[k])]]
      [] v.type = "object" ->
           [v EXCEPT !.members = [k \in {l \in DOMAIN @ : v.members[l] # Discarded} |-> Cleaned(v.members[k])]]
      [] OTHER -> v

\* Every receiver accepts exactly the texts of the grammar, and the value that
\* is built is the one the text denotes, without the parts that the callback
\* discards; a discarded text is null.  A discarded scalar or array stays in an
\* object, and an object discarded at its end in an array, as a placeholder (the
\* type discarded); keys and objects discarded at their start leave none.
ResultAsRead ==
    phase = "done" =>
       LET ref == RefValue(1, 0)
           ok == ref.ok /\ (strict => Token(ref.next) = "eof")
       IN  /\ parsed = ok
           /\ ok /\ receiver # "acceptor" =>
                /\ IF ref.kept THEN Cleaned(sax.root) = ref.value ELSE sax.root = NullValue
                /\ filter[1] \in {"none", "key", "object_start"} => sax.root = Cleaned(sax.root)

\* Whenever a value is read, the parser's stack of containers and those of the
\* receiver are of the same height, and the innermost container is of the kind
\* the parser thinks it is.
StacksAgree ==
    phase \in {"value", "evaluate"} /\ receiver # "acceptor" =>
       /\ Len(sax.ref) = Len(states)
       /\ receiver = "callback" => Len(sax.keep) = Len(states) + 1
       /\ \A i \in 1 .. Len(states) :
             sax.ref[i].null \/ (sax.ref[i].value.type = "array") = states[i]

\* The parser builds what the text says, its stacks in step.
ParserIsRight == ResultAsRead /\ StacksAgree

=============================================================================
