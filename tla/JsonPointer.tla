---------------------------- MODULE JsonPointer -----------------------------
(***************************************************************************)
(* JSON pointers (json.hpp, class json_pointer): their text, the ways to   *)
(* follow one through a value, and flatten and unflatten.  A reference     *)
(* into a value is the sequence of keys and indices that leads to it.      *)
(***************************************************************************)
EXTENDS JsonValue

CONSTANTS
    MaxInt      \* the largest int, in std::stoi

Slash == 47
Tilde == 126
Zero == 48
Dash == <<45>>
Digits == 48 .. 57
Blanks == 9 .. 13 \cup {32}     \* isspace

\* Errors that are no exceptions of the library.
StdOutOfRange == 1
StdLengthError == 2
Undefined == 3

-----------------------------------------------------------------------------
(* Text *)

RECURSIVE ReplacedFrom(_, _, _, _)
ReplacedFrom(s, f, t, from) ==
    LET hits == {p \in from .. Len(s) - Len(f) + 1 : SubSeq(s, p, p + Len(f) - 1) = f} IN
    IF hits = {} THEN s
    ELSE LET p == CHOOSE q \in hits : \A h \in hits : q <= h IN
         ReplacedFrom(SubSeq(s, 1, p - 1) \o t \o SubSeq(s, p + Len(f), Len(s)), f, t, p + Len(t))
replace_substring(s, f, t) == ReplacedFrom(s, f, t, 1)
escape(s) == replace_substring(replace_substring(s, <<Tilde>>, <<Tilde, 48>>), <<Slash>>, <<Tilde, 49>>)
unescape(s) == replace_substring(replace_substring(s, <<Tilde, 49>>, <<Slash>>), <<Tilde, 48>>, <<Tilde>>)

to_string(tokens) == FlattenSeq([i \in DOMAIN tokens |-> <<Slash>> \o escape(tokens[i])])

BadEscape(t) == \E p \in DOMAIN t : t[p] = Tilde /\ (p = Len(t) \/ t[p + 1] \notin {48, 49})
\* The pieces between slashes of a text that starts with one.
Pieces(s) ==
    LET cuts == InOrder({p \in DOMAIN s : s[p] = Slash} \cup {Len(s) + 1}, LAMBDA x, y : x < y)
    IN  [i \in 1 .. Len(cuts) - 1 |-> SubSeq(s, cuts[i] + 1, cuts[i + 1] - 1)]
split(s) ==
    IF s = <<>> THEN Returns(<<>>)
    ELSE IF s[1] # Slash THEN Throws(<<>>, 107)
    ELSE IF \E i \in DOMAIN Pieces(s) : BadEscape(Pieces(s)[i]) THEN Throws(<<>>, 108)
    ELSE Returns([i \in DOMAIN Pieces(s) |-> unescape(Pieces(s)[i])])

\* std::stoi skips blanks, takes a sign and digits, and leaves the rest.  A
\* negative number is a very large size_type afterwards.
RECURSIVE DecimalValue(_)
DecimalValue(s) == IF s = <<>> THEN 0 ELSE DecimalValue(Front(s)) * 10 + (Last(s) - 48)
\* How many members of chars s starts with.
RunLength(s, chars) ==
    CHOOSE q \in 0 .. Len(s) : (\A p \in 1 .. q : s[p] \in chars) /\ (q = Len(s) \/ s[q + 1] \notin chars)
AfterSign(s, negative) ==
    LET stop == RunLength(s, Digits)
        n == DecimalValue(SubSeq(s, 1, stop))
    IN  IF stop = 0 THEN Throws(0, 109)
        ELSE IF n > MaxInt + (IF negative THEN 1 ELSE 0) THEN Throws(0, StdOutOfRange)
        ELSE IF stop # Len(s) THEN Throws(0, 404)
        ELSE Returns(IF negative THEN -n ELSE n)
AfterBlanks(s) ==
    AfterSign(IF s # <<>> /\ s[1] \in {43, 45} THEN Tail(s) ELSE s, s # <<>> /\ s[1] = 45)
array_index(s) == AfterBlanks(SubSeq(s, RunLength(s, Blanks) + 1, Len(s)))
LeadingZero(t) == Len(t) > 1 /\ t[1] = Zero

-----------------------------------------------------------------------------
(* Following a pointer *)

\* [error, value, path]: the value with what was created on the way, and the
\* reference.
Found(v, path) == [error |-> 0, value |-> v, path |-> path]
Lost(v, id) == [error |-> id, value |-> v, path |-> <<>>]
\* r is what was found below the element k of v.
Below(v, k, r) == [r EXCEPT !.value = <<Type(v), [Val(v) EXCEPT ![k] = r.value]>>, !.path = <<k>> \o r.path]

\* operator[] with an index that was negative: so many nulls do not fit, but
\* -1 in an empty array wraps around to none at all.
Element(v, i) ==
    IF i >= 0 THEN operator_index(v, i)
    ELSE Throws(v, IF i - size(v) + 1 = 0 THEN Undefined ELSE StdLengthError)

AllDigits(t) == \A p \in DOMAIN t : t[p] \in Digits
RECURSIVE get_unchecked(_, _)
get_unchecked(v, tokens) ==
    IF tokens = <<>> THEN Found(v, <<>>)
    ELSE LET t == Head(tokens)
             u == IF ~is_null(v) THEN v
                  ELSE IF AllDigits(t) \/ t = Dash THEN Arr(<<>>) ELSE Obj(NoMembers)
         IN  CASE is_object(u) ->
                    LET w == operator_key(u, t).value
                    IN  Below(w, t, get_unchecked(Val(w)[t], Tail(tokens)))
               [] is_array(u) ->
                    LET i == IF LeadingZero(t) THEN Throws(0, 106)
                             ELSE IF t = Dash THEN Returns(size(u)) ELSE array_index(t)
                        w == IF i.error # 0 THEN Throws(u, i.error) ELSE Element(u, i.value)
                    IN  IF w.error # 0 THEN Lost(u, w.error)
                        ELSE Below(w.value, i.value + 1, get_unchecked(Val(w.value)[i.value + 1], Tail(tokens)))
               [] OTHER -> Lost(u, 404)

\* The index of an element that must be there already.
CheckedIndex(v, t) ==
    IF t = Dash THEN Throws(0, 402)
    ELSE IF LeadingZero(t) THEN Throws(0, 106) ELSE array_index(t)

RECURSIVE get_checked(_, _)
get_checked(v, tokens) ==
    IF tokens = <<>> THEN Found(v, <<>>)
    ELSE LET t == Head(tokens)
             i == CheckedIndex(v, t)
             r == CASE is_object(v) -> at_key(v, t)
                    [] is_array(v) -> IF i.error # 0 THEN i ELSE at_index(v, i.value)
                    [] OTHER -> Throws(v, 404)
         IN  IF r.error # 0 THEN Lost(v, r.error)
             ELSE Below(v, IF is_object(v) THEN t ELSE i.value + 1, get_checked(r.value, Tail(tokens)))

\* Constant access asserts that a member is there and does not look for an
\* element.
RECURSIVE get_unchecked_const(_, _)
get_unchecked_const(v, tokens) ==
    IF tokens = <<>> THEN Found(v, <<>>)
    ELSE LET t == Head(tokens)
             i == CheckedIndex(v, t)
             r == CASE is_object(v) -> IF contains(v, t) THEN Returns(Val(v)[t]) ELSE Throws(v, Undefined)
                    [] is_array(v) -> IF i.error # 0 THEN i
                                      ELSE IF i.value \in 0 .. size(v) - 1 THEN Returns(Val(v)[i.value + 1])
                                      ELSE Throws(v, Undefined)
                    [] OTHER -> Throws(v, 404)
         IN  IF r.error # 0 THEN Lost(v, r.error)
             ELSE Below(v, IF is_object(v) THEN t ELSE i.value + 1, get_unchecked_const(r.value, Tail(tokens)))

RECURSIVE contains_pointer(_, _)
contains_pointer(v, tokens) ==
    IF tokens = <<>> THEN Returns(TRUE)
    ELSE LET t == Head(tokens)
             i == CheckedIndex(v, t)
         IN  CASE is_object(v) -> IF contains(v, t) THEN contains_pointer(Val(v)[t], Tail(tokens)) ELSE Returns(FALSE)
               [] is_array(v) ->
                    IF i.error = 402 THEN Returns(FALSE) ELSE IF i.error # 0 THEN Throws(FALSE, i.error)
                    ELSE IF i.value \in 0 .. size(v) - 1 THEN contains_pointer(Val(v)[i.value + 1], Tail(tokens))
                    ELSE Returns(FALSE)
               [] OTHER -> Returns(FALSE)

\* The element a reference leads to, and the value with another one there.
RECURSIVE Get(_, _)
Get(v, path) == IF path = <<>> THEN v ELSE Get(Val(v)[Head(path)], Tail(path))
RECURSIVE Put(_, _, _)
Put(v, path, x) ==
    IF path = <<>> THEN x
    ELSE <<Type(v), [Val(v) EXCEPT ![Head(path)] = Put(@, Tail(path), x)]>>

-----------------------------------------------------------------------------
(* flatten and unflatten *)

RECURSIVE get_and_create(_, _)
get_and_create(v, tokens) ==
    IF tokens = <<>> THEN Found(v, <<>>)
    ELSE LET t == Head(tokens) IN
         CASE is_null(v) /\ t = <<Zero>> -> Below(Arr(<<Null>>), 1, get_and_create(Null, Tail(tokens)))
           [] is_object(v) \/ (is_null(v) /\ t # <<Zero>>) ->
                LET w == operator_key(v, t).value IN Below(w, t, get_and_create(Val(w)[t], Tail(tokens)))
           [] is_array(v) ->
                LET i == array_index(t)
                    w == IF i.error # 0 THEN Throws(v, i.error) ELSE Element(v, i.value)
                IN  IF w.error # 0 THEN Lost(v, w.error)
                    ELSE Below(w.value, i.value + 1, get_and_create(Val(w.value)[i.value + 1], Tail(tokens)))
           [] OTHER -> Lost(v, 313)

RECURSIVE Decimal(_)
Decimal(n) == IF n < 10 THEN <<48 + n>> ELSE Decimal(n \div 10) \o <<48 + (n % 10)>>

\* Members of the result, as a function from texts to primitive values.
Merge(fs) == [k \in UNION {DOMAIN f : f \in fs} |-> (CHOOSE f \in fs : k \in DOMAIN f)[k]]
RECURSIVE flatten(_, _)
flatten(text, v) ==
    IF is_primitive(v) THEN With(NoMembers, text, v)
    ELSE IF empty(v) THEN With(NoMembers, text, Null)
    ELSE IF is_array(v) THEN Merge({flatten(text \o <<Slash>> \o Decimal(i - 1), Val(v)[i]) : i \in DOMAIN Val(v)})
    ELSE Merge({flatten(text \o <<Slash>> \o escape(k), Val(v)[k]) : k \in DOMAIN Val(v)})

\* One element after the other, in the order of the texts.
Unflattened(r, text, x) ==
    IF r.error # 0 THEN r
    ELSE LET p == split(text)
             g == get_and_create(r.value, p.value)
         IN  IF ~is_primitive(x) THEN Throws(r.value, 315)
             ELSE IF p.error # 0 THEN Throws(r.value, p.error)
             ELSE IF g.error # 0 THEN Throws(g.value, g.error)
             ELSE Returns(Put(g.value, g.path, x))
\* Mutant: from the last element to the first.
unflatten_Reverse(v) ==
    IF ~is_object(v) THEN Throws(v, 314)
    ELSE FoldLeft(LAMBDA r, k : Unflattened(r, k, Val(v)[k]), Returns(Null), Reverse(Keys(v)))
unflatten(v) ==
    IF ~is_object(v) THEN Throws(v, 314)
    ELSE FoldLeft(LAMBDA r, k : Unflattened(r, k, Val(v)[k]), Returns(Null), Keys(v))

=============================================================================
