--------------------------- MODULE JsonContainer ----------------------------
(***************************************************************************)
(* A program changes two JSON values a and b through the interface of      *)
(* basic_json (json.hpp) and keeps an iterator into one of them until a    *)
(* call may have invalidated it.                                           *)
(***************************************************************************)
EXTENDS JsonValue

CONSTANTS
    Starts,     \* values a and b may have at first
    Items,      \* values stored in them
    KeySet,     \* keys of members
    Lists,      \* initializer lists, as sequences of values
    MaxSize     \* bound on the size of a value

VARIABLES
    a, b,
    it,         \* [of, pos]: an iterator of "a" or "b", or of "none"
    last        \* [call, threw]: the kind of the last call, and whether it threw

containerVars == <<a, b, it, last>>

NoIterator == [of |-> "none", pos |-> 0]
IteratorOf(x, p) == [of |-> x, pos |-> p]

\* Results of calls that return an iterator.
Gives(v, p) == [value |-> v, error |-> 0, pos |-> p]
FailsWith(v, id) == [value |-> v, error |-> id, pos |-> -1]

-----------------------------------------------------------------------------
(* Erasing *)

Cut(s, p, q) == SubSeq(s, 1, p) \o SubSeq(s, q + 1, Len(s))

\* Mutant: the iterator set up at the start is returned.
erase_iterator_End(v, own, p) ==
    IF ~own THEN FailsWith(v, 202)
    ELSE CASE is_array(v) -> Gives(Arr(Cut(Val(v), p, p + 1)), Len(Val(v)) - 1)
           [] is_object(v) -> Gives(Obj(Without(Val(v), {key(v, p)})), p)
           [] is_null(v) -> FailsWith(v, 307)
           [] OTHER -> IF p = begin(v) THEN Gives(Null, end(Null)) ELSE FailsWith(v, 205)
erase_iterator(v, own, p) ==
    IF ~own THEN FailsWith(v, 202)
    ELSE CASE is_array(v) -> Gives(Arr(Cut(Val(v), p, p + 1)), p)
           [] is_object(v) -> Gives(Obj(Without(Val(v), {key(v, p)})), p)
           [] is_null(v) -> FailsWith(v, 307)
           [] OTHER -> IF p = begin(v) THEN Gives(Null, end(Null)) ELSE FailsWith(v, 205)
erase_range(v, own, p, q) ==
    IF ~own THEN FailsWith(v, 203)
    ELSE CASE is_array(v) -> Gives(Arr(Cut(Val(v), p, q)), p)
           [] is_object(v) -> Gives(Obj(Without(Val(v), {Keys(v)[i] : i \in p + 1 .. q})), p)
           [] is_null(v) -> FailsWith(v, 307)
           [] OTHER -> IF p = begin(v) /\ q = end(v) THEN Gives(Null, end(Null)) ELSE FailsWith(v, 204)
erase_key(v, k) == IF is_object(v) THEN Returns(Obj(Without(Val(v), {k}))) ELSE Throws(v, 307)
erase_index(v, i) == IF ~is_array(v) THEN Throws(v, 307)
                     ELSE IF i >= size(v) THEN Throws(v, 401) ELSE Returns(Arr(Cut(Val(v), i, i + 1)))
clear(v) == CASE Type(v) \in Numeric -> <<Type(v), 0>>
              [] Type(v) = "boolean" -> Bool(FALSE)
              [] Type(v) = "string" -> Str(<<>>)
              [] is_array(v) -> Arr(<<>>)
              [] is_object(v) -> Obj(NoMembers)
              [] OTHER -> v

-----------------------------------------------------------------------------
(* Adding *)

push_back(v, x) == IF is_null(v) THEN Returns(Arr(<<x>>))
                   ELSE IF is_array(v) THEN Returns(Arr(Append(Val(v), x))) ELSE Throws(v, 308)
\* A member that is there already stays as it is.
Inserted(f, k, x) == IF k \in DOMAIN f THEN f ELSE With(f, k, x)
push_back_pair(v, k, x) == IF is_null(v) THEN Returns(Obj(Inserted(NoMembers, k, x)))
                           ELSE IF is_object(v) THEN Returns(Obj(Inserted(Val(v), k, x))) ELSE Throws(v, 308)
emplace_back(v, x) == IF is_null(v) \/ is_array(v) THEN push_back(v, x) ELSE Throws(v, 311)
emplace(v, k, x) == IF is_null(v) \/ is_object(v)
                    THEN LET w == push_back_pair(v, k, x).value IN Gives(w, find(w, k))
                    ELSE FailsWith(v, 311)

\* The constructor from an initializer list: of two equal keys the first counts.
IsMember(x) == is_array(x) /\ size(x) = 2 /\ Type(Val(x)[1]) = "string"
initializer_list(l) ==
    IF \A i \in DOMAIN l : IsMember(l[i])
    THEN Obj(FoldLeft(LAMBDA f, x : Inserted(f, Val(Val(x)[1]), Val(x)[2]), NoMembers, l))
    ELSE Arr(l)
push_back_list(v, l) ==
    IF is_object(v) /\ Len(l) = 2 /\ Type(l[1]) = "string" THEN push_back_pair(v, Val(l[1]), l[2])
    ELSE push_back(v, initializer_list(l))

\* The position is taken before the array moves its elements.
insert_iterator(v, p, s) == Gives(Arr(SubSeq(Val(v), 1, p) \o s \o SubSeq(Val(v), p + 1, Len(Val(v)))), p)
insert(v, own, p, x) == IF ~is_array(v) THEN FailsWith(v, 309)
                        ELSE IF ~own THEN FailsWith(v, 202) ELSE insert_iterator(v, p, <<x>>)
insert_count(v, own, p, n, x) == IF ~is_array(v) THEN FailsWith(v, 309)
                                 ELSE IF ~own THEN FailsWith(v, 202)
                                 ELSE insert_iterator(v, p, [i \in 1 .. n |-> x])
insert_list(v, own, p, l) == IF ~is_array(v) THEN FailsWith(v, 309)
                             ELSE IF ~own THEN FailsWith(v, 202) ELSE insert_iterator(v, p, l)
\* The elements from f to l of an array w; same: the two iterators are of one
\* value, self: of the array that is changed.
insert_range(v, own, p, w, f, l, same, self) ==
    CASE ~is_array(v) -> FailsWith(v, 309)
      [] is_array(v) /\ ~own -> FailsWith(v, 202)
      [] is_array(v) /\ own /\ ~same -> FailsWith(v, 210)
      [] is_array(v) /\ own /\ same /\ self -> FailsWith(v, 211)
      [] OTHER -> insert_iterator(v, p, SubSeq(Val(w), f + 1, l))
Members(w, f, l) == {Keys(w)[i] : i \in f + 1 .. l}
insert_object(v, w, f, l, same) ==
    CASE ~is_object(v) -> Throws(v, 309)
      [] is_object(v) /\ ~same -> Throws(v, 210)
      [] is_object(v) /\ same /\ ~is_object(w) -> Throws(v, 202)
      [] OTHER -> Returns(Obj([k \in DOMAIN Val(v) \cup Members(w, f, l) |->
                                 IF k \in DOMAIN Val(v) THEN Val(v)[k] ELSE Val(w)[k]]))

\* Null has become an object by the time the other value is looked at.
update(v, w) ==
    LET u == IF is_null(v) THEN Obj(NoMembers) ELSE v IN
    IF ~is_object(u) \/ ~is_object(w) THEN Throws(u, 312)
    ELSE Returns(Obj([k \in DOMAIN Val(u) \cup DOMAIN Val(w) |->
                        IF k \in DOMAIN Val(w) THEN Val(w)[k] ELSE Val(u)[k]]))
update_range(v, w, f, l, same) ==
    LET u == IF is_null(v) THEN Obj(NoMembers) ELSE v IN
    CASE ~is_object(u) -> Throws(u, 312)
      [] is_object(u) /\ ~same -> Throws(u, 210)
      [] is_object(u) /\ same /\ ~is_object(w) -> Throws(u, 202)
      [] OTHER -> Returns(Obj([k \in DOMAIN Val(u) \cup Members(w, f, l) |->
                                 IF k \in Members(w, f, l) THEN Val(w)[k] ELSE Val(u)[k]]))

\* The constructor from two iterators of a value.
range_construct(v, f, l) ==
    CASE is_null(v) -> Throws(Null, 206)
      [] is_array(v) -> Returns(Arr(SubSeq(Val(v), f + 1, l)))
      [] is_object(v) -> Returns(Obj([k \in Members(v, f, l) |-> Val(v)[k]]))
      [] OTHER -> IF f = begin(v) /\ l = end(v) THEN Returns(v) ELSE Throws(Null, 204)

-----------------------------------------------------------------------------
ContainerInit ==
    /\ a \in Starts /\ b \in Starts
    /\ it = NoIterator /\ last = [call |-> "other", threw |-> FALSE]

\* A call that changes a and returns an iterator.
ReturnIterator(name, r) ==
    /\ size(r.value) <= MaxSize
    /\ a' = r.value /\ b' = b
    /\ it' = IF r.error # 0 THEN it ELSE IteratorOf("a", r.pos)
    /\ last' = [call |-> name, threw |-> r.error # 0]
\* One that returns none: iterators into a changed value are given up.
Change(name, r) ==
    /\ size(r.value) <= MaxSize
    /\ a' = r.value /\ b' = b
    /\ it' = IF a' # a /\ it.of = "a" THEN NoIterator ELSE it
    /\ last' = [call |-> name, threw |-> r.error # 0]

Own == it.of = "a"
Held == it.of # "none"
It == it.pos
Owner == IF Own THEN a ELSE b

SetIndex == \E i \in 0 .. MaxSize - 1, x \in Items :
    LET r == operator_index(a, i) IN
    Change("other", IF r.error # 0 THEN r ELSE Returns(Arr([Val(r.value) EXCEPT ![i + 1] = x])))
SetKey == \E k \in KeySet, x \in Items :
    LET r == operator_key(a, k) IN
    Change("other", IF r.error # 0 THEN r ELSE Returns(Obj([Val(r.value) EXCEPT ![k] = x])))
EraseIterator == Held /\ (Own => It # end(a) \/ is_primitive(a)) /\ ReturnIterator("erase", erase_iterator(a, Own, It))
EraseRange == Held /\ \E q \in It .. end(Owner) : ReturnIterator("erase", erase_range(a, Own, It, q))
EraseKey == \E k \in KeySet : Change("other", erase_key(a, k))
EraseIndex == \E i \in 0 .. MaxSize : Change("other", erase_index(a, i))
Clear == Change("other", Returns(clear(a)))

PushBack == \E x \in Items : Change("other", push_back(a, x))
EmplaceBack == \E x \in Items : Change("other", emplace_back(a, x))
PushBackPair == \E k \in KeySet, x \in Items : Change("member", push_back_pair(a, k, x))
PushBackList == \E l \in Lists : Change("other", push_back_list(a, l))
Emplace == \E k \in KeySet, x \in Items : ReturnIterator("member", emplace(a, k, x))
Insert == Held /\ \E x \in Items : ReturnIterator("insert", insert(a, Own, It, x))
InsertCount == Held /\ \E x \in Items, n \in {0, 2} : ReturnIterator("insert", insert_count(a, Own, It, n, x))
InsertList == Held /\ \E l \in Lists : ReturnIterator("insert", insert_list(a, Own, It, l))
\* The range is of b or, mistakenly, of a or of both.
InsertRange ==
    /\ Held
    /\ \/ is_array(b) /\ \E f \in 0 .. end(b) : \E l \in f .. end(b) :
            ReturnIterator("insert", insert_range(a, Own, It, b, f, l, TRUE, FALSE))
       \/ ReturnIterator("insert", insert_range(a, Own, It, a, begin(a), end(a), TRUE, TRUE))
       \/ ReturnIterator("insert", insert_range(a, Own, It, b, begin(a), end(b), FALSE, TRUE))
InsertObject ==
    \/ \E f \in begin(b) .. end(b) : \E l \in f .. end(b) :
         Change("member", insert_object(a, b, f, l, TRUE))
    \/ Change("member", insert_object(a, b, begin(a), end(b), FALSE))
Update == Change("update", update(a, b))
UpdateRange ==
    \/ \E f \in begin(b) .. end(b) : \E l \in f .. end(b) : Change("update", update_range(a, b, f, l, TRUE))
    \/ Change("update", update_range(a, b, begin(a), end(b), FALSE))

\* Whole values; a range of a is copied to b, and b was made for it.
ExchangeValues(name, x, y, id) ==
    /\ a' = x /\ b' = y /\ it' = NoIterator /\ last' = [call |-> name, threw |-> id # 0]
Swap == ExchangeValues("other", b, a, 0)
SwapContent == \E t \in {"array", "object", "string"} :
    /\ Type(b) = t
    /\ IF Type(a) = t THEN ExchangeValues("other", b, a, 0) ELSE ExchangeValues("other", a, b, 310)
Copy == ExchangeValues("other", a, a, 0)
Move == ExchangeValues("other", Null, a, 0)
Construct == \E l \in Lists : ExchangeValues("other", initializer_list(l), b, 0)
RangeConstruct == \E f \in begin(a) .. end(a) : \E l \in f .. end(a) :
    LET r == range_construct(a, f, l) IN
    ExchangeValues("other", a, IF r.error = 0 THEN r.value ELSE b, r.error)

\* Iterators.
Take == \E x \in {"a", "b"} :
    LET v == IF x = "a" THEN a ELSE b IN
    /\ \/ \E p \in {begin(v), end(v)} : it' = IteratorOf(x, p)
       \/ \E k \in KeySet : it' = IteratorOf(x, find(v, k))
    /\ last' = [call |-> "other", threw |-> FALSE]
    /\ UNCHANGED <<a, b>>
MoveIterator ==
    /\ Held
    /\ \/ It < end(Owner) /\ it' = [it EXCEPT !.pos = @ + 1] /\ last' = [call |-> "other", threw |-> FALSE]
       \/ It > begin(Owner) /\ it' = [it EXCEPT !.pos = @ - 1] /\ last' = [call |-> "other", threw |-> FALSE]
       \/ \E n \in begin(Owner) - It .. end(Owner) - It :
            LET r == operator_plus(Owner, It, n) IN
            it' = [it EXCEPT !.pos = r.value] /\ last' = [call |-> "other", threw |-> r.error # 0]
    /\ UNCHANGED <<a, b>>

ContainerNext ==
    \/ SetIndex \/ SetKey \/ EraseIterator \/ EraseRange \/ EraseKey \/ EraseIndex \/ Clear
    \/ PushBack \/ EmplaceBack \/ PushBackPair \/ PushBackList \/ Emplace
    \/ Insert \/ InsertCount \/ InsertList \/ InsertRange \/ InsertObject \/ Update \/ UpdateRange
    \/ Swap \/ SwapContent \/ Copy \/ Move \/ Construct \/ RangeConstruct \/ Take \/ MoveIterator
ContainerSpec == ContainerInit /\ [][ContainerNext]_containerVars

-----------------------------------------------------------------------------
(* Properties *)

\* What iterators over a value see, in order.
Elements(v) == [i \in 1 .. end(v) - begin(v) |-> deref(v, begin(v) + i - 1).value]
Before(v, p) == SubSeq(Elements(v), 1, p)
After(v, p) == SubSeq(Elements(v), p + 1, Len(Elements(v)))

\* A walk from begin() to end() meets size() elements and none in an empty()
\* value, whatever calls made the value; the iterator that is held is in it.
WalkVisitsSize ==
    /\ \A v \in {a, b} : Len(Elements(v)) = size(v) /\ (empty(v) <=> begin(v) = end(v))
    /\ Held => It \in begin(Owner) .. end(Owner)

\* The iterator that erase and insert return stands where the old one stood:
\* what was before it is unchanged, and erase leaves the end of what was after
\* it, insert all of it.
ReturnedIteratorPoints ==
    [][(last'.call \in {"erase", "insert"} /\ ~last'.threw /\ ~is_primitive(a)) =>
         /\ Before(a', it'.pos) = Before(a, It)
         /\ last'.call = "erase" => IsSuffix(After(a', it'.pos), After(a, It))
         /\ last'.call = "insert" => IsSuffix(After(a, It), After(a', it'.pos))]_containerVars

\* A call that throws leaves the values as they were; update() alone may have
\* made an object of null before it throws.
ThrowingChangesNothing ==
    [][last'.threw => /\ b' = b
                      /\ a' = a \/ (last'.call = "update" /\ is_null(a) /\ empty(a'))]_containerVars

\* push_back, emplace and insert of members keep the members that are there.
MembersKept ==
    [][(last'.call = "member" /\ is_object(a)) =>
         \A k \in DOMAIN Val(a) : contains(a', k) /\ Val(a')[k] = Val(a)[k]]_containerVars

\* Calls on containers keep iterators, sizes and members in step.
ContainerIsRight ==
    []WalkVisitsSize /\ ReturnedIteratorPoints /\ ThrowingChangesNothing /\ MembersKept

=============================================================================
