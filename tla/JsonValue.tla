----------------------------- MODULE JsonValue ------------------------------
(***************************************************************************)
(* The JSON value of json.hpp (class basic_json) and the calls that read   *)
(* and change it.  A value is a pair of its type and its content: strings  *)
(* are sequences of bytes, arrays sequences of values, objects functions   *)
(* from strings to values.  A call returns the value it leaves behind and  *)
(* the identifier of the exception it throws, 0 for none.                  *)
(***************************************************************************)
EXTENDS Integers, Sequences, FiniteSets, SequencesExt

CONSTANTS
    Half,       \* 2^(w-1) for integers of w bits
    Exact       \* a floating-point number holds every integer up to this one

ASSUME WidthAssumption == Half \in Nat \ {0} /\ Exact \in 1 .. Half

Null == <<"null", <<>>>>
Bool(b) == <<"boolean", b>>
Sgn(n) == <<"integer", n>>
Uns(n) == <<"unsigned", n>>
Flt(n) == <<"float", n>>
Str(s) == <<"string", s>>
Arr(s) == <<"array", s>>
Obj(f) == <<"object", f>>
NoMembers == [k \in {} |-> Null]

Type(v) == v[1]
Val(v) == v[2]
is_array(v) == Type(v) = "array"
is_object(v) == Type(v) = "object"
is_null(v) == Type(v) = "null"
is_primitive(v) == Type(v) \notin {"array", "object"}
Numeric == {"integer", "unsigned", "float"}

Returns(v) == [value |-> v, error |-> 0]
Throws(v, id) == [value |-> v, error |-> id]

-----------------------------------------------------------------------------
(* Comparison *)

TypeOrder == [null |-> 0, boolean |-> 1, integer |-> 2, unsigned |-> 2, float |-> 2,
              object |-> 3, array |-> 4, string |-> 5]

\* A conversion to the signed type wraps, one to a floating-point number goes
\* to the nearest (of two the even one).
AsSigned(n) == IF n >= Half THEN n - 2 * Half ELSE n
AsFloat(n) ==
    IF n \in -Exact .. Exact \/ n % 2 = 0 THEN n
    ELSE IF (n - 1) % 4 = 0 THEN n - 1 ELSE n + 1

\* Lexicographic order of sequences under an order of their items.
Lexicographic(s, t, Less(_, _)) ==
    \E k \in 1 .. Len(t) :
       /\ \A i \in 1 .. k - 1 : i <= Len(s) /\ ~Less(s[i], t[i]) /\ ~Less(t[i], s[i])
       /\ k > Len(s) \/ Less(s[k], t[k])
KeyLess(s, t) == Lexicographic(s, t, LAMBDA x, y : x < y)

\* The elements of a set in order, and the members of an object in that of the
\* map.
InOrder(S, Less(_, _)) ==
    [i \in 1 .. Cardinality(S) |-> CHOOSE x \in S : Cardinality({y \in S : Less(y, x)}) = i - 1]
Keys(v) == InOrder(DOMAIN Val(v), KeyLess)

RECURSIVE operator_eq(_, _)
operator_eq(v, w) ==
    IF {Type(v), Type(w)} \subseteq Numeric
    THEN IF Type(v) = Type(w) THEN Val(v) = Val(w)
         ELSE IF {Type(v), Type(w)} = {"integer", "unsigned"} THEN AsSigned(Val(v)) = AsSigned(Val(w))
         ELSE AsFloat(Val(v)) = AsFloat(Val(w))
    ELSE IF Type(v) # Type(w) THEN FALSE
    ELSE IF is_array(v) THEN /\ Len(Val(v)) = Len(Val(w))
                             /\ \A i \in DOMAIN Val(v) : operator_eq(Val(v)[i], Val(w)[i])
    ELSE IF is_object(v) THEN /\ DOMAIN Val(v) = DOMAIN Val(w)
                              /\ \A k \in DOMAIN Val(v) : operator_eq(Val(v)[k], Val(w)[k])
    ELSE v = w

\* Mutant: numbers of different types are ordered by their types.
RECURSIVE operator_lt_Types(_, _)
operator_lt_Types(v, w) ==
    IF Type(v) # Type(w) THEN TypeOrder[Type(v)] < TypeOrder[Type(w)]
    ELSE CASE Type(v) \in Numeric -> Val(v) < Val(w)
           [] Type(v) = "array" -> Lexicographic(Val(v), Val(w), operator_lt_Types)
           [] OTHER -> FALSE
RECURSIVE operator_lt(_, _)
operator_lt(v, w) ==
    IF {Type(v), Type(w)} \subseteq Numeric
    THEN IF Type(v) = Type(w) THEN Val(v) < Val(w)
         ELSE IF {Type(v), Type(w)} = {"integer", "unsigned"} THEN AsSigned(Val(v)) < AsSigned(Val(w))
         ELSE AsFloat(Val(v)) < AsFloat(Val(w))
    ELSE IF Type(v) # Type(w) THEN TypeOrder[Type(v)] < TypeOrder[Type(w)]
    ELSE CASE Type(v) = "array" -> Lexicographic(Val(v), Val(w), operator_lt)
           [] Type(v) = "object" ->
                LET Members(x) == [i \in 1 .. Len(Keys(x)) |-> <<Keys(x)[i], Val(x)[Keys(x)[i]]>>]
                IN  Lexicographic(Members(v), Members(w),
                                  LAMBDA p, q : KeyLess(p[1], q[1])
                                                \/ (p[1] = q[1] /\ operator_lt(p[2], q[2])))
           [] Type(v) = "string" -> KeyLess(Val(v), Val(w))
           [] Type(v) = "boolean" -> ~Val(v) /\ Val(w)
           [] OTHER -> FALSE

-----------------------------------------------------------------------------
(* Capacity and lookup *)

size(v) == CASE is_null(v) -> 0
             [] is_array(v) -> Len(Val(v))
             [] is_object(v) -> Cardinality(DOMAIN Val(v))
             [] OTHER -> 1
empty(v) == CASE is_null(v) -> TRUE
              [] is_array(v) -> Val(v) = <<>>
              [] is_object(v) -> DOMAIN Val(v) = {}
              [] OTHER -> FALSE
contains(v, k) == is_object(v) /\ k \in DOMAIN Val(v)

at_index(v, i) == IF ~is_array(v) THEN Throws(v, 304)
                  ELSE IF i \in 0 .. Len(Val(v)) - 1 THEN Returns(Val(v)[i + 1]) ELSE Throws(v, 401)
at_key(v, k) == IF ~is_object(v) THEN Throws(v, 304)
                ELSE IF k \in DOMAIN Val(v) THEN Returns(Val(v)[k]) ELSE Throws(v, 403)
value(v, k, default) == IF ~is_object(v) THEN Throws(default, 306)
                        ELSE Returns(IF contains(v, k) THEN Val(v)[k] ELSE default)

\* An object with a member set, and without some.
With(f, k, x) == [m \in DOMAIN f \cup {k} |-> IF m = k THEN x ELSE f[m]]
Without(f, ks) == [m \in DOMAIN f \ ks |-> f[m]]
Nulls(n) == [i \in 1 .. n |-> Null]

\* The value after operator[] has made room for the element.
operator_index(v, i) ==
    LET s == IF is_null(v) THEN <<>> ELSE Val(v) IN
    IF ~is_null(v) /\ ~is_array(v) THEN Throws(v, 305)
    ELSE Returns(Arr(IF i >= Len(s) THEN s \o Nulls(i - Len(s) + 1) ELSE s))
operator_key(v, k) ==
    LET f == IF is_null(v) THEN NoMembers ELSE Val(v) IN
    IF ~is_null(v) /\ ~is_object(v) THEN Throws(v, 305)
    ELSE Returns(Obj(IF k \in DOMAIN f THEN f ELSE With(f, k, Null)))

-----------------------------------------------------------------------------
(* Iterators are positions: those of a primitive value go from 0 to 1 and null
   has its end only. *)

begin(v) == IF is_null(v) THEN 1 ELSE 0
end(v) == IF is_primitive(v) THEN 1 ELSE size(v)
deref(v, p) == CASE is_array(v) -> Returns(Val(v)[p + 1])
                 [] is_object(v) -> Returns(Val(v)[Keys(v)[p + 1]])
                 [] is_null(v) -> Throws(v, 214)
                 [] OTHER -> IF p = begin(v) THEN Returns(v) ELSE Throws(v, 214)
key(v, p) == Keys(v)[p + 1]
operator_plus(v, p, n) == IF is_object(v) THEN Throws(p, 209) ELSE Returns(p + n)
find(v, k) == IF contains(v, k) THEN (CHOOSE i \in DOMAIN Keys(v) : Keys(v)[i] = k) - 1 ELSE end(v)

=============================================================================
