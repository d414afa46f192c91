----------------------------- MODULE JsonUbjson -----------------------------
(***************************************************************************)
(* UBJSON (json.hpp): write_ubjson, with and without the count and type of *)
(* the optimized containers, and parse_ubjson_internal.  The markers are   *)
(* their characters' codes.                                                *)
(***************************************************************************)
EXTENDS JsonBytes

Marker == [Z |-> 90, T |-> 84, F |-> 70, N |-> 78, U |-> 85, i |-> 105, I |-> 73, l |-> 108, L |-> 76,
           d |-> 100, D |-> 68, C |-> 67, S |-> 83, array |-> 91, arrayEnd |-> 93, object |-> 123,
           objectEnd |-> 125, type |-> 36, count |-> 35]
IntegerMarkers == {Marker.U, Marker.i, Marker.I, Marker.l, Marker.L}
MarkerWidth(c) ==
    CASE c \in {Marker.U, Marker.i} -> 1
      [] c = Marker.I -> 2
      [] c \in {Marker.l, Marker.d} -> 4
      [] c \in {Marker.L, Marker.D} -> 8

-----------------------------------------------------------------------------
(* binary_writer *)

\* 'L' also for what no marker can hold.
UnsignedMarker(n) ==
    IF AtMost(n, 127) THEN Marker.i
    ELSE IF FitsU(n, 1) THEN Marker.U
    ELSE IF FitsU(n, 2) /\ n[7] < 128 THEN Marker.I
    ELSE IF FitsU(n, 4) /\ n[5] < 128 THEN Marker.l
    ELSE Marker.L
IntegerMarker(n) ==
    IF FitsI(n, 1) THEN Marker.i
    ELSE IF FitsU(n, 1) THEN Marker.U
    ELSE IF FitsI(n, 2) THEN Marker.I
    ELSE IF FitsI(n, 4) THEN Marker.l
    ELSE Marker.L

\* write_number_with_ubjson_prefix for unsigned, signed and floating-point
\* types
WithPrefix(c, n, add_prefix) == (IF add_prefix THEN <<c>> ELSE <<>>) \o write_number(n, MarkerWidth(c))
write_unsigned(n, add_prefix) ==
    IF IsNegative(n) THEN Throw ELSE WithPrefix(UnsignedMarker(n), n, add_prefix)
write_integer(n, add_prefix) == WithPrefix(IntegerMarker(n), n, add_prefix)
write_float(n, add_prefix) == WithPrefix(Marker.D, n, add_prefix)
write_size(n) == write_unsigned(Number(n), TRUE)

ubjson_prefix(j) ==
    CASE Type(j) = "null" -> Marker.Z
      [] Type(j) = "boolean" -> IF Val(j) THEN Marker.T ELSE Marker.F
      [] Type(j) = "integer" -> IntegerMarker(Val(j))
      [] Type(j) = "unsigned" -> UnsignedMarker(Val(j))
      [] Type(j) = "float" -> Marker.D
      [] Type(j) = "string" -> Marker.S
      [] Type(j) = "array" -> Marker.array
      [] Type(j) = "object" -> Marker.object

Prefix(c, add_prefix) == IF add_prefix THEN <<c>> ELSE <<>>

write_ubjson_string(s, add_prefix) == Prefix(Marker.S, add_prefix) \o write_size(Len(s)) \o s

\* Mutant: the first item stands for all.
same_prefix_First(use_type, vs) == use_type /\ vs # <<>>
\* The items of a container need no prefix of their own.
same_prefix(use_type, vs) ==
    use_type /\ vs # <<>> /\ \A k \in DOMAIN vs : ubjson_prefix(vs[k]) = ubjson_prefix(vs[1])

\* What is between the marker of a container and its items.
UbjsonHead(use_count, use_type, vs) ==
    (IF same_prefix(use_type, vs) THEN <<Marker.type, ubjson_prefix(vs[1])>> ELSE <<>>)
    \o (IF use_count THEN <<Marker.count>> \o write_size(Len(vs)) ELSE <<>>)

RECURSIVE write_ubjson(_, _, _, _)
write_ubjson_array(vs, use_count, use_type, add_prefix) ==
    Prefix(Marker.array, add_prefix) \o UbjsonHead(use_count, use_type, vs)
    \o FlattenSeq([k \in DOMAIN vs |-> write_ubjson(vs[k], use_count, use_type, ~same_prefix(use_type, vs))])
    \o (IF use_count THEN <<>> ELSE <<Marker.arrayEnd>>)
write_ubjson_object(ms, use_count, use_type, add_prefix) ==
    LET vs == [k \in DOMAIN ms |-> ms[k][2]]
    IN  Prefix(Marker.object, add_prefix) \o UbjsonHead(use_count, use_type, vs)
        \o FlattenSeq([k \in DOMAIN ms |->
              write_size(Len(ms[k][1])) \o ms[k][1]
              \o write_ubjson(vs[k], use_count, use_type, ~same_prefix(use_type, vs))])
        \o (IF use_count THEN <<>> ELSE <<Marker.objectEnd>>)
write_ubjson(j, use_count, use_type, add_prefix) ==
    CASE Type(j) \in {"null", "boolean"} -> Prefix(ubjson_prefix(j), add_prefix)
      [] Type(j) = "integer" -> write_integer(Val(j), add_prefix)
      [] Type(j) = "unsigned" -> write_unsigned(Val(j), add_prefix)
      [] Type(j) = "float" -> write_float(Val(j), add_prefix)
      [] Type(j) = "string" -> write_ubjson_string(Val(j), add_prefix)
      [] Type(j) = "array" -> write_ubjson_array(Val(j), use_count, use_type, add_prefix)
      [] Type(j) = "object" -> write_ubjson_object(Val(j), use_count, use_type, add_prefix)

-----------------------------------------------------------------------------
(* binary_reader *)

\* The place of the next character that is not 'N'.
get_ignore_noop(b, p) ==
    CHOOSE q \in p .. Len(b) + p : get_byte(b, q) # Marker.N /\ \A k \in p .. q - 1 : get_byte(b, k) = Marker.N

\* The bytes of an integer by its marker.
Extended(c, n) == IF c = Marker.U THEN Unsigned(n) ELSE Signed(n)

\* generate_n reads nothing when the length is negative.
get_ubjson_string(b, p, c) ==
    IF c \notin IntegerMarkers THEN Fails
    ELSE Then(get_number(b, p, MarkerWidth(c)),
              LAMBDA q, n : get_string(b, q, IF IsNegative(Extended(c, n)) THEN 0 ELSE CountOf(Extended(c, n))))

get_ubjson_size_value(b, p, type) ==
    LET q == get_ignore_noop(b, p)
        c == get_byte(b, q)
    IN  IF c \notin IntegerMarkers THEN Fails
        ELSE NumberOf(b, q + 1, MarkerWidth(c), LAMBDA n : [size |-> Length(Extended(c, n)), type |-> type])

\* Size and type of a container; the current character is the one before the
\* place it yields.
get_ubjson_size_type(b, p) ==
    LET q == get_ignore_noop(b, p)
        r == get_ignore_noop(b, q + 2)
    IN  CASE get_byte(b, q) = Marker.type ->
               IF get_byte(b, q + 1) = Eof \/ get_byte(b, r) # Marker.count THEN Fails
               ELSE get_ubjson_size_value(b, r + 1, get_byte(b, q + 1))
          [] get_byte(b, q) = Marker.count -> get_ubjson_size_value(b, q + 1, 0)
          [] OTHER -> Yields(q + 1, [size |-> Indefinite, type |-> 0])

RECURSIVE get_ubjson_value(_, _, _)
parse_ubjson_internal(b, p) == LET q == get_ignore_noop(b, p) IN get_ubjson_value(b, q + 1, get_byte(b, q))

\* The next of the items: with the container's type, or a prefix of its own.
Item(b, p, type) == IF type = 0 THEN parse_ubjson_internal(b, p) ELSE get_ubjson_value(b, p, type)

RECURSIVE sized_array(_, _, _, _, _)
sized_array(b, p, n, type, s) ==
    IF n = 0 \/ type = Marker.N THEN Yields(p, Arr(s))
    ELSE Then(Item(b, p, type), LAMBDA q, v : sized_array(b, q, n - 1, type, Append(s, v)))
RECURSIVE unsized_array(_, _, _)
unsized_array(b, p, s) ==
    IF get_byte(b, p - 1) = Marker.arrayEnd THEN Yields(p, Arr(s))
    ELSE Then(get_ubjson_value(b, p, get_byte(b, p - 1)),
              LAMBDA q, v : unsized_array(b, get_ignore_noop(b, q) + 1, Append(s, v)))
get_ubjson_array(b, p) ==
    Then(get_ubjson_size_type(b, p),
         LAMBDA q, h : IF h.size = Indefinite THEN unsized_array(b, q, <<>>)
                       ELSE sized_array(b, q, h.size, h.type, <<>>))

RECURSIVE sized_object(_, _, _, _, _)
sized_object(b, p, n, type, s) ==
    IF n = 0 THEN Yields(p, Obj(s))
    ELSE Then(get_ubjson_string(b, p + 1, get_byte(b, p)),
              LAMBDA q, k : Then(Item(b, q, type), LAMBDA r, v : sized_object(b, r, n - 1, type, PutKey(s, k, v))))
RECURSIVE unsized_object(_, _, _)
unsized_object(b, p, s) ==
    IF get_byte(b, p - 1) = Marker.objectEnd THEN Yields(p, Obj(s))
    ELSE Then(get_ubjson_string(b, p, get_byte(b, p - 1)),
              LAMBDA q, k : Then(parse_ubjson_internal(b, q),
                LAMBDA r, v : unsized_object(b, get_ignore_noop(b, r) + 1, PutKey(s, k, v))))
get_ubjson_object(b, p) ==
    Then(get_ubjson_size_type(b, p),
         LAMBDA q, h : IF h.size = Indefinite THEN unsized_object(b, q, <<>>)
                       ELSE sized_object(b, q, h.size, h.type, <<>>))

get_ubjson_char(b, p) == IF get_byte(b, p) \in 0 .. 127 THEN Yields(p + 1, Str(<<get_byte(b, p)>>)) ELSE Fails

get_ubjson_value(b, p, prefix) ==
    CASE prefix = Marker.T -> Yields(p, Bool(TRUE))
      [] prefix = Marker.F -> Yields(p, Bool(FALSE))
      [] prefix = Marker.Z -> Yields(p, Null)
      [] prefix = Marker.U -> NumberOf(b, p, 1, LAMBDA n : Uns(Unsigned(n)))
      [] prefix \in IntegerMarkers \ {Marker.U} -> NumberOf(b, p, MarkerWidth(prefix), LAMBDA n : Sgn(Signed(n)))
      [] prefix \in {Marker.d, Marker.D} -> NumberOf(b, p, MarkerWidth(prefix), Float)
      [] prefix = Marker.C -> get_ubjson_char(b, p)
      [] prefix = Marker.S -> Then(get_ubjson_string(b, p + 1, get_byte(b, p)), LAMBDA q, s : Yields(q, Str(s)))
      [] prefix = Marker.array -> get_ubjson_array(b, p)
      [] prefix = Marker.object -> get_ubjson_object(b, p)
      [] OTHER -> Fails

=============================================================================
