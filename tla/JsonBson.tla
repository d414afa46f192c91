------------------------------ MODULE JsonBson ------------------------------
(***************************************************************************)
(* BSON (json.hpp): write_bson, which computes the size of every document  *)
(* before it writes it, and parse_bson_internal.                           *)
(***************************************************************************)
EXTENDS JsonBytes

-----------------------------------------------------------------------------
(* binary_writer: sizes *)

Total(s) == FoldLeft(LAMBDA x, y : x + y, 0, s)

\* std::to_string of an array index
index_string(n) ==
    LET F[k \in 0 .. n] == IF k < 10 THEN <<48 + k>> ELSE F[k \div 10] \o <<48 + (k % 10)>>
    IN  F[n]

calc_bson_entry_header_size(name) == 1 + Len(name) + 1
calc_bson_string_size(s) == 4 + Len(s) + 1
calc_bson_integer_size(n) == IF FitsI(n, 4) THEN 4 ELSE 8
calc_bson_unsigned_size(n) == IF FitsU(n, 4) /\ n[5] < 128 THEN 4 ELSE 8

RECURSIVE calc_bson_element_size(_, _)
calc_bson_array_size(vs) == 4 + Total([k \in DOMAIN vs |-> calc_bson_element_size(index_string(k - 1), vs[k])]) + 1
calc_bson_object_size(ms) == 4 + Total([k \in DOMAIN ms |-> calc_bson_element_size(ms[k][1], ms[k][2])]) + 1
calc_bson_element_size(name, j) ==
    calc_bson_entry_header_size(name)
    + (CASE Type(j) = "object" -> calc_bson_object_size(Val(j))
         [] Type(j) = "array" -> calc_bson_array_size(Val(j))
         [] Type(j) = "boolean" -> 1
         [] Type(j) = "float" -> 8
         [] Type(j) = "integer" -> calc_bson_integer_size(Val(j))
         [] Type(j) = "unsigned" -> calc_bson_unsigned_size(Val(j))
         [] Type(j) = "string" -> calc_bson_string_size(Val(j))
         [] Type(j) = "null" -> 0)

-----------------------------------------------------------------------------
(* binary_writer: bytes *)

write_bson_entry_header(name, type) ==
    IF \E k \in DOMAIN name : name[k] = 0 THEN Throw ELSE <<type>> \o name \o <<0>>
write_bson_boolean(name, v) == write_bson_entry_header(name, 8) \o (IF v THEN <<1>> ELSE <<0>>)
write_bson_double(name, v) == write_bson_entry_header(name, 1) \o write_number_little(v, 8)
write_bson_string(name, v) ==
    write_bson_entry_header(name, 2) \o write_number_little(Number(Len(v) + 1), 4) \o v \o <<0>>
write_bson_null(name) == write_bson_entry_header(name, 10)
write_bson_integer(name, v) ==
    IF FitsI(v, 4) THEN write_bson_entry_header(name, 16) \o write_number_little(v, 4)
    ELSE write_bson_entry_header(name, 18) \o write_number_little(v, 8)
write_bson_unsigned(name, v) ==
    IF FitsU(v, 4) /\ v[5] < 128 THEN write_bson_entry_header(name, 16) \o write_number_little(v, 4)
    ELSE IF ~IsNegative(v) THEN write_bson_entry_header(name, 18) \o write_number_little(v, 8)
    ELSE Throw

RECURSIVE write_bson_element(_, _)
write_bson_object(ms) ==
    write_number_little(Number(calc_bson_object_size(ms)), 4)
    \o FlattenSeq([k \in DOMAIN ms |-> write_bson_element(ms[k][1], ms[k][2])]) \o <<0>>
write_bson_object_entry(name, ms) == write_bson_entry_header(name, 3) \o write_bson_object(ms)
write_bson_array(name, vs) ==
    write_bson_entry_header(name, 4) \o write_number_little(Number(calc_bson_array_size(vs)), 4)
    \o FlattenSeq([k \in DOMAIN vs |-> write_bson_element(index_string(k - 1), vs[k])]) \o <<0>>
write_bson_element(name, j) ==
    CASE Type(j) = "object" -> write_bson_object_entry(name, Val(j))
      [] Type(j) = "array" -> write_bson_array(name, Val(j))
      [] Type(j) = "boolean" -> write_bson_boolean(name, Val(j))
      [] Type(j) = "float" -> write_bson_double(name, Val(j))
      [] Type(j) = "integer" -> write_bson_integer(name, Val(j))
      [] Type(j) = "unsigned" -> write_bson_unsigned(name, Val(j))
      [] Type(j) = "string" -> write_bson_string(name, Val(j))
      [] Type(j) = "null" -> write_bson_null(name)

write_bson(j) == IF Type(j) = "object" THEN write_bson_object(Val(j)) ELSE Throw

-----------------------------------------------------------------------------
(* binary_reader *)

get_bson_cstr(b, p) ==
    LET ends == {q \in p .. Len(b) : b[q] = 0}
        q == CHOOSE q \in ends : \A r \in ends : q <= r
    IN  IF ends = {} THEN Fails ELSE Yields(q + 1, SubSeq(b, p, q - 1))

\* The terminator is read, whatever it is.
get_bson_string(b, p, n) ==
    IF IsNegative(Signed(n)) \/ CountOf(Signed(n)) < 1 THEN Fails
    ELSE Then(get_string(b, p, CountOf(Signed(n)) - 1),
              LAMBDA q, s : IF get_byte(b, q) = Eof THEN Fails ELSE Yields(q + 1, Str(s)))

Integer(b, p, w) == Then(get_number_little(b, p, w), LAMBDA q, n : Yields(q, Sgn(Signed(n))))

\* The size of a document is read and not used.
RECURSIVE parse_bson_element_list(_, _, _, _)
parse_bson_document(b, p, in_array) ==
    Then(get_number_little(b, p, 4), LAMBDA q, total : parse_bson_element_list(b, q, in_array, <<>>))

parse_bson_element(b, p, type) ==
    CASE type = 1 -> Then(get_number_little(b, p, 8), LAMBDA q, n : Yields(q, Flt(n)))
      [] type = 2 -> Then(get_number_little(b, p, 4), LAMBDA q, n : get_bson_string(b, q, n))
      [] type = 3 -> parse_bson_document(b, p, FALSE)
      [] type = 4 -> parse_bson_document(b, p, TRUE)
      [] type = 8 -> Yields(p + 1, Bool(get_byte(b, p) # 0))
      [] type = 10 -> Yields(p, Null)
      [] type = 16 -> Integer(b, p, 4)
      [] type = 18 -> Integer(b, p, 8)
      [] OTHER -> Fails

parse_bson_element_list(b, p, in_array, s) ==
    IF get_byte(b, p) = 0 THEN Yields(p + 1, IF in_array THEN Arr(s) ELSE Obj(s))
    ELSE IF get_byte(b, p) = Eof THEN Fails
    ELSE Then(get_bson_cstr(b, p + 1),
              LAMBDA q, k : Then(parse_bson_element(b, q, b[p]),
                LAMBDA r, v : parse_bson_element_list(b, r, in_array,
                                IF in_array THEN Append(s, v) ELSE PutKey(s, k, v))))

parse_bson_internal(b) == parse_bson_document(b, 1, FALSE)

=============================================================================
