---------------------------- MODULE JsonMsgPack -----------------------------
(* MessagePack (json.hpp): write_msgpack and parse_msgpack_internal. *)
EXTENDS JsonBytes

-----------------------------------------------------------------------------
(* binary_writer *)

write_msgpack_unsigned(n) ==
    IF AtMost(n, 127) THEN write_number(n, 1)
    ELSE IF FitsU(n, 1) THEN <<204>> \o write_number(n, 1)
    ELSE IF FitsU(n, 2) THEN <<205>> \o write_number(n, 2)
    ELSE IF FitsU(n, 4) THEN <<206>> \o write_number(n, 4)
    ELSE <<207>> \o write_number(n, 8)

write_msgpack_negative(n) ==
    IF AtMost(Complement(n), 31) THEN write_number(n, 1)
    ELSE IF FitsI(n, 1) THEN <<208>> \o write_number(n, 1)
    ELSE IF FitsI(n, 2) THEN <<209>> \o write_number(n, 2)
    ELSE IF FitsI(n, 4) THEN <<210>> \o write_number(n, 4)
    ELSE <<211>> \o write_number(n, 8)
write_msgpack_integer(n) == IF ~IsNegative(n) THEN write_msgpack_unsigned(n) ELSE write_msgpack_negative(n)

write_msgpack_float(n) == <<203>> \o write_number(n, 8)

write_msgpack_string(s) ==
    LET N == Number(Len(s))
    IN  (IF AtMost(N, 31) THEN <<160 + Len(s)>>
         ELSE IF FitsU(N, 1) THEN <<217>> \o write_number(N, 1)
         ELSE IF FitsU(N, 2) THEN <<218>> \o write_number(N, 2)
         ELSE <<219>> \o write_number(N, 4)) \o s

\* The head of a container with n items: short, 16 or 32 bits.
MsgPackHead(n, short, first) ==
    LET N == Number(n)
    IN  IF n <= 15 THEN <<short + n>>
        ELSE IF FitsU(N, 2) THEN <<first>> \o write_number(N, 2)
        ELSE <<first + 1>> \o write_number(N, 4)

RECURSIVE write_msgpack(_)
write_msgpack_array(s) == MsgPackHead(Len(s), 144, 220) \o FlattenSeq([i \in DOMAIN s |-> write_msgpack(s[i])])
write_msgpack_object(s) ==
    MsgPackHead(Len(s), 128, 222)
    \o FlattenSeq([i \in DOMAIN s |-> write_msgpack_string(s[i][1]) \o write_msgpack(s[i][2])])
write_msgpack(j) ==
    CASE Type(j) = "null" -> <<192>>
      [] Type(j) = "boolean" -> IF Val(j) THEN <<195>> ELSE <<194>>
      [] Type(j) = "integer" -> write_msgpack_integer(Val(j))
      [] Type(j) = "unsigned" -> write_msgpack_unsigned(Val(j))
      [] Type(j) = "float" -> write_msgpack_float(Val(j))
      [] Type(j) = "string" -> write_msgpack_string(Val(j))
      [] Type(j) = "array" -> write_msgpack_array(Val(j))
      [] Type(j) = "object" -> write_msgpack_object(Val(j))

-----------------------------------------------------------------------------
(* binary_reader *)

Count16or32(b, p, wide) ==
    Then(get_number(b, p, IF wide THEN 4 ELSE 2), LAMBDA q, n : Yields(q, CountOf(Unsigned(n))))

StringStart == (160 .. 191) \cup {217, 218, 219}
get_msgpack_string(b, p, c) ==
    CASE c \in 160 .. 191 -> get_string(b, p, c % 32)
      [] c = 217 -> Then(get_number(b, p, 1), LAMBDA q, n : get_string(b, q, n[1]))
      [] c \in {218, 219} -> Then(Count16or32(b, p, c = 219), LAMBDA q, n : get_string(b, q, n))
      [] OTHER -> Fails

RECURSIVE parse_msgpack(_, _, _)
RECURSIVE get_msgpack_array(_, _, _, _)
RECURSIVE get_msgpack_object(_, _, _, _)
get_msgpack_array(b, p, n, s) ==
    IF n = 0 THEN Yields(p, Arr(s))
    ELSE Then(parse_msgpack(b, p + 1, get_byte(b, p)), LAMBDA q, v : get_msgpack_array(b, q, n - 1, Append(s, v)))
get_msgpack_object(b, p, n, s) ==
    IF n = 0 THEN Yields(p, Obj(s))
    ELSE Then(get_msgpack_string(b, p + 1, get_byte(b, p)),
              LAMBDA q, k : Then(parse_msgpack(b, q + 1, get_byte(b, q)),
                LAMBDA r, v : get_msgpack_object(b, r, n - 1, PutKey(s, k, v))))

FixInt == 0 .. 127
FixMap == 128 .. 143
FixArray == 144 .. 159
NegativeFixInt == 224 .. 255

\* The numbers after the first bytes 0xCA .. 0xD3.
Wide == <<4, 8, 1, 2, 4, 8, 1, 2, 4, 8>>
parse_msgpack_number(b, p, c) ==
    NumberOf(b, p, Wide[c - 201], LAMBDA n : CASE c <= 203 -> Float(n)
                                               [] c \in 204 .. 207 -> Uns(Unsigned(n))
                                               [] OTHER -> Sgn(Signed(n)))

parse_msgpack(b, p, c) ==
    CASE c \in FixInt -> Yields(p, Uns(Number(c)))
      [] c \in FixMap -> get_msgpack_object(b, p, c % 16, <<>>)
      [] c \in FixArray -> get_msgpack_array(b, p, c % 16, <<>>)
      [] c \in StringStart -> Then(get_msgpack_string(b, p, c), LAMBDA q, s : Yields(q, Str(s)))
      [] c = 192 -> Yields(p, Null)
      [] c = 194 -> Yields(p, Bool(FALSE))
      [] c = 195 -> Yields(p, Bool(TRUE))
      [] c \in 202 .. 211 -> parse_msgpack_number(b, p, c)
      [] c \in {220, 221} -> Then(Count16or32(b, p, c = 221), LAMBDA q, n : get_msgpack_array(b, q, n, <<>>))
      [] c \in {222, 223} -> Then(Count16or32(b, p, c = 223), LAMBDA q, n : get_msgpack_object(b, q, n, <<>>))
      [] c \in NegativeFixInt -> Yields(p, Sgn(Signed(<<c>>)))
      [] OTHER -> Fails

parse_msgpack_internal(b) == parse_msgpack(b, 2, get_byte(b, 1))

=============================================================================
