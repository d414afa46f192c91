----------------------------- MODULE JsonCbor -------------------------------
(* CBOR (json.hpp): write_cbor and parse_cbor_internal. *)
EXTENDS JsonBytes

-----------------------------------------------------------------------------
(* binary_writer *)

\* 0x00 + n, or 0x18 .. 0x1B with n in 1, 2, 4 or 8 bytes after it; base is
\* the major type of the item.
Head5(base, n) ==
    IF AtMost(n, 23) THEN <<base + n[8]>>
    ELSE IF FitsU(n, 1) THEN <<base + 24>> \o write_number(n, 1)
    ELSE IF FitsU(n, 2) THEN <<base + 25>> \o write_number(n, 2)
    ELSE IF FitsU(n, 4) THEN <<base + 26>> \o write_number(n, 4)
    ELSE <<base + 27>> \o write_number(n, 8)

write_cbor_unsigned(n) == Head5(0, n)
write_cbor_integer(n) == IF ~IsNegative(n) THEN Head5(0, n) ELSE Head5(32, Complement(n))
write_cbor_string(s) == Head5(96, Number(Len(s))) \o s
write_cbor_float(n) == <<251>> \o write_number(n, 8)

RECURSIVE write_cbor(_)
write_cbor_array(s) == Head5(128, Number(Len(s))) \o FlattenSeq([i \in DOMAIN s |-> write_cbor(s[i])])
write_cbor_object(s) ==
    Head5(160, Number(Len(s))) \o FlattenSeq([i \in DOMAIN s |-> write_cbor_string(s[i][1]) \o write_cbor(s[i][2])])
write_cbor(j) ==
    CASE Type(j) = "null" -> <<246>>
      [] Type(j) = "boolean" -> IF Val(j) THEN <<245>> ELSE <<244>>
      [] Type(j) = "integer" -> write_cbor_integer(Val(j))
      [] Type(j) = "unsigned" -> write_cbor_unsigned(Val(j))
      [] Type(j) = "float" -> write_cbor_float(Val(j))
      [] Type(j) = "string" -> write_cbor_string(Val(j))
      [] Type(j) = "array" -> write_cbor_array(Val(j))
      [] Type(j) = "object" -> write_cbor_object(Val(j))

-----------------------------------------------------------------------------
(* binary_reader *)

Widths == <<1, 2, 4, 8>>

\* The unsigned argument after a first byte c: 0 .. 23 in c itself, or in the
\* bytes after 24 .. 27.
Argument(b, p, c) ==
    IF c % 32 <= 23 THEN Yields(p, Number(c % 32))
    ELSE Then(get_number(b, p, Widths[(c % 32) - 23]), LAMBDA q, n : Yields(q, Unsigned(n)))
HasArgument(c, base) == c \in base .. base + 27

parse_cbor_unsigned(b, p, c) == Then(Argument(b, p, c), LAMBDA q, n : Yields(q, Uns(n)))
\* -1 - n in number_integer_t, to which eight bytes are cast before.
parse_cbor_negative(b, p, c) == Then(Argument(b, p, c), LAMBDA q, n : Yields(q, Sgn(Complement(n))))

\* The double of a half-precision number.
half(h) ==
    LET sign == h[1] \div 128
        exp == (h[1] \div 4) % 32
        mant == (h[1] % 4) * 256 + h[2]
    IN  CASE exp = 0 -> Flt(Scaled(sign, mant, -24))
          [] exp = 31 -> Flt(Infinite(sign, mant))
          [] OTHER -> Flt(Scaled(sign, mant + 1024, exp - 25))

parse_cbor_float(b, p, c) ==
    IF c = 249 THEN NumberOf(b, p, 2, half) ELSE NumberOf(b, p, IF c = 250 THEN 4 ELSE 8, Float)

\* The string at p; c is the character before it.  Chunks until 0xFF when the
\* length is indefinite.
RECURSIVE get_cbor_string(_, _, _)
RECURSIVE cbor_chunks(_, _, _)
get_cbor_string(b, p, c) ==
    IF HasArgument(c, 96) THEN Then(Argument(b, p, c), LAMBDA q, n : get_string(b, q, CountOf(n)))
    ELSE IF c = 127 THEN cbor_chunks(b, p, <<>>)
    ELSE Fails
cbor_chunks(b, p, s) ==
    IF get_byte(b, p) = 255 THEN Yields(p + 1, s)
    ELSE Then(get_cbor_string(b, p + 1, get_byte(b, p)), LAMBDA q, chunk : cbor_chunks(b, q, s \o chunk))

\* n more items, or items until 0xFF.
RECURSIVE parse_cbor(_, _, _)
RECURSIVE get_cbor_array(_, _, _, _)
RECURSIVE get_cbor_object(_, _, _, _)
get_cbor_array(b, p, n, s) ==
    IF n = 0 THEN Yields(p, Arr(s))
    ELSE IF n = Indefinite /\ get_byte(b, p) = 255 THEN Yields(p + 1, Arr(s))
    ELSE Then(parse_cbor(b, p + 1, get_byte(b, p)),
              LAMBDA q, v : get_cbor_array(b, q, IF n = Indefinite THEN n ELSE n - 1, Append(s, v)))
get_cbor_object(b, p, n, s) ==
    IF n = 0 THEN Yields(p, Obj(s))
    ELSE IF n = Indefinite /\ get_byte(b, p) = 255 THEN Yields(p + 1, Obj(s))
    ELSE Then(get_cbor_string(b, p + 1, get_byte(b, p)),
              LAMBDA q, k : Then(parse_cbor(b, q + 1, get_byte(b, q)),
                LAMBDA r, v : get_cbor_object(b, r, IF n = Indefinite THEN n ELSE n - 1, PutKey(s, k, v))))

\* c is the first byte of the value, p the place after it.
parse_cbor(b, p, c) ==
    CASE HasArgument(c, 0) -> parse_cbor_unsigned(b, p, c)
      [] HasArgument(c, 32) -> parse_cbor_negative(b, p, c)
      [] HasArgument(c, 96) \/ c = 127 -> Then(get_cbor_string(b, p, c), LAMBDA q, s : Yields(q, Str(s)))
      [] HasArgument(c, 128) -> Then(Argument(b, p, c), LAMBDA q, n : get_cbor_array(b, q, Length(n), <<>>))
      [] c = 159 -> get_cbor_array(b, p, Indefinite, <<>>)
      [] HasArgument(c, 160) -> Then(Argument(b, p, c), LAMBDA q, n : get_cbor_object(b, q, Length(n), <<>>))
      [] c = 191 -> get_cbor_object(b, p, Indefinite, <<>>)
      [] c = 244 -> Yields(p, Bool(FALSE))
      [] c = 245 -> Yields(p, Bool(TRUE))
      [] c = 246 -> Yields(p, Null)
      [] c \in 249 .. 251 -> parse_cbor_float(b, p, c)
      [] OTHER -> Fails

parse_cbor_internal(b) == parse_cbor(b, 2, get_byte(b, 1))

=============================================================================
