----------------------------- MODULE JsonBytes ------------------------------
(***************************************************************************)
(* What the readers and writers of the binary JSON formats share           *)
(* (json.hpp, binary_reader and binary_writer): fixed-width numbers and    *)
(* strings as bytes.  A number_integer_t or number_unsigned_t              *)
(* is its eight bytes in two's complement, the most significant first, so  *)
(* a cast to a narrower type is its last bytes; a double is its eight      *)
(* bytes too.  A reader works on b from place p and yields the value and   *)
(* the place after it, or fails; the writers yield bytes.                  *)
(***************************************************************************)
EXTENDS JsonValue

Eof == -1

\* A byte no output has: where a writer throws.
Throw == <<256>>

-----------------------------------------------------------------------------
(* The members of an object are pairs <<key, value>> in the order of the   *)
(* keys of a std::map.                                                     *)

\* object->operator[](key) = v
PutKey(s, k, v) ==
    SelectSeq(s, LAMBDA x : KeyLess(x[1], k)) \o <<<<k, v>>>> \o SelectSeq(s, LAMBDA x : KeyLess(k, x[1]))

-----------------------------------------------------------------------------
(* Numbers *)

Filled(x, n) == [i \in 1 .. n |-> x]
\* A length or another small number.
Number(n) == Filled(0, 4) \o <<n \div 16777216, (n \div 65536) % 256, (n \div 256) % 256, n % 256>>
IsNegative(n) == n[1] >= 128
Complement(n) == [i \in DOMAIN n |-> 255 - n[i]]      \* -1 - n
Cast(n, w) == SubSeq(n, Len(n) - w + 1, Len(n))

\* n <= max of the unsigned type of w bytes; min <= n <= max of the signed one
FitsU(n, w) == \A i \in 1 .. Len(n) - w : n[i] = 0
FitsI(n, w) == \A i \in 1 .. Len(n) - w : n[i] = (IF n[Len(n) - w + 1] >= 128 THEN 255 ELSE 0)
AtMost(n, m) == FitsU(n, 1) /\ n[8] <= m

Unsigned(bytes) == Filled(0, 8 - Len(bytes)) \o bytes
Signed(bytes) == Filled(IF bytes[1] >= 128 THEN 255 ELSE 0, 8 - Len(bytes)) \o bytes

\* A count of bytes or items; what no input has is only told from the rest.
TooMany == 16777215
CountOf(n) == IF FitsU(n, 3) THEN n[8] + 256 * n[7] + 65536 * n[6] ELSE TooMany

\* The length of a container, where size_t(-1) stands for an indefinite one.
Indefinite == -1
Length(n) == IF n = Filled(255, 8) THEN Indefinite ELSE CountOf(n)

write_number(n, w) == Cast(n, w)
write_number_little(n, w) == Reverse(Cast(n, w))

-----------------------------------------------------------------------------
(* Reading *)

get_byte(b, p) == IF p <= Len(b) THEN b[p] ELSE Eof

Fails == [ok |-> FALSE]
Yields(p, v) == [ok |-> TRUE, pos |-> p, value |-> v]
Then(r, F(_, _)) == IF r.ok THEN F(r.pos, r.value) ELSE r

get_number(b, p, w) == IF p + w - 1 > Len(b) THEN Fails ELSE Yields(p + w, SubSeq(b, p, p + w - 1))
get_number_little(b, p, w) ==
    IF p + w - 1 > Len(b) THEN Fails ELSE Yields(p + w, Reverse(SubSeq(b, p, p + w - 1)))

get_string(b, p, len) ==
    IF p + len - 1 > Len(b) THEN Fails ELSE Yields(p + len, SubSeq(b, p, p + len - 1))

\* A number of w bytes passed on to the SAX handler.
NumberOf(b, p, w, S(_)) == Then(get_number(b, p, w), LAMBDA q, n : Yields(q, S(n)))

\* The double of sign s (0 or 1), exponent x and the first 23 bits m of the
\* mantissa.
DoubleBytes(s, x, m) ==
    <<s * 128 + x \div 16, (x % 16) * 16 + m \div 2^19, (m \div 2^11) % 256, (m \div 8) % 256, (m % 8) * 32, 0, 0, 0>>
\* The double of the number m * 2^x, for m < 2^24.
Scaled(s, m, x) ==
    IF m = 0 THEN DoubleBytes(s, 0, 0)
    ELSE LET k == CHOOSE l \in 0 .. 23 : 2^l <= m /\ m < 2^(l + 1)
         IN  DoubleBytes(s, x + k + 1023, (m - 2^k) * 2^(23 - k))
\* A number whose exponent has its top bits set: infinity, or not a number.
Infinite(s, m) == DoubleBytes(s, 2047, IF m = 0 THEN 0 ELSE 2^22)

\* The conversion of a float of four bytes; eight are a double already.
Float(n) ==
    LET sign == n[1] \div 128
        exp == (n[1] % 128) * 2 + n[2] \div 128
        mant == (n[2] % 128) * 2^16 + n[3] * 2^8 + n[4]
    IN  CASE Len(n) = 8 -> Flt(n)
          [] exp = 255 -> Flt(Infinite(sign, mant))
          [] exp = 0 -> Flt(Scaled(sign, mant, -149))
          [] OTHER -> Flt(Scaled(sign, mant + 2^23, exp - 150))

=============================================================================
