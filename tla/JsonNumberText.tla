--------------------------- MODULE JsonNumberText ---------------------------
(***************************************************************************)
(* Writing numbers as text (json.hpp: serializer::dump_integer and         *)
(* dump_float, dtoa_impl::format_buffer).  One serializer writes all the   *)
(* numbers of a value through one number_buffer, which is never cleared.   *)
(* The shortest digits of a floating-point number, and the power of ten    *)
(* they are multiplied by, are what grisu2 found.                          *)
(***************************************************************************)
EXTENDS Integers, Sequences, SequencesExt

CONSTANTS
    NumberHalf,         \* 2^(w-1) for integers of w bits
    Numbers,          \* the integers written, signed and unsigned
    Floats,             \* [finite, negative, digits, exponent]; no digits for zero
    NumberBufferSize,   \* of number_buffer
    kMinExp, kMaxExp,   \* between them a number is written without exponent
    MaxCalls            \* numbers written by one serializer

ASSUME NumberAssumption ==
    /\ NumberHalf \in Nat \ {0} /\ Numbers \subseteq -NumberHalf .. 2 * NumberHalf - 1
    /\ kMinExp < 0 /\ kMaxExp > 0

VARIABLES number_buffer,    \* as far as it was ever written
          number,           \* the last number written
          numberText,       \* its text
          calls

numberVars == <<number_buffer, number, numberText, calls>>

ZeroChar == "0"
DigitChars == <<"0", "1", "2", "3", "4", "5", "6", "7", "8", "9">>
DigitChar(n) == DigitChars[n + 1]
CharValue(d) == (CHOOSE n \in 1 .. 10 : DigitChars[n] = d) - 1

\* The buffer after the characters t were put at position p (from 0).
PutText(buf, p, t) ==
    [k \in 1 .. (IF p + Len(t) > Len(buf) THEN p + Len(t) ELSE Len(buf)) |->
        IF k > p /\ k <= p + Len(t) THEN t[k - p] ELSE IF k <= Len(buf) THEN buf[k] ELSE "zero"]
memset(buf, p, n) == PutText(buf, p, [k \in 1 .. n |-> "0"])
memmove(buf, to, from, n) == PutText(buf, to, SubSeq(buf, from + 1, from + n))

-----------------------------------------------------------------------------
(* dump_integer *)

RECURSIVE count_digits(_)
\* Mutant: 10000 has four digits.
count_digits_AtMost(x) ==
    IF x < 10 THEN 1 ELSE IF x < 100 THEN 2 ELSE IF x < 1000 THEN 3 ELSE IF x <= 10000 THEN 4
    ELSE 4 + count_digits(x \div 10000)
count_digits(x) ==
    IF x < 10 THEN 1 ELSE IF x < 100 THEN 2 ELSE IF x < 1000 THEN 3 ELSE IF x < 10000 THEN 4
    ELSE 4 + count_digits(x \div 10000)

digits_to_99(n) == <<DigitChar(n \div 10), DigitChar(n % 10)>>
\* The digits of x, written in front of position p.
RECURSIVE FillBackward(_, _, _)
FillBackward(buf, p, x) ==
    IF x >= 100 THEN FillBackward(PutText(buf, p - 2, digits_to_99(x % 100)), p - 2, x \div 100)
    ELSE IF x >= 10 THEN PutText(buf, p - 2, digits_to_99(x))
    ELSE PutText(buf, p - 1, <<DigitChar(x)>>)
\* The absolute value of the least signed number overflows; converted to the
\* unsigned type it is what it should be.
abs_value(x) == IF x = -NumberHalf THEN -NumberHalf + 2 * NumberHalf ELSE IF x < 0 THEN -x ELSE x

dump_integer(buf, x) ==
    IF x = 0 THEN [buffer |-> buf, text |-> <<ZeroChar>>]
    ELSE LET n_chars == count_digits(abs_value(x)) + (IF x < 0 THEN 1 ELSE 0)
             signed == IF x < 0 THEN PutText(buf, 0, <<"-">>) ELSE buf
             filled == FillBackward(signed, n_chars, abs_value(x))
         IN  [buffer |-> filled, text |-> SubSeq(filled, 1, n_chars)]

-----------------------------------------------------------------------------
(* dump_float *)

append_exponent(e) ==
    LET k == IF e < 0 THEN -e ELSE e IN
    <<IF e < 0 THEN "-" ELSE "+">>
    \o IF k < 100 THEN digits_to_99(k) ELSE <<DigitChar(k \div 100)>> \o digits_to_99(k % 100)

\* The buffer holds k digits from position p on: where the text ends.
format_buffer(buf, p, k, decimal_exponent) ==
    LET n == k + decimal_exponent IN
    IF k <= n /\ n <= kMaxExp
    THEN [buffer |-> PutText(memset(buf, p + k, n - k), p + n, <<".", ZeroChar>>), end |-> p + n + 2]
    ELSE IF 0 < n /\ n <= kMaxExp
    THEN [buffer |-> PutText(memmove(buf, p + n + 1, p + n, k - n), p + n, <<".">>), end |-> p + k + 1]
    ELSE IF kMinExp < n /\ n <= 0
    THEN [buffer |-> memset(PutText(memmove(buf, p + 2 - n, p, k), p, <<ZeroChar, ".">>), p + 2, -n), end |-> p + 2 - n + k]
    ELSE LET moved == IF k = 1 THEN buf ELSE PutText(memmove(buf, p + 2, p + 1, k - 1), p + 1, <<".">>)
             mantissa == IF k = 1 THEN p + 1 ELSE p + 1 + k
             exponent == <<"e">> \o append_exponent(n - 1)
         IN  [buffer |-> PutText(moved, mantissa, exponent), end |-> mantissa + Len(exponent)]

to_chars(buf, x) ==
    LET p == IF x.negative THEN 1 ELSE 0
        signed == IF x.negative THEN PutText(buf, 0, <<"-">>) ELSE buf
    IN  IF x.digits = <<>> THEN [buffer |-> PutText(signed, p, <<ZeroChar, ".", ZeroChar>>), end |-> p + 3]
        ELSE format_buffer(PutText(signed, p, x.digits), p, Len(x.digits), x.exponent)

dump_float(buf, x) ==
    IF ~x.finite THEN [buffer |-> buf, text |-> <<"null">>]
    ELSE LET r == to_chars(buf, x) IN [buffer |-> r.buffer, text |-> SubSeq(r.buffer, 1, r.end)]

-----------------------------------------------------------------------------
NumberInit == number_buffer = <<>> /\ number = <<"integer", 0>> /\ numberText = <<ZeroChar>> /\ calls = 0

WriteDigits(n, r) ==
    /\ calls < MaxCalls /\ calls' = calls + 1
    /\ number' = n /\ numberText' = r.text /\ number_buffer' = r.buffer
DumpInteger(x) == WriteDigits(<<"integer", x>>, dump_integer(number_buffer, x))
DumpFloat(x) == WriteDigits(<<"float", x>>, dump_float(number_buffer, x))

NumberNext == (\E x \in Numbers : DumpInteger(x)) \/ (\E x \in Floats : DumpFloat(x))
NumberSpec == NumberInit /\ [][NumberNext]_numberVars

-----------------------------------------------------------------------------
(* Reference: the number a text stands for. *)

HasMinus(t) == t[1] = "-"
Magnitude(t) == IF HasMinus(t) THEN Tail(t) ELSE t
RECURSIVE TextValue(_)
TextValue(t) == IF t = <<>> THEN 0 ELSE 10 * TextValue(Front(t)) + CharValue(Last(t))
Where(t, c) == CHOOSE k \in 1 .. Len(t) + 1 : /\ k <= Len(t) => t[k] = c
                                              /\ \A j \in 1 .. k - 1 : t[j] # c
ExponentOf(t) ==
    LET e == SubSeq(t, Where(t, "e") + 1, Len(t)) IN
    IF e = <<>> THEN 0 ELSE IF e[1] = "-" THEN -TextValue(Tail(e)) ELSE TextValue(Tail(e))
Mantissa(t) == SubSeq(t, 1, Where(t, "e") - 1)
Whole(t) == SubSeq(Mantissa(t), 1, Where(Mantissa(t), ".") - 1)
Fraction(t) == SubSeq(Mantissa(t), Where(Mantissa(t), ".") + 1, Len(Mantissa(t)))
\* Digits without zeros at either end and the power of ten of the last one.
RECURSIVE Normal(_, _)
Normal(d, e) ==
    IF d = <<>> THEN <<<<>>, 0>>
    ELSE IF d[1] = ZeroChar THEN Normal(Tail(d), e)
    ELSE IF Last(d) = ZeroChar THEN Normal(Front(d), e + 1)
    ELSE <<d, e>>

-----------------------------------------------------------------------------
(* Properties *)

IsInteger == number[1] = "integer"

\* The text is the number: nothing of a number written before is left in it
\* (dump_integer fills number_buffer from the back to a length counted before;
\* format_buffer moves digits within it).
TextIsNumber ==
    IF IsInteger
    THEN /\ HasMinus(numberText) <=> number[2] < 0
         /\ \A k \in DOMAIN Magnitude(numberText) : Magnitude(numberText)[k] \in ToSet(DigitChars)
         /\ TextValue(Magnitude(numberText)) = IF number[2] < 0 THEN -number[2] ELSE number[2]
         /\ Len(Magnitude(numberText)) > 1 => Magnitude(numberText)[1] # ZeroChar
    ELSE IF ~number[2].finite THEN numberText = <<"null">>
    ELSE LET m == Magnitude(numberText) IN
         /\ HasMinus(numberText) <=> number[2].negative
         /\ Normal(Whole(m) \o Fraction(m), ExponentOf(m) - Len(Fraction(m))) = Normal(number[2].digits, number[2].exponent)

\* A floating-point number is written as one that reads back as one: with a
\* digit before and after the point, and a point or an exponent.
FloatStaysFloat ==
    ~IsInteger /\ number[2].finite =>
                  LET m == Magnitude(numberText) IN
                  /\ Whole(m) # <<>> /\ (m[1] = ZeroChar => Len(Whole(m)) = 1)
                  /\ \/ Where(m, ".") <= Len(m) /\ Fraction(m) # <<>>
                     \/ Where(m, "e") <= Len(m) /\ Where(m, ".") > Len(m)

\* No character is put behind number_buffer, and room for a zero is left after
\* an integer (the assertions of dump_integer and to_chars).
NumberFits == Len(number_buffer) <= NumberBufferSize /\ (IsInteger => Len(numberText) < NumberBufferSize - 1)

\* The text of a number is that number, of its kind, inside the buffer.
NumberTextIsRight == TextIsNumber /\ FloatStaysFloat /\ NumberFits

=============================================================================
