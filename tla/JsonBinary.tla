----------------------------- MODULE JsonBinary -----------------------------
(***************************************************************************)
(* A JSON value is written in a binary format, the bytes may be cut,       *)
(* extended or changed on their way, and are read again (json.hpp, to_cbor *)
(* .. from_bson).  What was read from changed bytes is written and read    *)
(* once more.                                                              *)
(***************************************************************************)
EXTENDS JsonCbor, JsonMsgPack, JsonUbjson, JsonBson

CONSTANTS
    Samples,    \* records [value, formats, damages]: what is done with a value
    ChangeTo    \* bytes that replace another

VARIABLES
    j, format, damages,
    bytes,      \* the output of the writer, then what the reader gets
    damage,     \* "none", "cut", "more" or "changed"
    stage,      \* "value", "written", "thrown", "read", "rewritten"
    readValue,  \* of the reader
    again       \* of the second reading

binaryVars == <<j, format, damages, bytes, damage, stage, readValue, again>>

Encode(f, v) ==
    CASE f = "cbor" -> write_cbor(v)
      [] f = "msgpack" -> write_msgpack(v)
      [] f = "ubjson" -> write_ubjson(v, FALSE, FALSE, TRUE)
      [] f = "ubjson_size" -> write_ubjson(v, TRUE, FALSE, TRUE)
      [] f = "ubjson_type" -> write_ubjson(v, TRUE, TRUE, TRUE)
      [] f = "bson" -> write_bson(v)

Ubjson == {"ubjson", "ubjson_size", "ubjson_type"}

\* With strict.
sax_parse(f, b) ==
    LET r == CASE f = "cbor" -> parse_cbor_internal(b)
               [] f = "msgpack" -> parse_msgpack_internal(b)
               [] f \in Ubjson -> parse_ubjson_internal(b, 1)
               [] f = "bson" -> parse_bson_internal(b)
    IN  Then(r, LAMBDA q, v : IF get_byte(b, IF f \in Ubjson THEN get_ignore_noop(b, q) ELSE q) = Eof
                              THEN r ELSE Fails)

Thrown(b) == \E k \in DOMAIN b : b[k] = Throw[1]

-----------------------------------------------------------------------------
BinaryInit ==
    /\ \E s \in Samples : j = s.value /\ format \in s.formats /\ damages = s.damages
    /\ bytes = <<>> /\ damage = "none" /\ stage = "value" /\ readValue = Fails /\ again = Fails

WriteBytes ==
    /\ stage = "value"
    /\ bytes' = Encode(format, j)
    /\ stage' = IF Thrown(bytes') THEN "thrown" ELSE "written"
    /\ UNCHANGED <<j, format, damages, damage, readValue, again>>

Damage ==
    /\ stage = "written" /\ damage = "none"
    /\ \/ /\ damages /\ damage' = "cut"
          /\ \E n \in 0 .. Len(bytes) - 1 : bytes' = SubSeq(bytes, 1, n)
       \/ /\ damages /\ damage' = "more"
          /\ \E x \in ChangeTo : bytes' = Append(bytes, x)
       \/ /\ damages /\ damage' = "changed"
          /\ \E n \in 1 .. Len(bytes), x \in ChangeTo : bytes' = [bytes EXCEPT ![n] = x]
    /\ UNCHANGED <<j, format, damages, stage, readValue, again>>

Read ==
    /\ stage = "written"
    /\ readValue' = sax_parse(format, bytes) /\ stage' = "read"
    /\ UNCHANGED <<j, format, damages, bytes, damage, again>>

Rewrite ==
    /\ stage = "read" /\ damage = "changed" /\ readValue.ok
    /\ bytes' = Encode(format, readValue.value)
    /\ stage' = IF Thrown(bytes') THEN "thrown" ELSE "rewritten"
    /\ again' = IF stage' = "thrown" THEN again ELSE sax_parse(format, bytes')
    /\ UNCHANGED <<j, format, damages, damage, readValue>>

BinaryNext == WriteBytes \/ Damage \/ Read \/ Rewrite
BinarySpec == BinaryInit /\ [][BinaryNext]_binaryVars

-----------------------------------------------------------------------------
(* Properties *)

\* Equal in the sense of operator==: a number is the same in either integer
\* type.
RECURSIVE Same(_, _)
Same(v, w) ==
    CASE Type(v) = "array" -> /\ Type(w) = "array" /\ Len(Val(v)) = Len(Val(w))
                             /\ \A k \in DOMAIN Val(v) : Same(Val(v)[k], Val(w)[k])
      [] Type(v) = "object" -> /\ Type(w) = "object" /\ Len(Val(v)) = Len(Val(w))
                              /\ \A k \in DOMAIN Val(v) : /\ Val(v)[k][1] = Val(w)[k][1]
                                                           /\ Same(Val(v)[k][2], Val(w)[k][2])
      [] Type(v) \in {"integer", "unsigned"} ->
           /\ Type(w) \in {"integer", "unsigned"} /\ Val(v) = Val(w)
           /\ Type(v) = Type(w) \/ ~IsNegative(Val(v))
      [] OTHER -> v = w

\* What was written is read back as the same value, at every width of numbers
\* and lengths and in each form of a container (all writers and readers).
RoundTrip == stage = "read" /\ damage = "none" => readValue.ok /\ Same(readValue.value, j)

\* No beginning of a written value is taken for a value (unexpect_eof).
CutIsRefused == stage = "read" /\ damage = "cut" => ~readValue.ok

\* Nothing may follow a value but UBJSON's no-op (sax_parse with strict).
RestIsRefused ==
    stage = "read" /\ damage = "more" /\ readValue.ok => format \in Ubjson /\ Last(bytes) = Marker.N

\* Whatever the reader makes of changed bytes can be written and read again
\* without a change.
ReadingIsStable == stage = "rewritten" => again.ok /\ Same(again.value, readValue.value)

\* The size at the start of a document is its size (calc_bson_object_size and
\* write_bson_object).
BsonSizeIsRight ==
    stage \in {"written", "rewritten"} /\ format = "bson" /\ damage \in {"none", "changed"}
    /\ (stage = "written" => damage = "none")
      => SubSeq(bytes, 1, 4) = write_number_little(Number(Len(bytes)), 4)

\* Each binary format gives back what was written in it, and takes nothing else
\* for a value.
BinaryIsRight ==
    RoundTrip /\ CutIsRefused /\ RestIsRefused /\ ReadingIsStable /\ BsonSizeIsRight

=============================================================================
