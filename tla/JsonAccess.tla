----------------------------- MODULE JsonAccess -----------------------------
(***************************************************************************)
(* A program makes a JSON pointer from a text and reads, looks for or      *)
(* writes the element of a value it points to (json.hpp), or flattens the  *)
(* value and restores it.                                                  *)
(***************************************************************************)
EXTENDS JsonPointer

CONSTANTS
    Cases,      \* records [doc, texts]: values and the pointers tried on them
    New         \* the value that is written

VARIABLES
    doc,        \* the value
    pointerText,  \* of the pointer
    accessed,   \* "text", "pointer", then the call that was made
    ptr,        \* result of split
    before,     \* the value before the call
    outcome     \* result of the call

accessVars == <<doc, pointerText, accessed, ptr, before, outcome>>

AccessInit ==
    /\ \E c \in Cases : doc = c.doc /\ pointerText \in c.texts
    /\ accessed = "text" /\ ptr = Returns(<<>>) /\ before = doc /\ outcome = Returns(Null)

MakePointer ==
    /\ accessed = "text"
    /\ ptr' = split(pointerText)
    /\ accessed' = IF ptr'.error = 0 THEN "pointer" ELSE "thrown"
    /\ UNCHANGED <<doc, pointerText, before, outcome>>

Call(name, d, r) ==
    /\ accessed = "pointer"
    /\ doc' = d /\ outcome' = r /\ accessed' = name
    /\ UNCHANGED <<pointerText, ptr, before>>

Referred(r) == IF r.error = 0 THEN Returns(Get(r.value, r.path)) ELSE Throws(Null, r.error)
At == Call("at", doc, Referred(get_checked(doc, ptr.value)))
ConstantIndex == Call("const", doc, Referred(get_unchecked_const(doc, ptr.value)))
LookFor == Call("contains", doc, [value |-> Bool(contains_pointer(doc, ptr.value).value),
                                   error |-> contains_pointer(doc, ptr.value).error])
ValueOr == Call("value", doc, IF ~is_object(doc) THEN Throws(Null, 306)
                              ELSE LET r == Referred(get_checked(doc, ptr.value))
                                   IN  IF r.error \in {401, 402, 403, 404} THEN Returns(New) ELSE r)
WritePointer ==
    LET r == get_unchecked(doc, ptr.value) IN
    Call("write", IF r.error = 0 THEN Put(r.value, r.path, New) ELSE r.value, Throws(Null, r.error))

Flatten == ptr.value = <<>> /\ Call("flatten", Obj(flatten(<<>>, doc)), Returns(Null))
Unflatten ==
    /\ accessed = "flatten"
    /\ outcome' = unflatten(doc) /\ accessed' = "unflatten"
    /\ UNCHANGED <<doc, pointerText, ptr, before>>

AccessNext == MakePointer \/ At \/ ConstantIndex \/ LookFor \/ ValueOr \/ WritePointer \/ Flatten \/ Unflatten
AccessSpec == AccessInit /\ [][AccessNext]_accessVars

-----------------------------------------------------------------------------
(* Properties *)

\* A pointer's text is kept, and is read as the tokens it was printed from
\* (split, escape, to_string).
PointerTextKept ==
    accessed = "pointer" => to_string(ptr.value) = pointerText /\ split(to_string(ptr.value)) = ptr

\* contains() finds exactly what at() returns, value() gives its default exactly
\* when at() throws out_of_range, and constant access that is defined agrees.
ReadersAgree ==
    LET at == Referred(get_checked(before, ptr.value)) IN
    /\ accessed = "contains" => /\ outcome.value = Bool(TRUE) <=> at.error = 0
                                /\ outcome.error # 0 => outcome.error = at.error
    /\ accessed = "value" /\ outcome.error = 0 => outcome.value = IF at.error = 0 THEN at.value ELSE New
    /\ accessed = "const" /\ outcome.error # Undefined => outcome = at

\* A step of a reference that leads elsewhere.
Apart(p, q) == \E i \in 1 .. IF Len(p) < Len(q) THEN Len(p) ELSE Len(q) :
                  (\A k \in 1 .. i - 1 : p[k] = q[k]) /\ p[i] # q[i]

\* What was written at a pointer is found there, and every element that is not
\* on its way is as it was.
WrittenIsFound ==
    accessed = "write" /\ outcome.error = 0 =>
       /\ (\A i \in DOMAIN ptr.value : ptr.value[i] # Dash) => Referred(get_checked(doc, ptr.value)) = Returns(New)
       /\ \A s \in DOMAIN flatten(<<>>, before) :
             LET q == split(s).value IN
             Apart(get_checked(before, q).path, get_unchecked(before, ptr.value).path)
               => Referred(get_checked(doc, q)) = Referred(get_checked(before, q))

RECURSIVE AllValues(_)
AllValues(v) == {v} \cup (IF is_primitive(v) THEN {} ELSE UNION {AllValues(Val(v)[k]) : k \in DOMAIN Val(v)})
HasEmpty(v) == \E w \in AllValues(v) : ~is_primitive(w) /\ empty(w)
\* An object whose first key, when escaped, is "0" looks like an array.
LooksLikeArray(v) ==
    \E w \in AllValues(v) : is_object(w) /\ contains(w, <<Zero>>)
                             /\ \A k \in DOMAIN Val(w) : ~KeyLess(escape(k), <<Zero>>)

\* Flattening loses nothing but empty containers and objects whose first key
\* is "0".
FlattenRestores ==
    accessed = "unflatten" /\ ~HasEmpty(before) /\ ~LooksLikeArray(before) => outcome = Returns(before)

\* Every way to follow a pointer leads to the same place.
PointersAgree == PointerTextKept /\ ReadersAgree /\ WrittenIsFound /\ FlattenRestores

=============================================================================
