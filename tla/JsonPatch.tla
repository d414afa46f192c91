------------------------------ MODULE JsonPatch -----------------------------
(***************************************************************************)
(* JSON Patch and JSON Merge Patch (json.hpp: patch, diff, merge_patch).   *)
(* A patch is a sequence of operations that are carried out one by one on  *)
(* a copy of the source; diff makes the patch that turns one value into    *)
(* another.                                                                *)
(***************************************************************************)
EXTENDS JsonPointer

CONSTANTS
    Pairs,      \* records [source, target]: values a difference is made of
    Edits,      \* records [source, patch, kind]: patches that are applied, "undo" for one
                \* whose second operation takes back the first, else "edit"
    Merges      \* records [source, patch]: merge patches that are applied

VARIABLES
    source,     \* the value patch() is called on
    patched,    \* its copy
    patch,      \* the elements of the patch still to be carried out
    use,        \* "diff" and the target, "edit" or "undo", or "merge" and the patch
    patchStatus,  \* "running", "done", "thrown" or "aborted"
    merged      \* how often the merge patch was applied

patchVars == <<source, patched, patch, use, patchStatus, merged>>

\* An element of a patch is a value; the content of an object is a record here.
Operation(op, path, x) == Obj([op |-> Str(op), path |-> Str(path), value |-> x])
Removal(path) == Obj([op |-> Str("remove"), path |-> Str(path)])
Transfer(op, path, from) == Obj([op |-> Str(op), path |-> Str(path), from |-> Str(from)])

-----------------------------------------------------------------------------
(* Operations: each gives the new result or throws. *)

AssertionFails == 4

\* What is done with the result of a call, unless it has thrown.
Proceed(v, r, Rest(_)) == IF r.error # 0 THEN Throws(v, r.error) ELSE Rest(r)

InsertAtIndex(v, i, x) == Arr(SubSeq(Val(v), 1, i) \o <<x>> \o SubSeq(Val(v), i + 1, Len(Val(v))))

\* The value that parent becomes.
AddTo(parent, t, x) ==
    CASE is_null(parent) \/ is_object(parent) -> Returns(Obj(With(Val(operator_key(parent, t).value), t, x)))
      [] is_array(parent) /\ t = Dash -> Returns(Arr(Append(Val(parent), x)))
      [] is_array(parent) /\ t # Dash ->
           Proceed(parent, array_index(t), LAMBDA i :
             IF i.value < 0 \/ i.value > size(parent) THEN Throws(parent, 401)
             ELSE Returns(InsertAtIndex(parent, i.value, x)))
      [] OTHER -> Throws(parent, AssertionFails)

\* Only the first token must exist already.
operation_add(v, tokens, x) ==
    IF tokens = <<>> THEN Returns(x)
    ELSE Proceed(v, IF Len(tokens) > 1 THEN get_checked(v, <<tokens[1]>>) ELSE Found(v, <<>>), LAMBDA top :
         Proceed(v, get_unchecked(v, Front(tokens)), LAMBDA r :
         Proceed(v, AddTo(Get(r.value, r.path), Last(tokens), x), LAMBDA n :
         Returns(Put(r.value, r.path, n.value)))))

\* A child of a primitive value is not there, and that is no error.
RemoveFrom(parent, t) ==
    CASE is_object(parent) -> IF contains(parent, t) THEN Returns(Obj(Without(Val(parent), {t})))
                              ELSE Throws(parent, 403)
      [] is_array(parent) ->
           Proceed(parent, array_index(t), LAMBDA i :
             IF i.value \notin 0 .. size(parent) - 1 THEN Throws(parent, 401)
             ELSE Returns(Arr(RemoveAt(Val(parent), i.value + 1))))
      [] OTHER -> Returns(parent)
operation_remove(v, tokens) ==
    IF tokens = <<>> THEN Throws(v, 405)
    ELSE Proceed(v, get_checked(v, Front(tokens)), LAMBDA r :
         Proceed(v, RemoveFrom(Get(r.value, r.path), Last(tokens)), LAMBDA n :
         Returns(Put(v, r.path, n.value))))
operation_replace(v, tokens, x) ==
    Proceed(v, get_checked(v, tokens), LAMBDA r : Returns(Put(v, r.path, x)))
\* Taken out first, so that an array's indices have moved when it is added.
operation_move(v, from, tokens) ==
    Proceed(v, get_checked(v, from), LAMBDA r :
    Proceed(v, operation_remove(v, from), LAMBDA n :
    operation_add(n.value, tokens, Get(v, r.path))))
operation_copy(v, from, tokens) ==
    Proceed(v, get_checked(v, from), LAMBDA r : operation_add(v, tokens, Get(v, r.path)))
\* What is not found is not equal; other errors are passed on.
Compared(v, r, x) ==
    IF r.error \in {106, 109, StdOutOfRange} THEN Throws(v, r.error)
    ELSE IF r.error = 0 /\ operator_eq(Get(v, r.path), x) THEN Returns(v) ELSE Throws(v, 501)
operation_test(v, tokens, x) == Compared(v, get_checked(v, tokens), x)

get_value(o, member, string_type) ==
    IF member \notin DOMAIN o \/ (string_type /\ Type(o[member]) # "string") THEN Throws(Null, 105)
    ELSE Returns(o[member])
\* The pointer in a member.
PointerIn(o, member) == Proceed(Null, get_value(o, member, TRUE), LAMBDA g : split(Val(g.value)))

\* One element of the patch: its members o, of which op and the pointer p are
\* read before it is known which others are needed.
CarryOut(v, o, op, p) ==
    CASE op = "remove" -> operation_remove(v, p)
      [] op = "move" -> Proceed(v, PointerIn(o, "from"), LAMBDA f : operation_move(v, f.value, p))
      [] op = "copy" -> Proceed(v, PointerIn(o, "from"), LAMBDA f : operation_copy(v, f.value, p))
      [] op = "add" -> Proceed(v, get_value(o, "value", FALSE), LAMBDA x : operation_add(v, p, x.value))
      [] op = "replace" -> Proceed(v, get_value(o, "value", FALSE), LAMBDA x : operation_replace(v, p, x.value))
      [] op = "test" -> Proceed(v, get_value(o, "value", FALSE), LAMBDA x : operation_test(v, p, x.value))
      [] OTHER -> Throws(v, 105)
Carry(v, e) ==
    IF ~is_object(e) THEN Throws(v, 104)
    ELSE Proceed(v, get_value(Val(e), "op", TRUE), LAMBDA op :
         Proceed(v, PointerIn(Val(e), "path"), LAMBDA p :
         CarryOut(v, Val(e), Val(op.value), p.value)))

-----------------------------------------------------------------------------
(* diff *)

Child(path, t) == path \o <<Slash>> \o t
\* Mutant: elements are removed in ascending order.
Removals_Ascending(path, from, to) == [i \in 1 .. to - from |-> Removal(Child(path, Decimal(from + i - 1)))]
\* Each removal is put before the earlier ones: the last element goes first.
Removals(path, from, to) == [i \in 1 .. to - from |-> Removal(Child(path, Decimal(to - i)))]

RECURSIVE diff(_, _, _)
diff(v, w, path) ==
    CASE operator_eq(v, w) -> <<>>
      [] ~operator_eq(v, w) /\ (Type(v) # Type(w) \/ is_primitive(v)) -> <<Operation("replace", path, w)>>
      [] ~operator_eq(v, w) /\ is_array(v) /\ is_array(w) ->
           LET n == IF size(v) < size(w) THEN size(v) ELSE size(w)
           IN  FlattenSeq([i \in 1 .. n |-> diff(Val(v)[i], Val(w)[i], Child(path, Decimal(i - 1)))])
               \o Removals(path, n, size(v))
               \o [i \in 1 .. size(w) - n |-> Operation("add", Child(path, Decimal(n + i - 1)), Val(w)[n + i])]
      [] ~operator_eq(v, w) /\ is_object(v) /\ is_object(w) ->
           LET Of(k) == Child(path, escape(k))
               added == SelectSeq(Keys(w), LAMBDA k : ~contains(v, k))
           IN  FlattenSeq([i \in 1 .. size(v) |->
                             LET k == Keys(v)[i] IN
                             IF contains(w, k) THEN diff(Val(v)[k], Val(w)[k], Of(k))
                             ELSE <<Removal(Of(k))>>])
               \o [i \in DOMAIN added |-> Operation("add", Of(added[i]), Val(w)[added[i]])]

RECURSIVE merge_patch(_, _)
merge_patch(v, p) ==
    IF ~is_object(p) THEN p
    ELSE LET f == IF is_object(v) THEN Val(v) ELSE NoMembers
             dropped == {k \in DOMAIN Val(p) : is_null(Val(p)[k])}
         IN  Obj([k \in (DOMAIN f \cup DOMAIN Val(p)) \ dropped |->
                    IF k \notin DOMAIN Val(p) THEN f[k]
                    ELSE merge_patch(IF k \in DOMAIN f THEN f[k] ELSE Null, Val(p)[k])])

-----------------------------------------------------------------------------
PatchInit ==
    /\ \/ \E c \in Pairs : /\ source = c.source /\ use = <<"diff", c.target>>
                           /\ patch = diff(c.source, c.target, <<>>)
       \/ \E c \in Edits : source = c.source /\ use = <<c.kind, Null>> /\ patch = c.patch
       \/ \E c \in Merges : source = c.source /\ use = <<"merge", c.patch>> /\ patch = <<>>
    /\ patched = source /\ patchStatus = "running" /\ merged = 0

\* The loop of patch(): the next element, or an exception and no result.
Perform ==
    /\ patchStatus = "running" /\ patch # <<>>
    /\ LET r == Carry(patched, Head(patch)) IN
       /\ patched' = r.value
       /\ patchStatus' = CASE r.error = 0 -> "running"
                     [] r.error = AssertionFails -> "aborted"
                     [] OTHER -> "thrown"
    /\ patch' = Tail(patch)
    /\ UNCHANGED <<source, use, merged>>
ReturnPatched ==
    /\ patchStatus = "running" /\ patch = <<>> /\ use[1] # "merge"
    /\ patchStatus' = "done"
    /\ UNCHANGED <<source, patched, patch, use, merged>>
\* Applied, and applied again.
MergePatch ==
    /\ use[1] = "merge" /\ merged < 2
    /\ patched' = merge_patch(patched, use[2]) /\ merged' = merged + 1
    /\ UNCHANGED <<source, patch, use, patchStatus>>

PatchNext == Perform \/ ReturnPatched \/ MergePatch
PatchSpec == PatchInit /\ [][PatchNext]_patchVars

-----------------------------------------------------------------------------
(* Properties *)

\* source.patch(diff(source, target)) == target, for all values (diff, patch).
DiffTurnsSourceIntoTarget ==
    use[1] = "diff" => patchStatus # "thrown" /\ (patchStatus = "done" => operator_eq(patched, use[2]))

\* A second application of a merge patch changes nothing (merge_patch).
MergingTwiceIsMergingOnce == [][merged = 1 => patched' = patched]_patchVars

\* A merge patch removes the members it sets to null, has the others it names,
\* and leaves those it does not name (merge_patch).
MergeSetsWhatItNames ==
    merged = 1 /\ is_object(use[2]) =>
       /\ is_object(patched)
       /\ \A k \in DOMAIN Val(use[2]) : is_null(Val(use[2])[k]) <=> ~contains(patched, k)
       /\ is_object(source) =>
            \A k \in DOMAIN Val(source) \ DOMAIN Val(use[2]) : contains(patched, k) /\ Val(patched)[k] = Val(source)[k]

\* An element that was added where there was none and is removed, or was moved
\* there and back, leaves the source (operation_add and operation_remove agree
\* on what a path means, in arrays too).
UndoneRestores == use[1] = "undo" => patchStatus # "thrown" /\ (patchStatus = "done" => patched = source)

\* Patches do what their operations say.
PatchesWork ==
    /\ [](DiffTurnsSourceIntoTarget /\ UndoneRestores /\ MergeSetsWhatItNames)
    /\ MergingTwiceIsMergingOnce

=============================================================================
