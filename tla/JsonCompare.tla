---------------------------- MODULE JsonCompare -----------------------------
(***************************************************************************)
(* JSON values are sorted with operator< of json.hpp (an insertion sort by *)
(* swaps of neighbours, external), as a program does that keeps them in an *)
(* ordered container.                                                      *)
(***************************************************************************)
EXTENDS JsonValue

CONSTANTS
    Universe,   \* the values
    SortLength  \* how many of them are sorted

VARIABLES
    items,      \* the values in their present order
    done        \* no neighbours are out of order

compareVars == <<items, done>>

CompareInit == items \in [1 .. SortLength -> Universe] /\ done = FALSE

\* Neighbours that are out of order.
Inversions == {i \in 1 .. SortLength - 1 : operator_lt(items[i + 1], items[i])}
Exchange ==
    /\ ~done
    /\ \E i \in Inversions : items' = [items EXCEPT ![i] = items[i + 1], ![i + 1] = items[i]]
    /\ UNCHANGED done
FinishSorting == ~done /\ Inversions = {} /\ done' = TRUE /\ UNCHANGED items

CompareNext == Exchange \/ FinishSorting
CompareSpec == CompareInit /\ [][CompareNext]_compareVars

-----------------------------------------------------------------------------
(* Properties *)

\* In an order no neighbours contradict, no later value is less than an earlier
\* one and values that are neither less nor greater are equal (operator== and
\* operator< agree and are transitive).
SortedThroughout ==
    done => \A i, k \in 1 .. SortLength : i < k =>
               /\ ~operator_lt(items[k], items[i])
               /\ operator_lt(items[i], items[k]) <=> ~operator_eq(items[i], items[k])

=============================================================================
