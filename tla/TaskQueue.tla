------------------------------ MODULE TaskQueue ------------------------------
(***************************************************************************)
(* What onyxup::ThreadSafeQueue promises the threads that share it: items  *)
(* are numbered in the order they are pushed, and leave in that order,     *)
(* each to one thread.                                                     *)
(***************************************************************************)
EXTENDS Naturals

CONSTANT
    Threads     \* the threads that share the queue

VARIABLES
    pushed,     \* number of the item pushed last
    popped,     \* number of the item popped last
    got         \* the item each thread popped last, 0 if none

vars == <<pushed, popped, got>>

Init ==
    /\ pushed = 0 /\ popped = 0
    /\ got = [t \in Threads |-> 0]

Put ==
    /\ pushed' = pushed + 1
    /\ UNCHANGED <<popped, got>>

Get(t) ==
    /\ popped < pushed
    /\ popped' = popped + 1
    /\ got' = [got EXCEPT ![t] = popped + 1]
    /\ UNCHANGED pushed

Next == Put \/ \E t \in Threads : Get(t)

Spec == Init /\ [][Next]_vars

=============================================================================
