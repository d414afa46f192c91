---------------------------- MODULE MCHttpServer ----------------------------
(* Small instances of HttpServer for TLC. *)
EXTENDS HttpServer, TLC

MCTimePoint == 0 .. Cardinality(PtrTask)

\* Task addresses and local workers are interchangeable: no action and no
\* property tells one from another.
Symmetry == Permutations(PtrTask) \cup Permutations(LocalWorkers)

=============================================================================
