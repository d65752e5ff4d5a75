--------------------------- MODULE MCAsyncExecutor ---------------------------
(* Small instances of AsyncExecutor for TLC. *)
EXTENDS AsyncExecutor, TLC

\* Ids and callers are interchangeable: no definition tells two of them apart.
CallerSymmetry == Permutations(RequestIds) \cup Permutations(Threads)

=============================================================================
