---------------------------- MODULE MCIdempotency ----------------------------
(***************************************************************************)
(* A small instance of Idempotency: interchangeable requests, sessions,    *)
(* bodies, and keys of commands with If-Match.                             *)
(***************************************************************************)
EXTENDS Idempotency, TLC

Symmetry ==
    Permutations(Requests) \cup Permutations(Sessions) \cup Permutations(Bodies)
        \cup Permutations(Guarded)

=============================================================================
