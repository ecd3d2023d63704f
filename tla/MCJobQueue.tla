------------------------------ MODULE MCJobQueue ------------------------------
(***************************************************************************)
(* A small instance of JobQueue.                                           *)
(***************************************************************************)
EXTENDS JobQueue, TLC

Symmetry == Permutations(Workers) \cup Permutations(Jobs)

=============================================================================
