------------------------------ MODULE MCPeriodic ------------------------------
(***************************************************************************)
(* A small instance of Periodic: slots as long as a lease.            *)
(***************************************************************************)
EXTENDS Periodic, TLC

Slots == 0..LastSlot
Symmetry == Permutations(Workers)

=============================================================================
