------------------------------- MODULE MCLease -------------------------------
(***************************************************************************)
(* Model checking of Lease: three workers.                                 *)
(***************************************************************************)
EXTENDS LeaseProps, TLC

Symmetry == Permutations(Worker)

=============================================================================
