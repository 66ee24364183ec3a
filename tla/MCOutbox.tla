------------------------------- MODULE MCOutbox -------------------------------
(***************************************************************************)
(* Model checking of Outbox: two events, two workers, and the properties   *)
(* that the runs of Outbox check.                                          *)
(***************************************************************************)
EXTENDS OutboxProps, TLC

Symmetry == Permutations(Worker)

=============================================================================
