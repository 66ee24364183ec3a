----------------------------- MODULE MCGatewayCall -----------------------------
(***************************************************************************)
(* Model checking of GatewayCall: two or three calls, and the properties   *)
(* that the runs of GatewayCall check.                                     *)
(***************************************************************************)
EXTENDS GatewayCallProps, TLC

Symmetry == Permutations(Call) \cup Permutations(Key)

=============================================================================
