------------------------------ MODULE MCDispatch ------------------------------
(***************************************************************************)
(* Model checking of Dispatch: three workers and one event, with settings  *)
(* that leave room for two slow iterations and no more.                    *)
(***************************************************************************)
EXTENDS Dispatch, TLC

Symmetry == Permutations(Worker)

=============================================================================
