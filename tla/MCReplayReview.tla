---------------------------- MODULE MCReplayReview ----------------------------
(***************************************************************************)
(* Model checking of ReplayReview: one or two dead letters, and the        *)
(* properties that the runs of ReplayReview check.                         *)
(***************************************************************************)
EXTENDS ReplayReviewProps, TLC

Symmetry == Permutations(Letter) \cup Permutations(Item) \cup Permutations(Request)

=============================================================================
