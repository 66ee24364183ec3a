---------------------------- MODULE MCAssetIngest ----------------------------
(* Instances of AssetIngest for TLC. *)
EXTENDS AssetIngestProps, TLC

Symmetry == Permutations(Request) \cup Permutations(Content) \cup Permutations(Key)

=============================================================================
