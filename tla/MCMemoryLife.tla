----------------------------- MODULE MCMemoryLife -----------------------------
(* Instances of MemoryLife for TLC. *)
EXTENDS MemoryLifeProps, TLC

Symmetry == Permutations(Memory) \cup Permutations(Fact) \cup Permutations(Thread)

=============================================================================
