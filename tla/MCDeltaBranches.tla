--------------------------- MODULE MCDeltaBranches ---------------------------
(* DeltaBranches for TLC: two refs, two objects, two branches.              *)
EXTENDS DeltaBranches, TLC

Symmetry == Permutations(Ref) \cup Permutations(Sha) \cup Permutations(Branch)
=============================================================================
