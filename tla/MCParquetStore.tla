--------------------------- MODULE MCParquetStore ---------------------------
(* ParquetStore for TLC.                                                   *)
EXTENDS ParquetStore

Symmetry == Permutations(Sha \ Flaky) \cup Permutations(Proc)
=============================================================================
