---------------------------- MODULE MCCompaction ----------------------------
(***************************************************************************)
(* Symmetry for the runs of Compaction: contents are only compared.        *)
(***************************************************************************)
EXTENDS Compaction

ContentSymmetry == Permutations(Push)
=============================================================================
