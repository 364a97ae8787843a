--------------------------- MODULE MCImageBlocks ---------------------------
(* ImageBlocks for TLC: a size_t of six bits.                              *)
EXTENDS ImageBlocks, TLC

Symmetry == Permutations(Blocks)
=============================================================================
