--------------------------- MODULE MCBlockCompile ---------------------------
(* Instances of BlockCompile for TLC.                                      *)
EXTENDS BlockCompile, TLC

KeySymmetry == Permutations(Key)
=============================================================================
