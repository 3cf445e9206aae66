--------------------------- MODULE MCPointerList ---------------------------
(***************************************************************************)
(* PointerList for TLC.  Addresses and keys are only compared for equality *)
(* and no property is a liveness property, so both may be permuted.        *)
(***************************************************************************)
EXTENDS PointerList

Symmetry == Permutations(Node) \cup Permutations(Key)
=============================================================================
