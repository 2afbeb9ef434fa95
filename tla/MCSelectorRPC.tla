--------------------------- MODULE MCSelectorRPC ---------------------------
(***************************************************************************)
(* Small instances of SelectorRPC.                                         *)
(***************************************************************************)
EXTENDS SelectorRPC, TLC

CONSTANTS f1, f2

Symmetry == Permutations(Fps)

=============================================================================
