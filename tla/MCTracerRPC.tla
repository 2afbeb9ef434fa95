---------------------------- MODULE MCTracerRPC ----------------------------
(***************************************************************************)
(* Small instances of TracerRPC for TLC.                                   *)
(***************************************************************************)
EXTENDS TracerRPC, TLC

CONSTANTS s1, s2

Symmetry == Permutations({s1, s2})
=============================================================================
