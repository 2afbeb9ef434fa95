------------------------------- MODULE MCTaps -------------------------------
(***************************************************************************)
(* Small instances of Taps for TLC.                                        *)
(***************************************************************************)
EXTENDS Taps, TLC

CONSTANTS a1, a2, c1, c2, l1, l2, g1, g2
=============================================================================
