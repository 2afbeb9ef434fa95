-------------------------- MODULE MCRankingSelector --------------------------
(***************************************************************************)
(* Small instances of RankingSelector for TLC.                             *)
(***************************************************************************)
EXTENDS RankingSelector, TLC

CONSTANTS l1, l2, l3, r1, r2, f1, f2

TwoProfiles == {"Scavenger", "CapacitySeeking"}

\* Two remotes in one AS, which share a path.
SharedPaths == [r \in Raddrs |-> IF r = r1 THEN Fps ELSE {f1}]

\* Storing the paths takes more room than the rest, so that there is a stack on
\* which it raises while Path goes on.
StoringNeedsMore ==
    [op \in Functions |-> IF op \in {"Initialize", "Refresh"} THEN 2 ELSE 1]

Symmetry == Permutations(Laddrs)
=============================================================================
