--------------------------- MODULE MCLuaSelector ---------------------------
(***************************************************************************)
(* Small instances of LuaSelector.                                         *)
(***************************************************************************)
EXTENDS LuaSelector, TLC

CONSTANTS l1, l2, r1, r2, f1, f2

\* Two profiles are enough: the one that ranks by load and one that does not.
TwoProfiles == {"Scavenger", "CapacitySeeking"}

\* One remote with two paths; two remotes in different ASes, which share no
\* path; two remotes in one AS, which share one.
OneRemote == [r \in Raddrs |-> Fps]
DisjointPaths == r1 :> {f1} @@ r2 :> {f2}
SharedPaths == r1 :> {f1} @@ r2 :> {f1, f2}

Symmetry == Permutations(Laddrs)

=============================================================================
