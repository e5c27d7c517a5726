---------------------------- MODULE MCFmkLaunch ----------------------------
EXTENDS FmkLaunch, TLC
CONSTANTS p1, p2, d1, d2
MCHighest == (p1 :> 1) @@ (p2 :> 0)
MCIdSets == {{0}, {0, 1}}
MCReloads == (p1 :> 1) @@ (p2 :> 0)
MCSymmetry == Permutations({d1, d2})
=============================================================================
