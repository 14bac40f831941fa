------------------------------ MODULE MCAgent -------------------------------
(* Model checking of Agent: small sets of releases, values and versions.   *)
EXTENDS Agent, TLC

CONSTANTS r1, r2, v1, v2

OneRelease == {r1}
TwoReleases == {r1, r2}
OneValues == {v1}
TwoValues == {v1, v2}
OneVersion == {1}
TwoVersions == {1, 2}
Symmetry == Permutations(Release) \cup Permutations(Values)
=============================================================================
