--------------------------- MODULE MCReleaseGroup ---------------------------
(* Model checking of ReleaseGroupReconciler: two groups, two releases.     *)
EXTENDS ReleaseGroupReconciler

CONSTANTS g1, g2, n1, n2

TwoGroups == {g1, g2}
OneGroup == {g1}
OneName == {n1}
TwoNames == {n1, n2}
=============================================================================
