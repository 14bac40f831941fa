----------------------------- MODULE MCRepoGroup -----------------------------
(* Model checking of RepoGroupReconciler: two groups, one repository.      *)
EXTENDS RepoGroupReconciler

CONSTANTS g1, g2, n1

TwoGroups == {g1, g2}
OneName == {n1}
=============================================================================
