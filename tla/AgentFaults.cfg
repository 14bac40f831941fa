\* Two releases sharing one Values object; failing lookups, writes and reads.
SPECIFICATION Spec
CONSTANTS
    r1 = r1
    r2 = r2
    v1 = v1
    v2 = v2
    Release <- TwoReleases
    Values <- OneValues
    Version <- OneVersion
    MaxConcurrentReconciles = 2
    Faults = {"lookup", "write", "chart", "values"}
    MaxFaults = 1
    MaxEdits = 4
    MaxRestarts = 0
SYMMETRY Symmetry
INVARIANT ForgottenOnlyIfMarked
INVARIANT ReportedRevision
INVARIANT StaleOnlyIfMissed
PROPERTY HelmOnlyOnBehalf
\* Users stop editing, and then every queue may be empty for good.
CHECK_DEADLOCK FALSE
