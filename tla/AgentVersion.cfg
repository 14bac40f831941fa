\* No call fails: the chart version of a release is edited.
SPECIFICATION Spec
CONSTANTS
    r1 = r1
    r2 = r2
    v1 = v1
    v2 = v2
    Release <- OneRelease
    Values <- OneValues
    Version <- TwoVersions
    MaxConcurrentReconciles = 2
    Faults = {}
    MaxFaults = 0
    MaxEdits = 2
    MaxRestarts = 0
SYMMETRY Symmetry
INVARIANT SyncedHasVersion
\* Users stop editing, and then every queue may be empty for good.
CHECK_DEADLOCK FALSE
