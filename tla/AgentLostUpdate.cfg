\* No call fails: an edit of a Values object that a release misses.
SPECIFICATION Spec
CONSTANTS
    r1 = r1
    r2 = r2
    v1 = v1
    v2 = v2
    Release <- OneRelease
    Values <- OneValues
    Version <- OneVersion
    MaxConcurrentReconciles = 2
    Faults = {}
    MaxFaults = 0
    MaxEdits = 3
    MaxRestarts = 0
SYMMETRY Symmetry
INVARIANT ValuesApplied
\* Users stop editing, and then every queue may be empty for good.
CHECK_DEADLOCK FALSE
