\* One failing helm call.
SPECIFICATION Spec
CONSTANTS
    r1 = r1
    r2 = r2
    v1 = v1
    v2 = v2
    Release <- OneRelease
    Values <- OneValues
    Version <- OneVersion
    MaxConcurrentReconciles = 2
    Faults = {"helm"}
    MaxFaults = 1
    MaxEdits = 2
    MaxRestarts = 0
SYMMETRY Symmetry
INVARIANT SyncedIsDeployed
\* Users stop editing, and then every queue may be empty for good.
CHECK_DEADLOCK FALSE
