\* One release with two references under fair workers; restarts, failing
\* charts, helm calls and calls on Values objects.
SPECIFICATION FairSpec
CONSTANTS
    r1 = r1
    r2 = r2
    v1 = v1
    v2 = v2
    Release <- OneRelease
    Values <- TwoValues
    Version <- OneVersion
    MaxConcurrentReconciles = 2
    Faults = {"chart", "helm", "values"}
    MaxFaults = 1
    MaxEdits = 2
    MaxRestarts = 1
INVARIANT TypeOK
INVARIANT Owned
INVARIANT ReportedRevision
INVARIANT NeverForgotten
INVARIANT StaleOnlyIfMissed
PROPERTY ImplementsLifecycle
PROPERTY DeletionCompletes
PROPERTY EventuallySettled
\* Users stop editing, and then every queue may be empty for good.
CHECK_DEADLOCK FALSE
