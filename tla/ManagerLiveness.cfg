\* The same charts under fair workers.
SPECIFICATION FairSpec
CONSTANTS
    app = app
    lib = lib
    Chart <- TwoCharts
    Version = {1}
    Part <- TwoParts
    Dep <- AppNeedsLib
    Lists <- OneOrTwoListed
    Faults = {}
    MaxFaults = 0
    MaxEdits = 2
PROPERTY EventuallyServed
PROPERTY IndexFollows
PROPERTY EventuallyPruned
\* Without a Repository there may be nothing left to do.
CHECK_DEADLOCK FALSE
