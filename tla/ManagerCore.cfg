\* An application and the library it depends on; downloads and writes fail.
SPECIFICATION Spec
CONSTANTS
    app = app
    lib = lib
    Chart <- TwoCharts
    Version = {1}
    Part <- TwoParts
    Dep <- AppNeedsLib
    Lists <- OneOrTwoListed
    Faults = {"configmap", "chart", "http", "restart"}
    MaxFaults = 1
    MaxEdits = 2
INVARIANT ManagerTypeOK
INVARIANT RepoNotForgotten
INVARIANT HollowOnlyIfInterrupted
\* Without a Repository there may be nothing left to do.
CHECK_DEADLOCK FALSE
