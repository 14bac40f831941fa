\* No call fails: the Repository lists the library at another version than
\* the application needs.
SPECIFICATION FairSpec
CONSTANTS
    app = app
    lib = lib
    Chart <- TwoCharts
    Version = {1, 2}
    Part <- TwoParts
    Dep <- AppNeedsLib
    Lists <- OtherLibListed
    Faults = {}
    MaxFaults = 0
    MaxEdits = 1
PROPERTY VersionsServed
\* Without a Repository there may be nothing left to do.
CHECK_DEADLOCK FALSE
