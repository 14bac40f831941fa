\* An application that needs a library is released while both are mirrored.
SPECIFICATION DeliverySpec
CONSTANTS
    app = app
    lib = lib
    Chart <- TwoCharts
    Version = {1}
    Part <- TwoParts
    Dep <- AppNeedsLib
    Lists <- NothingListed
    Wanted <- AppWanted
    Faults = {}
    MaxFaults = 0
    MaxEdits = 3
INVARIANT DeliveryTypeOK
INVARIANT ReadyMeansWhole
INVARIANT TemplatesComeWithFiles
\* Without a Repository there may be nothing left to do.
CHECK_DEADLOCK FALSE
