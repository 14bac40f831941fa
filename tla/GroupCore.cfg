\* Two groups that may list the same two releases, failing calls, a restart.
SPECIFICATION FairSpec
CONSTANTS
    g1 = g1
    g2 = g2
    n1 = n1
    n2 = n2
    Group <- TwoGroups
    Name <- TwoNames
    MaxFaults = 1
    MaxEdits = 3
    MaxRestarts = 1
INVARIANT GroupTypeOK
INVARIANT NoStray
INVARIANT MissingOnlyIfPassed
PROPERTY NoGoroutineLeft
PROPERTY GroupTakesListed
PROPERTY GroupDeletionCompletes
\* Users stop editing, and then the queue may be empty for good.
CHECK_DEADLOCK FALSE
