\* Two groups that may list the same repository; a failing call, a restart.
SPECIFICATION FairSpec
CONSTANTS
    g1 = g1
    g2 = g2
    n1 = n1
    Group <- TwoGroups
    Name <- OneName
    Version = {1, 2}
    MaxFaults = 1
    MaxEdits = 4
    MaxRestarts = 1
INVARIANT RepoGroupTypeOK
INVARIANT NoStrayRepo
INVARIANT SpecUnlessMissed
PROPERTY GroupsCleanedUp
\* Users stop editing, and then the queue may be empty for good.
CHECK_DEADLOCK FALSE
