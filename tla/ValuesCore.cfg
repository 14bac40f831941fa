\* Four Values objects with all small graphs of references.
SPECIFICATION FairSpec
CONSTANTS
    Object <- Objects
    Inputs <- AllInputs
    Content <- Shared
    Key <- Keys
    Field <- Fields
    Usable <- UsableObjects
    RefLists <- getRefList
    da = da
    db = db
    dc = dc
    dd = dd
    Datum <- Data4
    MaxDepth = 1
    MaxStack = 4
    MaxOfOne = 4
    MaxOfTwo = 2
    MaxTimeouts = 1
INVARIANT ValuesTypeOK
INVARIANT CyclesCrash
INVARIANT OwnValuesKept
INVARIANT LostOnlyIfForked
INVARIANT MisplacedOnlyIfForked
INVARIANT LeakOnlyIfThree
PROPERTY ArrivalDecides
PROPERTY AcyclicResolves
