\* The owner pushes three tasks (two growths from a 2-slot array) while
\* two thieves steal and the owner pops.
CONSTANTS
    o = o
    th1 = th1
    th2 = th2
    Null = Null
    Owner = o
    Thieves <- MCThieves
    Pushers <- MCOwnerOnly
    NumItems = 3
    InitCap = 2
    MaxArrays = 3
SPECIFICATION FairSpec
INVARIANT TypeOK
INVARIANT NoSlotAliasing
PROPERTY DequeRefinement
PROPERTY EveryItemTaken
