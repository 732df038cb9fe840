SPECIFICATION FairSpec
CONSTANTS
    Item = {i1, i2, i3}
    Keys <- MCKeys
    SlotSize = 2
    KeyLimit = 4
INVARIANTS IInv BoundsCoverItems DumpCorrect CutOfFiledSucceeds OverrunOnlyAtLimit
PROPERTIES DumpTerminates ImplementsRankedList
CHECK_DEADLOCK FALSE
