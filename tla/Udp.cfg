\* One transfer over a network that loses, duplicates and reorders.
SPECIFICATION FairSpec
CONSTANTS
    FileSize = 3
    Buffer = 2
    Losses = 2
    Duplicates = 1
CHECK_DEADLOCK FALSE
INVARIANTS TypeOK AllCounted
PROPERTIES ImplementsTransfer BothEnd
