\* The exit is heard and answered, and both ends get through their locks.
SPECIFICATION FairSpec
CONSTANTS
    NumConn = 1
    PartSize = 12
    PackSize = 8
    Header = 8
    Buffer = 1
    Losses = 1
    Interrupted = {"server"}
CHECK_DEADLOCK FALSE
PROPERTIES ServerHears ServerEnds AckEndsClient
