\* Two connections over a network that refuses, overflows and reorders.
SPECIFICATION Spec
CONSTANTS
    NumConn = 2
    PartSize = 20
    PackSize = 8
    Header = 8
    Buffer = 2
    Losses = 0
    Interrupted = {}
CHECK_DEADLOCK FALSE
INVARIANTS TypeOK AllCounted OneSessionEach
PROPERTIES ImplementsTransfer
