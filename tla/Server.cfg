\* A server of any transport that serves one connection after another.
SPECIFICATION FairSpec
CONSTANTS
    Transports = {"tcp", "dccp", "udt"}
    Sessions = 2
    Bytes = 2
    Again = 1
    STxEnd = "CONTINUE"
    Sigint = TRUE
CHECK_DEADLOCK FALSE
INVARIANTS TypeOK SessionLife CompleteDelivery
PROPERTIES InterruptEndsAccept
