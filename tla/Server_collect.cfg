\* The UDT server destroys the session while its stats are collected.
SPECIFICATION Spec
CONSTANTS
    Transports = {"udt"}
    Sessions = 1
    Bytes = 0
    Again = 0
    STxEnd = "EXIT"
    Sigint = FALSE
CHECK_DEADLOCK FALSE
INVARIANTS CollectsFromLiveSession
