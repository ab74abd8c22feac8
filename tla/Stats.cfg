\* A monitor, a transfer and two external threads share the stats.
SPECIFICATION FairSpec
CONSTANTS
    Readers = {r1, r2}
    FileSize = 1
CHECK_DEADLOCK FALSE
INVARIANTS TypeOK NothingUnpublished
PROPERTIES CopiesGoForward BlockedOnlyAtEnd AbortCompletes
