\* A uTP transfer whose ends may be interrupted and whose network may break.
SPECIFICATION FairSpec
CONSTANTS
    FileSize = 3
    Bufsize = 2
    Window = 2
    Sigint = {"client", "server"}
    Breaks = TRUE
    NoBuffers = TRUE
    Strays = TRUE
CHECK_DEADLOCK FALSE
INVARIANTS TypeOK EofMeansAll CloseConfirmed
PROPERTIES BothEnd
