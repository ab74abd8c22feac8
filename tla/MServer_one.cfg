\* A single client: the server ends by itself, or when it is told to.
SPECIFICATION FairSpec
CONSTANTS
    Clients = {c1}
    Bytes = 3
    Faulty = {}
    Transport = "udt"
    Sigint = TRUE
    AcceptErrors = 1
    NoSession = NoSession
CHECK_DEADLOCK FALSE
PROPERTIES ListenerEnds MainEnds FinalReport
