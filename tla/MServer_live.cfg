\* Connections are accepted and their sessions end, by a close or a reset.
SPECIFICATION FairSpec
CONSTANTS
    Clients = {c1, c2}
    Bytes = 0
    Faulty = {c1}
    Transport = "stream"
    Sigint = FALSE
    AcceptErrors = 0
    NoSession = NoSession
CHECK_DEADLOCK FALSE
PROPERTIES Accepted SessionsEnd
