\* Two threads update num_active_conn at once.
SPECIFICATION Spec
CONSTANTS
    Clients = {c1, c2}
    Bytes = 0
    Faulty = {}
    Transport = "stream"
    Sigint = FALSE
    AcceptErrors = 0
    NoSession = NoSession
CHECK_DEADLOCK FALSE
INVARIANTS NumActiveConn
