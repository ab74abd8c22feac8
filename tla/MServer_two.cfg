\* Two clients race through accept, receive and exit; the monitor watches.
SPECIFICATION CountSpec
CONSTANTS
    Clients = {c1, c2}
    Bytes = 1
    Faulty = {c1}
    Transport = "udt"
    Sigint = TRUE
    AcceptErrors = 0
    NoSession = NoSession
CHECK_DEADLOCK FALSE
INVARIANTS TypeOK AcceptedIsServed CompleteDelivery MonitorCounts
           CountUnlessLost
