\* A client of two connections, run again and again over what it left on disk.
SPECIFICATION FairSpec
CONSTANTS
    Protocols = {"TCP", "UDT", "uTP", "eUDP", "aUDT"}
    FileSize = 7
    NumConn = 2
    PackSize = 2
INVARIANTS TypeOK CollectsFromOpenSocket DataOutlivesSessions FinalReport
           LoadedWhole
PROPERTIES ProcessEnds
