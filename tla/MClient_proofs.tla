-------------------------- MODULE MClient_proofs --------------------------
(***************************************************************************)
(* What holds of the client of several connections for any number of them, *)
(* any file and any size of pack: its types, with the bound on what a      *)
(* session sends; that a short file is loaded only after a process or a    *)
(* full disk has left it so; that the data outlive the sessions; that the  *)
(* monitor asks no closed socket for its stats; and that the last report   *)
(* is the sum of what the sessions have sent, and lacks less than a unit   *)
(* for each.                                                               *)
(***************************************************************************)
EXTENDS MClient, CountLemmas

(* Types. *)

LpcPlaces ==
    {"none", "file", "dispatch", "session", "wait", "join", "lock", "close",
     "unlock", "disconnect", "cleanup lock", "cleanup", "exit", "abort",
     "abort close", "abort status", "done"}
MpcPlaces ==
    {"gone", "create", "resolve", "socket", "options", "thread", "spin",
     "test", "reset", "add", "collect", "next", "end", "destroy", "done"}

StartTyped ==
    /\ protocol \in Protocols /\ named \in BOOLEAN
    /\ status \in {"CREATED", "CONNECTED", "DISCONNECTED"} \cup Ending
    /\ sock_d \in {"none", "open", "closed"}
    /\ stat_lock \in {"free", "main", "listener"}
    /\ file_size \in {-1, 0, FileSize}
    /\ data \in {"null", "short", "whole", "freed"}
    /\ file \in {"absent", "short", "whole"}
    /\ writing \in BOOLEAN /\ cut \in BOOLEAN
    /\ lpc \in LpcPlaces /\ mpc \in MpcPlaces

TransferTyped ==
    /\ session \in [Sessions -> Session]
    /\ added \in 0 .. NumConn /\ at \in Sessions /\ cur \in Sessions
    /\ total_tx_rx \in Nat /\ final \in BOOLEAN

\* The initial state, and what a process leaves, have the types.
LEMMA StartTypedInit == StartInit => StartTyped
BY DEF StartInit, StartTyped, LpcPlaces, MpcPlaces

LEMMA NewSessionTyped == NewSession \in Session
BY DEF NewSession, Session

\* The end of a process leaves the types of what is forgotten.
LEMMA ForgetTyped ==
    /\ StartTyped /\ Forget /\ cut' \in BOOLEAN
    /\ file' \in {"absent", "short", "whole"}
    => StartTyped'
BY DEF StartTyped, Forget, LpcPlaces, MpcPlaces, Ending

LEMMA EndTyped == StartTyped /\ (Dies \/ LastThreadEnds) => StartTyped'
<1> SUFFICES ASSUME StartTyped, Dies \/ LastThreadEnds PROVE StartTyped'
  OBVIOUS
<1>1. CASE Dies
  <2>1. cut' \in BOOLEAN
    BY <1>1, Zenon DEF Dies, StartTyped
  <2> QED BY <1>1, <2>1, ForgetTyped DEF Dies, StartTyped
<1>2. CASE LastThreadEnds
  <2>1. cut' \in BOOLEAN
    BY <1>2, Zenon DEF LastThreadEnds, StartTyped
  <2> QED BY <1>2, <2>1, ForgetTyped DEF LastThreadEnds, Flushed, StartTyped
<1> QED BY <1>1, <1>2

LEMMA StartTypedStep == StartTyped /\ [Next]_vars => StartTyped'
<1> SUFFICES ASSUME StartTyped, [Next]_vars PROVE StartTyped'
  OBVIOUS
<1>1. CASE Starting
  <2>1. CASE NoSuchProtocol
    BY <2>1, EndTyped DEF NoSuchProtocol
  <2>2. CASE Run
    <3>1. /\ protocol' \in Protocols /\ named' \in BOOLEAN /\ mpc' = "create"
          /\ UNCHANGED <<lpc, status, sock_d, stat_lock, file_size, data, file,
                         writing, cut>>
      BY <2>2, Zenon DEF Run
    <3>2. mpc' \in MpcPlaces
      BY <3>1 DEF MpcPlaces
    <3> QED BY <3>1, <3>2, ZenonT(30) DEF StartTyped
  <2>3. CASE ~NoSuchProtocol /\ ~Run
    BY <1>1, <2>3
       DEF Starting, CreateListener, BadFileType, ResolveAddress, CreateSocket,
           MainAborts, SetSockOpt, OptionsRefused, CreateThread, MonitorSpin,
           MainGoes, Stop, StartTyped, LpcPlaces, MpcPlaces, Ending
  <2> QED BY <2>1, <2>2, <2>3
<1>2. CASE Client
  BY <1>2
     DEF Client, LoadTestFile, LoadRandomFile, Loaded, CreateRandom,
         StdioHasRest, Dispatch, AbortLock, AbortClose, TbAbort, TbExit,
         ListenerGoes, StartTyped, LpcPlaces, MpcPlaces, Ending
<1>3. CASE ListenerThread /\ ~Client
  BY <1>3
     DEF ListenerThread, SetupFails, CreateSession, CreateFails, WaitForFirst,
         Join, LockSession, CloseSocket, UnlockSession, AfterSessions,
         Disconnect, CleanupLock, Cleanup, rest, ListenerGoes, StartTyped,
         LpcPlaces, MpcPlaces
<1>4. CASE MainThread /\ ~Starting
  <2>1. UNCHANGED <<protocol, named, lpc, status, sock_d, file_size, file,
                    writing, cut>>
    BY <1>4 DEF MainThread, MonitorTest, ResetCount, AddSession, NextSession,
                EndStats, DestroyListener, MonitorGoes
  <2>2. mpc' \in MpcPlaces
    BY <1>4 DEF MainThread, MonitorTest, AfterTest, ResetCount, AddSession,
                NextSession, EndStats, DestroyListener, MonitorGoes, MpcPlaces
  <2>3. /\ stat_lock' \in {"free", "main", "listener"}
        /\ data' \in {"null", "short", "whole", "freed"}
    BY <1>4 DEF MainThread, MonitorTest, ResetCount, AddSession, NextSession,
                EndStats, Unlocked, DestroyListener, StartTyped
  <2> QED BY <2>1, <2>2, <2>3 DEF StartTyped
<1>5. ASSUME NEW i \in Sessions, SessionThread(i) PROVE StartTyped'
  <2>1. CASE SendNull(i)
    BY <2>1, EndTyped DEF SendNull, Killed
  <2>2. CASE ~SendNull(i)
    <3>1. UNCHANGED start
      BY <1>5, <2>2 DEF SessionThread, Connect, Fails, Send, Complete,
                        SessionGoes
    <3> QED BY <3>1 DEF start, StartTyped
  <2> QED BY <2>1, <2>2
<1>6. CASE Exit \/ Killed
  BY <1>6, EndTyped DEF Exit, Killed
<1>7. CASE UNCHANGED vars
  BY <1>7 DEF vars, start, StartTyped
<1> QED BY <1>1, <1>2, <1>3, <1>4, <1>5, <1>6, <1>7 DEF Next

\* Sessions are numbered from one.
LEMMA SessionNumbers ==
    /\ NumConn \in Nat /\ NumConn >= 1 /\ 1 \in Sessions
    /\ \A i \in Sessions : i \in Nat /\ 1 <= i /\ i <= NumConn
BY ConnAssumption DEF Sessions

\* A process forgets its transfer.
LEMMA ForgetTransferTyped == ForgetTransfer => TransferTyped'
<1> SUFFICES ASSUME ForgetTransfer PROVE TransferTyped'
  OBVIOUS
<1>1. /\ session' = [i \in Sessions |-> NewSession] /\ added' = 0 /\ at' = 1
      /\ total_tx_rx' = 0 /\ cur' = 1 /\ final' = FALSE
  BY DEF ForgetTransfer
<1>2. session' \in [Sessions -> Session]
  BY <1>1, NewSessionTyped, Zenon
<1>3. /\ added' \in 0 .. NumConn /\ at' \in Sessions /\ cur' \in Sessions
      /\ total_tx_rx' \in Nat
  BY <1>1, SessionNumbers
<1> QED BY <1>1, <1>2, <1>3, Zenon DEF TransferTyped

LEMMA TransferTypedStep ==
    StartTyped /\ TransferTyped /\ [Next]_vars => TransferTyped'
<1> SUFFICES ASSUME StartTyped, TransferTyped, [Next]_vars
             PROVE TransferTyped'
  OBVIOUS
<1>0. /\ session \in [Sessions -> Session]
      /\ added \in 0 .. NumConn /\ at \in Sessions /\ cur \in Sessions
      /\ total_tx_rx \in Nat /\ final \in BOOLEAN
  BY DEF TransferTyped
<1>a. /\ NumConn \in Nat /\ NumConn >= 1 /\ 1 \in Sessions
      /\ \A i \in Sessions : i \in Nat /\ 1 <= i /\ i <= NumConn
  BY SessionNumbers
<1>1. CASE UNCHANGED transfer
  BY <1>1 DEF transfer, TransferTyped
<1>2. CASE ForgetTransfer
  BY <1>2, ForgetTransferTyped
<1>3. CASE SetupFails \/ CreateFails \/ Join
  BY <1>0, <1>3 DEF SetupFails, CreateFails, Join, rest, TransferTyped
<1>4. CASE CreateSession
  <2>1. /\ at' = IF at = NumConn THEN 1 ELSE at + 1
        /\ added' = at /\ UNCHANGED <<cur, total_tx_rx, final>>
        /\ \E sock \in {"none", "open"} :
             session' = [session EXCEPT ![at] =
               [@ EXCEPT !.pc = "connect", !.status = "ADDR_RES",
                         !.sock_d = sock]]
    BY <1>4 DEF CreateSession, rest
  <2>2. session' \in [Sessions -> Session]
    <3>1. PICK sock \in {"none", "open"} :
            session' = [session EXCEPT ![at] =
              [session[at] EXCEPT !.pc = "connect", !.status = "ADDR_RES",
                                  !.sock_d = sock]]
      BY <2>1
    <3>2. session[at] \in Session
      BY <1>0
    <3>3. [session[at] EXCEPT !.pc = "connect", !.status = "ADDR_RES",
                              !.sock_d = sock] \in Session
      BY <3>2 DEF Session
    <3> QED BY <1>0, <3>1, <3>3
  <2>3. at' \in Sessions /\ added' \in 0 .. NumConn
    BY <1>0, <1>a, <2>1 DEF Sessions
  <2> QED BY <1>0, <2>1, <2>2, <2>3 DEF TransferTyped
<1>5. CASE LockSession \/ CloseSocket \/ UnlockSession
  <2>1. /\ at' \in {at, IF AllJoined THEN at ELSE at + 1}
        /\ UNCHANGED <<added, cur, total_tx_rx, final>>
    BY <1>5 DEF LockSession, CloseSocket, UnlockSession, rest
  <2>2. at' \in Sessions
    BY <1>0, <1>a, <2>1 DEF AllJoined, Sessions
  <2>3. session' \in [Sessions -> Session]
    BY <1>0, <1>5 DEF LockSession, CloseSocket, UnlockSession, Session
  <2> QED BY <1>0, <2>1, <2>2, <2>3 DEF TransferTyped
<1>6. ASSUME NEW i \in Sessions, SessionThread(i) PROVE TransferTyped'
  <2>1. CASE SendNull(i)
    BY <2>1, ForgetTransferTyped DEF SendNull, Killed
  <2>2. CASE Send(i)
    <3>1. PICK rc \in 1 .. Size(i) :
            session' = [session EXCEPT ![i] =
                          [session[i] EXCEPT !.total_bytes = @ + rc]]
      BY <2>2 DEF Send, SessionGoes
    <3>2. rc \in Nat
      BY <3>1
    <3>3. session' \in [Sessions -> Session]
      BY <1>0, <3>1, <3>2 DEF Session
    <3> QED BY <1>0, <2>2, <3>3 DEF Send, SessionGoes, TransferTyped
  <2>3. CASE Connect(i) \/ Fails(i) \/ Complete(i)
    <3>0. session[i] \in Session
      BY <1>0
    <3>a. PICK new : session' = [session EXCEPT ![i] = new]
                     /\ \/ new = [session[i] EXCEPT !.pc = "send",
                                                    !.status = "CONNECTED"]
                        \/ new = [session[i] EXCEPT !.pc = "done"]
                        \/ new = [session[i] EXCEPT !.pc = "done",
                                                    !.status = "DISCONNECTED"]
                        \/ new = [session[i] EXCEPT !.pc = "done",
                                                    !.status = "COMPLETE"]
      BY <2>3 DEF Connect, Fails, Complete, SessionGoes
    <3>b. new \in Session
      BY <3>0, <3>a DEF Session
    <3>1. session' \in [Sessions -> Session]
      BY <1>0, <3>a, <3>b
    <3>2. UNCHANGED <<added, at, total_tx_rx, cur, final>>
      BY <2>3 DEF Connect, Fails, Complete, SessionGoes
    <3> QED BY <1>0, <3>1, <3>2 DEF TransferTyped
  <2> QED BY <1>6, <2>1, <2>2, <2>3 DEF SessionThread
<1>7. CASE MonitorTest
  <2>1. final' \in BOOLEAN
    <3>1. final' = (status \in Ending)
      BY <1>7, Zenon DEF MonitorTest
    <3>2. (status \in Ending) \in BOOLEAN
      OBVIOUS
    <3> QED BY <3>1, <3>2, Zenon
  <2>2. UNCHANGED <<session, added, at, total_tx_rx, cur>>
    BY <1>7 DEF MonitorTest, MonitorGoes
  <2> QED BY <1>0, <2>1, <2>2, Zenon DEF TransferTyped
<1>8. CASE ResetCount \/ EndStats \/ DestroyListener
  BY <1>0, <1>a, <1>8
     DEF ResetCount, EndStats, DestroyListener, MonitorGoes, TransferTyped
<1>9. CASE AddSession
  <2>1. session' \in [Sessions -> Session]
    BY <1>0, <1>9 DEF AddSession, Session
  <2>2. total_tx_rx' \in Nat
    BY <1>0, <1>9 DEF AddSession, Session
  <2> QED BY <1>0, <1>9, <2>1, <2>2 DEF AddSession, MonitorGoes, TransferTyped
<1>10. CASE NextSession
  <2>1. session' \in [Sessions -> Session]
    BY <1>0, <1>10 DEF NextSession, Session
  <2>2. cur' \in Sessions
    BY <1>0, <1>a, <1>10 DEF NextSession, Sessions
  <2> QED
    BY <1>0, <1>10, <2>1, <2>2 DEF NextSession, MonitorGoes, TransferTyped
<1>11. CASE UNCHANGED vars
  BY <1>11 DEF vars, transfer, TransferTyped
<1> QED
  BY <1>1, <1>2, <1>3, <1>4, <1>5, <1>6, <1>7, <1>8, <1>9, <1>10, <1>11
     DEF Next, ListenerThread, MainThread, Exit, Killed, WaitForFirst,
         Disconnect, CleanupLock, Cleanup
-----------------------------------------------------------------------------
(* Where the transfer begins, and what a session may send. *)

Early == {"gone", "create", "resolve", "socket", "options", "thread"}
Untouched ==
    at = 1 /\ added = 0 /\ session = [i \in Sessions |-> NewSession]

\* The main thread starts the listener thread with no session; those that it
\* walks over later are in the list.
EarlyInv ==
    /\ mpc \in Early => lpc = "none"
    /\ lpc \in {"none", "file", "dispatch"} => Untouched
    /\ lpc = "session" => added = at - 1
    /\ mpc \in {"add", "collect", "next"} => cur <= added

\* The listener thread's own steps in the transfer.
Transfers ==
    \/ SetupFails \/ CreateSession \/ CreateFails \/ WaitForFirst \/ Join
    \/ LockSession \/ CloseSocket \/ UnlockSession \/ Disconnect
    \/ CleanupLock \/ Cleanup

Monitors ==
    \/ MonitorTest \/ ResetCount \/ AddSession \/ NextSession \/ EndStats
    \/ DestroyListener

\* A session's own steps, when the process survives them.
Works(i) == Connect(i) \/ Fails(i) \/ Send(i) \/ Complete(i)

\* The process ends, and forgets its transfer, or had none.
Ends ==
    (Dies \/ LastThreadEnds) /\ (ForgetTransfer \/ (mpc = "create"
                                                    /\ UNCHANGED transfer))

LEMMA Cases ==
    [Next]_vars =>
        \/ ((Starting /\ ~NoSuchProtocol) \/ Client) /\ UNCHANGED transfer
        \/ Transfers \/ Monitors \/ Ends \/ UNCHANGED vars
        \/ \E i \in Sessions : Works(i)
BY DEF Next, ListenerThread, MainThread, Transfers, Monitors, Works, Ends,
       SessionThread, SendNull, Exit, Killed, Starting, NoSuchProtocol

\* What each group of steps leaves alone.
LEMMA TransfersFrame ==
    Transfers => /\ UNCHANGED <<protocol, named, mpc, file_size, data, file,
                                writing, cut, cur, final>>
                 /\ lpc \notin {"none", "file", "dispatch", "done"}
                 /\ lpc' \notin {"none", "file", "dispatch", "done"}
BY DEF Transfers, SetupFails, CreateSession, CreateFails, WaitForFirst, Join,
       LockSession, CloseSocket, UnlockSession, AfterSessions, Disconnect,
       CleanupLock, Cleanup, ListenerGoes, rest, transfer

LEMMA MonitorsFrame ==
    Monitors =>
        /\ UNCHANGED <<protocol, named, lpc, status, sock_d, file_size, file,
                       writing, cut, added, at>>
        /\ mpc \notin Early \cup {"spin", "done"}
        /\ mpc' \notin Early \cup {"spin"}
BY DEF Monitors, MonitorTest, AfterTest, ResetCount, AddSession, NextSession,
       EndStats, DestroyListener, MonitorGoes, Early

LEMMA WorksFrame ==
    ASSUME NEW i \in Sessions, Works(i), TransferTyped
    PROVE  /\ UNCHANGED <<start, added, at, total_tx_rx, cur, final>>
           /\ session[i].pc \in {"connect", "send"}
           /\ \A j \in Sessions : j # i => session'[j] = session[j]
BY DEF Works, Connect, Fails, Send, Complete, SessionGoes, TransferTyped

LEMMA EndsFrame ==
    Ends =>
        Forget /\ (ForgetTransfer \/ (mpc = "create" /\ UNCHANGED transfer))
BY DEF Ends, Dies, LastThreadEnds

LEMMA EarlyStep ==
    StartTyped /\ TransferTyped /\ EarlyInv /\ [Next]_vars => EarlyInv'
<1> SUFFICES ASSUME StartTyped, TransferTyped, EarlyInv, [Next]_vars
             PROVE EarlyInv'
  OBVIOUS
<1>0. /\ at \in Nat /\ added \in Nat /\ cur \in Nat
      /\ 1 \in Sessions /\ NewSession.pc = "none"
  BY SessionNumbers DEF TransferTyped, NewSession
<1>1. CASE Starting /\ ~NoSuchProtocol /\ UNCHANGED transfer
  <2>1. UNCHANGED <<at, added, session, cur>>
    BY <1>1 DEF transfer
  <2>2. /\ lpc \in {"none", lpc'} /\ lpc' \in {lpc, "file"}
        /\ mpc' \in Early => lpc' = "none"
        /\ mpc' \notin {"add", "collect", "next"}
    BY <1>1 DEF Starting, Run, CreateListener, BadFileType, ResolveAddress,
                CreateSocket, MainAborts, SetSockOpt, OptionsRefused,
                CreateThread, MonitorSpin, MainGoes, Stop, EarlyInv, Early,
                Gone
  <2> QED BY <2>1, <2>2 DEF EarlyInv, Untouched
<1>2. CASE Client /\ UNCHANGED transfer
  <2>1. UNCHANGED <<at, added, session, cur, mpc>> /\ lpc # "none"
    BY <1>2 DEF transfer, Client, LoadTestFile, LoadRandomFile, CreateRandom,
                StdioHasRest, Dispatch, AbortLock, AbortClose, TbAbort,
                TbExit, ListenerGoes
  <2>2. /\ lpc' \in {"none", "file", "dispatch"} => lpc = "file"
        /\ lpc' = "session" => lpc = "dispatch"
    BY <1>2 DEF Client, LoadTestFile, LoadRandomFile, CreateRandom,
                StdioHasRest, Dispatch, AbortLock, AbortClose, TbAbort,
                TbExit, ListenerGoes
  <2> QED BY <2>1, <2>2 DEF EarlyInv, Untouched
<1>3. CASE Transfers
  <2>1. CASE CreateSession
    <3>1. /\ lpc = "session" /\ added' = at /\ added = at - 1
          /\ lpc' = "session" => at' = at + 1
      BY <1>0, <2>1 DEF CreateSession, ListenerGoes, EarlyInv
    <3> QED BY <1>0, <1>3, <3>1, TransfersFrame DEF EarlyInv
  <2>2. CASE ~CreateSession
    <3>1. added' = added /\ lpc' # "session"
      BY <1>3, <2>2
         DEF Transfers, SetupFails, CreateFails, WaitForFirst, Join,
             LockSession, CloseSocket, UnlockSession, AfterSessions,
             Disconnect, CleanupLock, Cleanup, ListenerGoes, transfer
    <3> QED BY <1>3, <3>1, TransfersFrame DEF EarlyInv
  <2> QED BY <2>1, <2>2
<1>4. CASE Monitors
  <2>1. mpc' \in {"add", "collect", "next"} => cur' <= added
    BY <1>0, <1>4 DEF Monitors, MonitorTest, AfterTest, ResetCount, AddSession,
                      NextSession, EndStats, DestroyListener, MonitorGoes,
                      EarlyInv
  <2>2. \/ session' = session
        \/ mpc \in {"add", "collect", "next"}
    BY <1>4 DEF Monitors, MonitorTest, ResetCount, AddSession, NextSession,
                EndStats, DestroyListener, MonitorGoes
  <2>3. mpc \in {"add", "collect", "next"} => added # 0
    BY <1>0, SessionNumbers DEF EarlyInv, TransferTyped
  <2> QED BY <1>4, <2>1, <2>2, <2>3, MonitorsFrame DEF EarlyInv, Untouched
<1>5. CASE Ends
  <2>1. lpc' = "none" /\ mpc' = "gone"
    BY <1>5, EndsFrame DEF Forget
  <2>2. CASE ForgetTransfer
    BY <2>1, <2>2 DEF ForgetTransfer, EarlyInv, Untouched
  <2>3. CASE mpc = "create" /\ UNCHANGED transfer
    BY <2>1, <2>3 DEF transfer, EarlyInv, Untouched, Early
  <2> QED BY <1>5, <2>2, <2>3, EndsFrame
<1>6. ASSUME NEW i \in Sessions, Works(i) PROVE EarlyInv'
  <2>1. UNCHANGED <<mpc, lpc, added, at, cur>>
    BY <1>6, WorksFrame DEF start
  <2>2. ~Untouched
    BY <1>0, <1>6, WorksFrame DEF Untouched
  <2> QED BY <2>1, <2>2 DEF EarlyInv
<1>7. CASE UNCHANGED vars
  BY <1>7 DEF vars, start, transfer, EarlyInv, Untouched
<1> QED BY <1>1, <1>2, <1>3, <1>4, <1>5, <1>6, <1>7, Cases

\* No session sends more than its part.
Bounded == \A i \in Sessions : session[i].total_bytes <= DataSize

\* A part is a natural number of units, and the parts leave less than one for
\* each connection (tb_stream.c 281, tb_udt.c 376).
LEMMA Parts ==
    ASSUME NEW size \in Nat
    PROVE  /\ size \div NumConn \in Nat
           /\ size - NumConn * (size \div NumConn) \in 0 .. NumConn - 1
BY ConnAssumption

LEMMA DataSizeNat == StartTyped => DataSize \in Nat
<1> SUFFICES ASSUME StartTyped PROVE DataSize \in Nat
  OBVIOUS
<1>1. file_size = -1 \/ file_size \in Nat
  BY FileSizeAssumption DEF StartTyped
<1> QED BY <1>1, Parts DEF DataSize

LEMMA UntouchedBounded == StartTyped /\ Untouched => Bounded
BY DataSizeNat DEF Untouched, Bounded, NewSession

LEMMA BoundedStep ==
    StartTyped /\ TransferTyped /\ EarlyInv /\ Bounded /\ [Next]_vars
    => Bounded'
<1> SUFFICES ASSUME StartTyped, TransferTyped, EarlyInv, Bounded, [Next]_vars
             PROVE Bounded'
  OBVIOUS
<1>0. StartTyped' /\ EarlyInv'
  BY StartTypedStep, EarlyStep
<1>1. CASE Untouched'
  <2>1. DataSize' \in Nat
    <3>1. file_size' = -1 \/ file_size' \in Nat
      BY <1>0, FileSizeAssumption DEF StartTyped
    <3> QED BY <3>1, Parts DEF DataSize
  <2> QED BY <1>1, <2>1 DEF Untouched, Bounded, NewSession
<1>2. CASE /\ file_size' = file_size
           /\ \A i \in Sessions :
                session'[i].total_bytes = session[i].total_bytes
  BY <1>2 DEF Bounded, DataSize
<1>3. CASE Starting /\ ~NoSuchProtocol /\ UNCHANGED transfer
  <2>1. CASE mpc = "spin"
    BY <1>2, <1>3, <2>1
       DEF Starting, Run, CreateListener, BadFileType, ResolveAddress,
           CreateSocket, MainAborts, SetSockOpt, OptionsRefused, CreateThread,
           MonitorSpin, MainGoes, Stop, Gone, transfer
  <2>2. CASE mpc # "spin"
    <3>1. mpc \in Early
      BY <1>3, <2>2
         DEF Starting, Run, CreateListener, BadFileType, ResolveAddress,
             CreateSocket, MainAborts, SetSockOpt, OptionsRefused,
             CreateThread, MonitorSpin, MainGoes, Stop, Gone, Early
    <3> QED BY <1>1, <1>3, <3>1 DEF EarlyInv, Untouched, transfer
  <2> QED BY <2>1, <2>2
<1>4. CASE Client /\ UNCHANGED transfer
  <2>1. CASE LoadTestFile
    BY <1>1, <1>4, <2>1 DEF LoadTestFile, EarlyInv, Untouched, transfer
  <2>2. CASE ~LoadTestFile
    BY <1>2, <1>4, <2>2
       DEF transfer, Client, LoadRandomFile, CreateRandom, Dispatch,
           AbortLock, AbortClose, TbAbort, TbExit, ListenerGoes
  <2> QED BY <2>1, <2>2
<1>5. CASE Transfers
  <2>1. \A i \in Sessions : session'[i].total_bytes = session[i].total_bytes
    <3>1. CASE CreateSession
      <4>1. \E sock : session' = [session EXCEPT ![at] =
              [@ EXCEPT !.pc = "connect", !.status = "ADDR_RES",
                        !.sock_d = sock]]
        BY <3>1 DEF CreateSession
      <4> QED BY <4>1 DEF TransferTyped, Session
    <3>2. CASE CloseSocket
      <4>1. \E sock : session' = [session EXCEPT ![at].sock_d = sock]
        BY <3>2 DEF CloseSocket
      <4> QED BY <4>1 DEF TransferTyped, Session
    <3>3. CASE LockSession \/ UnlockSession
      BY <3>3 DEF LockSession, UnlockSession, TransferTyped, Session
    <3> QED
      BY <1>5, <3>1, <3>2, <3>3
         DEF Transfers, SetupFails, CreateFails, WaitForFirst, Join,
             Disconnect, CleanupLock, Cleanup, transfer
  <2> QED BY <1>2, <1>5, <2>1, TransfersFrame
<1>6. CASE Monitors
  <2>1. \A i \in Sessions : session'[i].total_bytes = session[i].total_bytes
    BY <1>6 DEF Monitors, MonitorTest, ResetCount, AddSession, NextSession,
       EndStats, DestroyListener, TransferTyped, Session
  <2> QED BY <1>2, <1>6, <2>1, MonitorsFrame
<1>7. CASE Ends
  <2>1. Untouched'
    BY <1>0, <1>7, EndsFrame DEF Forget, EarlyInv
  <2> QED BY <1>1, <2>1
<1>8. ASSUME NEW i \in Sessions, Works(i) PROVE Bounded'
  <2>1. file_size' = file_size
    BY <1>8, WorksFrame DEF start
  <2>2. session[i] \in Session /\ session[i].total_bytes \in Nat
    BY DEF TransferTyped, Session
  <2>3. session'[i].total_bytes <= DataSize
    <3>1. CASE Send(i)
      <4>1. PICK rc \in 1 .. Size(i) :
              session' = [session EXCEPT ![i] =
                            [session[i] EXCEPT !.total_bytes = @ + rc]]
        BY <3>1 DEF Send, SessionGoes
      <4>2. rc \in Nat /\ rc <= Left(i)
        BY <2>2, <4>1, DataSizeNat, ConnAssumption DEF Size, Left
      <4>3. session'[i].total_bytes = session[i].total_bytes + rc
        BY <2>2, <4>1 DEF TransferTyped, Session
      <4>4. /\ DataSize \in Nat
            /\ rc <= DataSize - session[i].total_bytes
        BY <2>2, <4>2, DataSizeNat DEF Left
      <4> QED BY <2>2, <4>2, <4>3, <4>4
    <3>2. CASE Connect(i) \/ Fails(i) \/ Complete(i)
      <4>0. \E stat : session' \in
              {[session EXCEPT ![i] =
                  [session[i] EXCEPT !.pc = "send", !.status = stat]],
               [session EXCEPT ![i] = [session[i] EXCEPT !.pc = "done"]],
               [session EXCEPT ![i] =
                  [session[i] EXCEPT !.pc = "done", !.status = stat]]}
        BY <3>2 DEF Connect, Fails, Complete, SessionGoes
      <4>1. session'[i].total_bytes = session[i].total_bytes
        BY <2>2, <4>0, ZenonT(30) DEF TransferTyped, Session
      <4> QED BY <4>1 DEF Bounded
    <3> QED BY <1>8, <3>1, <3>2 DEF Works
  <2> QED BY <1>8, <2>1, <2>3, WorksFrame DEF Bounded, DataSize
<1>9. CASE UNCHANGED vars
  BY <1>9 DEF vars, start, transfer, Bounded, DataSize
<1> QED BY <1>3, <1>4, <1>5, <1>6, <1>7, <1>8, <1>9, Cases

Typed == StartTyped /\ TransferTyped /\ EarlyInv /\ Bounded

\* What every reachable state satisfies.
LEMMA TypedAlways == Spec => []Typed
<1>1. Init => Typed
  <2> SUFFICES ASSUME Init PROVE Typed
    OBVIOUS
  <2>1. StartTyped
    BY StartTypedInit DEF Init
  <2>2. TransferTyped
    <3>1. /\ session = [i \in Sessions |-> NewSession] /\ added = 0 /\ at = 1
          /\ total_tx_rx = 0 /\ cur = 1 /\ final = FALSE
      BY DEF Init, TransferInit
    <3>2. session \in [Sessions -> Session]
      BY <3>1, NewSessionTyped, Zenon
    <3>3. /\ added \in 0 .. NumConn /\ at \in Sessions /\ cur \in Sessions
          /\ total_tx_rx \in Nat
      BY <3>1, SessionNumbers
    <3> QED BY <3>1, <3>2, <3>3, Zenon DEF TransferTyped
  <2>3. EarlyInv /\ Untouched
    BY DEF Init, StartInit, TransferInit, EarlyInv, Untouched
  <2> QED BY <2>1, <2>2, <2>3, UntouchedBounded DEF Typed
<1>2. Typed /\ [Next]_vars => Typed'
  BY StartTypedStep, TransferTypedStep, EarlyStep, BoundedStep DEF Typed
<1> QED BY <1>1, <1>2, PTL DEF Spec

\* Every variable keeps to the values the code gives it, and no session sends
\* more than its part, for any number of connections and any file.
THEOREM TypeCorrect == Spec => []TypeOK
<1>1. Typed => TypeOK
  BY Zenon DEF Typed, StartTyped, TransferTyped, Bounded, TypeOK
<1> QED BY TypedAlways, <1>1, PTL
-----------------------------------------------------------------------------
(* A short file is loaded only after one was left so. *)

\* A file that is short was left so by a process or a full disk, or is still
\* being written, by a process that has what it sends.
FileInv ==
    /\ file = "short" => cut \/ writing
    /\ writing => lpc \notin {"none", "file"}
    /\ data = "short" => cut

LEMMA FileStep == Typed /\ FileInv /\ [Next]_vars => FileInv'
<1> SUFFICES ASSUME Typed, FileInv, [Next]_vars PROVE FileInv'
  OBVIOUS
<1>1. CASE Starting /\ ~NoSuchProtocol
  <2>1. /\ UNCHANGED <<data, file, writing, cut>>
        /\ lpc' = lpc \/ mpc = "thread"
    BY <1>1 DEF Starting, Run, CreateListener, BadFileType, ResolveAddress,
                CreateSocket, MainAborts, SetSockOpt, OptionsRefused,
                CreateThread, MonitorSpin, MainGoes, Stop
  <2> QED BY <2>1 DEF FileInv, Typed, EarlyInv, Early
<1>2. CASE Client
  <2>1. CASE LoadTestFile \/ LoadRandomFile
    BY <2>1 DEF LoadTestFile, LoadRandomFile, Loaded, ListenerGoes, FileInv,
                Typed, StartTyped
  <2>2. CASE CreateRandom
    <3>1. /\ lpc = "file" /\ lpc' = "dispatch" /\ file = "absent"
          /\ \/ data' = "null" /\ UNCHANGED <<file, writing, cut>>
             \/ data' # "short" /\ file' = "short" /\ cut' = TRUE
                /\ writing' = writing
             \/ data' = "whole" /\ writing' = TRUE /\ cut' = cut
      BY <2>2 DEF CreateRandom, StdioHasRest, ListenerGoes
    <3> QED BY <3>1 DEF FileInv
  <2>3. CASE Dispatch \/ AbortLock \/ AbortClose \/ TbAbort \/ TbExit
    BY <2>3 DEF Dispatch, AbortLock, AbortClose, TbAbort, TbExit, ListenerGoes,
                FileInv
  <2> QED BY <1>2, <2>1, <2>2, <2>3 DEF Client
<1>3. CASE Transfers
  BY <1>3, TransfersFrame DEF FileInv
<1>4. CASE Monitors
  <2>1. data' \in {data, "freed"}
    BY <1>4 DEF Monitors, MonitorTest, ResetCount, AddSession, NextSession,
                EndStats, DestroyListener
  <2> QED BY <1>4, <2>1, MonitorsFrame DEF FileInv
<1>5. CASE Ends
  <2>1. lpc' = "none" /\ data' = "null" /\ writing' = FALSE
    BY <1>5, EndsFrame DEF Forget
  <2>2. file' = "short" => cut'
    <3>1. CASE Dies
      BY <3>1 DEF Dies, FileInv
    <3>2. CASE LastThreadEnds
      BY <3>2 DEF LastThreadEnds, Flushed, FileInv
    <3> QED BY <1>5, <3>1, <3>2 DEF Ends
  <2> QED BY <2>1, <2>2 DEF FileInv
<1>6. ASSUME NEW i \in Sessions, Works(i) PROVE FileInv'
  <2>1. UNCHANGED <<data, file, writing, cut, lpc>>
    BY <1>6, WorksFrame DEF start, Typed
  <2> QED BY <2>1 DEF FileInv
<1>7. CASE UNCHANGED vars
  BY <1>7 DEF vars, start, FileInv
<1> QED BY <1>1, <1>2, <1>3, <1>4, <1>5, <1>6, <1>7, Cases

\* Over any number of runs, a client takes a part of its file from memory that
\* nobody has set only after an earlier client of this size has died, run out
\* of memory or filled the disk: what a client whose thread ends leaves to
\* exit() is whole else (tb_load_random_file 172, tb_create_random 219).
THEOREM ShortOnlyIfCut == Spec => []LoadedWhole
<1>1. Init => FileInv
  BY DEF Init, StartInit, FileInv
<1>2. FileInv => LoadedWhole
  BY DEF FileInv, LoadedWhole
<1> QED BY TypedAlways, FileStep, <1>1, <1>2, PTL DEF Spec
-----------------------------------------------------------------------------
(* The order of the listener thread's work, and the data. *)

Joined(i) == session[i].pc = "done"
Over == {"disconnect", "cleanup lock", "cleanup", "exit"}
Counting == {"reset", "add", "collect", "next", "end"}

\* How far the listener thread is says which sessions have begun, and which
\* have ended.
OrderInv ==
    /\ mpc \in Early => status = "CREATED"
    /\ lpc = "session" => \A i \in Sessions : i >= at => session[i].pc = "none"
    /\ lpc = "wait" => at = 1
    /\ lpc = "join" => \A i \in Sessions : i < at => Joined(i)
    /\ lpc \in {"lock", "close", "unlock"} =>
         \A i \in Sessions : i <= at => Joined(i)
    /\ lpc \in Over => ThreadsEnded
    /\ status \in Ending => lpc \in {"none", "done"}
    /\ status = "EXITING" => ThreadsEnded

LEMMA UntouchedEnded == Untouched => ThreadsEnded
BY DEF Untouched, ThreadsEnded, NewSession

\* A session that has ended, or that has not begun, has no step to take.
LEMMA OrderStep == Typed /\ OrderInv /\ [Next]_vars => OrderInv'
<1> SUFFICES ASSUME Typed, OrderInv, [Next]_vars PROVE OrderInv'
  OBVIOUS
<1>0. /\ at \in Sessions /\ at \in Nat
      /\ NumConn \in Nat /\ NumConn >= 1
      /\ \A i \in Sessions : i \in Nat /\ 1 <= i /\ i <= NumConn
      /\ session \in [Sessions -> Session]
  BY SessionNumbers DEF Typed, TransferTyped
<1>1. CASE Starting /\ ~NoSuchProtocol /\ UNCHANGED transfer
  <2>1. UNCHANGED <<session, at>>
    BY <1>1 DEF transfer
  <2>2. \/ /\ lpc' = lpc /\ status' = status
           /\ mpc' \in Early => mpc \in Early
        \/ mpc = "thread" /\ mpc' = "spin" /\ lpc' = "file" /\ status' = status
        \/ mpc \in Early /\ mpc' = "done" /\ lpc' = lpc /\ status' = "ABORTING"
    BY <1>1 DEF Starting, Run, CreateListener, BadFileType, ResolveAddress,
                CreateSocket, MainAborts, SetSockOpt, OptionsRefused,
                CreateThread, MonitorSpin, MainGoes, Stop, Early, Gone
  <2> QED
    BY <2>1, <2>2 DEF Typed, EarlyInv, OrderInv, Early, Over, Ending,
                      ThreadsEnded, Joined
<1>2. CASE Client /\ UNCHANGED transfer
  <2>1. UNCHANGED <<session, at, mpc>>
    BY <1>2 DEF transfer, Client, LoadTestFile, LoadRandomFile, CreateRandom,
                StdioHasRest, Dispatch, AbortLock, AbortClose, TbAbort,
                TbExit, ListenerGoes
  <2>2. mpc \notin Early
    BY <1>2 DEF Typed, EarlyInv, Client, LoadTestFile, LoadRandomFile,
       CreateRandom, StdioHasRest, Dispatch, AbortLock, AbortClose, TbAbort,
       TbExit, ListenerGoes
  <2>3. CASE TbExit
    BY <2>1, <2>2, <2>3 DEF TbExit, ListenerGoes, OrderInv, Over, ThreadsEnded,
                            Ending
  <2>4. CASE TbAbort
    BY <2>1, <2>2, <2>4 DEF TbAbort, ListenerGoes, OrderInv, Over, Ending
  <2>5. CASE Dispatch
    <3>1. Untouched /\ status \notin Ending
      BY <2>5 DEF Dispatch, ListenerGoes, Typed, EarlyInv, OrderInv
    <3>2. \A i \in Sessions : session[i].pc = "none"
      BY <3>1 DEF Untouched, NewSession
    <3> QED BY <2>1, <2>2, <2>5, <3>1, <3>2
               DEF Dispatch, ListenerGoes, OrderInv, Over, Ending
  <2>6. CASE LoadTestFile \/ LoadRandomFile \/ CreateRandom \/ AbortLock
             \/ AbortClose
    <3>1. /\ status \notin Ending /\ status' \in {status, "DISCONNECTED"}
          /\ lpc' \in {"dispatch", "abort close", "abort status"}
      BY <2>6 DEF LoadTestFile, LoadRandomFile, CreateRandom, StdioHasRest,
                  AbortLock, AbortClose, ListenerGoes, OrderInv
    <3> QED BY <2>1, <2>2, <3>1 DEF OrderInv, Over, Ending
  <2> QED BY <1>2, <2>3, <2>4, <2>5, <2>6 DEF Client
<1>3. CASE Transfers
  <2>0. /\ mpc' = mpc /\ mpc \notin Early
        /\ status \notin Ending /\ status' \notin Ending
    <3>1. lpc \notin {"none", "done"}
      BY <1>3, TransfersFrame
    <3>2. status' \in {status, "CONNECTED", "DISCONNECTED"}
      BY <1>3 DEF Transfers, SetupFails, CreateSession, CreateFails,
         WaitForFirst, Join, LockSession, CloseSocket, UnlockSession,
         Disconnect, CleanupLock, Cleanup, rest
    <3> QED BY <1>3, <3>1, <3>2, TransfersFrame
               DEF OrderInv, Typed, EarlyInv, Ending
  <2> USE <2>0 DEF OrderInv, Over, Ending
  <2>1. CASE SetupFails
    <3>1. \A i \in Sessions : session[i].pc = "none"
      BY <1>0, <2>1 DEF SetupFails, ListenerGoes, Typed, EarlyInv
    <3> QED BY <2>1, <3>1 DEF SetupFails, ListenerGoes, rest, ThreadsEnded
  <2>2. CASE CreateSession
    <3>1. /\ lpc = "session" /\ at' = IF at = NumConn THEN 1 ELSE at + 1
          /\ lpc' = IF at = NumConn THEN "wait" ELSE "session"
          /\ \A i \in Sessions : i # at => session'[i] = session[i]
      BY <1>0, <2>2 DEF CreateSession, ListenerGoes
    <3>2. ASSUME at # NumConn, NEW i \in Sessions, i >= at'
          PROVE session'[i].pc = "none"
      BY <1>0, <3>1, <3>2
    <3> QED BY <3>1, <3>2
  <2>3. CASE CreateFails
    BY <2>3 DEF CreateFails, ListenerGoes
  <2>4. CASE WaitForFirst
    BY <1>0, <2>4 DEF WaitForFirst, ListenerGoes, transfer
  <2>5. CASE Join
    BY <1>0, <2>5 DEF Join, ListenerGoes, rest, Joined
  <2>6. CASE LockSession \/ CloseSocket
    <3>1. /\ lpc \in {"lock", "close"} /\ lpc' \in {"close", "unlock"}
          /\ at' = at
          /\ \A i \in Sessions : session'[i].pc = session[i].pc
      <4>1. CASE CloseSocket
        <5>1. \E sock : session' = [session EXCEPT ![at].sock_d = sock]
          BY <4>1 DEF CloseSocket
        <5> QED BY <1>0, <4>1, <5>1 DEF CloseSocket, ListenerGoes, Session
      <4>2. CASE LockSession
        BY <1>0, <4>2 DEF LockSession, ListenerGoes, Session
      <4> QED BY <2>6, <4>1, <4>2
    <3> QED BY <3>1 DEF Joined
  <2>7. CASE UnlockSession
    <3>1. /\ lpc = "unlock"
          /\ lpc' = IF at = NumConn THEN AfterSessions ELSE "join"
          /\ at' = IF at = NumConn THEN at ELSE at + 1
          /\ \A i \in Sessions : session'[i].pc = session[i].pc
      BY <1>0, <2>7 DEF UnlockSession, AllJoined, ListenerGoes, Session
    <3>2. CASE at = NumConn
      <4>1. \A i \in Sessions : session'[i].pc = "done"
        BY <1>0, <3>1, <3>2 DEF Joined
      <4> QED BY <3>1, <3>2, <4>1 DEF AfterSessions, ThreadsEnded
    <3>3. CASE at # NumConn
      <4>1. \A i \in Sessions : i < at' => session'[i].pc = "done"
        BY <1>0, <3>1, <3>3 DEF Joined
      <4> QED BY <3>1, <3>3, <4>1 DEF Joined
    <3> QED BY <3>2, <3>3
  <2>8. CASE Disconnect \/ CleanupLock \/ Cleanup
    <3>1. /\ session' = session /\ lpc \in {"disconnect", "cleanup lock",
                                            "cleanup"}
          /\ lpc' \in {"cleanup", "exit"}
      BY <2>8 DEF Disconnect, CleanupLock, Cleanup, ListenerGoes, transfer
    <3> QED BY <3>1 DEF ThreadsEnded
  <2> QED
    BY <1>3, <2>1, <2>2, <2>3, <2>4, <2>5, <2>6, <2>7, <2>8 DEF Transfers
<1>4. CASE Monitors
  <2>1. \A i \in Sessions : session'[i].pc = session[i].pc
    <3>1. CASE AddSession
      <4>1. \E lock : session' = [session EXCEPT ![cur].stat_lock = lock]
        BY <3>1 DEF AddSession
      <4> QED BY <1>0, <4>1 DEF Session
    <3>2. CASE ~AddSession
      BY <1>0, <1>4, <3>2 DEF Monitors, MonitorTest, ResetCount, NextSession,
                              EndStats, DestroyListener, Session
    <3> QED BY <3>1, <3>2
  <2> QED
    BY <1>4, <2>1, MonitorsFrame DEF OrderInv, Joined, ThreadsEnded
<1>5. CASE Ends
  <2>1. lpc' = "none" /\ status' = "CREATED"
    BY <1>5, EndsFrame DEF Forget
  <2> QED BY <2>1 DEF OrderInv, Over, Ending
<1>6. ASSUME NEW i \in Sessions, Works(i) PROVE OrderInv'
  <2>1. UNCHANGED <<mpc, lpc, status, at>>
    BY <1>6, WorksFrame DEF start, Typed
  <2>2. /\ session[i].pc \in {"connect", "send"}
        /\ \A j \in Sessions : j # i => session'[j] = session[j]
    BY <1>6, WorksFrame DEF Typed
  <2>3. \A j \in Sessions : session[j].pc \in {"none", "done"} =>
                              session'[j].pc = session[j].pc
    BY <2>2
  <2> QED BY <2>1, <2>3 DEF OrderInv, Joined, ThreadsEnded
<1>7. CASE UNCHANGED vars
  BY <1>7 DEF vars, start, transfer, OrderInv, Joined, ThreadsEnded
<1> QED BY <1>1, <1>2, <1>3, <1>4, <1>5, <1>6, <1>7, Cases

\* The main thread leaves its loop, reads once more, and frees the data.
DataInv ==
    /\ final /\ mpc \in Counting => status \in Ending
    /\ mpc = "destroy" => status \in Ending
    /\ data = "freed" => status \in Ending /\ mpc = "done"

LEMMA DataStep == Typed /\ OrderInv /\ DataInv /\ [Next]_vars => DataInv'
<1> SUFFICES ASSUME Typed, OrderInv, DataInv, [Next]_vars PROVE DataInv'
  OBVIOUS
<1>1. CASE Starting /\ ~NoSuchProtocol /\ UNCHANGED transfer
  <2>1. /\ mpc \in Early \cup {"spin"}
        /\ mpc' \in Early \cup {"spin", "test", "done"} /\ data' = data
    BY <1>1 DEF Starting, Run, CreateListener, BadFileType, ResolveAddress,
                CreateSocket, MainAborts, SetSockOpt, OptionsRefused,
                CreateThread, MonitorSpin, MainGoes, Stop, Early, Gone
  <2> QED BY <2>1 DEF DataInv, Early, Counting
<1>2. CASE Client /\ UNCHANGED transfer
  <2>1. lpc \notin {"none", "done"} /\ mpc' = mpc /\ final' = final
    BY <1>2 DEF Client, LoadTestFile, LoadRandomFile, CreateRandom,
                StdioHasRest, Dispatch, AbortLock, AbortClose, TbAbort,
                TbExit, ListenerGoes, transfer
  <2>2. status \notin Ending
    BY <2>1 DEF OrderInv
  <2>3. data' \in {data, "null", "short", "whole"}
    BY <1>2 DEF Client, LoadTestFile, LoadRandomFile, Loaded, CreateRandom,
                StdioHasRest, Dispatch, AbortLock, AbortClose, TbAbort, TbExit
  <2> QED BY <2>1, <2>2, <2>3 DEF DataInv
<1>3. CASE Transfers
  <2>1. status \notin Ending
    BY <1>3, TransfersFrame DEF OrderInv
  <2> QED BY <1>3, <2>1, TransfersFrame DEF DataInv
<1>4. CASE Monitors
  <2>1. CASE MonitorTest
    BY <1>4, <2>1, MonitorsFrame DEF MonitorTest, MonitorGoes, AfterTest,
                                     DataInv, Counting
  <2>2. CASE DestroyListener
    BY <1>4, <2>2, MonitorsFrame DEF DestroyListener, MonitorGoes, DataInv,
                                     Counting
  <2>3. CASE ResetCount \/ AddSession \/ NextSession \/ EndStats
    <3>1. /\ mpc \in Counting /\ final' = final /\ data' = data
          /\ mpc' \in Counting \cup {"test", "destroy"}
          /\ mpc' = "destroy" => final
      BY <2>3 DEF ResetCount, AddSession, NextSession, EndStats, MonitorGoes,
                  Counting
    <3> QED BY <1>4, <3>1, MonitorsFrame DEF DataInv, Counting
  <2> QED BY <1>4, <2>1, <2>2, <2>3 DEF Monitors
<1>5. CASE Ends
  <2>1. mpc' = "gone" /\ data' = "null"
    BY <1>5, EndsFrame DEF Forget
  <2> QED BY <2>1 DEF DataInv, Counting
<1>6. ASSUME NEW i \in Sessions, Works(i) PROVE DataInv'
  <2>1. UNCHANGED <<mpc, status, data, final>>
    BY <1>6, WorksFrame DEF start, Typed
  <2> QED BY <2>1 DEF DataInv
<1>7. CASE UNCHANGED vars
  BY <1>7 DEF vars, start, transfer, DataInv
<1> QED BY <1>1, <1>2, <1>3, <1>4, <1>5, <1>6, <1>7, Cases

LEMMA OrderAlways == Spec => [](OrderInv /\ DataInv)
<1>1. Init => OrderInv /\ DataInv
  <2> SUFFICES ASSUME Init PROVE OrderInv /\ DataInv
    OBVIOUS
  <2>1. /\ lpc = "none" /\ mpc = "gone" /\ status = "CREATED" /\ data = "null"
        /\ session = [i \in Sessions |-> NewSession]
    BY DEF Init, StartInit, TransferInit
  <2> QED BY <2>1 DEF OrderInv, DataInv, Over, Ending, Counting
<1> QED BY TypedAlways, OrderStep, DataStep, <1>1, PTL DEF Spec

\* For any number of connections, and whatever fails, a client that does not
\* abort frees its data only after the last session has ended
\* (tb_stream_m_client 315-325, tb_destroy_listener 256-260).
THEOREM DataLast == Spec => []DataOutlivesSessions
<1>1. OrderInv /\ DataInv => DataOutlivesSessions
  BY DEF OrderInv, DataInv, DataOutlivesSessions, Ending
<1> QED BY OrderAlways, <1>1, PTL
-----------------------------------------------------------------------------
(* The stats of a session, and its socket. *)

\* Only a session that has ended has its lock taken, and its socket closed, by
\* the listener thread; and the monitor holds the lock of a session that it
\* has found connected, until it has collected.
SocketInv ==
    \A i \in Sessions :
        /\ session[i].stat_lock = "listener" => Joined(i)
        /\ session[i].sock_d = "closed" => Joined(i)
        /\ session[i].sock_d = "none" =>
             session[i].pc = "none" \/ protocol = "uTP"
        /\ session[i].status = "CONNECTED" => session[i].pc \in {"send", "done"}

CollectInv ==
    mpc = "collect" =>
        /\ session[cur].pc \in {"send", "done"}
        /\ session[cur].pc = "send" => session[cur].stat_lock = "main"
        /\ Failed(cur) \/ session[cur].pc = "send" \/
             /\ session[cur].stat_lock = "main" /\ session[cur].sock_d = "open"
             /\ lpc \in {"close", "unlock"} => at # cur

\* A client over uTP has no socket, so that its monitor never starts.
Monitoring == {"test", "reset", "add", "collect", "next", "end", "destroy"}
UtpInv ==
    /\ mpc \in {"gone", "create", "resolve", "socket"} => sock_d = "none"
    /\ mpc \in {"socket", "options"} => protocol # "uTP"
    /\ sock_d # "none" => protocol # "uTP"
    /\ mpc \in Monitoring => sock_d # "none"
    /\ lpc = "abort close" => sock_d # "none"

LEMMA UtpStep == Typed /\ UtpInv /\ [Next]_vars => UtpInv'
<1> SUFFICES ASSUME Typed, UtpInv, [Next]_vars PROVE UtpInv'
  OBVIOUS
<1>1. CASE Starting /\ ~NoSuchProtocol
  <2>1. /\ mpc \in Early \cup {"spin"} /\ (mpc \in Early => lpc = "none")
        /\ lpc' \in {lpc, "file"}
    BY <1>1 DEF Typed, EarlyInv, Early, Starting, Run, CreateListener, Gone,
       BadFileType, ResolveAddress, CreateSocket, MainAborts, SetSockOpt,
       OptionsRefused, CreateThread, MonitorSpin, MainGoes, Stop
  <2> USE <2>1 DEF UtpInv, Monitoring, MainGoes, Early
  <2>2. CASE Run
    BY <2>2 DEF Run, Gone
  <2>3. CASE CreateListener
    BY <2>3 DEF CreateListener
  <2>4. CASE BadFileType \/ MainAborts \/ OptionsRefused
    BY <2>4 DEF BadFileType, MainAborts, OptionsRefused, Stop
  <2>5. CASE ResolveAddress
    BY <2>5 DEF ResolveAddress
  <2>6. CASE CreateSocket
    BY <2>6 DEF CreateSocket
  <2>7. CASE SetSockOpt \/ CreateThread
    BY <2>7 DEF SetSockOpt, CreateThread
  <2>8. CASE MonitorSpin
    BY <2>8 DEF MonitorSpin
  <2> QED
    BY <1>1, <2>2, <2>3, <2>4, <2>5, <2>6, <2>7, <2>8 DEF Starting
<1>2. CASE Client
  <2>1. lpc # "none" /\ UNCHANGED <<mpc, protocol>>
    BY <1>2 DEF Client, LoadTestFile, LoadRandomFile, CreateRandom,
                StdioHasRest, Dispatch, AbortLock, AbortClose, TbAbort,
                TbExit, ListenerGoes
  <2>2. /\ sock_d' = sock_d \/ (sock_d # "none" /\ sock_d' # "none")
        /\ lpc' = "abort close" => sock_d' # "none"
    <3>1. CASE AbortLock
      BY <3>1 DEF AbortLock, ListenerGoes
    <3>2. CASE AbortClose
      BY <3>2 DEF AbortClose, ListenerGoes, UtpInv
    <3>3. CASE ~AbortLock /\ ~AbortClose
      BY <1>2, <3>3 DEF Client, LoadTestFile, LoadRandomFile, CreateRandom,
                        StdioHasRest, Dispatch, TbAbort, TbExit, ListenerGoes
    <3> QED BY <3>1, <3>2, <3>3
  <2> QED BY <2>1, <2>2 DEF UtpInv
<1>3. CASE Transfers
  <2>1. sock_d' = sock_d /\ lpc' # "abort close"
    BY <1>3 DEF Transfers, SetupFails, CreateSession, CreateFails,
       WaitForFirst, Join, LockSession, CloseSocket, UnlockSession,
       AfterSessions, Disconnect, CleanupLock, Cleanup, rest, ListenerGoes
  <2> QED BY <1>3, <2>1, TransfersFrame DEF UtpInv
<1>4. CASE Monitors
  <2>1. mpc \in Monitoring
    BY <1>4 DEF Monitors, MonitorTest, ResetCount, AddSession, NextSession,
                EndStats, DestroyListener, MonitorGoes, Monitoring
  <2> QED BY <1>4, <2>1, MonitorsFrame DEF UtpInv, Early
<1>5. CASE Ends
  BY <1>5, EndsFrame DEF Forget, UtpInv, Monitoring
<1>6. ASSUME NEW i \in Sessions, Works(i) PROVE UtpInv'
  <2>1. UNCHANGED <<mpc, lpc, sock_d, protocol>>
    BY <1>6, WorksFrame DEF start, Typed
  <2> QED BY <2>1 DEF UtpInv
<1>7. CASE UNCHANGED vars
  BY <1>7 DEF vars, start, UtpInv
<1> QED BY <1>1, <1>2, <1>3, <1>4, <1>5, <1>6, <1>7, Cases

\* What becomes of one session: the listener thread creates it, takes its lock
\* and closes its socket; the monitor takes and frees its lock; or its own
\* thread goes on.
LEMMA SocketStep ==
    Typed /\ OrderInv /\ UtpInv /\ SocketInv /\ [Next]_vars => SocketInv'
<1> SUFFICES ASSUME Typed, OrderInv, UtpInv, SocketInv, [Next]_vars
             PROVE SocketInv'
  OBVIOUS
<1>0. session \in [Sessions -> Session] /\ at \in Sessions /\ cur \in Sessions
  BY DEF Typed, TransferTyped
<1>1. CASE Starting /\ ~NoSuchProtocol /\ UNCHANGED transfer
  <2>1. session' = session
    BY <1>1 DEF transfer
  <2>2. CASE protocol' = protocol
    BY <2>1, <2>2 DEF SocketInv, Joined
  <2>3. CASE protocol' # protocol
    <3>1. Untouched
      BY <1>1, <2>3
         DEF Typed, EarlyInv, Early, Starting, Run, CreateListener,
             BadFileType, ResolveAddress, CreateSocket, MainAborts, SetSockOpt,
             OptionsRefused, CreateThread, MonitorSpin, MainGoes, Stop, Gone
    <3> QED BY <2>1, <3>1 DEF Untouched, NewSession, SocketInv
  <2> QED BY <2>2, <2>3
<1>2. CASE Client /\ UNCHANGED transfer
  BY <1>2 DEF Client, LoadTestFile, LoadRandomFile, CreateRandom,
     StdioHasRest, Dispatch, AbortLock, AbortClose, TbAbort, TbExit,
     ListenerGoes, transfer, SocketInv, Joined
<1>3. CASE Transfers
  <2>0. protocol' = protocol
    BY <1>3, TransfersFrame
  <2>1. CASE CreateSession
    <3>1. PICK sock : /\ session' = [session EXCEPT ![at] =
                           [@ EXCEPT !.pc = "connect", !.status = "ADDR_RES",
                                     !.sock_d = sock]]
                      /\ sock = "open" \/ (sock = "none" /\ protocol = "uTP")
      BY <2>1 DEF CreateSession
    <3>2. session[at].pc = "none"
      BY <2>1, SessionNumbers, <1>0 DEF CreateSession, ListenerGoes, OrderInv
    <3>3. /\ session'[at].pc = "connect" /\ session'[at].status = "ADDR_RES"
          /\ session'[at].sock_d = sock
          /\ session'[at].stat_lock = session[at].stat_lock
          /\ \A j \in Sessions : j # at => session'[j] = session[j]
      BY <1>0, <3>1 DEF Session
    <3> QED BY <2>0, <3>1, <3>2, <3>3 DEF SocketInv, Joined
  <2>2. CASE LockSession
    <3>1. Joined(at)
      BY <2>2, SessionNumbers, <1>0 DEF LockSession, ListenerGoes, OrderInv
    <3>2. /\ session'[at].pc = session[at].pc
          /\ session'[at].status = session[at].status
          /\ session'[at].sock_d = session[at].sock_d
          /\ \A j \in Sessions : j # at => session'[j] = session[j]
      BY <1>0, <2>2 DEF LockSession, Session
    <3> QED BY <2>0, <3>1, <3>2 DEF SocketInv, Joined
  <2>3. CASE CloseSocket
    <3>1. Joined(at)
      BY <2>3, SessionNumbers, <1>0 DEF CloseSocket, ListenerGoes, OrderInv
    <3>2. \/ session' = [session EXCEPT ![at].sock_d = "closed"]
          \/ session' = [session EXCEPT ![at].sock_d = @]
      BY <2>3 DEF CloseSocket
    <3>3. /\ session'[at].pc = session[at].pc
          /\ session'[at].status = session[at].status
          /\ session'[at].stat_lock = session[at].stat_lock
          /\ session'[at].sock_d = "none" => session[at].sock_d = "none"
          /\ \A j \in Sessions : j # at => session'[j] = session[j]
      BY <1>0, <3>2 DEF Session
    <3> QED BY <2>0, <3>1, <3>3 DEF SocketInv, Joined
  <2>4. CASE UnlockSession
    <3>1. /\ session'[at].pc = session[at].pc
          /\ session'[at].status = session[at].status
          /\ session'[at].sock_d = session[at].sock_d
          /\ session'[at].stat_lock = "free"
          /\ \A j \in Sessions : j # at => session'[j] = session[j]
      BY <1>0, <2>4 DEF UnlockSession, Session
    <3> QED BY <2>0, <3>1 DEF SocketInv, Joined
  <2>5. CASE session' = session
    BY <2>0, <2>5 DEF SocketInv, Joined
  <2> QED
    BY <1>3, <2>1, <2>2, <2>3, <2>4, <2>5
       DEF Transfers, SetupFails, CreateFails, WaitForFirst, Join, Disconnect,
           CleanupLock, Cleanup, transfer
<1>4. CASE Monitors
  <2>1. \/ session' = session
        \/ \E lock : /\ session' = [session EXCEPT ![cur].stat_lock = lock]
                     /\ lock = "listener" => session[cur].stat_lock = lock
    BY <1>4 DEF Monitors, MonitorTest, ResetCount, AddSession, NextSession,
                EndStats, DestroyListener
  <2>2. \A j \in Sessions :
          /\ session'[j].pc = session[j].pc
          /\ session'[j].status = session[j].status
          /\ session'[j].sock_d = session[j].sock_d
          /\ session'[j].stat_lock = "listener" =>
               session[j].stat_lock = "listener"
    BY <1>0, <2>1 DEF Session
  <2> QED BY <1>4, <2>2, MonitorsFrame DEF SocketInv, Joined
<1>5. CASE Ends
  <2>1. CASE ForgetTransfer
    BY <2>1 DEF ForgetTransfer, SocketInv, NewSession
  <2>2. CASE UNCHANGED transfer
    BY <1>5, <2>2, EndsFrame DEF Forget, transfer, SocketInv, Joined
  <2> QED BY <1>5, <2>1, <2>2, EndsFrame
<1>6. ASSUME NEW i \in Sessions, Works(i) PROVE SocketInv'
  <2>1. /\ protocol' = protocol /\ session[i].pc \in {"connect", "send"}
        /\ \A j \in Sessions : j # i => session'[j] = session[j]
    BY <1>6, WorksFrame DEF start, Typed
  <2>2. /\ session'[i].stat_lock = session[i].stat_lock
        /\ session'[i].sock_d = session[i].sock_d
        /\ session'[i].status = "CONNECTED" =>
             session'[i].pc \in {"send", "done"}
    <3>0. session[i] \in Session
      BY <1>0
    <3> USE DEF SessionGoes, Session
    <3>1. CASE Connect(i)
      BY <1>0, <3>0, <3>1 DEF Connect
    <3>2. CASE Fails(i)
      BY <1>0, <3>0, <3>2 DEF Fails
    <3>3. CASE Send(i)
      <4>1. \E total : session' = [session EXCEPT ![i] =
                         [session[i] EXCEPT !.total_bytes = total]]
        BY <3>3 DEF Send
      <4> QED BY <1>0, <2>1, <3>0, <4>1 DEF SocketInv
    <3>4. CASE Complete(i)
      <4>1. \E stat : session' = [session EXCEPT ![i] =
                         [session[i] EXCEPT !.pc = "done", !.status = stat]]
        BY <3>4 DEF Complete
      <4> QED BY <1>0, <3>0, <4>1
    <3> QED BY <1>6, <3>1, <3>2, <3>3, <3>4 DEF Works
  <2> QED BY <2>1, <2>2 DEF SocketInv, Joined
<1>7. CASE UNCHANGED vars
  BY <1>7 DEF vars, start, transfer, SocketInv, Joined
<1> QED BY <1>1, <1>2, <1>3, <1>4, <1>5, <1>6, <1>7, Cases

LEMMA CollectStep ==
    /\ Typed /\ OrderInv /\ UtpInv /\ SocketInv /\ CollectInv /\ [Next]_vars
    => CollectInv'
<1> SUFFICES ASSUME Typed, OrderInv, UtpInv, SocketInv, CollectInv,
                    [Next]_vars, mpc' = "collect"
             PROVE CollectInv'
  BY DEF CollectInv
<1>0. session \in [Sessions -> Session] /\ at \in Sessions /\ cur \in Sessions
  BY DEF Typed, TransferTyped
<1> DEFINE Held == /\ session[cur].stat_lock = "main"
                   /\ session[cur].sock_d = "open"
                   /\ lpc \in {"close", "unlock"} => at # cur
<1> USE DEF CollectInv, Failed
<1>1. CASE Starting /\ ~NoSuchProtocol /\ UNCHANGED transfer
  BY <1>1 DEF Starting, Run, CreateListener, BadFileType, ResolveAddress,
              CreateSocket, MainAborts, SetSockOpt, OptionsRefused,
              CreateThread, MonitorSpin, MainGoes, Stop
<1>2. CASE Client /\ UNCHANGED transfer
  <2>1. /\ UNCHANGED <<mpc, session, cur, at>>
        /\ lpc' \notin {"close", "unlock"}
    BY <1>2 DEF Client, LoadTestFile, LoadRandomFile, CreateRandom,
       StdioHasRest, Dispatch, AbortLock, AbortClose, TbAbort, TbExit,
       ListenerGoes, transfer
  <2> QED BY <2>1
<1>3. CASE Transfers
  <2>0. mpc = "collect" /\ cur' = cur
    BY <1>3, TransfersFrame
  <2>1. CASE CreateSession
    <3>1. session[at].pc = "none"
      BY <2>1, SessionNumbers, <1>0 DEF CreateSession, ListenerGoes, OrderInv
    <3>2. at # cur
      BY <2>0, <3>1
    <3>3. session'[cur] = session[cur] /\ lpc' \notin {"close", "unlock"}
      BY <1>0, <2>1, <3>2 DEF CreateSession, ListenerGoes
    <3> QED BY <2>0, <3>3
  <2>2. CASE LockSession
    <3>1. /\ lpc = "lock" /\ at' = at /\ session[at].stat_lock = "free"
          /\ session[at].pc = "done"
      BY <2>2, SessionNumbers, <1>0
         DEF LockSession, LockFree, ListenerGoes, OrderInv, rest, Joined
    <3>2. CASE at = cur
      <4>1. Failed(cur)
        BY <2>0, <3>1, <3>2
      <4>2. /\ session'[cur].pc = session[cur].pc
            /\ session'[cur].status = session[cur].status
        BY <1>0, <2>2, <3>2 DEF LockSession, Session
      <4> QED BY <2>0, <4>1, <4>2
    <3>3. CASE at # cur
      <4>1. session'[cur] = session[cur]
        BY <1>0, <2>2, <3>3 DEF LockSession
      <4> QED BY <2>0, <3>1, <3>3, <4>1
    <3> QED BY <3>2, <3>3
  <2>3. CASE CloseSocket \/ UnlockSession
    <3>1. /\ lpc \in {"close", "unlock"} /\ session[at].pc = "done"
      BY <2>3, SessionNumbers, <1>0
         DEF CloseSocket, UnlockSession, ListenerGoes, OrderInv, Joined
    <3>2. CASE at = cur
      <4>1. Failed(cur)
        BY <2>0, <3>1, <3>2
      <4>2. /\ session'[cur].pc = session[cur].pc
            /\ session'[cur].status = session[cur].status
        <5>1. CASE CloseSocket
          <6>1. \/ session' = [session EXCEPT ![at].sock_d = "closed"]
                \/ session' = [session EXCEPT ![at].sock_d = @]
            BY <5>1 DEF CloseSocket
          <6> QED BY <1>0, <3>2, <6>1 DEF Session
        <5>2. CASE UnlockSession
          BY <1>0, <3>2, <5>2 DEF UnlockSession, Session
        <5> QED BY <2>3, <5>1, <5>2
      <4> QED BY <2>0, <4>1, <4>2
    <3>3. CASE at # cur
      <4>1. /\ session'[cur] = session[cur]
            /\ at' = at \/ lpc' \notin {"close", "unlock"}
        BY <1>0, <2>3, <3>3 DEF CloseSocket, UnlockSession, AfterSessions,
                                ListenerGoes
      <4> QED BY <2>0, <3>1, <3>3, <4>1
    <3> QED BY <3>2, <3>3
  <2>4. CASE session' = session /\ lpc' \notin {"close", "unlock"}
    BY <2>0, <2>4
  <2> QED
    BY <1>3, <2>1, <2>2, <2>3, <2>4
       DEF Transfers, SetupFails, CreateFails, WaitForFirst, Join, Disconnect,
           CleanupLock, Cleanup, transfer, ListenerGoes
<1>4. CASE Monitors
  <2>1. AddSession
    BY <1>4 DEF Monitors, MonitorTest, AfterTest, ResetCount, NextSession,
                EndStats, DestroyListener, MonitorGoes
  <2>2. session[cur].status = "CONNECTED" /\ cur' = cur
    BY <2>1 DEF AddSession, MonitorGoes
  <2>3. session[cur].pc \in {"send", "done"}
    BY <1>0, <2>2 DEF SocketInv
  <2>4. PICK lock : /\ session' = [session EXCEPT ![cur].stat_lock = lock]
                    /\ IF session[cur].stat_lock = "free"
                       THEN lock = "main"
                       ELSE lock = session[cur].stat_lock
    BY <1>0, <2>1 DEF AddSession
  <2>5. /\ session'[cur].pc = session[cur].pc
        /\ session'[cur].status = session[cur].status
        /\ session'[cur].stat_lock = lock
    BY <1>0, <2>4 DEF Session
  <2>6. session[cur].pc = "send" => lock = "main"
    BY <1>0, <2>4 DEF SocketInv, Joined, Session
  <2> QED BY <2>2, <2>3, <2>5, <2>6
<1>5. CASE Ends
  BY <1>5, EndsFrame DEF Forget
<1>6. ASSUME NEW i \in Sessions, Works(i) PROVE CollectInv'
  <2>1. /\ UNCHANGED <<mpc, lpc, at, cur, protocol, sock_d>>
        /\ session[i].pc \in {"connect", "send"}
        /\ \A j \in Sessions : j # i => session'[j] = session[j]
    BY <1>6, WorksFrame DEF start, Typed
  <2>2. CASE i # cur
    BY <1>0, <2>1, <2>2
  <2>3. CASE i = cur
    <3>0. /\ session[i] \in Session /\ session[i].pc = "send"
          /\ session[i].stat_lock = "main"
      BY <1>0, <2>1, <2>3
    <3>1. session[i].sock_d = "open"
      <4>1. protocol # "uTP"
        BY <2>1 DEF UtpInv, Monitoring
      <4> QED BY <3>0, <4>1 DEF SocketInv, Joined, Session
    <3>2. lpc \in {"close", "unlock"} => at # i
      BY <1>0, <3>0, SessionNumbers DEF OrderInv, Joined
    <3>3. CASE Fails(i)
      <4>1. session' = [session EXCEPT ![i] = [session[i] EXCEPT !.pc = "done"]]
        BY <3>3 DEF Fails, SessionGoes
      <4>2. /\ session'[i].pc = "done"
            /\ session'[i].sock_d = "open" /\ session'[i].stat_lock = "main"
        BY <1>0, <3>0, <3>1, <4>1 DEF Session
      <4> QED BY <2>1, <2>3, <3>2, <4>2
    <3>4. CASE Send(i)
      <4>1. \E total : session' = [session EXCEPT ![i] =
                         [session[i] EXCEPT !.total_bytes = total]]
        BY <3>4 DEF Send, SessionGoes
      <4>2. /\ session'[i].pc = "send"
            /\ session'[i].sock_d = "open" /\ session'[i].stat_lock = "main"
        BY <1>0, <3>0, <3>1, <4>1 DEF Session
      <4> QED BY <2>1, <2>3, <3>2, <4>2
    <3>5. CASE Complete(i)
      <4>1. \E stat : session' = [session EXCEPT ![i] =
                         [session[i] EXCEPT !.pc = "done", !.status = stat]]
        BY <3>5 DEF Complete, SessionGoes
      <4>2. /\ session'[i].pc = "done"
            /\ session'[i].sock_d = "open" /\ session'[i].stat_lock = "main"
        BY <1>0, <3>0, <3>1, <4>1 DEF Session
      <4> QED BY <2>1, <2>3, <3>2, <4>2
    <3>6. ~Connect(i)
      BY <3>0 DEF Connect, SessionGoes
    <3> QED BY <1>6, <3>3, <3>4, <3>5, <3>6 DEF Works
  <2> QED BY <2>2, <2>3
<1>7. CASE UNCHANGED vars
  BY <1>7 DEF vars, start, transfer
<1> QED BY <1>1, <1>2, <1>3, <1>4, <1>5, <1>6, <1>7, Cases

\* For any number of sessions, in whatever order they end, the monitor asks no
\* closed socket for its stats, but that of a session that has failed
\* (tb_set_m_stats 473-476, tb_stream_m_client 319-322).
THEOREM CollectsOpen == Spec => []CollectsFromOpenSocket
<1>1. Init => UtpInv /\ SocketInv /\ CollectInv
  <2> SUFFICES ASSUME Init PROVE UtpInv /\ SocketInv /\ CollectInv
    OBVIOUS
  <2>1. /\ lpc = "none" /\ mpc = "gone" /\ sock_d = "none"
        /\ session = [i \in Sessions |-> NewSession]
    BY DEF Init, StartInit, TransferInit
  <2> QED BY <2>1 DEF UtpInv, Monitoring, SocketInv, CollectInv, NewSession
<1>2. Typed /\ UtpInv /\ SocketInv /\ CollectInv => CollectsFromOpenSocket
  <2> SUFFICES ASSUME Typed, UtpInv, SocketInv, CollectInv, mpc = "collect"
               PROVE session[cur].sock_d = "open" \/ Failed(cur)
    BY DEF CollectsFromOpenSocket
  <2>1. cur \in Sessions /\ session[cur] \in Session
    BY DEF Typed, TransferTyped
  <2>2. protocol # "uTP"
    BY DEF UtpInv, Monitoring
  <2>3. CASE session[cur].pc = "send"
    BY <2>1, <2>2, <2>3 DEF SocketInv, Joined, Session
  <2>4. CASE session[cur].pc # "send"
    BY <2>4 DEF CollectInv
  <2> QED BY <2>3, <2>4
<1> QED
  BY TypedAlways, OrderAlways, UtpStep, SocketStep, CollectStep, <1>1, <1>2,
     PTL DEF Spec

\* Over uTP the main thread never gets beyond its wait for the socket, which is
\* why ProcessEnds leaves uTP out (tb_monitor 303).
THEOREM UtpNotMonitored == Spec => [](protocol = "uTP" => mpc \notin Monitoring)
<1>1. Init => UtpInv
  BY DEF Init, StartInit, UtpInv, Monitoring
<1>2. UtpInv => (protocol = "uTP" => mpc \notin Monitoring)
  BY DEF UtpInv
<1> QED BY TypedAlways, UtpStep, <1>1, <1>2, PTL DEF Spec
-----------------------------------------------------------------------------
(* The last report. *)

\* What the first n sessions have sent.
Sent(n) == [i \in Sessions |-> IF i <= n THEN session[i].total_bytes ELSE 0]
Counted(n) == SumFunction(Sent(n))

LEMMA SentTyped ==
    ASSUME TransferTyped, NEW n
    PROVE  /\ Sent(n) \in [Sessions -> Nat] /\ Sent(n) \in [Sessions -> Int]
           /\ IsFiniteSet(Sessions) /\ Summable(Sent(n))
<1>1. \A i \in Sessions : session[i].total_bytes \in Nat
  BY DEF TransferTyped, Session
<1>2. Sent(n) \in [Sessions -> Nat]
  BY <1>1 DEF Sent
<1>3. IsFiniteSet(Sessions)
  BY FS_Interval, SessionNumbers DEF Sessions
<1> QED BY <1>2, <1>3 DEF Summable

\* The walk begins with nothing, and adds one session after the other.
LEMMA CountedFirst == TransferTyped => Counted(0) = 0
<1> SUFFICES ASSUME TransferTyped PROVE Counted(0) = 0
  OBVIOUS
<1>1. Summable(Sent(0)) /\ IsFiniteSet(Sessions) /\ DOMAIN Sent(0) = Sessions
  BY SentTyped
<1>2. \A i \in DOMAIN Sent(0) : Sent(0)[i] = 0
  BY <1>1, SessionNumbers DEF Sent
<1>3. SumFunction(Sent(0)) = 0 * Cardinality(DOMAIN Sent(0))
  BY <1>1, <1>2, SumConstant
<1>4. Cardinality(DOMAIN Sent(0)) \in Nat
  BY <1>1, FS_CardinalityType
<1> QED BY <1>3, <1>4 DEF Counted

LEMMA CountedNext ==
    ASSUME TransferTyped, NEW i \in Sessions
    PROVE  Counted(i) = Counted(i - 1) + session[i].total_bytes
<1>1. /\ Summable(Sent(i - 1)) /\ Summable(Sent(i))
      /\ DOMAIN Sent(i) = Sessions /\ DOMAIN Sent(i - 1) = Sessions
  BY SentTyped
<1>2. \A j \in Sessions : j # i => Sent(i)[j] = Sent(i - 1)[j]
  BY SessionNumbers DEF Sent
<1>3. Sent(i)[i] = session[i].total_bytes /\ Sent(i - 1)[i] = 0
  BY SessionNumbers DEF Sent
<1>4. SumFunction(Sent(i))
        = SumFunction(Sent(i - 1)) + Sent(i)[i] - Sent(i - 1)[i]
  BY <1>1, <1>2, SumChanged
<1>5. /\ SumFunction(Sent(i - 1)) \in Int /\ session[i].total_bytes \in Int
  BY <1>1, SumType DEF TransferTyped, Session
<1> QED BY <1>3, <1>4, <1>5 DEF Counted

\* The whole walk counts what all sessions have sent.
LEMMA CountedAll ==
    Sent(NumConn) = [i \in Sessions |-> session[i].total_bytes]
BY SessionNumbers DEF Sent

\* A step that leaves what the sessions have sent leaves the counts.
LEMMA CountedSame ==
    ASSUME NEW n, \A i \in Sessions :
                    session'[i].total_bytes = session[i].total_bytes
    PROVE  Counted(n)' = Counted(n)
BY DEF Counted, Sent

\* A session that is in the list has begun, and one that is complete has sent
\* its part.
SentInv ==
    \A i \in Sessions :
        /\ i <= added => session[i].pc # "none"
        /\ session[i].pc # "none" => session[i].status # "CREATED"
        /\ session[i].status \in {"COMPLETE", "DISCONNECTED"} =>
             session[i].total_bytes = DataSize

\* The listener thread exits when all sessions have been in the list, or, over
\* uTP, when it could not begin.
AllInv ==
    /\ lpc \in {"wait", "join", "lock", "close", "unlock"} => added = NumConn
    /\ lpc \in Over \/ status = "EXITING" =>
         added = NumConn \/ protocol = "uTP"

\* How far the last read of a client that exits has come.
WalkInv ==
    /\ mpc = "done" => status \in Ending
    /\ status = "EXITING" =>
         /\ final /\ mpc = "add" => total_tx_rx = Counted(cur - 1)
         /\ final /\ mpc \in {"collect", "next"} => total_tx_rx = Counted(cur)
         /\ (final /\ mpc = "end") \/ mpc \in {"destroy", "done"} =>
              total_tx_rx = Counted(NumConn)
         /\ mpc = "done" => protocol # "uTP"

\* No step but a session's own, and its creation, changes what it has sent or
\* how far it is.
LEMMA MonitorsSessions ==
    ASSUME TransferTyped, Monitors
    PROVE  \A i \in Sessions :
             /\ session'[i].pc = session[i].pc
             /\ session'[i].status = session[i].status
             /\ session'[i].total_bytes = session[i].total_bytes
<1>0. session \in [Sessions -> Session]
  BY DEF TransferTyped
<1>1. \/ session' = session
      \/ \E lock : session' = [session EXCEPT ![cur].stat_lock = lock]
  BY DEF Monitors, MonitorTest, ResetCount, AddSession, NextSession, EndStats,
         DestroyListener
<1> QED BY <1>0, <1>1 DEF Session

LEMMA TransfersSessions ==
    ASSUME TransferTyped, Transfers, ~CreateSession
    PROVE  /\ added' = added
           /\ \A i \in Sessions :
                /\ session'[i].pc = session[i].pc
                /\ session'[i].status = session[i].status
                /\ session'[i].total_bytes = session[i].total_bytes
<1>0. session \in [Sessions -> Session]
  BY DEF TransferTyped
<1>1. \/ session' = session
      \/ \E lock : session' = [session EXCEPT ![at].stat_lock = lock]
      \/ \E sock : session' = [session EXCEPT ![at].sock_d = sock]
  BY DEF Transfers, SetupFails, CreateFails, WaitForFirst, Join, LockSession,
         CloseSocket, UnlockSession, Disconnect, CleanupLock, Cleanup, transfer
<1>2. added' = added
  BY DEF Transfers, SetupFails, CreateFails, WaitForFirst, Join, LockSession,
         CloseSocket, UnlockSession, Disconnect, CleanupLock, Cleanup, transfer
<1> QED BY <1>0, <1>1, <1>2 DEF Session

LEMMA UntouchedSent == Untouched => SentInv
BY SessionNumbers DEF Untouched, NewSession, SentInv

LEMMA SentStep == Typed /\ OrderInv /\ SentInv /\ [Next]_vars => SentInv'
<1> SUFFICES ASSUME Typed, OrderInv, SentInv, [Next]_vars PROVE SentInv'
  OBVIOUS
<1>0. /\ session \in [Sessions -> Session] /\ at \in Sessions /\ TransferTyped
      /\ added \in Nat
  BY SessionNumbers DEF Typed, TransferTyped
<1>1. CASE Starting /\ ~NoSuchProtocol /\ UNCHANGED transfer
  <2>1. UNCHANGED <<session, added>>
    BY <1>1 DEF transfer
  <2>2. CASE file_size' = file_size
    BY <2>1, <2>2 DEF SentInv, DataSize
  <2>3. CASE file_size' # file_size
    <3>1. mpc \in Early
      BY <1>1, <2>3
         DEF Early, Starting, Run, CreateListener, BadFileType, ResolveAddress,
             CreateSocket, MainAborts, SetSockOpt, OptionsRefused,
             CreateThread, MonitorSpin, MainGoes, Stop, Gone
    <3>2. Untouched
      BY <3>1 DEF Typed, EarlyInv
    <3> QED BY <2>1, <3>2 DEF Untouched, NewSession, SentInv
  <2> QED BY <2>2, <2>3
<1>2. CASE Client /\ UNCHANGED transfer
  <2>1. CASE LoadTestFile
    BY <1>2, <2>1, UntouchedSent
       DEF LoadTestFile, Typed, EarlyInv, Untouched, NewSession, SentInv,
           transfer
  <2>2. CASE ~LoadTestFile
    BY <1>2, <2>2
       DEF Client, LoadRandomFile, CreateRandom, Dispatch, AbortLock,
           AbortClose, TbAbort, TbExit, ListenerGoes, transfer, SentInv,
           DataSize
  <2> QED BY <2>1, <2>2
<1>3. CASE Transfers
  <2>1. file_size' = file_size
    BY <1>3, TransfersFrame
  <2>2. CASE CreateSession
    <3>1. lpc = "session" /\ added' = at /\ added = at - 1
      BY <2>2 DEF CreateSession, ListenerGoes, Typed, EarlyInv
    <3>2. /\ session'[at].pc = "connect" /\ session'[at].status = "ADDR_RES"
          /\ \A j \in Sessions : j # at => session'[j] = session[j]
      BY <1>0, <2>2 DEF CreateSession, Session
    <3>3. \A j \in Sessions : j <= added' => j = at \/ j <= added
      BY <1>0, <3>1, SessionNumbers
    <3> QED BY <2>1, <3>2, <3>3 DEF SentInv, DataSize
  <2>3. CASE ~CreateSession
    BY <1>0, <1>3, <2>1, <2>3, TransfersSessions DEF SentInv, DataSize
  <2> QED BY <2>2, <2>3
<1>4. CASE Monitors
  BY <1>0, <1>4, MonitorsFrame, MonitorsSessions DEF SentInv, DataSize
<1>5. CASE Ends
  <2>1. CASE ForgetTransfer
    BY <1>0, <2>1, SessionNumbers DEF ForgetTransfer, NewSession, SentInv
  <2>2. CASE mpc = "create" /\ UNCHANGED transfer
    <3>1. Untouched
      BY <2>2 DEF Typed, EarlyInv, Early
    <3> QED BY <2>2, <3>1, SessionNumbers
            DEF transfer, Untouched, NewSession, SentInv
  <2> QED BY <1>5, <2>1, <2>2, EndsFrame
<1>6. ASSUME NEW i \in Sessions, Works(i) PROVE SentInv'
  <2>1. /\ added' = added /\ file_size' = file_size
        /\ session[i].pc \in {"connect", "send"}
        /\ \A j \in Sessions : j # i => session'[j] = session[j]
    BY <1>0, <1>6, WorksFrame DEF start
  <2>2. /\ session'[i].pc # "none" /\ session'[i].status # "CREATED"
        /\ session'[i].status \in {"COMPLETE", "DISCONNECTED"} =>
             session'[i].total_bytes = DataSize
    <3>0. /\ session[i] \in Session /\ session[i].status # "CREATED"
          /\ session[i].status \in {"COMPLETE", "DISCONNECTED"} =>
               session[i].total_bytes = DataSize
      BY <1>0, <2>1 DEF SentInv
    <3>1. CASE Connect(i)
      BY <1>0, <3>0, <3>1 DEF Connect, SessionGoes, Session
    <3>2. CASE Fails(i)
      BY <1>0, <3>0, <3>2 DEF Fails, SessionGoes, Session
    <3>3. CASE Send(i)
      <4>1. Left(i) > 0 /\ session[i].total_bytes \in Nat
        BY <3>0, <3>3 DEF Send, Session
      <4>2. DataSize \in Nat
        BY DataSizeNat DEF Typed
      <4>3. session[i].total_bytes # DataSize
        BY <4>1, <4>2 DEF Left
      <4>4. \E total : session' = [session EXCEPT ![i] =
                         [session[i] EXCEPT !.total_bytes = total]]
        BY <3>3 DEF Send, SessionGoes
      <4> QED BY <1>0, <2>1, <3>0, <4>3, <4>4 DEF Session
    <3>4. CASE Complete(i)
      <4>1. Left(i) <= 0 /\ session[i].total_bytes \in Nat
        BY <3>0, <3>4 DEF Complete, Session
      <4>2. session[i].total_bytes <= DataSize /\ DataSize \in Nat
        BY DataSizeNat DEF Typed, Bounded
      <4>3. session[i].total_bytes = DataSize
        BY <4>1, <4>2 DEF Left
      <4>4. \E stat \in {"COMPLETE", "DISCONNECTED"} :
              session' = [session EXCEPT ![i] =
                         [session[i] EXCEPT !.pc = "done", !.status = stat]]
        BY <3>4 DEF Complete, SessionGoes
      <4> QED BY <1>0, <3>0, <4>3, <4>4 DEF Session
    <3> QED BY <1>6, <3>1, <3>2, <3>3, <3>4 DEF Works
  <2> QED BY <2>1, <2>2 DEF SentInv, DataSize
<1>7. CASE UNCHANGED vars
  BY <1>7 DEF vars, start, transfer, SentInv, DataSize
<1> QED BY <1>1, <1>2, <1>3, <1>4, <1>5, <1>6, <1>7, Cases

LEMMA AllStep == Typed /\ OrderInv /\ AllInv /\ [Next]_vars => AllInv'
<1> SUFFICES ASSUME Typed, OrderInv, AllInv, [Next]_vars PROVE AllInv'
  OBVIOUS
<1> USE DEF AllInv, Over, Ending
<1>1. CASE Starting /\ ~NoSuchProtocol /\ UNCHANGED transfer
  <2>1. /\ lpc' \in {lpc, "file"} /\ added' = added
        /\ status' = status \/ status' = "ABORTING"
        /\ \/ protocol' = protocol
           \/ lpc' = "none" /\ status' = "CREATED"
    BY <1>1 DEF Starting, Run, CreateListener, BadFileType, ResolveAddress,
                CreateSocket, MainAborts, SetSockOpt, OptionsRefused,
                CreateThread, MonitorSpin, MainGoes, Stop, Gone, transfer,
                Typed, EarlyInv, OrderInv, Early
  <2> QED BY <2>1
<1>2. CASE Client /\ UNCHANGED transfer
  <2>1. UNCHANGED <<added, protocol>>
    BY <1>2 DEF transfer, Client, LoadTestFile, LoadRandomFile, CreateRandom,
                StdioHasRest, Dispatch, AbortLock, AbortClose, TbAbort,
                TbExit, ListenerGoes
  <2>2. \/ lpc' = "done" /\ lpc = "exit"
        \/ status' # "EXITING" /\
             lpc' \in {"dispatch", "abort", "session", "abort close",
                       "abort status", "done"}
    BY <1>2 DEF Client, LoadTestFile, LoadRandomFile, CreateRandom,
                StdioHasRest, Dispatch, AbortLock, AbortClose, TbAbort,
                TbExit, ListenerGoes, OrderInv
  <2> QED BY <2>1, <2>2
<1>3. CASE Transfers
  <2>1. /\ protocol' = protocol /\ status \notin Ending
        /\ status' \in {status, "CONNECTED", "DISCONNECTED"}
    BY <1>3, TransfersFrame
       DEF OrderInv, Transfers, SetupFails, CreateSession, CreateFails,
           WaitForFirst, Join, LockSession, CloseSocket, UnlockSession,
           Disconnect, CleanupLock, Cleanup, rest
  <2>2. CASE CreateSession
    BY <2>1, <2>2 DEF CreateSession, ListenerGoes
  <2>3. CASE ~CreateSession
    <3>1. added' = added
      BY <1>3, <2>3, TransfersSessions DEF Typed
    <3>2. \/ protocol = "uTP" \/ lpc' = "abort"
          \/ lpc \in {"wait", "join", "lock", "close", "unlock", "disconnect",
                      "cleanup lock", "cleanup"}
      BY <1>3, <2>3
         DEF Transfers, SetupFails, CreateFails, WaitForFirst, Join,
             LockSession, CloseSocket, UnlockSession, Disconnect, CleanupLock,
             Cleanup, ListenerGoes
    <3>3. lpc' \in {"wait", "join", "lock", "close", "unlock"} =>
            lpc \in {"wait", "join", "lock", "close", "unlock"}
      BY <1>3, <2>3
         DEF Transfers, SetupFails, CreateFails, WaitForFirst, Join,
             LockSession, CloseSocket, UnlockSession, AfterSessions,
             Disconnect, CleanupLock, Cleanup, ListenerGoes
    <3> QED BY <2>1, <3>1, <3>2, <3>3
  <2> QED BY <2>2, <2>3
<1>4. CASE Monitors
  BY <1>4, MonitorsFrame
<1>5. CASE Ends
  <2>1. lpc' = "none" /\ status' = "CREATED"
    BY <1>5, EndsFrame DEF Forget
  <2> QED BY <2>1
<1>6. ASSUME NEW i \in Sessions, Works(i) PROVE AllInv'
  <2>1. UNCHANGED <<lpc, status, added, protocol>>
    BY <1>6, WorksFrame DEF start, Typed
  <2> QED BY <2>1
<1>7. CASE UNCHANGED vars
  BY <1>7 DEF vars, start, transfer
<1> QED BY <1>1, <1>2, <1>3, <1>4, <1>5, <1>6, <1>7, Cases

\* The steps of the last read itself: all the sessions have ended, so that
\* what they have sent stays as it is while the main thread adds it up.
LEMMA WalkOn ==
    ASSUME Typed, AllInv, UtpInv, DataInv, WalkInv, Monitors
    PROVE  WalkInv'
<1>0. /\ TransferTyped /\ cur \in Sessions /\ cur \in Nat /\ added \in Nat
      /\ 1 \in Sessions /\ NumConn >= 1 /\ NumConn \in Nat
      /\ total_tx_rx \in Nat /\ final \in BOOLEAN
      /\ \A i \in Sessions : i <= NumConn
  BY SessionNumbers DEF Typed, TransferTyped
<1>1. UNCHANGED <<status, protocol, added>>
  BY MonitorsFrame
<1>2. Counted(0)' = 0 /\ Counted(NumConn)' = Counted(NumConn)
  <2>1. /\ Counted(0)' = Counted(0)
        /\ Counted(NumConn)' = Counted(NumConn)
    BY <1>0, MonitorsSessions, CountedSame
  <2> QED BY <1>0, <2>1, CountedFirst
<1>3. mpc # "done" /\ mpc # "spin" /\ mpc' # "spin" /\ protocol # "uTP"
  <2>1. mpc \in Monitoring
    BY DEF Monitors, MonitorTest, ResetCount, AddSession, NextSession,
           EndStats, DestroyListener, MonitorGoes, Monitoring
  <2> QED BY <2>1, MonitorsFrame DEF UtpInv, Monitoring
<1> USE DEF WalkInv
<1>4. CASE MonitorTest
  BY <1>4 DEF MonitorTest, AfterTest, MonitorGoes
<1>5. CASE ResetCount
  <2>1. /\ mpc' \in {"end", "add"} /\ (mpc' = "end" => added = 0)
        /\ total_tx_rx' = 0 /\ cur' = 1
    BY <1>5 DEF ResetCount, MonitorGoes
  <2>2. status = "EXITING" => mpc' = "add"
    BY <1>0, <1>3, <2>1 DEF AllInv
  <2>3. (Counted(cur - 1))' = 0
    <3>1. Sent(cur - 1)' = Sent(0)'
      BY <2>1 DEF Sent
    <3> QED BY <1>2, <3>1, Zenon DEF Counted
  <2> QED BY <1>1, <2>1, <2>2, <2>3
<1>6. CASE AddSession
  <2>1. /\ mpc = "add" /\ mpc' \in {"collect", "next"}
        /\ total_tx_rx' = total_tx_rx + session[cur].total_bytes
        /\ cur' = cur /\ final' = final
    BY <1>6 DEF AddSession, MonitorGoes
  <2>2. Counted(cur) = Counted(cur - 1) + session[cur].total_bytes
    BY <1>0, CountedNext
  <2>3. Counted(cur)' = Counted(cur)
    BY <1>0, <2>1, MonitorsSessions DEF Counted, Sent
  <2> QED BY <1>1, <2>1, <2>2, <2>3
<1>7. CASE NextSession
  <2>1. /\ mpc \in {"collect", "next"}
        /\ mpc' = IF cur < added THEN "add" ELSE "end"
        /\ cur' = IF cur < added THEN cur + 1 ELSE cur
        /\ total_tx_rx' = total_tx_rx /\ final' = final
    BY <1>7 DEF NextSession, MonitorGoes
  <2>2. CASE cur < added
    <3>1. cur' - 1 = cur /\ mpc' = "add"
      BY <1>0, <2>1, <2>2
    <3>2. (Counted(cur - 1))' = Counted(cur)
      BY <1>0, <3>1, MonitorsSessions DEF Counted, Sent
    <3> QED BY <1>1, <2>1, <3>1, <3>2
  <2>3. CASE ~(cur < added)
    <3>1. status = "EXITING" => cur = NumConn
      BY <1>0, <1>3, <2>3 DEF AllInv
    <3> QED BY <1>1, <1>2, <2>1, <2>3, <3>1
  <2> QED BY <2>2, <2>3
<1>8. CASE EndStats
  <2>1. /\ mpc = "end" /\ total_tx_rx' = total_tx_rx
        /\ mpc' = IF final THEN "destroy" ELSE "test"
    BY <1>8 DEF EndStats, MonitorGoes
  <2> QED BY <1>1, <1>2, <2>1
<1>9. CASE DestroyListener
  <2>1. /\ mpc = "destroy" /\ total_tx_rx' = total_tx_rx /\ mpc' = "done"
        /\ status \in Ending
    BY <1>9 DEF DestroyListener, MonitorGoes, DataInv
  <2> QED BY <1>1, <1>2, <1>3, <2>1
<1> QED BY <1>4, <1>5, <1>6, <1>7, <1>8, <1>9 DEF Monitors

LEMMA WalkStep ==
    Typed /\ OrderInv /\ DataInv /\ UtpInv /\ AllInv /\ WalkInv /\ [Next]_vars
    => WalkInv'
<1> SUFFICES ASSUME Typed, OrderInv, DataInv, UtpInv, AllInv, WalkInv,
                    [Next]_vars
             PROVE WalkInv'
  OBVIOUS
<1>1. CASE Starting /\ ~NoSuchProtocol /\ UNCHANGED transfer
  <2>1. /\ mpc' \in Early \cup {"spin", "test", "done"}
        /\ mpc' = "done" => status' = "ABORTING"
        /\ status' # "EXITING" \/ mpc' \in {"spin", "test"}
    BY <1>1 DEF Starting, Run, CreateListener, BadFileType, ResolveAddress,
                CreateSocket, MainAborts, SetSockOpt, OptionsRefused,
                CreateThread, MonitorSpin, MainGoes, Stop, Early, Gone,
                OrderInv
  <2> QED BY <2>1 DEF WalkInv, Early, Ending
<1>2. CASE Client /\ UNCHANGED transfer
  <2>1. /\ lpc \notin {"none", "done"} /\ status \notin Ending
        /\ UNCHANGED <<mpc, final>>
    BY <1>2 DEF Client, LoadTestFile, LoadRandomFile, CreateRandom,
                StdioHasRest, Dispatch, AbortLock, AbortClose, TbAbort,
                TbExit, ListenerGoes, transfer, OrderInv
  <2> QED BY <2>1 DEF WalkInv, DataInv, Counting
<1>3. CASE Transfers
  <2>1. /\ status \notin Ending /\ mpc' = mpc
        /\ status' \in {status, "CONNECTED", "DISCONNECTED"}
    BY <1>3, TransfersFrame
       DEF OrderInv, Transfers, SetupFails, CreateSession, CreateFails,
           WaitForFirst, Join, LockSession, CloseSocket, UnlockSession,
           Disconnect, CleanupLock, Cleanup, rest
  <2> QED BY <2>1 DEF WalkInv, Ending
<1>4. CASE Monitors
  BY <1>4, WalkOn
<1>5. CASE Ends
  <2>1. mpc' = "gone" /\ status' = "CREATED"
    BY <1>5, EndsFrame DEF Forget
  <2> QED BY <2>1 DEF WalkInv
<1>6. ASSUME NEW i \in Sessions, Works(i) PROVE WalkInv'
  <2>1. /\ UNCHANGED <<mpc, status>> /\ session[i].pc \in {"connect", "send"}
    BY <1>6, WorksFrame DEF start, Typed
  <2>2. status # "EXITING"
    BY <2>1 DEF OrderInv, ThreadsEnded
  <2> QED BY <2>1, <2>2 DEF WalkInv
<1>7. CASE UNCHANGED vars
  <2>1. UNCHANGED <<mpc, status, final, protocol, total_tx_rx, cur, session>>
    BY <1>7 DEF vars, start, transfer
  <2>2. /\ Counted(cur)' = Counted(cur)
        /\ Counted(cur - 1)' = Counted(cur - 1)
        /\ Counted(NumConn)' = Counted(NumConn)
    BY <2>1 DEF Counted, Sent
  <2> QED BY <2>1, <2>2 DEF WalkInv
<1> QED BY <1>1, <1>2, <1>3, <1>4, <1>5, <1>6, <1>7, Cases

\* The random data have the size that was asked for, once there is a listener
\* thread.
SizeInv ==
    ~named /\ mpc \notin {"gone", "create"} =>
        file_size = FileSize \/ (lpc = "none" /\ mpc = "done")

LEMMA SizeStep == Typed /\ SizeInv /\ [Next]_vars => SizeInv'
<1> SUFFICES ASSUME Typed, SizeInv, [Next]_vars PROVE SizeInv'
  OBVIOUS
<1>1. CASE Starting /\ ~NoSuchProtocol
  BY <1>1 DEF Starting, Run, CreateListener, BadFileType, ResolveAddress,
              CreateSocket, MainAborts, SetSockOpt, OptionsRefused,
              CreateThread, MonitorSpin, MainGoes, Stop, SizeInv, Typed,
              EarlyInv, Early
<1>2. CASE Client
  <2>1. CASE LoadTestFile
    BY <2>1 DEF LoadTestFile, SizeInv
  <2>2. CASE ~LoadTestFile
    <3>1. UNCHANGED <<named, mpc, file_size>> /\ lpc # "none"
      BY <1>2, <2>2
         DEF Client, LoadRandomFile, CreateRandom, Dispatch, AbortLock,
             AbortClose, TbAbort, TbExit, ListenerGoes
    <3> QED BY <3>1 DEF SizeInv
  <2> QED BY <2>1, <2>2
<1>3. CASE Transfers
  BY <1>3, TransfersFrame DEF SizeInv
<1>4. CASE Monitors
  BY <1>4, MonitorsFrame DEF SizeInv, Early
<1>5. CASE Ends
  BY <1>5, EndsFrame DEF Forget, SizeInv
<1>6. ASSUME NEW i \in Sessions, Works(i) PROVE SizeInv'
  BY <1>6, WorksFrame DEF start, Typed, SizeInv
<1>7. CASE UNCHANGED vars
  BY <1>7 DEF vars, start, SizeInv
<1> QED BY <1>1, <1>2, <1>3, <1>4, <1>5, <1>6, <1>7, Cases

\* What the sessions have sent, when none of them has failed.
LEMMA AllSent ==
    ASSUME Typed, SentInv, ThreadsEnded, added = NumConn, file_size = FileSize,
           \A i \in Sessions : ~Failed(i)
    PROVE  FileSize - Counted(NumConn) \in 0 .. NumConn - 1
<1>1. /\ TransferTyped /\ NumConn \in Nat /\ NumConn >= 1
      /\ \A i \in Sessions : i <= NumConn /\ session[i] \in Session
  BY SessionNumbers DEF Typed, TransferTyped
<1>2. \A i \in Sessions : session[i].total_bytes = DataSize
  BY <1>1 DEF SentInv, ThreadsEnded, Failed, Session
<1>3. Summable(Sent(NumConn)) /\ DOMAIN Sent(NumConn) = Sessions
  BY <1>1, SentTyped
<1>4. \A i \in DOMAIN Sent(NumConn) : Sent(NumConn)[i] = DataSize
  BY <1>1, <1>2, <1>3 DEF Sent
<1>5. DataSize \in Nat
  BY DataSizeNat DEF Typed
<1>6. Counted(NumConn) = DataSize * Cardinality(Sessions)
  BY <1>3, <1>4, <1>5, SumConstant DEF Counted
<1>7. Cardinality(Sessions) = NumConn
  BY <1>1, FS_Interval DEF Sessions
<1>8. /\ FileSize \div NumConn \in Nat
      /\ FileSize - NumConn * (FileSize \div NumConn) \in 0 .. NumConn - 1
  BY FileSizeAssumption, Parts
<1>9. DataSize = FileSize \div NumConn
  BY FileSizeAssumption DEF DataSize
<1>10. Counted(NumConn) = NumConn * (FileSize \div NumConn)
  BY <1>1, <1>6, <1>7, <1>8, <1>9
<1> QED BY <1>8, <1>10

\* For any number of connections, any file and any pack, and however the
\* sessions and the monitor take turns: the last report of a client that exits
\* is the sum of what its sessions have sent, and, when none of them has
\* failed, lacks less than a unit for each connection of the random data that
\* were asked for (tb_monitor 428, tb_stream_m_client 281).
THEOREM ReportFinal == Spec => []FinalReport
<1>1. Init => UtpInv /\ SentInv /\ AllInv /\ WalkInv /\ SizeInv
  <2> SUFFICES ASSUME Init
               PROVE UtpInv /\ SentInv /\ AllInv /\ WalkInv /\ SizeInv
    OBVIOUS
  <2>1. /\ lpc = "none" /\ mpc = "gone" /\ sock_d = "none"
        /\ status = "CREATED" /\ Untouched
    BY DEF Init, StartInit, TransferInit, Untouched
  <2>2. SentInv
    BY <2>1, UntouchedSent
  <2> QED BY <2>1, <2>2
          DEF UtpInv, Monitoring, AllInv, Over, WalkInv, SizeInv
<1>2. /\ Typed /\ OrderInv /\ SentInv /\ AllInv /\ WalkInv /\ SizeInv
      => FinalReport
  <2> SUFFICES ASSUME Typed, OrderInv, SentInv, AllInv, WalkInv, SizeInv,
                      mpc = "done", status = "EXITING"
               PROVE  /\ total_tx_rx = SumFunction(
                           [i \in Sessions |-> session[i].total_bytes])
                      /\ ~named /\ (\A i \in Sessions : ~Failed(i)) =>
                           FileSize - total_tx_rx \in 0 .. NumConn - 1
    BY DEF FinalReport
  <2>1. total_tx_rx = Counted(NumConn) /\ protocol # "uTP"
    BY DEF WalkInv
  <2>2. added = NumConn /\ ThreadsEnded
    BY <2>1 DEF AllInv, OrderInv
  <2>3. total_tx_rx
          = SumFunction([i \in Sessions |-> session[i].total_bytes])
    BY <2>1, CountedAll, Zenon DEF Counted
  <2>4. lpc # "none"
    BY <2>2, ConnAssumption DEF Typed, EarlyInv, Untouched
  <2>5. ~named => file_size = FileSize
    BY <2>4 DEF SizeInv
  <2>6. ~named /\ (\A i \in Sessions : ~Failed(i)) =>
          FileSize - total_tx_rx \in 0 .. NumConn - 1
    BY <2>1, <2>2, <2>5, AllSent
  <2> QED BY <2>3, <2>6
<1> QED
  BY TypedAlways, OrderAlways, UtpStep, SentStep, AllStep, WalkStep, SizeStep,
     <1>1, <1>2, PTL DEF Spec
=============================================================================
