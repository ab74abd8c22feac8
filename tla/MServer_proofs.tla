--------------------------- MODULE MServer_proofs ---------------------------
(***************************************************************************)
(* What holds of the multiple-connection server for any number of clients, *)
(* any amount of data and both transports: type correctness, that every    *)
(* accepted connection has its thread, the chain of stats, delivery, the   *)
(* monitor's count and rate, and its last report; and that the count of    *)
(* active sessions is exact unless an update of it has been lost.          *)
(*                                                                         *)
(* Each invariant is strengthened until one step preserves it; the frame   *)
(* lemmas say which actions such a proof has to look at.                   *)
(***************************************************************************)
EXTENDS MServerCount, FiniteSetTheorems, TLAPS

sharedVars == <<command, num_active_conn>>

(* Frames: which actions can disturb the variables of which thread. *)

\* Only the listener thread writes the status, the socket and the list.
LEMMA ListenerFrame == [Next]_vars => ListenerThread \/ UNCHANGED listenerVars
<1> SUFFICES ASSUME [Next]_vars PROVE ListenerThread \/ UNCHANGED listenerVars
  OBVIOUS
<1>1. ASSUME NEW c \in Clients, SessionThread(c) PROVE UNCHANGED listenerVars
  BY <1>1 DEF SessionThread, SessionConnected, Recv, RecvEnd, RecvError,
              DecLoad, DecStore, LastSession, UseAfterFree
<1>2. ASSUME NEW c \in Clients, Client(c) PROVE UNCHANGED listenerVars
  BY <1>2 DEF Client, Connect, ClientSend, ClientClose, ClientFails
<1>3. MainThread => UNCHANGED listenerVars
  BY DEF MainThread, MonitorSpin, MonitorTest, StartStats, AddSession,
         CollectStats, EndStats, MainExit
<1>4. SigAction => UNCHANGED listenerVars BY DEF SigAction
<1>5. UNCHANGED vars => UNCHANGED listenerVars BY DEF vars, listenerVars
<1> QED BY <1>1, <1>2, <1>3, <1>4, <1>5 DEF Next

\* A session is written by its own thread, and by its creation.
LEMMA SessionFrame ==
    [Next]_vars => \/ Spawn \/ \E c \in Clients : SessionThread(c)
                   \/ UNCHANGED sessionVars
<1> SUFFICES ASSUME [Next]_vars, ~Spawn, \A c \in Clients : ~SessionThread(c)
             PROVE UNCHANGED sessionVars
  OBVIOUS
<1>1. ListenerThread => UNCHANGED sessionVars
  BY DEF ListenerThread, TbListen, ListenFails, SetupPoll, SetupFails,
         NoEpoll, AbortClose, Abort, LoopTest, Poll, Accept, AcceptWouldBlock,
         AcceptFails, IncLoad, IncStore, FirstSession, CloseListener, Cleanup,
         TbExit, LogAndEnd
<1>2. ASSUME NEW c \in Clients, Client(c) PROVE UNCHANGED sessionVars
  BY <1>2 DEF Client, Connect, ClientSend, ClientClose, ClientFails
<1>3. MainThread => UNCHANGED sessionVars
  BY DEF MainThread, MonitorSpin, MonitorTest, StartStats, AddSession,
         CollectStats, EndStats, MainExit
<1>4. SigAction => UNCHANGED sessionVars BY DEF SigAction
<1>5. UNCHANGED vars => UNCHANGED sessionVars BY DEF vars, sessionVars
<1> QED BY <1>1, <1>2, <1>3, <1>4, <1>5 DEF Next

\* Nobody else writes what the monitor has read; NoEpoll ends its thread.
LEMMA MainFrame ==
    [Next]_vars => MainThread \/ NoEpoll \/ UNCHANGED mainVars
<1> SUFFICES ASSUME [Next]_vars, ~MainThread, ~NoEpoll
             PROVE UNCHANGED mainVars
  OBVIOUS
<1>1. ListenerThread => UNCHANGED mainVars
  BY DEF ListenerThread, TbListen, ListenFails, SetupPoll, SetupFails,
         AbortClose, Abort, LoopTest, Poll, Accept, AcceptWouldBlock,
         AcceptFails, IncLoad, IncStore, Spawn, FirstSession, CloseListener,
         Cleanup, TbExit, LogAndEnd
<1>2. ASSUME NEW c \in Clients, SessionThread(c) PROVE UNCHANGED mainVars
  BY <1>2 DEF SessionThread, SessionConnected, Recv, RecvEnd, RecvError,
              DecLoad, DecStore, LastSession, UseAfterFree
<1>3. ASSUME NEW c \in Clients, Client(c) PROVE UNCHANGED mainVars
  BY <1>3 DEF Client, Connect, ClientSend, ClientClose, ClientFails
<1>4. SigAction => UNCHANGED mainVars BY DEF SigAction
<1>5. UNCHANGED vars => UNCHANGED mainVars BY DEF vars, mainVars
<1> QED BY <1>1, <1>2, <1>3, <1>4, <1>5 DEF Next

\* The network changes with accept, recv, close and the clients.
LEMMA NetworkFrame ==
    [Next]_vars => \/ TbListen \/ Poll \/ Accept \/ AcceptFails
                   \/ NoEpoll \/ AbortClose \/ CloseListener \/ Cleanup
                   \/ \E c \in Clients : Recv(c) \/ Client(c)
                   \/ UNCHANGED netVars
<1> SUFFICES ASSUME [Next]_vars, ~(TbListen \/ Poll \/ Accept \/ AcceptFails),
                    ~(NoEpoll \/ AbortClose \/ CloseListener \/ Cleanup),
                    \A c \in Clients : ~(Recv(c) \/ Client(c))
             PROVE UNCHANGED netVars
  OBVIOUS
<1>1. ListenerThread => UNCHANGED netVars
  BY DEF ListenerThread, ListenFails, SetupPoll, SetupFails, Abort, LoopTest,
         AcceptWouldBlock, IncLoad, IncStore, Spawn, FirstSession, TbExit,
         LogAndEnd
<1>2. ASSUME NEW c \in Clients, SessionThread(c) PROVE UNCHANGED netVars
  BY <1>2 DEF SessionThread, SessionConnected, RecvEnd, RecvError, DecLoad,
              DecStore, LastSession, UseAfterFree
<1>3. MainThread => UNCHANGED netVars
  BY DEF MainThread, MonitorSpin, MonitorTest, StartStats, AddSession,
         CollectStats, EndStats, MainExit
<1>4. SigAction => UNCHANGED netVars BY DEF SigAction
<1>5. UNCHANGED vars => UNCHANGED netVars BY DEF vars, netVars
<1> QED BY <1>1, <1>2, <1>3, <1>4, <1>5 DEF Next

\* command and num_active_conn are the two fields that several threads write.
LEMMA SharedFrame ==
    [Next]_vars => \/ IncStore \/ SigAction
                   \/ \E c \in Clients : DecStore(c) \/ LastSession(c)
                   \/ UNCHANGED sharedVars
<1> SUFFICES ASSUME [Next]_vars, ~IncStore, ~SigAction,
                    \A c \in Clients : ~(DecStore(c) \/ LastSession(c))
             PROVE UNCHANGED sharedVars
  OBVIOUS
<1> USE DEF sharedVars
<1>1. ListenerThread => UNCHANGED sharedVars
  BY DEF ListenerThread, TbListen, ListenFails, SetupPoll, SetupFails,
         NoEpoll, AbortClose, Abort, LoopTest, Poll, Accept, AcceptWouldBlock,
         AcceptFails, IncLoad, Spawn, FirstSession, CloseListener, Cleanup,
         TbExit, LogAndEnd
<1>2. ASSUME NEW c \in Clients, SessionThread(c) PROVE UNCHANGED sharedVars
  BY <1>2 DEF SessionThread, SessionConnected, Recv, RecvEnd, RecvError,
              DecLoad, UseAfterFree
<1>3. ASSUME NEW c \in Clients, Client(c) PROVE UNCHANGED sharedVars
  BY <1>3 DEF Client, Connect, ClientSend, ClientClose, ClientFails
<1>4. MainThread => UNCHANGED sharedVars
  BY DEF MainThread, MonitorSpin, MonitorTest, StartStats, AddSession,
         CollectStats, EndStats, MainExit
<1>5. UNCHANGED vars => UNCHANGED sharedVars BY DEF vars
<1> QED BY <1>1, <1>2, <1>3, <1>4, <1>5 DEF Next
-----------------------------------------------------------------------------
(* Type correctness. *)

\* A step keeps the listener thread's variables to their types.
LEMMA ListenerType ==
    TypeOK /\ [Next]_vars => ListenerTypeOK'
<1> SUFFICES ASSUME TypeOK, [Next]_vars PROVE ListenerTypeOK'
  OBVIOUS
<1> USE DEF ListenerTypeOK, listenerVars
<1>1. ListenerTypeOK BY DEF TypeOK
<1>2. CASE TbListen
  BY <1>1, <1>2 DEF TbListen, Statuses, ListenerPcs, Starting
<1>3. CASE \/ ListenFails \/ SetupPoll \/ SetupFails \/ NoEpoll
          \/ AbortClose \/ Abort
  BY <1>1, <1>3 DEF ListenFails, SetupPoll, SetupFails, NoEpoll, AbortClose,
                    Abort, Statuses, ListenerPcs, Starting
<1>4. CASE LoopTest \/ Poll
  BY <1>1, <1>4 DEF LoopTest, Poll, ListenerPcs, Starting
<1>5. CASE Accept
  <2>1. Head(backlog) \in Clients
    BY <1>5 DEF Accept, TypeOK, NetworkTypeOK
  <2>2. /\ list' \in Seq(Clients) /\ list' # <<>>
        /\ list'[Len(list')] = Head(backlog)
    BY <1>1, <1>5, <2>1 DEF Accept, SessionAddTo
  <2> QED BY <1>1, <1>5, <2>1, <2>2 DEF Accept, ListenerPcs
<1>6. CASE AcceptWouldBlock \/ AcceptFails
  BY <1>1, <1>6 DEF AcceptWouldBlock, AcceptFails, ListenerPcs, Starting
<1>7. CASE IncLoad \/ IncStore \/ Spawn
  BY <1>1, <1>7 DEF IncLoad, IncStore, Spawn, TypeOK, SharedTypeOK,
                    ListenerPcs, Starting
<1>8. CASE FirstSession
  BY <1>1, <1>8 DEF FirstSession, Statuses, ListenerPcs, Starting
<1>9. CASE CloseListener \/ Cleanup \/ TbExit \/ LogAndEnd
  BY <1>1, <1>9 DEF CloseListener, SockAfterClose, Cleanup, TbExit, LogAndEnd,
                    Statuses, ListenerPcs, Starting
<1>10. CASE UNCHANGED listenerVars
  BY <1>1, <1>10
<1> QED
  BY ListenerFrame, <1>2, <1>3, <1>4, <1>5, <1>6, <1>7, <1>8, <1>9, <1>10
     DEF ListenerThread

\* A step keeps command and num_active_conn to their types.
LEMMA SharedType ==
    TypeOK /\ [Next]_vars => SharedTypeOK'
<1> SUFFICES ASSUME TypeOK, [Next]_vars PROVE SharedTypeOK'
  OBVIOUS
<1> USE DEF SharedTypeOK, Commands
<1>1. CASE IncStore
  BY <1>1 DEF IncStore, TypeOK, ListenerTypeOK
<1>2. CASE SigAction
  BY <1>2 DEF SigAction, TypeOK
<1>3. ASSUME NEW c \in Clients, DecStore(c) PROVE SharedTypeOK'
  BY <1>3 DEF DecStore, Decremented, TypeOK, SessionTypeOK
<1>4. ASSUME NEW c \in Clients, LastSession(c) PROVE SharedTypeOK'
  BY <1>4 DEF LastSession, TypeOK
<1>5. CASE UNCHANGED sharedVars
  BY <1>5 DEF sharedVars, TypeOK
<1> QED BY SharedFrame, <1>1, <1>2, <1>3, <1>4, <1>5

\* A step keeps the sessions to their types.
LEMMA SessionType ==
    TypeOK /\ [Next]_vars => SessionTypeOK'
<1> SUFFICES ASSUME TypeOK, [Next]_vars PROVE SessionTypeOK'
  OBVIOUS
<1> USE DEF SessionTypeOK, SessionPcs, SessionStatuses
<1>1. SessionTypeOK BY DEF TypeOK
<1>2. CASE Spawn
  BY <1>1, <1>2 DEF Spawn, CreateThread
<1>3. ASSUME NEW c \in Clients, SessionThread(c) PROVE SessionTypeOK'
  <2>1. CASE SessionConnected(c) \/ RecvEnd(c) \/ RecvError(c)
    BY <1>1, <2>1 DEF SessionConnected, RecvEnd, RecvError
  <2>2. CASE Recv(c)
    BY <1>1, <2>2 DEF Recv, TypeOK, NetworkTypeOK
  <2>3. CASE DecLoad(c)
    BY <1>1, <2>3 DEF DecLoad, TypeOK, SharedTypeOK
  <2>4. CASE DecStore(c)
    BY <1>1, <2>4 DEF DecStore
  <2>5. CASE LastSession(c)
    BY <1>1, <2>5 DEF LastSession
  <2>6. CASE UseAfterFree(c)
    <3>1. \A d \in Clients : Killed(spc[d]) \in SessionPcs
      BY <1>1 DEF Killed
    <3> QED BY <1>1, <2>6, <3>1 DEF UseAfterFree
  <2> QED BY <1>3, <2>1, <2>2, <2>3, <2>4, <2>5, <2>6 DEF SessionThread
<1>4. CASE UNCHANGED sessionVars
  BY <1>1, <1>4 DEF sessionVars
<1> QED BY SessionFrame, <1>2, <1>3, <1>4

\* A step keeps the monitor's variables to their types.
LEMMA MonitorType ==
    TypeOK /\ [Next]_vars => MonitorTypeOK'
<1> SUFFICES ASSUME TypeOK, [Next]_vars PROVE MonitorTypeOK'
  OBVIOUS
<1> USE DEF MonitorTypeOK, MainPcs
<1>1. MonitorTypeOK BY DEF TypeOK
<1>2. CASE MonitorSpin \/ MonitorTest \/ MainExit \/ NoEpoll
  BY <1>1, <1>2 DEF MonitorSpin, MonitorTest, AfterTest, MainExit, NoEpoll
<1>3. CASE StartStats
  BY <1>1, <1>3 DEF StartStats, ResetCount
<1>4. CASE AddSession
  <2>1. list[cursor] \in Clients
    BY <1>1, <1>4 DEF AddSession, TypeOK, ListenerTypeOK
  <2>2. total_bytes[list[cursor]] \in Nat
    BY <2>1 DEF TypeOK, SessionTypeOK
  <2> QED BY <1>1, <1>4, <2>1, <2>2 DEF AddSession, Count
<1>5. CASE CollectStats \/ EndStats
  BY <1>1, <1>5 DEF CollectStats, EndStats
<1>6. CASE UNCHANGED mainVars
  BY <1>1, <1>6 DEF mainVars
<1> QED BY MainFrame, <1>2, <1>3, <1>4, <1>5, <1>6 DEF MainThread

\* A step keeps the network to its types: no client sends more than Bytes.
LEMMA NetworkType ==
    TypeOK /\ [Next]_vars => NetworkTypeOK'
<1> SUFFICES ASSUME TypeOK, [Next]_vars PROVE NetworkTypeOK'
  OBVIOUS
<1> USE DEF NetworkTypeOK
<1>0. ConnStates = {"idle", "connected", "closed", "lost", "reset", "refused",
                    "dropped"}
  BY DEF ConnStates
<1>1. NetworkTypeOK BY DEF TypeOK
<1>2. CASE TbListen \/ Poll
  BY <1>1, <1>2 DEF TbListen, Poll
<1>3. CASE AcceptFails
  <2>1. accept_errors' \in 0 .. AcceptErrors
    BY <1>1, <1>3, AcceptErrorsAssumption DEF AcceptFails
  <2> QED BY <1>1, <1>3, <2>1 DEF AcceptFails
<1>4. CASE Accept
  <2>1. Tail(backlog) \in Seq(Clients)
    BY <1>1, <1>4 DEF Accept
  <2> QED BY <1>1, <1>4, <2>1 DEF Accept
<1>5. CASE NoEpoll \/ AbortClose \/ CloseListener
  <2>1. conn' \in [Clients -> ConnStates]
    BY <1>0, <1>1, <1>5 DEF NoEpoll, AbortClose, CloseListener, Refused
  <2>2. backlog' \in Seq(Clients)
    <3>1. backlog' = <<>>
      BY <1>5 DEF NoEpoll, AbortClose, CloseListener
    <3> QED BY <3>1
  <2>3. listening' \in BOOLEAN
    BY <1>5, Zenon DEF NoEpoll, AbortClose, CloseListener
  <2>4. UNCHANGED <<ready, sent, inflight, accept_errors>>
    BY <1>5 DEF NoEpoll, AbortClose, CloseListener
  <2> QED BY <1>1, <2>1, <2>2, <2>3, <2>4
<1>6. ASSUME NEW c \in Clients, Recv(c) PROVE NetworkTypeOK'
  BY <1>1, <1>6 DEF Recv
<1>7. ASSUME NEW c \in Clients, Client(c) PROVE NetworkTypeOK'
  <2>1. CASE Connect(c)
    <3>1. Append(backlog, c) \in Seq(Clients)
      BY <1>1
    <3>2. /\ backlog' \in Seq(Clients) /\ ready' \in BOOLEAN
          /\ conn' \in [Clients -> ConnStates]
      BY <1>0, <1>1, <2>1, <3>1 DEF Connect
    <3> QED BY <1>1, <2>1, <3>2 DEF Connect
  <2>2. CASE ClientSend(c)
    <3>1. sent[c] \in 0 .. Bytes /\ sent[c] + 1 \in 0 .. Bytes
      BY <1>1, <2>2, BytesAssumption DEF ClientSend
    <3>2. /\ sent' \in [Clients -> 0 .. Bytes]
          /\ inflight' \in [Clients -> Nat]
      BY <1>1, <2>2, <3>1 DEF ClientSend
    <3> QED BY <1>1, <2>2, <3>2 DEF ClientSend
  <2>3. CASE ClientClose(c) \/ ClientFails(c)
    <3>1. conn' \in [Clients -> ConnStates]
      BY <1>0, <1>1, <2>3 DEF ClientClose, ClientFails
    <3>2. inflight' \in [Clients -> Nat]
      <4>1. \A n \in Nat : 0 .. n \subseteq Nat
        OBVIOUS
      <4> QED BY <1>1, <2>3, <4>1, SMTT(30) DEF ClientClose, ClientFails
    <3> QED BY <1>1, <2>3, <3>1, <3>2 DEF ClientClose, ClientFails
  <2> QED BY <1>7, <2>1, <2>2, <2>3 DEF Client
<1>8. CASE Cleanup
  <2>1. conn' \in [Clients -> ConnStates]
    BY <1>0, <1>1, <1>8 DEF Cleanup
  <2> QED BY <1>1, <1>8, <2>1 DEF Cleanup
<1>9. CASE UNCHANGED netVars
  BY <1>1, <1>9 DEF netVars
<1> QED BY NetworkFrame, <1>2, <1>3, <1>4, <1>5, <1>6, <1>7, <1>8, <1>9

\* Every variable keeps to the values the code gives it, whatever the number
\* of clients, the length of their transfers and the transport.
THEOREM TypeCorrect == Spec => []TypeOK
<1>1. Init => TypeOK
  <2> SUFFICES ASSUME Init PROVE TypeOK
    OBVIOUS
  <2> USE DEF Init
  <2>1. ListenerTypeOK
    BY DEF ListenerTypeOK, Statuses, ListenerPcs, Starting
  <2>2. SharedTypeOK /\ SessionTypeOK
    BY DEF SharedTypeOK, SessionTypeOK, Commands, SessionStatuses, SessionPcs
  <2>3. MonitorTypeOK
    BY DEF MonitorTypeOK, MainPcs
  <2>4. NetworkTypeOK
    <3>1. 0 \in 0 .. Bytes /\ 0 \in 0 .. AcceptErrors
      BY AcceptErrorsAssumption, BytesAssumption
    <3>2. "idle" \in ConnStates
      BY DEF ConnStates
    <3>3. listening \in BOOLEAN /\ ready \in BOOLEAN
      BY Zenon
    <3>4. backlog \in Seq(Clients)
      OBVIOUS
    <3>5. /\ conn \in [Clients -> ConnStates]
          /\ sent \in [Clients -> 0 .. Bytes]
          /\ inflight \in [Clients -> Nat]
      BY <3>1, <3>2
    <3> QED BY <3>1, <3>3, <3>4, <3>5 DEF NetworkTypeOK
  <2> QED BY <2>1, <2>2, <2>3, <2>4 DEF TypeOK
<1>2. TypeOK /\ [Next]_vars => TypeOK'
  BY ListenerType, SharedType, SessionType, MonitorType, NetworkType
     DEF TypeOK
<1> QED BY <1>1, <1>2, PTL DEF Spec
-----------------------------------------------------------------------------
(* No session is left without a thread. *)

\* A session thread neither starts another session nor undoes its start.
LEMMA NoThreadUndone ==
    ASSUME TypeOK, NEW c \in Clients, SessionThread(c)
    PROVE  \A d \in Clients : spc'[d] = "none" <=> spc[d] = "none"
<1>0. spc \in [Clients -> SessionPcs]
  BY DEF TypeOK, SessionTypeOK
<1>1. CASE UseAfterFree(c)
  BY <1>0, <1>1 DEF UseAfterFree, Killed
<1>2. CASE ~UseAfterFree(c)
  BY <1>0, <1>2 DEF SessionThread, SessionConnected, Recv, RecvEnd, RecvError,
                    DecLoad, DecStore, LastSession
<1> QED BY <1>1, <1>2

\* Only Accept lists a session, with lpc in Starting; only Spawn leaves it.
LEMMA NoOrphanStep ==
    TypeOK /\ NoOrphanSession /\ [Next]_vars => NoOrphanSession'
<1> SUFFICES ASSUME TypeOK, NoOrphanSession, [Next]_vars
             PROVE NoOrphanSession'
  OBVIOUS
<1> USE DEF NoOrphanSession, Listed
<1>0. /\ list \in Seq(Clients) /\ backlog \in Seq(Clients)
      /\ spc \in [Clients -> SessionPcs]
      /\ lsession \in Clients \cup {NoSession}
  BY DEF TypeOK, ListenerTypeOK, NetworkTypeOK, SessionTypeOK
<1>1. CASE Accept
  \* lpc is "accept", so that every session listed before has its thread.
  <2>1. \A c \in Clients : Listed(c) => spc[c] # "none"
    BY <1>1 DEF Accept, Starting
  <2>2. \A i \in DOMAIN list' : \/ i \in DOMAIN list /\ list'[i] = list[i]
                                \/ list'[i] = Head(backlog)
    BY <1>0, <1>1 DEF Accept, SessionAddTo
  <2>3. lpc' \in Starting /\ lsession' = Head(backlog) /\ spc' = spc
    BY <1>1 DEF Accept, Starting, sessionVars
  <2> QED BY <2>1, <2>2, <2>3
<1>2. CASE IncLoad \/ IncStore
  BY <1>2 DEF IncLoad, IncStore, Starting, sessionVars
<1>3. CASE Spawn
  <2>1. \A c \in Clients : Listed(c) /\ spc[c] = "none" => c = lsession
    BY <1>3 DEF Spawn
  <2>2. spc' = [spc EXCEPT ![lsession] = "start"] /\ list' = list
    BY <1>3 DEF Spawn, CreateThread
  <2> QED BY <1>0, <2>1, <2>2
<1>4. CASE /\ ListenerThread
           /\ ~(Accept \/ IncLoad \/ IncStore \/ Spawn)
  <2>1. lpc \notin Starting /\ UNCHANGED <<list, spc>>
    BY <1>4 DEF ListenerThread, TbListen, ListenFails, SetupPoll, SetupFails,
                NoEpoll, AbortClose, Abort, LoopTest, Poll, AcceptWouldBlock,
                AcceptFails, FirstSession, CloseListener, Cleanup, TbExit,
                LogAndEnd, Starting, sessionVars
  <2> QED BY <2>1
<1>5. ASSUME NEW c \in Clients, SessionThread(c) PROVE NoOrphanSession'
  <2>1. UNCHANGED <<list, lpc, lsession>>
    BY <1>5 DEF SessionThread, SessionConnected, Recv, RecvEnd, RecvError,
                DecLoad, DecStore, LastSession, UseAfterFree, listenerVars
  <2>2. \A d \in Clients : spc'[d] = "none" => spc[d] = "none"
    BY <1>5, NoThreadUndone
  <2> QED BY <2>1, <2>2
<1>6. CASE UNCHANGED listenerVars /\ UNCHANGED sessionVars
  BY <1>6 DEF listenerVars, sessionVars
<1> QED
  BY ListenerFrame, SessionFrame, <1>1, <1>2, <1>3, <1>4, <1>5, <1>6
     DEF ListenerThread

\* Every connection that the server accepts has a thread by the time the
\* listener thread is back in its accept loop (tb_stream_event 165-171).
THEOREM NoSessionIsOrphaned == Spec => []NoOrphanSession
<1>1. Init => NoOrphanSession
  BY DEF Init, NoOrphanSession, Listed
<1> QED BY TypeCorrect, NoOrphanStep, <1>1, PTL DEF Spec
-----------------------------------------------------------------------------
(* The chain of stats. *)

Listening == {"setup", "loop", "poll", "accept"}

\* status is LISTENING exactly until the first session has been chained.
StatsInv ==
    /\ lpc \in {"listen", "setup", "abort", "abort_status"} => list = <<>>
    /\ lpc \in Listening /\ list = <<>> => status = "LISTENING"
    /\ lpc \in Starting \cup {"first"} /\ Len(list) = 1 => status = "LISTENING"
    /\ Len(list) > 1 \/ (list # <<>> /\ lpc \notin Starting \cup {"first"})
       => n_stats = Head(list) /\ status # "LISTENING"

\* A step preserves the chain: FirstSession alone writes n_stats.
LEMMA StatsStep == TypeOK /\ StatsInv /\ [Next]_vars => StatsInv'
<1> SUFFICES ASSUME TypeOK, StatsInv, [Next]_vars PROVE StatsInv'
  OBVIOUS
<1> USE DEF StatsInv, Starting, Listening
<1>0. /\ list \in Seq(Clients) /\ backlog \in Seq(Clients)
      /\ lpc \in Starting \cup {"first"} => list # <<>>
                                          /\ lsession = list[Len(list)]
  BY DEF TypeOK, ListenerTypeOK, NetworkTypeOK
<1>1. CASE \/ TbListen \/ ListenFails \/ SetupPoll \/ SetupFails \/ NoEpoll
          \/ AbortClose \/ Abort
  BY <1>0, <1>1 DEF TbListen, ListenFails, SetupPoll, SetupFails, NoEpoll,
                    AbortClose, Abort
<1>2. CASE LoopTest \/ Poll \/ AcceptWouldBlock \/ AcceptFails
  BY <1>0, <1>2 DEF LoopTest, Poll, AcceptWouldBlock, AcceptFails
<1>3. CASE Accept
  <2>1. Len(list') = Len(list) + 1 /\ (list # <<>> => Head(list') = Head(list))
    BY <1>0, <1>3 DEF Accept, SessionAddTo
  <2>2. lpc = "accept" /\ lpc' = "inc_load" /\ UNCHANGED <<n_stats, status>>
    BY <1>3 DEF Accept
  <2>3. CASE list = <<>>
    <3>1. Len(list') = 1 /\ status = "LISTENING"
      BY <2>1, <2>2, <2>3
    <3> QED BY <2>2, <3>1
  <2>4. CASE list # <<>>
    <3>1. n_stats = Head(list) /\ status # "LISTENING"
      BY <2>2, <2>4
    <3>2. Len(list) \in Nat /\ Len(list) # 0
      BY <1>0, <2>4
    <3>3. Len(list') # 1
      BY <2>1, <3>2
    <3> QED BY <2>1, <2>2, <2>4, <3>1, <3>3
  <2> QED BY <2>3, <2>4
<1>4. CASE IncLoad \/ IncStore \/ Spawn
  BY <1>0, <1>4 DEF IncLoad, IncStore, Spawn
<1>5. CASE FirstSession
  <2>1. CASE Len(list) = 1
    BY <1>0, <1>5, <2>1 DEF FirstSession, StillListening
  <2>2. CASE Len(list) > 1
    BY <1>0, <1>5, <2>2 DEF FirstSession, StillListening
  <2>3. Len(list) \in Nat /\ Len(list) # 0
    BY <1>0, <1>5 DEF FirstSession
  <2>4. Len(list) = 1 \/ Len(list) > 1
    <3>1. \A n \in Nat : n # 0 => n = 1 \/ n > 1
      OBVIOUS
    <3> QED BY <2>3, <3>1
  <2> QED BY <2>1, <2>2, <2>4, Zenon
<1>6. CASE CloseListener \/ Cleanup \/ TbExit \/ LogAndEnd
  BY <1>0, <1>6 DEF CloseListener, Cleanup, TbExit, LogAndEnd
<1>7. CASE UNCHANGED listenerVars
  BY <1>7 DEF listenerVars
<1> QED
  BY ListenerFrame, <1>1, <1>2, <1>3, <1>4, <1>5, <1>6, <1>7
     DEF ListenerThread

\* The stats that tb_monitor prints at the end are chained from the first
\* session, however many follow it (tb_stream_event 174-179).
THEOREM StatsChain == Spec => []StatsChainComplete
<1>1. Init => StatsInv
  BY DEF Init, StatsInv, Starting, Listening
<1>2. StatsInv => StatsChainComplete
  BY DEF StatsInv, StatsChainComplete
<1> QED BY TypeCorrect, StatsStep, <1>1, <1>2, PTL DEF Spec
-----------------------------------------------------------------------------
(* Delivery. *)

Ended == Leaving \cup {"done"}

\* What was sent has been received or is under way, unless the connection was
\* broken; and a session that has ended is on a connection that has.
DeliveryInv ==
    \A c \in Clients :
        /\ conn[c] \in {"idle", "connected", "closed"} =>
               sent[c] = total_bytes[c] + inflight[c]
        /\ spc[c] \in Ended => /\ conn[c] \notin {"idle", "connected"}
                               /\ conn[c] = "closed" => inflight[c] = 0

\* The types that the accounting of bytes rests on.
LEMMA DeliveryTypes ==
    TypeOK => /\ spc \in [Clients -> SessionPcs]
              /\ conn \in [Clients -> ConnStates]
              /\ total_bytes \in [Clients -> Nat]
              /\ inflight \in [Clients -> Nat] /\ sent \in [Clients -> Nat]
              /\ lsession \in Clients \cup {NoSession}
<1>1. 0 .. Bytes \subseteq Nat
  BY BytesAssumption
<1>2. TypeOK => sent \in [Clients -> Nat]
  BY <1>1 DEF TypeOK, NetworkTypeOK
<1> QED
  BY <1>2 DEF TypeOK, ListenerTypeOK, SessionTypeOK, NetworkTypeOK

\* A step preserves the accounting of the bytes of every connection.
LEMMA DeliveryStep == TypeOK /\ DeliveryInv /\ [Next]_vars => DeliveryInv'
<1> SUFFICES ASSUME TypeOK, DeliveryInv, [Next]_vars PROVE DeliveryInv'
  OBVIOUS
<1> USE DEF DeliveryInv, Ended, Leaving
<1>0. /\ spc \in [Clients -> SessionPcs] /\ conn \in [Clients -> ConnStates]
      /\ total_bytes \in [Clients -> Nat] /\ inflight \in [Clients -> Nat]
      /\ sent \in [Clients -> Nat] /\ lsession \in Clients \cup {NoSession}
  BY DeliveryTypes
<1>1. CASE Spawn
  BY <1>0, <1>1 DEF Spawn, CreateThread, netVars
<1>2. CASE NoEpoll \/ AbortClose \/ CloseListener \/ Cleanup
  BY <1>0, <1>2 DEF NoEpoll, AbortClose, CloseListener, Refused, Cleanup,
                    sessionVars
<1>3. CASE /\ ListenerThread /\ ~Spawn
           /\ ~(NoEpoll \/ AbortClose \/ CloseListener \/ Cleanup)
  BY <1>3 DEF ListenerThread, TbListen, ListenFails, SetupPoll, SetupFails,
              Abort, LoopTest, Poll, Accept, AcceptWouldBlock, AcceptFails,
              IncLoad, IncStore, FirstSession, TbExit, LogAndEnd, sessionVars,
              netVars
<1>4. ASSUME NEW c \in Clients, SessionThread(c) PROVE DeliveryInv'
  <2>1. CASE SessionConnected(c)
    BY <1>0, <2>1 DEF SessionConnected, netVars
  <2>2. CASE Recv(c)
    BY <1>0, <2>2 DEF Recv
  <2>3. CASE RecvEnd(c) \/ RecvError(c)
    BY <1>0, <2>3 DEF RecvEnd, EndOfStream, RecvError, netVars
  <2>4. CASE DecLoad(c) \/ DecStore(c) \/ LastSession(c)
    BY <1>0, <2>4 DEF DecLoad, DecStore, LastSession, netVars
  <2>5. CASE UseAfterFree(c)
    BY <1>0, <2>5 DEF UseAfterFree, Killed, netVars
  <2> QED BY <1>4, <2>1, <2>2, <2>3, <2>4, <2>5 DEF SessionThread
<1>5. ASSUME NEW c \in Clients, Client(c) PROVE DeliveryInv'
  <2>1. CASE Connect(c)
    BY <1>0, <2>1 DEF Connect, sessionVars
  <2>2. CASE ClientSend(c)
    BY <1>0, <2>2 DEF ClientSend, sessionVars
  <2>3. CASE ClientClose(c) \/ ClientFails(c)
    BY <1>0, <2>3 DEF ClientClose, ClientFails, sessionVars
  <2> QED BY <1>5, <2>1, <2>2, <2>3 DEF Client
<1>6. CASE MainThread \/ SigAction
  BY <1>6 DEF MainThread, MonitorSpin, MonitorTest, StartStats, AddSession,
              CollectStats, EndStats, MainExit, SigAction, sessionVars,
              netVars
<1>7. CASE UNCHANGED vars
  BY <1>7 DEF vars
<1> QED BY <1>1, <1>2, <1>3, <1>4, <1>5, <1>6, <1>7 DEF Next

\* A session whose client closed ends only when it has received all that was
\* sent on it, however the bytes were split, as long as the server has not
\* taken its connection from it (tb_stream_m_server_conn 196-215).
THEOREM Delivery == Spec => []CompleteDelivery
<1>1. Init => DeliveryInv
  <2>1. ASSUME Init, NEW c \in Clients
        PROVE  /\ sent[c] = 0 /\ total_bytes[c] = 0 /\ inflight[c] = 0
               /\ spc[c] = "none"
    BY <2>1 DEF Init
  <2>2. 0 = 0 + 0 /\ "none" \notin Ended
    BY DEF Ended, Leaving
  <2> QED BY <2>1, <2>2 DEF DeliveryInv
<1>2. TypeOK /\ DeliveryInv => CompleteDelivery
  <2>1. ASSUME TypeOK, DeliveryInv, NEW c \in Clients, spc[c] \in Ended,
               conn[c] = "closed"
        PROVE  total_bytes[c] = sent[c]
    <3>1. inflight[c] = 0 /\ sent[c] = total_bytes[c] + inflight[c]
      BY <2>1 DEF DeliveryInv
    <3> QED BY <2>1, <3>1, DeliveryTypes
  <2> QED BY <2>1 DEF CompleteDelivery, Ended
<1> QED BY TypeCorrect, DeliveryStep, <1>1, <1>2, PTL DEF Spec
-----------------------------------------------------------------------------
(* A connection is accepted at most once. *)

\* A client is in the backlog or in the list, once, or it has not connected.
OnceInv ==
    /\ \A i, j \in DOMAIN list : list[i] = list[j] => i = j
    /\ \A i, j \in DOMAIN backlog : backlog[i] = backlog[j] => i = j
    /\ \A i \in DOMAIN list, j \in DOMAIN backlog : list[i] # backlog[j]
    /\ \A i \in DOMAIN list : conn[list[i]] # "idle"
    /\ \A i \in DOMAIN backlog : conn[backlog[i]] # "idle"

\* A step preserves it: Connect needs an idle client, Accept moves one over.
LEMMA OnceStep == TypeOK /\ OnceInv /\ [Next]_vars => OnceInv'
<1> SUFFICES ASSUME TypeOK, OnceInv, [Next]_vars PROVE OnceInv'
  OBVIOUS
<1> USE DEF OnceInv
<1>0. /\ list \in Seq(Clients) /\ backlog \in Seq(Clients)
      /\ conn \in [Clients -> ConnStates]
  BY DEF TypeOK, ListenerTypeOK, NetworkTypeOK
<1>1. CASE Accept
  <2>1. /\ list' = Append(list, Head(backlog)) /\ backlog # <<>>
        /\ backlog' = Tail(backlog) /\ conn' = conn
    BY <1>1 DEF Accept, SessionAddTo
  <2>2. Head(backlog) = backlog[1] /\ 1 \in DOMAIN backlog
    BY <1>0, <2>1
  <2>3. \A i \in DOMAIN list' : \/ i \in DOMAIN list /\ list'[i] = list[i]
                                \/ i = Len(list) + 1 /\ list'[i] = backlog[1]
    BY <1>0, <2>1, <2>2
  <2>4. \A i \in DOMAIN backlog' : /\ i + 1 \in DOMAIN backlog
                                   /\ i \in Nat \ {0}
                                   /\ backlog'[i] = backlog[i + 1]
    BY <1>0, <2>1
  <2>5. \A i, j \in DOMAIN list' : list'[i] = list'[j] => i = j
    BY <2>2, <2>3
  <2>6. \A i, j \in DOMAIN backlog' : backlog'[i] = backlog'[j] => i = j
    BY <2>4
  <2>7. \A i \in DOMAIN list', j \in DOMAIN backlog' : list'[i] # backlog'[j]
    BY <2>2, <2>3, <2>4
  <2> QED BY <2>1, <2>2, <2>3, <2>4, <2>5, <2>6, <2>7
<1>2. CASE NoEpoll \/ AbortClose \/ CloseListener \/ Cleanup
  BY <1>0, <1>2 DEF NoEpoll, AbortClose, CloseListener, Refused, Cleanup
<1>3. CASE /\ ListenerThread /\ ~Accept
           /\ ~(NoEpoll \/ AbortClose \/ CloseListener \/ Cleanup)
  BY <1>3 DEF ListenerThread, TbListen, ListenFails, SetupPoll, SetupFails,
              Abort, LoopTest, Poll, AcceptWouldBlock, AcceptFails, IncLoad,
              IncStore, Spawn, FirstSession, TbExit, LogAndEnd, netVars
<1>4. ASSUME NEW c \in Clients, SessionThread(c) PROVE OnceInv'
  BY <1>4 DEF SessionThread, SessionConnected, Recv, RecvEnd, RecvError,
              DecLoad, DecStore, LastSession, UseAfterFree, listenerVars,
              netVars
<1>5. ASSUME NEW c \in Clients, Connect(c) PROVE OnceInv'
  <2>1. CASE ~listening
    BY <1>0, <1>5, <2>1 DEF Connect, listenerVars
  <2>2. CASE listening
    <3>1. /\ backlog' = Append(backlog, c) /\ list' = list
          /\ conn' = [conn EXCEPT ![c] = "connected"] /\ conn[c] = "idle"
      BY <1>5, <2>2 DEF Connect, listenerVars
    <3>2. \A i \in DOMAIN backlog' :
              \/ i \in DOMAIN backlog /\ backlog'[i] = backlog[i]
              \/ i = Len(backlog) + 1 /\ backlog'[i] = c
      BY <1>0, <3>1
    <3>3. \A d \in Clients : conn'[d] = "idle" => conn[d] = "idle" /\ d # c
      BY <1>0, <3>1
    <3> QED BY <1>0, <3>1, <3>2, <3>3
  <2> QED BY <2>1, <2>2
<1>6. ASSUME NEW c \in Clients, ClientSend(c) \/ ClientClose(c) \/ ClientFails(c)
      PROVE OnceInv'
  <2>1. UNCHANGED <<list, backlog>>
    BY <1>6 DEF ClientSend, ClientClose, ClientFails, listenerVars
  <2>2. \A d \in Clients : conn'[d] = "idle" => conn[d] = "idle"
    BY <1>0, <1>6 DEF ClientSend, ClientClose, ClientFails
  <2> QED BY <1>0, <2>1, <2>2
<1>7. CASE MainThread \/ SigAction
  BY <1>7 DEF MainThread, MonitorSpin, MonitorTest, StartStats, AddSession,
              CollectStats, EndStats, MainExit, SigAction, listenerVars,
              netVars
<1>8. CASE UNCHANGED vars
  BY <1>8 DEF vars
<1> QED BY <1>1, <1>2, <1>3, <1>4, <1>5, <1>6, <1>7, <1>8 DEF Next, Client
-----------------------------------------------------------------------------
(* The monitor's count. *)

\* How many sessions of the list the walk has counted.
Walked == IF mpc = "collect" THEN cursor ELSE cursor - 1

\* During a walk the sessions it has still to visit count for nothing, and
\* those it has visited for no less than in prev_bytes.
CountInv ==
    /\ \A c \in Clients : /\ current_read[c] <= total_bytes[c]
                          /\ prev_bytes[c] <= total_bytes[c]
                          /\ ~Listed(c) => /\ current_read[c] = 0
                                           /\ prev_bytes[c] = 0
    /\ mpc \in {"walk", "collect"} =>
           \A i \in DOMAIN list :
               IF i <= Walked
               THEN prev_bytes[list[i]] <= current_read[list[i]]
               ELSE current_read[list[i]] = 0

\* The types that the monitor's count rests on.
LEMMA CountTypes ==
    TypeOK => /\ total_bytes \in [Clients -> Nat]
              /\ current_read \in [Clients -> Nat]
              /\ prev_bytes \in [Clients -> Nat]
              /\ cursor \in Nat \ {0} /\ list \in Seq(Clients)
              /\ backlog \in Seq(Clients)
BY DEF TypeOK, SessionTypeOK, MonitorTypeOK, ListenerTypeOK, NetworkTypeOK

\* A step preserves it; that no session is listed twice is what makes
\* AddSession's += a first addition.
LEMMA CountStep == TypeOK /\ OnceInv /\ CountInv /\ [Next]_vars => CountInv'
<1> SUFFICES ASSUME TypeOK, OnceInv, CountInv, [Next]_vars PROVE CountInv'
  OBVIOUS
<1> USE DEF CountInv, Walked, Listed
<1>0. /\ total_bytes \in [Clients -> Nat] /\ current_read \in [Clients -> Nat]
      /\ prev_bytes \in [Clients -> Nat] /\ cursor \in Nat \ {0}
      /\ list \in Seq(Clients) /\ backlog \in Seq(Clients)
  BY CountTypes
<1>1. CASE Accept
  <2>1. UNCHANGED <<total_bytes, current_read, prev_bytes, mpc, cursor>>
    BY <1>1 DEF Accept, sessionVars, mainVars
  <2>2. PICK new \in Clients : list' = Append(list, new) /\ ~Listed(new)
    <3>1. /\ list' = Append(list, Head(backlog)) /\ backlog # <<>>
          /\ Head(backlog) = backlog[1] /\ 1 \in DOMAIN backlog
      BY <1>0, <1>1 DEF Accept, SessionAddTo
    <3> QED BY <1>0, <3>1 DEF OnceInv
  <2>3. \A i \in DOMAIN list' : \/ i \in DOMAIN list /\ list'[i] = list[i]
                                \/ i = Len(list) + 1 /\ list'[i] = new
    BY <1>0, <2>2, SMTT(30)
  <2>4. \A i \in DOMAIN list : i \in DOMAIN list' /\ list'[i] = list[i]
    BY <1>0, <2>2, SMTT(30)
  <2>5. current_read[new] = 0 /\ prev_bytes[new] = 0
    BY <2>2
  <2>6. \A c \in Clients : Listed(c) => Listed(c)'
    BY <2>4
  <2>7. \A i \in DOMAIN list' :
            mpc \in {"walk", "collect"} =>
                IF i <= Walked
                THEN prev_bytes[list'[i]] <= current_read[list'[i]]
                ELSE current_read[list'[i]] = 0
    BY <2>3, <2>5
  <2> HIDE DEF Listed
  <2>8. \A c \in Clients : /\ current_read'[c] <= total_bytes'[c]
                           /\ prev_bytes'[c] <= total_bytes'[c]
                           /\ ~Listed(c)' => /\ current_read'[c] = 0
                                             /\ prev_bytes'[c] = 0
    BY <2>1, <2>6
  <2> QED BY <2>1, <2>7, <2>8
<1>2. CASE ListenerThread /\ ~Accept
  BY <1>2 DEF ListenerThread, TbListen, ListenFails, SetupPoll, SetupFails,
              NoEpoll, AbortClose, Abort, LoopTest, Poll, AcceptWouldBlock,
              AcceptFails, IncLoad, IncStore, Spawn, FirstSession,
              CloseListener, Cleanup, TbExit, LogAndEnd, sessionVars, mainVars
<1>3. ASSUME NEW c \in Clients, Recv(c) PROVE CountInv'
  <2>1. /\ UNCHANGED <<list, mpc, cursor, current_read, prev_bytes>>
        /\ \A d \in Clients : total_bytes[d] <= total_bytes'[d]
    BY <1>0, <1>3 DEF Recv, listenerVars, mainVars
  <2>2. total_bytes' \in [Clients -> Nat]
    BY SessionType DEF SessionTypeOK
  <2>3. \A d \in Clients : /\ current_read'[d] <= total_bytes'[d]
                           /\ prev_bytes'[d] <= total_bytes'[d]
    <3> TAKE d \in Clients
    <3>1. /\ current_read[d] \in Nat /\ prev_bytes[d] \in Nat
          /\ total_bytes[d] \in Nat /\ total_bytes'[d] \in Nat
          /\ total_bytes[d] <= total_bytes'[d]
          /\ current_read'[d] = current_read[d]
          /\ prev_bytes'[d] = prev_bytes[d]
      BY <1>0, <2>1, <2>2
    <3>2. current_read[d] <= total_bytes[d] /\ prev_bytes[d] <= total_bytes[d]
      OBVIOUS
    <3> QED BY <3>1, <3>2
  <2> QED BY <2>1, <2>3
<1>4. ASSUME NEW c \in Clients, SessionThread(c) /\ ~Recv(c) PROVE CountInv'
  BY <1>4 DEF SessionThread, SessionConnected, RecvEnd, RecvError, DecLoad,
              DecStore, LastSession, UseAfterFree, listenerVars, mainVars
<1>5. ASSUME NEW c \in Clients, Client(c) PROVE CountInv'
  BY <1>5 DEF Client, Connect, ClientSend, ClientClose, ClientFails,
              listenerVars, sessionVars, mainVars
<1>6. CASE MonitorSpin \/ MonitorTest \/ MainExit \/ SigAction
  BY <1>6 DEF MonitorSpin, MonitorTest, AfterTest, MainExit, SigAction,
              listenerVars, sessionVars, mainVars
<1>7. CASE StartStats
  <2>1. /\ UNCHANGED <<list, total_bytes, prev_bytes>> /\ mpc' = "walk"
        /\ current_read' = [c \in Clients |-> 0] /\ cursor' = 1
    BY <1>7 DEF StartStats, ResetCount, listenerVars, sessionVars
  <2> QED BY <1>0, <2>1
<1>8. CASE AddSession
  <2> DEFINE c == list[cursor]
  <2>1. /\ cursor \in DOMAIN list /\ c \in Clients /\ mpc = "walk"
        /\ UNCHANGED <<list, total_bytes, prev_bytes>>
        /\ current_read' = [current_read EXCEPT ![c] = @ + total_bytes[c]]
    BY <1>0, <1>8 DEF AddSession, Count, listenerVars, sessionVars
  <2>2. Walked' = cursor /\ mpc' = "collect"
    BY <1>0, <1>8 DEF AddSession
  <2>3. current_read[c] = 0
    BY <1>0, <2>1
  <2>4. current_read'[c] = total_bytes[c]
    BY <1>0, <2>1, <2>3
  <2>5. \A d \in Clients \ {c} : current_read'[d] = current_read[d]
    BY <1>0, <2>1
  <2>6. \A i \in DOMAIN list : i # cursor => list[i] \in Clients \ {c}
    BY <1>0, <2>1 DEF OnceInv
  <2>7. \A d \in Clients : current_read'[d] <= total_bytes'[d]
    BY <1>0, <2>1, <2>4, <2>5
  <2>8. \A i \in DOMAIN list' :
            IF i <= Walked' THEN prev_bytes'[list'[i]] <= current_read'[list'[i]]
            ELSE current_read'[list'[i]] = 0
    BY <1>0, <2>1, <2>2, <2>4, <2>5, <2>6, SMTT(30)
  <2> QED BY <1>0, <2>1, <2>5, <2>7, <2>8
<1>9. CASE CollectStats
  BY <1>0, <1>9 DEF CollectStats, listenerVars, sessionVars
<1>10. CASE EndStats
  BY <1>0, <1>10 DEF EndStats, listenerVars, sessionVars
<1>11. CASE UNCHANGED vars
  BY <1>11 DEF vars
<1> QED
  BY <1>1, <1>2, <1>3, <1>4, <1>5, <1>6, <1>7, <1>8, <1>9, <1>10, <1>11
     DEF Next, MainThread

\* The monitor's invariant holds, with those it rests on.
LEMMA CountInvariant == Spec => [](TypeOK /\ OnceInv /\ CountInv)
<1>1. Init => OnceInv
  BY DEF Init, OnceInv
<1>2. Init => CountInv
  <2>1. ASSUME Init, NEW c \in Clients
        PROVE  current_read[c] = 0 /\ prev_bytes[c] = 0 /\ total_bytes[c] = 0
    BY <2>1 DEF Init
  <2>2. Init => mpc \notin {"walk", "collect"}
    BY DEF Init
  <2> QED BY <2>1, <2>2 DEF CountInv
<1> QED BY TypeCorrect, OnceStep, CountStep, <1>1, <1>2, PTL DEF Spec

\* The monitor counts no byte twice and none that was not received, although
\* the list grows and the sessions receive while it walks (tb_set_m_stats).
THEOREM MonitorNeverOvercounts == Spec => []NeverOvercounts
<1>1. CountInv => NeverOvercounts
  BY DEF CountInv, NeverOvercounts
<1> QED BY CountInvariant, <1>1, PTL

\* The rate that tb_monitor prints is never negative: no session counts for
\* less than at the previous read (tb_monitor 355-358).
THEOREM MonitorRate == Spec => []RateNeverNegative
<1>1. TypeOK /\ CountInv => RateNeverNegative
  <2>1. ASSUME TypeOK, CountInv, mpc = "walk", cursor > Len(list),
               NEW c \in Clients
        PROVE  prev_bytes[c] <= current_read[c]
    <3>1. CASE ~Listed(c)
      <4>1. prev_bytes[c] = 0 /\ current_read[c] = 0
        BY <2>1, <3>1 DEF CountInv
      <4> QED BY <4>1
    <3>2. CASE Listed(c)
      <4>1. PICK i \in DOMAIN list : list[i] = c
        BY <3>2 DEF Listed
      <4>2. i <= Walked
        BY <2>1, <4>1, CountTypes DEF Walked
      <4> QED BY <2>1, <4>1, <4>2 DEF CountInv
    <3> QED BY <3>1, <3>2
  <2> QED BY <2>1 DEF RateNeverNegative
<1> QED BY CountInvariant, <1>1, PTL
-----------------------------------------------------------------------------
(* The last report. *)

Over == {"EXITING", "ABORTING"}
OverInv == status \in Over => lpc \in {"log", "done"}

\* A listener that is over stays so.
LEMMA OverStep == OverInv /\ [Next]_vars => OverInv'
<1> SUFFICES ASSUME OverInv, [Next]_vars PROVE OverInv'
  OBVIOUS
<1>1. CASE ListenerThread
  BY <1>1 DEF OverInv, Over, ListenerThread, TbListen, ListenFails, SetupPoll,
     SetupFails, NoEpoll, AbortClose, Abort, LoopTest, Poll, Accept,
     AcceptWouldBlock, AcceptFails, IncLoad, IncStore, Spawn, FirstSession,
     StillListening, CloseListener, Cleanup, TbExit, LogAndEnd
<1>2. CASE UNCHANGED listenerVars
  BY <1>2 DEF listenerVars, OverInv
<1> QED BY <1>1, <1>2, ListenerFrame

SessionsEnded == \A c \in Clients : Listed(c) => spc[c] \in Finished
CountedWhole(i) == current_read[list[i]] = total_bytes[list[i]]

\* Where FinalReport begins: the monitor is about to see that the listener is
\* over, and all sessions have ended; and where it leads to.
FinalTest == mpc = "test" /\ status \in Over /\ SessionsEnded
FullReport ==
    mpc = "done" /\ \A c \in Clients :
                        Listed(c) => current_read[c] = total_bytes[c]

\* On its way the monitor counts all that a session has received, for one
\* session after the other.
Reporting ==
    /\ status \in Over /\ SessionsEnded
    /\ mpc \in {"test", "final", "walk", "collect", "destroy", "done"}
    /\ mpc \in {"walk", "collect"} =>
         round = "final" /\ \A i \in DOMAIN list : i <= Walked =>
                                                     CountedWhole(i)
    /\ mpc \in {"destroy", "done"} => \A i \in DOMAIN list : CountedWhole(i)

\* The list, and what its sessions have received, do not change any more.
LEMMA NothingElse ==
    ASSUME TypeOK, OverInv, Reporting, [Next]_vars
    PROVE  /\ UNCHANGED <<status, list>> /\ SessionsEnded'
           /\ \A i \in DOMAIN list :
                total_bytes'[list[i]] = total_bytes[list[i]]
<1>0. /\ spc \in [Clients -> SessionPcs] /\ list \in Seq(Clients)
      /\ total_bytes \in [Clients -> Nat]
  BY DEF TypeOK, SessionTypeOK, ListenerTypeOK
<1>1. lpc \in {"log", "done"}
  BY DEF OverInv, Reporting
<1>2. ListenerThread => LogAndEnd
  BY <1>1 DEF ListenerThread, TbListen, ListenFails, SetupPoll, SetupFails,
     NoEpoll, AbortClose, Abort, LoopTest, Poll, Accept, AcceptWouldBlock,
     AcceptFails, IncLoad, IncStore, Spawn, FirstSession, CloseListener,
     Cleanup, TbExit
<1>3. UNCHANGED <<status, list>>
  BY <1>2, ListenerFrame DEF LogAndEnd, listenerVars
<1>4. \A c \in Clients :
        Listed(c) => spc'[c] = spc[c] /\ total_bytes'[c] = total_bytes[c]
  <2> SUFFICES ASSUME NEW c \in Clients, Listed(c)
               PROVE  spc'[c] = spc[c] /\ total_bytes'[c] = total_bytes[c]
    OBVIOUS
  <2>1. spc[c] \in Finished
    BY DEF Reporting, SessionsEnded
  <2>2. ~Spawn
    BY <1>1 DEF Spawn
  <2>3. ASSUME NEW d \in Clients, SessionThread(d)
        PROVE  spc'[c] = spc[c] /\ total_bytes'[c] = total_bytes[c]
    BY <1>0, <2>1, <2>3 DEF Finished, SessionThread, SessionConnected, Recv,
       RecvEnd, RecvError, DecLoad, DecStore, LastSession, UseAfterFree, Killed
  <2> QED BY <2>2, <2>3, SessionFrame DEF sessionVars
<1>5. \A i \in DOMAIN list : list[i] \in Clients /\ Listed(list[i])
  BY <1>0 DEF Listed
<1>6. \A c \in Clients : Listed(c)' = Listed(c)
  BY <1>3 DEF Listed
<1> QED
  BY <1>3, <1>4, <1>5, <1>6 DEF Reporting, SessionsEnded

LEMMA ReportingStep ==
    TypeOK /\ OnceInv /\ CountInv /\ OverInv /\ Reporting /\ [Next]_vars
    => Reporting'
<1> SUFFICES ASSUME TypeOK, OnceInv, CountInv, OverInv, Reporting, [Next]_vars
             PROVE Reporting'
  OBVIOUS
<1>0. /\ current_read \in [Clients -> Nat] /\ total_bytes \in [Clients -> Nat]
      /\ list \in Seq(Clients) /\ cursor \in Nat \ {0}
      /\ \A i \in DOMAIN list : list[i] \in Clients
      /\ Len(list) \in Nat /\ DOMAIN list = 1 .. Len(list)
  BY CountTypes
<1>1. /\ status' = status /\ list' = list /\ SessionsEnded'
      /\ \A i \in DOMAIN list : total_bytes'[list[i]] = total_bytes[list[i]]
  BY NothingElse
<1> USE DEF Reporting, CountedWhole, Walked
<1>2. CASE UNCHANGED mainVars
  BY <1>1, <1>2 DEF mainVars
<1>3. CASE MonitorSpin \/ MonitorTest \/ MainExit
  BY <1>1, <1>3 DEF MonitorSpin, MonitorTest, AfterTest, MainExit, Over
<1>4. CASE StartStats
  <2>1. mpc' = "walk" /\ round' = "final" /\ cursor' = 1
    BY <1>4 DEF StartStats
  <2>2. \A i \in DOMAIN list' : ~(i <= Walked')
    BY <1>0, <1>1, <2>1
  <2> QED BY <1>1, <2>1, <2>2
<1>5. CASE AddSession
  <2>1. /\ cursor \in DOMAIN list /\ list[cursor] \in Clients /\ mpc = "walk"
        /\ current_read' = [current_read EXCEPT ![list[cursor]] =
                              @ + total_bytes[list[cursor]]]
        /\ round' = round
    BY <1>0, <1>5 DEF AddSession, Count
  <2>2. Walked' = cursor /\ mpc' = "collect"
    BY <1>0, <1>5 DEF AddSession
  <2>3. current_read[list[cursor]] = 0
    <3>1. ~(cursor <= Walked) /\ mpc = "walk"
      BY <1>0, <2>1
    <3> QED BY <2>1, <3>1, Zenon DEF CountInv
  <2>4. current_read'[list[cursor]] = total_bytes[list[cursor]]
    BY <1>0, <2>1, <2>3
  <2>5. \A i \in DOMAIN list :
          i # cursor => current_read'[list[i]] = current_read[list[i]]
    BY <1>0, <2>1 DEF OnceInv
  <2>6. ASSUME NEW i \in DOMAIN list', i <= Walked'
        PROVE  current_read'[list'[i]] = total_bytes'[list'[i]]
    <3>1. CASE i = cursor
      BY <1>1, <2>4, <3>1
    <3>2. CASE i # cursor
      <4>1. i \in DOMAIN list /\ i <= Walked
        BY <1>0, <1>1, <2>1, <2>2, <2>6, <3>2
      <4> QED BY <1>1, <2>1, <2>5, <3>2, <4>1
    <3> QED BY <3>1, <3>2
  <2> HIDE DEF Walked
  <2> QED BY <1>1, <2>1, <2>2, <2>6
<1>6. CASE CollectStats
  <2>1. /\ mpc = "collect" /\ mpc' = "walk" /\ cursor' = cursor + 1
        /\ UNCHANGED <<round, current_read>>
    BY <1>6 DEF CollectStats
  <2>2. Walked' = Walked
    BY <1>0, <2>1
  <2> QED BY <1>1, <2>1, <2>2
<1>7. CASE EndStats
  <2>1. /\ mpc = "walk" /\ cursor > Len(list) /\ mpc' = "destroy"
        /\ current_read' = current_read
    BY <1>7 DEF EndStats
  <2>2. \A i \in DOMAIN list : CountedWhole(i)
    BY <1>0, <2>1
  <2> QED BY <1>1, <2>1, <2>2
<1>8. ~NoEpoll
  BY DEF NoEpoll, OverInv
<1> QED BY <1>2, <1>3, <1>4, <1>5, <1>6, <1>7, <1>8, MainFrame DEF MainThread

\* The half of FinalReport that needs no fairness, for any number of clients:
\* from the test on, every step leaves the monitor on its way, and, when it has
\* come to the end, it has reported all that the sessions received
\* (tb_monitor 428-436).
THEOREM ReportsAll ==
    Spec => /\ [](FinalTest => Reporting)
            /\ [][Reporting => Reporting']_vars
            /\ [](Reporting /\ mpc = "done" => FullReport)
<1>1. FinalTest => Reporting
  BY DEF FinalTest, Reporting
<1>2. Reporting /\ mpc = "done" => FullReport
  BY DEF Reporting, FullReport, Listed, CountedWhole
<1>3. Init => OverInv
  BY DEF Init, OverInv, Over
<1>4. TypeOK /\ OnceInv /\ CountInv /\ OverInv /\ [Next]_vars
      => [Reporting => Reporting']_vars
  BY ReportingStep
<1> QED
  BY CountInvariant, OverStep, <1>1, <1>2, <1>3, <1>4, PTL DEF Spec
-----------------------------------------------------------------------------
(* The count of active sessions. *)

\* A session has a thread only if it is listed, and the one that the listener
\* thread is counting in has none yet.
ServedInv ==
    /\ \A c \in Clients : spc[c] # "none" => Listed(c)
    /\ lpc \in Starting => spc[lsession] = "none"

LEMMA ServedStep ==
    TypeOK /\ OnceInv /\ ServedInv /\ [Next]_vars => ServedInv'
<1> SUFFICES ASSUME TypeOK, OnceInv, ServedInv, [Next]_vars PROVE ServedInv'
  OBVIOUS
<1> USE DEF ServedInv, Listed
<1>0. /\ list \in Seq(Clients) /\ backlog \in Seq(Clients)
      /\ spc \in [Clients -> SessionPcs]
      /\ lpc \in Starting => /\ list # <<>> /\ lsession = list[Len(list)]
                            /\ lsession \in Clients
  BY DEF TypeOK, ListenerTypeOK, NetworkTypeOK, SessionTypeOK
<1>1. CASE Accept
  <2> DEFINE new == Head(backlog)
  <2>1. new \in Clients /\ new = backlog[1] /\ 1 \in DOMAIN backlog
    BY <1>0, <1>1 DEF Accept
  <2>2. spc[new] = "none"
    BY <2>1 DEF OnceInv
  <2>3. list' = Append(list, new) /\ lsession' = new /\ spc' = spc
    BY <1>1 DEF Accept, SessionAddTo, sessionVars
  <2>4. \A i \in DOMAIN list : i \in DOMAIN list' /\ list'[i] = list[i]
    BY <1>0, <2>1, <2>3
  <2> QED BY <2>2, <2>3, <2>4
<1>2. CASE IncLoad \/ IncStore
  BY <1>2 DEF IncLoad, IncStore, Starting, sessionVars
<1>3. CASE Spawn
  <2>1. lsession \in Clients /\ Listed(lsession)
    <3>1. Len(list) \in DOMAIN list
      BY <1>0, <1>3 DEF Spawn, Starting
    <3> QED BY <1>0, <1>3, <3>1 DEF Spawn, Starting
  <2>2. /\ spc' = [spc EXCEPT ![lsession] = "start"] /\ list' = list
        /\ lpc' \notin Starting
    BY <1>3 DEF Spawn, CreateThread, Starting
  <2> QED BY <1>0, <2>1, <2>2
<1>4. CASE ListenerThread /\ ~(Accept \/ IncLoad \/ IncStore \/ Spawn)
  <2>1. lpc' \notin Starting /\ UNCHANGED <<list, spc>>
    BY <1>4 DEF ListenerThread, TbListen, ListenFails, SetupPoll, SetupFails,
                NoEpoll, AbortClose, Abort, LoopTest, Poll, AcceptWouldBlock,
                AcceptFails, FirstSession, CloseListener, Cleanup, TbExit,
                LogAndEnd, Starting, sessionVars
  <2> QED BY <2>1
<1>5. ASSUME NEW c \in Clients, SessionThread(c) PROVE ServedInv'
  <2>1. UNCHANGED <<list, lpc, lsession>>
    BY <1>5 DEF SessionThread, SessionConnected, Recv, RecvEnd, RecvError,
                DecLoad, DecStore, LastSession, UseAfterFree, listenerVars
  <2>2. \A d \in Clients : spc'[d] = "none" <=> spc[d] = "none"
    BY <1>5, NoThreadUndone
  <2> QED BY <1>0, <2>1, <2>2
<1>6. CASE UNCHANGED listenerVars /\ UNCHANGED sessionVars
  BY <1>6 DEF listenerVars, sessionVars
<1> QED
  BY ListenerFrame, SessionFrame, <1>1, <1>2, <1>3, <1>4, <1>5, <1>6
     DEF ListenerThread

ExactInv == IsFiniteSet(CountedSessions) /\ CountUnlessLost

\* IncStore counts one session in and DecStore counts one out; every other
\* step leaves the count and the sessions that are counted as they were.
LEMMA ExactStep ==
    TypeOK /\ ServedInv /\ ExactInv /\ [CountNext]_countVars => ExactInv'
<1> SUFFICES ASSUME TypeOK, ServedInv, ExactInv, [CountNext]_countVars
             PROVE ExactInv'
  OBVIOUS
<1> DEFINE In == Active \cup {"dec_load", "dec_store", "failed"}
<1> USE DEF Starting
<1>0. /\ spc \in [Clients -> SessionPcs] /\ num_active_conn \in Int
      /\ lpc \in Starting => lsession \in Clients /\ spc[lsession] = "none"
      /\ sreg \in [Clients -> Int]
  BY DEF TypeOK, ListenerTypeOK, SessionTypeOK, SharedTypeOK, ServedInv
<1>1. [Next]_vars /\ (~lost_update' => ~lost_update)
  <2>1. CASE CountNext
    BY <2>1, Zenon DEF CountNext
  <2>2. CASE UNCHANGED countVars
    BY <2>2 DEF countVars
  <2> QED BY <2>1, <2>2
<1>2. ASSUME UNCHANGED num_active_conn, CountedSessions' = CountedSessions
      PROVE  ExactInv'
  BY <1>1, <1>2 DEF ExactInv, CountUnlessLost
<1>3. CASE IncStore
  <2>1. lsession \notin CountedSessions /\ lsession \in Clients
    BY <1>0, <1>3 DEF IncStore, CountedSessions, Active
  <2>2. CountedSessions' = CountedSessions \cup {lsession}
    BY <1>3, <2>1 DEF IncStore, CountedSessions, sessionVars
  <2>3. ~lost_update' => num_active_conn' = num_active_conn + 1
    BY <1>3 DEF IncStore, CountNext, countVars, vars, Overwrites,
                IncOverwrites
  <2> QED BY <1>1, <2>1, <2>2, <2>3, FS_AddElement
             DEF ExactInv, CountUnlessLost
<1>4. CASE Spawn
  <2>1. CountedSessions' = CountedSessions
    <3>1. spc' = [spc EXCEPT ![lsession] = "start"] /\ lpc = "spawn"
          /\ lpc' = "first"
      BY <1>4 DEF Spawn, CreateThread
    <3> QED BY <1>0, <3>1 DEF CountedSessions, Active
  <2> QED BY <1>2, <1>4, <2>1 DEF Spawn
<1>5. CASE ListenerThread /\ ~IncStore /\ ~Spawn
  <2>1. /\ lpc # "spawn" /\ lpc' # "spawn" /\ UNCHANGED <<spc, num_active_conn>>
    BY <1>5 DEF ListenerThread, TbListen, ListenFails, SetupPoll, SetupFails,
                NoEpoll, AbortClose, Abort, LoopTest, Poll, Accept,
                AcceptWouldBlock, AcceptFails, IncLoad, FirstSession,
                CloseListener, Cleanup, TbExit, LogAndEnd, sessionVars
  <2>2. CountedSessions' = CountedSessions
    BY <2>1 DEF CountedSessions
  <2> QED BY <1>2, <2>1, <2>2
<1>6. ASSUME NEW c \in Clients, DecStore(c) PROVE ExactInv'
  <2>1. /\ spc[c] = "dec_store" /\ UNCHANGED <<lpc, lsession>>
        /\ spc'[c] \in {"last", "done"}
        /\ \A d \in Clients : d # c => spc'[d] = spc[d]
    BY <1>0, <1>6 DEF DecStore, listenerVars
  <2>2. c \in CountedSessions
    BY <2>1 DEF CountedSessions
  <2>3. CountedSessions' = CountedSessions \ {c}
    BY <1>0, <2>1 DEF CountedSessions, Active
  <2>4. ~lost_update' => num_active_conn' = num_active_conn - 1
    BY <1>0, <1>6 DEF DecStore, Decremented, CountNext, countVars, vars,
                      Overwrites, DecOverwrites
  <2> QED BY <1>1, <2>2, <2>3, <2>4, FS_RemoveElement
             DEF ExactInv, CountUnlessLost
<1>7. ASSUME NEW c \in Clients, SessionThread(c), ~DecStore(c)
      PROVE  ExactInv'
  <2>1. /\ UNCHANGED <<lpc, lsession, num_active_conn>>
        /\ \A d \in Clients : spc'[d] \in In <=> spc[d] \in In
    <3>1. CASE UseAfterFree(c)
      BY <1>0, <3>1 DEF UseAfterFree, Killed, Active, listenerVars
    <3>2. CASE ~UseAfterFree(c)
      BY <1>0, <1>7, <3>2 DEF SessionThread, SessionConnected, Recv, RecvEnd,
         RecvError, DecLoad, LastSession, Active, listenerVars
    <3> QED BY <3>1, <3>2
  <2>2. CountedSessions' = CountedSessions
    BY <2>1 DEF CountedSessions
  <2> QED BY <1>2, <2>1, <2>2
<1>8. CASE UNCHANGED listenerVars /\ UNCHANGED sessionVars
            /\ UNCHANGED num_active_conn
  <2>1. CountedSessions' = CountedSessions
    BY <1>8 DEF CountedSessions, listenerVars, sessionVars
  <2> QED BY <1>2, <1>8, <2>1
<1> QED
  BY <1>1, <1>3, <1>4, <1>5, <1>6, <1>7, <1>8, ListenerFrame, SessionFrame,
     SharedFrame DEF sharedVars, SigAction, LastSession, SessionThread

\* For any number of sessions, over both transports, whatever is interrupted,
\* reset, dropped or refused: num_active_conn is the number of sessions that
\* have been counted in and not out, in every state, until two threads have
\* updated it at once (tb_session_list_inc, tb_session_list_dec).
THEOREM CountExactly == CountSpec => []CountUnlessLost
<1>1. CountInit => Init
  BY DEF CountInit
<1>2. [CountNext]_countVars => [Next]_vars
  BY DEF CountNext, countVars
<1>3. Init => ServedInv
  BY DEF Init, ServedInv, Starting
<1>4. CountInit => ExactInv
  <2> SUFFICES ASSUME CountInit PROVE ExactInv
    OBVIOUS
  <2>1. CountedSessions = {} /\ num_active_conn = 0
    BY DEF CountInit, Init, CountedSessions, Active
  <2> QED BY <2>1, FS_EmptySet DEF ExactInv, CountUnlessLost
<1>5. ExactInv => CountUnlessLost
  BY DEF ExactInv
<1> QED
  BY <1>1, <1>2, <1>3, <1>4, <1>5, CountInvariant, ServedStep, ExactStep, PTL
     DEF CountSpec, Spec
-----------------------------------------------------------------------------
(* Together. *)

\* What the listener thread owes to a connection that it has accepted: a
\* thread, and a place in the chain of stats (tb_stream_event 165-179).
THEOREM Serves == Spec => []AcceptedIsServed
<1>1. NoOrphanSession /\ StatsChainComplete => AcceptedIsServed
  BY DEF AcceptedIsServed
<1> QED BY NoSessionIsOrphaned, StatsChain, <1>1, PTL

\* The monitor counts no byte twice and no rate below zero, whatever happens to
\* the sessions during its walk (tb_set_m_stats 445-493, tb_monitor 355-358).
THEOREM CountsMakeSense == Spec => []MonitorCounts
<1>1. NeverOvercounts /\ RateNeverNegative => MonitorCounts
  BY DEF MonitorCounts
<1> QED BY MonitorNeverOvercounts, MonitorRate, <1>1, PTL
=============================================================================
