------------------------------ MODULE MServer ------------------------------
(***************************************************************************)
(* The multiple-connection server of TestBed: the TCP/DCCP one             *)
(* (tb_stream_m_server) and the UDT one (tb_udt_m_server), which differ    *)
(* only where Transport is read below.                                     *)
(*                                                                         *)
(*  - the listener thread (tb_server) listens, polls for events, accepts   *)
(*    until accept would block, and starts one session thread for each     *)
(*    connection;                                                          *)
(*  - a session thread receives until the end of its connection, and then  *)
(*    counts itself out of num_active_conn; the one that brings the count  *)
(*    to zero orders the listener to leave its loop;                       *)
(*  - the main thread (tb_start) monitors: it reads every session's bytes  *)
(*    each m_sleep, until the listener is EXITING or ABORTING.             *)
(*                                                                         *)
(* One action is one access to memory that another thread also accesses,   *)
(* with the thread-local code around it.  Every lock on these paths is     *)
(* taken with pthread_mutex_trylock and its result is ignored, so that it  *)
(* delays nobody; only tb_abort waits for one (stat_lock).                 *)
(*                                                                         *)
(* Nobody waits for the session threads.  The UDT server's last act is to  *)
(* take every UDT socket from them (udt_cleanup), and the main thread      *)
(* frees the list they count themselves out of (tb_destroy_listener).      *)
(***************************************************************************)
EXTENDS Integers, Sequences, FiniteSets

CONSTANTS
    Clients,       \* remote endpoints; each opens at most one connection
    Bytes,         \* bytes a client may send on its connection
    Faulty,        \* the clients whose connection may be reset
    Transport,     \* "stream" (TCP, DCCP) or "udt"
    Sigint,        \* may the process be interrupted?
    AcceptErrors,  \* how often accept may fail with a connection pending
    NoSession      \* the NULL tb_session_t pointer

ASSUME ClientsAssumption == NoSession \notin Clients
ASSUME BytesAssumption == Bytes \in Nat
ASSUME FaultyAssumption == Faulty \subseteq Clients
ASSUME TransportAssumption == Transport \in {"stream", "udt"}
ASSUME SigintAssumption == Sigint \in BOOLEAN
ASSUME AcceptErrorsAssumption == AcceptErrors \in Nat

VARIABLES
    \* The fields of tb_listener_t that threads share.
    status,         \* listener->status
    command,        \* listener->command
    sock_d,         \* listener->sock_d: "fd", or "none" for -1
    n_stats,        \* the session whose stats listener->stats->n_stats names
    list,           \* listener->session_list, from start to end
    num_active_conn,
    \* The listener thread.
    lpc, lsession, lreg,
    \* The session threads.
    spc, sstatus, total_bytes, sreg,
    \* The main thread.
    mpc, round, cursor, current_read, prev_bytes,
    \* The network and the clients.
    listening, backlog, ready, conn, sent, inflight, accept_errors

listenerVars == <<status, sock_d, n_stats, list, lpc, lsession, lreg>>
sessionVars  == <<spc, sstatus, total_bytes, sreg>>
mainVars     == <<mpc, round, cursor, current_read, prev_bytes>>
netVars      == <<listening, backlog, ready, conn, sent, inflight,
                  accept_errors>>
vars == <<status, command, sock_d, n_stats, list, num_active_conn,
          lpc, lsession, lreg, spc, sstatus, total_bytes, sreg,
          mpc, round, cursor, current_read, prev_bytes,
          listening, backlog, ready, conn, sent, inflight, accept_errors>>

Statuses == {"CREATED", "LISTENING", "CONNECTED", "DISCONNECTED",
             "EXITING", "ABORTING"}
Commands == {"CONTINUE", "EXIT"}
SessionStatuses == {"CREATED", "CONNECTED", "DISCONNECTED"}
ListenerPcs == {"listen", "setup", "abort", "abort_status",
                "loop", "poll", "accept",
                "inc_load", "inc_store", "spawn", "first",
                "close", "cleanup", "exit", "log", "done"}
\* "done": it has counted itself out; "failed": it ended without doing so.
SessionPcs == {"none", "start", "recv", "dec_load", "dec_store", "last",
               "done", "failed"}
MainPcs == {"spin", "test", "wake", "final", "walk", "collect", "destroy",
            "done"}
ConnStates == {"idle", "connected", "closed", "lost", "reset", "refused",
               "dropped"}

Init ==
    /\ status = "CREATED" /\ command = "CONTINUE" /\ sock_d = "fd"
    /\ n_stats = NoSession /\ list = <<>> /\ num_active_conn = 0
    /\ lpc = "listen" /\ lsession = NoSession /\ lreg = 0
    /\ spc = [c \in Clients |-> "none"]
    /\ sstatus = [c \in Clients |-> "CREATED"]
    /\ total_bytes = [c \in Clients |-> 0]
    /\ sreg = [c \in Clients |-> 0]
    /\ mpc = "spin" /\ round = "idle" /\ cursor = 1
    /\ current_read = [c \in Clients |-> 0]
    /\ prev_bytes = [c \in Clients |-> 0]
    /\ listening = FALSE /\ backlog = <<>> /\ ready = FALSE
    /\ conn = [c \in Clients |-> "idle"]
    /\ sent = [c \in Clients |-> 0]
    /\ inflight = [c \in Clients |-> 0]
    /\ accept_errors = 0

-----------------------------------------------------------------------------
(* The listener thread. *)

\* tb_listen or udt_listen, and the status.
TbListen ==
    /\ lpc = "listen"
    /\ lpc' = "setup" /\ status' = "LISTENING" /\ listening' = TRUE
    /\ UNCHANGED <<command, sock_d, n_stats, list, num_active_conn, lsession,
                   lreg, sessionVars, mainVars, backlog, ready, conn, sent,
                   inflight, accept_errors>>

\* tb_bind or tb_listen failed: f_abort, which is tb_abort.
ListenFails ==
    /\ lpc = "listen" /\ lpc' = "abort"
    /\ UNCHANGED <<status, command, sock_d, n_stats, list, num_active_conn,
                   lsession, lreg, sessionVars, mainVars, netVars>>

\* The socket is non-blocking and is registered for events.
SetupPoll ==
    /\ lpc = "setup" /\ lpc' = "loop"
    /\ UNCHANGED <<status, command, sock_d, n_stats, list, num_active_conn,
                   lsession, lreg, sessionVars, mainVars, netVars>>

\* UDT aborts when that fails.
SetupFails ==
    /\ lpc = "setup" /\ Transport = "udt" /\ lpc' = "abort"
    /\ UNCHANGED <<status, command, sock_d, n_stats, list, num_active_conn,
                   lsession, lreg, sessionVars, mainVars, netVars>>

\* What the kernel does to the connections in the backlog of a socket that is
\* closed.
Refused == [c \in Clients |-> IF \E i \in DOMAIN backlog : backlog[i] = c
                              THEN "refused" ELSE conn[c]]

\* The stream server follows the NULL pointer that tb_create_e_poll returns,
\* and the process dies of it.
NoEpoll ==
    /\ lpc = "setup" /\ Transport = "stream"
    /\ lpc' = "done" /\ mpc' = "done"
    /\ listening' = FALSE /\ backlog' = <<>> /\ conn' = Refused
    /\ UNCHANGED <<status, command, sock_d, n_stats, list, num_active_conn,
                   lsession, lreg, sessionVars, round, cursor, current_read,
                   prev_bytes, ready, sent, inflight, accept_errors>>

\* stat_lock is held by the main thread throughout tb_set_m_stats.
StatLockHeld == mpc \in {"walk", "collect"}

AbortClose ==
    /\ lpc = "abort" /\ ~StatLockHeld
    /\ lpc' = "abort_status" /\ status' = "DISCONNECTED"
    /\ listening' = FALSE /\ backlog' = <<>> /\ conn' = Refused
    /\ UNCHANGED <<command, sock_d, n_stats, list, num_active_conn, lsession,
                   lreg, sessionVars, mainVars, ready, sent, inflight,
                   accept_errors>>

Abort ==
    /\ lpc = "abort_status"
    /\ lpc' = "log" /\ status' = "ABORTING"
    /\ UNCHANGED <<command, sock_d, n_stats, list, num_active_conn, lsession,
                   lreg, sessionVars, mainVars, netVars>>

\* while(!(listener->command & TB_E_LOOP))
LoopTest ==
    /\ lpc = "loop"
    /\ lpc' = IF command = "EXIT" THEN "close" ELSE "poll"
    /\ UNCHANGED <<status, command, sock_d, n_stats, list, num_active_conn,
                   lsession, lreg, sessionVars, mainVars, netVars>>

\* The poll of the stream server is edge triggered: it reports a connection
\* that arrived since the last report, for as long as one is still pending.
\* UDT's own epoll has no such mode and reports whatever is pending.
Reported == backlog # <<>> /\ (ready \/ Transport = "udt")

\* Either there is an event or w_time is over.
Poll ==
    /\ lpc = "poll"
    /\ lpc' = IF Reported THEN "accept" ELSE "loop"
    /\ ready' = FALSE
    /\ UNCHANGED <<status, command, sock_d, n_stats, list, num_active_conn,
                   lsession, lreg, sessionVars, mainVars, listening, backlog,
                   conn, sent, inflight, accept_errors>>

\* Slip: the new session is linked in front of the list.
AddToFront(session) == <<session>> \o list
\* tb_session_add_to: the new session becomes the end of the list.
SessionAddTo(session) == Append(list, session)

\* tb_create_session, accept, tb_session_add.
Accept ==
    /\ lpc = "accept" /\ backlog # <<>>
    /\ lsession' = Head(backlog) /\ backlog' = Tail(backlog)
    /\ list' = SessionAddTo(Head(backlog))
    /\ lpc' = "inc_load"
    /\ UNCHANGED <<status, command, sock_d, n_stats, num_active_conn, lreg,
                   sessionVars, mainVars, listening, ready, conn, sent,
                   inflight, accept_errors>>

AcceptWouldBlock ==
    /\ lpc = "accept" /\ backlog = <<>> /\ lpc' = "loop"
    /\ UNCHANGED <<status, command, sock_d, n_stats, list, num_active_conn,
                   lsession, lreg, sessionVars, mainVars, netVars>>

\* accept fails for another reason (no descriptor left): the same return.
AcceptFails ==
    /\ lpc = "accept" /\ backlog # <<>> /\ accept_errors < AcceptErrors
    /\ accept_errors' = accept_errors + 1 /\ lpc' = "loop"
    /\ UNCHANGED <<status, command, sock_d, n_stats, list, num_active_conn,
                   lsession, lreg, sessionVars, mainVars, listening, backlog,
                   ready, conn, sent, inflight>>

\* tb_session_list_inc: ++(*list->num_active_conn) is a load and a store.
IncLoad ==
    /\ lpc = "inc_load" /\ lpc' = "inc_store" /\ lreg' = num_active_conn
    /\ UNCHANGED <<status, command, sock_d, n_stats, list, num_active_conn,
                   lsession, sessionVars, mainVars, netVars>>

IncStore ==
    /\ lpc = "inc_store" /\ lpc' = "spawn" /\ num_active_conn' = lreg + 1
    /\ lreg' = 0
    /\ UNCHANGED <<status, command, sock_d, n_stats, list, lsession,
                   sessionVars, mainVars, netVars>>

\* Slip: a thread is created for the first session only.
CreateFirstThread ==
    IF status = "LISTENING" THEN [spc EXCEPT ![lsession] = "start"] ELSE spc
\* pthread_create
CreateThread == [spc EXCEPT ![lsession] = "start"]

Spawn ==
    /\ lpc = "spawn" /\ lpc' = "first"
    /\ spc' = CreateThread
    /\ UNCHANGED <<status, command, sock_d, n_stats, list, num_active_conn,
                   lsession, lreg, sstatus, total_bytes, sreg, mainVars,
                   netVars>>

\* Slip: every session starts the chain of stats.
AnySession == TRUE
\* if(listener->status == TB_LISTENING)
StillListening == status = "LISTENING"

\* Slip: one accept for each event.
FirstSessionThenPoll ==
    /\ lpc = "first" /\ lpc' = "loop"
    /\ status' = IF StillListening THEN "CONNECTED" ELSE status
    /\ n_stats' = IF StillListening THEN lsession ELSE n_stats
    /\ UNCHANGED <<command, sock_d, list, num_active_conn, lsession, lreg,
                   sessionVars, mainVars, netVars>>
\* If still listening, change to connected, and start the chain of stats.
FirstSession ==
    /\ lpc = "first" /\ lpc' = "accept"
    /\ status' = IF StillListening THEN "CONNECTED" ELSE status
    /\ n_stats' = IF StillListening THEN lsession ELSE n_stats
    /\ UNCHANGED <<command, sock_d, list, num_active_conn, lsession, lreg,
                   sessionVars, mainVars, netVars>>

\* Slip: sock_d is reset for every transport.
Reset == "none"
\* Only the stream server resets sock_d.
SockAfterClose == IF Transport = "stream" THEN "none" ELSE sock_d

CloseListener ==
    /\ lpc = "close" /\ status' = "DISCONNECTED"
    /\ lpc' = IF Transport = "udt" THEN "cleanup" ELSE "exit"
    /\ sock_d' = SockAfterClose
    /\ listening' = FALSE /\ backlog' = <<>> /\ conn' = Refused
    /\ UNCHANGED <<command, n_stats, list, num_active_conn, lsession, lreg,
                   sessionVars, mainVars, ready, sent, inflight,
                   accept_errors>>

\* udt_cleanup closes every socket of the process, also those of the sessions
\* that still receive.
Cleanup ==
    /\ lpc = "cleanup" /\ lpc' = "exit"
    /\ conn' = [c \in Clients |->
                  IF spc[c] \in {"start", "recv"} THEN "dropped" ELSE conn[c]]
    /\ UNCHANGED <<status, command, sock_d, n_stats, list, num_active_conn,
                   lsession, lreg, sessionVars, mainVars, listening, backlog,
                   ready, sent, inflight, accept_errors>>

TbExit ==
    /\ lpc = "exit" /\ lpc' = "log" /\ status' = "EXITING"
    /\ UNCHANGED <<command, sock_d, n_stats, list, num_active_conn, lsession,
                   lreg, sessionVars, mainVars, netVars>>

\* LOG(listener, ...), with the new status already visible to the others.
LogAndEnd ==
    /\ lpc = "log" /\ lpc' = "done"
    /\ UNCHANGED <<status, command, sock_d, n_stats, list, num_active_conn,
                   lsession, lreg, sessionVars, mainVars, netVars>>

ListenerThread ==
    \/ TbListen \/ ListenFails \/ SetupPoll \/ SetupFails \/ NoEpoll
    \/ AbortClose \/ Abort
    \/ LoopTest \/ Poll \/ Accept \/ AcceptWouldBlock \/ AcceptFails
    \/ IncLoad \/ IncStore \/ Spawn \/ FirstSession
    \/ CloseListener \/ Cleanup \/ TbExit \/ LogAndEnd
-----------------------------------------------------------------------------
(* The session threads. *)

SessionConnected(c) ==
    /\ spc[c] = "start"
    /\ spc' = [spc EXCEPT ![c] = "recv"]
    /\ sstatus' = [sstatus EXCEPT ![c] = "CONNECTED"]
    /\ UNCHANGED <<listenerVars, command, num_active_conn, total_bytes, sreg,
                   mainVars, netVars>>

\* recv returns rc bytes of those that have arrived.
Recv(c) ==
    /\ spc[c] = "recv"
    /\ \E rc \in 1 .. inflight[c] :
         /\ inflight' = [inflight EXCEPT ![c] = @ - rc]
         /\ total_bytes' = [total_bytes EXCEPT ![c] = @ + rc]
    /\ UNCHANGED <<listenerVars, command, num_active_conn, spc, sstatus, sreg,
                   mainVars, listening, backlog, ready, conn, sent,
                   accept_errors>>

\* Slip: what has arrived and was not received yet is forgotten.
PeerGone(c) == conn[c] \in {"closed", "lost", "dropped"}
\* recv returns 0, or UDT reports the connection lost (error 2001), which is
\* also what becomes of a session whose socket udt_cleanup has closed.
EndOfStream(c) ==
    \/ inflight[c] = 0 /\ conn[c] = "closed"
    \/ inflight[c] = 0 /\ conn[c] = "lost" /\ Transport = "udt"
    \/ conn[c] = "dropped"

\* The session leaves its loop, closes its socket and is DISCONNECTED.
RecvEnd(c) ==
    /\ spc[c] = "recv" /\ EndOfStream(c)
    /\ spc' = [spc EXCEPT ![c] = "dec_load"]
    /\ sstatus' = [sstatus EXCEPT ![c] = "DISCONNECTED"]
    /\ UNCHANGED <<listenerVars, command, num_active_conn, total_bytes, sreg,
                   mainVars, netVars>>

\* recv fails: the connection was reset, or UDT has already forgotten the
\* socket.  The session ends, and num_active_conn is not decremented.
RecvError(c) ==
    /\ spc[c] = "recv" /\ conn[c] \in {"reset", "dropped"}
    /\ spc' = [spc EXCEPT ![c] = "failed"]
    /\ sstatus' = [sstatus EXCEPT ![c] = "DISCONNECTED"]
    /\ UNCHANGED <<listenerVars, command, num_active_conn, total_bytes, sreg,
                   mainVars, netVars>>

\* tb_session_list_dec: --(*list->num_active_conn) is a load and a store.
DecLoad(c) ==
    /\ spc[c] = "dec_load"
    /\ spc' = [spc EXCEPT ![c] = "dec_store"]
    /\ sreg' = [sreg EXCEPT ![c] = num_active_conn]
    /\ UNCHANGED <<listenerVars, command, num_active_conn, sstatus,
                   total_bytes, mainVars, netVars>>

\* Slip: the count before the decrement.
NotDecremented(c) == sreg[c]
Decremented(c) == sreg[c] - 1

\* Slip: the negation is lost.
IsNotLast(c) == Decremented(c) # 0
\* if(!tb_session_list_dec(list))
IsLast(c) == Decremented(c) = 0

DecStore(c) ==
    /\ spc[c] = "dec_store"
    /\ num_active_conn' = Decremented(c)
    /\ sreg' = [sreg EXCEPT ![c] = 0]
    /\ spc' = [spc EXCEPT ![c] = IF IsLast(c) THEN "last" ELSE "done"]
    /\ UNCHANGED <<listenerVars, command, sstatus, total_bytes, mainVars,
                   netVars>>

\* *(int*)list->userdata = TB_EXIT: shut the door on the way out.
LastSession(c) ==
    /\ spc[c] = "last"
    /\ spc' = [spc EXCEPT ![c] = "done"] /\ command' = "EXIT"
    /\ UNCHANGED <<listenerVars, num_active_conn, sstatus, total_bytes, sreg,
                   mainVars, netVars>>

\* Where the death of the process leaves a session.
Killed(pc) ==
    IF pc \in {"start", "recv", "dec_load", "dec_store"} THEN "failed"
    ELSE IF pc = "last" THEN "done" ELSE pc

\* The list that the session is about to use has been freed with the listener:
\* the process may die of it.  Or the freed memory is still as it was, and the
\* session goes on as above.
UseAfterFree(c) ==
    /\ mpc = "done" /\ spc[c] \in {"dec_load", "dec_store", "last"}
    /\ spc' = [d \in Clients |-> Killed(spc[d])]
    /\ UNCHANGED <<listenerVars, command, num_active_conn, sstatus,
                   total_bytes, sreg, mainVars, netVars>>

SessionThread(c) ==
    \/ SessionConnected(c) \/ Recv(c) \/ RecvEnd(c) \/ RecvError(c)
    \/ DecLoad(c) \/ DecStore(c) \/ LastSession(c) \/ UseAfterFree(c)
-----------------------------------------------------------------------------
(* The main thread.  current_read is listener->stats->current_read, by     *)
(* what each session contributed to the sum.  total_tx_rx, which            *)
(* tb_set_m_stats adds up beside it from a second read, is left out.        *)

\* while(listener->sock_d == -1);
MonitorSpin ==
    /\ mpc = "spin" /\ sock_d # "none" /\ mpc' = "test"
    /\ UNCHANGED <<listenerVars, command, num_active_conn, sessionVars, round,
                   cursor, current_read, prev_bytes, netVars>>

\* Slip: the loop is not followed by a last read.
NoFinalRead == IF status \in {"EXITING", "ABORTING"} THEN "destroy" ELSE "wake"
AfterTest == IF status \in {"EXITING", "ABORTING"} THEN "final" ELSE "wake"

MonitorTest ==
    /\ mpc = "test"
    /\ mpc' = AfterTest
    /\ UNCHANGED <<listenerVars, command, num_active_conn, sessionVars, round,
                   cursor, current_read, prev_bytes, netVars>>

\* Slip: current_read keeps the previous sum.
KeepCount == current_read
\* listener->stats->current_read = 0; listener->total_tx_rx = 0
ResetCount == [c \in Clients |-> 0]

\* usleep(m_sleep) is over, or this is the final read: tb_set_m_stats starts.
StartStats ==
    /\ mpc \in {"wake", "final"} /\ mpc' = "walk"
    /\ round' = IF mpc = "final" THEN "final"
                ELSE IF status = "CONNECTED" THEN "rate" ELSE "idle"
    /\ current_read' = ResetCount /\ cursor' = 1
    /\ UNCHANGED <<listenerVars, command, num_active_conn, sessionVars,
                   prev_bytes, netVars>>

\* listener->stats->current_read += session->total_bytes
Count(c) == total_bytes[c]

AddSession ==
    /\ mpc = "walk" /\ cursor <= Len(list) /\ mpc' = "collect"
    /\ LET c == list[cursor] IN
         current_read' = [current_read EXCEPT ![c] = @ + Count(c)]
    /\ UNCHANGED <<listenerVars, command, num_active_conn, sessionVars, round,
                   cursor, prev_bytes, netVars>>

\* The session's status is read, after its bytes; if it is connected,
\* tb_get_stats collects the transport's figures, which are left out.
CollectStats ==
    /\ mpc = "collect" /\ mpc' = "walk" /\ cursor' = cursor + 1
    /\ UNCHANGED <<listenerVars, command, num_active_conn, sessionVars, round,
                   current_read, prev_bytes, netVars>>

\* The end of tb_set_m_stats; when connected, tb_monitor takes the rate.
EndStats ==
    /\ mpc = "walk" /\ cursor > Len(list)
    /\ mpc' = IF round = "final" THEN "destroy" ELSE "test"
    /\ prev_bytes' = IF round = "rate" THEN current_read ELSE prev_bytes
    /\ UNCHANGED <<listenerVars, command, num_active_conn, sessionVars, round,
                   cursor, current_read, netVars>>

\* tb_monitor returns, and tb_start destroys the listener: from now on
\* session_list and listener are freed memory.
MainExit ==
    /\ mpc = "destroy" /\ mpc' = "done"
    /\ UNCHANGED <<listenerVars, command, num_active_conn, sessionVars, round,
                   cursor, current_read, prev_bytes, netVars>>

MainThread ==
    \/ MonitorSpin \/ MonitorTest \/ StartStats \/ AddSession \/ CollectStats
    \/ EndStats \/ MainExit
-----------------------------------------------------------------------------
(* The clients, the network between them and the server, and SIGINT. *)

\* A connection completes in the kernel, before the server accepts it.
Connect(c) ==
    /\ conn[c] = "idle"
    /\ IF listening
       THEN /\ conn' = [conn EXCEPT ![c] = "connected"]
            /\ backlog' = Append(backlog, c) /\ ready' = TRUE
       ELSE /\ conn' = [conn EXCEPT ![c] = "refused"]
            /\ UNCHANGED <<backlog, ready>>
    /\ UNCHANGED <<listenerVars, command, num_active_conn, sessionVars,
                   mainVars, listening, sent, inflight, accept_errors>>

ClientSend(c) ==
    /\ conn[c] = "connected" /\ sent[c] < Bytes
    /\ sent' = [sent EXCEPT ![c] = @ + 1]
    /\ inflight' = [inflight EXCEPT ![c] = @ + 1]
    /\ UNCHANGED <<listenerVars, command, num_active_conn, sessionVars,
                   mainVars, listening, backlog, ready, conn, accept_errors>>

ClientClose(c) ==
    /\ conn[c] = "connected"
    /\ conn' = [conn EXCEPT ![c] = "closed"]
    /\ UNCHANGED <<listenerVars, command, num_active_conn, sessionVars,
                   mainVars, listening, backlog, ready, sent, inflight,
                   accept_errors>>

\* What a reset connection had not delivered is gone; UDT may also lose its
\* peer, and still delivers what had arrived by then.
ClientFails(c) ==
    /\ c \in Faulty /\ conn[c] = "connected"
    /\ \/ /\ conn' = [conn EXCEPT ![c] = "reset"]
          /\ inflight' = [inflight EXCEPT ![c] = 0]
       \/ /\ Transport = "udt"
          /\ conn' = [conn EXCEPT ![c] = "lost"]
          /\ \E arrived \in 0 .. inflight[c] :
               inflight' = [inflight EXCEPT ![c] = arrived]
    /\ UNCHANGED <<listenerVars, command, num_active_conn, sessionVars,
                   mainVars, listening, backlog, ready, sent, accept_errors>>

\* sig_action: SIGINT orders the loop to end (and for SERVER and CLIENT only,
\* shuts the socket down).
SigAction ==
    /\ Sigint /\ lpc # "done" /\ command # "EXIT" /\ command' = "EXIT"
    /\ UNCHANGED <<listenerVars, num_active_conn, sessionVars, mainVars,
                   netVars>>

Client(c) ==
    \/ Connect(c) \/ ClientSend(c) \/ ClientClose(c) \/ ClientFails(c)

Next ==
    \/ ListenerThread
    \/ \E c \in Clients : SessionThread(c) \/ Client(c)
    \/ MainThread
    \/ SigAction

Spec == Init /\ [][Next]_vars

(* A thread that can run is scheduled.  tb_abort contends for stat_lock     *)
(* with a monitor that sleeps between its reads, hence the strong fairness. *)
(* A client closes the connection it has opened (tb_stream_m_client joins   *)
(* and closes every session), but none has to connect.                      *)
Fairness ==
    /\ WF_vars(ListenerThread) /\ SF_vars(AbortClose)
    /\ \A c \in Clients : WF_vars(SessionThread(c))
    /\ WF_vars(MainThread)
    /\ \A c \in Clients : WF_vars(ClientClose(c))

FairSpec == Spec /\ Fairness
-----------------------------------------------------------------------------
(* Properties. *)

Active == {"start", "recv"}
Leaving == {"dec_load", "dec_store", "last"}
Finished == {"done", "failed"}
Starting == {"inc_load", "inc_store", "spawn"}
Backlogged(c) == \E i \in DOMAIN backlog : backlog[i] = c
Listed(c) == \E i \in DOMAIN list : list[i] = c

\* Every variable keeps to the values the code gives it; the session that the
\* listener thread is starting is the last of the list.
ListenerTypeOK ==
    /\ status \in Statuses /\ sock_d \in {"fd", "none"}
    /\ n_stats \in Clients \cup {NoSession} /\ list \in Seq(Clients)
    /\ lpc \in ListenerPcs /\ lsession \in Clients \cup {NoSession}
    /\ lreg \in Int
    /\ lpc \in Starting \cup {"first"} => list # <<>>
                                        /\ lsession = list[Len(list)]
SharedTypeOK == command \in Commands /\ num_active_conn \in Int
SessionTypeOK ==
    /\ spc \in [Clients -> SessionPcs]
    /\ sstatus \in [Clients -> SessionStatuses]
    /\ total_bytes \in [Clients -> Nat] /\ sreg \in [Clients -> Int]
MonitorTypeOK ==
    /\ mpc \in MainPcs /\ round \in {"rate", "idle", "final"}
    /\ cursor \in Nat \ {0}
    /\ current_read \in [Clients -> Nat] /\ prev_bytes \in [Clients -> Nat]
NetworkTypeOK ==
    /\ listening \in BOOLEAN /\ backlog \in Seq(Clients)
    /\ ready \in BOOLEAN /\ conn \in [Clients -> ConnStates]
    /\ sent \in [Clients -> 0 .. Bytes] /\ inflight \in [Clients -> Nat]
    /\ accept_errors \in 0 .. AcceptErrors
TypeOK ==
    /\ ListenerTypeOK /\ SharedTypeOK /\ SessionTypeOK /\ MonitorTypeOK
    /\ NetworkTypeOK

\* The stats printed at the end are chained from the first session: once it
\* has been started, n_stats names it, and no later session replaces it
\* (tb_stream_event 174-179, tb_monitor 411-426).
StatsChainComplete ==
    lpc \notin Starting \cup {"first"} /\ list # <<>> => n_stats = Head(list)

\* A connection that has been accepted has a thread by the time the listener
\* is back in its accept loop: none is left in the list with nobody to
\* receive from it, whatever ends the loop (tb_stream_event 165-171).
NoOrphanSession ==
    \A c \in Clients :
        Listed(c) /\ spc[c] = "none" => lpc \in Starting /\ c = lsession

\* A session whose client closed does not end before it has received every
\* byte that was sent on it, unless the server's own udt_cleanup took the
\* connection from it first (tb_stream_m_server_conn 196-215, tb_udt.c 171).
CompleteDelivery ==
    \A c \in Clients :
        spc[c] \in Leaving \cup {"done"} /\ conn[c] = "closed" =>
            total_bytes[c] = sent[c]

\* The monitor never counts bytes twice, nor bytes that a session has not
\* received, although the list grows and the sessions receive while it walks
\* (tb_set_m_stats 445-493).
NeverOvercounts ==
    \A c \in Clients : /\ current_read[c] <= total_bytes[c]
                       /\ prev_bytes[c] <= total_bytes[c]

\* When a walk of the sessions ends, no session counts for less than at the
\* previous one: byte_sec = current_read - prev_bytes is never negative, also
\* after a session has disconnected (tb_monitor 355-358).
RateNeverNegative ==
    mpc = "walk" /\ cursor > Len(list) =>
        \A c \in Clients : prev_bytes[c] <= current_read[c]

\* What an accepted connection is owed by the listener thread, which starts
\* its session before it has linked it: a thread, and a place in the chain.
AcceptedIsServed == NoOrphanSession /\ StatsChainComplete

\* The monitor's numbers make sense although sessions receive, end and are
\* appended while it walks their list.
MonitorCounts == NeverOvercounts /\ RateNeverNegative

\* The places of the list whose sessions receive.
ActivePlaces == {i \in DOMAIN list : spc[list[i]] \in Active}
\* "Number of active sessions": with no session starting or leaving,
\* num_active_conn is the number of those that receive (tb_session.h 131).
NumActiveConn ==
    /\ lpc \notin Starting
    /\ \A c \in Clients : spc[c] \notin Leaving
    => num_active_conn = Cardinality(ActivePlaces)

\* Once the loop is told to end, by the last session or by SIGINT, the
\* listener thread ends, whatever connections arrive or sessions still run.
ExitEnds == command = "EXIT" ~> lpc = "done"

\* Once the listener thread has ended, so does the main thread.
MainEnds == lpc = "done" ~> mpc = "done"

\* A connection does not stay in the backlog for ever: it is accepted, or
\* reset when the server closes (tb_stream_event 141-155).
Accepted == \A c \in Clients : Backlogged(c) ~> ~Backlogged(c)

\* Every session that was accepted ends, and its thread with it.
SessionsEnd == \A c \in Clients : Listed(c) ~> spc[c] \in Finished

\* A server that has accepted a connection ends when its sessions have.
ServerEnds == list # <<>> ~> lpc = "done"

\* The server ends by itself with its last session, or because it is told to.
ListenerEnds == ServerEnds /\ ExitEnds

\* If the sessions have all ended when the monitor sees the listener EXITING
\* or ABORTING, its last read reports all that they received (tb_monitor
\* 428-436).
FinalReport ==
    (/\ mpc = "test" /\ status \in {"EXITING", "ABORTING"}
     /\ \A c \in Clients : Listed(c) => spc[c] \in Finished)
    ~> (mpc = "done" /\ \A c \in Clients : Listed(c) =>
                             current_read[c] = total_bytes[c])
=============================================================================
