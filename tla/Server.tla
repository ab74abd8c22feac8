------------------------------- MODULE Server -------------------------------
(***************************************************************************)
(* The single-connection servers of TestBed, tb_stream_server (TCP, DCCP)  *)
(* and tb_udt_server, in the process that tb_start makes: the listener     *)
(* thread serves one connection after another, each with a session that it *)
(* allocates and frees, and the main thread monitors the current one       *)
(* (tb_monitor, tb_set_l_stats) until it destroys the listener.            *)
(*                                                                         *)
(* stat_lock is only tried (pthread_mutex_trylock, result ignored) by both *)
(* threads, and tb_abort finds it free or waits for tb_set_l_stats to end. *)
(***************************************************************************)
EXTENDS Integers, Functions

CONSTANTS
    Transports, \* those a server may be started with: "tcp", "dccp", "udt"
    Sessions,   \* how many connections clients may open, one after another
    Bytes,      \* bytes a client may send on a connection
    Again,      \* how often recv may fail with EAGAIN (DCCP)
    STxEnd,     \* listener->s_tx_end, "EXIT" unless a user changes it
    Sigint      \* may the process be interrupted?

ASSUME TransportsAssumption == Transports \subseteq {"tcp", "dccp", "udt"}
ASSUME BoundsAssumption == Sessions \in Nat /\ Bytes \in Nat /\ Again \in Nat
ASSUME STxEndAssumption == STxEnd \in {"EXIT", "CONTINUE"}
ASSUME SigintAssumption == Sigint \in BOOLEAN

Null == 0
SessionIds == 1 .. Sessions

VARIABLES
    transport,    \* listener->protocol
    status, command, sock_d, total_tx_rx, curr_session,  \* tb_listener_t
    lpc,
    n,            \* the session the listener thread works on
    step,         \* how far it has torn it down
    heap,         \* the session structs: not allocated, live, freed
    received,     \* session->total_bytes
    mpc, msession, \* the main thread, and the session it has loaded
    socket,       \* the listening socket itself
    conn, sent, inflight, \* the connection, as the current client sees it
    lost,         \* of what was sent, the bytes that will never arrive
    agains

shared == <<status, command, sock_d, total_tx_rx, curr_session>>
mainVars == <<mpc, msession>>
netVars == <<socket, conn, sent, inflight, lost, agains>>
vars == <<transport, shared, lpc, n, step, heap, received, mainVars, netVars>>

Ending == {"EXITING", "ABORTING"}

Init ==
    /\ transport \in Transports
    /\ status = "CREATED" /\ command = "CONTINUE" /\ sock_d = "fd"
    /\ total_tx_rx = 0 /\ curr_session = Null
    /\ lpc = "listen" /\ n = 0 /\ step = 1
    /\ heap = [i \in SessionIds |-> "none"]
    /\ received = [i \in SessionIds |-> 0]
    /\ mpc = "spin" /\ msession = Null
    /\ socket = "bound" /\ conn = "none" /\ sent = 0 /\ inflight = 0
    /\ lost = 0 /\ agains = 0

\* The process is gone once a thread has followed a NULL pointer, or a freed
\* one to no good.
Running == mpc # "crashed"
-----------------------------------------------------------------------------
(* The listener thread. *)

Listen ==
    /\ Running /\ lpc = "listen"
    /\ lpc' = "test" /\ status' = "LISTENING" /\ socket' = "listening"
    /\ UNCHANGED <<transport, command, sock_d, total_tx_rx, curr_session, n,
                   step, heap, received, mainVars, conn, sent, inflight, lost,
                   agains>>

\* Binding the socket, or listening on it, failed: tb_abort.
ListenFails ==
    /\ Running /\ lpc = "listen" /\ lpc' = "abort"
    /\ UNCHANGED <<transport, shared, n, step, heap, received, mainVars,
                   netVars>>

\* while(!(listener->command & TB_E_LOOP))
LoopTest ==
    /\ Running /\ lpc = "test"
    /\ lpc' = IF command = "EXIT" THEN "close" ELSE "accept"
    /\ UNCHANGED <<transport, shared, n, step, heap, received, mainVars,
                   netVars>>

\* tb_create_server_session and accept; a session that fails is not freed.
Accept ==
    /\ Running /\ lpc = "accept" /\ conn = "waiting" /\ n < Sessions
    /\ conn' = "open" /\ lpc' = "assign"
    /\ n' = n + 1 /\ heap' = [heap EXCEPT ![n + 1] = "live"]
    /\ UNCHANGED <<transport, shared, step, received, mainVars, socket, sent,
                   inflight, lost, agains>>

\* accept fails, as it does at once on a socket that has been shut down.
AcceptError ==
    /\ Running /\ lpc = "accept"
    /\ socket = "shut" \/ conn = "waiting"
    /\ lpc' = "abort"
    /\ UNCHANGED <<transport, shared, n, step, heap, received, mainVars,
                   netVars>>

\* Slip: the status is set before the session.
StatusThenSession ==
    /\ Running /\ lpc = "assign" /\ lpc' = "connected"
    /\ status' = "CONNECTED"
    /\ UNCHANGED <<transport, command, sock_d, total_tx_rx, curr_session, n,
                   step, heap, received, mainVars, netVars>>
AssignSession ==
    /\ Running /\ lpc = "assign" /\ lpc' = "connected"
    /\ curr_session' = n
    /\ UNCHANGED <<transport, status, command, sock_d, total_tx_rx, n, step,
                   heap, received, mainVars, netVars>>

\* The UDT loop tests the command before each receive, the stream one after.
Connected ==
    /\ Running /\ lpc = "connected" /\ status' = "CONNECTED"
    /\ lpc' = IF transport = "udt" THEN "recv_test" ELSE "recv"
    /\ UNCHANGED <<transport, command, sock_d, total_tx_rx, curr_session, n,
                   step, heap, received, mainVars, netVars>>

RecvTest ==
    /\ Running /\ lpc = "recv_test"
    /\ lpc' = IF command = "EXIT" THEN "down" ELSE "recv"
    /\ UNCHANGED <<transport, shared, n, step, heap, received, mainVars,
                   netVars>>

\* Slip: only bytes are added to the listener's total.
AddedIfReceived(rc) == IF rc > 0 THEN total_tx_rx + rc ELSE total_tx_rx
\* listener->total_tx_rx += session->last_trans
Added(rc) == total_tx_rx + rc

Recv ==
    /\ Running /\ lpc = "recv" /\ lpc' = "recv_test"
    /\ \E rc \in 1 .. inflight :
         /\ inflight' = inflight - rc
         /\ received' = [received EXCEPT ![n] = @ + rc]
         /\ total_tx_rx' = Added(rc)
    /\ UNCHANGED <<transport, status, command, sock_d, curr_session, n, step,
                   heap, mainVars, socket, conn, sent, lost, agains>>

\* tb_dccp_error lets EAGAIN pass, and last_trans is still -1.
RecvAgain ==
    /\ Running /\ lpc = "recv" /\ transport = "dccp" /\ agains < Again
    /\ agains' = agains + 1 /\ lpc' = "recv_test"
    /\ received' = [received EXCEPT ![n] = @ - 1]
    /\ total_tx_rx' = Added(-1)
    /\ UNCHANGED <<transport, status, command, sock_d, curr_session, n, step,
                   heap, mainVars, socket, conn, sent, inflight, lost>>

\* Slip: a short read ends the session.
PeerClosed == conn \in {"closed", "lost"}
\* Everything that arrived has been read: recv returns 0, or fails with UDT's
\* error 2001, which a peer that closed and a peer that was lost both cause.
EndOfStream == conn \in {"closed", "lost"} /\ inflight = 0

RecvEnd ==
    /\ Running /\ lpc = "recv" /\ EndOfStream /\ lpc' = "down"
    /\ UNCHANGED <<transport, shared, n, step, heap, received, mainVars,
                   netVars>>

RecvError ==
    /\ Running /\ lpc = "recv" /\ conn = "reset" /\ lpc' = "abort"
    /\ UNCHANGED <<transport, shared, n, step, heap, received, mainVars,
                   netVars>>

\* What follows the transfer, in the order of the code.
TearDown ==
    IF transport = "udt"
    THEN <<"status", "forget", "close", "free", "command">>
    ELSE <<"status", "close", "free", "forget", "close again", "command">>

AtStep(s) == Running /\ lpc = "down" /\ TearDown[step] = s
NextStep ==
    IF TearDown[step] = "command" THEN lpc' = "test" /\ step' = 1
    ELSE lpc' = lpc /\ step' = step + 1

Disconnected ==
    /\ AtStep("status") /\ NextStep /\ status' = "DISCONNECTED"
    /\ UNCHANGED <<transport, command, sock_d, total_tx_rx, curr_session, n,
                   heap, received, mainVars, netVars>>

CloseSession ==
    /\ AtStep("close")
    /\ NextStep /\ conn' = "none" /\ inflight' = 0 /\ sent' = 0 /\ lost' = 0
    /\ UNCHANGED <<transport, shared, n, heap, received, mainVars, socket,
                   agains>>

\* The stream server calls f_close(session->sock_d) on the session it has
\* freed: whatever number it reads there, nothing modelled here is closed.
CloseAgain ==
    /\ AtStep("close again") /\ NextStep
    /\ UNCHANGED <<transport, shared, n, heap, received, mainVars, netVars>>

FreedSession == [heap EXCEPT ![n] = "freed"]

DestroySession ==
    /\ AtStep("free") /\ NextStep /\ heap' = FreedSession
    /\ UNCHANGED <<transport, shared, n, received, mainVars, netVars>>

ForgetSession ==
    /\ AtStep("forget") /\ NextStep /\ curr_session' = Null
    /\ UNCHANGED <<transport, status, command, sock_d, total_tx_rx, n, heap,
                   received, mainVars, netVars>>

\* listener->command = listener->s_tx_end
SetCommand ==
    /\ AtStep("command") /\ NextStep /\ command' = STxEnd
    /\ UNCHANGED <<transport, status, sock_d, total_tx_rx, curr_session, n,
                   heap, received, mainVars, netVars>>

CloseListener ==
    /\ Running /\ lpc = "close" /\ lpc' = "exit"
    /\ socket' = "closed" /\ sock_d' = "none"
    /\ UNCHANGED <<transport, status, command, total_tx_rx, curr_session, n,
                   step, heap, received, mainVars, conn, sent, inflight, lost,
                   agains>>

TbExit ==
    /\ Running /\ lpc = "exit" /\ lpc' = "log" /\ status' = "EXITING"
    /\ UNCHANGED <<transport, command, sock_d, total_tx_rx, curr_session, n,
                   step, heap, received, mainVars, netVars>>

\* tb_abort: sock_d names the listening socket, and keeps its value.
AbortClose ==
    /\ Running /\ lpc = "abort" /\ mpc \notin {"check", "load", "use"}
    /\ lpc' = "abort_status" /\ socket' = "closed" /\ status' = "DISCONNECTED"
    /\ UNCHANGED <<transport, command, sock_d, total_tx_rx, curr_session, n,
                   step, heap, received, mainVars, conn, sent, inflight, lost,
                   agains>>

TbAbort ==
    /\ Running /\ lpc = "abort_status" /\ lpc' = "log"
    /\ status' = "ABORTING"
    /\ UNCHANGED <<transport, command, sock_d, total_tx_rx, curr_session, n,
                   step, heap, received, mainVars, netVars>>

\* LOG(listener, ...) after the status: when the main thread has destroyed
\* the listener in between, the log is used after it was freed.
LogAndEnd ==
    /\ Running /\ lpc = "log" /\ lpc' = "done"
    /\ mpc' \in IF mpc = "done" THEN {"done", "crashed"} ELSE {mpc}
    /\ UNCHANGED <<transport, shared, n, step, heap, received, msession,
                   netVars>>

ListenerThread ==
    \/ Listen \/ ListenFails \/ LoopTest \/ Accept \/ AcceptError
    \/ AssignSession \/ Connected
    \/ RecvTest \/ Recv \/ RecvAgain \/ RecvEnd \/ RecvError
    \/ Disconnected \/ CloseSession \/ CloseAgain \/ DestroySession
    \/ ForgetSession \/ SetCommand \/ CloseListener \/ TbExit
    \/ AbortClose \/ TbAbort \/ LogAndEnd
-----------------------------------------------------------------------------
(* The main thread. *)

\* while(listener->sock_d == -1);
MonitorSpin ==
    /\ mpc = "spin" /\ sock_d # "none" /\ mpc' = "test"
    /\ UNCHANGED <<transport, shared, lpc, n, step, heap, received, msession,
                   netVars>>

Over == status \in Ending

\* The last read, once the listener is gone, collects from no session.
MonitorTest ==
    /\ mpc = "test" /\ mpc' = IF Over THEN "destroy" ELSE "check"
    /\ UNCHANGED <<transport, shared, lpc, n, step, heap, received, msession,
                   netVars>>

\* tb_set_l_stats: if(listener->status == TB_CONNECTED)
CheckConnected ==
    /\ mpc = "check"
    /\ mpc' = IF status = "CONNECTED" THEN "load" ELSE "test"
    /\ UNCHANGED <<transport, shared, lpc, n, step, heap, received, msession,
                   netVars>>

LoadSession ==
    /\ mpc = "load" /\ mpc' = "use" /\ msession' = curr_session
    /\ UNCHANGED <<transport, shared, lpc, n, step, heap, received, netVars>>

\* tb_get_stats(listener->stats, session->sock_d)
CollectStats ==
    /\ mpc = "use" /\ msession' = Null
    /\ mpc' = IF msession = Null THEN "crashed" ELSE "test"
    /\ UNCHANGED <<transport, shared, lpc, n, step, heap, received, netVars>>

\* tb_destroy_listener, for d_exit is set.
DestroyListener ==
    /\ mpc = "destroy" /\ mpc' = "done"
    /\ UNCHANGED <<transport, shared, lpc, n, step, heap, received, msession,
                   netVars>>

MainThread ==
    \/ MonitorSpin \/ MonitorTest \/ CheckConnected \/ LoadSession
    \/ CollectStats \/ DestroyListener
-----------------------------------------------------------------------------
(* The clients, one connection at a time, and SIGINT. *)

Connect ==
    /\ Running /\ conn = "none" /\ socket = "listening" /\ n < Sessions
    /\ conn' = "waiting"
    /\ UNCHANGED <<transport, shared, lpc, n, step, heap, received, mainVars,
                   socket, sent, inflight, lost, agains>>

ClientSend ==
    /\ Running /\ conn = "open" /\ sent < Bytes
    /\ sent' = sent + 1 /\ inflight' = inflight + 1
    /\ UNCHANGED <<transport, shared, lpc, n, step, heap, received, mainVars,
                   socket, conn, lost, agains>>

ClientClose ==
    /\ Running /\ conn = "open" /\ conn' = "closed"
    /\ UNCHANGED <<transport, shared, lpc, n, step, heap, received, mainVars,
                   socket, sent, inflight, lost, agains>>

\* The client's process or machine dies.  TCP and DCCP drop what has arrived;
\* UDT keeps it for udt_recv, and may end with the error of a closed peer.
ClientFails ==
    /\ Running /\ conn = "open"
    /\ \/ /\ conn' = "reset" /\ lost' = lost + inflight /\ inflight' = 0
       \/ /\ transport = "udt" /\ conn' = "lost"
          /\ \E l \in 0 .. inflight :
               lost' = lost + l /\ inflight' = inflight - l
    /\ UNCHANGED <<transport, shared, lpc, n, step, heap, received, mainVars,
                   socket, sent, agains>>

\* DCCP does not send again what the network has lost.
DatagramLost ==
    /\ Running /\ transport = "dccp" /\ inflight > 0
    /\ lost' = lost + 1 /\ inflight' = inflight - 1
    /\ UNCHANGED <<transport, shared, lpc, n, step, heap, received, mainVars,
                   socket, conn, sent, agains>>

\* Slip: the socket is not shut down.
StillOpen == socket
\* shutdown(sock_d): a UDT socket is not a descriptor of the kernel's.
ShutDown ==
    IF socket = "listening" /\ transport # "udt" THEN "shut" ELSE socket

SigAction ==
    /\ Running /\ Sigint /\ lpc # "done" /\ socket # "shut"
    /\ command' = "EXIT" /\ socket' = ShutDown
    /\ UNCHANGED <<transport, status, sock_d, total_tx_rx, curr_session, lpc,
                   n, step, heap, received, mainVars, conn, sent, inflight,
                   lost, agains>>

Next ==
    \/ ListenerThread \/ MainThread
    \/ Connect \/ ClientSend \/ ClientClose \/ ClientFails \/ DatagramLost
    \/ SigAction

Spec == Init /\ [][Next]_vars

(* Both threads are scheduled; AbortClose waits for a monitor that sleeps    *)
(* most of the time; and a client that has connected closes in the end.      *)
Fairness ==
    /\ WF_vars(ListenerThread) /\ SF_vars(AbortClose)
    /\ WF_vars(MainThread) /\ WF_vars(ClientClose)

FairSpec == Spec /\ Fairness
-----------------------------------------------------------------------------
(* Properties. *)

\* Every variable keeps to the values the code gives it, and the listener's
\* total is the sum of what its sessions have received.
TypeOK ==
    /\ transport \in Transports
    /\ status \in {"CREATED", "LISTENING", "CONNECTED", "DISCONNECTED"}
                  \cup Ending
    /\ command \in {"CONTINUE", "EXIT"} /\ sock_d \in {"fd", "none"}
    /\ total_tx_rx \in Int /\ curr_session \in SessionIds \cup {Null}
    /\ lpc \in {"listen", "test", "accept", "assign", "connected", "recv",
               "recv_test", "down", "close", "exit", "abort", "abort_status",
               "log", "done"}
    /\ n \in 0 .. Sessions /\ step \in 1 .. 6
    /\ heap \in [SessionIds -> {"none", "live", "freed"}]
    /\ received \in [SessionIds -> Int]
    /\ mpc \in {"spin", "test", "check", "load", "use", "destroy", "done",
               "crashed"}
    /\ msession \in SessionIds \cup {Null}
    /\ socket \in {"bound", "listening", "shut", "closed"}
    /\ conn \in {"none", "waiting", "open", "closed", "reset", "lost"}
    /\ sent \in 0 .. Bytes /\ inflight \in 0 .. Bytes /\ lost \in 0 .. Bytes
    /\ agains \in 0 .. Again
    /\ total_tx_rx = SumFunction(received)

\* A listener that is CONNECTED has a session, and it has not been freed, in
\* every transfer: what a monitor that looked at both at once would rely on
\* (tb_stream.c 64-65 and 82-87, tb_udt.c 67-68 and 101-106).
ConnectedHasSession ==
    status = "CONNECTED" => curr_session # Null /\ heap[curr_session] = "live"

\* A listener about to serve the next connection, or to exit, has freed all
\* the sessions of the previous ones.
SessionsFreed ==
    lpc \in {"test", "accept", "close", "exit"} =>
        \A i \in SessionIds : heap[i] # "live"

\* The main thread destroys the listener only once the listener thread is in
\* tb_exit or tb_abort with nothing left to do but log (tb_monitor 338).
DestroyedAfterListener ==
    mpc \in {"destroy", "done"} => lpc \in {"log", "done"}

\* A session lives as long as its connection: there while the listener says
\* CONNECTED, gone before the next one, and gone before the listener is.
SessionLife ==
    ConnectedHasSession /\ SessionsFreed /\ DestroyedAfterListener

\* A transfer that was not interrupted ends with all that could arrive, on a
\* connection that was closed as on one that was lost, short of one byte for
\* each EAGAIN that was added up as -1 (tb_stream.c 67-74, tb_udt.c 73-95).
\* Only DCCP, and a client that fails, lose what was sent.
CompleteDelivery ==
    lpc = "down" /\ step = 1 /\ command = "CONTINUE" =>
        /\ received[n] >= sent - lost - agains
        /\ lost = 0 \/ transport = "dccp" \/ conn = "lost"

\* A signal ends a server that waits for a connection; but not over UDT, whose
\* sockets are none that the shutdown of sig_action knows (sig_action 37-40).
InterruptEndsAccept ==
    (command = "EXIT" /\ lpc = "accept" /\ transport # "udt")
        ~> (lpc = "done" \/ ~Running)

\* "Lock stat collection while closing connection and destroying session":
\* the stats are not collected from a session that has been destroyed
\* (tb_udt.c 97-109, tb_stream.c 78-93, tb_listener.c 416-421).
CollectsFromLiveSession ==
    mpc = "use" => msession # Null /\ heap[msession] = "live"
=============================================================================
