------------------------------ MODULE UdpMulti ------------------------------
(***************************************************************************)
(* The UDP transfer over several connections: tb_udp_m_client and          *)
(* tb_udp_m_server, each in a process of its own with the main thread that *)
(* monitors it, over a network that loses and reorders.  (Duplicates are   *)
(* left to Udp: the client itself sends its messages again.)               *)
(*                                                                         *)
(* The client gives each part of its file to a session with a thread and a *)
(* socket of its own.  A datagram bears the id of its session, and the     *)
(* server, which has one socket and one thread, counts it for that id.     *)
(* When all threads have ended, the client sends an empty datagram every   *)
(* 50 ms until the server answers it.                                      *)
(*                                                                         *)
(* Both listener threads lock stat_lock, and then lock it again where they *)
(* should unlock it.  It is a plain mutex: the second lock waits until     *)
(* the main thread, which only tries the lock, frees it nevertheless.      *)
(***************************************************************************)
EXTENDS Integers, Sequences, FiniteSets, Functions, SequencesExt

CONSTANTS
    NumConn,     \* num_conn
    PartSize,    \* session->data_size
    PackSize,    \* session->pack_size, the payload of a full datagram
    Header,      \* the bytes of the id and the length before the payload
    Buffer,      \* datagrams on their way, or in the server's queue
    Losses,      \* how many datagrams or acks are lost, or calls fail
    Interrupted  \* the ends that SIGINT may reach

Ends == {"client", "server"}

\* A part of size 0 would be sent as an empty datagram.
ASSUME PartAssumption == {PartSize, PackSize, Header} \subseteq Nat \ {0}
ASSUME ConnAssumption == NumConn \in Nat \ {0}
ASSUME NetAssumption ==
    Buffer \in Nat \ {0} /\ Losses \in Nat
ASSUME InterruptedAssumption == Interrupted \subseteq Ends

VARIABLES
    \* tb_listener_t, of each process, and the pcs of its two threads.
    status, command, sock_d, stat_lock, lpc, mpc, last_round,
    \* The client's sessions; at is the one to create, or to join.
    at, spc, total_bytes, refused,
    \* The server's sessions, and whether sz, in tb_udp_event, is above 0.
    list, received, sz,
    \* The network, and the server's socket.
    net,      \* how many datagrams of each kind are on their way
    queue,    \* those that wait at the server's socket
    ready,    \* has one arrived since the last event was reported?
    ack,      \* the server's answer
    sent, lost, losses

ends == <<status, command, sock_d, stat_lock, lpc, mpc, last_round>>
sessions == <<at, spc, total_bytes, refused>>
serverSessions == <<list, received, sz>>
faults == <<lost, losses>>
network == <<net, queue, ready, ack, sent, faults>>
vars == <<ends, sessions, serverSessions, network>>

Conns == 1 .. NumConn
Eof == 0
Datagrams == Conns \cup {Eof}
Ending == {"EXITING", "ABORTING"}
OnTheirWay == SumFunction(net)
Room == OnTheirWay < Buffer
One(m) == IF m = Eof THEN 0 ELSE 1
DataIn(s) == Cardinality({k \in DOMAIN s : s[k] # Eof})

Init ==
    /\ status = [p \in Ends |-> "CREATED"]
    /\ command = [p \in Ends |-> "CONTINUE"]
    /\ sock_d = [p \in Ends |-> "fd"]
    /\ stat_lock = [p \in Ends |-> FALSE]
    /\ lpc = [p \in Ends |-> IF p = "client" THEN "create" ELSE "bind"]
    /\ mpc = [p \in Ends |-> "spin"] /\ last_round = [p \in Ends |-> FALSE]
    /\ at = 1 /\ spc = [i \in Conns |-> "none"]
    /\ total_bytes = [i \in Conns |-> 0]
    /\ refused = [i \in Conns |-> FALSE]
    /\ list = <<>> /\ received = [i \in Conns |-> 0] /\ sz = FALSE
    /\ net = [m \in Datagrams |-> 0] /\ queue = <<>> /\ ready = FALSE
    /\ ack = "none"
    /\ sent = 0 /\ lost = 0 /\ losses = 0

Goes(p, from, to) == lpc[p] = from /\ lpc' = [lpc EXCEPT ![p] = to]
-----------------------------------------------------------------------------
(* The end of either listener thread: the lock, taken twice, and tb_exit.  *)

Lock(p) ==
    /\ Goes(p, "lock", IF p = "client" THEN "eof" ELSE "close")
    /\ ~stat_lock[p] /\ stat_lock' = [stat_lock EXCEPT ![p] = TRUE]
    /\ UNCHANGED <<status, command, sock_d, mpc, last_round, sessions,
                   serverSessions, network>>

LockAgain(p) ==
    /\ Goes(p, "lock again", "exit")
    /\ ~stat_lock[p] /\ stat_lock' = [stat_lock EXCEPT ![p] = TRUE]
    /\ UNCHANGED <<status, command, sock_d, mpc, last_round, sessions,
                   serverSessions, network>>

TbExit(p) ==
    /\ Goes(p, "exit", "done") /\ status' = [status EXCEPT ![p] = "EXITING"]
    /\ UNCHANGED <<command, sock_d, stat_lock, mpc, last_round, sessions,
                   serverSessions, network>>

Ended(p) == LockAgain(p) \/ TbExit(p)
-----------------------------------------------------------------------------
(* The client's listener thread. *)

\* A session is created, and its thread, which connects its socket: for UDP,
\* this only names the peer.
Create ==
    /\ Goes("client", "create", IF at = NumConn THEN "connected" ELSE "create")
    /\ spc' = [spc EXCEPT ![at] = "send"]
    /\ at' = IF at = NumConn THEN 1 ELSE at + 1
    /\ UNCHANGED <<status, command, sock_d, stat_lock, mpc, last_round,
                   total_bytes, refused, serverSessions, network>>

\* tb_abort, for a session that cannot be created: the threads of the others
\* run on.
CreateFails ==
    /\ Goes("client", "create", "abort")
    /\ UNCHANGED <<status, command, sock_d, stat_lock, mpc, last_round,
                   sessions, serverSessions, network>>

AbortLock ==
    /\ Goes("client", "abort", "abort_status") /\ ~stat_lock["client"]
    /\ status' = [status EXCEPT !["client"] = "DISCONNECTED"]
    /\ UNCHANGED <<command, sock_d, stat_lock, mpc, last_round, sessions,
                   serverSessions, network>>

TbAbort ==
    /\ Goes("client", "abort_status", "done")
    /\ status' = [status EXCEPT !["client"] = "ABORTING"]
    /\ UNCHANGED <<command, sock_d, stat_lock, mpc, last_round, sessions,
                   serverSessions, network>>

\* The wait for the first session to leave SESSION_CREATED is over before it
\* begins: tb_set_addrinfo has set SESSION_ADDR_RES.
Connected ==
    /\ Goes("client", "connected", "join")
    /\ status' = [status EXCEPT !["client"] = "CONNECTED"]
    /\ UNCHANGED <<command, sock_d, stat_lock, mpc, last_round, sessions,
                   serverSessions, network>>

\* Slip: only the first thread is joined.
FirstJoined == TRUE
AllJoined == at = NumConn

Join ==
    /\ Goes("client", "join", IF AllJoined THEN "lock" ELSE "join")
    /\ spc[at] = "done"
    /\ at' = IF AllJoined THEN 1 ELSE at + 1
    /\ UNCHANGED <<status, command, sock_d, stat_lock, mpc, last_round, spc,
                   total_bytes, refused, serverSessions, network>>

\* while(listener->command != TB_EXIT); a full buffer is passed over.  The
\* listener's socket is not connected: nobody reports a refusal to it.
SendEof ==
    /\ command["client"] # "EXIT" /\ Goes("client", "eof", "poll")
    /\ net' = IF Room THEN [net EXCEPT ![Eof] = @ + 1] ELSE net
    /\ UNCHANGED <<status, command, sock_d, stat_lock, mpc, last_round,
                   sessions, serverSessions, queue, ready, ack, sent, faults>>

\* Slip: the ack is taken from the socket, and nothing is ordered.
AckIgnored == command
\* tb_udp_ack
AckOrdersExit ==
    IF ack = "arrived" THEN [command EXCEPT !["client"] = "EXIT"] ELSE command

\* tb_poll_for_events, for 50 ms.
PollAck ==
    /\ Goes("client", "poll", "eof") /\ command' = AckOrdersExit
    /\ ack' = IF ack = "arrived" THEN "seen" ELSE ack
    /\ UNCHANGED <<status, sock_d, stat_lock, mpc, last_round, sessions,
                   serverSessions, net, queue, ready, sent, faults>>

EofLoopEnds ==
    /\ command["client"] = "EXIT" /\ Goes("client", "eof", "lock again")
    /\ status' = [status EXCEPT !["client"] = "DISCONNECTED"]
    /\ UNCHANGED <<command, sock_d, stat_lock, mpc, last_round, sessions,
                   serverSessions, network>>

ClientThread ==
    \/ Create \/ CreateFails \/ AbortLock \/ TbAbort \/ Connected \/ Join
    \/ Lock("client") \/ SendEof \/ PollAck \/ EofLoopEnds \/ Ended("client")
-----------------------------------------------------------------------------
(* The threads of the client's sessions: tb_udp_m_client_conn. *)

\* What is left of the part, or a full pack.
Length(i) ==
    IF PartSize - total_bytes[i] < PackSize THEN PartSize - total_bytes[i]
                                            ELSE PackSize

\* Slip: the last pack is not cut to what is left.
FullPack(i) == total_bytes[i] + Header + PackSize
\* session->total_bytes += sent: sendmsg counts the header too.
Counted(i) == total_bytes[i] + Header + Length(i)

Enqueue(i) == net' = [net EXCEPT ![i] = @ + 1] /\ sent' = sent + 1

\* The socket blocks while the buffer is full; a refusal ends the thread.
Send(i) ==
    /\ spc[i] = "send"
    /\ IF refused[i]
       THEN /\ spc' = [spc EXCEPT ![i] = "done"]
            /\ refused' = [refused EXCEPT ![i] = FALSE]
            /\ UNCHANGED <<total_bytes, net, sent>>
       ELSE /\ Room /\ Enqueue(i) /\ UNCHANGED refused
            /\ total_bytes' = [total_bytes EXCEPT ![i] = Counted(i)]
            /\ spc' = [spc EXCEPT ![i] =
                          IF Counted(i) < PartSize THEN "send" ELSE "last"]
    /\ UNCHANGED <<ends, at, serverSessions, queue, ready, ack, faults>>

\* "Send exit message, and bail": the message is the last one once more.
SendLast(i) ==
    /\ spc[i] = "last" /\ spc' = [spc EXCEPT ![i] = "done"]
    /\ refused' = [refused EXCEPT ![i] = FALSE]
    /\ IF refused[i] THEN UNCHANGED <<net, sent>> ELSE Room /\ Enqueue(i)
    /\ UNCHANGED <<ends, at, total_bytes, serverSessions, queue, ready, ack,
                   faults>>

SessionThread(i) == Send(i) \/ SendLast(i)
-----------------------------------------------------------------------------
(* The server's listener thread. *)

Bind ==
    /\ Goes("server", "bind", "loop")
    /\ status' = [status EXCEPT !["server"] = "LISTENING"]
    /\ UNCHANGED <<command, sock_d, stat_lock, mpc, last_round, sessions,
                   serverSessions, network>>

LoopTest ==
    /\ Goes("server", "loop",
            IF command["server"] = "EXIT" THEN "lock" ELSE "poll")
    /\ UNCHANGED <<status, command, sock_d, stat_lock, mpc, last_round,
                   sessions, serverSessions, network>>

\* Slip: sz keeps its value from one event to the next.
SzKept == sz
\* int id = -1, sz = 0
SzReset == FALSE

\* The poll is edge triggered; an event starts tb_udp_event.
Poll ==
    /\ Goes("server", "poll",
            IF ready /\ queue # <<>> THEN "recv" ELSE "loop")
    /\ ready' = FALSE /\ sz' = SzReset
    /\ status' = IF ready /\ queue # <<>>
                 THEN [status EXCEPT !["server"] = "CONNECTED"] ELSE status
    /\ UNCHANGED <<command, sock_d, stat_lock, mpc, last_round, sessions, list,
                   received, net, queue, ack, sent, faults>>

WouldBlock ==
    /\ Goes("server", "recv", "loop") /\ queue = <<>>
    /\ UNCHANGED <<status, command, sock_d, stat_lock, mpc, last_round,
                   sessions, serverSessions, network>>

\* recvmsg fails otherwise: tb_poll_for_events ignores the -1, and what is
\* left in the queue waits for the next datagram to enter it.
RecvFails ==
    /\ losses < Losses /\ losses' = losses + 1 /\ Goes("server", "recv", "loop")
    /\ UNCHANGED <<status, command, sock_d, stat_lock, mpc, last_round,
                   sessions, serverSessions, net, queue, ready, ack, sent,
                   lost>>

\* An event without EPOLLIN: tb_udp_m_server returns with its socket open.
PollFails ==
    /\ losses < Losses /\ losses' = losses + 1 /\ Goes("server", "poll", "exit")
    /\ UNCHANGED <<status, command, sock_d, stat_lock, mpc, last_round,
                   sessions, serverSessions, net, queue, ready, ack, sent,
                   lost>>

\* Slip: the list is not searched.
NeverFound(id) == FALSE
\* tb_session_list_search
Found(id) == \E k \in DOMAIN list : list[k] = id

\* Slip: what creates a session is not counted for it.
OnlyKnown(id) == IF Found(id) THEN received[id] + Header ELSE received[id]
\* session->total_bytes += rc: the message has no room for the payload, and
\* rc is the size of the header.
Total(id) == received[id] + Header

RecvData ==
    /\ lpc["server"] = "recv" /\ queue # <<>> /\ queue' = Tail(queue)
    /\ LET id == Head(queue) IN
         /\ id # Eof
         /\ list' = IF Found(id) THEN list ELSE Append(list, id)
         /\ received' = [received EXCEPT ![id] = Total(id)]
    /\ sz' = TRUE
    /\ UNCHANGED <<ends, sessions, net, ready, ack, sent, faults>>

\* An empty datagram leaves id and sz as the last one has set them: it counts
\* as 0 bytes of that session, unless it is the first one of this event.
RecvEmpty ==
    /\ lpc["server"] = "recv" /\ queue # <<>> /\ Head(queue) = Eof /\ sz
    /\ queue' = Tail(queue)
    /\ UNCHANGED <<ends, sessions, serverSessions, net, ready, ack, sent,
                   faults>>

CallForExit ==
    /\ queue # <<>> /\ Head(queue) = Eof /\ ~sz
    /\ Goes("server", "recv", "loop")
    /\ queue' = Tail(queue) /\ ack' = "sent"
    /\ command' = [command EXCEPT !["server"] = "EXIT"]
    /\ UNCHANGED <<status, sock_d, stat_lock, mpc, last_round, sessions,
                   serverSessions, net, ready, sent, faults>>

\* What was still queued at the socket goes with it.
Close ==
    /\ Goes("server", "close", "lock again")
    /\ sock_d' = [sock_d EXCEPT !["server"] = "none"]
    /\ status' = [status EXCEPT !["server"] = "DISCONNECTED"]
    /\ queue' = <<>>
    /\ lost' = lost + DataIn(queue)
    /\ UNCHANGED <<command, stat_lock, mpc, last_round, sessions,
                   serverSessions, net, ready, ack, sent, losses>>

ServerThread ==
    \/ LoopTest \/ Poll \/ PollFails \/ WouldBlock \/ RecvFails \/ RecvData
    \/ RecvEmpty \/ CallForExit \/ Lock("server") \/ Close \/ Ended("server")
-----------------------------------------------------------------------------
(* The main thread of either process: tb_monitor, and of tb_set_m_stats    *)
(* what it does to stat_lock.                                              *)

MonitorSpin(p) ==
    /\ mpc[p] = "spin" /\ sock_d[p] # "none"
    /\ mpc' = [mpc EXCEPT ![p] = "test"]
    /\ UNCHANGED <<status, command, sock_d, stat_lock, lpc, last_round,
                   sessions, serverSessions, network>>

\* The status is tested, and then pthread_mutex_trylock leaves stat_lock
\* locked, by whomever.  (A status that changes in between ends the loop one
\* round later, as if it had been tested before.)
TryLock(p) ==
    /\ mpc[p] = "test" /\ mpc' = [mpc EXCEPT ![p] = "unlock"]
    /\ last_round' = [last_round EXCEPT ![p] = status[p] \in Ending]
    /\ stat_lock' = [stat_lock EXCEPT ![p] = TRUE]
    /\ UNCHANGED <<status, command, sock_d, lpc, sessions, serverSessions,
                   network>>

\* Slip: what could not be locked is not unlocked.
UnlockIfListenerRuns(p) ==
    [stat_lock EXCEPT ![p] = lpc[p] \in {"close", "eof", "poll", "lock again"}]
\* pthread_mutex_unlock
Unlocked(p) == [stat_lock EXCEPT ![p] = FALSE]

Unlock(p) ==
    /\ mpc[p] = "unlock" /\ stat_lock' = Unlocked(p)
    /\ mpc' = [mpc EXCEPT ![p] = IF last_round[p] THEN "done" ELSE "test"]
    /\ UNCHANGED <<status, command, sock_d, lpc, last_round, sessions,
                   serverSessions, network>>

MainThread(p) == MonitorSpin(p) \/ TryLock(p) \/ Unlock(p)

\* sig_action
SigAction(p) ==
    /\ p \in Interrupted /\ lpc[p] # "done"
    /\ command[p] # "EXIT" /\ command' = [command EXCEPT ![p] = "EXIT"]
    /\ UNCHANGED <<status, sock_d, stat_lock, lpc, mpc, last_round, sessions,
                   serverSessions, network>>
-----------------------------------------------------------------------------
(* The network and the two kernels. *)

Bound ==
    /\ lpc["server"] # "bind" /\ mpc["server"] # "done"
    /\ sock_d["server"] # "none"

\* A full queue drops; a host without the socket refuses, and the refusal
\* reaches the session that sent, or is lost.
Deliver ==
    \E m \in Datagrams :
        /\ net[m] > 0 /\ net' = [net EXCEPT ![m] = @ - 1]
        /\ \/ /\ Bound /\ Len(queue) < Buffer
              /\ queue' = Append(queue, m) /\ ready' = TRUE
              /\ UNCHANGED <<lost, refused>>
           \/ /\ Bound /\ Len(queue) = Buffer /\ lost' = lost + One(m)
              /\ UNCHANGED <<queue, ready, refused>>
           \/ /\ ~Bound /\ lost' = lost + One(m)
              /\ \/ m # Eof /\ refused' = [refused EXCEPT ![m] = TRUE]
                 \/ UNCHANGED refused
              /\ UNCHANGED <<queue, ready>>
        /\ UNCHANGED <<ends, at, spc, total_bytes, serverSessions, ack, sent,
                       losses>>

Lose ==
    /\ losses < Losses /\ losses' = losses + 1
    /\ \/ /\ ack = "sent" /\ ack' = "lost" /\ UNCHANGED <<net, lost>>
       \/ \E m \in Datagrams :
            /\ net[m] > 0 /\ net' = [net EXCEPT ![m] = @ - 1]
            /\ lost' = lost + One(m) /\ UNCHANGED ack
    /\ UNCHANGED <<ends, sessions, serverSessions, queue, ready, sent>>

DeliverAck ==
    /\ ack = "sent" /\ ack' = "arrived"
    /\ UNCHANGED <<ends, sessions, serverSessions, net, queue, ready, sent,
                   faults>>

Next ==
    \/ ClientThread \/ Bind \/ ServerThread
    \/ \E i \in Conns : SessionThread(i)
    \/ \E p \in Ends : MainThread(p) \/ SigAction(p)
    \/ Deliver \/ Lose \/ DeliverAck

Spec == Init /\ [][Next]_vars

(* The threads run, and what is not lost arrives.  The monitor sleeps with   *)
(* stat_lock free, so that a thread that waits for it gets it.               *)
Fairness ==
    /\ WF_vars(ClientThread) /\ WF_vars(Bind) /\ WF_vars(ServerThread)
    /\ \A i \in Conns : WF_vars(SessionThread(i))
    /\ \A p \in Ends : WF_vars(MainThread(p))
    /\ \A p \in Ends : SF_vars(Lock(p)) /\ SF_vars(LockAgain(p))
    /\ SF_vars(AbortLock)
    /\ WF_vars(Deliver) /\ WF_vars(DeliverAck)

FairSpec == Spec /\ Fairness
-----------------------------------------------------------------------------
(* Properties. *)

\* Every variable keeps to the values the code gives it; no session counts
\* more than its part and the header that goes with its end.
TypeOK ==
    /\ status \in [Ends -> {"CREATED", "LISTENING", "CONNECTED",
                           "DISCONNECTED"} \cup Ending]
    /\ command \in [Ends -> {"CONTINUE", "EXIT"}]
    /\ sock_d \in [Ends -> {"fd", "none"}]
    /\ stat_lock \in [Ends -> BOOLEAN] /\ last_round \in [Ends -> BOOLEAN]
    /\ lpc \in [Ends -> {"create", "connected", "join", "bind", "loop",
                        "poll", "recv", "lock", "eof", "close", "lock again",
                        "exit", "abort", "abort_status", "done"}]
    /\ mpc \in [Ends -> {"spin", "test", "unlock", "done"}]
    /\ at \in Conns /\ refused \in [Conns -> BOOLEAN]
    /\ spc \in [Conns -> {"none", "send", "last", "done"}]
    /\ total_bytes \in [Conns -> 0 .. PartSize + Header]
    /\ list \in Seq(Conns) /\ received \in [Conns -> Nat] /\ sz \in BOOLEAN
    /\ net \in [Datagrams -> Nat] /\ OnTheirWay <= Buffer
    /\ queue \in Seq(Datagrams) /\ Len(queue) <= Buffer /\ ready \in BOOLEAN
    /\ ack \in {"none", "sent", "arrived", "seen", "lost"}
    /\ sent \in Nat /\ lost \in Nat /\ losses \in 0 .. Losses

\* The sessions' totals at the server account, with one header for each, for
\* every datagram that was not lost on the way, the exit messages
\* included (tb_udp_event 557-579).
AllCounted ==
    SumFunction(received)
      = Header * (sent - lost - (OnTheirWay - net[Eof]) - DataIn(queue))

\* However the datagrams of the connections interleave, the server makes one
\* session for each id it has heard of (tb_session_list_search, tb_udp_event
\* 559-570).
OneSessionEach ==
    /\ IsInjective(list)
    /\ {list[k] : k \in DOMAIN list} = {i \in Conns : received[i] > 0}

\* The server answers the call for exit only after every session of the
\* client has ended (tb_udp_m_client 264-280).
NoEarlyEnd == ack # "none" => \A i \in Conns : spc[i] = "done"

\* The end comes in order for several connections too: all sessions have
\* ended, then the server answers, and then a client that leaves by that
\* answer leaves (tb_udp_m_client 264-285, tb_udp_event 580-594).
T == INSTANCE Transfer WITH
    Parts <- Conns,
    pending <- {i \in Conns : spc[i] # "done"},
    server <- IF ack = "none" THEN "open" ELSE "over",
    client <- IF lpc["client"] \notin {"lock again", "exit", "done"}
              THEN "working"
              ELSE IF ack = "seen" THEN "left" ELSE "failed"
ImplementsTransfer == T!Spec

\* The server hears the client in the end, although it takes an empty
\* datagram for one of a session whenever another came before it in the same
\* event; unless they come so fast that the event never ends, its poll has
\* failed, or a recvmsg has failed with the queue full: nothing enters it then
\* that would be reported (tb_udp_event 519, 548-557, tb_udp_m_server 479).
ServerHears ==
    lpc["client"] = "eof" ~>
        (\/ command["server"] = "EXIT" \/ command["client"] = "EXIT"
         \/ lpc["server"] = "done" \/ [](lpc["server"] = "recv")
         \/ [](Len(queue) = Buffer /\ ~ready))

\* The server's thread gets through its two locks, for the main thread frees
\* what it has not locked; unless the main thread has not seen sock_d before
\* it was reset, and spins (tb_udp_m_server 488-492, tb_set_m_stats 515).
ServerEnds ==
    lpc["server"] = "lock" ~>
        (lpc["server"] = "done" \/ (mpc["server"] = "spin"
                                      /\ sock_d["server"] = "none"))

\* An ack ends the client, through its two locks (tb_udp_ack, tb_udp_m_client
\* 278-282).
AckEndsClient == ack = "arrived" ~> lpc["client"] = "done"
=============================================================================
