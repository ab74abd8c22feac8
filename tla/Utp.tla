-------------------------------- MODULE Utp --------------------------------
(***************************************************************************)
(* One uTP transfer: tb_utp_client and tb_utp_server.  libutp runs on the  *)
(* threads that call it and answers through callbacks, which leave the     *)
(* last thing that happened in utp->state: several in one poll leave only  *)
(* the last.  What libutp does on the wire is external: it delivers in     *)
(* order, without loss while the network holds, and gives up with an error *)
(* when nobody answers.                                                    *)
(*                                                                         *)
(* Sizes are counted in the packets libutp sends.                          *)
(***************************************************************************)
EXTENDS Naturals

CONSTANTS
    FileSize,   \* packets in the client's file
    Bufsize,    \* packets in listener->bufsize, offered by one tb_utp_send
    Window,     \* packets that libutp holds before its socket is full
    Sigint,     \* the ends that may be interrupted
    Breaks,     \* may the network between the two break?
    NoBuffers,  \* may a sendto find no room in the non-blocking socket?
    Strays      \* may packets arrive that libutp refuses?

Ends == {"client", "server"}
Peer(e) == IF e = "client" THEN "server" ELSE "client"

ASSUME SizesAssumption ==
    FileSize \in Nat /\ Bufsize \in Nat \ {0} /\ Window \in Nat \ {0}
ASSUME FaultsAssumption ==
    Sigint \subseteq Ends /\ {Breaks, NoBuffers, Strays} \subseteq BOOLEAN

VARIABLES
    \* Each end's thread: where it is, for what it polls, and how it will end.
    pc, phase, outcome,
    \* Each end's tb_listener_t.
    status, command, sock_d, total_tx_rx,
    \* Each end's tb_utp_t; moved is write_bytes (client), read_bytes (server).
    state, moved, measure_time,
    \* libutp and the network.
    lib,        \* libutp's state of each end's socket
    sent,       \* packets that the client's libutp has taken
    delivered,  \* packets that have reached the server's
    fin,        \* each end's FIN: "none", "sent" or "got"
    down,       \* has the UDP socket of an end been shut down?
    broken      \* has the network broken?

thread   == <<pc, phase, outcome>>
listener == <<status, command, sock_d, total_tx_rx>>
utp      == <<state, moved, measure_time>>
network  == <<lib, sent, delivered, fin, down, broken>>
vars     == <<thread, listener, utp, network>>

Pcs == {"setup", "connect", "loop", "poll", "check", "time", "switch",
        "close", "closing", "freed", "last", "done", "killed"}
UtpStates == {"CREATED", "CONNECT", "WRITABLE", "EOF", "DESTROYING", "ERROR"}
LibStates == {"none", "syn", "open", "full", "gotfin", "finsent", "delay",
              "reset", "destroy", "freed"}

Init ==
    /\ pc = [e \in Ends |-> "setup"] /\ phase = [e \in Ends |-> "connect"]
    /\ outcome = [e \in Ends |-> "exit"]
    /\ status = [e \in Ends |-> "CREATED"]
    /\ command = [e \in Ends |-> "CONTINUE"]
    /\ sock_d = [e \in Ends |-> "none"]
    /\ total_tx_rx = [e \in Ends |-> 0]
    /\ state = [e \in Ends |-> "CREATED"] /\ moved = [e \in Ends |-> 0]
    /\ measure_time = [e \in Ends |-> FALSE]
    /\ lib = [e \in Ends |-> "none"] /\ sent = 0 /\ delivered = 0
    /\ fin = [e \in Ends |-> "none"] /\ down = [e \in Ends |-> FALSE]
    /\ broken = FALSE

Goto(e, p) == pc' = [pc EXCEPT ![e] = p]
Over(e) == pc[e] \in {"done", "killed"}
-----------------------------------------------------------------------------
(* Sending.  tb_utp_send_to exits the process when sendto fails: after the  *)
(* shutdown of sig_action, or because the socket has no room.               *)

\* Does the peer answer what e sends?
Answers(e) == ~broken /\ ~Over(Peer(e)) /\ lib[Peer(e)] # "freed"
              /\ (e = "client" => status["server"] # "CREATED")
Outstanding(e) ==
    \/ lib[e] \in {"syn", "full", "finsent"}
    \/ e = "client" /\ lib[e] = "open" /\ delivered < sent

\* What the network has for e.
SynFor(e) == e = "server" /\ lib[e] = "none" /\ lib["client"] = "syn"
SynAckFor(e) == lib[e] = "syn" /\ lib["server"] # "none"
DataFor(e) ==
    e = "server" /\ lib[e] \in {"open", "finsent"} /\ delivered < sent
FinFor(e) ==
    /\ lib[e] \in {"open", "full", "finsent"} /\ fin[Peer(e)] = "sent"
    /\ e = "server" => delivered = sent
AckFor(e) ==
    \/ lib[e] = "full" /\ sent - delivered < Window
    \/ lib[e] = "finsent" /\ fin[e] = "got"
Arrives(e) ==
    ~broken /\ (SynFor(e) \/ SynAckFor(e) \/ DataFor(e) \/ FinFor(e)
                \/ AckFor(e))

\* UTP_Write takes what fits in the window.
\* Slip: the last buffer is a whole one.
WholeBuffer == Bufsize
Offer == IF FileSize - total_tx_rx["client"] < Bufsize
         THEN FileSize - total_tx_rx["client"] ELSE Bufsize
Space == Window - (sent - delivered)
Taken == IF lib["client"] # "open" THEN 0
         ELSE IF Offer <= Space THEN Offer ELSE Space
Writing ==
    pc["client"] = "loop" /\ command["client"] = "CONTINUE"
    /\ state["client"] \in {"CONNECT", "WRITABLE"}

Sends(e) ==
    \/ pc[e] = "connect"
    \/ e = "client" /\ Writing /\ Taken > 0
    \/ pc[e] = "close" /\ lib[e] \in {"open", "full"}
    \/ pc[e] = "poll" /\ ~broken /\ (SynFor(e) \/ DataFor(e) \/ FinFor(e))
    \/ pc[e] = "check" /\ Outstanding(e)

SendToFails(e) ==
    /\ Sends(e) /\ (down[e] \/ NoBuffers) /\ Goto(e, "killed")
    /\ UNCHANGED <<phase, outcome, listener, utp, network>>
-----------------------------------------------------------------------------
(* tb_utp_recv: a poll, in which libutp handles what has arrived, then its  *)
(* timeouts, then that of the server.                                       *)

\* UTP_IsIncomingUTP, for a connection (tb_utp_incoming) or its answer.
IncomingSyn(e) ==
    /\ pc[e] = "poll" /\ ~broken /\ ~down[e] /\ SynFor(e)
    /\ lib' = [lib EXCEPT ![e] = "open"]
    /\ state' = [state EXCEPT ![e] = "CONNECT"]
    /\ measure_time' = [measure_time EXCEPT ![e] = TRUE]
    /\ UNCHANGED <<thread, listener, moved, sent, delivered, fin, down,
                   broken>>

IncomingSynAck(e) ==
    /\ pc[e] = "poll" /\ ~broken /\ SynAckFor(e)
    /\ lib' = [lib EXCEPT ![e] = "open"]
    /\ state' = [state EXCEPT ![e] = "CONNECT"]
    /\ UNCHANGED <<thread, listener, moved, measure_time, sent, delivered,
                   fin, down, broken>>

\* tb_utp_read; libutp drops what comes after a UTP_Close.
IncomingData(e) ==
    /\ pc[e] = "poll" /\ ~broken /\ ~down[e] /\ DataFor(e)
    /\ delivered' = delivered + 1
    /\ moved' = IF lib[e] = "open" THEN [moved EXCEPT ![e] = @ + 1] ELSE moved
    /\ UNCHANGED <<thread, listener, state, measure_time, lib, sent, fin,
                   down, broken>>

IncomingFin(e) ==
    /\ pc[e] = "poll" /\ ~broken /\ ~down[e] /\ FinFor(e)
    /\ fin' = [fin EXCEPT ![Peer(e)] = "got"]
    /\ IF lib[e] = "finsent" THEN UNCHANGED <<lib, state>>
       ELSE /\ lib' = [lib EXCEPT ![e] = "gotfin"]
            /\ state' = [state EXCEPT ![e] = "EOF"]
    /\ UNCHANGED <<thread, listener, moved, measure_time, sent, delivered,
                   down, broken>>

\* An ack makes room in a full window, or ends a close.
IncomingAck(e) ==
    /\ pc[e] = "poll" /\ ~broken /\ AckFor(e)
    /\ IF lib[e] = "full"
       THEN /\ lib' = [lib EXCEPT ![e] = "open"]
            /\ state' = [state EXCEPT ![e] = "WRITABLE"]
       ELSE /\ lib' = [lib EXCEPT ![e] = "destroy"] /\ UNCHANGED state
    /\ UNCHANGED <<thread, listener, moved, measure_time, sent, delivered,
                   fin, down, broken>>

Incoming(e) ==
    \/ IncomingSyn(e) \/ IncomingSynAck(e) \/ IncomingData(e)
    \/ IncomingFin(e) \/ IncomingAck(e)

\* recvfrom would block or fails, libutp refuses a packet, or 50 ms have
\* passed: tb_poll_for_events ignores what tb_utp_event returns, and what is
\* left at the socket waits.  tb_utp_connect polls once.
PollEnds(e) ==
    /\ pc[e] = "poll"
    /\ IF phase[e] = "connect"
       THEN /\ Goto(e, "loop") /\ status' = [status EXCEPT ![e] = "CONNECTED"]
            /\ sock_d' = [sock_d EXCEPT ![e] = "fd"]
       ELSE Goto(e, "check") /\ UNCHANGED <<status, sock_d>>
    /\ UNCHANGED <<phase, outcome, command, total_tx_rx, utp, network>>

\* libutp gives up on what nobody answers (tb_utp_error).
GivesUp(e) ==
    /\ Outstanding(e) /\ ~Answers(e)
    /\ lib' = [lib EXCEPT ![e] =
                   IF @ = "finsent" THEN "destroy" ELSE "reset"]
    /\ state' = [state EXCEPT ![e] = "ERROR"]

\* A closed socket whose work is done is freed (UTP_STATE_DESTROYING).
Frees(e) ==
    /\ lib[e] \in {"destroy", "delay"}
    /\ lib' = [lib EXCEPT ![e] = "freed"]
    /\ state' = [state EXCEPT ![e] = "DESTROYING"]

\* UTP_CheckTimeouts
CheckTimeouts(e) ==
    /\ pc[e] = "check" /\ Goto(e, "time")
    /\ \/ GivesUp(e) \/ Frees(e)
       \/ lib[e] # "destroy" /\ UNCHANGED <<lib, state>>
    /\ UNCHANGED <<phase, outcome, listener, moved, measure_time, sent,
                   delivered, fin, down, broken>>

\* Slip: the time-out is not measured.
NeverSilent(e) == FALSE
\* Two seconds since last_rec, with nothing on its way here: or it waits
\* behind a refused packet, for the next edge that the socket reports.
Silent(e) == measure_time[e] /\ moved[e] = 0 /\ (Arrives(e) => Strays)

\* Slip: only what arrived before the end of the stream is returned.
NotAfterEof(e) == IF state[e] = "EOF" THEN 0 ELSE moved[e]
\* return utp->read_bytes
ReadBytes(e) == moved[e]

\* What tb_utp_recv returns: the server adds it, tb_utp_send has its own
\* count, tb_utp_close ignores it.
Received(e) ==
    IF e = "server" /\ phase[e] = "transfer" THEN ReadBytes(e) ELSE 0

AfterRecv(e) == IF phase[e] = "close" THEN "closing" ELSE "switch"
RecvReturns(e) ==
    /\ pc[e] = "time" /\ Goto(e, AfterRecv(e))
    /\ total_tx_rx' = [total_tx_rx EXCEPT ![e] = @ + Received(e)]
    /\ UNCHANGED <<phase, outcome, status, command, sock_d, utp, network>>

TimesOut(e) ==
    /\ pc[e] = "time" /\ Silent(e) /\ Goto(e, AfterRecv(e))
    /\ state' = [state EXCEPT ![e] = "ERROR"]
    /\ UNCHANGED <<phase, outcome, listener, moved, measure_time, network>>

Recv(e) ==
    PollEnds(e) \/ CheckTimeouts(e) \/ RecvReturns(e) \/ TimesOut(e)
-----------------------------------------------------------------------------
(* tb_utp_close. *)

\* UTP_Close, and the UTP_CheckTimeouts that follows it.
Close(e) ==
    /\ pc[e] = "close" /\ phase' = [phase EXCEPT ![e] = "close"]
    /\ \/ /\ lib[e] = "none" /\ Goto(e, "freed")
          /\ UNCHANGED <<state, lib, fin>>
       \/ /\ lib[e] \in {"open", "full"} /\ ~down[e] /\ Goto(e, "closing")
          /\ lib' = [lib EXCEPT ![e] = "finsent"]
          /\ fin' = [fin EXCEPT ![e] = "sent"] /\ UNCHANGED state
       \/ /\ lib[e] \in {"syn", "gotfin"} /\ Goto(e, "closing")
          /\ lib' = [lib EXCEPT ![e] = "delay"] /\ UNCHANGED <<state, fin>>
       \/ /\ lib[e] = "reset" /\ Goto(e, "closing")
          /\ lib' = [lib EXCEPT ![e] = "freed"]
          /\ state' = [state EXCEPT ![e] = "DESTROYING"] /\ UNCHANGED fin
    /\ UNCHANGED <<outcome, listener, moved, measure_time, sent, delivered,
                   down, broken>>

\* Slip: an error does not end the loop.
OnlyDestroyed(e) == state[e] = "DESTROYING"
Destroyed(e) == state[e] \in {"DESTROYING", "ERROR"}

\* The loop of tb_utp_close; then the struct is freed.
Closing(e) ==
    /\ pc[e] = "closing"
    /\ IF Destroyed(e) THEN Goto(e, "freed") /\ UNCHANGED moved
       ELSE Goto(e, "poll") /\ moved' = [moved EXCEPT ![e] = 0]
    /\ UNCHANGED <<phase, outcome, listener, state, measure_time, network>>

Freed(e) ==
    /\ pc[e] = "freed" /\ Goto(e, "last")
    /\ status' = [status EXCEPT ![e] = "DISCONNECTED"]
    /\ sock_d' = [sock_d EXCEPT ![e] = "none"]
    /\ UNCHANGED <<phase, outcome, command, total_tx_rx, utp, network>>

\* tb_exit or tb_abort, which has no socket to close.
Last(e) ==
    /\ pc[e] = "last" /\ Goto(e, "done")
    /\ status' = [status EXCEPT ![e] =
                     IF outcome[e] = "exit" THEN "EXITING" ELSE "ABORTING"]
    /\ UNCHANGED <<phase, outcome, command, sock_d, total_tx_rx, utp, network>>

End(e) == Close(e) \/ Closing(e) \/ Freed(e) \/ Last(e)
-----------------------------------------------------------------------------
(* tb_utp_client. *)

\* A setsockopt that fails returns with nothing set.
ClientSetup ==
    /\ pc["client"] = "setup"
    /\ \E p \in {"connect", "last"} : Goto("client", p)
    /\ UNCHANGED <<phase, outcome, listener, utp, network>>

\* UTP_Connect; the client takes itself for connected after one poll.
Connect ==
    /\ pc["client"] = "connect" /\ ~down["client"] /\ Goto("client", "poll")
    /\ lib' = [lib EXCEPT !["client"] = "syn"]
    /\ UNCHANGED <<phase, outcome, listener, utp, sent, delivered, fin, down,
                   broken>>

\* while(!(listener->command & TB_E_LOOP))
ClientLoopEnds ==
    /\ pc["client"] = "loop" /\ command["client"] = "EXIT"
    /\ Goto("client", "close")
    /\ status' = [status EXCEPT !["client"] = "DISCONNECTED"]
    /\ UNCHANGED <<phase, outcome, command, sock_d, total_tx_rx, utp, network>>

\* tb_utp_send on a writable socket; a full one leaves the state at 0.
Write ==
    /\ Writing /\ (down["client"] => Taken = 0) /\ Goto("client", "switch")
    /\ sent' = sent + Taken /\ moved' = [moved EXCEPT !["client"] = Taken]
    /\ total_tx_rx' = [total_tx_rx EXCEPT !["client"] = @ + Taken]
    /\ IF lib["client"] = "open" /\ Taken = Offer THEN UNCHANGED <<state, lib>>
       ELSE /\ state' = [state EXCEPT !["client"] = "CREATED"]
            /\ lib' = IF lib["client"] = "open"
                      THEN [lib EXCEPT !["client"] = "full"] ELSE lib
    /\ UNCHANGED <<phase, outcome, status, command, sock_d, measure_time,
                   delivered, fin, down, broken>>

\* tb_utp_send otherwise: tb_utp_recv.
WaitWritable ==
    /\ pc["client"] = "loop" /\ command["client"] = "CONTINUE"
    /\ state["client"] \notin {"CONNECT", "WRITABLE"}
    /\ Goto("client", "poll")
    /\ phase' = [phase EXCEPT !["client"] = "transfer"]
    /\ moved' = [moved EXCEPT !["client"] = 0]
    /\ UNCHANGED <<outcome, listener, state, measure_time, network>>

\* case UTP_STATE_ERROR
Failed(e) == state[e] = "ERROR"

\* The end of the file, or what the last call left in utp->state.
ClientSwitch ==
    /\ pc["client"] = "switch"
    /\ LET e == "client"
           complete == total_tx_rx[e] >= FileSize
           error == ~complete /\ Failed(e)
       IN /\ Goto(e, IF complete \/ error THEN "close" ELSE "loop")
          /\ outcome' = IF error THEN [outcome EXCEPT ![e] = "abort"]
                        ELSE outcome
          /\ status' = IF complete THEN [status EXCEPT ![e] = "DISCONNECTED"]
                       ELSE IF state[e] = "CONNECT"
                       THEN [status EXCEPT ![e] = "CONNECTED"] ELSE status
    /\ UNCHANGED <<phase, command, sock_d, total_tx_rx, utp, network>>

ClientThread ==
    \/ ClientSetup \/ Connect \/ ClientLoopEnds \/ Write \/ WaitWritable
    \/ ClientSwitch \/ Recv("client") \/ End("client") \/ SendToFails("client")
-----------------------------------------------------------------------------
(* tb_utp_server. *)

\* bind may fail, with sock_d set: tb_abort then calls a f_close that uTP does
\* not have.  A setsockopt that fails returns with the socket open.
ServerSetup ==
    /\ pc["server"] = "setup"
    /\ sock_d' = [sock_d EXCEPT !["server"] = "fd"]
    /\ \/ /\ Goto("server", "loop")
          /\ status' = [status EXCEPT !["server"] = "LISTENING"]
       \/ \E p \in {"last", "killed"} : Goto("server", p) /\ UNCHANGED status
    /\ UNCHANGED <<phase, outcome, command, total_tx_rx, utp, network>>

ServerLoop ==
    /\ pc["server"] = "loop"
    /\ IF command["server"] = "EXIT"
       THEN Goto("server", "close") /\ UNCHANGED <<phase, moved>>
       ELSE /\ Goto("server", "poll")
            /\ moved' = [moved EXCEPT !["server"] = 0]
            /\ phase' = [phase EXCEPT !["server"] = "transfer"]
    /\ UNCHANGED <<outcome, listener, state, measure_time, network>>

ServerSwitch ==
    /\ pc["server"] = "switch"
    /\ LET e == "server" IN
         /\ Goto(e, IF Failed(e) THEN "close" ELSE "loop")
         /\ outcome' = IF Failed(e) THEN [outcome EXCEPT ![e] = "abort"]
                       ELSE outcome
         /\ command' = IF state[e] = "EOF"
                       THEN [command EXCEPT ![e] = "EXIT"] ELSE command
         /\ status' = IF state[e] = "CONNECT"
                      THEN [status EXCEPT ![e] = "CONNECTED"] ELSE status
    /\ UNCHANGED <<phase, sock_d, total_tx_rx, utp, network>>

ServerThread ==
    \/ ServerSetup \/ ServerLoop \/ ServerSwitch
    \/ Recv("server") \/ End("server") \/ SendToFails("server")
-----------------------------------------------------------------------------
\* SIGINT: sig_action also shuts the socket of a SERVER or CLIENT down.
SigAction(e) ==
    /\ e \in Sigint /\ ~Over(e) /\ command[e] = "CONTINUE"
    /\ command' = [command EXCEPT ![e] = "EXIT"]
    /\ down' = [down EXCEPT ![e] = sock_d[e] = "fd"]
    /\ UNCHANGED <<thread, status, sock_d, total_tx_rx, utp, lib, sent,
                   delivered, fin, broken>>

NetworkBreaks ==
    /\ Breaks /\ ~broken /\ broken' = TRUE
    /\ UNCHANGED <<thread, listener, utp, lib, sent, delivered, fin, down>>

Next ==
    \/ ClientThread \/ ServerThread \/ NetworkBreaks
    \/ \E e \in Ends : Incoming(e) \/ SigAction(e)

Spec == Init /\ [][Next]_vars

(* The threads run.  A poll reads what is there: a datagram that waits is    *)
(* handled in one of the polls to come.  In one of the calls to come, libutp *)
(* frees or gives up, and two seconds are over when nothing is on its way.   *)
Fairness ==
    /\ WF_vars(ClientThread) /\ WF_vars(ServerThread)
    /\ \A e \in Ends :
         /\ SF_vars(Incoming(e)) /\ SF_vars(TimesOut(e) /\ ~Arrives(e))
         /\ SF_vars(CheckTimeouts(e) /\ (GivesUp(e) \/ Frees(e)))

FairSpec == Spec /\ Fairness
-----------------------------------------------------------------------------
(* Properties. *)

\* Every variable keeps to the values the code and libutp give it.
TypeOK ==
    /\ pc \in [Ends -> Pcs]
    /\ phase \in [Ends -> {"connect", "transfer", "close"}]
    /\ outcome \in [Ends -> {"exit", "abort"}]
    /\ status \in [Ends -> {"CREATED", "LISTENING", "CONNECTED",
                            "DISCONNECTED", "EXITING", "ABORTING"}]
    /\ command \in [Ends -> {"CONTINUE", "EXIT"}]
    /\ sock_d \in [Ends -> {"none", "fd"}]
    /\ total_tx_rx \in [Ends -> Nat] /\ total_tx_rx["client"] <= FileSize
    /\ state \in [Ends -> UtpStates] /\ moved \in [Ends -> Nat]
    /\ measure_time \in [Ends -> BOOLEAN]
    /\ lib \in [Ends -> LibStates]
    /\ sent \in Nat /\ delivered \in 0 .. sent /\ sent - delivered <= Window
    /\ fin \in [Ends -> {"none", "sent", "got"}] /\ down \in [Ends -> BOOLEAN]
    /\ broken \in BOOLEAN

\* A server that acts on the end of the stream has counted every byte that
\* the client counted, although data and end come in one poll
\* (tb_utp_recv 273-288, tb_utp_server 738-757).
EofMeansAll ==
    state["server"] = "EOF" /\ pc["server"] \notin {"poll", "check", "time"} =>
        total_tx_rx["server"] = total_tx_rx["client"]

\* When libutp has confirmed the close of a client that nobody interrupted,
\* its whole file has reached the server's libutp (tb_utp_client 588-618).
CloseConfirmed ==
    /\ pc["client"] \in {"freed", "last", "done"}
    /\ state["client"] = "DESTROYING" /\ outcome["client"] = "exit"
    /\ command["client"] = "CONTINUE"
    => delivered = FileSize

\* A server that has had a connection ends: by the end of the stream, or two
\* seconds after the last datagram, also when its client has died
\* (tb_utp_recv 277-286, tb_utp_close 313-318).
ServerEnds == <>[](Over("server") \/ ~measure_time["server"])

\* A client ends, connected or not, confirmed or not - unless its server was
\* the first to close: on EOF it polls for ever (tb_utp_send 209-217).
ClientEnds == <>[](Over("client") \/ state["client"] = "EOF")

\* Neither end polls for ever for an answer that does not come.
BothEnd == ServerEnds /\ ClientEnds
=============================================================================
