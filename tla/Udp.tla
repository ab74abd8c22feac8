-------------------------------- MODULE Udp --------------------------------
(***************************************************************************)
(* One UDP transfer: tb_udp_client and tb_udp_server over a network that   *)
(* loses, duplicates and reorders datagrams.  UDP has no connection to     *)
(* close, so the client sends an empty datagram every 50 ms until the      *)
(* server's answer arrives, or until the closed server refuses one.        *)
(*                                                                         *)
(* A datagram is "data" or "eof" (length 0, the protocol's eot).  Sizes    *)
(* are counted in datagrams: the client cuts its file into full ones.      *)
(***************************************************************************)
EXTENDS Naturals, Sequences, FiniteSets, SequencesExt

CONSTANTS
    FileSize,    \* datagrams in the client's file
    Buffer,      \* datagrams that fit in a send buffer or a receive queue
    Losses,      \* how many datagrams, answers or refusals may be lost
    Duplicates   \* how many datagrams the network may deliver twice

ASSUME FileSizeAssumption == FileSize \in Nat
ASSUME BufferAssumption == Buffer \in Nat \ {0, 1}
ASSUME NetworkAssumption == Losses \in Nat /\ Duplicates \in Nat

VARIABLES
    cpc, command, sent,   \* the client; sent is its total_tx_rx
    spc, total_tx_rx,     \* the server
    net,        \* datagrams on their way, in the order they were sent
    queue,      \* datagrams in the receive queue of the server's socket
    answers,    \* "ack" and "refusal", on their way to the client
    ack,        \* has an ack arrived that no poll has reported yet?
    refused,    \* does the client's socket hold ECONNREFUSED?
    lost, extra,\* data lost, and data duplicated, so far
    losses, duplicates,
    early       \* has a datagram arrived before the server was bound?

client == <<cpc, command, sent>>
server == <<spc, total_tx_rx>>
faults == <<lost, extra, losses, duplicates>>
vars == <<client, server, net, queue, answers, ack, refused, faults, early>>

Datagrams == {"data", "eof"}
DataIn(s) == Cardinality({k \in DOMAIN s : s[k] = "data"})

Init ==
    /\ cpc = "connect" /\ command = "CONTINUE" /\ sent = 0
    /\ spc = "bind" /\ total_tx_rx = 0
    /\ net = <<>> /\ queue = <<>> /\ answers = {}
    /\ ack = FALSE /\ refused = FALSE
    /\ lost = 0 /\ extra = 0 /\ losses = 0 /\ duplicates = 0
    /\ early = FALSE
-----------------------------------------------------------------------------
(* The client. *)

Connect ==
    /\ cpc = "connect" /\ cpc' = "send"
    /\ UNCHANGED <<command, sent, server, net, queue, answers, ack, refused,
                   faults, early>>

\* Slip: the free space is not looked at.
AlwaysRoom == TRUE
\* (snd_buff_sz - num_bytes) > sz
Room == Len(net) + 1 < Buffer

\* A pending ECONNREFUSED fails the send: tb_abort.
SendData ==
    /\ cpc = "send" /\ sent < FileSize /\ Room
    /\ IF refused
       THEN cpc' = "aborted" /\ refused' = FALSE /\ UNCHANGED <<sent, net>>
       ELSE /\ sent' = sent + 1 /\ net' = Append(net, "data")
            /\ UNCHANGED <<cpc, refused>>
    /\ UNCHANGED <<command, server, queue, answers, ack, faults, early>>

AllSent ==
    /\ cpc = "send" /\ sent = FileSize /\ cpc' = "eof"
    /\ UNCHANGED <<command, sent, server, net, queue, answers, ack, refused,
                   faults, early>>

\* Slip: a refusal is treated as EWOULDBLOCK.
TryAgain == "poll"
AfterRefusal == "close"

ExitOrdered == command = "EXIT"

\* while(listener->command != TB_EXIT): a full buffer (EWOULDBLOCK) is passed
\* over, any other error breaks the loop.
SendEof ==
    /\ cpc = "eof" /\ ~ExitOrdered
    /\ IF refused
       THEN cpc' = AfterRefusal /\ refused' = FALSE /\ UNCHANGED net
       ELSE /\ cpc' = "poll" /\ UNCHANGED refused
            /\ net' = IF Len(net) < Buffer THEN Append(net, "eof") ELSE net
    /\ UNCHANGED <<command, sent, server, queue, answers, ack, faults, early>>

\* tb_poll_for_events for 50 ms: tb_udp_ack orders the exit.
Poll ==
    /\ cpc = "poll" /\ cpc' = "eof" /\ ack' = FALSE
    /\ command' = IF ack THEN "EXIT" ELSE command
    /\ UNCHANGED <<sent, server, net, queue, answers, refused, faults, early>>

LoopEnds ==
    /\ cpc = "eof" /\ ExitOrdered /\ cpc' = "close"
    /\ UNCHANGED <<command, sent, server, net, queue, answers, ack, refused,
                   faults, early>>

Close ==
    /\ cpc = "close" /\ cpc' = "done"
    /\ UNCHANGED <<command, sent, server, net, queue, answers, ack, refused,
                   faults, early>>

ClientThread ==
    Connect \/ SendData \/ AllSent \/ SendEof \/ Poll \/ LoopEnds \/ Close
-----------------------------------------------------------------------------
(* The server. *)

Bind ==
    /\ spc = "bind" /\ spc' = "first"
    /\ UNCHANGED <<client, total_tx_rx, net, queue, answers, ack, refused,
                   faults, early>>

\* Slip: only the loop adds what it receives.
NotAdded(m) == total_tx_rx
\* total_tx_rx += last_trans
Added(m) == total_tx_rx + IF m = "data" THEN 1 ELSE 0

\* The datagram that makes the server CONNECTED, even if it is empty.
RecvFirst ==
    /\ spc = "first" /\ queue # <<>> /\ spc' = "recv"
    /\ queue' = Tail(queue) /\ total_tx_rx' = Added(Head(queue))
    /\ UNCHANGED <<client, net, answers, ack, refused, faults, early>>

\* Slip: the test is negated.
IsNotEot(m) == m # "eof"
\* last_trans == protocol->eot
IsEot(m) == m = "eof"

Recv ==
    /\ spc = "recv" /\ queue # <<>> /\ queue' = Tail(queue)
    /\ LET m == Head(queue) IN
         IF IsEot(m) THEN spc' = "ack" /\ UNCHANGED total_tx_rx
         ELSE UNCHANGED spc /\ total_tx_rx' = Added(m)
    /\ UNCHANGED <<client, net, answers, ack, refused, faults, early>>

SendAck ==
    /\ spc = "ack" /\ spc' = "close" /\ answers' = answers \cup {"ack"}
    /\ UNCHANGED <<client, total_tx_rx, net, queue, ack, refused, faults,
                   early>>

\* What was still queued at the socket goes with it.
CloseServer ==
    /\ spc = "close" /\ spc' = "done"
    /\ queue' = <<>> /\ lost' = lost + DataIn(queue)
    /\ UNCHANGED <<client, total_tx_rx, net, answers, ack, refused, extra,
                   losses, duplicates, early>>

ServerThread == RecvFirst \/ Recv \/ SendAck \/ CloseServer
-----------------------------------------------------------------------------
(* The network and the two kernels. *)

Bound == spc \notin {"bind", "done"}
One(m) == IF m = "data" THEN 1 ELSE 0

\* The datagram at i, whichever that is, reaches the server's host, which
\* drops it when the receive queue is full and refuses it without a socket.
Deliver ==
    \E i \in DOMAIN net :
        /\ net' = RemoveAt(net, i)
        /\ IF Bound
           THEN /\ \/ /\ Len(queue) < Buffer /\ UNCHANGED lost
                      /\ queue' = Append(queue, net[i])
                   \/ /\ Len(queue) = Buffer /\ UNCHANGED queue
                      /\ lost' = lost + One(net[i])
                /\ UNCHANGED <<answers, early>>
           ELSE /\ answers' = answers \cup {"refusal"}
                /\ lost' = lost + One(net[i])
                /\ early' = (early \/ spc = "bind")
                /\ UNCHANGED queue
        /\ UNCHANGED <<client, server, ack, refused, extra, losses,
                       duplicates>>

Lose ==
    /\ losses < Losses /\ losses' = losses + 1
    /\ \/ \E i \in DOMAIN net : /\ net' = RemoveAt(net, i)
                                /\ lost' = lost + One(net[i])
                                /\ UNCHANGED answers
       \/ \E a \in answers : /\ answers' = answers \ {a}
                             /\ UNCHANGED <<net, lost>>
    /\ UNCHANGED <<client, server, queue, ack, refused, extra, duplicates,
                   early>>

Duplicate ==
    /\ duplicates < Duplicates /\ duplicates' = duplicates + 1
    /\ \E i \in DOMAIN net : /\ net' = Append(net, net[i])
                             /\ extra' = extra + One(net[i])
    /\ UNCHANGED <<client, server, queue, answers, ack, refused, lost, losses,
                   early>>

\* An answer reaches the client's socket, unless it is closed.
DeliverAnswer ==
    \E a \in answers :
        /\ answers' = answers \ {a}
        /\ ack' = (ack \/ a = "ack")
        /\ refused' = (refused \/ a = "refusal")
        /\ UNCHANGED <<client, server, net, queue, faults, early>>

Next ==
    \/ ClientThread \/ Bind \/ ServerThread
    \/ Deliver \/ Lose \/ Duplicate \/ DeliverAnswer

Spec == Init /\ [][Next]_vars

(* The threads run and what is not lost arrives; a user starts the server,  *)
(* at some time.                                                            *)
Fairness ==
    /\ WF_vars(ClientThread) /\ WF_vars(Bind) /\ WF_vars(ServerThread)
    /\ WF_vars(Deliver) /\ WF_vars(DeliverAnswer)

FairSpec == Spec /\ Fairness
-----------------------------------------------------------------------------
(* Properties. *)

ServerOver == spc \in {"ack", "close", "done"}

\* Every variable keeps to the values the code gives it, and the buffers to
\* their size.
TypeOK ==
    /\ cpc \in {"connect", "send", "eof", "poll", "close", "done", "aborted"}
    /\ command \in {"CONTINUE", "EXIT"} /\ sent \in 0 .. FileSize
    /\ spc \in {"bind", "first", "recv", "ack", "close", "done"}
    /\ total_tx_rx \in Nat
    /\ net \in Seq(Datagrams) /\ queue \in Seq(Datagrams)
    /\ answers \subseteq {"ack", "refusal"}
    /\ ack \in BOOLEAN /\ refused \in BOOLEAN /\ early \in BOOLEAN
    /\ lost \in Nat /\ extra \in Nat
    /\ losses \in 0 .. Losses /\ duplicates \in 0 .. Duplicates
    /\ Len(net) <= Buffer + Duplicates /\ Len(queue) <= Buffer

\* The server's total is what the client has sent, but for what the network
\* lost or duplicated or still holds, and what a late datagram lost at the
\* close: the first one counts too (tb_udp_server 421-423 and 442).
AllCounted ==
    total_tx_rx + DataIn(queue) + DataIn(net) + lost = sent + extra

\* "Data sent to a closed server socket is refused (signifying that the ack
\* has been lost)": however datagrams are reordered, lost or repeated, the
\* server ends only after the client has sent its whole file, and the client,
\* unless it has spoken to a server that was not yet there, leaves only after
\* that, with an ack or a refusal (tb_udp.h 15-19, tb_udp_client 137-154,
\* tb_udp_server 433).
T == INSTANCE Transfer WITH
    Parts <- {"file"},
    pending <- IF cpc \in {"connect", "send", "aborted"} THEN {"file"} ELSE {},
    server <- IF ServerOver THEN "over" ELSE "open",
    client <- IF cpc \notin {"close", "done", "aborted"} THEN "working"
              ELSE IF early THEN "failed" ELSE "left"
ImplementsTransfer == T!Spec

\* A client ends, whatever is lost on the way: the file, the end of
\* transmission, the ack or the refusal (tb_udp_client 137-154).
ClientEnds == cpc = "send" ~> cpc \in {"done", "aborted"}

\* So does its server, if the client did not start first (tb_udp_server
\* 429-445).
ServerEnds == cpc = "eof" ~> spc = "done" \/ early

\* Both ends end: neither waits for ever for what the network has lost.
BothEnd == ClientEnds /\ ServerEnds
=============================================================================
