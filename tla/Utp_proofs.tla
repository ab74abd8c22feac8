---------------------------- MODULE Utp_proofs ----------------------------
(***************************************************************************)
(* What holds of a uTP transfer for files, buffers and windows of any      *)
(* size, whoever is interrupted and whenever the network breaks: its types *)
(* and bounds, that the end of the stream comes with every byte, and that  *)
(* a confirmed close means that all has arrived.                           *)
(***************************************************************************)
EXTENDS Utp, TLAPS

ThreadTypeOK ==
    /\ pc \in [Ends -> Pcs]
    /\ phase \in [Ends -> {"connect", "transfer", "close"}]
    /\ outcome \in [Ends -> {"exit", "abort"}]
    /\ status \in [Ends -> {"CREATED", "LISTENING", "CONNECTED",
                            "DISCONNECTED", "EXITING", "ABORTING"}]
    /\ command \in [Ends -> {"CONTINUE", "EXIT"}]
    /\ sock_d \in [Ends -> {"none", "fd"}]

UtpTypeOK ==
    /\ state \in [Ends -> UtpStates] /\ moved \in [Ends -> Nat]
    /\ measure_time \in [Ends -> BOOLEAN]
    /\ lib \in [Ends -> LibStates]
    /\ fin \in [Ends -> {"none", "sent", "got"}] /\ down \in [Ends -> BOOLEAN]
    /\ broken \in BOOLEAN

CountTypeOK ==
    /\ total_tx_rx \in [Ends -> Nat] /\ total_tx_rx["client"] <= FileSize
    /\ sent \in Nat /\ delivered \in 0 .. sent /\ sent - delivered <= Window

Typed == ThreadTypeOK /\ UtpTypeOK /\ CountTypeOK

\* The three parts are the type invariant.
LEMMA TypedIsTypeOK == Typed <=> TypeOK
BY DEF Typed, ThreadTypeOK, UtpTypeOK, CountTypeOK, TypeOK

\* The initial state has the types.
LEMMA TypedInit == Init => Typed
<1> SUFFICES ASSUME Init PROVE Typed
  OBVIOUS
<1>1. ThreadTypeOK
  BY DEF Init, ThreadTypeOK, Pcs
<1>2. UtpTypeOK
  BY DEF Init, UtpTypeOK, UtpStates, LibStates
<1>3. CountTypeOK
  BY SizesAssumption DEF Init, CountTypeOK, Ends
<1> QED BY <1>1, <1>2, <1>3 DEF Typed

\* What UTP_Write takes fits in the file and in the window.
LEMMA TakenBound ==
    ASSUME Typed
    PROVE  /\ Taken \in Nat /\ total_tx_rx["client"] + Taken <= FileSize
           /\ Taken <= Space \/ Taken = 0
<1>1. /\ FileSize \in Nat /\ Bufsize \in Nat /\ Window \in Nat
      /\ total_tx_rx["client"] \in Nat /\ total_tx_rx["client"] <= FileSize
      /\ sent \in Nat /\ delivered \in Nat /\ sent - delivered <= Window
      /\ delivered <= sent
  BY SizesAssumption DEF Typed, CountTypeOK, Ends
<1>2. Offer \in Nat /\ Offer <= FileSize - total_tx_rx["client"]
  BY <1>1 DEF Offer
<1>3. Space \in Nat BY <1>1 DEF Space
<1> HIDE DEF Offer, Space
<1> QED BY <1>1, <1>2, <1>3 DEF Taken
-----------------------------------------------------------------------------
(* Types. *)

\* An end's thread keeps to its places, and its listener to its values.
LEMMA ThreadTypeStep == ThreadTypeOK /\ [Next]_vars => ThreadTypeOK'
<1> SUFFICES ASSUME ThreadTypeOK, [Next]_vars PROVE ThreadTypeOK'
  OBVIOUS
<1> USE DEF ThreadTypeOK, Ends, Pcs, Goto, thread, listener
<1>1. ASSUME NEW e \in Ends,
             Incoming(e) \/ SigAction(e) \/ NetworkBreaks \/ UNCHANGED vars
      PROVE  ThreadTypeOK'
  BY <1>1 DEF Incoming, IncomingSyn, IncomingSynAck, IncomingData, IncomingFin,
              IncomingAck, SigAction, NetworkBreaks, vars
<1>2. ASSUME NEW e \in Ends, Recv(e) PROVE ThreadTypeOK'
  BY <1>2 DEF Recv, PollEnds, CheckTimeouts, RecvReturns, TimesOut, AfterRecv
<1>3. ASSUME NEW e \in Ends, End(e) \/ SendToFails(e) PROVE ThreadTypeOK'
  BY <1>3 DEF End, Close, Closing, Freed, Last, SendToFails
<1>4. CASE ClientSetup \/ Connect \/ ClientLoopEnds \/ Write \/ WaitWritable
           \/ ClientSwitch
  BY <1>4 DEF ClientSetup, Connect, ClientLoopEnds, Write, WaitWritable,
              ClientSwitch
<1>5. CASE ServerSetup \/ ServerLoop \/ ServerSwitch
  BY <1>5 DEF ServerSetup, ServerLoop, ServerSwitch
<1> QED BY <1>1, <1>2, <1>3, <1>4, <1>5 DEF Next, ClientThread, ServerThread

\* utp->state and libutp keep to their values.
LEMMA UtpTypeStep == Typed /\ [Next]_vars => UtpTypeOK'
<1> SUFFICES ASSUME Typed, [Next]_vars PROVE UtpTypeOK'
  OBVIOUS
<1>0. UtpTypeOK BY DEF Typed
<1>a. Taken \in Nat BY TakenBound
<1> USE <1>0 DEF UtpTypeOK, Ends, UtpStates, LibStates, utp, network
<1> HIDE DEF Taken
<1>1. ASSUME NEW e \in Ends, Incoming(e) PROVE UtpTypeOK'
  <2>1. CASE IncomingSynAck(e)
    BY <2>1 DEF IncomingSynAck
  <2>5. CASE IncomingSyn(e)
    <3>1. measure_time' = [measure_time EXCEPT ![e] = TRUE]
      BY <2>5 DEF IncomingSyn
    <3>2. measure_time \in [Ends -> BOOLEAN]
      OBVIOUS
    <3>3. measure_time' \in [Ends -> BOOLEAN]
      BY <3>1, <3>2, Zenon
    <3>4. /\ lib' = [lib EXCEPT ![e] = "open"]
          /\ state' = [state EXCEPT ![e] = "CONNECT"]
          /\ UNCHANGED <<moved, fin, down, broken>>
      BY <2>5 DEF IncomingSyn
    <3> QED BY <3>3, <3>4
  <2>4. CASE IncomingAck(e)
    <3>1. CASE lib[e] = "full"
      BY <2>4, <3>1 DEF IncomingAck
    <3>2. CASE lib[e] # "full"
      BY <2>4, <3>2 DEF IncomingAck
    <3> QED BY <3>1, <3>2
  <2>2. CASE IncomingData(e)
    BY <2>2 DEF IncomingData
  <2>3. CASE IncomingFin(e)
    BY <2>3 DEF IncomingFin, Peer
  <2> QED BY <1>1, <2>1, <2>2, <2>3, <2>4, <2>5 DEF Incoming
<1>2. ASSUME NEW e \in Ends, Recv(e) PROVE UtpTypeOK'
  BY <1>2 DEF Recv, PollEnds, CheckTimeouts, RecvReturns, TimesOut, GivesUp,
              Frees
<1>3. ASSUME NEW e \in Ends, End(e) \/ SendToFails(e) PROVE UtpTypeOK'
  BY <1>3 DEF End, Close, Closing, Freed, Last, SendToFails
<1>4. CASE ClientSetup \/ Connect \/ ClientLoopEnds \/ WaitWritable
           \/ ClientSwitch
  BY <1>4 DEF ClientSetup, Connect, ClientLoopEnds, WaitWritable, ClientSwitch
<1>5. CASE Write
  BY <1>5, <1>a DEF Write
<1>6. CASE ServerSetup \/ ServerLoop \/ ServerSwitch
  BY <1>6 DEF ServerSetup, ServerLoop, ServerSwitch
<1>7. ASSUME NEW e \in Ends, SigAction(e) \/ NetworkBreaks \/ UNCHANGED vars
      PROVE  UtpTypeOK'
  BY <1>7, ZenonT(30) DEF SigAction, NetworkBreaks, vars
<1> QED
  BY <1>1, <1>2, <1>3, <1>4, <1>5, <1>6, <1>7
     DEF Next, ClientThread, ServerThread

counts == <<total_tx_rx, sent, delivered>>

\* Three actions count.
LEMMA CountFrame ==
    [Next]_vars =>
        \/ Write
        \/ \E e \in Ends : IncomingData(e) \/ RecvReturns(e)
        \/ UNCHANGED counts
<1> SUFFICES ASSUME [Next]_vars, ~Write,
                    \A e \in Ends : ~IncomingData(e) /\ ~RecvReturns(e)
             PROVE  UNCHANGED counts
  OBVIOUS
<1> USE DEF counts, listener, network
<1>1. ASSUME NEW e \in Ends, Incoming(e) \/ Recv(e) PROVE UNCHANGED counts
  BY <1>1 DEF Incoming, IncomingSyn, IncomingSynAck, IncomingFin, IncomingAck,
              Recv, PollEnds, CheckTimeouts, TimesOut
<1>2. ASSUME NEW e \in Ends, End(e) \/ SendToFails(e) PROVE UNCHANGED counts
  BY <1>2 DEF End, Close, Closing, Freed, Last, SendToFails
<1>3. CASE ClientSetup \/ Connect \/ ClientLoopEnds \/ WaitWritable
           \/ ClientSwitch \/ ServerSetup \/ ServerLoop \/ ServerSwitch
  BY <1>3 DEF ClientSetup, Connect, ClientLoopEnds, WaitWritable, ClientSwitch,
              ServerSetup, ServerLoop, ServerSwitch
<1>4. ASSUME NEW e \in Ends, SigAction(e) \/ NetworkBreaks \/ UNCHANGED vars
      PROVE  UNCHANGED counts
  BY <1>4 DEF SigAction, NetworkBreaks, vars
<1> QED
  BY <1>1, <1>2, <1>3, <1>4 DEF Next, ClientThread, ServerThread, Ends

\* The client never counts past its file, nor libutp past its window.
LEMMA CountTypeStep == Typed /\ [Next]_vars => CountTypeOK'
<1> SUFFICES ASSUME Typed, [Next]_vars PROVE CountTypeOK'
  OBVIOUS
<1>0. CountTypeOK /\ moved \in [Ends -> Nat]
  BY DEF Typed, UtpTypeOK
<1>1. CASE Write
  <2>1. /\ total_tx_rx' = [total_tx_rx EXCEPT !["client"] = @ + Taken]
        /\ sent' = sent + Taken /\ delivered' = delivered
    BY <1>1 DEF Write
  <2>2. /\ Taken \in Nat /\ total_tx_rx["client"] + Taken <= FileSize
        /\ Taken <= Window - (sent - delivered) \/ Taken = 0
    BY TakenBound DEF Space
  <2> HIDE DEF Taken
  <2> QED BY <1>0, <2>1, <2>2, SizesAssumption DEF CountTypeOK, Ends
<1>2. ASSUME NEW e \in Ends, IncomingData(e) PROVE CountTypeOK'
  <2>1. /\ total_tx_rx' = total_tx_rx /\ sent' = sent
        /\ delivered' = delivered + 1 /\ delivered < sent
    BY <1>2 DEF IncomingData, DataFor, listener
  <2> QED BY <1>0, <2>1, SizesAssumption DEF CountTypeOK
<1>3. ASSUME NEW e \in Ends, RecvReturns(e) PROVE CountTypeOK'
  <2>1. /\ total_tx_rx' = [total_tx_rx EXCEPT ![e] = @ + Received(e)]
        /\ sent' = sent /\ delivered' = delivered
    BY <1>3 DEF RecvReturns, network
  <2>2. Received(e) \in Nat /\ (e = "client" => Received(e) = 0)
    BY <1>0 DEF Received, ReadBytes, Ends
  <2> HIDE DEF Received
  <2> QED BY <1>0, <2>1, <2>2 DEF CountTypeOK, Ends
<1>4. CASE UNCHANGED counts BY <1>0, <1>4 DEF counts, CountTypeOK
<1> QED BY <1>1, <1>2, <1>3, <1>4, CountFrame

\* The types are kept.
LEMMA TypesKept == Spec => []Typed
<1>1. Typed /\ [Next]_vars => Typed'
  BY ThreadTypeStep, UtpTypeStep, CountTypeStep DEF Typed
<1> QED BY TypedInit, <1>1, PTL DEF Spec

\* Type correctness: the client never counts past its file, whatever the
\* window takes of a buffer (tb_utp_send 189-220), and libutp holds no more
\* than its window.
THEOREM TypeCorrect == Spec => []TypeOK
BY TypesKept, TypedIsTypeOK, PTL
-----------------------------------------------------------------------------
(* The end of the stream. *)

InRecv(e) == pc[e] \in {"poll", "check", "time"}

\* What has reached the server's libutp is what its listener has counted and
\* what the tb_utp_recv under way will return.
Returning == IF InRecv("server") THEN moved["server"] ELSE 0
AccountInv ==
    /\ total_tx_rx["client"] = sent
    /\ phase["server"] # "close" /\ pc["server"] # "killed" =>
          total_tx_rx["server"] + Returning = delivered
    /\ phase["server"] = "connect" => ~InRecv("server")
    /\ phase["server"] # "close" => pc["server"] # "closing"
    /\ phase["server"] = "close" =>
          pc["server"] \notin {"setup", "loop", "switch", "close"}

\* Nothing is sent after a FIN, and the server closes its socket only in
\* tb_utp_close.
CloseInv ==
    /\ pc["client"] \in {"setup", "connect"} => fin["client"] = "none"
    /\ fin["client"] # "none" => lib["client"] \in {"finsent", "destroy", "freed"}
    /\ lib["server"] = "finsent" => phase["server"] = "close"
    /\ phase["server"] = "close" =>
          \/ lib["server"] \in {"finsent", "destroy", "delay", "freed"}
          \/ lib["server"] = "none"
             /\ pc["server"] \in {"freed", "last", "done", "killed"}

\* The end of the stream comes after every packet; then nothing is left to
\* send or to count.
EofInv ==
    state["server"] = "EOF" =>
        /\ fin["client"] = "got" /\ delivered = sent
        /\ lib["server"] \in {"gotfin", "delay"}
        /\ pc["server"] \notin {"setup", "connect", "killed"}
        /\ phase["server"] = "close" => total_tx_rx["server"] = delivered

StreamInv == AccountInv /\ CloseInv /\ EofInv

\* The actions of the client's thread, and of the server's, that are their own.
ClientOnly ==
    ClientSetup \/ Connect \/ ClientLoopEnds \/ WaitWritable \/ ClientSwitch
ServerOnly == ServerSetup \/ ServerLoop \/ ServerSwitch
Outside == NetworkBreaks \/ (\E e \in Ends : SigAction(e)) \/ UNCHANGED vars

\* What the server counts is what has reached it, in every step.
LEMMA AccountStep == Typed /\ StreamInv /\ [Next]_vars => AccountInv'
<1> SUFFICES ASSUME Typed, StreamInv, [Next]_vars PROVE AccountInv'
  OBVIOUS
<1>0. /\ AccountInv /\ CloseInv
      /\ pc \in [Ends -> Pcs] /\ moved \in [Ends -> Nat]
      /\ phase \in [Ends -> {"connect", "transfer", "close"}]
      /\ total_tx_rx \in [Ends -> Nat] /\ sent \in Nat /\ delivered \in Nat
  BY DEF StreamInv, Typed, ThreadTypeOK, UtpTypeOK, CountTypeOK
<1>1. CASE Write
  <2>1. Taken \in Nat BY TakenBound
  <2> HIDE DEF Taken
  <2> QED
    BY <1>0, <1>1, <2>1
       DEF Write, AccountInv, Returning, InRecv, Ends, Goto
<1>2. CASE ClientOnly
  BY <1>0, <1>2
     DEF ClientOnly, ClientSetup, Connect, ClientLoopEnds, WaitWritable,
         ClientSwitch, AccountInv, Returning, InRecv, Ends, Goto, listener,
         utp, network
<1>3. CASE ServerOnly
  <2> USE DEF AccountInv, Returning, InRecv, Ends, Goto, listener, utp, network
  <2>1. CASE ServerSetup
    BY <1>0, <2>1 DEF ServerSetup
  <2>2. CASE ServerLoop
    BY <1>0, <2>2 DEF ServerLoop
  <2>3. CASE ServerSwitch
    BY <1>0, <2>3 DEF ServerSwitch
  <2> QED BY <1>3, <2>1, <2>2, <2>3 DEF ServerOnly
<1>4. ASSUME NEW e \in Ends, IncomingData(e) PROVE AccountInv'
  BY <1>0, <1>4
     DEF IncomingData, DataFor, AccountInv, CloseInv, Returning, InRecv, Ends,
         thread, listener
<1>5. ASSUME NEW e \in Ends, Incoming(e), ~IncomingData(e) PROVE AccountInv'
  BY <1>0, <1>5
     DEF Incoming, IncomingSyn, IncomingSynAck, IncomingFin, IncomingAck,
         AccountInv, Returning, InRecv, thread, listener
<1>6. ASSUME NEW e \in Ends, RecvReturns(e) \/ TimesOut(e) PROVE AccountInv'
  BY <1>0, <1>6
     DEF RecvReturns, TimesOut, Silent, Received, ReadBytes, AfterRecv,
         AccountInv, Returning, InRecv, Ends, Goto, listener, utp, network
<1>7. ASSUME NEW e \in Ends, PollEnds(e) \/ CheckTimeouts(e)
      PROVE  AccountInv'
  BY <1>0, <1>7
     DEF PollEnds, CheckTimeouts, AccountInv, Returning, InRecv, Ends, Goto,
         listener, utp, network
<1>8. ASSUME NEW e \in Ends, End(e) \/ SendToFails(e) PROVE AccountInv'
  BY <1>0, <1>8
     DEF End, Close, Closing, Freed, Last, SendToFails, AccountInv, Returning,
         InRecv, Ends, Goto, listener, utp, network
<1>9. CASE Outside
  <2>1. UNCHANGED <<total_tx_rx, sent, delivered, pc, phase, moved>>
    BY <1>9
       DEF Outside, NetworkBreaks, SigAction, vars, thread, listener, utp,
           network
  <2> QED BY <1>0, <2>1 DEF AccountInv, Returning, InRecv
<1> QED
  BY <1>1, <1>2, <1>3, <1>4, <1>5, <1>6, <1>7, <1>8, <1>9
     DEF Next, ClientThread, ServerThread, ClientOnly, ServerOnly, Outside,
         Recv, Ends

\* A FIN is the last thing that an end sends.
LEMMA CloseStep == Typed /\ StreamInv /\ [Next]_vars => CloseInv'
<1> SUFFICES ASSUME Typed, StreamInv, [Next]_vars PROVE CloseInv'
  OBVIOUS
<1>0. /\ AccountInv /\ CloseInv /\ EofInv
      /\ pc \in [Ends -> Pcs] /\ lib \in [Ends -> LibStates]
      /\ phase \in [Ends -> {"connect", "transfer", "close"}]
      /\ fin \in [Ends -> {"none", "sent", "got"}]
      /\ state \in [Ends -> UtpStates]
      /\ total_tx_rx \in [Ends -> Nat] /\ sent \in Nat
      /\ delivered \in Nat /\ delivered <= sent
  BY DEF StreamInv, Typed, ThreadTypeOK, UtpTypeOK, CountTypeOK
<1> USE DEF CloseInv, Ends, Goto
<1>1. CASE Write
  <2>1. lib["client"] # "open" => Taken = 0
    BY DEF Taken
  <2> HIDE DEF Taken
  <2> QED BY <1>0, <1>1, <2>1 DEF Write, CloseInv
<1>2. CASE ClientOnly
  <2>1. CASE Connect
    BY <1>0, <2>1 DEF Connect, listener, utp
  <2>2. CASE ~Connect
    <3>1. /\ UNCHANGED <<fin, lib>>
          /\ pc["server"]' = pc["server"] /\ phase["server"]' = phase["server"]
          /\ pc'["client"] \in {"setup", "connect"} =>
                pc["client"] \in {"setup", "connect"}
      BY <1>0, <1>2, <2>2
         DEF ClientOnly, ClientSetup, ClientLoopEnds, WaitWritable,
             ClientSwitch, listener, utp, network
    <3> QED BY <1>0, <3>1
  <2> QED BY <2>1, <2>2
<1>3. CASE ServerOnly
  <2> USE DEF listener, utp, network
  <2>1. CASE ServerSetup
    BY <1>0, <2>1 DEF ServerSetup
  <2>2. CASE ServerLoop
    BY <1>0, <2>2 DEF ServerLoop, AccountInv
  <2>3. CASE ServerSwitch
    BY <1>0, <2>3 DEF ServerSwitch
  <2> QED BY <1>3, <2>1, <2>2, <2>3 DEF ServerOnly
<1>4. ASSUME NEW e \in Ends, Incoming(e) PROVE CloseInv'
  BY <1>0, <1>4
     DEF Incoming, IncomingSyn, IncomingSynAck, IncomingData, IncomingFin,
         IncomingAck, SynFor, SynAckFor, DataFor, FinFor, AckFor, Peer,
         thread, listener, AccountInv, CloseInv
<1>5. ASSUME NEW e \in Ends, Recv(e) PROVE CloseInv'
  BY <1>0, <1>5
     DEF Recv, PollEnds, CheckTimeouts, GivesUp, Outstanding, Frees,
         RecvReturns, TimesOut, Received, AfterRecv, listener, utp, network
<1>6. ASSUME NEW e \in Ends, Close(e) PROVE CloseInv'
  BY <1>0, <1>6 DEF Close, AccountInv, Returning, InRecv, listener
<1>7. ASSUME NEW e \in Ends, Closing(e) \/ Freed(e) \/ Last(e)
      PROVE  CloseInv'
  BY <1>0, <1>7
     DEF Closing, Freed, Last, listener, utp, network
<1>8. ASSUME NEW e \in Ends, SendToFails(e) PROVE CloseInv'
  BY <1>0, <1>8
     DEF SendToFails, Sends, SynFor, DataFor, FinFor, Outstanding, listener,
         utp, network
<1>9. CASE Outside
  BY <1>0, <1>9
     DEF Outside, NetworkBreaks, SigAction, vars, thread, listener, utp,
         network
<1> QED
  BY <1>1, <1>2, <1>3, <1>4, <1>5, <1>6, <1>7, <1>8, <1>9
     DEF Next, ClientThread, ServerThread, ClientOnly, ServerOnly, Outside, End

\* Nothing follows the end of the stream.
LEMMA EofStep == Typed /\ StreamInv /\ [Next]_vars => EofInv'
<1> SUFFICES ASSUME Typed, StreamInv, [Next]_vars PROVE EofInv'
  OBVIOUS
<1>0. /\ AccountInv /\ CloseInv /\ EofInv
      /\ pc \in [Ends -> Pcs] /\ lib \in [Ends -> LibStates]
      /\ phase \in [Ends -> {"connect", "transfer", "close"}]
      /\ fin \in [Ends -> {"none", "sent", "got"}]
      /\ state \in [Ends -> UtpStates]
      /\ total_tx_rx \in [Ends -> Nat] /\ sent \in Nat
      /\ delivered \in Nat /\ delivered <= sent
  BY DEF StreamInv, Typed, ThreadTypeOK, UtpTypeOK, CountTypeOK
<1> USE DEF EofInv, Ends, Goto
<1>1. CASE Write
  <2>1. lib["client"] # "open" => Taken = 0
    BY DEF Taken
  <2> HIDE DEF Taken
  <2> QED BY <1>0, <1>1, <2>1 DEF Write, CloseInv
<1>2. CASE ClientOnly
  BY <1>0, <1>2
     DEF ClientOnly, ClientSetup, Connect, ClientLoopEnds, WaitWritable,
         ClientSwitch, listener, utp, network
<1>3. CASE ServerOnly
  BY <1>0, <1>3
     DEF ServerOnly, ServerSetup, ServerLoop, ServerSwitch, listener, utp,
         network
<1>4. ASSUME NEW e \in Ends, Incoming(e) PROVE EofInv'
  BY <1>0, <1>4
     DEF Incoming, IncomingSyn, IncomingSynAck, IncomingData, IncomingFin,
         IncomingAck, SynFor, SynAckFor, DataFor, FinFor, AckFor, Peer,
         thread, listener, AccountInv, CloseInv
<1>5. ASSUME NEW e \in Ends, Recv(e) PROVE EofInv'
  BY <1>0, <1>5
     DEF Recv, PollEnds, CheckTimeouts, GivesUp, Outstanding, Frees,
         RecvReturns, TimesOut, Received, AfterRecv, listener, utp, network
<1>6. ASSUME NEW e \in Ends, Close(e) PROVE EofInv'
  BY <1>0, <1>6 DEF Close, AccountInv, CloseInv, Returning, InRecv, listener
<1>7. ASSUME NEW e \in Ends, Closing(e) \/ Freed(e) \/ Last(e)
      PROVE  EofInv'
  BY <1>0, <1>7
     DEF Closing, Freed, Last, listener, utp, network
<1>8. ASSUME NEW e \in Ends, SendToFails(e) PROVE EofInv'
  BY <1>0, <1>8
     DEF SendToFails, Sends, SynFor, DataFor, FinFor, Outstanding, listener,
         utp, network
<1>9. CASE Outside
  BY <1>0, <1>9
     DEF Outside, NetworkBreaks, SigAction, vars, thread, listener, utp,
         network
<1> QED
  BY <1>1, <1>2, <1>3, <1>4, <1>5, <1>6, <1>7, <1>8, <1>9
     DEF Next, ClientThread, ServerThread, ClientOnly, ServerOnly, Outside, End

\* The three parts are kept together.
LEMMA StreamKept == Spec => []StreamInv
<1>1. Init => StreamInv
  BY DEF Init, StreamInv, AccountInv, CloseInv, EofInv, Returning, InRecv, Ends
<1>2. Typed /\ StreamInv /\ [Next]_vars => StreamInv'
  BY AccountStep, CloseStep, EofStep DEF StreamInv
<1> QED BY TypesKept, <1>1, <1>2, PTL DEF Spec

\* For any sizes, and whoever is interrupted: a server that acts on the end of
\* the stream has counted every byte that the client counted
\* (tb_utp_recv 273-288, tb_utp_server 738-757).
THEOREM EndMeansAll == Spec => []EofMeansAll
<1>1. Typed /\ StreamInv => EofMeansAll
  BY DEF Typed, CountTypeOK, Ends, StreamInv, AccountInv, EofInv, EofMeansAll,
         Returning, InRecv
<1> QED BY TypesKept, StreamKept, <1>1, PTL
-----------------------------------------------------------------------------
(* The confirmed close. *)

\* The client leaves its loop with the call that ends its file, and libutp
\* still takes what it is given then.
LoopInv ==
    /\ \/ pc["client"] \in {"setup", "connect", "loop"}
       \/ InRecv("client") /\ phase["client"] # "close"
       => sent < FileSize \/ FileSize = 0
    /\ pc["client"] \in {"switch", "close"} /\ sent = FileSize =>
         lib["client"] \in {"open", "full"} \/ FileSize = 0
    /\ \/ pc["client"] = "close" \/ phase["client"] = "close"
       => sent = FileSize \/ outcome["client"] = "abort"
                          \/ command["client"] = "EXIT"

\* Only tb_utp_close closes libutp's socket.
PhaseInv ==
    /\ phase["client"] = "close" =>
         pc["client"] \notin {"setup", "connect", "loop", "switch", "close"}
    /\ phase["client"] # "close" =>
         /\ pc["client"] # "closing" /\ state["client"] # "DESTROYING"
         /\ lib["client"] \notin {"finsent", "delay", "destroy", "freed"}

\* What ends the socket of a client that has sent its file is the ack of its
\* FIN, which comes after every packet, or an error.
FinInv ==
    /\ fin["client"] = "got" => delivered = sent
    /\ lib["client"] = "destroy" =>
         \/ fin["client"] = "got"
         \/ state["client"] = "ERROR"
            /\ pc["client"] \in {"time", "closing", "freed", "last", "done"}
    /\ phase["client"] = "close" /\ sent = FileSize /\ FileSize # 0 =>
         /\ lib["client"] \in {"finsent", "destroy", "freed"}
         /\ state["client"] = "DESTROYING" => fin["client"] = "got"

ConfirmInv == LoopInv /\ PhaseInv /\ FinInv

\* The types that the steps below need.
ConfirmTypes ==
    /\ pc \in [Ends -> Pcs] /\ lib \in [Ends -> LibStates]
    /\ phase \in [Ends -> {"connect", "transfer", "close"}]
    /\ fin \in [Ends -> {"none", "sent", "got"}]
    /\ state \in [Ends -> UtpStates] /\ outcome \in [Ends -> {"exit", "abort"}]
    /\ command \in [Ends -> {"CONTINUE", "EXIT"}]
    /\ sent \in Nat /\ delivered \in Nat /\ delivered <= sent
    /\ FileSize \in Nat /\ sent <= FileSize /\ total_tx_rx["client"] = sent

\* Every step of the program, libutp and the network keeps it.
LEMMA ConfirmStep ==
    Typed /\ StreamInv /\ ConfirmInv /\ [Next]_vars => ConfirmInv'
<1> SUFFICES ASSUME Typed, StreamInv, ConfirmInv, [Next]_vars
             PROVE  ConfirmInv'
  OBVIOUS
<1>0. ConfirmTypes /\ CloseInv /\ LoopInv /\ PhaseInv /\ FinInv
  BY SizesAssumption
     DEF ConfirmTypes, ConfirmInv, StreamInv, AccountInv, Typed, ThreadTypeOK,
         UtpTypeOK, CountTypeOK
<1> USE DEF ConfirmInv, LoopInv, PhaseInv, FinInv, InRecv, Ends, Goto
<1>1. CASE Write
  <2>1. /\ Taken \in Nat /\ sent + Taken <= FileSize
        /\ lib["client"] # "open" => Taken = 0
    BY <1>0, TakenBound DEF ConfirmTypes, Taken
  <2>2. /\ pc["client"] = "loop" /\ pc' = [pc EXCEPT !["client"] = "switch"]
        /\ sent' = sent + Taken
        /\ UNCHANGED <<phase, outcome, command, delivered, fin>>
    BY <1>1 DEF Write, Writing
  <2>3. /\ state'["client"] \in {state["client"], "CREATED"}
        /\ \/ lib' = lib
           \/ lib["client"] = "open" /\ lib'["client"] = "full"
    BY <1>0, <1>1 DEF Write, ConfirmTypes
  <2> HIDE DEF Taken
  <2>4. LoopInv'
    BY <1>0, <2>1, <2>2, <2>3 DEF ConfirmTypes
  <2>5. PhaseInv'
    BY <1>0, <2>2, <2>3 DEF ConfirmTypes
  <2>6. FinInv'
    BY <1>0, <2>1, <2>2, <2>3 DEF ConfirmTypes, CloseInv
  <2> QED BY <2>4, <2>5, <2>6
<1>2. CASE ClientOnly
  <2> USE DEF listener, utp, network
  <2>1. CASE ClientSetup \/ Connect \/ ClientLoopEnds
    BY <1>0, <2>1
       DEF ClientSetup, Connect, ClientLoopEnds, ConfirmTypes, CloseInv
  <2>2. CASE WaitWritable
    BY <1>0, <2>2 DEF WaitWritable, ConfirmTypes
  <2>3. CASE ClientSwitch
    <3>1. /\ UNCHANGED <<phase, command, state, lib, fin, sent, delivered>>
          /\ pc["client"] = "switch"
          /\ \/ pc'["client"] = "close" /\ sent = FileSize
             \/ pc'["client"] = "close" /\ outcome'["client"] = "abort"
                /\ sent < FileSize
             \/ pc'["client"] = "loop" /\ sent < FileSize
      BY <1>0, <2>3 DEF ClientSwitch, ConfirmTypes
    <3> QED BY <1>0, <3>1 DEF ConfirmTypes
  <2> QED BY <1>2, <2>1, <2>2, <2>3 DEF ClientOnly
<1>3. ASSUME NEW e \in Ends, Incoming(e) PROVE ConfirmInv'
  <2>1. UNCHANGED <<pc, phase, outcome, command, sent>> /\ pc[e] = "poll"
    BY <1>3
       DEF Incoming, IncomingSyn, IncomingSynAck, IncomingData, IncomingFin,
           IncomingAck, thread, listener
  <2>2. LoopInv' BY <1>0, <1>3, <2>1
       DEF Incoming, IncomingSyn, IncomingSynAck, IncomingData, IncomingFin,
           IncomingAck, ConfirmTypes
  <2>3. PhaseInv'
    BY <1>0, <1>3, <2>1
       DEF Incoming, IncomingSyn, IncomingSynAck, IncomingData, IncomingFin,
           IncomingAck, SynFor, SynAckFor, DataFor, FinFor, AckFor,
           ConfirmTypes, CloseInv
  <2>4. FinInv'
    BY <1>0, <1>3, <2>1
       DEF Incoming, IncomingSyn, IncomingSynAck, IncomingData, IncomingFin,
           IncomingAck, SynFor, SynAckFor, DataFor, FinFor, AckFor, Peer,
           ConfirmTypes, CloseInv
  <2> QED BY <2>2, <2>3, <2>4
<1>4. ASSUME NEW e \in Ends, PollEnds(e) \/ RecvReturns(e) \/ TimesOut(e)
      PROVE  ConfirmInv'
  BY <1>0, <1>4
     DEF PollEnds, RecvReturns, TimesOut, AfterRecv, ConfirmTypes, listener,
         utp, network
<1>5. ASSUME NEW e \in Ends, CheckTimeouts(e) PROVE ConfirmInv'
  BY <1>0, <1>5
     DEF CheckTimeouts, GivesUp, Outstanding, Frees, ConfirmTypes, listener
<1>6. ASSUME NEW e \in Ends, Close(e) PROVE ConfirmInv'
  BY <1>0, <1>6 DEF Close, ConfirmTypes, listener
<1>7. ASSUME NEW e \in Ends, Closing(e) \/ Freed(e) \/ Last(e)
      PROVE  ConfirmInv'
  <2>1. /\ UNCHANGED <<phase, outcome, command, state, lib, fin, sent>>
        /\ delivered' = delivered
    BY <1>7 DEF Closing, Freed, Last, listener, utp, network
  <2>2. \/ pc'["client"] = pc["client"]
        \/ /\ pc["client"] = "closing" /\ pc'["client"] = "poll"
           /\ state["client"] # "ERROR"
        \/ /\ pc["client"] \in {"closing", "freed", "last"}
           /\ pc'["client"] \in {"freed", "last", "done"}
    BY <1>0, <1>7 DEF Closing, Destroyed, Freed, Last, ConfirmTypes
  <2>3. LoopInv' BY <1>0, <2>1, <2>2
  <2>4. PhaseInv' BY <1>0, <2>1, <2>2
  <2>5. FinInv' BY <1>0, <2>1, <2>2
  <2> QED BY <2>3, <2>4, <2>5
<1>8. ASSUME NEW e \in Ends, SendToFails(e) PROVE ConfirmInv'
  BY <1>0, <1>8
     DEF SendToFails, Sends, Outstanding, Writing, ConfirmTypes, listener,
         utp, network
<1>9. CASE ServerOnly
  <2>1. /\ UNCHANGED <<lib, fin, sent, delivered, state>>
        /\ pc'["client"] = pc["client"] /\ phase'["client"] = phase["client"]
        /\ outcome'["client"] = outcome["client"]
        /\ command'["client"] = command["client"]
    BY <1>0, <1>9
       DEF ServerOnly, ServerSetup, ServerLoop, ServerSwitch, ConfirmTypes,
           listener, utp, network
  <2> QED BY <1>0, <2>1
<1>10. CASE Outside
  <2>1. /\ UNCHANGED <<pc, phase, outcome, state, lib, fin, sent, delivered>>
        /\ command["client"] = "EXIT" => command'["client"] = "EXIT"
    BY <1>0, <1>10
       DEF Outside, NetworkBreaks, SigAction, vars, thread, listener, utp,
           network, ConfirmTypes
  <2> QED BY <1>0, <2>1
<1> QED
  BY <1>1, <1>2, <1>3, <1>4, <1>5, <1>6, <1>7, <1>8, <1>9, <1>10
     DEF Next, ClientThread, ServerThread, ClientOnly, ServerOnly, Outside,
         Recv, End

\* For any sizes, and whoever else fails: when libutp has confirmed the close
\* of a client that nobody interrupted, its whole file has reached the
\* server's libutp (tb_utp_client 588-618, tb_utp_close 313-318).
THEOREM ConfirmedMeansAll == Spec => []CloseConfirmed
<1>1. Init => ConfirmInv
  BY SizesAssumption
     DEF Init, ConfirmInv, LoopInv, PhaseInv, FinInv, InRecv, Ends
<1>2. Typed /\ ConfirmInv => CloseConfirmed
  <2>1. SUFFICES ASSUME Typed, ConfirmInv,
                        pc["client"] \in {"freed", "last", "done"},
                        state["client"] = "DESTROYING",
                        outcome["client"] = "exit",
                        command["client"] = "CONTINUE"
                 PROVE  delivered = FileSize
    BY DEF CloseConfirmed
  <2>2. phase["client"] = "close" /\ sent = FileSize
    BY <2>1 DEF ConfirmInv, LoopInv, PhaseInv
  <2>3. delivered = sent \/ FileSize = 0
    BY <2>1, <2>2 DEF ConfirmInv, FinInv
  <2> QED BY <2>1, <2>2, <2>3, SizesAssumption DEF Typed, CountTypeOK
<1> QED BY TypesKept, StreamKept, <1>1, <1>2, ConfirmStep, PTL DEF Spec
=============================================================================
