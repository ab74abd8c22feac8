-------------------------- MODULE UdpMulti_proofs --------------------------
(***************************************************************************)
(* What holds of the UDP transfer for any number of connections, any sizes *)
(* of parts, packs and buffers, and any number of losses: how far a        *)
(* session counts, that each id makes one session, and that the call for   *)
(* exit is not answered before every session has ended.                    *)
(***************************************************************************)
EXTENDS UdpMulti, CountLemmas

(* Frames: which actions can disturb which variables. *)

clientVars == <<at, spc, total_bytes>>
countVars == <<list, received>>
eofVars == <<net, queue, ack>>

ClientCreates == Create \/ Join

\* Creation, the joins and the sessions' threads write the client's sessions.
LEMMA ClientFrame ==
    [Next]_vars => \/ ClientCreates \/ \E i \in Conns : SessionThread(i)
                   \/ UNCHANGED clientVars
<1> SUFFICES ASSUME [Next]_vars, ~ClientCreates,
                    \A i \in Conns : ~SessionThread(i)
             PROVE UNCHANGED clientVars
  OBVIOUS
<1> USE DEF clientVars, sessions
<1>1. ClientThread => UNCHANGED clientVars
  BY DEF ClientCreates, ClientThread, CreateFails, AbortLock, TbAbort,
         Connected, Lock, SendEof, PollAck, EofLoopEnds, Ended, LockAgain,
         TbExit
<1>2. Bind \/ ServerThread => UNCHANGED clientVars
  BY DEF Bind, ServerThread, LoopTest, Poll, WouldBlock, RecvFails, PollFails,
         RecvData, RecvEmpty, CallForExit, Lock, Close, Ended, LockAgain,
         TbExit
<1>3. ASSUME NEW p \in Ends, MainThread(p) \/ SigAction(p)
      PROVE UNCHANGED clientVars
  BY <1>3 DEF MainThread, MonitorSpin, TryLock, Unlock, SigAction
<1>4. Deliver \/ Lose \/ DeliverAck => UNCHANGED clientVars
  BY DEF Deliver, Lose, DeliverAck
<1>5. UNCHANGED vars => UNCHANGED clientVars BY DEF vars
<1> QED BY <1>1, <1>2, <1>3, <1>4, <1>5 DEF Next

\* Only what is received as data changes the server's sessions.
LEMMA CountFrame == [Next]_vars => RecvData \/ UNCHANGED countVars
<1> SUFFICES ASSUME [Next]_vars, ~RecvData PROVE UNCHANGED countVars
  OBVIOUS
<1> USE DEF countVars, serverSessions
<1>1. ClientThread => UNCHANGED countVars
  BY DEF ClientThread, Create, CreateFails, AbortLock, TbAbort, Connected,
         Join, Lock, SendEof, PollAck, EofLoopEnds, Ended, LockAgain, TbExit
<1>2. ASSUME NEW i \in Conns, SessionThread(i) PROVE UNCHANGED countVars
  BY <1>2 DEF SessionThread, Send, SendLast
<1>3. Bind \/ ServerThread => UNCHANGED countVars
  BY DEF Bind, ServerThread, LoopTest, Poll, WouldBlock, RecvFails, PollFails,
         RecvEmpty, CallForExit, Lock, Close, Ended, LockAgain, TbExit
<1>4. ASSUME NEW p \in Ends, MainThread(p) \/ SigAction(p)
      PROVE UNCHANGED countVars
  BY <1>4 DEF MainThread, MonitorSpin, TryLock, Unlock, SigAction
<1>5. Deliver \/ Lose \/ DeliverAck => UNCHANGED countVars
  BY DEF Deliver, Lose, DeliverAck
<1>6. UNCHANGED vars => UNCHANGED countVars BY DEF vars
<1> QED BY <1>1, <1>2, <1>3, <1>4, <1>5, <1>6 DEF Next
-----------------------------------------------------------------------------
(* Types. *)

LpcTypeOK ==
    lpc \in [Ends -> {"create", "connected", "join", "bind", "loop", "poll",
                     "recv", "lock", "eof", "close", "lock again", "exit",
                     "abort", "abort_status", "done"}]

ClientTypeOK ==
    /\ at \in Conns
    /\ spc \in [Conns -> {"none", "send", "last", "done"}]

NetTypeOK ==
    /\ net \in [Datagrams -> Nat] /\ queue \in Seq(Datagrams)
    /\ ack \in {"none", "sent", "arrived", "seen", "lost"}

ServerTypeOK == list \in Seq(Conns) /\ received \in [Conns -> Nat]

Typed == LpcTypeOK /\ ClientTypeOK /\ NetTypeOK /\ ServerTypeOK

\* The initial state has the types.
LEMMA TypedInit == Init => Typed
BY ConnAssumption
   DEF Init, Typed, LpcTypeOK, ClientTypeOK, NetTypeOK, ServerTypeOK, Ends,
       Conns, Datagrams

\* A listener thread goes from one of its places to another.
LEMMA LpcStep == LpcTypeOK /\ [Next]_vars => LpcTypeOK'
<1> SUFFICES ASSUME LpcTypeOK, [Next]_vars PROVE LpcTypeOK'
  OBVIOUS
<1> USE DEF LpcTypeOK, Goes
<1>1. CASE ClientThread
  BY <1>1 DEF ClientThread, Create, CreateFails, AbortLock, TbAbort, Connected,
              Join, Lock, SendEof, PollAck, EofLoopEnds, Ended, LockAgain,
              TbExit
<1>2. CASE Bind \/ ServerThread
  <2>1. CASE RecvData \/ RecvEmpty
    BY <2>1, Zenon DEF RecvData, RecvEmpty, ends
  <2>2. CASE \/ LoopTest \/ Poll \/ WouldBlock \/ RecvFails \/ PollFails
             \/ CallForExit \/ Lock("server")
    BY <2>2 DEF LoopTest, Poll, WouldBlock, RecvFails, PollFails, CallForExit,
                Lock
  <2>3. CASE Bind \/ Close \/ Ended("server")
    BY <2>3 DEF Bind, Close, Ended, LockAgain, TbExit
  <2> QED BY <1>2, <2>1, <2>2, <2>3 DEF ServerThread
<1>3. ASSUME NEW i \in Conns, SessionThread(i) PROVE LpcTypeOK'
  BY <1>3 DEF SessionThread, Send, SendLast, ends
<1>4. ASSUME NEW p \in Ends, MainThread(p) \/ SigAction(p) PROVE LpcTypeOK'
  BY <1>4 DEF MainThread, MonitorSpin, TryLock, Unlock, SigAction
<1>5. CASE Deliver \/ Lose \/ DeliverAck
  BY <1>5 DEF Deliver, Lose, DeliverAck, ends
<1>6. CASE UNCHANGED vars BY <1>6 DEF vars, ends
<1> QED BY <1>1, <1>2, <1>3, <1>4, <1>5, <1>6 DEF Next

\* at stays among the sessions, and a session's thread at one of its places.
LEMMA ClientTypeStep == ClientTypeOK /\ [Next]_vars => ClientTypeOK'
<1> SUFFICES ASSUME ClientTypeOK, [Next]_vars PROVE ClientTypeOK'
  OBVIOUS
<1> USE DEF ClientTypeOK
<1>1. CASE ClientCreates
  BY <1>1, ConnAssumption DEF ClientCreates, Create, Join, AllJoined, Conns
<1>2. ASSUME NEW i \in Conns, SessionThread(i) PROVE ClientTypeOK'
  BY <1>2 DEF SessionThread, Send, SendLast
<1>3. CASE UNCHANGED clientVars BY <1>3 DEF clientVars
<1> QED BY <1>1, <1>2, <1>3, ClientFrame

\* Datagrams are sent, queued and taken one by one.
LEMMA NetTypeStep == NetTypeOK /\ [Next]_vars => NetTypeOK'
<1> SUFFICES ASSUME NetTypeOK, [Next]_vars PROVE NetTypeOK'
  OBVIOUS
<1> USE DEF NetTypeOK
<1>0. Conns \subseteq Datagrams /\ Eof \in Datagrams
  BY DEF Datagrams
<1>1. CASE ClientThread
  <2>1. CASE SendEof
    <3>1. net' \in [Datagrams -> Nat]
      BY <1>0, <2>1 DEF SendEof
    <3> QED BY <3>1, <2>1 DEF SendEof
  <2>2. CASE PollAck
    <3>1. ack' \in {"none", "sent", "arrived", "seen", "lost"}
      BY <2>2 DEF PollAck
    <3> QED BY <3>1, <2>2 DEF PollAck
  <2>3. CASE UNCHANGED network
    BY <2>3 DEF network
  <2> QED
    BY <1>1, <2>1, <2>2, <2>3
       DEF ClientThread, Create, CreateFails, AbortLock, TbAbort, Connected,
           Join, Lock, EofLoopEnds, Ended, LockAgain, TbExit
<1>2. ASSUME NEW i \in Conns, SessionThread(i) PROVE NetTypeOK'
  BY <1>0, <1>2 DEF SessionThread, Send, SendLast, Enqueue
<1>3. CASE Bind \/ ServerThread
  <2>1. CASE RecvData \/ RecvEmpty \/ CallForExit
    <3>1. Tail(queue) \in Seq(Datagrams)
      BY <2>1 DEF RecvData, RecvEmpty, CallForExit
    <3> QED BY <2>1, <3>1 DEF RecvData, RecvEmpty, CallForExit
  <2>2. CASE Close
    <3>1. queue' = <<>> /\ UNCHANGED <<net, ack>>
      BY <2>2, Zenon DEF Close
    <3> QED BY <3>1
  <2>3. CASE Poll
    BY <2>3 DEF Poll
  <2>4. CASE UNCHANGED network
    BY <2>4 DEF network
  <2> QED
    BY <1>3, <2>1, <2>2, <2>3, <2>4
       DEF Bind, ServerThread, LoopTest, WouldBlock, RecvFails, PollFails,
           Lock, Ended, LockAgain, TbExit
<1>4. ASSUME NEW p \in Ends, MainThread(p) \/ SigAction(p) PROVE NetTypeOK'
  BY <1>4 DEF MainThread, MonitorSpin, TryLock, Unlock, SigAction, network
<1>5. CASE Deliver
  <2>1. PICK m \in Datagrams :
            /\ net[m] > 0 /\ net' = [net EXCEPT ![m] = @ - 1]
            /\ queue' = Append(queue, m) \/ queue' = queue
            /\ ack' = ack
    BY <1>5 DEF Deliver
  <2>2. net' \in [Datagrams -> Nat]
    BY <2>1
  <2>3. queue' \in Seq(Datagrams)
    BY <2>1, SMTT(30)
  <2> QED BY <2>1, <2>2, <2>3
<1>6. CASE Lose \/ DeliverAck
  BY <1>6 DEF Lose, DeliverAck
<1>7. CASE UNCHANGED vars BY <1>7 DEF vars, network
<1> QED BY <1>1, <1>2, <1>3, <1>4, <1>5, <1>6, <1>7 DEF Next

\* What is received as data is from a session.
LEMMA ServerTypeStep ==
    NetTypeOK /\ ServerTypeOK /\ [Next]_vars => ServerTypeOK'
<1> SUFFICES ASSUME NetTypeOK, ServerTypeOK, [Next]_vars PROVE ServerTypeOK'
  OBVIOUS
<1> USE DEF ServerTypeOK
<1>1. CASE RecvData
  <2>1. Head(queue) \in Conns
    BY <1>1 DEF RecvData, NetTypeOK, Datagrams
  <2> QED BY <1>1, <2>1, PartAssumption DEF RecvData, Total
<1>2. CASE UNCHANGED countVars BY <1>2 DEF countVars
<1> QED BY <1>1, <1>2, CountFrame

\* Every variable of the client's sessions, the server's and the network has
\* its type (tb_udp_m_client, tb_udp_m_client_conn, tb_udp_event).
THEOREM TypesKept == Spec => []Typed
<1>1. Typed /\ [Next]_vars => Typed'
  BY LpcStep, ClientTypeStep, NetTypeStep, ServerTypeStep DEF Typed
<1> QED BY TypedInit, <1>1, PTL DEF Spec
-----------------------------------------------------------------------------
(* One session for each id. *)

\* The session of an id is found, or appended; no other id is counted.
LEMMA SessionStep == Typed /\ OneSessionEach /\ [Next]_vars => OneSessionEach'
<1> SUFFICES ASSUME Typed, OneSessionEach, [Next]_vars PROVE OneSessionEach'
  OBVIOUS
<1> USE DEF OneSessionEach, IsInjective
<1>1. CASE RecvData
  <2> DEFINE id == Head(queue)
  <2>1. /\ id \in Conns
        /\ list' = IF Found(id) THEN list ELSE Append(list, id)
        /\ received' = [received EXCEPT ![id] = received[id] + Header]
    BY <1>1 DEF RecvData, Total, Typed, NetTypeOK, Datagrams
  <2>2. list \in Seq(Conns) /\ received \in [Conns -> Nat]
    BY DEF Typed, ServerTypeOK
  <2> HIDE DEF id
  <2>3. {i \in Conns : received'[i] > 0}
          = {i \in Conns : received[i] > 0} \cup {id}
    BY <2>1, <2>2, PartAssumption
  <2>4. CASE Found(id)
    BY <2>1, <2>3, <2>4 DEF Found
  <2>5. CASE ~Found(id)
    <3>1. list' = Append(list, id) /\ \A k \in DOMAIN list : list[k] # id
      BY <2>1, <2>5 DEF Found
    <3>2. /\ DOMAIN list = 1 .. Len(list) /\ Len(list) \in Nat
          /\ DOMAIN list' = 1 .. Len(list) + 1
          /\ \A k \in 1 .. Len(list) : list'[k] = list[k]
          /\ list'[Len(list) + 1] = id
      BY <2>1, <2>2, <3>1
    <3>3. \A j, k \in DOMAIN list' : list'[j] = list'[k] => j = k
      BY <3>1, <3>2
    <3>4. {list'[k] : k \in DOMAIN list'}
            = {list[k] : k \in DOMAIN list} \cup {id}
      BY <3>2
    <3> QED BY <2>3, <3>3, <3>4
  <2> QED BY <2>4, <2>5
<1>2. CASE UNCHANGED countVars
  BY <1>2 DEF countVars
<1> QED BY <1>1, <1>2, CountFrame

\* However the datagrams of the connections interleave, the server has one
\* session for each id it has heard of (tb_session_list_search, tb_udp_event
\* 559-570).
THEOREM OneSession == Spec => []OneSessionEach
<1>1. Init => OneSessionEach
  BY DEF Init, OneSessionEach, IsInjective
<1> QED BY TypesKept, SessionStep, <1>1, PTL DEF Spec
-----------------------------------------------------------------------------
(* The end of transmission. *)

AllDone == \A i \in Conns : spc[i] = "done"
AfterJoin == {"lock", "eof", "poll", "lock again", "exit"}

\* How far the client's listener thread is says which sessions have begun, and
\* which have ended.
OrderInv ==
    /\ lpc["client"] = "create" =>
         \A i \in Conns : i >= at => spc[i] = "none"
    /\ lpc["client"] = "connected" => at = 1
    /\ lpc["client"] = "join" =>
         \A i \in Conns : i < at => spc[i] = "done"
    /\ lpc["client"] \in AfterJoin => AllDone

\* Nothing but the client's listener thread moves that thread.
LEMMA LpcFrame ==
    LpcTypeOK /\ [Next]_vars =>
        ClientThread \/ lpc'["client"] = lpc["client"]
<1> SUFFICES ASSUME LpcTypeOK, [Next]_vars, ~ClientThread
             PROVE lpc'["client"] = lpc["client"]
  OBVIOUS
<1> USE DEF LpcTypeOK, Ends, Goes
<1>1. CASE Bind \/ ServerThread
  BY <1>1 DEF Bind, ServerThread, LoopTest, Poll, WouldBlock, RecvFails,
              PollFails, RecvData, RecvEmpty, CallForExit, Lock, Close, Ended,
              LockAgain, TbExit, ends
<1>2. ASSUME NEW i \in Conns, SessionThread(i)
      PROVE lpc'["client"] = lpc["client"]
  BY <1>2 DEF SessionThread, Send, SendLast, ends
<1>3. ASSUME NEW p \in Ends, MainThread(p) \/ SigAction(p)
      PROVE lpc'["client"] = lpc["client"]
  BY <1>3 DEF MainThread, MonitorSpin, TryLock, Unlock, SigAction
<1>4. CASE Deliver \/ Lose \/ DeliverAck
  BY <1>4 DEF Deliver, Lose, DeliverAck, ends
<1>5. CASE UNCHANGED vars BY <1>5 DEF vars, ends
<1> QED BY <1>1, <1>2, <1>3, <1>4, <1>5 DEF Next

\* A thread that has not begun takes no step, nor does one that has ended.
LEMMA OrderStep == Typed /\ OrderInv /\ [Next]_vars => OrderInv'
<1> SUFFICES ASSUME Typed, OrderInv, [Next]_vars PROVE OrderInv'
  OBVIOUS
<1>0. LpcTypeOK /\ ClientTypeOK
  BY DEF Typed
<1>a. at \in Nat /\ NumConn \in Nat /\ NumConn > 0
  BY <1>0, ConnAssumption DEF ClientTypeOK, Conns
<1>b. \A i \in Conns : i \in Nat /\ 1 <= i /\ i <= NumConn
  BY <1>a DEF Conns
<1>c. at \in Conns /\ spc \in [Conns -> {"none", "send", "last", "done"}]
  BY <1>0 DEF ClientTypeOK
<1>1. CASE Create
  <2>1. /\ lpc["client"] = "create"
        /\ lpc'["client"] = IF at = NumConn THEN "connected" ELSE "create"
    BY <1>0, <1>1 DEF Create, LpcTypeOK, Goes, Ends
  <2>2. /\ spc' = [spc EXCEPT ![at] = "send"]
        /\ at' = IF at = NumConn THEN 1 ELSE at + 1
    BY <1>1 DEF Create
  <2>3. \A i \in Conns : i >= at => spc[i] = "none"
    BY <2>1 DEF OrderInv
  <2>4. ASSUME at # NumConn, NEW i \in Conns, i >= at' PROVE spc'[i] = "none"
    BY <1>a, <1>b, <1>c, <2>2, <2>3, <2>4
  <2> QED BY <2>1, <2>2, <2>4 DEF OrderInv, AfterJoin
<1>2. CASE Connected
  <2>1. /\ lpc["client"] = "connected" /\ at' = at
        /\ lpc'["client"] = "join"
    BY <1>0, <1>2 DEF Connected, LpcTypeOK, Goes, Ends, sessions
  <2>2. at' = 1
    BY <2>1 DEF OrderInv
  <2> QED BY <1>b, <2>1, <2>2 DEF OrderInv, AfterJoin
<1>3. CASE Join
  <2>1. /\ lpc["client"] = "join"
        /\ lpc'["client"] = IF at = NumConn THEN "lock" ELSE "join"
    BY <1>0, <1>3 DEF Join, AllJoined, LpcTypeOK, Goes, Ends
  <2>2. /\ spc[at] = "done" /\ spc' = spc
        /\ at' = IF at = NumConn THEN 1 ELSE at + 1
    BY <1>3 DEF Join, AllJoined
  <2>3. \A i \in Conns : i <= at => spc'[i] = "done"
    BY <1>a, <1>b, <2>1, <2>2 DEF OrderInv
  <2>4. CASE at = NumConn
    BY <1>b, <2>1, <2>3, <2>4 DEF OrderInv, AllDone, AfterJoin
  <2>5. CASE at # NumConn
    <3>1. \A i \in Conns : i < at' => spc'[i] = "done"
      BY <1>a, <1>b, <2>2, <2>3, <2>5
    <3> QED BY <2>1, <2>5, <3>1 DEF OrderInv, AfterJoin
  <2> QED BY <2>4, <2>5
<1> USE <1>0, <1>c
        DEF OrderInv, AfterJoin, AllDone, Goes, LpcTypeOK, Ends
<1>4. CASE ClientThread /\ ~Create /\ ~Connected /\ ~Join
  <2>1. spc' = spc /\ at' = at
    BY <1>4 DEF ClientThread, CreateFails, AbortLock, TbAbort, Lock, SendEof,
                PollAck, EofLoopEnds, Ended, LockAgain, TbExit, sessions
  <2>2. /\ lpc'["client"] \notin {"create", "connected", "join"}
        /\ lpc'["client"] \in AfterJoin => lpc["client"] \in AfterJoin
    BY <1>4 DEF ClientThread, CreateFails, AbortLock, TbAbort, Lock, SendEof,
                PollAck, EofLoopEnds, Ended, LockAgain, TbExit
  <2> QED BY <2>1, <2>2
<1>5. ASSUME NEW i \in Conns, SessionThread(i) PROVE OrderInv'
  <2>1. /\ spc[i] \in {"send", "last"} /\ at' = at /\ lpc' = lpc
        /\ \A j \in Conns \ {i} : spc'[j] = spc[j]
    BY <1>5 DEF SessionThread, Send, SendLast, ends
  <2> QED BY <2>1
<1>6. CASE UNCHANGED clientVars /\ lpc'["client"] = lpc["client"]
  BY <1>6 DEF clientVars
<1> QED
  BY <1>1, <1>2, <1>3, <1>4, <1>5, <1>6, ClientFrame, LpcFrame
     DEF ClientCreates

\* The call for exit is on its way, waits at the server, or has been answered.
Called ==
    \/ net[Eof] > 0
    \/ \E k \in DOMAIN queue : queue[k] = Eof
    \/ ack # "none"

CalledInv == Called => AllDone

\* A call is made only after the joins; and a session that has ended does not
\* begin again.
LEMMA CalledStep == Typed /\ OrderInv /\ CalledInv /\ [Next]_vars => CalledInv'
<1> SUFFICES ASSUME Typed, OrderInv, CalledInv, [Next]_vars, Called'
             PROVE AllDone'
  BY DEF CalledInv
<1>0. NetTypeOK /\ LpcTypeOK /\ ClientTypeOK /\ Eof \notin Conns
  BY DEF Typed, Conns, Eof
<1>1. CASE SendEof
  BY <1>1 DEF SendEof, Goes, OrderInv, AfterJoin, AllDone, sessions
<1>2. ASSUME ~SendEof PROVE Called
  <2> SUFFICES ASSUME Next PROVE Called
    BY DEF vars, network, Called
  <2>1. CASE ClientThread
    BY <1>2, <2>1
       DEF ClientThread, Create, CreateFails, AbortLock, TbAbort, Connected,
           Join, Lock, PollAck, EofLoopEnds, Ended, LockAgain, TbExit,
           network, Called
  <2>2. ASSUME NEW i \in Conns, SessionThread(i) PROVE Called
    <3>1. net'[Eof] = net[Eof] /\ queue' = queue /\ ack' = ack
      BY <1>0, <2>2
         DEF SessionThread, Send, SendLast, Enqueue, NetTypeOK, Datagrams
    <3> QED BY <3>1 DEF Called
  <2>3. CASE Bind \/ ServerThread
    <3>1. CASE CallForExit
      BY <1>0, <3>1 DEF CallForExit, Called, NetTypeOK
    <3>2. CASE RecvData \/ RecvEmpty
      <4>1. /\ queue # <<>> /\ queue' = Tail(queue)
            /\ net' = net /\ ack' = ack
        BY <3>2 DEF RecvData, RecvEmpty
      <4>2. \A k \in DOMAIN queue' : \E j \in DOMAIN queue :
               queue'[k] = queue[j]
        BY <1>0, <4>1 DEF NetTypeOK
      <4> QED BY <4>1, <4>2 DEF Called
    <3>3. CASE Close
      <4>1. queue' = <<>> /\ UNCHANGED <<net, ack>>
        BY <3>3, Zenon DEF Close
      <4> QED BY <4>1 DEF Called
    <3>4. CASE Poll
      BY <3>4 DEF Poll, Called
    <3>5. CASE UNCHANGED network
      BY <3>5 DEF network, Called
    <3>6. CASE RecvFails \/ PollFails
      BY <3>6 DEF RecvFails, PollFails, Called
    <3> QED
      BY <2>3, <3>1, <3>2, <3>3, <3>4, <3>5, <3>6
         DEF Bind, ServerThread, LoopTest, WouldBlock, Lock, Ended, LockAgain,
             TbExit
  <2>4. ASSUME NEW p \in Ends, MainThread(p) \/ SigAction(p) PROVE Called
    BY <2>4 DEF MainThread, MonitorSpin, TryLock, Unlock, SigAction, network,
                Called
  <2>5. CASE Deliver
    <3>1. PICK m \in Datagrams :
              /\ net[m] > 0 /\ net' = [net EXCEPT ![m] = @ - 1]
              /\ queue' = Append(queue, m) \/ queue' = queue
              /\ ack' = ack
      BY <2>5 DEF Deliver
    <3>2. CASE m = Eof
      BY <3>1, <3>2 DEF Called
    <3>3. CASE m # Eof
      <4>1. net'[Eof] = net[Eof]
        BY <1>0, <3>1, <3>3 DEF NetTypeOK, Datagrams
      <4>2. (\E k \in DOMAIN queue' : queue'[k] = Eof)
              => \E k \in DOMAIN queue : queue[k] = Eof
        BY <1>0, <3>1, <3>3, SMTT(30) DEF NetTypeOK
      <4> QED BY <3>1, <4>1, <4>2 DEF Called
    <3> QED BY <3>2, <3>3
  <2>6. CASE Lose
    <3>1. queue' = queue
      BY <2>6 DEF Lose
    <3>2. CASE ack = "sent"
      BY <3>2 DEF Called
    <3>3. CASE ack # "sent"
      <4>1. PICK m \in Datagrams : net' = [net EXCEPT ![m] = @ - 1]
        BY <2>6, <3>3 DEF Lose
      <4>2. ack' = ack
        BY <2>6, <3>3 DEF Lose
      <4>3. net'[Eof] <= net[Eof] /\ net[Eof] \in Nat /\ net'[Eof] \in Int
        BY <1>0, <4>1 DEF NetTypeOK, Datagrams
      <4> QED BY <3>1, <4>2, <4>3 DEF Called
    <3> QED BY <3>2, <3>3
  <2>7. CASE DeliverAck
    BY <2>7 DEF DeliverAck, Called
  <2> QED BY <2>1, <2>2, <2>3, <2>4, <2>5, <2>6, <2>7 DEF Next
<1>3. ASSUME AllDone, ~ClientCreates PROVE AllDone'
  <2>1. \A i \in Conns : ~SessionThread(i)
    BY <1>3 DEF AllDone, SessionThread, Send, SendLast
  <2> QED BY <1>3, <2>1, ClientFrame DEF clientVars, AllDone
<1>4. ASSUME AllDone, ClientCreates PROVE AllDone'
  <2>1. ~Create
    BY <1>0, <1>4, ConnAssumption
       DEF Create, Goes, OrderInv, AllDone, ClientTypeOK, Conns
  <2> QED BY <1>4, <2>1 DEF ClientCreates, Join, AllDone
<1> QED BY <1>1, <1>2, <1>3, <1>4 DEF CalledInv

\* The server answers the call for exit only after every session of the
\* client has ended (tb_udp_m_client 264-280).
THEOREM EndNotEarly == Spec => []NoEarlyEnd
<1>1. Init => OrderInv /\ CalledInv
  <2> SUFFICES ASSUME Init PROVE OrderInv /\ CalledInv
    OBVIOUS
  <2>1. lpc["client"] = "create" /\ \A i \in Conns : spc[i] = "none"
    BY DEF Init, Ends
  <2>2. ~Called
    BY DEF Init, Called, Datagrams, Eof
  <2> QED BY <2>1, <2>2 DEF OrderInv, CalledInv, AfterJoin
<1>2. CalledInv => NoEarlyEnd
  BY DEF CalledInv, Called, AllDone, NoEarlyEnd
<1> QED BY TypesKept, OrderStep, CalledStep, <1>1, <1>2, PTL DEF Spec
-----------------------------------------------------------------------------
(* The refinement of Transfer. *)

\* After the answer, the server only goes on to its end: it answers once.
Answered ==
    ack # "none" =>
        /\ command["server"] = "EXIT"
        /\ lpc["server"] \in {"loop", "lock", "close", "lock again", "exit",
                             "done"}

AnsweredInv == Answered /\ command \in [Ends -> {"CONTINUE", "EXIT"}]

\* An order to exit is never taken back.
LEMMA CommandStep ==
    command \in [Ends -> {"CONTINUE", "EXIT"}] /\ [Next]_vars =>
        /\ command' \in [Ends -> {"CONTINUE", "EXIT"}]
        /\ command["server"] = "EXIT" => command'["server"] = "EXIT"
<1> SUFFICES ASSUME command \in [Ends -> {"CONTINUE", "EXIT"}], [Next]_vars
             PROVE  /\ command' \in [Ends -> {"CONTINUE", "EXIT"}]
                    /\ command["server"] = "EXIT"
                         => command'["server"] = "EXIT"
  OBVIOUS
<1> DEFINE Kept == command' = command
           Ordered(p) == command' = [command EXCEPT ![p] = "EXIT"]
<1>1. ClientThread => Kept \/ Ordered("client")
  BY DEF ClientThread, Create, CreateFails, AbortLock, TbAbort, Connected,
         Join, Lock, SendEof, PollAck, AckOrdersExit, EofLoopEnds, Ended,
         LockAgain, TbExit
<1>2. Bind \/ ServerThread => Kept \/ Ordered("server")
  BY DEF Bind, ServerThread, LoopTest, Poll, WouldBlock, RecvFails, PollFails,
         RecvData, RecvEmpty, CallForExit, Lock, Close, Ended, LockAgain,
         TbExit, ends
<1>3. ASSUME NEW i \in Conns, SessionThread(i) PROVE Kept
  BY <1>3 DEF SessionThread, Send, SendLast, ends
<1>4. ASSUME NEW p \in Ends, MainThread(p) \/ SigAction(p)
      PROVE Kept \/ Ordered(p)
  BY <1>4 DEF MainThread, MonitorSpin, TryLock, Unlock, SigAction
<1>5. Deliver \/ Lose \/ DeliverAck \/ UNCHANGED vars => Kept
  BY DEF Deliver, Lose, DeliverAck, ends, vars
<1>6. Kept \/ \E p \in Ends : Ordered(p)
  BY <1>1, <1>2, <1>3, <1>4, <1>5 DEF Next, Ends
<1> QED BY <1>6 DEF Ends

\* Only the server's call for exit makes the first answer.
LEMMA AckFrame ==
    [Next]_vars => \/ CallForExit
                   \/ ack' # "none" => ack # "none"
<1> SUFFICES ASSUME [Next]_vars, ~CallForExit, ack = "none"
             PROVE ack' = "none"
  OBVIOUS
<1> USE DEF network
<1>1. ClientThread => ack' = "none"
  BY DEF ClientThread, Create, CreateFails, AbortLock, TbAbort, Connected,
         Join, Lock, SendEof, PollAck, EofLoopEnds, Ended, LockAgain, TbExit
<1>2. Bind \/ ServerThread => ack' = "none"
  BY DEF Bind, ServerThread, LoopTest, Poll, WouldBlock, RecvFails, PollFails,
         RecvData, RecvEmpty, Lock, Close, Ended, LockAgain, TbExit
<1>3. ASSUME NEW i \in Conns, SessionThread(i) PROVE ack' = "none"
  BY <1>3 DEF SessionThread, Send, SendLast
<1>4. ASSUME NEW p \in Ends, MainThread(p) \/ SigAction(p)
      PROVE ack' = "none"
  BY <1>4 DEF MainThread, MonitorSpin, TryLock, Unlock, SigAction
<1>5. Deliver \/ Lose \/ DeliverAck => ack' = "none"
  BY DEF Deliver, Lose, DeliverAck
<1>6. UNCHANGED vars => ack' = "none" BY DEF vars
<1> QED BY <1>1, <1>2, <1>3, <1>4, <1>5, <1>6 DEF Next

\* Nothing but the server's listener thread moves that thread.
LEMMA ServerLpcFrame ==
    LpcTypeOK /\ [Next]_vars =>
        Bind \/ ServerThread \/ lpc'["server"] = lpc["server"]
<1> SUFFICES ASSUME LpcTypeOK, [Next]_vars, ~Bind, ~ServerThread
             PROVE lpc'["server"] = lpc["server"]
  OBVIOUS
<1> USE DEF LpcTypeOK, Ends, Goes
<1>1. CASE ClientThread
  BY <1>1 DEF ClientThread, Create, CreateFails, AbortLock, TbAbort, Connected,
              Join, Lock, SendEof, PollAck, EofLoopEnds, Ended, LockAgain,
              TbExit
<1>2. ASSUME NEW i \in Conns, SessionThread(i)
      PROVE lpc'["server"] = lpc["server"]
  BY <1>2 DEF SessionThread, Send, SendLast, ends
<1>3. ASSUME NEW p \in Ends, MainThread(p) \/ SigAction(p)
      PROVE lpc'["server"] = lpc["server"]
  BY <1>3 DEF MainThread, MonitorSpin, TryLock, Unlock, SigAction
<1>4. CASE Deliver \/ Lose \/ DeliverAck
  BY <1>4 DEF Deliver, Lose, DeliverAck, ends
<1>5. CASE UNCHANGED vars BY <1>5 DEF vars, ends
<1> QED BY <1>1, <1>2, <1>3, <1>4, <1>5 DEF Next

\* The loop test sends a server that has answered to its end.
LEMMA AnsweredStep ==
    LpcTypeOK /\ AnsweredInv /\ [Next]_vars => AnsweredInv'
<1> SUFFICES ASSUME LpcTypeOK, AnsweredInv, [Next]_vars PROVE AnsweredInv'
  OBVIOUS
<1>1. /\ command' \in [Ends -> {"CONTINUE", "EXIT"}]
      /\ command["server"] = "EXIT" => command'["server"] = "EXIT"
  BY CommandStep DEF AnsweredInv
<1>2. CASE CallForExit
  <2>1. lpc'["server"] = "loop"
    BY <1>2 DEF CallForExit, Goes, LpcTypeOK, Ends
  <2>2. command'["server"] = "EXIT"
    BY <1>2 DEF CallForExit, AnsweredInv, Ends
  <2> QED BY <1>1, <2>1, <2>2 DEF AnsweredInv, Answered
<1>3. CASE ack = "none" /\ ~CallForExit
  BY <1>1, <1>3, AckFrame DEF AnsweredInv, Answered
<1>4. CASE ack # "none" /\ ~CallForExit
  <2>1. /\ command["server"] = "EXIT"
        /\ lpc["server"] \in {"loop", "lock", "close", "lock again", "exit",
                             "done"}
    BY <1>4 DEF AnsweredInv, Answered
  <2>2. CASE Bind \/ ServerThread
    <3>1. lpc'["server"] \in {"loop", "lock", "close", "lock again", "exit",
                             "done"}
      BY <1>4, <2>1, <2>2
         DEF Bind, ServerThread, LoopTest, Poll, WouldBlock, RecvFails,
             PollFails, RecvData, RecvEmpty, Lock, Close, Ended, LockAgain,
             TbExit, LpcTypeOK, Ends, Goes
    <3> QED BY <1>1, <2>1, <3>1 DEF AnsweredInv, Answered
  <2>3. CASE lpc'["server"] = lpc["server"]
    BY <1>1, <2>1, <2>3 DEF AnsweredInv, Answered
  <2> QED BY <2>2, <2>3, ServerLpcFrame
<1> QED BY <1>2, <1>3, <1>4

Gone == {"lock again", "exit", "done"}

\* An action of the program is one of Transfer, or a step that it does not see.
LEMMA TransferStep ==
    /\ Typed /\ OrderInv /\ CalledInv /\ AnsweredInv /\ [Next]_vars
    => [T!Next]_(T!vars)
<1> SUFFICES ASSUME Typed, OrderInv, CalledInv, AnsweredInv, [Next]_vars
             PROVE [T!Next]_(T!vars)
  OBVIOUS
<1> USE DEF Typed
<1>1. CASE CallForExit
  <2>1. /\ ack = "none" /\ ack' = "sent"
        /\ lpc'["client"] = lpc["client"] /\ spc' = spc
    BY <1>1 DEF CallForExit, Goes, AnsweredInv, Answered, LpcTypeOK, Ends,
                sessions
  <2>2. {i \in Conns : spc[i] # "done"} = {}
    <3>1. Called
      BY <1>1 DEF CallForExit, Called, NetTypeOK
    <3> QED BY <3>1 DEF CalledInv, AllDone
  <2> QED BY <2>1, <2>2 DEF T!Next, T!End
<1>2. CASE EofLoopEnds \/ TbAbort
  <2>1. /\ spc' = spc /\ ack' = ack
        /\ lpc["client"] \notin Gone /\ lpc'["client"] \in Gone
    BY <1>2 DEF EofLoopEnds, TbAbort, Goes, LpcTypeOK, Ends, sessions, network,
                Gone
  <2>2. CASE ack = "seen"
    BY <2>1, <2>2 DEF T!Next, T!Leave, Gone
  <2>3. CASE ack # "seen"
    BY <2>1, <2>3 DEF T!Next, T!Fail, Gone
  <2> QED BY <2>2, <2>3
<1>3. ASSUME NEW i \in Conns, SessionThread(i) PROVE [T!Next]_(T!vars)
  <2>1. /\ spc[i] # "done" /\ ack' = ack /\ lpc' = lpc
        /\ \/ spc' = spc
           \/ spc' = [spc EXCEPT ![i] = "last"]
           \/ spc' = [spc EXCEPT ![i] = "done"]
           \/ spc' = [spc EXCEPT ![i] = "send"]
    BY <1>3 DEF SessionThread, Send, SendLast, ends
  <2>2. CASE spc' = [spc EXCEPT ![i] = "done"]
    <3>1. {j \in Conns : spc'[j] # "done"}
            = {j \in Conns : spc[j] # "done"} \ {i}
      BY <2>2 DEF ClientTypeOK
    <3> QED BY <2>1, <3>1 DEF T!Next, T!Send
  <2>3. CASE spc' # [spc EXCEPT ![i] = "done"]
    <3>1. {j \in Conns : spc'[j] # "done"} = {j \in Conns : spc[j] # "done"}
      BY <2>1, <2>3 DEF ClientTypeOK
    <3> QED BY <2>1, <3>1 DEF T!vars
  <2> QED BY <2>2, <2>3
<1>4. CASE ClientThread /\ ~EofLoopEnds /\ ~TbAbort
  <2>1. {j \in Conns : spc'[j] # "done"} = {j \in Conns : spc[j] # "done"}
    <3>1. CASE Create
      <4>1. spc[at] = "none" /\ spc' = [spc EXCEPT ![at] = "send"]
        BY <3>1, ConnAssumption
           DEF Create, Goes, OrderInv, ClientTypeOK, Conns
      <4> QED BY <4>1 DEF ClientTypeOK
    <3>2. CASE ~Create
      BY <1>4, <3>2 DEF ClientThread, CreateFails, AbortLock, Connected, Join,
          Lock, SendEof, PollAck, Ended, LockAgain, TbExit, sessions
    <3> QED BY <3>1, <3>2
  <2>2. lpc["client"] \in Gone <=> lpc'["client"] \in Gone
    BY <1>4 DEF ClientThread, Create, CreateFails, AbortLock, Connected, Join,
        AllJoined, Lock, SendEof, PollAck, Ended, LockAgain, TbExit, Goes,
        LpcTypeOK, Ends, Gone
  <2>3. \/ ack' = ack
        \/ /\ lpc["client"] \notin Gone
           /\ ack # "none" /\ ack' # "none"
    BY <1>4 DEF ClientThread, Create, CreateFails, AbortLock, Connected, Join,
        Lock, SendEof, PollAck, Ended, LockAgain, TbExit, Goes, Gone, network
  <2> QED BY <2>1, <2>2, <2>3 DEF T!vars, Gone
<1>5. CASE (Bind \/ ServerThread) /\ ~CallForExit
  <2>1. spc' = spc /\ ack' = ack
    BY <1>5 DEF Bind, ServerThread, LoopTest, Poll, WouldBlock, RecvFails,
        PollFails, RecvData, RecvEmpty, Lock, Close, Ended, LockAgain, TbExit,
        sessions, network
  <2>2. lpc'["client"] = lpc["client"]
    BY <1>5 DEF Bind, ServerThread, LoopTest, Poll, WouldBlock, RecvFails,
        PollFails, RecvData, RecvEmpty, Lock, Close, Ended, LockAgain, TbExit,
        Goes, LpcTypeOK, Ends, ends
  <2> QED BY <2>1, <2>2 DEF T!vars
<1>6. ASSUME NEW p \in Ends, MainThread(p) \/ SigAction(p)
      PROVE [T!Next]_(T!vars)
  <2>1. spc' = spc /\ ack' = ack /\ lpc' = lpc
    BY <1>6 DEF MainThread, MonitorSpin, TryLock, Unlock, SigAction, sessions,
                network
  <2> QED BY <2>1 DEF T!vars
<1>7. CASE Deliver \/ Lose \/ DeliverAck
  <2>1. spc' = spc /\ lpc' = lpc
    BY <1>7 DEF Deliver, Lose, DeliverAck, sessions, ends
  <2>2. \/ ack' = ack
        \/ ack = "sent" /\ ack' \in {"arrived", "lost"}
    BY <1>7 DEF Deliver, Lose, DeliverAck
  <2> QED BY <2>1, <2>2 DEF T!vars
<1>8. CASE UNCHANGED vars
  <2>1. spc' = spc /\ ack' = ack /\ lpc' = lpc
    BY <1>8 DEF vars, sessions, network, ends
  <2> QED BY <2>1 DEF T!vars
<1> QED BY <1>1, <1>2, <1>3, <1>4, <1>5, <1>6, <1>7, <1>8 DEF Next

\* For any number of connections the end comes in order: all sessions have
\* ended, then the server answers, and then a client that leaves by that
\* answer leaves (tb_udp_m_client 264-285, tb_udp_event 580-594).
THEOREM EndInOrder == Spec => ImplementsTransfer
<1>1. Init => OrderInv /\ CalledInv /\ AnsweredInv
  <2> SUFFICES ASSUME Init PROVE OrderInv /\ CalledInv /\ AnsweredInv
    OBVIOUS
  <2>1. lpc["client"] = "create" /\ \A i \in Conns : spc[i] = "none"
    BY DEF Init, Ends
  <2>2. ~Called
    BY DEF Init, Called, Datagrams, Eof
  <2>3. AnsweredInv
    BY DEF Init, AnsweredInv, Answered
  <2> QED BY <2>1, <2>2, <2>3 DEF OrderInv, CalledInv, AfterJoin
<1>2. Init => T!Init
  <2> SUFFICES ASSUME Init PROVE T!Init
    OBVIOUS
  <2>1. /\ lpc["client"] = "create" /\ ack = "none"
        /\ \A i \in Conns : spc[i] = "none"
    BY DEF Init, Ends
  <2> QED BY <2>1 DEF T!Init
<1>3. Typed => LpcTypeOK
  BY DEF Typed
<1> QED
  BY TypesKept, OrderStep, CalledStep, AnsweredStep, TransferStep, <1>1, <1>2,
     <1>3, PTL DEF Spec, ImplementsTransfer, T!Spec
-----------------------------------------------------------------------------
(* The count of a session. *)

\* A session counts its part, and of the headers only the last one exceeds it.
CountWithinPart == total_bytes \in [Conns -> 0 .. PartSize + Header]

\* A session that is still to send has not counted its part.
CountInv ==
    /\ CountWithinPart
    /\ \A i \in Conns : spc[i] = "none" => total_bytes[i] = 0
    /\ \A i \in Conns : spc[i] = "send" => total_bytes[i] < PartSize

\* One more datagram exceeds the part by its header at most: the payload is
\* cut to what is left.
LEMMA CountedBound ==
    ASSUME NEW i \in Conns, total_bytes[i] \in 0 .. PartSize + Header,
           total_bytes[i] < PartSize
    PROVE  Counted(i) \in 0 .. PartSize + Header
<1>1. PartSize \in Nat /\ PackSize \in Nat /\ Header \in Nat
  BY PartAssumption
<1> QED BY <1>1 DEF Counted, Length

\* Send alone counts, and goes on only below the size of the part.
LEMMA CountStep == Typed /\ OrderInv /\ CountInv /\ [Next]_vars => CountInv'
<1> SUFFICES ASSUME Typed, OrderInv, CountInv, [Next]_vars PROVE CountInv'
  OBVIOUS
<1>0. /\ at \in Conns /\ spc \in [Conns -> {"none", "send", "last", "done"}]
      /\ PartSize > 0
  BY PartAssumption DEF Typed, ClientTypeOK
<1>1. CASE Create
  <2>1. spc[at] = "none"
    BY <1>0, <1>1 DEF Create, Goes, OrderInv, Conns
  <2>2. spc' = [spc EXCEPT ![at] = "send"] /\ total_bytes' = total_bytes
    BY <1>1 DEF Create
  <2> QED BY <1>0, <2>1, <2>2 DEF CountInv, CountWithinPart
<1>2. CASE Join
  BY <1>2 DEF Join, CountInv, CountWithinPart
<1>3. ASSUME NEW i \in Conns, Send(i) PROVE CountInv'
  <2>1. CASE refused[i]
    BY <1>0, <1>3, <2>1 DEF Send, CountInv, CountWithinPart
  <2>2. CASE ~refused[i]
    <3>1. /\ spc[i] = "send"
          /\ total_bytes' = [total_bytes EXCEPT ![i] = Counted(i)]
          /\ spc' = [spc EXCEPT ![i] =
                        IF Counted(i) < PartSize THEN "send" ELSE "last"]
      BY <1>3, <2>2 DEF Send
    <3>2. Counted(i) \in 0 .. PartSize + Header
      BY <3>1, CountedBound DEF CountInv, CountWithinPart
    <3> QED BY <1>0, <3>1, <3>2 DEF CountInv, CountWithinPart
  <2> QED BY <2>1, <2>2
<1>4. ASSUME NEW i \in Conns, SendLast(i) PROVE CountInv'
  BY <1>0, <1>4 DEF SendLast, CountInv, CountWithinPart
<1>5. CASE UNCHANGED clientVars
  BY <1>5 DEF clientVars, CountInv, CountWithinPart
<1> QED
  BY <1>1, <1>2, <1>3, <1>4, <1>5, ClientFrame
     DEF ClientCreates, SessionThread

\* No session counts more than its part and one header, however the sizes of
\* parts, packs and headers relate (tb_udp_m_client_conn 380-398).
THEOREM PartBoundsCount == Spec => []CountWithinPart
<1>1. Init => OrderInv /\ CountInv
  <2> SUFFICES ASSUME Init PROVE OrderInv /\ CountInv
    OBVIOUS
  <2>1. lpc["client"] = "create" /\ \A i \in Conns : spc[i] = "none"
    BY DEF Init, Ends
  <2>2. 0 \in 0 .. PartSize + Header
    BY PartAssumption
  <2> QED BY <2>1, <2>2
          DEF Init, OrderInv, AfterJoin, CountInv, CountWithinPart
<1>2. CountInv => CountWithinPart
  BY DEF CountInv
<1> QED BY TypesKept, OrderStep, CountStep, <1>1, <1>2, PTL DEF Spec
-----------------------------------------------------------------------------
(* The datagrams, one by one. *)

accountVars == <<net, queue, received, sent, lost>>

\* What sends, receives and loses datagrams.
LEMMA AccountFrame ==
    [Next]_vars => \/ SendEof \/ \E i \in Conns : SessionThread(i)
                   \/ RecvData \/ RecvEmpty \/ CallForExit \/ Close
                   \/ Deliver \/ Lose \/ UNCHANGED accountVars
<1> SUFFICES ASSUME [Next]_vars, ~SendEof, ~RecvData, ~RecvEmpty, ~CallForExit,
                    ~Close, ~Deliver, ~Lose,
                    \A i \in Conns : ~SessionThread(i)
             PROVE UNCHANGED accountVars
  OBVIOUS
<1> USE DEF accountVars, network, faults, serverSessions
<1>1. ClientThread => UNCHANGED accountVars
  BY DEF ClientThread, Create, CreateFails, AbortLock, TbAbort, Connected,
         Join, Lock, PollAck, EofLoopEnds, Ended, LockAgain, TbExit
<1>2. Bind \/ ServerThread => UNCHANGED accountVars
  BY DEF Bind, ServerThread, LoopTest, Poll, WouldBlock, RecvFails, PollFails,
         Lock, Ended, LockAgain, TbExit
<1>3. ASSUME NEW p \in Ends, MainThread(p) \/ SigAction(p)
      PROVE UNCHANGED accountVars
  BY <1>3 DEF MainThread, MonitorSpin, TryLock, Unlock, SigAction
<1>4. DeliverAck => UNCHANGED accountVars
  BY DEF DeliverAck
<1>5. UNCHANGED vars => UNCHANGED accountVars BY DEF vars
<1> QED BY <1>1, <1>2, <1>3, <1>4, <1>5 DEF Next

\* DataIn is a count of CountLemmas.
Data == Datagrams \ {Eof}

LEMMA DataCount ==
    ASSUME NEW s \in Seq(Datagrams)
    PROVE  DataIn(s) = Cardinality(Where(s, Data))
<1>1. \A k \in DOMAIN s : s[k] \in Datagrams
  OBVIOUS
<1>2. {k \in DOMAIN s : s[k] # Eof} = Where(s, Data)
  BY <1>1 DEF Where, Data
<1> QED BY <1>2 DEF DataIn

\* The datagrams of the sessions that are on their way.
DataOnTheirWay == OnTheirWay - net[Eof]

LEMMA SumsDefined ==
    Typed => /\ IsFiniteSet(Conns) /\ IsFiniteSet(Datagrams)
             /\ net \in [Datagrams -> Nat] /\ OnTheirWay \in Nat
             /\ net[Eof] \in Nat
             /\ received \in [Conns -> Nat] /\ SumFunction(received) \in Nat
             /\ queue \in Seq(Datagrams) /\ Len(queue) \in Nat
             /\ DataIn(queue) \in Nat
<1> SUFFICES ASSUME Typed
             PROVE  /\ IsFiniteSet(Conns) /\ IsFiniteSet(Datagrams)
                    /\ OnTheirWay \in Nat /\ SumFunction(received) \in Nat
                    /\ DataIn(queue) \in Nat
  BY DEF Typed, NetTypeOK, ServerTypeOK, Datagrams
<1>1. IsFiniteSet(Conns)
  BY FS_Interval, ConnAssumption DEF Conns
<1>2. IsFiniteSet(Datagrams)
  BY <1>1, FS_AddElement DEF Datagrams
<1>3. /\ net \in [Datagrams -> Nat] /\ received \in [Conns -> Nat]
      /\ queue \in Seq(Datagrams)
  BY DEF Typed, NetTypeOK, ServerTypeOK
<1>4. /\ Summable(net) /\ \A m \in DOMAIN net : net[m] >= 0
      /\ Summable(received) /\ \A i \in DOMAIN received : received[i] >= 0
  BY <1>1, <1>2, <1>3 DEF Summable
<1>5. DataIn(queue) \in Nat
  BY <1>3, DataCount, WhereFinite
<1> QED BY <1>1, <1>2, <1>4, <1>5, SumType DEF OnTheirWay

\* A datagram that is sent, delivered or lost counts once on the network.
LEMMA OneOnTheirWay ==
    ASSUME Typed, NEW m \in Datagrams, NEW d \in Int,
           net' = [net EXCEPT ![m] = net[m] + d]
    PROVE  /\ OnTheirWay' = OnTheirWay + d
           /\ DataOnTheirWay' = DataOnTheirWay + d * One(m)
<1>1. /\ IsFiniteSet(Datagrams) /\ net \in [Datagrams -> Int]
      /\ net[m] \in Int /\ net[Eof] \in Int /\ Eof \in Datagrams
      /\ OnTheirWay \in Int
  BY SumsDefined DEF Datagrams
<1>2. \A v \in Int :
          SumFunction([net EXCEPT ![m] = v]) = SumFunction(net) + v - net[m]
  BY <1>1, SumExcept
<1>3. net[m] + d \in Int
  BY <1>1
<1>4. OnTheirWay' = OnTheirWay + d
  <2>1. SumFunction(net') = SumFunction(net) + (net[m] + d) - net[m]
    BY <1>2, <1>3
  <2> QED BY <1>1, <2>1 DEF OnTheirWay
<1>5. net'[Eof] = IF m = Eof THEN net[Eof] + d ELSE net[Eof]
  BY <1>1
<1> QED BY <1>1, <1>4, <1>5 DEF DataOnTheirWay, One

\* So does one that enters or leaves the server's queue.
LEMMA OneInQueue ==
    ASSUME Typed
    PROVE  /\ DataIn(<<>>) = 0
           /\ \A m \in Datagrams :
                 /\ Len(Append(queue, m)) = Len(queue) + 1
                 /\ DataIn(Append(queue, m)) = DataIn(queue) + One(m)
           /\ queue # <<>> =>
                 /\ Len(Tail(queue)) = Len(queue) - 1
                 /\ DataIn(queue) = DataIn(Tail(queue)) + One(Head(queue))
<1>1. \A s \in Seq(Datagrams) : DataIn(s) = Cardinality(Where(s, Data))
  BY DataCount
<1>2. \A m \in Datagrams : One(m) = IF m \in Data THEN 1 ELSE 0
  BY DEF One, Data
<1>3. queue \in Seq(Datagrams) /\ <<>> \in Seq(Datagrams)
  BY SumsDefined
<1>4. DataIn(<<>>) = 0
  BY <1>1, <1>3, CountEmpty
<1>5. ASSUME NEW m \in Datagrams
      PROVE  /\ Len(Append(queue, m)) = Len(queue) + 1
             /\ DataIn(Append(queue, m)) = DataIn(queue) + One(m)
  <2>1. /\ Append(queue, m) \in Seq(Datagrams)
        /\ Len(Append(queue, m)) = Len(queue) + 1
        /\ Cardinality(Where(Append(queue, m), Data))
             = Cardinality(Where(queue, Data)) + (IF m \in Data THEN 1 ELSE 0)
    BY <1>3, CountAppend
  <2> QED BY <1>1, <1>2, <1>3, <2>1
<1>6. ASSUME queue # <<>>
      PROVE  /\ Len(Tail(queue)) = Len(queue) - 1
             /\ DataIn(queue) = DataIn(Tail(queue)) + One(Head(queue))
  <2>1. /\ Tail(queue) \in Seq(Datagrams) /\ Head(queue) \in Datagrams
        /\ Len(Tail(queue)) = Len(queue) - 1
        /\ Cardinality(Where(queue, Data))
             = Cardinality(Where(Tail(queue), Data))
                 + (IF Head(queue) \in Data THEN 1 ELSE 0)
    BY <1>3, <1>6, CountTail
  <2> QED BY <1>1, <1>2, <1>3, <2>1
<1> QED BY <1>4, <1>5, <1>6
-----------------------------------------------------------------------------
(* The other types. *)

Statuses == {"CREATED", "LISTENING", "CONNECTED", "DISCONNECTED"} \cup Ending

EndsTypeOK ==
    /\ status \in [Ends -> Statuses] /\ sock_d \in [Ends -> {"fd", "none"}]
    /\ stat_lock \in [Ends -> BOOLEAN] /\ last_round \in [Ends -> BOOLEAN]
    /\ mpc \in [Ends -> {"spin", "test", "unlock", "done"}]

FlagsTypeOK ==
    refused \in [Conns -> BOOLEAN] /\ sz \in BOOLEAN /\ ready \in BOOLEAN

CountsTypeOK == sent \in Nat /\ lost \in Nat /\ losses \in 0 .. Losses

OthersTyped == EndsTypeOK /\ FlagsTypeOK /\ CountsTypeOK

\* The fields of the two listeners, and the places of the main threads.
LEMMA EndsTypeStep == EndsTypeOK /\ [Next]_vars => EndsTypeOK'
<1> SUFFICES ASSUME EndsTypeOK, [Next]_vars PROVE EndsTypeOK'
  OBVIOUS
<1> USE DEF EndsTypeOK, Statuses, Ending, Ends
<1>1. CASE ClientThread
  BY <1>1 DEF ClientThread, Create, CreateFails, AbortLock, TbAbort, Connected,
              Join, Lock, SendEof, PollAck, EofLoopEnds, Ended, LockAgain,
              TbExit
<1>2. CASE Bind \/ ServerThread
  <2>1. CASE RecvData \/ RecvEmpty
    BY <2>1, Zenon DEF RecvData, RecvEmpty, ends
  <2>2. CASE \/ LoopTest \/ Poll \/ WouldBlock \/ RecvFails \/ PollFails
             \/ CallForExit \/ Lock("server")
    BY <2>2 DEF LoopTest, Poll, WouldBlock, RecvFails, PollFails, CallForExit,
                Lock
  <2>3. CASE Bind \/ Close \/ Ended("server")
    BY <2>3 DEF Bind, Close, Ended, LockAgain, TbExit
  <2> QED BY <1>2, <2>1, <2>2, <2>3 DEF ServerThread
<1>3. ASSUME NEW i \in Conns, SessionThread(i) PROVE EndsTypeOK'
  BY <1>3 DEF SessionThread, Send, SendLast, ends
<1>4. ASSUME NEW p \in Ends, MainThread(p) \/ SigAction(p) PROVE EndsTypeOK'
  <2>1. CASE MonitorSpin(p) \/ SigAction(p)
    BY <2>1 DEF MonitorSpin, SigAction
  <2>2. CASE TryLock(p)
    BY <2>2 DEF TryLock
  <2>3. CASE Unlock(p)
    BY <2>3 DEF Unlock, Unlocked
  <2> QED BY <1>4, <2>1, <2>2, <2>3 DEF MainThread
<1>5. CASE Deliver \/ Lose \/ DeliverAck
  BY <1>5 DEF Deliver, Lose, DeliverAck, ends
<1>6. CASE UNCHANGED vars BY <1>6 DEF vars, ends
<1> QED BY <1>1, <1>2, <1>3, <1>4, <1>5, <1>6 DEF Next

\* A refusal, whether a datagram is ready, and whether one has been counted.
LEMMA FlagsTypeStep == FlagsTypeOK /\ [Next]_vars => FlagsTypeOK'
<1> SUFFICES ASSUME FlagsTypeOK, [Next]_vars PROVE FlagsTypeOK'
  OBVIOUS
<1> USE DEF FlagsTypeOK, sessions, serverSessions, network
<1>1. CASE ClientThread
  BY <1>1 DEF ClientThread, Create, CreateFails, AbortLock, TbAbort, Connected,
              Join, Lock, SendEof, PollAck, EofLoopEnds, Ended, LockAgain,
              TbExit
<1>2. CASE Bind \/ ServerThread
  BY <1>2, Zenon
     DEF Bind, ServerThread, LoopTest, Poll, SzReset, WouldBlock, RecvFails,
         PollFails, RecvData, RecvEmpty, CallForExit, Lock, Close, Ended,
         LockAgain, TbExit
<1>3. ASSUME NEW i \in Conns, SessionThread(i) PROVE FlagsTypeOK'
  BY <1>3 DEF SessionThread, Send, SendLast
<1>4. ASSUME NEW p \in Ends, MainThread(p) \/ SigAction(p) PROVE FlagsTypeOK'
  BY <1>4 DEF MainThread, MonitorSpin, TryLock, Unlock, SigAction
<1>5. CASE Deliver
  <2>1. /\ sz' = sz /\ ready' \in {ready, TRUE}
        /\ \/ refused' = refused
           \/ \E m \in Datagrams : refused' = [refused EXCEPT ![m] = TRUE]
    BY <1>5 DEF Deliver
  <2> QED BY <2>1
<1>6. CASE Lose \/ DeliverAck
  BY <1>6 DEF Lose, DeliverAck
<1>7. CASE UNCHANGED vars BY <1>7 DEF vars
<1> QED BY <1>1, <1>2, <1>3, <1>4, <1>5, <1>6, <1>7 DEF Next

\* One datagram is sent or lost at a time, or what the server's queue holds.
LEMMA CountsTypeStep ==
    Typed /\ CountsTypeOK /\ [Next]_vars => CountsTypeOK'
<1> SUFFICES ASSUME Typed, CountsTypeOK, [Next]_vars PROVE CountsTypeOK'
  OBVIOUS
<1> USE DEF CountsTypeOK, network, faults
<1>0. DataIn(queue) \in Nat /\ \A m \in Datagrams : One(m) \in Nat
  BY SumsDefined DEF One
<1>1. CASE ClientThread
  BY <1>1 DEF ClientThread, Create, CreateFails, AbortLock, TbAbort, Connected,
              Join, Lock, SendEof, PollAck, EofLoopEnds, Ended, LockAgain,
              TbExit
<1>2. CASE Bind \/ ServerThread
  <2>1. CASE Close
    <3>1. lost' = lost + DataIn(queue) /\ UNCHANGED <<sent, losses>>
      BY <2>1, Zenon DEF Close
    <3> QED BY <1>0, <3>1
  <2>2. CASE RecvFails \/ PollFails
    BY <2>2, NetAssumption DEF RecvFails, PollFails
  <2> QED
    BY <1>2, <2>1, <2>2
       DEF Bind, ServerThread, LoopTest, Poll, WouldBlock, RecvData, RecvEmpty,
           CallForExit, Lock, Ended, LockAgain, TbExit
<1>3. ASSUME NEW i \in Conns, SessionThread(i) PROVE CountsTypeOK'
  BY <1>3 DEF SessionThread, Send, SendLast, Enqueue
<1>4. ASSUME NEW p \in Ends, MainThread(p) \/ SigAction(p) PROVE CountsTypeOK'
  BY <1>4 DEF MainThread, MonitorSpin, TryLock, Unlock, SigAction
<1>5. CASE Deliver
  BY <1>0, <1>5 DEF Deliver
<1>6. CASE Lose
  BY <1>0, <1>6, NetAssumption DEF Lose
<1>7. CASE DeliverAck \/ UNCHANGED vars
  BY <1>7 DEF DeliverAck, vars
<1> QED BY <1>1, <1>2, <1>3, <1>4, <1>5, <1>6, <1>7 DEF Next

LEMMA OthersStep == Typed /\ OthersTyped /\ [Next]_vars => OthersTyped'
BY EndsTypeStep, FlagsTypeStep, CountsTypeStep DEF OthersTyped

LEMMA OthersInit == Init => OthersTyped
<1> SUFFICES ASSUME Init PROVE OthersTyped
  OBVIOUS
<1>1. EndsTypeOK
  BY DEF Init, EndsTypeOK, Statuses
<1>2. FlagsTypeOK
  BY Zenon DEF Init, FlagsTypeOK
<1>3. CountsTypeOK
  BY NetAssumption DEF Init, CountsTypeOK
<1> QED BY <1>1, <1>2, <1>3 DEF OthersTyped
-----------------------------------------------------------------------------
(* Every datagram is accounted for. *)

\* What a step can do to the datagrams.
Sends(m) ==
    /\ Room /\ net' = [net EXCEPT ![m] = net[m] + 1] /\ sent' = sent + One(m)
    /\ UNCHANGED <<queue, received, lost>>
Leaves(m) ==
    /\ net[m] > 0 /\ net' = [net EXCEPT ![m] = net[m] + (-1)]
    /\ \/ /\ queue' = Append(queue, m) /\ Len(queue) < Buffer
          /\ UNCHANGED lost
       \/ lost' = lost + One(m) /\ UNCHANGED queue
    /\ UNCHANGED <<received, sent>>
TakesEmpty ==
    /\ queue # <<>> /\ Head(queue) = Eof /\ queue' = Tail(queue)
    /\ UNCHANGED <<net, received, sent, lost>>
Discards ==
    /\ queue' = <<>> /\ lost' = lost + DataIn(queue)
    /\ UNCHANGED <<net, received, sent>>

LEMMA Effects ==
    Typed /\ CountsTypeOK /\ [Next]_vars =>
        \/ \E m \in Datagrams : Sends(m) \/ Leaves(m)
        \/ RecvData \/ TakesEmpty \/ Discards \/ UNCHANGED accountVars
<1> SUFFICES ASSUME Typed, CountsTypeOK, [Next]_vars
             PROVE  \/ \E m \in Datagrams : Sends(m) \/ Leaves(m)
                    \/ RecvData \/ TakesEmpty \/ Discards
                    \/ UNCHANGED accountVars
  OBVIOUS
<1> USE DEF network, faults, serverSessions, accountVars
<1>0. /\ Conns \subseteq Datagrams /\ Eof \in Datagrams
      /\ \A i \in Conns : One(i) = 1
      /\ One(Eof) = 0 /\ sent + 0 = sent /\ lost \in Nat
      /\ net \in [Datagrams -> Nat]
  BY SumsDefined DEF Datagrams, Conns, Eof, One, CountsTypeOK
<1>1. CASE SendEof
  <2>1. CASE Room
    BY <1>0, <1>1, <2>1 DEF SendEof, Sends
  <2>2. CASE ~Room
    BY <1>1, <2>2 DEF SendEof
  <2> QED BY <2>1, <2>2
<1>2. ASSUME NEW i \in Conns, SessionThread(i)
      PROVE  Sends(i) \/ UNCHANGED accountVars
  BY <1>0, <1>2 DEF SessionThread, Send, SendLast, Enqueue, Sends
<1>3. RecvEmpty \/ CallForExit => TakesEmpty
  BY DEF RecvEmpty, CallForExit, TakesEmpty
<1>4. Close => Discards
  BY DEF Close, Discards
<1>5. CASE Deliver
  <2>1. PICK m \in Datagrams :
            /\ net[m] > 0 /\ net' = [net EXCEPT ![m] = net[m] - 1]
            /\ \/ queue' = Append(queue, m) /\ Len(queue) < Buffer
                                           /\ lost' = lost
               \/ queue' = queue /\ lost' = lost + One(m)
            /\ UNCHANGED <<received, sent>>
    BY <1>5 DEF Deliver
  <2>2. Leaves(m)
    BY <1>0, <2>1 DEF Leaves
  <2> QED BY <2>2
<1>6. CASE Lose
  <2>1. CASE UNCHANGED <<net, lost>>
    BY <1>6, <2>1 DEF Lose
  <2>2. CASE \E m \in Datagrams :
               /\ net[m] > 0 /\ net' = [net EXCEPT ![m] = net[m] - 1]
               /\ lost' = lost + One(m)
    <3>1. UNCHANGED <<queue, received, sent>>
      BY <1>6 DEF Lose
    <3> QED BY <1>0, <2>2, <3>1 DEF Leaves
  <2> QED BY <1>6, <2>1, <2>2 DEF Lose
<1> QED BY <1>1, <1>2, <1>3, <1>4, <1>5, <1>6, <1>0, AccountFrame

\* Nothing is on its way, or has been received, at first.
LEMMA NothingSent == Init => OnTheirWay = 0 /\ SumFunction(received) = 0
<1> SUFFICES ASSUME Init PROVE OnTheirWay = 0 /\ SumFunction(received) = 0
  OBVIOUS
<1>1. IsFiniteSet(Conns) /\ IsFiniteSet(Datagrams)
  BY TypedInit, SumsDefined
<1>2. /\ net = [m \in Datagrams |-> 0] /\ received = [i \in Conns |-> 0]
      /\ Cardinality(Conns) \in Nat /\ Cardinality(Datagrams) \in Nat
  BY <1>1, FS_CardinalityType DEF Init
<1>3. /\ Summable(net) /\ DOMAIN net = Datagrams
      /\ Summable(received) /\ DOMAIN received = Conns
      /\ \A m \in DOMAIN net : net[m] = 0
      /\ \A i \in DOMAIN received : received[i] = 0
  BY <1>1, <1>2 DEF Summable
<1>4. SumFunction(net) = 0 * Cardinality(Datagrams)
  BY <1>3, SumConstant
<1>5. SumFunction(received) = 0 * Cardinality(Conns)
  BY <1>3, SumConstant
<1> QED BY <1>2, <1>4, <1>5 DEF OnTheirWay

\* Nothing is sent without room, and a full queue takes nothing.
BufferInv == OnTheirWay <= Buffer /\ Len(queue) <= Buffer

LEMMA BufferStep ==
    Typed /\ CountsTypeOK /\ BufferInv /\ [Next]_vars => BufferInv'
<1> SUFFICES ASSUME Typed, CountsTypeOK, BufferInv, [Next]_vars
             PROVE BufferInv'
  OBVIOUS
<1>0. /\ OnTheirWay \in Nat /\ Len(queue) \in Nat /\ Buffer \in Nat
      /\ OnTheirWay <= Buffer /\ Len(queue) <= Buffer
  BY SumsDefined, NetAssumption DEF BufferInv
<1>1. ASSUME NEW m \in Datagrams, Sends(m) PROVE BufferInv'
  <2>1. OnTheirWay' = OnTheirWay + 1 /\ OnTheirWay < Buffer
    <3>1. net' = [net EXCEPT ![m] = net[m] + 1] /\ 1 \in Int
      BY <1>1 DEF Sends
    <3> QED BY <1>1, <3>1, OneOnTheirWay DEF Sends, Room
  <2> QED BY <1>0, <1>1, <2>1 DEF Sends, BufferInv
<1>2. ASSUME NEW m \in Datagrams, Leaves(m) PROVE BufferInv'
  <2>1. OnTheirWay' = OnTheirWay + (-1)
    <3>1. net' = [net EXCEPT ![m] = net[m] + (-1)] /\ -1 \in Int
      BY <1>2 DEF Leaves
    <3> QED BY <3>1, OneOnTheirWay
  <2>2. Len(queue') <= Buffer
    BY <1>0, <1>2, OneInQueue DEF Leaves
  <2> QED BY <1>0, <2>1, <2>2 DEF BufferInv
<1>3. CASE RecvData \/ TakesEmpty \/ Discards
  <2>1. net' = net /\ Len(queue') <= Buffer
    <3>1. CASE RecvData \/ TakesEmpty
      BY <1>0, <3>1, OneInQueue DEF RecvData, TakesEmpty
    <3>2. CASE Discards
      <4>1. queue' = <<>> /\ Len(<<>>) = 0 /\ net' = net
        BY <3>2 DEF Discards
      <4> QED BY <1>0, <4>1
    <3> QED BY <1>3, <3>1, <3>2
  <2> QED BY <1>0, <2>1 DEF BufferInv, OnTheirWay
<1>4. CASE UNCHANGED accountVars
  BY <1>4 DEF accountVars, BufferInv, OnTheirWay
<1> QED BY <1>1, <1>2, <1>3, <1>4, Effects

\* How many of the sessions' datagrams the server has taken.
Taken == sent - lost - DataOnTheirWay - DataIn(queue)

LEMMA TakenDefined ==
    Typed /\ CountsTypeOK =>
        /\ sent \in Nat /\ lost \in Nat /\ DataOnTheirWay \in Int
        /\ DataIn(queue) \in Nat /\ Taken \in Int
        /\ SumFunction(received) \in Nat /\ Header \in Nat
        /\ \A m \in Datagrams : One(m) \in {0, 1}
<1> SUFFICES ASSUME Typed, CountsTypeOK
             PROVE  /\ sent \in Nat /\ lost \in Nat /\ DataOnTheirWay \in Int
                    /\ DataIn(queue) \in Nat /\ Taken \in Int
                    /\ SumFunction(received) \in Nat /\ Header \in Nat
                    /\ \A m \in Datagrams : One(m) \in {0, 1}
  OBVIOUS
<1>1. /\ OnTheirWay \in Nat /\ net[Eof] \in Nat /\ DataIn(queue) \in Nat
      /\ SumFunction(received) \in Nat
  BY SumsDefined
<1>2. sent \in Nat /\ lost \in Nat
  BY DEF CountsTypeOK
<1>3. DataOnTheirWay \in Int
  BY <1>1 DEF DataOnTheirWay
<1>4. Taken \in Int
  BY <1>1, <1>2, <1>3 DEF Taken
<1> QED BY <1>1, <1>2, <1>3, <1>4, PartAssumption DEF One

\* Each of them has added one header to its session, and only these.
LEMMA AccountStep ==
    Typed /\ CountsTypeOK /\ AllCounted /\ [Next]_vars => AllCounted'
<1> SUFFICES ASSUME Typed, CountsTypeOK, AllCounted, [Next]_vars
             PROVE AllCounted'
  OBVIOUS
<1>0. AllCounted <=> SumFunction(received) = Header * Taken
  BY DEF AllCounted, Taken, DataOnTheirWay
<1>a. AllCounted' <=> SumFunction(received') = Header * Taken'
  BY DEF AllCounted, Taken, DataOnTheirWay
<1>b. /\ sent \in Nat /\ lost \in Nat /\ DataOnTheirWay \in Int
      /\ DataIn(queue) \in Nat /\ Taken \in Int
      /\ SumFunction(received) \in Nat /\ Header \in Nat
      /\ \A m \in Datagrams : One(m) \in {0, 1}
  BY TakenDefined
<1>c. ASSUME received' = received, Taken' = Taken PROVE AllCounted'
  BY <1>0, <1>a, <1>c
<1>1. ASSUME NEW m \in Datagrams, Sends(m) PROVE AllCounted'
  <2>1. DataOnTheirWay' = DataOnTheirWay + 1 * One(m)
    <3>1. net' = [net EXCEPT ![m] = net[m] + 1] /\ 1 \in Int
      BY <1>1 DEF Sends
    <3> QED BY <3>1, OneOnTheirWay
  <2>2. /\ sent' = sent + One(m) /\ lost' = lost /\ received' = received
        /\ DataIn(queue') = DataIn(queue)
    BY <1>1 DEF Sends
  <2> QED BY <1>b, <1>c, <2>1, <2>2 DEF Taken
<1>2. ASSUME NEW m \in Datagrams, Leaves(m) PROVE AllCounted'
  <2>1. DataOnTheirWay' = DataOnTheirWay + (-1) * One(m)
    <3>1. net' = [net EXCEPT ![m] = net[m] + (-1)] /\ -1 \in Int
      BY <1>2 DEF Leaves
    <3> QED BY <3>1, OneOnTheirWay
  <2>2. /\ sent' = sent /\ received' = received
        /\ DataIn(queue') + lost' = DataIn(queue) + lost + One(m)
        /\ DataIn(queue') \in Int /\ lost' \in Int
    <3>1. CASE queue' = Append(queue, m) /\ lost' = lost
      <4>1. DataIn(queue') = DataIn(queue) + One(m)
        BY <3>1, OneInQueue
      <4> QED BY <1>2, <1>b, <3>1, <4>1 DEF Leaves
    <3>2. CASE queue' = queue /\ lost' = lost + One(m)
      BY <1>2, <1>b, <3>2 DEF Leaves
    <3> QED BY <1>2, <3>1, <3>2 DEF Leaves
  <2> QED BY <1>b, <1>c, <2>1, <2>2 DEF Taken
<1>3. CASE RecvData
  <2> DEFINE id == Head(queue)
  <2>1. /\ queue # <<>> /\ id # Eof /\ queue' = Tail(queue)
        /\ received' = [received EXCEPT ![id] = received[id] + Header]
        /\ UNCHANGED <<net, sent, lost>>
    BY <1>3 DEF RecvData, Total, faults
  <2>2. id \in Conns /\ received \in [Conns -> Nat] /\ IsFiniteSet(Conns)
    BY <2>1, SumsDefined DEF Datagrams
  <2>3. Taken' = Taken + 1
    <3>1. DataIn(queue) = DataIn(queue') + 1 /\ DataIn(queue') \in Int
      <4>1. Tail(queue) \in Seq(Datagrams) /\ One(id) = 1
        BY <2>1, <2>2, SumsDefined DEF One
      <4>2. DataIn(Tail(queue)) \in Nat
        BY <4>1, DataCount, WhereFinite
      <4> QED BY <2>1, <4>1, <4>2, OneInQueue
    <3> QED BY <1>b, <2>1, <3>1 DEF Taken, DataOnTheirWay, OnTheirWay
  <2>4. SumFunction(received') = SumFunction(received) + Header
    <3> HIDE DEF id
    <3>1. received \in [Conns -> Int] /\ received[id] \in Int
      BY <2>2
    <3>2. \A v \in Int : SumFunction([received EXCEPT ![id] = v])
                            = SumFunction(received) + v - received[id]
      BY <2>2, <3>1, SumExcept
    <3>3. SumFunction(received')
            = SumFunction(received) + (received[id] + Header) - received[id]
      <4>1. received[id] + Header \in Int
        BY <1>b, <3>1
      <4> QED BY <2>1, <3>2, <4>1
    <3> QED BY <1>b, <3>1, <3>3
  <2>5. \A k \in Int : Header * (k + 1) = Header * k + Header
    BY <1>b
  <2> QED BY <1>0, <1>a, <1>b, <2>3, <2>4, <2>5
<1>4. CASE TakesEmpty
  <2>1. /\ DataIn(queue) = DataIn(queue')
        /\ UNCHANGED <<net, sent, lost, received>>
    <3>1. DataIn(queue) = DataIn(Tail(queue)) + 0
      BY <1>4, OneInQueue DEF TakesEmpty, One
    <3>2. Tail(queue) \in Seq(Datagrams)
      BY <1>4, SumsDefined DEF TakesEmpty
    <3>3. DataIn(Tail(queue)) \in Nat
      BY <3>2, DataCount, WhereFinite
    <3> QED BY <1>4, <3>1, <3>3 DEF TakesEmpty
  <2> QED BY <1>c, <2>1 DEF Taken, DataOnTheirWay, OnTheirWay
<1>5. CASE Discards
  <2>1. /\ DataIn(queue') = 0 /\ lost' = lost + DataIn(queue)
        /\ UNCHANGED <<net, sent, received>>
    BY <1>5, OneInQueue DEF Discards
  <2> QED BY <1>b, <1>c, <2>1 DEF Taken, DataOnTheirWay, OnTheirWay
<1>6. CASE UNCHANGED accountVars
  BY <1>6, <1>c DEF accountVars, Taken, DataOnTheirWay, OnTheirWay
<1> QED BY <1>1, <1>2, <1>3, <1>4, <1>5, <1>6, Effects

\* No session's count exceeds its part and a header, neither buffer its size,
\* and every variable keeps to the values the code gives it, for any number of
\* connections, any sizes and any losses (tb_udp_m_client_conn 358-405,
\* tb_udp_event 515-596).
THEOREM TypeCorrect == Spec => []TypeOK
<1>1. Init => BufferInv /\ CountInv /\ OrderInv /\ AnsweredInv
  <2> SUFFICES ASSUME Init
               PROVE  BufferInv /\ CountInv /\ OrderInv /\ AnsweredInv
    OBVIOUS
  <2>1. lpc["client"] = "create" /\ \A i \in Conns : spc[i] = "none"
    BY DEF Init, Ends
  <2>2. 0 \in 0 .. PartSize + Header
    BY PartAssumption
  <2>3. AnsweredInv
    BY DEF Init, AnsweredInv, Answered
  <2>4. OnTheirWay = 0
    BY NothingSent
  <2>5. BufferInv
    BY <2>4, NetAssumption DEF Init, BufferInv
  <2> QED BY <2>1, <2>2, <2>3, <2>5
          DEF Init, OrderInv, AfterJoin, CountInv, CountWithinPart
<1>2. Typed /\ OthersTyped /\ BufferInv /\ CountInv /\ AnsweredInv => TypeOK
  BY DEF Typed, OthersTyped, LpcTypeOK, ClientTypeOK, NetTypeOK, ServerTypeOK,
         EndsTypeOK, Statuses, FlagsTypeOK, CountsTypeOK, BufferInv, CountInv,
         CountWithinPart, AnsweredInv, TypeOK
<1>3. Typed => LpcTypeOK
  BY DEF Typed
<1>4. OthersTyped => CountsTypeOK
  BY DEF OthersTyped
<1> QED
  BY TypesKept, OthersInit, OthersStep, BufferStep, CountStep, OrderStep,
     AnsweredStep, <1>1, <1>2, <1>3, <1>4, PTL DEF Spec

\* The sessions' totals at the server, with one header for each datagram,
\* account for all that was sent and not lost, wherever it is, however many
\* connections share the socket and however the network reorders
\* (tb_udp_event 557-579).
THEOREM NothingUncounted == Spec => []AllCounted
<1>1. Init => AllCounted
  <2> SUFFICES ASSUME Init PROVE AllCounted
    OBVIOUS
  <2>1. OnTheirWay = 0 /\ SumFunction(received) = 0
    BY NothingSent
  <2>2. DataIn(queue) = 0 /\ sent = 0 /\ lost = 0 /\ net[Eof] = 0
    BY TypedInit, OneInQueue DEF Init, Datagrams
  <2>3. Header * 0 = 0
    BY PartAssumption
  <2> QED BY <2>1, <2>2, <2>3 DEF AllCounted
<1>2. OthersTyped => CountsTypeOK
  BY DEF OthersTyped
<1> QED
  BY TypesKept, OthersInit, OthersStep, AccountStep, <1>1, <1>2, PTL DEF Spec
=============================================================================
