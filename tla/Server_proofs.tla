---------------------------- MODULE Server_proofs ----------------------------
(***************************************************************************)
(* What holds of the single-connection servers for any transport, any      *)
(* number of connections and bytes, with or without signals: that a        *)
(* session lives as long as its connection, and that a transfer nobody     *)
(* interrupts receives all that was sent.                                  *)
(***************************************************************************)
EXTENDS Server, CountLemmas

(* The teardown. *)

FreeStep == IF transport = "udt" THEN 4 ELSE 3
LastStep == IF transport = "udt" THEN 5 ELSE 6

LEMMA StepNames ==
    ASSUME NEW k \in 1 .. LastStep
    PROVE  /\ TearDown[k] = "status" <=> k = 1
           /\ TearDown[k] = "free" <=> k = FreeStep
           /\ TearDown[k] = "command" <=> k = LastStep
<1>1. CASE transport = "udt"
  <2>1. /\ TearDown = <<"status", "forget", "close", "free", "command">>
        /\ FreeStep = 4 /\ LastStep = 5
    BY <1>1 DEF TearDown, FreeStep, LastStep
  <2>2. k = 1 \/ k = 2 \/ k = 3 \/ k = 4 \/ k = 5
    BY <2>1
  <2> QED BY <2>1, <2>2
<1>2. CASE transport # "udt"
  <2>1. /\ TearDown = <<"status", "close", "free", "forget", "close again",
                        "command">>
        /\ FreeStep = 3 /\ LastStep = 6
    BY <1>2 DEF TearDown, FreeStep, LastStep
  <2>2. k \in 1 .. 6
    BY <2>1
  <2>3. k = 1 \/ k = 2 \/ k = 3 \/ k = 4 \/ k = 5 \/ k = 6
    BY <2>2
  <2>4. /\ TearDown[1] = "status" /\ TearDown[2] = "close"
        /\ TearDown[3] = "free" /\ TearDown[4] = "forget"
        /\ TearDown[5] = "close again" /\ TearDown[6] = "command"
    BY <2>1
  <2> QED BY <2>1, <2>3, <2>4
<1> QED BY <1>1, <1>2

\* The steps are taken one by one, and after the last one the loop goes on.
StepInv == IF lpc = "down" THEN step \in 1 .. LastStep ELSE step = 1

LEMMA TearDownStep ==
    ASSUME StepInv, NEW s, AtStep(s), NextStep
    PROVE  /\ lpc = "down" /\ step \in 1 .. LastStep /\ TearDown[step] = s
           /\ s = "status" <=> step = 1
           /\ s = "free" <=> step = FreeStep
           /\ s = "command" => lpc' = "test" /\ step' = 1
           /\ s # "command" => /\ lpc' = "down" /\ step' = step + 1
                               /\ step' \in 1 .. LastStep
<1>1. lpc = "down" /\ step \in 1 .. LastStep /\ TearDown[step] = s
  BY DEF AtStep, StepInv
<1>2. LastStep \in Nat
  BY DEF LastStep
<1>3. /\ s = "status" <=> step = 1
      /\ s = "free" <=> step = FreeStep
      /\ s = "command" <=> step = LastStep
  BY <1>1, StepNames
<1>4. s # "command" => step' \in 1 .. LastStep
  BY <1>1, <1>2, <1>3 DEF NextStep
<1> QED BY <1>1, <1>3, <1>4 DEF NextStep

\* The listener thread's steps after a transfer.
TearsDown ==
    /\ UNCHANGED transport
    /\ \/ Disconnected \/ CloseSession \/ CloseAgain \/ DestroySession
       \/ ForgetSession \/ SetCommand

Serves ==
    /\ UNCHANGED transport
    /\ \/ Listen \/ ListenFails \/ LoopTest \/ Accept \/ AcceptError
       \/ AssignSession \/ Connected
       \/ RecvTest \/ Recv \/ RecvAgain \/ RecvEnd \/ RecvError
       \/ CloseListener \/ TbExit \/ AbortClose \/ TbAbort \/ LogAndEnd

Monitors == UNCHANGED transport /\ MainThread

Outside ==
    /\ UNCHANGED transport
    /\ \/ Connect \/ ClientSend \/ ClientClose \/ ClientFails \/ DatagramLost
       \/ SigAction

\* A server keeps the transport that it was started with.
LEMMA TransportFrame == [Next]_vars => transport' = transport
BY DEF Next, vars, ListenerThread, Listen, ListenFails, LoopTest, Accept,
       AcceptError, AssignSession, Connected, RecvTest, Recv, RecvAgain,
       RecvEnd, RecvError, Disconnected, CloseSession, CloseAgain,
       DestroySession, ForgetSession, SetCommand, CloseListener, TbExit,
       AbortClose, TbAbort, LogAndEnd, MainThread, MonitorSpin, MonitorTest,
       CheckConnected, LoadSession, CollectStats, DestroyListener, Connect,
       ClientSend, ClientClose, ClientFails, DatagramLost, SigAction

LEMMA Steps == [Next]_vars => \/ Serves \/ TearsDown \/ Monitors \/ Outside
                              \/ UNCHANGED vars
BY TransportFrame
   DEF Next, ListenerThread, Serves, TearsDown, Monitors, Outside

LEMMA MainFrame ==
    Monitors =>
        UNCHANGED <<transport, shared, lpc, n, step, heap, received, netVars>>
BY DEF Monitors, MainThread, MonitorSpin, MonitorTest, CheckConnected,
       LoadSession, CollectStats, DestroyListener

LEMMA OutsideFrame ==
    Outside =>
        /\ UNCHANGED <<transport, status, sock_d, total_tx_rx, curr_session,
                       lpc, n, step, heap, received, mainVars>>
        /\ command' \in {command, "EXIT"}
BY DEF Outside, Connect, ClientSend, ClientClose, ClientFails, DatagramLost,
       SigAction, shared

LEMMA StepStep == StepInv /\ [Next]_vars => StepInv'
<1> SUFFICES ASSUME StepInv, [Next]_vars PROVE StepInv'
  OBVIOUS
<1>0. LastStep \in Nat /\ LastStep >= 1 /\ LastStep' = LastStep
  BY TransportFrame DEF LastStep
<1>1. CASE Serves
  <2>1. step' = step /\ step = 1
    BY <1>1
       DEF StepInv, Serves, Listen, ListenFails, LoopTest, Accept, AcceptError,
           AssignSession, Connected, RecvTest, Recv, RecvAgain, RecvEnd,
           RecvError, CloseListener, TbExit, AbortClose, TbAbort, LogAndEnd
  <2> QED BY <1>0, <2>1 DEF StepInv
<1>2. CASE TearsDown
  <2>1. PICK s : AtStep(s) /\ NextStep
    BY <1>2 DEF TearsDown, Disconnected, CloseSession, CloseAgain,
                DestroySession, ForgetSession, SetCommand
  <2> QED BY <1>0, <2>1, TearDownStep DEF StepInv
<1>3. CASE Monitors \/ Outside \/ UNCHANGED vars
  <2>1. UNCHANGED <<lpc, step>>
    BY <1>3, MainFrame, OutsideFrame DEF vars
  <2> QED BY <1>0, <2>1 DEF StepInv
<1> QED BY <1>1, <1>2, <1>3, Steps
-----------------------------------------------------------------------------
(* Types. *)

\* The listener and its threads.
ListenerTyped ==
    /\ transport \in Transports
    /\ status \in {"CREATED", "LISTENING", "CONNECTED", "DISCONNECTED"}
                  \cup Ending
    /\ command \in {"CONTINUE", "EXIT"} /\ sock_d \in {"fd", "none"}
    /\ curr_session \in SessionIds \cup {Null}
    /\ lpc \in {"listen", "test", "accept", "assign", "connected", "recv",
               "recv_test", "down", "close", "exit", "abort", "abort_status",
               "log", "done"}
    /\ mpc \in {"spin", "test", "check", "load", "use", "destroy", "done",
               "crashed"}
    /\ msession \in SessionIds \cup {Null}

\* The sessions; the one at work is numbered.
SessionTyped ==
    /\ n \in 0 .. Sessions
    /\ heap \in [SessionIds -> {"none", "live", "freed"}]
    /\ received \in [SessionIds -> Int] /\ total_tx_rx \in Int
    /\ lpc \in {"assign", "connected", "recv", "recv_test", "down"} =>
         n \in SessionIds

\* The connection; what is in flight has been sent.
ConnTyped ==
    /\ socket \in {"bound", "listening", "shut", "closed"}
    /\ conn \in {"none", "waiting", "open", "closed", "reset", "lost"}
    /\ sent \in 0 .. Bytes /\ inflight \in 0 .. sent
    /\ lost \in 0 .. sent - inflight /\ agains \in 0 .. Again

Typed == ListenerTyped /\ SessionTyped /\ ConnTyped /\ StepInv

LEMMA Bounds ==
    Typed => /\ Sessions \in Nat /\ Bytes \in Nat /\ Again \in Nat
             /\ n \in Nat /\ sent \in Nat /\ inflight \in Nat /\ agains \in Nat
             /\ lost \in Nat /\ inflight + lost <= sent /\ sent <= Bytes
BY BoundsAssumption DEF Typed, SessionTyped, ConnTyped

LEMMA ListenerTypedStep == Typed /\ [Next]_vars => ListenerTyped'
<1> SUFFICES ASSUME Typed, [Next]_vars PROVE ListenerTyped'
  OBVIOUS
<1> USE DEF Typed, ListenerTyped, Ending
<1>1. CASE Serves
  <2>1. CASE AssignSession
    <3>1. n \in SessionIds
      BY <2>1 DEF AssignSession, SessionTyped
    <3> QED BY <1>1, <2>1, <3>1 DEF Serves, AssignSession, mainVars
  <2>2. CASE ~AssignSession
    BY <1>1, <2>2
       DEF Serves, Listen, ListenFails, LoopTest, Accept, AcceptError,
           Connected, RecvTest, Recv, RecvAgain, RecvEnd, RecvError,
           CloseListener, TbExit, AbortClose, TbAbort, LogAndEnd, shared,
           mainVars
  <2> QED BY <2>1, <2>2
<1>2. CASE TearsDown
  <2>1. PICK s : AtStep(s) /\ NextStep
    BY <1>2 DEF TearsDown, Disconnected, CloseSession, CloseAgain,
                DestroySession, ForgetSession, SetCommand
  <2>2. lpc' \in {"test", "down"}
    BY <2>1 DEF AtStep, NextStep
  <2>3. /\ status' \in {status, "DISCONNECTED"}
        /\ curr_session' \in {curr_session, Null}
        /\ command' \in {command, STxEnd}
        /\ UNCHANGED <<transport, sock_d, mpc, msession>>
    BY <1>2 DEF TearsDown, Disconnected, CloseSession, CloseAgain,
                DestroySession, ForgetSession, SetCommand, shared, mainVars
  <2> QED BY <2>2, <2>3, STxEndAssumption
<1>3. CASE Monitors
  <2>1. /\ mpc' \in {"spin", "test", "check", "load", "use", "destroy", "done",
                    "crashed"}
        /\ msession' \in {msession, curr_session, Null}
    BY <1>3 DEF Monitors, MainThread, MonitorSpin, MonitorTest, CheckConnected,
                LoadSession, CollectStats, DestroyListener
  <2> QED BY <1>3, <2>1, MainFrame DEF shared
<1>4. CASE Outside \/ UNCHANGED vars
  BY <1>4, OutsideFrame DEF vars, shared, mainVars
<1> QED BY <1>1, <1>2, <1>3, <1>4, Steps

LEMMA SessionTypedStep == Typed /\ [Next]_vars => SessionTyped'
<1> SUFFICES ASSUME Typed, [Next]_vars PROVE SessionTyped'
  OBVIOUS
<1>0. /\ n \in 0 .. Sessions
      /\ heap \in [SessionIds -> {"none", "live", "freed"}]
      /\ received \in [SessionIds -> Int] /\ total_tx_rx \in Int
  BY DEF Typed, SessionTyped
<1>1. CASE Accept
  <2>1. n' = n + 1 /\ n < Sessions /\ heap' = [heap EXCEPT ![n + 1] = "live"]
        /\ UNCHANGED <<received, total_tx_rx>>
    BY <1>1 DEF Accept, shared
  <2>2. n' \in 0 .. Sessions /\ n' \in SessionIds
    BY <2>1, Bounds DEF SessionIds
  <2> QED BY <1>0, <2>1, <2>2 DEF SessionTyped
<1>2. CASE Recv
  <2>0. n \in SessionIds
    BY <1>2 DEF Recv, Typed, SessionTyped
  <2>1. PICK rc \in 1 .. inflight :
            /\ received' = [received EXCEPT ![n] = received[n] + rc]
            /\ total_tx_rx' = total_tx_rx + rc
    BY <1>2 DEF Recv, Added
  <2>2. rc \in Int
    BY <2>1, Bounds
  <2>3. UNCHANGED <<n, heap>>
    BY <1>2 DEF Recv
  <2> QED BY <1>0, <2>0, <2>1, <2>2, <2>3 DEF SessionTyped
<1>3. CASE RecvAgain
  <2>0. n \in SessionIds
    BY <1>3 DEF RecvAgain, Typed, SessionTyped
  <2>1. /\ received' = [received EXCEPT ![n] = received[n] - 1]
        /\ total_tx_rx' = total_tx_rx + (-1)
        /\ UNCHANGED <<n, heap>>
    BY <1>3 DEF RecvAgain, Added
  <2> QED BY <1>0, <2>0, <2>1 DEF SessionTyped
<1>4. CASE Serves /\ ~Accept /\ ~Recv /\ ~RecvAgain
  BY <1>0, <1>4
     DEF Serves, Listen, ListenFails, LoopTest, AcceptError, AssignSession,
         Connected, RecvTest, RecvEnd, RecvError, CloseListener, TbExit,
         AbortClose, TbAbort, LogAndEnd, shared, Typed, SessionTyped
<1>5. CASE TearsDown
  <2>1. n \in SessionIds
    BY <1>5 DEF TearsDown, Disconnected, CloseSession, CloseAgain,
                DestroySession, ForgetSession, SetCommand, AtStep, Typed,
                SessionTyped
  <2>2. /\ heap' \in {heap, [heap EXCEPT ![n] = "freed"]}
        /\ UNCHANGED <<n, received, total_tx_rx>>
    BY <1>5 DEF TearsDown, Disconnected, CloseSession, CloseAgain,
                DestroySession, FreedSession, ForgetSession, SetCommand, shared
  <2> QED BY <1>0, <2>1, <2>2 DEF SessionTyped
<1>6. CASE Monitors \/ Outside \/ UNCHANGED vars
  <2>1. UNCHANGED <<lpc, n, heap, received, total_tx_rx>>
    BY <1>6, MainFrame, OutsideFrame DEF vars, shared
  <2> QED BY <1>0, <2>1 DEF Typed, SessionTyped
<1> QED BY <1>1, <1>2, <1>3, <1>4, <1>5, <1>6, Steps

LEMMA ConnTypedStep == Typed /\ [Next]_vars => ConnTyped'
<1> SUFFICES ASSUME Typed, [Next]_vars PROVE ConnTyped'
  OBVIOUS
<1>0. ConnTyped
  BY DEF Typed
<1>1. CASE Recv
  <2>1. PICK rc \in 1 .. inflight : inflight' = inflight - rc
    BY <1>1 DEF Recv
  <2>2. inflight' \in 0 .. sent /\ lost \in 0 .. sent - inflight'
    BY <2>1, Bounds
  <2> QED BY <1>0, <1>1, <2>2 DEF Recv, ConnTyped
<1>2. CASE RecvAgain
  <2>1. agains' \in 0 .. Again
    BY <1>2, Bounds DEF RecvAgain, Typed, ConnTyped
  <2> QED BY <1>0, <1>2, <2>1 DEF RecvAgain, ConnTyped
<1>3. CASE Serves /\ ~Recv /\ ~RecvAgain
  BY <1>0, <1>3
     DEF Serves, Listen, ListenFails, LoopTest, Accept, AcceptError,
         AssignSession, Connected, RecvTest, RecvEnd, RecvError,
         CloseListener, TbExit, AbortClose, TbAbort, LogAndEnd, netVars,
         ConnTyped
<1>4. CASE TearsDown
  <2>1. \/ UNCHANGED netVars
        \/ /\ conn' = "none" /\ inflight' = 0 /\ sent' = 0 /\ lost' = 0
           /\ UNCHANGED <<socket, agains>>
    BY <1>4 DEF TearsDown, Disconnected, CloseSession, CloseAgain,
                DestroySession, ForgetSession, SetCommand, netVars
  <2> QED BY <1>0, <2>1, Bounds DEF netVars, ConnTyped
<1>5. CASE ClientSend
  <2>1. /\ sent' = sent + 1 /\ inflight' = inflight + 1 /\ sent < Bytes
        /\ UNCHANGED <<socket, conn, lost, agains>>
    BY <1>5 DEF ClientSend
  <2>2. /\ sent' \in 0 .. Bytes /\ inflight' \in 0 .. sent'
        /\ lost \in 0 .. sent' - inflight'
    BY <2>1, Bounds
  <2> QED BY <1>0, <2>1, <2>2 DEF ConnTyped
<1>6. CASE ClientFails \/ DatagramLost
  <2>1. PICK l \in 0 .. inflight : lost' = lost + l /\ inflight' = inflight - l
    <3>1. /\ inflight \in 0 .. inflight /\ inflight - inflight = 0
          /\ inflight > 0 => 1 \in 0 .. inflight
      BY Bounds
    <3> QED BY <1>6, <3>1 DEF ClientFails, DatagramLost
  <2>2. inflight' \in 0 .. sent /\ lost' \in 0 .. sent - inflight'
    BY <2>1, Bounds
  <2> QED BY <1>0, <1>6, <2>2 DEF ClientFails, DatagramLost, ConnTyped
<1>7. CASE Connect \/ ClientClose \/ SigAction
  BY <1>0, <1>7 DEF Connect, ClientClose, SigAction, ShutDown, ConnTyped
<1>8. CASE Monitors \/ UNCHANGED vars
  BY <1>0, <1>8, MainFrame DEF vars, netVars, ConnTyped
<1> QED BY <1>1, <1>2, <1>3, <1>4, <1>5, <1>6, <1>7, <1>8, Steps DEF Outside

\* Every variable keeps to the values the code gives it, and nothing is in
\* flight that was not sent (tb_stream.c 57-99, tb_udt.c 58-117).
THEOREM TypesKept == Spec => []Typed
<1>1. Init => Typed
  <2> SUFFICES ASSUME Init PROVE Typed
    OBVIOUS
  <2>1. ListenerTyped
    BY DEF Init, ListenerTyped
  <2>2. SessionTyped
    BY BoundsAssumption DEF Init, SessionTyped
  <2>3. ConnTyped
    BY BoundsAssumption DEF Init, ConnTyped
  <2>4. StepInv
    BY DEF Init, StepInv
  <2> QED BY <2>1, <2>2, <2>3, <2>4 DEF Typed
<1>2. Typed /\ [Next]_vars => Typed'
  BY ListenerTypedStep, SessionTypedStep, ConnTypedStep, StepStep DEF Typed
<1> QED BY <1>1, <1>2, PTL DEF Spec
-----------------------------------------------------------------------------
(* The listener's total. *)

\* What the sessions have received adds up to the listener's total.
TotalInv == total_tx_rx = SumFunction(received)

\* A receive adds the same to its session and to the total.
LEMMA TotalStep == Typed /\ TotalInv /\ [Next]_vars => TotalInv'
<1> SUFFICES ASSUME Typed, TotalInv, [Next]_vars PROVE TotalInv'
  OBVIOUS
<1>0. /\ IsFiniteSet(SessionIds) /\ received \in [SessionIds -> Int]
      /\ total_tx_rx \in Int /\ total_tx_rx = SumFunction(received)
      /\ lpc = "recv" => n \in SessionIds
  <2>1. IsFiniteSet(SessionIds)
    BY FS_Interval, BoundsAssumption DEF SessionIds
  <2> QED BY <2>1 DEF Typed, SessionTyped, TotalInv
<1>1. ASSUME NEW rc \in Int, lpc = "recv", total_tx_rx' = Added(rc),
             received' = [received EXCEPT ![n] = received[n] + rc]
      PROVE  TotalInv'
  <2>1. n \in SessionIds /\ received[n] \in Int
    BY <1>0, <1>1
  <2> DEFINE v == received[n] + rc
  <2>2. v \in Int
    BY <1>1, <2>1
  <2>3. received' = [received EXCEPT ![n] = v]
    BY <1>1
  <2> HIDE DEF v
  <2>4. SumFunction(received') = SumFunction(received) + v - received[n]
    BY <1>0, <2>1, <2>2, <2>3, SumExcept
  <2> QED BY <1>0, <1>1, <2>1, <2>4 DEF TotalInv, Added, v
<1>2. CASE Recv
  <2>1. PICK rc \in 1 .. inflight :
            /\ received' = [received EXCEPT ![n] = received[n] + rc]
            /\ total_tx_rx' = Added(rc) /\ lpc = "recv"
    BY <1>2 DEF Recv
  <2>2. rc \in Int
    BY <2>1, Bounds
  <2> QED BY <1>1, <2>1, <2>2
<1>3. CASE RecvAgain
  <2>1. /\ received' = [received EXCEPT ![n] = received[n] - 1]
        /\ total_tx_rx' = Added(-1) /\ lpc = "recv"
    BY <1>3 DEF RecvAgain
  <2>2. received' = [received EXCEPT ![n] = received[n] + (-1)]
    BY <1>0, <2>1
  <2>3. -1 \in Int
    OBVIOUS
  <2> QED BY <1>1, <2>1, <2>2, <2>3
<1>4. CASE UNCHANGED <<received, total_tx_rx>>
  BY <1>4 DEF TotalInv
<1>5. Serves /\ ~Recv /\ ~RecvAgain => UNCHANGED <<received, total_tx_rx>>
  BY DEF Serves, Listen, ListenFails, LoopTest, Accept, AcceptError,
         AssignSession, Connected, RecvTest, RecvEnd, RecvError,
         CloseListener, TbExit, AbortClose, TbAbort, LogAndEnd, shared
<1>6. TearsDown => UNCHANGED <<received, total_tx_rx>>
  BY DEF TearsDown, Disconnected, CloseSession, CloseAgain, DestroySession,
         ForgetSession, SetCommand, shared
<1>7. Monitors \/ Outside \/ UNCHANGED vars
        => UNCHANGED <<received, total_tx_rx>>
  BY MainFrame, OutsideFrame DEF vars, shared
<1> QED BY <1>2, <1>3, <1>4, <1>5, <1>6, <1>7, Steps

\* Every variable keeps to the values the code gives it, and the total that
\* the monitor reports is the sum of what the sessions have received, over
\* any number of connections, the -1 of each EAGAIN included
\* (tb_stream.c 67-74, tb_udt.c 70-97).
THEOREM TypeCorrect == Spec => []TypeOK
<1>1. Init => TotalInv
  <2> SUFFICES ASSUME Init PROVE TotalInv
    OBVIOUS
  <2>1. /\ received = [i \in SessionIds |-> 0] /\ total_tx_rx = 0
        /\ IsFiniteSet(SessionIds) /\ Cardinality(SessionIds) \in Nat
    BY FS_Interval, FS_CardinalityType, BoundsAssumption DEF Init, SessionIds
  <2>2. /\ DOMAIN received = SessionIds /\ Summable(received)
        /\ \A i \in SessionIds : received[i] = 0
    BY <2>1 DEF Summable
  <2>3. SumFunction(received) = 0 * Cardinality(SessionIds)
    BY <2>2, SumConstant
  <2> QED BY <2>1, <2>3 DEF TotalInv
<1>2. Typed /\ TotalInv => TypeOK
  <2> SUFFICES ASSUME Typed, TotalInv PROVE TypeOK
    OBVIOUS
  <2>1. step \in 1 .. 6
    BY DEF Typed, StepInv, LastStep
  <2>2. inflight \in 0 .. Bytes /\ lost \in 0 .. Bytes
    BY Bounds DEF Typed, ConnTyped
  <2> QED BY <2>1, <2>2
          DEF Typed, ListenerTyped, SessionTyped, ConnTyped, TotalInv, TypeOK
<1> QED BY TypesKept, TotalStep, <1>1, <1>2, PTL DEF Spec
-----------------------------------------------------------------------------
(* The life of a session. *)

AtWork == lpc \in {"connected", "recv", "recv_test"}
Before == lpc = "down" /\ step = 1

\* The session is current from its connection to the end of its transfer.
CurrentInv ==
    /\ lpc = "assign" => heap[n] = "live"
    /\ AtWork \/ Before => curr_session = n /\ heap[n] = "live"
    /\ status = "CONNECTED" =>
         /\ AtWork \/ Before \/ lpc = "abort"
         /\ curr_session = n /\ n \in SessionIds /\ heap[n] = "live"

\* Only the session at work lives, until it is freed or the server aborts.
LiveInv ==
    \A i \in SessionIds : heap[i] = "live" =>
        /\ i = n
        /\ \/ AtWork
           \/ lpc \in {"assign", "abort", "abort_status", "log", "done"}
           \/ lpc = "down" /\ step <= FreeStep

\* The monitor ends after the listener thread.
OverInv ==
    /\ status \in Ending => lpc \in {"log", "done"}
    /\ mpc \in {"destroy", "done"} => lpc \in {"log", "done"}

LifeInv == CurrentInv /\ LiveInv /\ OverInv

LEMMA LifeServes == Typed /\ LifeInv /\ Serves => LifeInv'
<1> SUFFICES ASSUME Typed, LifeInv, Serves PROVE LifeInv'
  OBVIOUS
<1> USE DEF LifeInv, AtWork, Before, Ending
<1>0. /\ n \in 0 .. Sessions
      /\ heap \in [SessionIds -> {"none", "live", "freed"}]
      /\ lpc \in {"assign", "connected", "recv", "recv_test", "down"} =>
           n \in SessionIds
      /\ lpc # "down" => step = 1
      /\ FreeStep \in Nat /\ FreeStep' = FreeStep /\ FreeStep >= 1
  BY DEF Typed, SessionTyped, StepInv, FreeStep, Serves
<1>1. CASE Accept
  <2>1. /\ lpc = "accept" /\ lpc' = "assign" /\ n' = n + 1 /\ n < Sessions
        /\ heap' = [heap EXCEPT ![n + 1] = "live"]
        /\ UNCHANGED <<status, curr_session, mpc>>
    BY <1>1 DEF Accept, shared, mainVars
  <2>2. n + 1 \in SessionIds
    BY <1>0, <2>1, BoundsAssumption DEF SessionIds
  <2>3. \A i \in SessionIds : heap[i] # "live"
    BY <2>1 DEF LiveInv
  <2>4. CurrentInv'
    BY <1>0, <2>1, <2>2 DEF CurrentInv
  <2>5. LiveInv'
    BY <1>0, <2>1, <2>2, <2>3 DEF LiveInv
  <2>6. OverInv'
    BY <2>1 DEF OverInv
  <2> QED BY <2>4, <2>5, <2>6
<1>2. CASE ~Accept
  <2>1. /\ UNCHANGED <<n, heap, step>> /\ lpc \notin {"down", "done"}
        /\ mpc' # mpc => LogAndEnd
    BY <1>2 DEF Serves, Listen, ListenFails, LoopTest, AcceptError,
         AssignSession, Connected, RecvTest, Recv, RecvAgain, RecvEnd,
         RecvError, CloseListener, TbExit, AbortClose, TbAbort, LogAndEnd,
         mainVars
  <2>2. CurrentInv'
    BY <1>0, <1>2, <2>1
       DEF Serves, Listen, ListenFails, LoopTest, AcceptError, AssignSession,
           Connected, RecvTest, Recv, RecvAgain, RecvEnd, RecvError,
           CloseListener, TbExit, AbortClose, TbAbort, LogAndEnd, shared,
           CurrentInv
  <2>3. LiveInv'
    BY <1>0, <1>2, <2>1
       DEF Serves, Listen, ListenFails, LoopTest, AcceptError, AssignSession,
           Connected, RecvTest, Recv, RecvAgain, RecvEnd, RecvError,
           CloseListener, TbExit, AbortClose, TbAbort, LogAndEnd, LiveInv
  <2>4. OverInv'
    BY <1>2, <2>1
       DEF Serves, Listen, ListenFails, LoopTest, AcceptError, AssignSession,
           Connected, RecvTest, Recv, RecvAgain, RecvEnd, RecvError,
           CloseListener, TbExit, AbortClose, TbAbort, LogAndEnd, shared,
           OverInv
  <2> QED BY <2>2, <2>3, <2>4
<1> QED BY <1>1, <1>2

LEMMA LifeTearsDown == Typed /\ LifeInv /\ TearsDown => LifeInv'
<1> SUFFICES ASSUME Typed, LifeInv, TearsDown PROVE LifeInv'
  OBVIOUS
<1> USE DEF LifeInv, AtWork, Before, Ending
<1>0. /\ heap \in [SessionIds -> {"none", "live", "freed"}]
      /\ FreeStep \in Nat /\ FreeStep' = FreeStep /\ FreeStep > 1
      /\ FreeStep < LastStep /\ LastStep \in Nat
      /\ StepInv
  BY DEF Typed, SessionTyped, FreeStep, LastStep, TearsDown
<1>1. PICK s : AtStep(s) /\ NextStep /\
        \/ s = "status" /\ Disconnected
        \/ s = "free" /\ DestroySession
        \/ s = "command" /\ SetCommand
        \/ s \in {"close", "close again", "forget"}
           /\ (CloseSession \/ CloseAgain \/ ForgetSession)
  BY DEF TearsDown, Disconnected, CloseSession, CloseAgain, DestroySession,
         ForgetSession, SetCommand
<1>2. /\ lpc = "down" /\ step \in 1 .. LastStep /\ TearDown[step] = s
      /\ s = "status" <=> step = 1
      /\ s = "free" <=> step = FreeStep
      /\ s = "command" => lpc' = "test" /\ step' = 1
      /\ s # "command" => /\ lpc' = "down" /\ step' = step + 1
                          /\ step' \in 1 .. LastStep
  BY <1>0, <1>1, TearDownStep
<1>3. s = "command" => step = LastStep
  BY <1>2, StepNames
<1>4. /\ UNCHANGED <<n, mpc>>
      /\ heap' = IF s = "free" THEN [heap EXCEPT ![n] = "freed"] ELSE heap
      /\ status' = IF s = "status" THEN "DISCONNECTED" ELSE status
  BY <1>1 DEF Disconnected, CloseSession, CloseAgain, DestroySession,
              FreedSession, ForgetSession, SetCommand, shared, mainVars
<1>5. step \in Nat /\ (lpc' = "down" => step' > 1) /\ status' # "CONNECTED"
  BY <1>0, <1>2, <1>4 DEF CurrentInv
<1>6. CurrentInv'
  BY <1>2, <1>5 DEF CurrentInv
<1>7. LiveInv'
  <2>1. CASE s = "free"
    BY <1>0, <1>2, <1>4, <2>1 DEF LiveInv
  <2>2. CASE s = "command"
    BY <1>0, <1>2, <1>3, <1>4, <2>2 DEF LiveInv
  <2>3. CASE s # "free" /\ s # "command"
    BY <1>0, <1>2, <1>4, <1>5, <2>3 DEF LiveInv
  <2> QED BY <2>1, <2>2, <2>3
<1>8. OverInv'
  BY <1>2, <1>4 DEF OverInv
<1> QED BY <1>6, <1>7, <1>8

LEMMA LifeStep == Typed /\ LifeInv /\ [Next]_vars => LifeInv'
<1> SUFFICES ASSUME Typed, LifeInv, [Next]_vars PROVE LifeInv'
  OBVIOUS
<1>1. CASE Monitors
  <2>1. UNCHANGED <<status, curr_session, lpc, n, step, heap>>
    BY <1>1, MainFrame DEF shared
  <2>2. mpc' \in {"destroy", "done"} =>
            mpc \in {"destroy", "done"} \/ status \in Ending
    BY <1>1 DEF Monitors, MainThread, MonitorSpin, MonitorTest, CheckConnected,
                LoadSession, CollectStats, DestroyListener, Over
  <2>3. FreeStep' = FreeStep
    BY TransportFrame DEF FreeStep
  <2> QED BY <2>1, <2>2, <2>3
          DEF LifeInv, CurrentInv, LiveInv, OverInv, AtWork, Before
<1>2. CASE Outside \/ UNCHANGED vars
  <2>1. UNCHANGED <<status, curr_session, lpc, n, step, heap, mpc>>
    BY <1>2, OutsideFrame DEF vars, shared, mainVars
  <2>2. FreeStep' = FreeStep
    BY TransportFrame DEF FreeStep
  <2> QED BY <2>1, <2>2
          DEF LifeInv, CurrentInv, LiveInv, OverInv, AtWork, Before
<1> QED BY <1>1, <1>2, Steps, LifeServes, LifeTearsDown

\* In every transfer of any number of connections the listener has a live
\* session while it says CONNECTED, none is left for the next, and the
\* listener outlives its thread (tb_stream.c 57-99, tb_udt.c 58-117,
\* tb_monitor 338).
THEOREM SessionsLive == Spec => []SessionLife
<1>1. Init => LifeInv
  BY DEF Init, LifeInv, CurrentInv, LiveInv, OverInv, AtWork, Before, Ending
<1>2. Typed /\ LifeInv => SessionLife
  <2> SUFFICES ASSUME Typed, LifeInv PROVE SessionLife
    OBVIOUS
  <2>1. ConnectedHasSession
    <3>1. 0 \notin SessionIds
      BY BoundsAssumption DEF SessionIds
    <3> QED BY <3>1 DEF LifeInv, CurrentInv, ConnectedHasSession, Null
  <2>2. SessionsFreed
    BY DEF LifeInv, LiveInv, AtWork, SessionsFreed
  <2>3. DestroyedAfterListener
    BY DEF LifeInv, OverInv, DestroyedAfterListener
  <2> QED BY <2>1, <2>2, <2>3 DEF SessionLife
<1> QED BY TypesKept, LifeStep, <1>1, <1>2, PTL DEF Spec
-----------------------------------------------------------------------------
(* What is received. *)

\* A session has a connection until its transfer is over.
Serving == AtWork \/ Before \/ lpc = "assign"

\* A session that has not begun has counted nothing.
FreshInv == \A i \in SessionIds : i > n => received[i] = 0

\* A connection that has not begun has sent nothing.
IdleInv == conn \in {"none", "waiting"} => sent = 0

\* What was sent is received, in flight or lost, but for what each EAGAIN took
\* off; and only a failed client and DCCP lose anything.
BalanceInv ==
    /\ Serving =>
        /\ conn \in {"open", "closed", "reset", "lost"}
        /\ received[n] + inflight >= sent - lost - agains
    /\ lost = 0 \/ transport = "dccp" \/ conn \in {"reset", "lost"}

\* Only the end of the stream, or an interruption, ends a transfer.
EndInv ==
    Before /\ command = "CONTINUE" =>
        conn \in {"closed", "lost"} /\ inflight = 0

DeliveryInv == FreshInv /\ IdleInv /\ BalanceInv /\ EndInv

LEMMA DeliveryServes == Typed /\ DeliveryInv /\ Serves => DeliveryInv'
<1> SUFFICES ASSUME Typed, DeliveryInv, Serves PROVE DeliveryInv'
  OBVIOUS
<1> USE DEF DeliveryInv, AtWork, Before, Serving
<1>0. /\ n \in Nat /\ sent \in Nat /\ inflight \in Nat /\ agains \in Nat
      /\ lost \in Nat /\ received \in [SessionIds -> Int]
      /\ lpc \in {"assign", "connected", "recv", "recv_test", "down"} =>
           n \in SessionIds
      /\ lpc # "down" => step = 1
      /\ command \in {"CONTINUE", "EXIT"}
      /\ transport' = transport
  BY Bounds DEF Typed, SessionTyped, StepInv, ListenerTyped, Serves
<1>1. CASE Accept
  <2>1. /\ n' = n + 1 /\ n < Sessions /\ conn = "waiting" /\ conn' = "open"
        /\ lpc' = "assign"
        /\ UNCHANGED <<received, sent, inflight, lost, agains, command>>
    BY <1>1 DEF Accept, shared
  <2>2. sent = 0 /\ n + 1 \in SessionIds
    BY <1>0, <2>1, BoundsAssumption DEF IdleInv, SessionIds
  <2>3. received[n + 1] = 0
    BY <1>0, <2>2 DEF FreshInv
  <2>4. received'[n'] + inflight' >= sent' - lost' - agains'
    BY <1>0, <2>1, <2>2, <2>3
  <2>5. FreshInv'
    BY <1>0, <2>1 DEF FreshInv, SessionIds
  <2> QED BY <1>0, <2>1, <2>4, <2>5 DEF IdleInv, BalanceInv, EndInv
<1>2. CASE Recv
  <2>1. PICK rc \in 1 .. inflight :
            /\ received' = [received EXCEPT ![n] = received[n] + rc]
            /\ inflight' = inflight - rc
    BY <1>2 DEF Recv
  <2>2. /\ lpc = "recv" /\ lpc' = "recv_test"
        /\ UNCHANGED <<n, conn, sent, lost, agains>>
    BY <1>2 DEF Recv
  <2>3. received'[n] + inflight' = received[n] + inflight
    BY <1>0, <2>1, <2>2
  <2>4. FreshInv'
    BY <1>0, <2>1, <2>2 DEF FreshInv, SessionIds
  <2> QED BY <1>0, <2>2, <2>3, <2>4 DEF IdleInv, BalanceInv, EndInv
<1>3. CASE RecvAgain
  <2>1. /\ received' = [received EXCEPT ![n] = received[n] - 1]
        /\ agains' = agains + 1 /\ lpc = "recv" /\ lpc' = "recv_test"
        /\ UNCHANGED <<n, conn, sent, inflight, lost>>
    BY <1>3 DEF RecvAgain
  <2>2. received'[n] = received[n] - 1 /\ received[n] \in Int
    BY <1>0, <2>1
  <2>3. received'[n] + inflight >= sent - lost - agains'
    BY <1>0, <2>1, <2>2 DEF BalanceInv
  <2>4. FreshInv'
    BY <1>0, <2>1 DEF FreshInv, SessionIds
  <2> QED BY <1>0, <2>1, <2>3, <2>4 DEF IdleInv, BalanceInv, EndInv
<1>4. CASE RecvEnd
  <2>1. /\ lpc = "recv" /\ lpc' = "down" /\ conn \in {"closed", "lost"}
        /\ inflight = 0
        /\ UNCHANGED <<n, step, received, conn, sent, inflight, lost, agains,
                       command>>
    BY <1>4 DEF RecvEnd, EndOfStream, shared, netVars
  <2> QED BY <1>0, <2>1 DEF FreshInv, IdleInv, BalanceInv, EndInv
<1>5. CASE RecvTest
  <2>1. /\ lpc = "recv_test"
        /\ lpc' = IF command = "EXIT" THEN "down" ELSE "recv"
        /\ UNCHANGED <<n, step, received, conn, sent, inflight, lost, agains,
                       command>>
    BY <1>5 DEF RecvTest, shared, netVars
  <2> QED BY <1>0, <2>1 DEF FreshInv, IdleInv, BalanceInv, EndInv
<1>6. CASE Connected \/ AssignSession
  <2>1. /\ lpc \in {"connected", "assign"}
        /\ lpc' \in {"connected", "recv_test", "recv"}
        /\ UNCHANGED <<n, received, conn, sent, inflight, lost, agains>>
    BY <1>6 DEF Connected, AssignSession, netVars
  <2> QED BY <1>0, <2>1 DEF FreshInv, IdleInv, BalanceInv, EndInv
<1>7. CASE Listen \/ ListenFails \/ LoopTest \/ AcceptError \/ RecvError
           \/ CloseListener \/ TbExit \/ AbortClose \/ TbAbort \/ LogAndEnd
  <2>1. /\ lpc' \in {"test", "close", "accept", "abort", "exit", "log",
                     "done", "abort_status"}
        /\ UNCHANGED <<n, received, conn, sent, lost>>
    BY <1>7 DEF Listen, ListenFails, LoopTest, AcceptError, RecvError,
                CloseListener, TbExit, AbortClose, TbAbort, LogAndEnd, netVars
  <2> QED BY <1>0, <2>1 DEF FreshInv, IdleInv, BalanceInv, EndInv
<1> QED BY <1>1, <1>2, <1>3, <1>4, <1>5, <1>6, <1>7 DEF Serves

LEMMA DeliveryTearsDown == Typed /\ DeliveryInv /\ TearsDown => DeliveryInv'
<1> SUFFICES ASSUME Typed, DeliveryInv, TearsDown PROVE DeliveryInv'
  OBVIOUS
<1>1. PICK s : AtStep(s) /\ NextStep
  BY DEF TearsDown, Disconnected, CloseSession, CloseAgain, DestroySession,
         ForgetSession, SetCommand
<1>2. \/ lpc' = "test"
      \/ lpc' = "down" /\ step' > 1
  <2>1. LastStep \in Nat
    BY DEF LastStep
  <2> QED BY <1>1, <2>1, TearDownStep DEF Typed
<1>3. /\ UNCHANGED <<transport, n, received>>
      /\ \/ UNCHANGED <<conn, sent, lost>>
         \/ sent' = 0 /\ lost' = 0
  BY DEF TearsDown, Disconnected, CloseSession, CloseAgain, DestroySession,
         ForgetSession, SetCommand, netVars
<1>4. ~Serving'
  BY <1>2 DEF Serving, AtWork, Before
<1> QED BY <1>3, <1>4
        DEF DeliveryInv, FreshInv, IdleInv, BalanceInv, EndInv, Serving

LEMMA DeliveryOutside == Typed /\ DeliveryInv /\ Outside => DeliveryInv'
<1> SUFFICES ASSUME Typed, DeliveryInv, Outside PROVE DeliveryInv'
  OBVIOUS
<1> USE DEF DeliveryInv, AtWork, Before, Serving
<1>0. /\ sent \in Nat /\ inflight \in Nat /\ agains \in Nat
      /\ lost \in Nat /\ received \in [SessionIds -> Int]
      /\ Serving => n \in SessionIds
      /\ UNCHANGED <<transport, lpc, n, step, received>>
      /\ command' \in {command, "EXIT"}
  BY Bounds, OutsideFrame DEF Typed, SessionTyped
<1>1. FreshInv'
  BY <1>0 DEF FreshInv
<1>2. CASE ClientSend
  <2>1. /\ conn = "open" /\ conn' = conn /\ sent' = sent + 1
        /\ inflight' = inflight + 1 /\ UNCHANGED <<lost, agains, command>>
    BY <1>2 DEF ClientSend, shared
  <2>2. Serving => received'[n] + inflight' >= sent' - lost' - agains'
    <3>1. ASSUME Serving PROVE received[n] \in Int
      BY <1>0, <3>1
    <3> QED BY <1>0, <2>1, <3>1 DEF BalanceInv
  <2> QED BY <1>0, <1>1, <2>1, <2>2 DEF IdleInv, BalanceInv, EndInv
<1>3. CASE ClientFails \/ DatagramLost
  <2>1. PICK l \in 0 .. inflight : lost' = lost + l /\ inflight' = inflight - l
    <3>1. /\ inflight \in 0 .. inflight /\ inflight - inflight = 0
          /\ inflight > 0 => 1 \in 0 .. inflight
      BY <1>0
    <3> QED BY <1>3, <3>1 DEF ClientFails, DatagramLost
  <2>2. /\ \/ conn = "open" /\ conn' \in {"reset", "lost"}
           \/ /\ transport = "dccp" /\ conn' = conn /\ inflight > 0
        /\ UNCHANGED <<sent, agains, command>>
    BY <1>3 DEF ClientFails, DatagramLost, shared
  <2>3. Serving => received'[n] + inflight' >= sent' - lost' - agains'
    <3>1. ASSUME Serving PROVE received[n] \in Int
      BY <1>0, <3>1
    <3> QED BY <1>0, <2>1, <2>2, <3>1 DEF BalanceInv
  <2>4. IdleInv' /\ BalanceInv'
    BY <1>0, <2>2, <2>3 DEF IdleInv, BalanceInv
  <2>5. EndInv'
    BY <1>0, <2>1, <2>2 DEF EndInv
  <2> QED BY <1>1, <2>4, <2>5
<1>4. CASE ClientClose
  <2>1. /\ conn = "open" /\ conn' = "closed" /\ command' = command
        /\ UNCHANGED <<sent, inflight, lost, agains>>
    BY <1>4 DEF ClientClose, shared
  <2> QED BY <1>0, <1>1, <2>1 DEF IdleInv, BalanceInv, EndInv
<1>5. CASE Connect
  <2>1. /\ conn = "none" /\ conn' = "waiting" /\ command' = command
        /\ sent' = sent /\ lost' = lost
    BY <1>5 DEF Connect, shared
  <2>2. ~Serving
    BY <2>1 DEF BalanceInv
  <2> QED BY <1>0, <1>1, <2>1, <2>2 DEF IdleInv, BalanceInv, EndInv
<1>6. CASE SigAction
  <2>1. UNCHANGED <<conn, sent, inflight, lost, agains>> /\ command' = "EXIT"
    BY <1>6 DEF SigAction
  <2> QED BY <1>0, <1>1, <2>1 DEF IdleInv, BalanceInv, EndInv
<1> QED BY <1>2, <1>3, <1>4, <1>5, <1>6 DEF Outside

\* Whatever the transport and however it cuts the stream, a transfer that is
\* not interrupted receives all that was sent and that neither DCCP nor a
\* failing client has lost, less one for each EAGAIN (tb_stream.c 67-74,
\* tb_udt.c 73-95).
THEOREM Delivered == Spec => []CompleteDelivery
<1>1. Init => DeliveryInv
  BY DEF Init, DeliveryInv, FreshInv, IdleInv, BalanceInv, EndInv, Serving,
         AtWork, Before
<1>2. Typed /\ DeliveryInv /\ [Next]_vars => DeliveryInv'
  <2>1. DeliveryInv /\ (Monitors \/ UNCHANGED vars) => DeliveryInv'
    BY MainFrame
       DEF vars, shared, netVars, DeliveryInv, FreshInv, IdleInv, BalanceInv,
           EndInv, Serving, AtWork, Before
  <2> QED BY <2>1, Steps, DeliveryServes, DeliveryTearsDown, DeliveryOutside
<1>3. Typed /\ DeliveryInv => CompleteDelivery
  <2> SUFFICES ASSUME Typed, DeliveryInv, Before, command = "CONTINUE"
               PROVE /\ received[n] >= sent - lost - agains
                     /\ lost = 0 \/ transport = "dccp" \/ conn = "lost"
    BY DEF CompleteDelivery, Before
  <2>1. /\ received[n] + inflight >= sent - lost - agains /\ inflight = 0
        /\ received[n] \in Int /\ conn \in {"closed", "lost"}
        /\ lost = 0 \/ transport = "dccp" \/ conn \in {"reset", "lost"}
    BY DEF DeliveryInv, BalanceInv, EndInv, Serving, Before, Typed,
           SessionTyped
  <2> QED BY <2>1, Bounds
<1> QED BY TypesKept, <1>1, <1>2, <1>3, PTL DEF Spec
=============================================================================
