---------------------------- MODULE Stats_proofs ----------------------------
(***************************************************************************)
(* What holds of the published stats for any set of external threads and   *)
(* any size of the transfer: the types, that nothing published is missed,  *)
(* that the last stats are the end of the transfer, and that the copies of *)
(* a thread go forward.  No proof uses stat_lock: it excludes nobody.      *)
(***************************************************************************)
EXTENDS Stats, TLAPS

(* Frames: what the three kinds of thread leave alone. *)

LEMMA ListenerFrame ==
    ListenerThread => UNCHANGED <<read, stats, mpc, last_round, rpc, copy>>
BY DEF ListenerThread, ListenerConnects, Send, TryLockToClose, Close, TbExit,
       Fails, AbortLock, AbortClose, TbAbort

LEMMA MainFrame ==
    MainThread => UNCHANGED <<status, total_tx_rx, sock_d, lpc, copy>>
BY DEF MainThread, MonitorSpin, MonitorTest, SetCurrentRead, SetStatus,
       ClearRead, SignalUnlock

LEMMA ReaderFrame ==
    ASSUME NEW r \in Readers, Call(r) \/ InCall(r)
    PROVE  UNCHANGED <<status, total_tx_rx, sock_d, stats, lpc, mpc,
                       last_round>>
BY DEF Call, InCall, Check, CondWait, Wake, SetRead, CopyUnlock
-----------------------------------------------------------------------------
(* Types. *)

\* The listener thread is as far as its status says.
StatusInv ==
    /\ lpc = "connect" => status = "CREATED"
    /\ lpc \in {"send", "close"} => status = "CONNECTED"
    /\ lpc \in {"exit", "abort_status"} => status = "DISCONNECTED"
    /\ lpc \in {"abort", "abort_close"} => status \in {"CREATED", "CONNECTED"}
    /\ lpc = "done" => status \in Ending

Typed == TypeOK /\ StatusInv

LEMMA Numbers ==
    TypeOK => /\ total_tx_rx \in Nat /\ stats.current_read \in Nat
              /\ stats.l_status \in Statuses /\ FileSize \in Nat
              /\ \A r \in Readers : copy[r] \in Nat
BY FileSizeAssumption DEF TypeOK, StatsStruct

LEMMA TypedStep == Typed /\ [Next]_vars => Typed'
<1> SUFFICES ASSUME Typed, [Next]_vars PROVE Typed'
  OBVIOUS
<1> USE DEF Typed
<1>1. CASE ListenerThread
  <2>1. CASE Send
    <3>1. PICK rc \in 1 .. FileSize - total_tx_rx :
              total_tx_rx' = total_tx_rx + rc
      BY <2>1 DEF Send
    <3>2. /\ total_tx_rx' \in 0 .. FileSize
          /\ stats.current_read <= total_tx_rx'
      <4>1. total_tx_rx <= FileSize /\ stats.current_read <= total_tx_rx
        BY Numbers DEF TypeOK
      <4> QED BY <3>1, <4>1, Numbers
    <3>3. UNCHANGED <<status, sock_d, stat_lock, read, stats, lpc, mpc,
                      last_round, rpc, copy>>
      BY <2>1 DEF Send
    <3> QED BY <3>2, <3>3 DEF TypeOK, StatusInv
  <2>2. CASE ~Send
    BY <1>1, <2>2, ZenonT(30)
       DEF ListenerThread, ListenerConnects, TryLockToClose, Close, TbExit,
           Fails, AbortLock, AbortClose, TbAbort, TypeOK, StatusInv, Statuses,
           Ending
  <2> QED BY <2>1, <2>2
<1>2. CASE MainThread
  <2>1. StatusInv'
    BY <1>2, MainFrame DEF StatusInv
  <2>2. CASE MonitorSpin \/ MonitorTest \/ ClearRead
    <3>1. /\ mpc' \in {"test", "set", "signal"} /\ read' \in {0, 1}
          /\ UNCHANGED <<status, total_tx_rx, sock_d, stat_lock, stats, lpc,
                         rpc, copy>>
      BY <2>2 DEF MonitorSpin, MonitorTest, AfterTest, ClearRead, Cleared,
                  TypeOK
    <3>2. last_round \in BOOLEAN
      BY DEF TypeOK
    <3>3. last_round' \in BOOLEAN
      <4>1. CASE MonitorTest
        <5>1. (status \in Ending) \in BOOLEAN
          OBVIOUS
        <5>2. last_round' = (status \in Ending)
          BY <4>1 DEF MonitorTest
        <5> QED BY <5>1, <5>2, Zenon
      <4>2. CASE MonitorSpin \/ ClearRead
        BY <3>2, <4>2 DEF MonitorSpin, ClearRead
      <4> QED BY <2>2, <4>1, <4>2
    <3> QED BY <2>1, <3>1, <3>3 DEF TypeOK
  <2>3. CASE SetCurrentRead
    <3>1. /\ stats' = [stats EXCEPT !.current_read = total_tx_rx]
          /\ mpc' = "status" /\ stat_lock' = TRUE
          /\ UNCHANGED <<status, total_tx_rx, sock_d, read, lpc, last_round,
                         rpc, copy>>
      BY <2>3 DEF SetCurrentRead, CurrentRead
    <3>2. stats' \in StatsStruct /\ stats'.current_read <= total_tx_rx
      BY <3>1, Numbers DEF TypeOK, StatsStruct
    <3> QED BY <2>1, <3>1, <3>2 DEF TypeOK
  <2>4. CASE SetStatus
    <3>1. /\ stats' = [stats EXCEPT !.l_status = status] /\ mpc' = "read"
          /\ UNCHANGED <<status, total_tx_rx, sock_d, stat_lock, read, lpc,
                         last_round, rpc, copy>>
      BY <2>4 DEF SetStatus
    <3>2. stats' \in StatsStruct /\ stats'.current_read <= total_tx_rx
      BY <3>1, Numbers DEF TypeOK, StatsStruct
    <3> QED BY <2>1, <3>1, <3>2 DEF TypeOK
  <2>5. CASE SignalUnlock
    <3>1. /\ mpc' \in {"done", "test"} /\ rpc' \in Woken /\ stat_lock' = FALSE
          /\ UNCHANGED <<status, total_tx_rx, sock_d, read, stats, lpc,
                         last_round, copy>>
      BY <2>5 DEF SignalUnlock, Unlocked
    <3>2. rpc' \in [Readers -> {"idle", "check", "blocking", "wait", "wake",
                                "take", "copy"}]
      BY <3>1 DEF Woken, Waiting, TypeOK
    <3> QED BY <2>1, <3>1, <3>2 DEF TypeOK
  <2> QED BY <1>2, <2>2, <2>3, <2>4, <2>5 DEF MainThread
<1>3. ASSUME NEW r \in Readers, Call(r) \/ InCall(r) PROVE Typed'
  <2>1. StatusInv'
    BY <1>3, ReaderFrame DEF StatusInv
  <2>2. CASE CopyUnlock(r)
    BY <2>1, <2>2, Numbers DEF CopyUnlock, TypeOK
  <2>3. CASE ~CopyUnlock(r)
    BY <1>3, <2>1, <2>3, ZenonT(30)
       DEF Call, InCall, Check, CondWait, Wake, SetRead, TypeOK
  <2> QED BY <2>2, <2>3
<1>4. CASE UNCHANGED vars
  BY <1>4 DEF vars, TypeOK, StatusInv
<1> QED BY <1>1, <1>2, <1>3, <1>4 DEF Next

LEMMA TypedInit == Init => Typed
<1> SUFFICES ASSUME Init PROVE Typed
  OBVIOUS
<1>1. /\ stats \in StatsStruct /\ stats.current_read = 0
      /\ copy \in [Readers -> Nat]
  BY DEF Init, StatsStruct, Statuses
<1>2. total_tx_rx \in 0 .. FileSize /\ stats.current_read <= total_tx_rx
  BY <1>1, FileSizeAssumption DEF Init
<1>3. TypeOK
  BY <1>1, <1>2 DEF Init, TypeOK, Statuses
<1>4. StatusInv
  BY DEF Init, StatusInv
<1> QED BY <1>3, <1>4 DEF Typed

\* The types; and what is published never runs ahead of the transfer
\* (tb_set_l_stats 414-431).
THEOREM TypeCorrect == Spec => []TypeOK
<1>1. Typed => TypeOK
  BY DEF Typed
<1> QED BY <1>1, TypedInit, TypedStep, PTL DEF Spec
-----------------------------------------------------------------------------
(* Nothing is missed. *)

\* From one clearing of read to the next publication, read says that some
\* thread holds the stats or is about to copy them.
ReadInv ==
    read = 1 /\ mpc \in {"spin", "signal", "test", "set", "done"} =>
        \E r \in Readers :
            copy[r] = stats.current_read \/ rpc[r] = "copy"

\* The last round of the monitor finds a listener that changes no more.
FinalInv ==
    /\ mpc \in {"spin", "test"} => ~last_round
    /\ mpc = "done" => last_round
    /\ last_round =>
        /\ lpc = "done"
        /\ mpc # "set" => stats.current_read = total_tx_rx
        /\ mpc \in {"read", "signal", "done"} => stats.l_status = status

LEMMA ReadStep == Typed /\ ReadInv /\ [Next]_vars => ReadInv'
<1> SUFFICES ASSUME Typed, ReadInv, [Next]_vars PROVE ReadInv'
  OBVIOUS
<1>0. /\ rpc \in [Readers -> {"idle", "check", "blocking", "wait", "wake",
                              "take", "copy"}]
      /\ copy \in [Readers -> Nat]
  BY DEF Typed, TypeOK
<1>1. CASE ListenerThread
  BY <1>1, ListenerFrame DEF ReadInv
<1>2. CASE MainThread
  <2>1. CASE MonitorSpin \/ MonitorTest
    BY <2>1 DEF MonitorSpin, MonitorTest, AfterTest, ReadInv
  <2>2. CASE SetCurrentRead \/ SetStatus
    <3>1. mpc' \in {"status", "read"}
      BY <2>2 DEF SetCurrentRead, SetStatus
    <3> QED BY <3>1 DEF ReadInv
  <2>3. CASE ClearRead
    <3>1. read' # 1
      BY <2>3 DEF ClearRead, Cleared
    <3> QED BY <3>1 DEF ReadInv
  <2>4. CASE SignalUnlock
    <3>1. UNCHANGED <<read, stats, copy>> /\ mpc = "signal" /\ rpc' \in Woken
      BY <2>4 DEF SignalUnlock
    <3>2. \A r \in Readers : rpc[r] = "copy" => rpc'[r] = "copy"
      BY <1>0, <3>1 DEF Woken, Waiting
    <3> QED BY <3>1, <3>2 DEF ReadInv
  <2> QED BY <1>2, <2>1, <2>2, <2>3, <2>4 DEF MainThread
<1>3. ASSUME NEW r \in Readers, Call(r) \/ InCall(r) PROVE ReadInv'
  <2>0. stats' = stats /\ mpc' = mpc
    BY <1>3, ReaderFrame
  <2>1. CASE SetRead(r)
    <3>1. rpc'[r] = "copy"
      BY <1>0, <2>1 DEF SetRead
    <3> QED BY <3>1 DEF ReadInv
  <2>2. CASE CopyUnlock(r)
    <3>1. copy'[r] = stats'.current_read
      BY <1>0, <2>0, <2>2 DEF CopyUnlock
    <3> QED BY <3>1 DEF ReadInv
  <2>3. CASE ~SetRead(r) /\ ~CopyUnlock(r)
    <3>1. /\ copy' = copy /\ read' = read
          /\ rpc[r] # "copy" /\ \E pc : rpc' = [rpc EXCEPT ![r] = pc]
      BY <1>3, <2>3 DEF Call, InCall, Check, CondWait, Wake
    <3>2. \A q \in Readers : rpc[q] = "copy" => rpc'[q] = "copy"
      BY <1>0, <3>1
    <3> QED BY <2>0, <3>1, <3>2 DEF ReadInv
  <2> QED BY <2>1, <2>2, <2>3
<1>4. CASE UNCHANGED vars
  BY <1>4 DEF vars, ReadInv
<1> QED BY <1>1, <1>2, <1>3, <1>4 DEF Next

LEMMA FinalStep == Typed /\ FinalInv /\ [Next]_vars => FinalInv'
<1> SUFFICES ASSUME Typed, FinalInv, [Next]_vars PROVE FinalInv'
  OBVIOUS
<1>1. CASE ListenerThread
  <2>1. lpc # "done"
    BY <1>1 DEF ListenerThread, ListenerConnects, Send, TryLockToClose, Close,
                TbExit, Fails, AbortLock, AbortClose, TbAbort
  <2> QED BY <1>1, <2>1, ListenerFrame DEF FinalInv
<1>2. CASE MainThread
  <2>0. UNCHANGED <<status, total_tx_rx, lpc>>
    BY <1>2, MainFrame
  <2>1. CASE MonitorTest
    <3>1. status \in Ending => lpc = "done"
      BY DEF Typed, TypeOK, StatusInv, Ending
    <3>2. mpc' = "set" /\ last_round' = (status \in Ending)
      BY <2>1 DEF MonitorTest, AfterTest
    <3> QED BY <2>0, <3>1, <3>2 DEF FinalInv
  <2>2. CASE SetCurrentRead
    <3>1. /\ stats'.current_read = total_tx_rx /\ mpc' = "status"
          /\ last_round' = last_round
      BY <2>2 DEF SetCurrentRead, CurrentRead, Typed, TypeOK, StatsStruct
    <3> QED BY <2>0, <3>1 DEF FinalInv
  <2>3. CASE SetStatus
    <3>1. /\ stats'.current_read = stats.current_read
          /\ stats'.l_status = status /\ mpc = "status" /\ mpc' = "read"
          /\ last_round' = last_round
      BY <2>3 DEF SetStatus, Typed, TypeOK, StatsStruct
    <3> QED BY <2>0, <3>1 DEF FinalInv
  <2>4. CASE MonitorSpin \/ ClearRead \/ SignalUnlock
    BY <2>0, <2>4 DEF MonitorSpin, ClearRead, SignalUnlock, FinalInv
  <2> QED BY <1>2, <2>1, <2>2, <2>3, <2>4 DEF MainThread
<1>3. ASSUME NEW r \in Readers, Call(r) \/ InCall(r) PROVE FinalInv'
  BY <1>3, ReaderFrame DEF FinalInv
<1>4. CASE UNCHANGED vars
  BY <1>4 DEF vars, FinalInv
<1> QED BY <1>1, <1>2, <1>3, <1>4 DEF Next

\* Although the lock excludes nobody, no published update is missed, and the
\* last one is the end of the transfer (tb_ex_get_stat_cpy 390-405,
\* tb_monitor 428).
THEOREM NothingMissed == Spec => []NothingUnpublished
<1>1. Init => ReadInv /\ FinalInv
  BY DEF Init, ReadInv, FinalInv
<1>2. Typed /\ ReadInv => NoMissedUpdate
  <2> SUFFICES ASSUME Typed, ReadInv, read = 1,
                      mpc \in {"spin", "test", "done"},
                      \A r \in Readers : rpc[r] \in {"idle", "wait"}
               PROVE  \E r \in Readers : Seen(r) = stats
    BY DEF NoMissedUpdate
  <2>1. PICK r \in Readers : copy[r] = stats.current_read
    BY DEF ReadInv
  <2>2. stats \in [current_read : Nat, l_status : Statuses]
    BY DEF Typed, TypeOK, StatsStruct
  <2>3. Seen(r) = stats
    BY <2>1, <2>2 DEF Seen
  <2> QED BY <2>3
<1>3. Typed /\ FinalInv => FinalStatsPublished
  <2> SUFFICES ASSUME Typed, FinalInv, mpc = "done"
               PROVE /\ stats = [current_read |-> total_tx_rx,
                                 l_status |-> status]
                     /\ status \in Ending
    BY DEF FinalStatsPublished
  <2>1. /\ stats.current_read = total_tx_rx /\ stats.l_status = status
        /\ lpc = "done"
    BY DEF FinalInv
  <2>2. stats \in [current_read : Nat, l_status : Statuses]
    BY DEF Typed, TypeOK, StatsStruct
  <2> QED BY <2>1, <2>2 DEF Typed, StatusInv
<1>4. NoMissedUpdate /\ FinalStatsPublished => NothingUnpublished
  BY DEF NothingUnpublished
<1> QED BY TypedInit, TypedStep, ReadStep, FinalStep, <1>1, <1>2, <1>3, <1>4,
           PTL DEF Spec
-----------------------------------------------------------------------------
(* Copies go forward. *)

LEMMA RankValues ==
    /\ Rank["CREATED"] = 0 /\ Rank["CONNECTED"] = 1
    /\ Rank["DISCONNECTED"] = 2 /\ Rank["EXITING"] = 3 /\ Rank["ABORTING"] = 3
    /\ \A s \in Statuses : Rank[s] \in 0 .. 3
BY DEF Rank, Statuses

\* What is copied comes from what is published, and that from the listener.
ForwardInv ==
    /\ Rank[stats.l_status] <= Rank[status]
    /\ \A r \in Readers : copy[r] <= stats.current_read

\* The status of the listener and its total never go back.
LEMMA ListenerForward ==
    Typed /\ [Next]_vars =>
        /\ Rank[status] <= Rank[status'] /\ total_tx_rx <= total_tx_rx'
<1> SUFFICES ASSUME Typed, [Next]_vars
             PROVE Rank[status] <= Rank[status'] /\ total_tx_rx <= total_tx_rx'
  OBVIOUS
<1>0. /\ status \in Statuses /\ Rank[status] \in 0 .. 3
      /\ Rank[status] <= Rank[status] /\ total_tx_rx <= total_tx_rx
      /\ total_tx_rx \in Nat
  BY RankValues, Numbers DEF Typed, TypeOK
<1>1. CASE ListenerThread
  <2>1. CASE Send
    BY <1>0, <2>1, FileSizeAssumption DEF Send
  <2>2. CASE ~Send
    <3>1. total_tx_rx' = total_tx_rx
      BY <1>1, <2>2
         DEF ListenerThread, ListenerConnects, TryLockToClose, Close,
         TbExit, Fails, AbortLock, AbortClose, TbAbort
    <3>2. \/ status' = status
          \/ status = "CREATED" /\ status' = "CONNECTED"
          \/ status \in {"CREATED", "CONNECTED"} /\ status' = "DISCONNECTED"
          \/ status = "DISCONNECTED" /\ status' \in {"EXITING", "ABORTING"}
      BY <1>1, <2>2
         DEF ListenerThread, ListenerConnects, TryLockToClose, Close, TbExit,
             Fails, AbortLock, AbortClose, TbAbort, Typed, StatusInv
    <3> QED BY <1>0, <3>1, <3>2, RankValues
  <2> QED BY <2>1, <2>2
<1>2. CASE MainThread \/ UNCHANGED vars
  BY <1>0, <1>2, MainFrame DEF vars
<1>3. ASSUME NEW r \in Readers, Call(r) \/ InCall(r)
      PROVE Rank[status] <= Rank[status'] /\ total_tx_rx <= total_tx_rx'
  BY <1>0, <1>3, ReaderFrame
<1> QED BY <1>1, <1>2, <1>3 DEF Next

\* Nor does what is published.
LEMMA PublishedForward ==
    Typed /\ ForwardInv /\ [Next]_vars =>
        /\ stats.current_read <= stats'.current_read
        /\ Rank[stats.l_status] <= Rank[stats'.l_status]
        /\ Rank[stats'.l_status] <= Rank[status']
<1> SUFFICES ASSUME Typed, ForwardInv, [Next]_vars
             PROVE /\ stats.current_read <= stats'.current_read
                   /\ Rank[stats.l_status] <= Rank[stats'.l_status]
                   /\ Rank[stats'.l_status] <= Rank[status']
  OBVIOUS
<1>0. /\ stats.current_read \in Nat /\ total_tx_rx \in Nat
      /\ Rank[stats.l_status] \in 0 .. 3 /\ Rank[status] \in 0 .. 3
      /\ Rank[status'] \in 0 .. 3
      /\ Rank[stats.l_status] <= Rank[status]
      /\ Rank[status] <= Rank[status'] /\ stats \in StatsStruct
      /\ stats.current_read <= total_tx_rx
  BY RankValues, Numbers, ListenerForward, TypedStep
     DEF Typed, TypeOK, ForwardInv
<1>1. CASE SetCurrentRead
  <2>1. /\ stats'.current_read = total_tx_rx
        /\ stats'.l_status = stats.l_status
    BY <1>0, <1>1 DEF SetCurrentRead, CurrentRead, StatsStruct
  <2> QED BY <1>0, <2>1
<1>2. CASE SetStatus
  <2>1. /\ stats'.current_read = stats.current_read
        /\ stats'.l_status = status
    BY <1>0, <1>2 DEF SetStatus, StatsStruct
  <2> QED BY <1>0, <2>1
<1>3. CASE ~SetCurrentRead /\ ~SetStatus
  <2>1. stats' = stats
    BY <1>3, ListenerFrame, ReaderFrame
       DEF Next, MainThread, MonitorSpin, MonitorTest, ClearRead,
           SignalUnlock, vars
  <2> QED BY <1>0, <2>1
<1> QED BY <1>1, <1>2, <1>3

LEMMA ForwardStep ==
    Typed /\ ForwardInv /\ [Next]_vars =>
        /\ ForwardInv'
        /\ \A r \in Readers : copy[r] <= copy'[r]
<1> SUFFICES ASSUME Typed, ForwardInv, [Next]_vars, NEW r \in Readers
             PROVE copy'[r] <= stats'.current_read /\ copy[r] <= copy'[r]
  BY PublishedForward DEF ForwardInv
<1>0. /\ stats.current_read \in Nat /\ stats'.current_read \in Nat
      /\ copy[r] \in Nat /\ copy[r] <= stats.current_read
      /\ stats.current_read <= stats'.current_read
  BY Numbers, TypedStep, PublishedForward DEF Typed, TypeOK, StatsStruct,
     ForwardInv
<1>1. copy'[r] = copy[r] \/ copy'[r] = stats.current_read
  <2>1. copy \in [Readers -> Nat]
    BY DEF Typed, TypeOK
  <2>2. CASE \E q \in Readers : CopyUnlock(q)
    BY <2>1, <2>2 DEF CopyUnlock
  <2>3. CASE ~\E q \in Readers : CopyUnlock(q)
    BY <2>3, ListenerFrame, MainFrame
       DEF Next, Call, InCall, Check, CondWait, Wake, SetRead, vars
  <2> QED BY <2>2, <2>3
<1> QED BY <1>0, <1>1

\* What one thread is given never goes back, in bytes or in status, whoever
\* writes the struct meanwhile (tb_ex_get_stat_cpy 401).
THEOREM CopiesForward == Spec => CopiesGoForward
<1>1. Init => ForwardInv
  <2> SUFFICES ASSUME Init PROVE ForwardInv
    OBVIOUS
  <2>1. /\ stats.l_status = "CREATED" /\ status = "CREATED"
        /\ stats.current_read = 0
        /\ \A r \in Readers : copy[r] = 0
    BY DEF Init
  <2> QED BY <2>1, RankValues DEF ForwardInv
<1>2. Typed /\ ForwardInv /\ [Next]_vars =>
        [\A r \in Readers :
            /\ Seen(r).current_read <= Seen(r)'.current_read
            /\ Rank[Seen(r).l_status] <= Rank[Seen(r)'.l_status]
        ]_<<copy, stats>>
  BY ForwardStep, PublishedForward DEF Seen
<1>3. Typed /\ ForwardInv /\ [Next]_vars => ForwardInv'
  BY ForwardStep
<1> QED BY TypedInit, TypedStep, <1>1, <1>2, <1>3, PTL
        DEF Spec, CopiesGoForward
=============================================================================
