------------------------------- MODULE Stats -------------------------------
(***************************************************************************)
(* How the stats of a listener are handed to the programs that use TestBed *)
(* as a library: the main thread publishes them (tb_monitor calling        *)
(* tb_set_l_stats every m_sleep), and external threads copy them           *)
(* (tb_ex_get_stat_cpy), while the listener thread transfers and ends      *)
(* (tb_stream_client, tb_exit, tb_abort).                                  *)
(*                                                                         *)
(* stat_lock is a plain pthread mutex.  pthread_mutex_trylock leaves it    *)
(* locked whether or not it was, and the caller, which ignores the result, *)
(* goes on; pthread_mutex_unlock frees it, whoever calls.  Only            *)
(* pthread_mutex_lock and the return of pthread_cond_wait wait for it.     *)
(***************************************************************************)
EXTENDS Naturals, FiniteSets

CONSTANTS
    Readers,   \* the external threads
    FileSize   \* what the listener thread has to send

ASSUME ReadersAssumption == IsFiniteSet(Readers)
ASSUME FileSizeAssumption == FileSize \in Nat

VARIABLES
    status,        \* listener->status
    total_tx_rx,   \* listener->total_tx_rx
    sock_d,        \* listener->sock_d, "none" for -1
    stat_lock,     \* is listener->stat_lock locked?
    read,          \* listener->read
    stats,         \* *listener->stats: current_read, and other_info->l_status,
                   \* which is behind a pointer
    lpc, mpc, last_round,
    rpc,           \* the external threads; "wait": in the queue of stat_cond
    copy           \* current_read in the struct each of them has had filled;
                   \* the copied other_info points to the listener's own

vars == <<status, total_tx_rx, sock_d, stat_lock, read, stats, lpc, mpc,
          last_round, rpc, copy>>

Statuses == {"CREATED", "CONNECTED", "DISCONNECTED", "EXITING", "ABORTING"}
Ending == {"EXITING", "ABORTING"}
StatsStruct == [current_read : Nat, l_status : Statuses]

Init ==
    /\ status = "CREATED" /\ total_tx_rx = 0 /\ sock_d = "fd"
    /\ stat_lock = FALSE /\ read = 0
    /\ stats = [current_read |-> 0, l_status |-> "CREATED"]
    /\ lpc = "connect" /\ mpc = "spin" /\ last_round = FALSE
    /\ rpc = [r \in Readers |-> "idle"]
    /\ copy = [r \in Readers |-> 0]
-----------------------------------------------------------------------------
(* The listener thread: tb_stream_client, or any client of its shape. *)

ListenerConnects ==
    /\ lpc = "connect"
    /\ lpc' = "send" /\ status' = "CONNECTED"
    /\ UNCHANGED <<total_tx_rx, sock_d, stat_lock, read, stats, mpc,
                   last_round, rpc, copy>>

Send ==
    /\ lpc = "send" /\ total_tx_rx < FileSize
    /\ \E rc \in 1 .. FileSize - total_tx_rx : total_tx_rx' = total_tx_rx + rc
    /\ UNCHANGED <<status, sock_d, stat_lock, read, stats, lpc, mpc,
                   last_round, rpc, copy>>

\* The end of the transfer: the connection is closed under stat_lock.
TryLockToClose ==
    /\ lpc = "send" /\ total_tx_rx = FileSize
    /\ lpc' = "close" /\ stat_lock' = TRUE
    /\ UNCHANGED <<status, total_tx_rx, sock_d, read, stats, mpc, last_round,
                   rpc, copy>>

Close ==
    /\ lpc = "close"
    /\ lpc' = "exit" /\ status' = "DISCONNECTED" /\ sock_d' = "none"
    /\ stat_lock' = FALSE
    /\ UNCHANGED <<total_tx_rx, read, stats, mpc, last_round, rpc,
                   copy>>

TbExit ==
    /\ lpc = "exit" /\ lpc' = "done" /\ status' = "EXITING"
    /\ UNCHANGED <<total_tx_rx, sock_d, stat_lock, read, stats, mpc,
                   last_round, rpc, copy>>

\* connect or send failed: tb_abort, which waits for stat_lock.
Fails ==
    /\ lpc \in {"connect", "send"} /\ lpc' = "abort"
    /\ UNCHANGED <<status, total_tx_rx, sock_d, stat_lock, read, stats, mpc,
                   last_round, rpc, copy>>

AbortLock ==
    /\ lpc = "abort" /\ ~stat_lock
    /\ lpc' = "abort_close" /\ stat_lock' = TRUE
    /\ UNCHANGED <<status, total_tx_rx, sock_d, read, stats, mpc, last_round,
                   rpc, copy>>

AbortClose ==
    /\ lpc = "abort_close" /\ lpc' = "abort_status"
    /\ status' = "DISCONNECTED" /\ stat_lock' = FALSE
    /\ UNCHANGED <<total_tx_rx, sock_d, read, stats, mpc, last_round, rpc,
                   copy>>

TbAbort ==
    /\ lpc = "abort_status" /\ lpc' = "done" /\ status' = "ABORTING"
    /\ UNCHANGED <<total_tx_rx, sock_d, stat_lock, read, stats, mpc,
                   last_round, rpc, copy>>

ListenerThread ==
    \/ ListenerConnects \/ Send \/ TryLockToClose \/ Close \/ TbExit
    \/ Fails \/ AbortLock \/ AbortClose \/ TbAbort
-----------------------------------------------------------------------------
(* The main thread: tb_monitor and tb_set_l_stats. *)

\* while(sock_d == -1): the main thread passes if it looks before the
\* connection is closed, and spins for ever if it comes later.
MonitorSpin ==
    /\ mpc = "spin" /\ sock_d # "none"
    /\ mpc' = "test"
    /\ UNCHANGED <<status, total_tx_rx, sock_d, stat_lock, read, stats, lpc,
                   last_round, rpc, copy>>

\* Slip: the loop is not followed by a last read.
NoFinalRead == IF status \in Ending THEN "done" ELSE "set"
AfterTest == "set"

\* while(status is not EXITING nor ABORTING); when it is, one last read.
MonitorTest ==
    /\ mpc = "test"
    /\ mpc' = AfterTest /\ last_round' = (status \in Ending)
    /\ UNCHANGED <<status, total_tx_rx, sock_d, stat_lock, read, stats, lpc,
                   rpc, copy>>

\* Slip: the total is added to the last one.
AddedToRead == stats.current_read + total_tx_rx
\* Slip: only what came since the last read.
SinceLastRead == total_tx_rx - stats.current_read
CurrentRead == total_tx_rx

SetCurrentRead ==
    /\ mpc = "set" /\ mpc' = "status"
    /\ stat_lock' = TRUE
    /\ stats' = [stats EXCEPT !.current_read = CurrentRead]
    /\ UNCHANGED <<status, total_tx_rx, sock_d, read, lpc, last_round, rpc,
                   copy>>

SetStatus ==
    /\ mpc = "status" /\ mpc' = "read"
    /\ stats' = [stats EXCEPT !.l_status = status]
    /\ UNCHANGED <<status, total_tx_rx, sock_d, stat_lock, read, lpc,
                   last_round, rpc, copy>>

Cleared == 0

ClearRead ==
    /\ mpc = "read" /\ mpc' = "signal" /\ read' = Cleared
    /\ UNCHANGED <<status, total_tx_rx, sock_d, stat_lock, stats, lpc,
                   last_round, rpc, copy>>

Waiting == {r \in Readers : rpc[r] = "wait"}

\* Slip: nobody is signalled.
NoneWoken == {rpc}
\* pthread_cond_signal wakes one of the threads that wait, if there is one.
Woken ==
    IF Waiting = {} THEN {rpc}
    ELSE {[rpc EXCEPT ![r] = "wake"] : r \in Waiting}

\* Slip: the unlock is forgotten.
StillLocked == stat_lock
Unlocked == FALSE

SignalUnlock ==
    /\ mpc = "signal" /\ mpc' = IF last_round THEN "done" ELSE "test"
    /\ rpc' \in Woken /\ stat_lock' = Unlocked
    /\ UNCHANGED <<status, total_tx_rx, sock_d, read, stats, lpc, last_round,
                   copy>>

MainThread ==
    \/ MonitorSpin \/ MonitorTest
    \/ SetCurrentRead \/ SetStatus \/ ClearRead \/ SignalUnlock
-----------------------------------------------------------------------------
(* The external threads: tb_ex_get_stat_cpy. *)

Call(r) ==
    /\ rpc[r] = "idle"
    /\ rpc' = [rpc EXCEPT ![r] = "check"] /\ stat_lock' = TRUE
    /\ UNCHANGED <<status, total_tx_rx, sock_d, read, stats, lpc, mpc,
                   last_round, copy>>

MustWait == read = 1 /\ status \notin Ending

\* The test, which precedes the wait.
Check(r) ==
    /\ rpc[r] = "check"
    /\ rpc' = [rpc EXCEPT ![r] = IF MustWait THEN "blocking" ELSE "take"]
    /\ UNCHANGED <<status, total_tx_rx, sock_d, stat_lock, read, stats, lpc,
                   mpc, last_round, copy>>

\* pthread_cond_wait unlocks stat_lock and queues the thread in one step.
CondWait(r) ==
    /\ rpc[r] = "blocking"
    /\ rpc' = [rpc EXCEPT ![r] = "wait"] /\ stat_lock' = FALSE
    /\ UNCHANGED <<status, total_tx_rx, sock_d, read, stats, lpc, mpc,
                   last_round, copy>>

\* ... and returns once it has locked stat_lock again.
Wake(r) ==
    /\ rpc[r] = "wake" /\ ~stat_lock
    /\ rpc' = [rpc EXCEPT ![r] = "take"] /\ stat_lock' = TRUE
    /\ UNCHANGED <<status, total_tx_rx, sock_d, read, stats, lpc, mpc,
                   last_round, copy>>

\* listener->read = 1, before the copy.
SetRead(r) ==
    /\ rpc[r] = "take"
    /\ rpc' = [rpc EXCEPT ![r] = "copy"] /\ read' = 1
    /\ UNCHANGED <<status, total_tx_rx, sock_d, stat_lock, stats, lpc, mpc,
                   last_round, copy>>

\* memcpy: current_read is copied, other_info is the same pointer.
CopyUnlock(r) ==
    /\ rpc[r] = "copy"
    /\ rpc' = [rpc EXCEPT ![r] = "idle"] /\ stat_lock' = FALSE
    /\ copy' = [copy EXCEPT ![r] = stats.current_read]
    /\ UNCHANGED <<status, total_tx_rx, sock_d, read, stats, lpc, mpc,
                   last_round>>

\* What thread r reads in its struct.
Seen(r) == [current_read |-> copy[r], l_status |-> stats.l_status]

InCall(r) == Check(r) \/ CondWait(r) \/ Wake(r) \/ SetRead(r) \/ CopyUnlock(r)

Next ==
    \/ ListenerThread \/ MainThread
    \/ \E r \in Readers : Call(r) \/ InCall(r)

Spec == Init /\ [][Next]_vars

(* The main thread and a thread inside a call are scheduled.  A mutex that   *)
(* is freed again and again is granted in the end.  The listener thread may  *)
(* wait for its peer for ever, but ends once it closes or aborts.            *)
Fairness ==
    /\ WF_vars(MainThread)
    /\ WF_vars(Close \/ TbExit \/ AbortClose \/ TbAbort) /\ SF_vars(AbortLock)
    /\ \A r \in Readers : WF_vars(InCall(r)) /\ SF_vars(Wake(r))

FairSpec == Spec /\ Fairness
-----------------------------------------------------------------------------
(* Properties. *)

\* Every variable keeps to the values the code gives it; what is published
\* never runs ahead of the transfer.
TypeOK ==
    /\ status \in Statuses /\ total_tx_rx \in 0 .. FileSize
    /\ stat_lock \in BOOLEAN /\ read \in {0, 1}
    /\ sock_d \in {"fd", "none"}
    /\ stats \in StatsStruct /\ copy \in [Readers -> Nat]
    /\ lpc \in {"connect", "send", "close", "exit", "abort", "abort_close",
               "abort_status", "done"}
    /\ mpc \in {"spin", "test", "set", "status", "read", "signal", "done"}
    /\ last_round \in BOOLEAN
    /\ rpc \in [Readers -> {"idle", "check", "blocking", "wait", "wake",
                           "take", "copy"}]
    /\ stats.current_read <= total_tx_rx

\* Although nothing excludes the monitor from the struct while it is copied,
\* what one thread finds in its struct goes forward: neither the bytes nor
\* the listener's status in it ever go back (tb_set_l_stats 414-431,
\* tb_ex_get_stat_cpy 401).
Rank == [s \in Statuses |->
    CASE s = "CREATED" -> 0 [] s = "CONNECTED" -> 1 [] s = "DISCONNECTED" -> 2
      [] OTHER -> 3]
CopiesGoForward ==
    [][\A r \in Readers :
        /\ Seen(r).current_read <= Seen(r)'.current_read
        /\ Rank[Seen(r).l_status] <= Rank[Seen(r)'.l_status]]_<<copy, stats>>

\* Nothing published is missed: whenever read says that the stats have been
\* read and nobody is at work on them, some thread holds them (read is set
\* before the copy is made, tb_ex_get_stat_cpy 400-401).
NoMissedUpdate ==
    /\ read = 1 /\ mpc \in {"spin", "test", "done"}
    /\ \A r \in Readers : rpc[r] \in {"idle", "wait"}
    => \E r \in Readers : Seen(r) = stats

\* What remains published after the main thread has left tb_monitor is the
\* end of the transfer: its last byte and its last status (tb_monitor 428).
FinalStatsPublished ==
    mpc = "done" =>
        stats = [current_read |-> total_tx_rx, l_status |-> status]
        /\ status \in Ending

\* A caller that asks often enough has everything in the end: no update is
\* missed while the monitor runs, and the last one is there after it.
NothingUnpublished == NoMissedUpdate /\ FinalStatsPublished

\* A thread waits for new stats only as long as the monitor runs, whatever
\* the transfer does: once the monitor is past its wait for the socket, each
\* publication lets one of them go (pthread_cond_signal, tb_set_l_stats 436).
BlockedOnlyAtEnd ==
    Waiting # {} /\ mpc # "spin" ~>
        (mpc = "done" \/ \E r \in Readers : rpc[r] = "wake")

\* tb_abort is not held up by stat_lock for ever, though the monitor and the
\* external threads lock it again and again (tb_abort 494).
AbortCompletes == lpc = "abort" ~> status = "ABORTING"
=============================================================================
