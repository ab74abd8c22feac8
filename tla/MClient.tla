------------------------------ MODULE MClient ------------------------------
(***************************************************************************)
(* The transfer of a client of several connections: tb_stream_m_client,    *)
(* tb_udt_m_client and tb_utp_m_client cut the data in parts, start a      *)
(* session with a thread for each, and join them, while the main thread    *)
(* adds up what the sessions have sent and collects their stats            *)
(* (tb_monitor, tb_set_m_stats).                                           *)
(*                                                                         *)
(* pthread_mutex_trylock, whose result is ignored, takes a mutex that is   *)
(* free and leaves another alone; pthread_mutex_unlock frees it, whoever   *)
(* calls.  Only pthread_mutex_lock waits.                                  *)
(***************************************************************************)
EXTENDS ClientStart, Functions

CONSTANTS
    NumConn,    \* num_conn: 4, or 2 for uTP
    PackSize    \* the most that one send takes

ASSUME ConnAssumption == NumConn \in Nat \ {0} /\ PackSize \in Nat \ {0}

VARIABLES
    session,      \* the sessions, in the order of the list
    added,        \* how many of them are in the list
    at,           \* the one that the listener thread is at
    total_tx_rx,  \* total_tx_rx, which is also stats->current_read
    cur,          \* the one that the main thread is at
    final         \* is this its read after the end of the test?

transfer == <<session, added, at, total_tx_rx, cur, final>>
vars == <<start, transfer>>

Sessions == 1 .. NumConn
Session ==
    [pc : {"none", "connect", "send", "done"},
     status : {"CREATED", "ADDR_RES", "CONNECTED", "COMPLETE", "DISCONNECTED"},
     total_bytes : Nat, sock_d : {"none", "open", "closed"},
     stat_lock : {"free", "main", "listener"}]
NewSession ==
    [pc |-> "none", status |-> "CREATED", total_bytes |-> 0,
     sock_d |-> "none", stat_lock |-> "free"]

\* The size of a part: C's integer division, which makes 0 of -1.
DataSize == IF file_size < 0 THEN 0 ELSE file_size \div NumConn

TransferInit ==
    /\ session = [i \in Sessions |-> NewSession] /\ added = 0 /\ at = 1
    /\ total_tx_rx = 0 /\ cur = 1 /\ final = FALSE

Init == StartInit /\ TransferInit

\* What the process forgets when it ends.
ForgetTransfer ==
    /\ session' = [i \in Sessions |-> NewSession] /\ added' = 0 /\ at' = 1
    /\ total_tx_rx' = 0 /\ cur' = 1 /\ final' = FALSE

ThreadsEnded == \A i \in Sessions : session[i].pc \in {"none", "done"}
Exit == LastThreadEnds /\ ThreadsEnded /\ ForgetTransfer
Killed == Dies /\ ForgetTransfer
-----------------------------------------------------------------------------
(* The listener thread: tb_stream_m_client, tb_udt_m_client,                *)
(* tb_utp_m_client.                                                         *)

rest == <<status, sock_d, stat_lock, data, file, writing, cut, total_tx_rx,
          cur, final>>

\* uTP: setsockopt fails before there is a session.
SetupFails ==
    /\ protocol = "uTP" /\ added = 0 /\ ListenerGoes("session", "exit")
    /\ UNCHANGED <<rest, session, added, at>>

\* The session gets a part, joins the list, and gets a thread.
CreateSession ==
    /\ ListenerGoes("session", IF at = NumConn THEN "wait" ELSE "session")
    /\ session' = [session EXCEPT ![at] =
         [@ EXCEPT !.pc = "connect", !.status = "ADDR_RES",
                   !.sock_d = IF protocol = "uTP" THEN "none" ELSE "open"]]
    /\ added' = at /\ at' = IF at = NumConn THEN 1 ELSE at + 1
    /\ UNCHANGED rest

\* No address, or no socket: tb_abort, with the other sessions at work.
CreateFails ==
    /\ ListenerGoes("session", "abort")
    /\ UNCHANGED <<rest, session, added, at>>

\* while(start->status == SESSION_CREATED);
WaitForFirst ==
    /\ session[1].status # "CREATED" /\ ListenerGoes("wait", "join")
    /\ status' = "CONNECTED"
    /\ UNCHANGED <<sock_d, stat_lock, data, file, writing, cut, transfer>>

Join ==
    /\ session[at].pc = "done" /\ ListenerGoes("join", "lock")
    /\ UNCHANGED <<rest, session, added, at>>

\* Slip: the lock is only tried.
LockTried(i) == TRUE
LockFree(i) == session[i].stat_lock = "free"

LockSession ==
    /\ LockFree(at) /\ ListenerGoes("lock", "close")
    /\ session' = [session EXCEPT ![at].stat_lock = "listener"]
    /\ UNCHANGED <<rest, added, at>>
CloseSocket ==
    /\ ListenerGoes("close", "unlock")
    /\ session' = [session EXCEPT ![at].sock_d =
                      IF @ = "open" THEN "closed" ELSE @]
    /\ UNCHANGED <<rest, added, at>>

\* Slip: the loop ends with the first session.
FirstJoined == TRUE
AllJoined == at = NumConn
AfterSessions == IF protocol = "UDT" THEN "cleanup lock" ELSE "disconnect"

UnlockSession ==
    /\ ListenerGoes("unlock", IF AllJoined THEN AfterSessions ELSE "join")
    /\ session' = [session EXCEPT ![at].stat_lock = "free"]
    /\ at' = IF AllJoined THEN at ELSE at + 1
    /\ UNCHANGED <<rest, added>>

Disconnect ==
    /\ ListenerGoes("disconnect", "exit") /\ status' = "DISCONNECTED"
    /\ UNCHANGED <<sock_d, stat_lock, data, file, writing, cut, transfer>>

\* UDT really locks stat_lock for the status and udt_cleanup.
CleanupLock ==
    /\ stat_lock = "free" /\ ListenerGoes("cleanup lock", "cleanup")
    /\ stat_lock' = "listener"
    /\ UNCHANGED <<status, sock_d, data, file, writing, cut, transfer>>
Cleanup ==
    /\ ListenerGoes("cleanup", "exit") /\ status' = "DISCONNECTED"
    /\ stat_lock' = "free"
    /\ UNCHANGED <<sock_d, data, file, writing, cut, transfer>>

ListenerThread ==
    \/ Client /\ UNCHANGED transfer
    \/ SetupFails \/ CreateSession \/ CreateFails \/ WaitForFirst \/ Join
    \/ LockSession \/ CloseSocket \/ UnlockSession \/ Disconnect
    \/ CleanupLock \/ Cleanup
-----------------------------------------------------------------------------
(* A session's thread: tb_stream_connection, tb_udt_m_connection,           *)
(* tb_utp_m_client_conn.                                                    *)

SessionGoes(i, from, new) ==
    /\ session[i].pc = from /\ session' = [session EXCEPT ![i] = new]
    /\ UNCHANGED <<start, added, at, total_tx_rx, cur, final>>

Connect(i) ==
    SessionGoes(i, "connect",
                [session[i] EXCEPT !.pc = "send", !.status = "CONNECTED"])
\* connect or send fails: the thread ends, and leaves the status as it is.
\* tb_utp_connect never fails.
Fails(i) ==
    \E from \in {"connect", "send"} \ (IF protocol = "uTP" THEN {"connect"}
                                      ELSE {}) :
        SessionGoes(i, from, [session[i] EXCEPT !.pc = "done"])

Left(i) == DataSize - session[i].total_bytes

\* Slip: the last pack is a whole one.
WholePack(i) == PackSize
Size(i) == IF Left(i) < PackSize THEN Left(i) ELSE PackSize

Send(i) ==
    /\ data # "null" /\ Left(i) > 0
    /\ \E rc \in 1 .. Size(i) :
         SessionGoes(i, "send", [session[i] EXCEPT !.total_bytes = @ + rc])

\* Data that could not be had: send fails, but UDT and uTP copy from NULL.
SendNull(i) ==
    /\ session[i].pc = "send" /\ data = "null" /\ Left(i) > 0
    /\ protocol \in {"UDT", "uTP"} /\ Killed

Complete(i) ==
    /\ Left(i) <= 0
    /\ SessionGoes(i, "send",
         [session[i] EXCEPT !.pc = "done",
            !.status = IF protocol = "uTP" THEN "DISCONNECTED"
                       ELSE "COMPLETE"])

SessionThread(i) ==
    Connect(i) \/ Fails(i) \/ Send(i) \/ SendNull(i) \/ Complete(i)
-----------------------------------------------------------------------------
(* The main thread: tb_monitor and tb_set_m_stats. *)

MonitorGoes(from, to) ==
    /\ mpc = from /\ mpc' = to
    /\ UNCHANGED <<protocol, named, lpc, status, sock_d, file_size, file,
                   writing, cut, added, at>>

\* Slip: the loop is not followed by a last read.
NoFinalRead == IF status \in Ending THEN "destroy" ELSE "reset"
AfterTest == "reset"

\* The test of the loop; when it fails, one read is left.
MonitorTest ==
    /\ MonitorGoes("test", AfterTest) /\ final' = (status \in Ending)
    /\ UNCHANGED <<stat_lock, data, session, total_tx_rx, cur>>

ResetCount ==
    /\ MonitorGoes("reset", IF added = 0 THEN "end" ELSE "add")
    /\ stat_lock' = IF stat_lock = "free" THEN "main" ELSE stat_lock
    /\ total_tx_rx' = 0 /\ cur' = 1
    /\ UNCHANGED <<data, session, final>>

AddSession ==
    /\ MonitorGoes("add", IF session[cur].status = "CONNECTED" THEN "collect"
                          ELSE "next")
    /\ session' = [session EXCEPT ![cur].stat_lock =
                      IF @ = "free" THEN "main" ELSE @]
    /\ total_tx_rx' = total_tx_rx + session[cur].total_bytes
    /\ UNCHANGED <<stat_lock, data, cur, final>>

\* tb_get_stats, if the session was connected; then on to the next.
NextSession ==
    /\ \E from \in {"collect", "next"} :
         MonitorGoes(from, IF cur < added THEN "add" ELSE "end")
    /\ session' = [session EXCEPT ![cur].stat_lock = "free"]
    /\ cur' = IF cur < added THEN cur + 1 ELSE cur
    /\ UNCHANGED <<stat_lock, data, total_tx_rx, final>>

\* Slip: the unlock is forgotten.
StillLocked == stat_lock
Unlocked == "free"

EndStats ==
    /\ MonitorGoes("end", IF final THEN "destroy" ELSE "test")
    /\ stat_lock' = Unlocked
    /\ UNCHANGED <<data, session, total_tx_rx, cur, final>>

\* tb_destroy_listener, and pthread_exit.
DestroyListener ==
    /\ MonitorGoes("destroy", "done")
    /\ data' = IF data = "null" THEN data ELSE "freed"
    /\ UNCHANGED <<stat_lock, session, total_tx_rx, cur, final>>

MainThread ==
    \/ Starting /\ UNCHANGED transfer
    \/ MonitorTest \/ ResetCount \/ AddSession \/ NextSession \/ EndStats
    \/ DestroyListener

Next ==
    \/ ListenerThread \/ MainThread \/ Exit \/ Killed
    \/ \E i \in Sessions : SessionThread(i)

Spec == Init /\ [][Next]_vars

(* The threads run; the peer takes what is sent or the connection fails.  A *)
(* mutex that is freed again and again is granted in the end.               *)
Fairness ==
    /\ WF_vars(ListenerThread) /\ WF_vars(MainThread) /\ WF_vars(Exit)
    /\ \A i \in Sessions : WF_vars(SessionThread(i))
    /\ SF_vars(AbortLock /\ UNCHANGED transfer) /\ SF_vars(LockSession)
    /\ SF_vars(CleanupLock)

FairSpec == Spec /\ Fairness
-----------------------------------------------------------------------------
(* Properties. *)

\* Every variable keeps to the values the code gives it; no session sends
\* more than its part.
TypeOK ==
    /\ protocol \in Protocols /\ named \in BOOLEAN
    /\ status \in {"CREATED", "CONNECTED", "DISCONNECTED"} \cup Ending
    /\ sock_d \in {"none", "open", "closed"}
    /\ stat_lock \in {"free", "main", "listener"}
    /\ file_size \in {-1, 0, FileSize}
    /\ data \in {"null", "short", "whole", "freed"}
    /\ file \in {"absent", "short", "whole"} /\ writing \in BOOLEAN
    /\ cut \in BOOLEAN /\ final \in BOOLEAN
    /\ session \in [Sessions -> Session]
    /\ added \in 0 .. NumConn /\ at \in Sessions /\ cur \in Sessions
    /\ total_tx_rx \in Nat
    /\ \A i \in Sessions : session[i].total_bytes <= DataSize

\* The monitor asks no closed socket for its stats, but that of a session
\* that has failed, which stays SESSION_CONNECTED (tb_set_m_stats 473-476,
\* tb_stream_m_client 319-322).
Failed(i) ==
    session[i].pc = "done" /\ session[i].status \in {"ADDR_RES", "CONNECTED"}
CollectsFromOpenSocket ==
    mpc = "collect" => session[cur].sock_d = "open" \/ Failed(cur)

\* Unless the client aborts, the data that the sessions send from are freed
\* only after the last of them has ended (tb_stream_m_client 315-325,
\* tb_destroy_listener 256-260).
DataOutlivesSessions ==
    data = "freed" => ThreadsEnded \/ status = "ABORTING"

\* The last report of a client that exits is the sum of what its sessions
\* have sent; when none has failed, it lacks less than a unit for each
\* connection of the random data that were asked for (tb_monitor 428,
\* tb_stream_m_client 281).
FinalReport ==
    mpc = "done" /\ status = "EXITING" =>
        /\ total_tx_rx =
             SumFunction([i \in Sessions |-> session[i].total_bytes])
        /\ ~named /\ (\A i \in Sessions : ~Failed(i)) =>
             FileSize - total_tx_rx \in 0 .. NumConn - 1

\* A client sends uninitialised memory for a part of its file, which it takes
\* from a short file on the disk, only after an earlier client of this size
\* has died, run out of memory or filled the disk (tb_load_random_file 172,
\* tb_create_random 219).
LoadedWhole == data = "short" => cut

\* A client ends, whatever fails, and also when it aborts; but not over uTP,
\* whose main thread waits for a socket that is never set (tb_monitor 303).
ProcessEnds == (mpc = "create" /\ protocol # "uTP") ~> Gone
=============================================================================
