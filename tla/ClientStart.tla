---------------------------- MODULE ClientStart ----------------------------
(***************************************************************************)
(* A client of several connections, from its command line to the transfer, *)
(* and how its process ends: tb_parse, tb_start, tb_client, tb_exit and    *)
(* tb_abort.  What it sends is a file of random bytes that the first       *)
(* client of a size leaves on the disk for the next ones; a process that   *)
(* dies, or a disk that is full, leaves what stdio had written so far.     *)
(***************************************************************************)
EXTENDS Integers

CONSTANTS
    Protocols,  \* the protocols that are asked for
    FileSize    \* the size that is asked for, or that a named file has, in
                \* units of data

AllProtocols == {"TCP", "DCCP", "UDT", "uTP", "eUDP", "aUDT"}
ASSUME ProtocolsAssumption == Protocols \subseteq AllProtocols
ASSUME FileSizeAssumption == FileSize \in Nat

VARIABLES
    \* The command line: the protocol, and is a file named in it?
    protocol, named,
    \* The main thread and the listener thread.
    mpc, lpc,
    \* tb_listener_t; stat_lock is "free" or held by "main" or "listener".
    status, sock_d, stat_lock, file_size, data,
    \* The file on the disk, and does this process still have some of it?
    file, writing,
    cut         \* was a file left short: by a process that died or had no
                \* memory, or by a full disk?

start == <<protocol, named, mpc, lpc, status, sock_d, stat_lock, file_size,
           data, file, writing, cut>>

Ending == {"EXITING", "ABORTING"}
Gone == mpc = "gone"

StartInit ==
    /\ protocol \in Protocols /\ named \in BOOLEAN
    /\ mpc = "gone" /\ lpc = "none"
    /\ status = "CREATED" /\ sock_d = "none" /\ stat_lock = "free"
    /\ file_size = 0 /\ data = "null"
    /\ file = "absent" /\ writing = FALSE /\ cut = FALSE
-----------------------------------------------------------------------------
(* The process. *)

Run ==
    /\ Gone /\ mpc' = "create"
    /\ protocol' \in Protocols /\ named' \in BOOLEAN
    /\ UNCHANGED <<lpc, status, sock_d, stat_lock, file_size, data, file,
                   writing, cut>>

Forget ==
    /\ mpc' = "gone" /\ lpc' = "none"
    /\ status' = "CREATED" /\ sock_d' = "none" /\ stat_lock' = "free"
    /\ file_size' = 0 /\ data' = "null" /\ writing' = FALSE
    /\ UNCHANGED <<protocol, named>>

\* When the last thread ends, exit() writes what the FILE still holds, for
\* nobody closes it; nobody hears of it when the disk is full.
Flushed == IF writing THEN "whole" ELSE file

LastThreadEnds ==
    /\ mpc = "done" /\ lpc \in {"none", "done"} /\ Forget
    /\ \/ file' = Flushed /\ UNCHANGED cut
       \/ writing /\ file = "short" /\ UNCHANGED file /\ cut' = TRUE

\* A signal, or a fault.
Dies ==
    /\ ~Gone /\ cut' = (cut \/ (writing /\ file = "short"))
    /\ Forget /\ UNCHANGED file
-----------------------------------------------------------------------------
(* The main thread, until the listener thread runs. *)

Stop ==
    /\ mpc' = "done" /\ status' = "ABORTING"
    /\ UNCHANGED <<protocol, named, lpc, stat_lock, file_size, data, file,
                   writing, cut>>
MainGoes(from, to) ==
    /\ mpc = from /\ mpc' = to
    /\ UNCHANGED <<protocol, named, status, stat_lock, data, file, writing,
                   cut>>

\* tb_create_protocol exits the process for what it does not know.
CreateListener ==
    /\ protocol # "aUDT" /\ MainGoes("create", "resolve")
    /\ file_size' = IF named THEN 0 ELSE FileSize
    /\ UNCHANGED <<lpc, sock_d>>
NoSuchProtocol == mpc = "create" /\ protocol = "aUDT" /\ Dies
\* The file type is neither "size" nor "file".
BadFileType == mpc = "create" /\ protocol # "aUDT" /\ Stop /\ UNCHANGED sock_d

ResolveAddress ==
    /\ MainGoes("resolve", IF protocol = "uTP" THEN "thread" ELSE "socket")
    /\ UNCHANGED <<lpc, sock_d, file_size>>
CreateSocket ==
    /\ MainGoes("socket", "options") /\ sock_d' = "open"
    /\ UNCHANGED <<lpc, file_size>>
\* f_abort of the main thread, which has no socket to close.
MainAborts == mpc \in {"resolve", "socket"} /\ Stop /\ UNCHANGED sock_d

\* The options of uTP are only noted; the others' may be refused.
SetSockOpt ==
    MainGoes("options", "thread") /\ UNCHANGED <<lpc, sock_d, file_size>>
OptionsRefused == mpc = "options" /\ Stop /\ sock_d' = "closed"

CreateThread ==
    /\ MainGoes("thread", "spin") /\ lpc' = "file"
    /\ UNCHANGED <<sock_d, file_size>>

\* while(listener->sock_d == -1);
MonitorSpin ==
    /\ sock_d # "none" /\ MainGoes("spin", "test")
    /\ UNCHANGED <<lpc, sock_d, file_size>>

Starting ==
    \/ Run \/ CreateListener \/ NoSuchProtocol \/ BadFileType
    \/ ResolveAddress \/ CreateSocket \/ MainAborts
    \/ SetSockOpt \/ OptionsRefused \/ CreateThread \/ MonitorSpin
-----------------------------------------------------------------------------
(* The listener thread: tb_client, but for the transfer. *)

ListenerGoes(from, to) ==
    /\ lpc = from /\ lpc' = to
    /\ UNCHANGED <<protocol, named, mpc, file_size>>

\* What the file on the disk gives: fread is content with a short one.
Loaded == IF file = "whole" THEN "whole" ELSE "short"

\* A named file: fopen fails; or the size is what fseek returns, which is -1
\* when it fails, and else 0.
LoadTestFile ==
    /\ named /\ lpc = "file" /\ lpc' = "dispatch"
    /\ \/ data' = "null" /\ file_size' \in {file_size, -1}
       \/ data' = "whole" /\ file_size' = 0
    /\ UNCHANGED <<protocol, named, mpc, status, sock_d, stat_lock, file,
                   writing, cut>>
\* The file of an earlier client; "null" if there is no memory for it.
LoadRandomFile ==
    /\ ~named /\ file # "absent" /\ ListenerGoes("file", "dispatch")
    /\ data' \in {Loaded, "null"}
    /\ UNCHANGED <<status, sock_d, stat_lock, file, writing, cut>>
\* Slip: all but the last byte is given to fwrite.
LastByteForgotten == FALSE
\* Does stdio have all that is not yet on the disk?
StdioHasRest == TRUE

\* fopen fails; there is no memory; the file is begun: stdio writes whole
\* blocks and keeps the rest; or the disk is full, and fwrite's short count is
\* taken for success.
CreateRandom ==
    /\ ~named /\ file = "absent" /\ ListenerGoes("file", "dispatch")
    /\ \/ data' = "null" /\ UNCHANGED <<file, writing, cut>>
       \/ data' = "null" /\ file' = "short" /\ cut' = TRUE /\ UNCHANGED writing
       \/ /\ data' = "whole" /\ file' \in {"short", "whole"}
          /\ writing' = StdioHasRest /\ UNCHANGED cut
       \/ /\ data' = "whole" /\ file' = "short" /\ cut' = TRUE
          /\ UNCHANGED writing
    /\ UNCHANGED <<status, sock_d, stat_lock>>

\* switch(listener->protocol->protocol)
Dispatch ==
    /\ ListenerGoes("dispatch", IF protocol = "eUDP" THEN "abort"
                                ELSE "session")
    /\ UNCHANGED <<status, sock_d, stat_lock, data, file, writing, cut>>

AbortLock ==
    /\ ListenerGoes("abort", IF sock_d = "none" THEN "abort status"
                             ELSE "abort close")
    /\ IF sock_d = "none" THEN UNCHANGED stat_lock
       ELSE stat_lock = "free" /\ stat_lock' = "listener"
    /\ UNCHANGED <<status, sock_d, data, file, writing, cut>>
AbortClose ==
    /\ ListenerGoes("abort close", "abort status")
    /\ sock_d' = "closed" /\ status' = "DISCONNECTED" /\ stat_lock' = "free"
    /\ UNCHANGED <<data, file, writing, cut>>
TbAbort ==
    /\ ListenerGoes("abort status", "done") /\ status' = "ABORTING"
    /\ UNCHANGED <<sock_d, stat_lock, data, file, writing, cut>>
TbExit ==
    /\ ListenerGoes("exit", "done") /\ status' = "EXITING"
    /\ UNCHANGED <<sock_d, stat_lock, data, file, writing, cut>>

Client ==
    \/ LoadTestFile \/ LoadRandomFile \/ CreateRandom \/ Dispatch
    \/ AbortLock \/ AbortClose \/ TbAbort \/ TbExit
=============================================================================
