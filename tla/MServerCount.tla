---------------------------- MODULE MServerCount ----------------------------
(***************************************************************************)
(* The multiple-connection server, with a history variable that records     *)
(* whether two threads have ever updated num_active_conn at once.           *)
(*                                                                         *)
(* MServer's NumActiveConn, what tb_session.h says the count is, does not   *)
(* hold: nac_lock is only tried, so that an update can be lost.  Here is    *)
(* what does hold of the count, for any number of sessions.                 *)
(***************************************************************************)
EXTENDS MServer

VARIABLE lost_update

countVars == <<vars, lost_update>>

CountInit == Init /\ lost_update = FALSE

\* The value that the listener thread is about to increment is stale.
IncOverwrites == IncStore /\ num_active_conn # lreg
\* The value that a session is about to decrement is stale.
DecOverwrites ==
    \E c \in Clients : DecStore(c) /\ num_active_conn # sreg[c]

\* The step stores a count that another thread has changed since it was read.
Overwrites == IncOverwrites \/ DecOverwrites

CountNext == Next /\ lost_update' = (lost_update \/ Overwrites)

CountSpec == CountInit /\ [][CountNext]_countVars
-----------------------------------------------------------------------------
\* The sessions that have been counted in and have not counted themselves out;
\* the one that is about to get its thread is counted already.
CountedSessions ==
    {c \in Clients :
        \/ spc[c] \in Active \cup {"dec_load", "dec_store", "failed"}
        \/ lpc = "spawn" /\ c = lsession}

\* A lost update is the only thing that makes num_active_conn wrong.  In every
\* state, whatever is interrupted, reset or closed, it is otherwise the number
\* of sessions that have been counted in and not out, those that failed
\* included: so that the server goes on although they are gone, and a session
\* that orders the exit was indeed the last (tb_session_list_inc, ..._dec).
CountUnlessLost ==
    ~lost_update => num_active_conn = Cardinality(CountedSessions)
=============================================================================
