------------------------------ MODULE Transfer ------------------------------
(***************************************************************************)
(* What the two UDP transfers promise, whatever becomes of a datagram on   *)
(* its way (tb_udp.h 15-19): the end of a transmission that nothing        *)
(* announces but datagrams comes in order.  The parts of the file are      *)
(* sent; only then is the server over; and only then does the client leave *)
(* as one who has been heard.  A client that fails (its server was not     *)
(* there, a session could not be made, SIGINT) may leave at any time.      *)
(***************************************************************************)
CONSTANT Parts    \* what is sent: a part for each connection

VARIABLES
    pending,   \* the parts that are not yet sent
    server,    \* "open", then "over"
    client     \* "working", then "left" or "failed"

vars == <<pending, server, client>>

Init == pending = Parts /\ server = "open" /\ client = "working"

Send ==
    /\ \E part \in pending : pending' = pending \ {part}
    /\ UNCHANGED <<server, client>>

End ==
    /\ pending = {} /\ server = "open" /\ server' = "over"
    /\ UNCHANGED <<pending, client>>

Leave ==
    /\ server = "over" /\ client = "working" /\ client' = "left"
    /\ UNCHANGED <<pending, server>>

Fail ==
    /\ client = "working" /\ client' = "failed"
    /\ UNCHANGED <<pending, server>>

Next == Send \/ End \/ Leave \/ Fail

Spec == Init /\ [][Next]_vars
=============================================================================
