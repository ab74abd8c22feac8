----------------------------- MODULE Udp_proofs -----------------------------
(***************************************************************************)
(* What holds of one UDP transfer for any size of the file and of the      *)
(* buffers, and any number of datagrams lost and duplicated: the types,    *)
(* the account of every datagram, and the order in which the ends end.     *)
(***************************************************************************)
EXTENDS Udp, CountLemmas

(* Where a sequence of datagrams holds a kind of datagram, and how often. *)

HasEof(s) == \E k \in DOMAIN s : s[k] = "eof"

\* DataIn is a count of CountLemmas.
LEMMA DataCount == \A s : DataIn(s) = Cardinality(Where(s, {"data"}))
BY DEF DataIn, Where

LEMMA DataFinite == ASSUME NEW s \in Seq(Datagrams) PROVE DataIn(s) \in Nat
BY DataCount, WhereFinite

\* An empty queue holds nothing.
LEMMA NoData == DataIn(<<>>) = 0
BY DataCount, CountEmpty

\* A datagram that is appended counts once, and is the only new one.
LEMMA AppendData ==
    ASSUME NEW s \in Seq(Datagrams), NEW m \in Datagrams
    PROVE  /\ Append(s, m) \in Seq(Datagrams)
           /\ Len(Append(s, m)) = Len(s) + 1
           /\ DataIn(Append(s, m)) = DataIn(s) + One(m)
           /\ HasEof(Append(s, m)) => HasEof(s) \/ m = "eof"
<1>1. HasEof(Append(s, m)) => HasEof(s) \/ m = "eof"
  BY DEF HasEof
<1>2. Cardinality(Where(Append(s, m), {"data"}))
        = Cardinality(Where(s, {"data"})) + (IF m \in {"data"} THEN 1 ELSE 0)
  BY CountAppend
<1> QED BY <1>1, <1>2, CountAppend, DataCount DEF One

\* A datagram that is taken out, wherever it is, counts once.
LEMMA RemoveData ==
    ASSUME NEW s \in Seq(Datagrams), NEW i \in DOMAIN s
    PROVE  /\ RemoveAt(s, i) \in Seq(Datagrams)
           /\ Len(RemoveAt(s, i)) = Len(s) - 1
           /\ DataIn(s) = DataIn(RemoveAt(s, i)) + One(s[i])
           /\ HasEof(RemoveAt(s, i)) => HasEof(s)
<1> DEFINE t == RemoveAt(s, i)
<1>1. /\ t \in Seq(Datagrams) /\ Len(t) = Len(s) - 1
      /\ \A k \in 1 .. Len(s) - 1 : t[k] = IF k < i THEN s[k] ELSE s[k + 1]
  BY RemoveAtPlaces
<1>2. Cardinality(Where(s, {"data"}))
        = Cardinality(Where(t, {"data"})) + (IF s[i] \in {"data"} THEN 1 ELSE 0)
  BY CountRemove
<1> HIDE DEF t
<1>3. HasEof(t) => HasEof(s)
  BY <1>1, SMTT(30) DEF HasEof
<1> QED BY <1>1, <1>2, <1>3, DataCount DEF One, t

\* So does the one at the head of a queue.
LEMMA HeadData ==
    ASSUME NEW s \in Seq(Datagrams), s # <<>>
    PROVE  /\ Tail(s) \in Seq(Datagrams) /\ Len(Tail(s)) = Len(s) - 1
           /\ Head(s) \in Datagrams
           /\ DataIn(s) = DataIn(Tail(s)) + One(Head(s))
           /\ HasEof(Tail(s)) => HasEof(s)
           /\ Head(s) = "eof" => HasEof(s)
<1>1. 1 \in DOMAIN s /\ Head(s) = s[1] /\ Head(s) \in Datagrams
  OBVIOUS
<1>2. Tail(s) = RemoveAt(s, 1) /\ Len(Tail(s)) = Len(s) - 1
  BY CountTail
<1> QED BY <1>1, <1>2, RemoveData DEF HasEof
-----------------------------------------------------------------------------
(* Types. *)

\* The wire holds more than a send buffer only for what is duplicated.
NetBound == Len(net) <= Buffer + duplicates

Typed == TypeOK /\ NetBound

\* The buffers stay within their sizes.
NetOK == /\ net \in Seq(Datagrams) /\ Len(net) <= Buffer + Duplicates
         /\ Len(net) <= Buffer + duplicates
QueueOK == queue \in Seq(Datagrams) /\ Len(queue) <= Buffer

LEMMA Kinds == "data" \in Datagrams /\ "eof" \in Datagrams
BY DEF Datagrams

LEMMA Bounds ==
    Typed => /\ Len(net) \in Nat /\ Len(queue) \in Nat
             /\ Buffer \in Nat /\ Buffer > 1
             /\ duplicates \in Nat /\ Duplicates \in Nat
             /\ duplicates <= Duplicates
             /\ losses \in Nat /\ Losses \in Nat
             /\ NetOK /\ QueueOK
BY BufferAssumption, NetworkAssumption
   DEF Typed, TypeOK, NetBound, NetOK, QueueOK

\* What the client does.
LEMMA ClientTyped == Typed /\ ClientThread => Typed'
<1> SUFFICES ASSUME Typed, ClientThread PROVE Typed'
  OBVIOUS
<1>1. CASE SendData
  <2>1. NetOK'
    <3>1. /\ duplicates' = duplicates
          /\ \/ net' = net
             \/ net' = Append(net, "data") /\ Len(net) + 1 < Buffer
      BY <1>1 DEF SendData, Room, faults
    <3>2. CASE net' = net
      BY <3>1, <3>2, Bounds DEF NetOK
    <3>3. CASE net' = Append(net, "data") /\ Len(net) + 1 < Buffer
      <4>1. net' \in Seq(Datagrams) /\ Len(net') = Len(net) + 1
        BY <3>3, AppendData, Kinds, Bounds DEF NetOK
      <4> QED BY <3>1, <3>3, <4>1, Bounds DEF NetOK
    <3> QED BY <3>1, <3>2, <3>3
  <2>2. /\ cpc' \in {"send", "aborted"} /\ sent' \in 0 .. FileSize
        /\ refused' \in BOOLEAN
    <3>1. cpc = "send" /\ sent \in 0 .. FileSize /\ sent < FileSize
      BY <1>1 DEF SendData, Typed, TypeOK
    <3>2. CASE refused
      BY <1>1, <3>1, <3>2 DEF SendData
    <3>3. CASE ~refused
      <4>1. cpc' = cpc /\ sent' = sent + 1 /\ refused' = refused
        BY <1>1, <3>3 DEF SendData
      <4>2. refused \in BOOLEAN
        BY DEF Typed, TypeOK
      <4> QED BY <3>1, <4>1, <4>2, FileSizeAssumption
    <3> QED BY <3>2, <3>3
  <2>3. UNCHANGED <<command, server, queue, answers, ack, faults, early>>
    BY <1>1 DEF SendData
  <2> QED BY <2>1, <2>2, <2>3
          DEF Typed, TypeOK, NetBound, NetOK, server, faults
<1>2. CASE SendEof
  <2>1. NetOK'
    <3>1. /\ duplicates' = duplicates
          /\ \/ net' = net
             \/ net' = Append(net, "eof") /\ Len(net) < Buffer
      BY <1>2 DEF SendEof, faults
    <3>2. CASE net' = net
      BY <3>1, <3>2, Bounds DEF NetOK
    <3>3. CASE net' = Append(net, "eof") /\ Len(net) < Buffer
      <4>1. net' \in Seq(Datagrams) /\ Len(net') = Len(net) + 1
        BY <3>3, AppendData, Kinds, Bounds DEF NetOK
      <4> QED BY <3>1, <3>3, <4>1, Bounds DEF NetOK
    <3> QED BY <3>1, <3>2, <3>3
  <2>2. cpc' \in {"poll", "close"} /\ refused' \in BOOLEAN
    BY <1>2 DEF SendEof, AfterRefusal, Typed, TypeOK
  <2>3. UNCHANGED <<command, sent, server, queue, answers, ack, faults, early>>
    BY <1>2 DEF SendEof
  <2> QED BY <2>1, <2>2, <2>3
          DEF Typed, TypeOK, NetBound, NetOK, server, faults
<1>3. CASE Connect \/ AllSent \/ Poll \/ LoopEnds \/ Close
  BY <1>3, ZenonT(30)
     DEF Connect, AllSent, Poll, LoopEnds, Close, Typed, TypeOK, NetBound,
              server, faults
<1> QED BY <1>1, <1>2, <1>3 DEF ClientThread

\* What the server does.
LEMMA ServerTyped == Typed /\ (Bind \/ ServerThread) => Typed'
<1> SUFFICES ASSUME Typed, Bind \/ ServerThread PROVE Typed'
  OBVIOUS
<1>1. CASE Bind \/ SendAck
  BY <1>1 DEF Bind, SendAck, Typed, TypeOK, NetBound, client, faults
<1>2. CASE RecvFirst \/ Recv
  <2>1. queue # <<>> /\ queue' = Tail(queue)
    BY <1>2 DEF RecvFirst, Recv
  <2>2. QueueOK'
    BY <2>1, HeadData, Bounds DEF QueueOK
  <2>3. /\ spc' \in {"recv", "ack"} /\ total_tx_rx' \in Nat
        /\ UNCHANGED <<client, net, answers, ack, refused, faults, early>>
    BY <1>2 DEF RecvFirst, Recv, Added, Typed, TypeOK
  <2> QED BY <2>2, <2>3 DEF Typed, TypeOK, NetBound, QueueOK, client, faults
<1>3. CASE CloseServer
  <2>1. queue' \in Seq(Datagrams) /\ Len(queue') <= Buffer
    <3>1. queue' = <<>>
      BY <1>3 DEF CloseServer
    <3> QED BY <3>1, Bounds
  <2>2. lost' \in Nat /\ spc' = "done"
    <3>1. DataIn(queue) \in Nat
      BY DataFinite, Bounds DEF QueueOK
    <3> QED BY <1>3, <3>1 DEF CloseServer, Typed, TypeOK
  <2>3. UNCHANGED <<client, total_tx_rx, net, answers, ack, refused, extra,
                    losses, duplicates, early>>
    BY <1>3 DEF CloseServer
  <2> QED BY <2>1, <2>2, <2>3 DEF Typed, TypeOK, NetBound, client
<1> QED BY <1>1, <1>2, <1>3 DEF ServerThread

\* A datagram leaves the wire.
LEMMA Leaves ==
    ASSUME Typed, NEW i \in DOMAIN net, net' = RemoveAt(net, i),
           duplicates' = duplicates
    PROVE  /\ NetOK' /\ net[i] \in Datagrams /\ One(net[i]) \in Nat
           /\ DataIn(net) = DataIn(net') + One(net[i])
           /\ HasEof(net') => HasEof(net)
           /\ net[i] = "eof" => HasEof(net)
<1>1. net \in Seq(Datagrams)
  BY Bounds DEF NetOK
<1>2. /\ net' \in Seq(Datagrams) /\ Len(net') = Len(net) - 1
      /\ DataIn(net) = DataIn(net') + One(net[i])
      /\ HasEof(net') => HasEof(net)
  BY <1>1, RemoveData
<1>3. net[i] \in Datagrams /\ One(net[i]) \in Nat
  BY <1>1 DEF One
<1> QED BY <1>2, <1>3, Bounds DEF NetOK, HasEof

\* What the network and the kernels do.
LEMMA NetworkTyped ==
    Typed /\ (Deliver \/ Lose \/ Duplicate \/ DeliverAnswer) => Typed'
<1> SUFFICES ASSUME Typed, Deliver \/ Lose \/ Duplicate \/ DeliverAnswer
             PROVE Typed'
  OBVIOUS
<1>1. CASE Deliver
  <2>1. PICK i \in DOMAIN net :
            /\ net' = RemoveAt(net, i)
            /\ lost' \in {lost, lost + One(net[i])}
            /\ \/ queue' = queue
               \/ queue' = Append(queue, net[i]) /\ Len(queue) < Buffer
    BY <1>1 DEF Deliver
  <2>2. /\ UNCHANGED <<client, server, ack, refused, extra, losses, duplicates>>
        /\ answers' \in {answers, answers \cup {"refusal"}}
        /\ early' \in {early, early \/ spc = "bind"}
    BY <1>1 DEF Deliver
  <2>3. NetOK' /\ net[i] \in Datagrams /\ One(net[i]) \in Nat
    BY <2>1, <2>2, Leaves
  <2>4. QueueOK'
    <3>1. CASE queue' = queue
      BY <3>1, Bounds DEF QueueOK
    <3>2. CASE queue' = Append(queue, net[i]) /\ Len(queue) < Buffer
      <4>1. queue \in Seq(Datagrams)
        BY Bounds DEF QueueOK
      <4>2. queue' \in Seq(Datagrams) /\ Len(queue') = Len(queue) + 1
        BY <2>3, <3>2, <4>1, AppendData
      <4>3. Len(queue') <= Buffer
        BY <3>2, <4>2, Bounds
      <4> QED BY <4>2, <4>3 DEF QueueOK
    <3> QED BY <2>1, <3>1, <3>2
  <2>5. lost' \in Nat /\ answers' \subseteq {"ack", "refusal"}
    BY <2>1, <2>2, <2>3 DEF Typed, TypeOK
  <2>6. early' \in BOOLEAN
    BY <2>2 DEF Typed, TypeOK
  <2> QED BY <2>2, <2>3, <2>4, <2>5, <2>6
          DEF Typed, TypeOK, NetBound, NetOK, QueueOK, client, server
<1>2. CASE Lose
  <2>1. /\ losses' \in 0 .. Losses
        /\ UNCHANGED <<client, server, queue, ack, refused, extra, duplicates,
                       early>>
    BY <1>2, Bounds DEF Lose
  <2>2. CASE \E i \in DOMAIN net : /\ net' = RemoveAt(net, i)
                                   /\ lost' = lost + One(net[i])
                                   /\ UNCHANGED answers
    <3>1. PICK i \in DOMAIN net : /\ net' = RemoveAt(net, i)
                                  /\ lost' = lost + One(net[i])
                                  /\ UNCHANGED answers
      BY <2>2
    <3>2. NetOK' /\ One(net[i]) \in Nat
      BY <2>1, <3>1, Leaves
    <3> QED BY <2>1, <3>1, <3>2
            DEF Typed, TypeOK, NetBound, NetOK, client, server
  <2>3. CASE \E a \in answers : /\ answers' = answers \ {a}
                                /\ UNCHANGED <<net, lost>>
    BY <2>1, <2>3 DEF Typed, TypeOK, NetBound, client, server
  <2> QED BY <1>2, <2>2, <2>3 DEF Lose
<1>3. CASE Duplicate
  <2>1. PICK i \in DOMAIN net : /\ net' = Append(net, net[i])
                                /\ extra' = extra + One(net[i])
    BY <1>3 DEF Duplicate
  <2>2. /\ duplicates' \in 0 .. Duplicates /\ duplicates' = duplicates + 1
        /\ UNCHANGED <<client, server, queue, answers, ack, refused, lost,
                       losses, early>>
    BY <1>3, Bounds DEF Duplicate
  <2>3. net[i] \in Datagrams /\ One(net[i]) \in Nat
    BY Bounds DEF NetOK, One
  <2>4. net' \in Seq(Datagrams) /\ Len(net') = Len(net) + 1
    BY <2>1, <2>3, AppendData, Bounds DEF NetOK
  <2>5. NetOK'
    BY <2>2, <2>4, Bounds DEF NetOK
  <2> QED BY <2>1, <2>2, <2>3, <2>5
          DEF Typed, TypeOK, NetBound, NetOK, client, server
<1>4. CASE DeliverAnswer
  BY <1>4 DEF DeliverAnswer, Typed, TypeOK, NetBound, client, server, faults
<1> QED BY <1>1, <1>2, <1>3, <1>4

LEMMA TypedStep == Typed /\ [Next]_vars => Typed'
<1> SUFFICES ASSUME Typed, [Next]_vars PROVE Typed'
  OBVIOUS
<1>1. CASE UNCHANGED vars
  BY <1>1 DEF vars, client, server, faults, Typed, TypeOK, NetBound
<1> QED BY <1>1, ClientTyped, ServerTyped, NetworkTyped DEF Next

\* The types with their strengthening, on every reachable state of the two
\* ends and the network (tb_udp_client 124, tb_udp_server 429-445).
THEOREM TypesKept == Spec => []Typed
<1>1. Init => Typed
  <2> SUFFICES ASSUME Init PROVE Typed
    OBVIOUS
  <2>1. /\ net \in Seq(Datagrams) /\ Len(net) = 0
        /\ queue \in Seq(Datagrams) /\ Len(queue) = 0
    BY DEF Init
  <2>2. /\ 0 <= Buffer + Duplicates /\ 0 <= Buffer /\ 0 <= Buffer + 0
        /\ 0 \in 0 .. FileSize /\ 0 \in 0 .. Losses /\ 0 \in 0 .. Duplicates
    BY FileSizeAssumption, BufferAssumption, NetworkAssumption
  <2> QED BY <2>1, <2>2 DEF Init, Typed, TypeOK, NetBound
<1> QED BY <1>1, TypedStep, PTL DEF Spec
\* The types, and the bounds of the buffers (tb_udp_client 124,
\* tb_udp_server 429-445).
THEOREM TypeCorrect == Spec => []TypeOK
<1>1. Typed => TypeOK
  BY DEF Typed
<1> QED BY TypesKept, <1>1, PTL
-----------------------------------------------------------------------------
(* The account. *)

\* What the account adds up.
LEMMA Numbers ==
    Typed => /\ total_tx_rx \in Nat /\ sent \in Nat /\ lost \in Nat
             /\ extra \in Nat /\ DataIn(net) \in Nat /\ DataIn(queue) \in Nat
BY FileSizeAssumption, DataFinite DEF Typed, TypeOK

LEMMA ClientCounts == Typed /\ AllCounted /\ ClientThread => AllCounted'
<1> SUFFICES ASSUME Typed, AllCounted, ClientThread PROVE AllCounted'
  OBVIOUS
<1>1. CASE SendData
  <2>1. UNCHANGED <<total_tx_rx, queue, lost, extra>>
    BY <1>1 DEF SendData, server, faults
  <2>2. CASE refused
    <3>1. UNCHANGED <<sent, net>>
      BY <1>1, <2>2 DEF SendData
    <3> QED BY <2>1, <3>1 DEF AllCounted
  <2>3. CASE ~refused
    <3>1. sent' = sent + 1 /\ net' = Append(net, "data")
      BY <1>1, <2>3 DEF SendData
    <3>2. DataIn(net') = DataIn(net) + 1
      BY <3>1, AppendData, Bounds, Kinds DEF NetOK, One
    <3>3. /\ total_tx_rx' = total_tx_rx /\ DataIn(queue') = DataIn(queue)
          /\ lost' = lost /\ extra' = extra
      BY <2>1
    <3> QED BY <3>1, <3>2, <3>3, Numbers, SMTT(30) DEF AllCounted
  <2> QED BY <2>2, <2>3
<1>2. CASE SendEof
  <2>1. UNCHANGED <<sent, total_tx_rx, queue, lost, extra>>
    BY <1>2 DEF SendEof, server, faults
  <2>2. net' = net \/ net' = Append(net, "eof")
    BY <1>2 DEF SendEof
  <2>3. DataIn(net') = DataIn(net)
    <3>1. CASE net' = net
      BY <3>1
    <3>2. CASE net' = Append(net, "eof")
      <4>1. DataIn(net') = DataIn(net) + One("eof")
        BY <3>2, AppendData, Bounds, Kinds DEF NetOK
      <4> QED BY <4>1, Numbers DEF One
    <3> QED BY <2>2, <3>1, <3>2
  <2> QED BY <2>1, <2>3 DEF AllCounted
<1>3. CASE Connect \/ AllSent \/ Poll \/ LoopEnds \/ Close
  BY <1>3 DEF Connect, AllSent, Poll, LoopEnds, Close, AllCounted, server,
              faults
<1> QED BY <1>1, <1>2, <1>3 DEF ClientThread

LEMMA ServerCounts ==
    Typed /\ AllCounted /\ (Bind \/ ServerThread) => AllCounted'
<1> SUFFICES ASSUME Typed, AllCounted, Bind \/ ServerThread PROVE AllCounted'
  OBVIOUS
<1>1. CASE Bind \/ SendAck
  BY <1>1 DEF Bind, SendAck, AllCounted, client, faults
<1>2. CASE RecvFirst \/ Recv
  <2>1. /\ queue # <<>> /\ queue' = Tail(queue)
        /\ total_tx_rx' = total_tx_rx + One(Head(queue))
        /\ UNCHANGED <<sent, net, lost, extra>>
    BY <1>2, Numbers
       DEF RecvFirst, Recv, Added, IsEot, One, client, faults
  <2>2. DataIn(queue) = DataIn(queue') + One(Head(queue))
    BY <2>1, HeadData, Bounds DEF QueueOK
  <2>3. DataIn(queue') \in Nat /\ One(Head(queue)) \in Nat
    BY <2>1, HeadData, DataFinite, Bounds DEF QueueOK, One
  <2> QED BY <2>1, <2>2, <2>3, Numbers DEF AllCounted
<1>3. CASE CloseServer
  <2>1. /\ DataIn(queue') = 0 /\ lost' = lost + DataIn(queue)
        /\ UNCHANGED <<sent, total_tx_rx, net, extra>>
    BY <1>3, NoData DEF CloseServer, client
  <2> QED BY <2>1, Numbers DEF AllCounted
<1> QED BY <1>1, <1>2, <1>3 DEF ServerThread

LEMMA NetworkCounts ==
    /\ Typed /\ AllCounted
    /\ Deliver \/ Lose \/ Duplicate \/ DeliverAnswer
    => AllCounted'
<1> SUFFICES ASSUME Typed, AllCounted,
                    Deliver \/ Lose \/ Duplicate \/ DeliverAnswer
             PROVE AllCounted'
  OBVIOUS
<1>1. CASE Deliver
  <2>1. PICK i \in DOMAIN net :
            /\ net' = RemoveAt(net, i)
            /\ \/ queue' = queue /\ lost' = lost + One(net[i])
               \/ queue' = Append(queue, net[i]) /\ lost' = lost
    BY <1>1 DEF Deliver
  <2>2. /\ duplicates' = duplicates
        /\ UNCHANGED <<sent, total_tx_rx, extra>>
    BY <1>1 DEF Deliver, client, server
  <2>3. /\ net[i] \in Datagrams /\ One(net[i]) \in Nat /\ NetOK'
        /\ DataIn(net) = DataIn(net') + One(net[i])
    BY <2>1, <2>2, Leaves
  <2>4. \/ DataIn(queue') = DataIn(queue) /\ lost' = lost + One(net[i])
        \/ DataIn(queue') = DataIn(queue) + One(net[i]) /\ lost' = lost
    <3>1. CASE queue' = queue
      BY <2>1, <2>3, <3>1, AppendData, Bounds DEF QueueOK
    <3>2. CASE queue' = Append(queue, net[i])
      <4>1. DataIn(queue') = DataIn(queue) + One(net[i])
        BY <2>3, <3>2, AppendData, Bounds DEF QueueOK
      <4>2. queue' # queue
        <5>1. Len(queue') = Len(queue) + 1
          BY <2>3, <3>2, AppendData, Bounds DEF QueueOK
        <5> QED BY <5>1, Bounds
      <4> QED BY <2>1, <4>1, <4>2
    <3> QED BY <2>1, <3>1, <3>2
  <2>5. DataIn(net') \in Nat
    BY <2>3, DataFinite DEF NetOK
  <2> QED BY <2>2, <2>3, <2>4, <2>5, Numbers DEF AllCounted
<1>2. CASE Lose
  <2>1. UNCHANGED <<sent, total_tx_rx, queue, extra, duplicates>>
    BY <1>2 DEF Lose, client, server
  <2>2. CASE UNCHANGED <<net, lost>>
    BY <2>1, <2>2 DEF AllCounted
  <2>3. CASE ~UNCHANGED <<net, lost>>
    <3>1. PICK i \in DOMAIN net : /\ net' = RemoveAt(net, i)
                                  /\ lost' = lost + One(net[i])
      BY <1>2, <2>3 DEF Lose
    <3>2. /\ One(net[i]) \in Nat /\ NetOK'
          /\ DataIn(net) = DataIn(net') + One(net[i])
      BY <2>1, <3>1, Leaves
    <3>3. DataIn(net') \in Nat
      BY <3>2, DataFinite DEF NetOK
    <3> QED BY <2>1, <3>1, <3>2, <3>3, Numbers DEF AllCounted
  <2> QED BY <2>2, <2>3
<1>3. CASE Duplicate
  <2>1. PICK i \in DOMAIN net : /\ net' = Append(net, net[i])
                                /\ extra' = extra + One(net[i])
    BY <1>3 DEF Duplicate
  <2>2. UNCHANGED <<sent, total_tx_rx, queue, lost>>
    BY <1>3 DEF Duplicate, client, server
  <2>3. net[i] \in Datagrams /\ One(net[i]) \in Nat
    BY Bounds DEF NetOK, One
  <2>4. DataIn(net') = DataIn(net) + One(net[i])
    BY <2>1, <2>3, AppendData, Bounds DEF NetOK
  <2>5. /\ sent' = sent /\ total_tx_rx' = total_tx_rx
        /\ DataIn(queue') = DataIn(queue) /\ lost' = lost
        /\ extra' = extra + One(net[i])
    BY <2>1, <2>2
  <2> QED BY <2>3, <2>4, <2>5, Numbers DEF AllCounted
<1>4. CASE DeliverAnswer
  BY <1>4 DEF DeliverAnswer, AllCounted, client, server, faults
<1> QED BY <1>1, <1>2, <1>3, <1>4

\* Whatever is lost, repeated and reordered, each datagram is counted by the
\* server, lost, or still on its way (tb_udp_server 421-442).
THEOREM NothingUncounted == Spec => []AllCounted
<1>1. Init => AllCounted
  <2> SUFFICES ASSUME Init PROVE AllCounted
    OBVIOUS
  <2>1. /\ DataIn(net) = 0 /\ DataIn(queue) = 0 /\ total_tx_rx = 0
        /\ lost = 0 /\ sent = 0 /\ extra = 0
    BY NoData DEF Init
  <2> QED BY <2>1 DEF AllCounted
<1>2. Typed /\ AllCounted /\ [Next]_vars => AllCounted'
  <2>1. UNCHANGED vars /\ AllCounted => AllCounted'
    BY DEF vars, client, server, faults, AllCounted
  <2> QED BY <2>1, ClientCounts, ServerCounts, NetworkCounts DEF Next
<1> QED BY TypesKept, <1>1, <1>2, PTL DEF Spec
-----------------------------------------------------------------------------
(* The order in which the ends end, and the refinement of Transfer. *)

Sent == cpc \in {"eof", "poll", "close", "done"}

\* An end of transmission comes from a client that has sent everything.
EofInv == HasEof(net) \/ HasEof(queue) \/ ServerOver => Sent

\* An answer comes from a server that is over, or was not yet there.
AnswerInv ==
    /\ ack \/ "ack" \in answers \/ command = "EXIT" => ServerOver
    /\ refused \/ "refusal" \in answers => early \/ ServerOver

\* A client that leaves has had an answer.
LeaveInv ==
    /\ cpc \in {"close", "done"} => early \/ ServerOver
    /\ cpc = "aborted" => early

OrderInv == EofInv /\ AnswerInv /\ LeaveInv

LEMMA ClientOrder ==
    Typed /\ OrderInv /\ ClientThread => OrderInv' /\ [T!Next]_(T!vars)
<1> SUFFICES ASSUME Typed, OrderInv, ClientThread
             PROVE OrderInv' /\ [T!Next]_(T!vars)
  OBVIOUS
<1> USE DEF OrderInv
<1>0. /\ spc' = spc /\ queue' = queue /\ early' = early /\ answers' = answers
      /\ ack \in BOOLEAN /\ refused \in BOOLEAN
  BY DEF ClientThread, Connect, SendData, AllSent, SendEof, Poll, LoopEnds,
         Close, server, Typed, TypeOK
<1>1. CASE Connect
  BY <1>0, <1>1
     DEF Connect, EofInv, AnswerInv, LeaveInv, Sent, ServerOver, T!vars
<1>2. CASE SendData
  <2>1. ~ServerOver /\ ~HasEof(net) /\ ~HasEof(queue) /\ cpc = "send"
    BY <1>2 DEF SendData, EofInv, Sent
  <2>2. ack' = ack /\ command' = command
    BY <1>2 DEF SendData
  <2>3. CASE refused
    <3>1. cpc' = "aborted" /\ refused' = FALSE /\ net' = net /\ early
      BY <1>2, <2>1, <2>3 DEF SendData, AnswerInv
    <3>2. OrderInv'
      BY <1>0, <2>1, <2>2, <3>1
         DEF EofInv, AnswerInv, LeaveInv, Sent, ServerOver
    <3>3. T!Fail
      BY <1>0, <2>1, <3>1 DEF T!Fail, ServerOver
    <3> QED BY <3>2, <3>3 DEF T!Next
  <2>4. CASE ~refused
    <3>1. cpc' = cpc /\ refused' = refused /\ net' = Append(net, "data")
      BY <1>2, <2>4 DEF SendData
    <3>2. ~HasEof(net')
      BY <2>1, <3>1, AppendData, Bounds, Kinds DEF NetOK
    <3> QED BY <1>0, <2>1, <2>2, <3>1, <3>2
            DEF EofInv, AnswerInv, LeaveInv, Sent, ServerOver, T!vars
  <2> QED BY <2>3, <2>4
<1>3. CASE AllSent
  <2>1. /\ cpc = "send" /\ cpc' = "eof" /\ ~ServerOver
        /\ UNCHANGED <<net, ack, refused, command>>
    BY <1>3 DEF AllSent, EofInv, Sent
  <2>2. OrderInv'
    BY <1>0, <2>1 DEF EofInv, AnswerInv, LeaveInv, Sent, ServerOver
  <2>3. T!Send
    BY <1>0, <2>1 DEF T!Send, ServerOver
  <2> QED BY <2>2, <2>3 DEF T!Next
<1>4. CASE SendEof
  <2>1. cpc = "eof" /\ ack' = ack /\ command' = command
    BY <1>4 DEF SendEof
  <2>2. CASE refused
    <3>1. cpc' = "close" /\ refused' = FALSE /\ net' = net
      BY <1>4, <2>2 DEF SendEof, AfterRefusal
    <3>2. early \/ ServerOver
      BY <2>2 DEF AnswerInv
    <3>3. OrderInv'
      BY <1>0, <2>1, <3>1, <3>2
         DEF EofInv, AnswerInv, LeaveInv, Sent, ServerOver
    <3>4. T!Leave \/ T!Fail
      BY <1>0, <2>1, <3>1, <3>2 DEF T!Leave, T!Fail, ServerOver
    <3> QED BY <3>3, <3>4 DEF T!Next
  <2>3. CASE ~refused
    <3>1. cpc' = "poll" /\ refused' = refused
      BY <1>4, <2>3 DEF SendEof
    <3> QED BY <1>0, <2>1, <3>1
            DEF EofInv, AnswerInv, LeaveInv, Sent, ServerOver, T!vars
  <2> QED BY <2>2, <2>3
<1>5. CASE Poll
  <2>1. /\ cpc = "poll" /\ cpc' = "eof" /\ ack' = FALSE /\ net' = net
        /\ command' = (IF ack THEN "EXIT" ELSE command)
        /\ refused' = refused
    BY <1>5 DEF Poll
  <2> QED BY <1>0, <2>1
          DEF EofInv, AnswerInv, LeaveInv, Sent, ServerOver, T!vars
<1>6. CASE LoopEnds
  <2>1. /\ cpc = "eof" /\ cpc' = "close" /\ ServerOver
        /\ UNCHANGED <<net, ack, refused, command>>
    BY <1>6 DEF LoopEnds, ExitOrdered, AnswerInv
  <2>2. OrderInv'
    BY <1>0, <2>1 DEF EofInv, AnswerInv, LeaveInv, Sent, ServerOver
  <2>3. T!Leave \/ T!Fail
    BY <1>0, <2>1 DEF T!Leave, T!Fail, ServerOver
  <2> QED BY <2>2, <2>3 DEF T!Next
<1>7. CASE Close
  BY <1>0, <1>7
     DEF Close, EofInv, AnswerInv, LeaveInv, Sent, ServerOver, T!vars
<1> QED BY <1>1, <1>2, <1>3, <1>4, <1>5, <1>6, <1>7 DEF ClientThread

LEMMA ServerOrder ==
    Typed /\ OrderInv /\ (Bind \/ ServerThread)
    => OrderInv' /\ [T!Next]_(T!vars)
<1> SUFFICES ASSUME Typed, OrderInv, Bind \/ ServerThread
             PROVE OrderInv' /\ [T!Next]_(T!vars)
  OBVIOUS
<1> USE DEF OrderInv
<1>0. /\ cpc' = cpc /\ command' = command /\ net' = net /\ ack' = ack
      /\ refused' = refused /\ early' = early
  BY DEF Bind, ServerThread, RecvFirst, Recv, SendAck, CloseServer, client
<1>1. CASE Bind
  BY <1>0, <1>1
     DEF Bind, EofInv, AnswerInv, LeaveInv, Sent, ServerOver, T!vars
<1>2. CASE RecvFirst \/ Recv
  <2>1. queue # <<>> /\ queue' = Tail(queue) /\ answers' = answers
    BY <1>2 DEF RecvFirst, Recv
  <2>2. /\ HasEof(queue') => HasEof(queue)
        /\ Head(queue) = "eof" => HasEof(queue)
    BY <2>1, HeadData, Bounds DEF QueueOK
  <2>3. \/ spc' = spc
        \/ ~ServerOver /\ spc' = "recv"
        \/ ~ServerOver /\ spc' = "ack" /\ Head(queue) = "eof"
    BY <1>2 DEF RecvFirst, Recv, IsEot, ServerOver
  <2>4. CASE spc' = spc \/ (~ServerOver /\ spc' = "recv")
    BY <1>0, <2>1, <2>2, <2>4
       DEF EofInv, AnswerInv, LeaveInv, Sent, ServerOver, T!vars
  <2>5. CASE ~ServerOver /\ spc' = "ack" /\ Head(queue) = "eof"
    <3>1. Sent
      BY <2>2, <2>5 DEF EofInv
    <3>2. OrderInv'
      BY <1>0, <2>1, <2>5, <3>1 DEF EofInv, AnswerInv, LeaveInv, Sent, ServerOver
    <3>3. T!End
      BY <1>0, <2>5, <3>1 DEF T!End, Sent, ServerOver
    <3> QED BY <3>2, <3>3 DEF T!Next
  <2> QED BY <2>3, <2>4, <2>5
<1>3. CASE SendAck
  BY <1>0, <1>3
     DEF SendAck, EofInv, AnswerInv, LeaveInv, Sent, ServerOver, T!vars
<1>4. CASE CloseServer
  <2>1. ServerOver /\ ServerOver' /\ answers' = answers /\ ~HasEof(queue')
    BY <1>4 DEF CloseServer, ServerOver, HasEof
  <2>2. OrderInv'
    BY <1>0, <2>1 DEF EofInv, AnswerInv, LeaveInv, Sent
  <2>3. UNCHANGED T!vars
    BY <1>0, <2>1 DEF T!vars
  <2> QED BY <2>2, <2>3
<1> QED BY <1>1, <1>2, <1>3, <1>4 DEF ServerThread

LEMMA NetworkOrder ==
    /\ Typed /\ OrderInv
    /\ Deliver \/ Lose \/ Duplicate \/ DeliverAnswer
    => OrderInv' /\ [T!Next]_(T!vars)
<1> SUFFICES ASSUME Typed, OrderInv,
                    Deliver \/ Lose \/ Duplicate \/ DeliverAnswer
             PROVE OrderInv' /\ [T!Next]_(T!vars)
  OBVIOUS
<1> USE DEF OrderInv
<1>0. UNCHANGED <<cpc, command, spc>>
  BY DEF Deliver, Lose, Duplicate, DeliverAnswer, client, server
<1>1. CASE Deliver
  <2>1. PICK i \in DOMAIN net :
            /\ net' = RemoveAt(net, i)
            /\ queue' = queue \/ queue' = Append(queue, net[i])
    BY <1>1 DEF Deliver
  <2>2. /\ ack' = ack /\ refused' = refused /\ duplicates' = duplicates
        /\ \/ answers' = answers /\ early' = early
           \/ /\ answers' = answers \cup {"refusal"}
              /\ early' = (early \/ spc = "bind") /\ spc \in {"bind", "done"}
    BY <1>1 DEF Deliver, Bound
  <2>3. /\ HasEof(net') => HasEof(net)
        /\ net[i] \in Datagrams /\ (net[i] = "eof" => HasEof(net))
    BY <2>1, <2>2, Leaves
  <2>4. HasEof(queue') => HasEof(queue) \/ HasEof(net)
    BY <2>1, <2>3, AppendData, Bounds DEF QueueOK
  <2>5. EofInv'
    BY <1>0, <2>3, <2>4 DEF EofInv, Sent, ServerOver
  <2>6. CASE answers' = answers /\ early' = early
    BY <1>0, <2>2, <2>5, <2>6 DEF AnswerInv, LeaveInv, ServerOver, T!vars
  <2>7. CASE /\ answers' = answers \cup {"refusal"}
             /\ early' = (early \/ spc = "bind") /\ spc \in {"bind", "done"}
    <3>1. early \in BOOLEAN
      BY DEF Typed, TypeOK
    <3>2. AnswerInv' /\ LeaveInv'
      BY <1>0, <2>2, <2>7, <3>1 DEF AnswerInv, LeaveInv, ServerOver
    <3>3. early' = early \/ cpc \notin {"close", "done", "aborted"}
      BY <2>7, <3>1 DEF LeaveInv, ServerOver
    <3> QED BY <1>0, <2>5, <3>2, <3>3 DEF T!vars, ServerOver
  <2> QED BY <2>2, <2>6, <2>7
<1>2. CASE Lose
  <2>1. /\ UNCHANGED <<queue, ack, refused, early>> /\ answers' \subseteq answers
        /\ duplicates' = duplicates
        /\ net' = net \/ \E i \in DOMAIN net : net' = RemoveAt(net, i)
    BY <1>2 DEF Lose
  <2>2. HasEof(net') => HasEof(net)
    BY <2>1, Leaves
  <2> QED BY <1>0, <2>1, <2>2
          DEF EofInv, AnswerInv, LeaveInv, Sent, ServerOver, T!vars
<1>3. CASE Duplicate
  <2>1. PICK i \in DOMAIN net : net' = Append(net, net[i])
    BY <1>3 DEF Duplicate
  <2>2. UNCHANGED <<queue, answers, ack, refused, early>>
    BY <1>3 DEF Duplicate
  <2>3. net[i] \in Datagrams /\ (net[i] = "eof" => HasEof(net))
    BY Bounds DEF NetOK, HasEof
  <2>4. HasEof(net') => HasEof(net)
    BY <2>1, <2>3, AppendData, Bounds DEF NetOK
  <2> QED BY <1>0, <2>2, <2>4
          DEF EofInv, AnswerInv, LeaveInv, Sent, ServerOver, T!vars
<1>4. CASE DeliverAnswer
  <2>1. PICK a \in answers : /\ answers' = answers \ {a}
                             /\ ack' = (ack \/ a = "ack")
                             /\ refused' = (refused \/ a = "refusal")
                             /\ UNCHANGED <<net, queue, early>>
    BY <1>4 DEF DeliverAnswer, faults
  <2>2. ack \in BOOLEAN /\ refused \in BOOLEAN
    BY DEF Typed, TypeOK
  <2> QED BY <1>0, <2>1, <2>2
          DEF EofInv, AnswerInv, LeaveInv, Sent, ServerOver, T!vars
<1> QED BY <1>1, <1>2, <1>3, <1>4

\* For any size of the file and any losses and duplicates, the end comes in
\* order: the file is sent, then the server is over, and then the client
\* leaves, if it did not start first (tb_udp_client 137-154, tb_udp_server
\* 433).
THEOREM EndInOrder == Spec => ImplementsTransfer
<1>1. Init => OrderInv
  <2> SUFFICES ASSUME Init PROVE OrderInv
    OBVIOUS
  <2>1. ~HasEof(net) /\ ~HasEof(queue)
    BY DEF Init, HasEof
  <2> QED BY <2>1
          DEF Init, OrderInv, EofInv, AnswerInv, LeaveInv, ServerOver
<1>2. Init => T!Init
  BY DEF Init, T!Init, ServerOver
<1>3. Typed /\ OrderInv /\ [Next]_vars => OrderInv' /\ [T!Next]_(T!vars)
  <2>1. OrderInv /\ UNCHANGED vars => OrderInv' /\ UNCHANGED T!vars
    BY DEF vars, client, server, OrderInv, EofInv, AnswerInv, LeaveInv, Sent,
           ServerOver, T!vars
  <2> QED BY <2>1, ClientOrder, ServerOrder, NetworkOrder DEF Next
<1> QED BY TypesKept, <1>1, <1>2, <1>3, PTL
        DEF Spec, ImplementsTransfer, T!Spec
=============================================================================
