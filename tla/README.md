# TestBed (fastuserprotocol): a TLA+ verification project

TestBed is a C program, and a library, that transfers a file between a client
and a server over one of several transport protocols (TCP, UDP, DCCP, UDT,
uTP), with one or several connections, and measures the transfer while it runs.
This directory holds TLA+ modules of its concurrent core, configurations that
check them with TLC, and proofs checked with TLAPS.

Line numbers refer to `src/` of the repository; `tb_x.c` is `src/src/tb_x.c`.

## 1. The system

### Threads

A process made by `tb_start` (`tb_testbed.c` 208-297) has

* the **main thread**: it creates the listener thread, runs `tb_monitor` until
  the listener is `TB_EXITING` or `TB_ABORTING`, and destroys the listener;
* the **listener thread**: `tb_server` or `tb_client` (`tb_endpoint.c`), which
  calls the `f_server`/`f_client` of the chosen protocol and ends in `tb_exit`
  or `tb_abort`;
* with several connections, one **session thread** for each connection;
* in a program that uses TestBed as a library, **external threads** that copy
  the stats (`tb_ex_get_stat_cpy`).

They share the `tb_listener_t` struct, the list of sessions and the sessions
themselves. Most of the critical sections are entered with
`pthread_mutex_trylock`, *whose result is ignored*: such a "lock" delays nobody,
and `pthread_mutex_unlock` then frees a mutex that another thread may believe it
holds. (Two functions of `tb_udp.c` really lock, twice, and need that stray unlock
to go on.) Every model takes the locks as they are, not as they are meant; this is
where both disagreements of section 7 come from, and why the properties that do hold
are worth stating.

### Components

| Component | State | Operations | What makes it correct | Modelled in |
|---|---|---|---|---|
| Multiple-connection servers (`tb_stream_m_server`, `tb_udt_m_server`, their events and session threads, `tb_session_add_to`, `..._list_inc/dec`) | session list, `num_active_conn`, `status`, `command`, `sock_d`, each session's status and total | listen, poll, accept, start a thread, receive, end, count down, order the exit | each accepted connection has a thread; a session whose client closed has received everything; the count is wrong only if an update was lost; the server ends with its last session, or when told to (its sessions may still run then) | `MServer`, `MServerCount` |
| Single-connection servers (`tb_stream_server`, `tb_udt_server`) | `curr_session`, the session's memory, `status`, `command`, totals | accept, receive, tear down, go on or exit, abort | sessions are freed, once; a connected listener has a session; totals are sums; a transfer falls short only by what the network or a dead peer lost | `Server` |
| Stats and monitor (`tb_monitor`, `tb_set_l_stats`, `tb_set_m_stats`, `tb_ex_get_stat_cpy`) | the stats struct, `read`, `stat_lock`, `stat_cond`, `prev_bytes` | publish, walk the sessions, wait for new stats, copy them | figures never go back, nothing is counted twice, the last figures are published, waiters are let go | `Stats`, `MServer` |
| Listener's life (`tb_create_listener`, `tb_exit`, `tb_abort`, `sig_action`, `tb_destroy_listener`) | `status`, `command`, the socket | create, abort, exit, interrupt, destroy | destroyed only after the listener *thread* has set its last status; a signal ends that thread | creation, abort and exit of a client in `ClientStart` and `MClient`; abort, exit, SIGINT and destruction in `MServer` and `Server`; exit and abort in `Stats`; the end in `UdpMulti` |
| UDP, one connection (`tb_udp_server`, `tb_udp_client`) | totals, `command`, the network | send, end of transmission until answered, ack | both ends end, the server first; no early end | `Udp` |
| UDP, several connections (`tb_udp_m_server`, `tb_udp_event`, `tb_udp_m_client` and its session threads) | the session lists of both ends, totals, `sz` and `id` of an event, `stat_lock`, the network | cut the file, send parts, join, end of transmission until answered; demultiplex by id, ack | one session for each id; every datagram counted; no early end; the call for exit is heard; both ends get through the lock they take twice | `UdpMulti` |
| Clients of several connections (`tb_stream_m_client`, `tb_udt_m_client`, `tb_utp_m_client`, their session threads) | the session list, each session's part, total, status and socket; the data, `status`, two kinds of locks | cut the file, connect, send, join, close, clean up; collect and add up beside it | the parts cover the file but for a remainder; sockets are closed after their stats, data freed after the last thread; the last report is the sum; the process ends | `MClient` |
| Command line, start and end of a client (`tb_parse`, `tb_start`, `tb_client`, `tb_set_sock_opt`, `tb_resolve_address`, `tb_create_socket`) | protocol, file name, `sock_d`, `status` | create, resolve, set options, start threads, abort | every failure ends the process | `ClientStart` |
| Files (`tb_create_test_file` and what it calls) | the file of random bytes on the disk, the data in memory | load, create | a client sends what the file is meant to hold | `ClientStart` |
| uTP, one connection (`tb_utp_client`, `tb_utp_server`, the callbacks) | `utp->state`, bytes of the call, time-out, `status`, `command` | one loop each: send or poll, switch on the state, close until confirmed | the end of the stream means all; a confirmed close means all has arrived; both loops end | `Utp` |
| Stream and UDT clients, one connection | `status`, total, `sock_d` | connect, send, close, exit | as for the stats | `Stats` |
| epoll wrapper | events registered | poll and dispatch | every event is reported | the polls of `MServer`, `Udp`, `UdpMulti`, `Utp` |
| Timers, CPU affinity, logging, protocol statistics, programs and tests, third-party libraries | - | - | - | not modelled, section 9 |

That the listener is destroyed only when nobody uses it any more is *not* a property
of this code: the session threads of a server outlive it after SIGINT (`MainExit` and
`UseAfterFree` of `MServer`), and so do those of a client that aborts (the exception of
`DataOutlivesSessions`, `MClient`). So does the last log line (`LogAndEnd` of `Server`).

### Where they interact, and what is hard

* The listener thread accepts while earlier sessions already end: `status`,
  the head of the chain of stats, the list and the count are written by one
  thread and read or written by others (`MServer`).
* The monitor walks a list that grows, and adds totals that grow (`MServer`).
* The monitor uses the current session while the server frees it (`Server`).
* External threads copy a struct that is being written, and wait on a condition
  that is signalled once (`Stats`).
* SIGINT may come at any time (`MServer`, `Server`). The listener thread then leaves
  its loop, closes everything (UDT: also the sockets of its sessions) and the main
  thread frees the list, while session threads still receive (`MServer`).
* The main thread waits for a socket that a quick transfer has already closed
  (`Stats`, `Server`, `MServer`, `UdpMulti`).
* UDP datagrams, answers and refusals are lost, duplicated and reordered
  (`Udp`); those of several connections interleave at one socket (`UdpMulti`).
* libutp reports to its caller through callbacks that overwrite one variable, and
  ends the process from one of them (`Utp`).
* Session threads of a client end in any order while the listener thread joins
  and closes them in the order of the list, and the monitor asks them for stats
  (`MClient`).
* A client leaves a file that the next one reads, also when it is killed
  (`ClientStart`).
* A listener thread locks a mutex it holds, and waits for the main thread of its
  process to free it (`UdpMulti`).

`PROJECT.json` lists each hazard at its line, with the properties that cover it
or the reason why none does.

## 2. The modules

`MServerCount` extends `MServer`, `MClient` extends `ClientStart`, `Udp` and `UdpMulti`
hold an instance of `Transfer`; the others stand alone, each with the threads of the
processes it is about.

An action is one access to memory that another thread also accesses, with the
thread-local code around it. Sizes are counted in a few units. A definition
preceded by a comment that starts with "Slip:" is not part of the model: it is
the plausible mistake (a dropped test, a wrong order) against which
`PROJECT.json` checks that a property notices it.

### MServer

The multiple-connection server. `Transport` tells TCP/DCCP ("stream") from UDT
where the two differ: `sock_d` is reset by the stream server only, its poll is
edge triggered (`tb_epoll.c` 17) where UDT's is not, and a UDT session reads a
lost peer (error 2001) as the end of the file. Nobody waits for the session threads.

| Part of the module | Code |
|---|---|
| `TbListen`, `ListenFails`, `SetupPoll`, `SetupFails`, `NoEpoll` | the set-up and how it fails: UDT aborts, also after it is `LISTENING`; the stream server follows the NULL pointer of `tb_create_e_poll` (`tb_stream.c` 109-110) and dies |
| `LoopTest` to `LogAndEnd`, `lpc` | listener thread: `tb_stream_m_server`/`tb_udt_m_server`, `tb_stream_event`/`tb_udt_event`, `tb_exit`, `tb_abort` |
| `IncLoad`, `IncStore`, `DecLoad`, `DecStore` | `++` and `--` of `num_active_conn`, a load and a store each, since `nac_lock` is only tried |
| `Cleanup` | `udt_cleanup` (`tb_udt.c` 171): it closes every UDT socket of the process, also those of the sessions that still receive (`conn` becomes "dropped"). Such a session ends by error 2001 with bytes unreceived (`EndOfStream`), or by the error branch that does not count it out (`RecvError`, `tb_udt.c` 250-261) |
| `SessionConnected` to `LastSession`, `spc` | session thread: `tb_stream_m_server_conn`/`tb_udt_m_server_conn` |
| `MonitorSpin` to `MainExit`, `mpc` | main thread: `tb_monitor`, `tb_set_m_stats`, the end of `tb_start`; from `mpc = "done"` on, listener and list are freed memory |
| `UseAfterFree` | a session counts itself out of a freed list: the process may die of it, or the memory is still as it was and the session goes on |
| `Connect` ... `ClientFails`, `backlog`, `conn`, `inflight` | clients, kernel and network (external) |
| `SigAction` | `sig_action` |

`current_read` and `prev_bytes` are kept per session (what each contributed to
the sum), which tells more than the sum. A session's status is written between
the receive loop and the count, as in the code; the list only ever grows at its
end, so that a walk by index is the walk along `next`.

`MServerCount` adds one history variable to it: has a thread ever stored a count that
another one had changed since it was read (`lost_update`)?

### Stats

`tb_set_l_stats` against `tb_ex_get_stat_cpy` against the listener thread of a
client. `stat_lock` is a Boolean: a try locks it whoever holds it, an unlock
frees it whoever calls; `tb_abort` and the return of `pthread_cond_wait` are
the only ones to wait for it. `CondWait` unlocks and queues at once, as POSIX
says; `Woken` wakes one waiter, any. The main thread first spins while `sock_d` is -1
(`MonitorSpin`, `tb_testbed.c` 303), and `Close` sets it back to that value
(`tb_stream.c` 434): a main thread that comes too late never publishes. The `memcpy`
of the struct copies a *pointer* to the part that holds the status: `copy` is the
thread's own, `Seen` is what it reads, the status being the listener's.

### Server

The single-connection servers, of the transport with which each is started
(`transport`). `heap` is the life of each session's memory;
`TearDown` gives the order of the steps after a transfer, which differs:
UDT forgets the session before it frees it, the stream server afterwards. The
main thread's check, load and use of `curr_session` are three actions. Following
a NULL pointer ends the process (`Running`). `TbExit` and `TbAbort` set the status and
`LogAndEnd` writes the log line after it, which may find the listener freed. A client
may die (`ClientFails`): UDT reports that by the same error 2001 as a close, and the
server takes it for the end of the stream. DCCP loses datagrams for good
(`DatagramLost`). `lost` counts what will never arrive. `s_tx_end` is a constant: the
default (`TB_EXIT`) serves one connection, `TB_CONTINUE` serves one after
another.

### Udp

One transfer. The network is a sequence from which any element may be
delivered, lost or sent twice; the receive queue is bounded and drops, as the
kernel does; a datagram that finds no socket is refused, which the client's
next send reports (`refused`). The client polls 50 ms between two ends of
transmission: `Poll` happens whether or not an ack has come.

### UdpMulti

Two processes, client and server, each with a listener thread (`lpc`) and a
main thread (`mpc`), the client's session threads (`spc`), and the network between
them. The network is a bag of datagrams (`net`, by session id, 0 for the empty
one), so it reorders at will; the server's queue keeps an order, because what
an empty datagram means depends on what came before it.

| Part of the module | Code |
|---|---|
| `Create` to `EofLoopEnds` | `tb_udp_m_client`, `tb_udp_m_close_conn`, `tb_udp_ack` |
| `Send`, `SendLast` | `tb_udp_m_client_conn` |
| `Bind`, `LoopTest`, `Close` | `tb_udp_m_server` |
| `Poll` to `CallForExit`, `RecvFails`, `PollFails` | `tb_poll_for_events` and `tb_udp_event`, one action for each `recvmsg`; `recvmsg` may fail (`tb_udp.c` 554, which takes no datagram: the return of -1 is ignored by `tb_poll_for_events`) and the poll may report an event without data (481), on which `tb_udp_m_server` returns with its socket open |
| `Lock`, `LockAgain`, `TbExit` | the end of both: `pthread_mutex_lock` twice, then `tb_exit` |
| `MonitorSpin`, `TryLock`, `Unlock` | `tb_monitor` and the lock of `tb_set_m_stats` |
| `Deliver`, `Lose`, `DeliverAck` | network and kernels (external) |

What the code does, and the model with it: `sendmsg`'s count includes the header
of 8 bytes, so that a session sends less than its part (`Counted`); the server's
message has room for the header only, so that each datagram counts 8 bytes
(`Total`); the "exit message" of a session repeats its last datagram; `sz` and
`id` live as long as an event, so that an empty datagram after another one is
taken for data (`RecvEmpty`). When the server's ack is lost the client goes on
for ever: its socket is not connected, and no refusal reaches it (`SendEof`).

### Transfer

What the two UDP transfers promise, and nothing of how: parts are sent
(`Send`), then the server is over (`End`), then the client leaves as one who has
been heard (`Leave`); or it fails (`Fail`). `Udp` and `UdpMulti` each hold an
instance of it (`T`) with the mapping, and `ImplementsTransfer` is its
specification:

| `Transfer` | `Udp` | `UdpMulti` |
|---|---|---|
| `pending` | the file, until the client has sent it all | the sessions whose thread has not ended |
| `server` is over | the server has accepted an end of transmission | it has answered a call for exit |
| `client` has left or failed | it has left its loop; it failed if it had started before its server (`early`) | it is past its loop; it has left if it has seen the ack |

### Utp

Two processes with the single loop of `tb_utp_client` and `tb_utp_server`; what
is alike in both (`tb_utp_recv`, `tb_utp_close`, the callbacks) is one action with
the end as its parameter. The library is external: `lib` is the state of an end's
socket inside libutp as far as the callbacks show it, `sent`, `delivered` and
`fin` are what it keeps in order between the two.

| Part of the module | Code |
|---|---|
| `SendToFails` | `tb_utp_send_to`, which exits the process; `Sends` says in which calls libutp sends |
| `Incoming...`, `PollEnds` | `tb_utp_event` and the callbacks `tb_utp_read`, `tb_utp_incoming`, `tb_utp_state_change`; the returns of -1 (`tb_utp.c` 248, 255-258) end the event, and nobody reads them (`tb_poll_for_events`). `Strays` allows packets that libutp refuses |
| `CheckTimeouts`, `TimesOut`, `RecvReturns` | `tb_utp_recv` after its poll; `tb_utp_error` |
| `Close`, `Closing`, `Freed` | `tb_utp_close`, and what its callers do after it |
| `ClientSetup` to `ClientThread` | `tb_utp_client`, `tb_utp_connect`, `tb_utp_send` |
| `ServerSetup` to `ServerThread` | `tb_utp_server` |

A poll handles as many datagrams as are there, one action each, and `state` keeps
what the last of them left; the switch sees only that.

### ClientStart and MClient

One machine on which a client of several connections is run again and again.
`ClientStart` holds the process: `tb_parse`, `tb_start`, `tb_client`, `tb_abort`,
`tb_exit`, the file on the disk, and the end of the process, which forgets
everything but that file. `MClient` extends it with the transfer.

| Part of the module | Code |
|---|---|
| `Run` to `MonitorSpin`, `mpc` | main thread: `tb_parse`, `tb_create_listener`, `tb_create_protocol`, `tb_start`, `tb_set_sock_opt` |
| `LoadTestFile`, `LoadRandomFile`, `CreateRandom` | `tb_common.c` |
| `Dispatch`, `Abort...`, `TbExit`, `lpc` | listener thread: `tb_client`, `tb_abort`, `tb_exit` |
| `LastThreadEnds`, `Dies` | `exit()` after the last thread; a signal or a fault |
| `CreateSession` to `Cleanup` | listener thread: `tb_stream_m_client`, `tb_udt_m_client`, `tb_utp_m_client` |
| `Connect` to `Complete` | session threads: `tb_stream_connection`, `tb_udt_m_connection`, `tb_utp_m_client_conn` |
| `MonitorTest` to `DestroyListener` | main thread: `tb_monitor`, `tb_set_m_stats`, `tb_destroy_listener` |

What differs between the three clients is decided by `protocol`: the extra
`CleanupLock` of UDT, and the missing socket of uTP, for which the main
thread waits in vain. "eUDP" is a protocol that `tb_create_protocol` knows
and `tb_client` does not, "aUDT" one that the command line knows and
`tb_create_protocol` does not. In the code the number of connections is 4, or 2
for uTP; here it is `NumConn`.

The file: `fopen` without `fclose`, `fread` and `fwrite` whose results are compared with
EOF. So a file may be short because its writer died before `exit()` flushed it, or
because the disk was full; `malloc` may fail: the creator has then left an empty file behind, and either
goes on without data; and the "size" of a named file is what `fseek` returned: 0, or -1
when it failed. `file` is all that one client leaves to the next; `cut` remembers
that one of them left it short.

## 3. The runs

"Distinct states" are those TLC reported for the present bounds.

| Run | Specification and bounds | What it shows |
|---|---|---|
| `mserver_two` | `MServerCount`, `CountSpec`, UDT, 2 clients, 1 byte each, one of them may be reset or lost, SIGINT; 3.0 million states | types; a session always gets its thread, and the chain of stats starts at the first session (`AcceptedIsServed`); complete delivery unless `udt_cleanup` took the socket; the monitor neither counts twice nor goes back (`MonitorCounts`); the count is wrong only after two threads have updated it at once (`CountUnlessLost`) |
| `mserver_live` | `FairSpec`, stream, 2 clients, no bytes, one of them may be reset; 72 thousand states | with an edge-triggered poll, no connection stays in the backlog, also when a reset session leaves the count too high for the server to end; every accepted session ends |
| `mserver_one` | `FairSpec`, UDT, 1 client, 3 bytes, SIGINT, one failing `accept`; 45 thousand states | the server ends, by itself or when ordered to (`ListenerEnds`), and so does the main thread; the last report is complete |
| `mserver_lost_count` | `Spec`, stream, 2 clients | **violated**: the count loses an update |
| `stats` | `FairSpec`, 2 external threads, file of 1 unit; 86 thousand states | copies go forward; nothing published is missed and the last stats are published (`NothingUnpublished`); waiters are let go while the monitor runs; `tb_abort` gets its lock |
| `server` | `FairSpec`, TCP, DCCP or UDT, 2 connections, 2 bytes each, 1 EAGAIN, `TB_CONTINUE`, SIGINT, clients that die, datagrams that are lost; 49 thousand states | a connected listener has a live session, sessions are freed, destruction comes last (`SessionLife`); totals are sums; a transfer nobody interrupted is short only of what DCCP or a dead UDT peer lost; a signal ends a server in `accept`, but for UDT's |
| `server_collect` | `Spec`, UDT, 1 connection | **violated**: stats are collected from no session, or from a freed one |
| `udp` | `FairSpec`, 3 datagrams, buffers of 2, 2 losses, 1 duplicate; 61 thousand states | accounting; the transfer implements `Transfer`; both ends end |
| `udp_m` | `Spec`, 2 connections, buffers of 2, no loss but by refusal and overflow; packs of 8, so that a part of 20 bytes is counted after two datagrams, of which the second is cut, and its repetition; 2.5 million states | every datagram is counted for its id; one session for each id; the transfer implements `Transfer` |
| `udp_m_live` | `FairSpec`, 1 connection, packs of 8, so that a part of 12 bytes is counted after one full datagram, for its header counts too, and its repetition; buffers of 1, 1 loss or failing call of the server, SIGINT at the server; 78 thousand states | the call for exit is heard; both ends get through their two locks |
| `utp` | `FairSpec`, 3 packets in buffers and a window of 2, SIGINT at both ends, a network that may break, packets that libutp refuses, a `sendto` that may fail; 70 thousand states | the end of the stream means all is counted; a confirmed close means all has arrived; no end polls for ever |
| `mclient` | `FairSpec`, 2 connections, file of 7 units, packs of 2, five protocols, a file named or not, any failure, any number of runs; 335 thousand states | types and parts; sockets, data and the last report keep their order; a short file is left only by a dead process, want of memory or a full disk; the process ends |

Why the bounds are enough. Two sessions are the fewest with which a count can
lose an update, a list can grow behind the walk, and a first session can end
before the second is accepted; the code treats any later session like the
second. One byte lets a receive fall before, inside or after a walk; three
(`mserver_one`) let a receive be split and a walk see several totals. Two
external threads compete for the single signal. Two connections in turn are
enough to carry state from one to the next. A buffer of two, three datagrams and
two losses let the file not fit in the buffer, and let the end of transmission,
the ack and the refusal be lost in every pair. Two connections, six datagrams and
a queue of two let the datagrams of `UdpMulti` interleave in every order, the
empty one between them, and overflow the queue. Three packets over a window of two
let uTP's socket fill, be taken in part, and become writable again, with a last
buffer that is not whole. Seven units in two parts of three leave a remainder, and
packs of two cut each part unevenly; the number of runs of a client is not bounded,
for a process that ends leaves nothing but the file. The proofs of section 5 lift
most of these bounds.

The liveness runs use less data than the safety runs: their cost is the
number of strongly connected parts, and data adds none of interest to the
waiting of threads (in `stats`, two external threads calling
again and again are what may starve the others).

`MClient` is checked for deadlock: a machine on which a client can be started
never stops. `CHECK_DEADLOCK FALSE` is in the other configurations since those systems may
stop: all threads end, or clients that may connect do not.

## 4. Fairness

* Weak fairness of each thread: it is scheduled when it can run. A thread that
  is blocked (in `recv`, `accept`, on a lock), or that spins for a `sock_d` that is
  -1, is not enabled.
* Strong fairness where a thread asks for a mutex that others take and free
  again and again: `AbortClose` (`MServer`, `Server`), `AbortLock` and `Wake`
  (`Stats`). The monitor sleeps `m_sleep` between its reads with the mutex
  free, so that a waiting thread gets it.
* A client that has connected closes in the end (`ClientClose`), for TestBed's
  clients send a file and close; none has to connect, to send or to fail.
* `Udp`: what is not lost is delivered in the end, losses are bounded, and a user
  starts the server at some time.
* `UdpMulti`: likewise; `Lock`, `LockAgain` and `AbortLock` are strongly fair, for the
  monitor sleeps with the mutex free.
* `Utp`: a poll that comes again and again handles a datagram that waits
  (`Incoming`), libutp gives up on a peer that does not answer and frees a closed
  socket in one of the calls to come, and two seconds are over in one of the
  calls of an end to which nothing is on its way: strong fairness, since each is
  enabled only inside a poll or a call. (With packets that libutp refuses the
  two seconds may also pass while something waits at the socket; nothing makes them.) The network need not break, a `sendto` need not fail.
* `MClient`: the peers take what is sent, or the connection fails; the two locks
  that are really locked (`AbortLock`, `LockSession`, `CleanupLock`) are strongly
  fair, for the monitor sleeps with them free. No process has to die, or to be
  started.
* In `Stats` nothing is assumed of a transfer: it may last for ever.

No fairness is assumed of failures, of SIGINT or of connections.

## 5. What is proved

Eight modules hold proofs, for every value of the constants that satisfies the
assumptions which the modules themselves name (natural numbers where sizes
and bounds are meant, at least one connection, buffers of at least two datagrams
in `Udp`, and the like); TLC evaluates them in the runs. All is proved of `Spec`,
so nothing rests on fairness.

The arguments have one layout. *Frames* say which steps can change which
variables, so that an invariant about a part of the state is proved from the actions
that write it alone. The types come first, one lemma for each part; then
the strengthened invariants below, each with a lemma `...Step` that has a step for
each action; then the theorem, by temporal logic from these.

### CountLemmas

What the other modules need to know of `SumFunction`, which the community modules
define by a fold, and of the number of elements of a kind in a sequence. The induction
theorems of the library take a predicate, which the provers cannot instantiate; these
lemmas use a least counterexample instead, in a set of subsets (`SetInduction`).

| Lemmas | Say |
|---|---|
| `TableExists`, `SumFromTable` | the sum over a finite set of integers is the last entry of a table that has one entry for each subset, each made from a smaller one as the fold does it |
| `SumType` | a sum of natural numbers is one, and at least each of them |
| `SumChanged`, `SumExcept` | a sum changes by as much as the one value that is changed |
| `SumConstant` | equal values are added up by a product |
| `CountAppend`, `CountRemove`, `CountTail` | what an append, a removal anywhere and a receive do to a count, by a bijection between positions |

### MServer_proofs

For all sets of clients, all numbers of bytes, either transport, with or without
signals, any number of resets and failing accepts:

| Theorem | States | Along which argument |
|---|---|---|
| `TypeCorrect` | `[]TypeOK` | five lemmas, one for each part of the state |
| `Serves` | `[]AcceptedIsServed` | `NoSessionIsOrphaned`: the session being started is the last of the list; `StatsChain`: `StatsInv` |
| `Delivery` | `[]CompleteDelivery`: a session whose client closed ends only with every byte, unless the server's own `udt_cleanup` took its socket | `DeliveryInv` |
| `CountsMakeSense` | `[]MonitorCounts` | `MonitorNeverOvercounts`, `MonitorRate`: `OnceInv`, `CountInv` |
| `ReportsAll` | the half of `FinalReport` that needs no fairness: a monitor that finds the listener over, with all sessions ended, stays on its way, and at its end has counted all they received | `OverInv`, `Reporting`, with the two above |
| `CountExactly` | `CountSpec => []CountUnlessLost`: for any number of clients, whatever is reset, refused, interrupted or taken by `udt_cleanup`, the count is the number of sessions counted in and not out, until two threads have updated it at once | `ServedInv`, `ExactInv` |

**StatsInv.** That `n_stats` names the first session is not inductive: it is
written only if the listener is still `LISTENING`, so one has to know that it is
`LISTENING` as long as no session has been started, that it stays so until the
first one passes `FirstSession`, and that from then on it never is again.

**DeliveryInv.** Conservation on each connection that nobody has cut: what was sent
is what was received or is in flight; and a session that has ended left nothing in
flight unless its connection failed, was lost, or was dropped by the server's
`udt_cleanup`. The last case is a fact of the code, not of the network: a server that
is interrupted, or that counts to zero early, ends transfers that would have gone on.

**OnceInv and CountInv.** The monitor's sum is right only if no session is
walked twice: no client occurs twice in the list, in the backlog, or in both
(`OnceInv`, which rests on a client connecting once). `CountInv` then says,
of a walk at position `Walked`, that the sessions behind it count for at least as
much as at the previous walk and those ahead for nothing yet, that no count
exceeds what a session has received, and that a session not yet listed counts
for nothing: so a session that is appended during a walk is counted either
in this walk or in the next, and never twice.

**Reporting.** The places of the monitor on its way, and what is counted at each: in
the last walk, the sessions behind `Walked`, and all of them after it. It is inductive
since a listener that is over stays so (`OverInv`) and nothing that is walked changes any
more (`NothingElse`). A round that was under way does not count as the last one.

**ServedInv and ExactInv.** Only a listed session has a thread, and the one that the
listener thread is starting has none yet (`ServedInv`), so that its increment adds one
session that was not counted. `ExactInv` adds to the claim that the set of counted
sessions is finite, so that its cardinality moves by one with each session counted in or
out; the step uses that a store which does not overwrite (`Overwrites`) stores what it
loaded from a count that nobody has changed since. Every session that fails stays counted, on the error branch of the code
as after the death of the process; this is why the set is defined with them. A plain
"number of active sessions", as `tb_session.h` has it, is false (run
`mserver_lost_count`).

### Server_proofs

For any number of connections in turn, of bytes and of EAGAINs, any set of transports,
`TB_EXIT` and `TB_CONTINUE`:

| Theorem | States | Along which argument |
|---|---|---|
| `TypesKept` | `[]Typed`: the types, with no more in flight than was sent | `StepInv`: a tear-down that is under way is at one of its steps |
| `TypeCorrect` | `[]TypeOK`: these, and the listener's total is the sum of its sessions' | `TotalInv`, with `SumExcept` |
| `SessionsLive` | `[]SessionLife` | `CurrentInv`, `LiveInv`, `OverInv` |
| `Delivered` | `[]CompleteDelivery`: a transfer nobody interrupted has received all that was sent, less what is lost and one for each EAGAIN; and something is lost only over DCCP or with a peer that died | `FreshInv`, `IdleInv`, `BalanceInv`, `EndInv` |

**CurrentInv, LiveInv, OverInv.** A session is current from its connection to the
end of its transfer, and `TB_CONNECTED` is seen in no other place (but for an abort);
only the session at work lives, until the step of the tear-down that frees it, a
number that differs with the transport (`FreeStep`); the main thread destroys
nothing before the listener thread has ended.

**BalanceInv and EndInv.** What a connection has sent is received, in flight or lost,
except for what each EAGAIN took off the total; only DCCP, a reset and a lost peer lose
anything; and only the end of the stream, which a lost UDT peer looks like, or an
interruption ends the loop.

### Stats_proofs

For any finite set of external threads and any file:

| Theorem | States | Along which argument |
|---|---|---|
| `TypeCorrect` | `[]TypeOK` | `StatusInv`: the place of the listener thread gives its status |
| `NothingMissed` | `[]NothingUnpublished` | `ReadInv`, `FinalInv` |
| `CopiesForward` | `CopiesGoForward` | `ForwardInv` |

**ReadInv and FinalInv.** Between the clearing of `read` and the next
publication, a set `read` means that some thread holds the stats or is about to
copy them; in its last round the monitor looks at a listener that changes no more.
**ForwardInv.** What a thread finds in its struct is the total that was copied, and the
status that was last published, for that is shared; both come from a
listener whose status and total only go forward. No step of this proof uses `stat_lock`:
the copies go forward although the lock excludes nobody.

### Udp_proofs

For all sizes of files and buffers, losses and duplicates:

| Theorem | States | Along which argument |
|---|---|---|
| `TypeCorrect` | `[]TypeOK` | `Typed`: the network holds no more than was sent and duplicated |
| `NothingUncounted` | `[]AllCounted` | lemmas `AppendData`, `RemoveData`, `HeadData`: those of `CountLemmas` for the data datagrams |
| `EndInOrder` | `ImplementsTransfer` | `EofInv`, `AnswerInv`, `LeaveInv` |

**The refinement.** An end of transmission, anywhere on its way, comes from a client
that has sent everything (`EofInv`); an answer comes from a server that is over or
that was not yet there (`AnswerInv`); a client that leaves has had an answer
(`LeaveInv`). So every step is a step of `Transfer` or leaves its variables alone.

### UdpMulti_proofs

For all numbers of connections, all sizes of parts, packs and headers above 0, all
buffers, losses and signals:

| Theorem | States | Along which argument |
|---|---|---|
| `TypesKept` | `[]Typed`: the types of the client's sessions, the listener threads' places, the server's sessions and the network | one lemma for each part |
| `OneSession` | `[]OneSessionEach` | inductive with the types: `RecvData` alone writes the list and the totals |
| `EndNotEarly` | `[]NoEarlyEnd`: the server answers only when every session has sent its part | `OrderInv`, `CalledInv` |
| `EndInOrder` | `ImplementsTransfer` | these, and `AnsweredInv` |
| `PartBoundsCount` | no session counts more than its part and one header | `OrderInv`, `CountInv` |
| `TypeCorrect` | `[]TypeOK`: the types of all the rest too, and no more on its way than the buffers hold | `OthersTyped`, `BufferInv` |
| `NothingUncounted` | `[]AllCounted` | `Effects`, `AccountStep`, with the lemmas of `CountLemmas` |

**OrderInv and CalledInv.** That the answer comes late enough is not inductive: the
answer stems from an empty datagram, which was sent after the joins, which found each
thread ended. `OrderInv` says which sessions have begun and ended at each place of
the client's listener thread; `CalledInv`, that a call for exit on its way, in
the server's queue, or answered means that all have ended; neither losses nor the
server's mistaking a call for data can break it. **AnsweredInv.** After its answer
the server only goes on to its end, so that it answers once and never takes it
back; `TransferStep` maps the steps.

**CountInv.** A session that sends again has not counted its part, so that `Length`
cuts the next datagram to what is left, and the header is all that can exceed it.

**Effects.** Whatever the threads do, a datagram is sent, leaves the network (it is
delivered, or lost), is taken by the server (counted, if it has data), or is discarded
with the server's socket, and nothing else happens to it. Each of the five keeps the
balance of `AllCounted` (`AccountStep`): what was sent is what is on its way, in the
queue, counted or lost.

### Utp_proofs

For all sizes of files, packets, windows, numbers of faults:

| Theorem | States | Along which argument |
|---|---|---|
| `TypeCorrect` | `[]TypeOK` | `TakenBound`: what libutp takes of a write |
| `EndMeansAll` | `[]EofMeansAll` | `StreamInv` |
| `ConfirmedMeansAll` | `[]CloseConfirmed` | `ConfirmInv` |

**StreamInv** has three parts, none inductive without the others: what has reached
the server's libutp is what its listener has counted and what the call under way
will return (`AccountInv`); nothing is sent after a FIN, and only `tb_utp_close`
sends one (`CloseInv`); the end of the stream, once seen, comes after every packet
(`EofInv`). **ConfirmInv** follows the client: it leaves its loop with the call that
ends its file, when libutp still takes what it is given (`LoopInv`); only
`tb_utp_close` closes libutp's socket (`PhaseInv`); and what then destroys it is the
ack of its FIN, which comes after every packet, or an error, after which no more is
polled (`FinInv`).

### MClient_proofs

For all numbers of connections, sizes of files and packs, sets of protocols, and
any number of clients, one after another, on one disk:

| Theorem | States | Along which argument |
|---|---|---|
| `TypeCorrect` | `[]TypeOK`: the types, and no session sends more than its part | lemma `Parts`: a cut in `NumConn` parts leaves less than `NumConn` units; `EarlyInv`, `Bounded` |
| `ShortOnlyIfCut` | `[]LoadedWhole`: uninitialised data are sent only after a client has died or run out of memory before its file was written, or a disk was full | `FileInv`: a short file is either cut or still being written, its writer has loaded its data before it wrote, and data are short only after a cut |
| `DataLast` | `[]DataOutlivesSessions` | `OrderInv`, `DataInv` |
| `CollectsOpen` | `[]CollectsFromOpenSocket` | `SocketInv`, `CollectInv`, `UtpInv` |
| `UtpNotMonitored` | over uTP the main thread never monitors: it is still waiting for a socket | `UtpInv` |
| `ReportFinal` | `[]FinalReport`: the last report is the sum of what the sessions sent, and, of a random file, all but less than a unit for each connection | `SentInv`, `AllInv`, `WalkInv`; `CountedNext`, `AllSent`, with `SumExcept` and `SumConstant` |

**OrderInv and DataInv.** How far the listener thread is says which sessions have
begun and which have ended; it is `EXITING` only after all have, and the main thread
frees the data only when it has seen that. **SocketInv and CollectInv.** The listener
thread really locks a session before it closes its socket, and only after the join; the
monitor only tries that lock. That is enough: a session whose lock the listener
thread holds has ended and is no longer `SESSION_CONNECTED`, so that the monitor
leaves its socket alone, and otherwise the monitor has the lock until it is done.
A failed session stays `SESSION_CONNECTED`: the third case of `CollectInv` is why
`CollectsFromOpenSocket` has an exception.

**SentInv, AllInv, WalkInv.** When the listener thread exits, every session has been
in the list (`AllInv`), so that each has ended, and one that has ended without an error
has sent its part (`SentInv`). `WalkInv` follows the last read of the main thread,
which begins after that: its total is the sum over the sessions behind it. A total of
an earlier read is never taken for the last one, since `final` is set at the test.

### What stays with TLC

The liveness properties (section 6), and what `ENABLED` says: the prover reaches
neither. Every invariant and every action property of the passing runs is proved, and so
are both refinements. `ReportsAll` is the safety half of a liveness
property: that the monitor gets to its end takes fairness, and TLC. The two
violations are TLC's counterexamples.

## 6. Action properties, refinement and liveness

`CopiesGoForward` (`Stats`) relates two successive copies of one external thread:
neither their total nor their status goes back. `ImplementsTransfer` (`Udp`,
`UdpMulti`) is the refinement of section 2.

The liveness properties are `Accepted`, `SessionsEnd`, `ListenerEnds`, `MainEnds`,
`FinalReport` (`MServer`), `BlockedOnlyAtEnd`, `AbortCompletes` (`Stats`),
`InterruptEndsAccept` (`Server`), `BothEnd` (`Udp`, `Utp`), `ServerHears`,
`ServerEnds`, `AckEndsClient` (`UdpMulti`) and `ProcessEnds` (`MClient`).

Some properties are stated with the condition under which they hold, and the
condition is the interesting part.

* `ListenerEnds` of `MServer` is checked with one client that ends normally: with a
  lost update, or after a reset (a failing session does not count itself out),
  the server waits for ever.
* `MainEnds` is checked for UDT: a stream server that ends quickly sets `sock_d`
  back to -1 before the main thread has looked at it once, and
  `while(listener->sock_d == -1)` (`tb_testbed.c` 303) then spins for ever. `ServerEnds` of `UdpMulti` has
  the same exception: the monitor that missed `sock_d` never frees the mutex, and the
  listener thread waits with it.
* `Accepted` is checked without a failing `accept`: after one, the edge-triggered poll
  is silent about the connections still pending until another one arrives.
* `CompleteDelivery` of `MServer` excepts the sessions whose socket the server's own
  `udt_cleanup` has closed; that of `Server`, what DCCP and a dead UDT peer lose,
  which the server reports as it does a complete transfer (error 2001).
* `BlockedOnlyAtEnd` speaks of a monitor that has got past its wait for `sock_d`. The
  transfer sets that back to -1 (`tb_stream.c` 434), and a main thread that looks too
  late spins for ever and publishes nothing, whatever the listener's status then is. It
  also lets a thread wait for ever once the monitor has ended: its test
  and its wait (`tb_listener.c` 381-384) are not atomic against the last
  signal, since `stat_lock` is only tried, and nobody signals afterwards. The
  comment, "will block until new data is ready, or the status of the listener is
  'TB_EXITING' or 'TB_ABORTING'" (`tb_listener.h` 333-335), promises more, in both cases.
* `CopiesGoForward` says that what a thread reads in the struct it was given goes
  forward, not that it stays: the status in it is the listener's own.
* `InterruptEndsAccept` excepts UDT, whose sockets `shutdown` does not know.
* `ServerHears` of `UdpMulti` excepts an event that never ends: a client that sent
  faster than the server reads would keep `tb_udp_event` in its loop, with `sz` set. It also
  excepts a server whose poll has failed, and a `recvmsg` that failed with the queue
  full: nothing enters the queue any more that the edge-triggered poll would report.
* `AckEndsClient` is stated from the arrival of the ack: when it is lost, the client
  goes on for ever, for its socket is not connected and no refusal reaches it. "or data
  sent to a closed server socket is refused" (`tb_udp.h` 16-19) is true of `Udp` only.
* `ImplementsTransfer` of `Udp` maps a client that started before its server (`early`)
  to one that has failed: it is refused, and leaves.
* `BothEnd` of `Utp` excepts a client whose server closed first: on EOF it polls for
  ever.
* `ProcessEnds` of `MClient` excepts uTP, whose main thread waits for a socket that
  nobody sets.
* `DataOutlivesSessions` excepts an abort: a client that aborts frees the data under
  its session threads.
* `FinalReport` of `MClient` says how much of a *random* file is sent. Of a named one the
  client sends nothing: it takes the result of `fseek`, 0, for the size that
  `tb_common.h` 149 says is recorded.
* `LoadedWhole` names the ways in which a short file comes about, and there are some: the
  promise of `tb_common.h` 157-158, a "file of the specified size", does not hold.

## 7. Disagreements between the code and its comments

| Run | The comment says | The code does |
|---|---|---|
| `mserver_lost_count` | "Thread safe way to increment num_active_conn" (`tb_session.h` 165, 176) | `nac_lock` is only tried (`tb_session.c` 56, 66): two threads interleave the load and the store, and the count is wrong for good |
| `server_collect` | "Lock stat collection while closing connection and destroying session" (`tb_udt.c` 97, `tb_stream.c` 78) | both sides only try the lock: the monitor uses a NULL or freed session |

## 8. The plan

The servers and the monitor came first, then UDP, the clients of several
connections and uTP, each with its proofs. What is left, in this order:

1. The single-connection clients of stream and UDT as a module of their own: their
   connection and `udt_cleanup`, of which `Stats` has the status and the total only.
2. A `Lock` that excludes, as an abstract specification, to show which critical
   sections implement it (those of a session in `MClient`) and which do not.
3. The safety halves of the other liveness properties as theorems, as `ReportsAll` is
   of `FinalReport`.

## 9. What is not modelled, and why

* Averages, rates and times of the stats, the protocol's own counters
  (`tb_get_stats`, only its use of a session is modelled), and
  `tb_ex_get_stats`, which is deprecated and has the control of
  `tb_ex_get_stat_cpy`.
* Spurious wake-ups of `pthread_cond_wait`: the code does not repeat its test,
  so that one only makes a call return early, with the old stats;
  `BlockedOnlyAtEnd` is not weakened by it.
* What a freed struct contains. The order of `free` and later uses is modelled
  (`CloseAgain`, `CollectStats`), not the number that is read there.
* What happens after a use of freed memory: in `MServer` (`UseAfterFree`) and in
  `Server` (`LogAndEnd`, `tb_exit`'s last log line racing with
  `tb_destroy_listener`) such a step may end the process, or go on as if the memory
  were still there; that it may read or overwrite somebody else's data is left out.
* A failing `setsockopt` after an accept (`tb_udt_event`), which calls
  `tb_abort` in the middle of the event, a failing `pthread_create`, a failing
  `udt_listen`, whose result nobody looks at, and read errors of the disk
  (`tb_load_test_file`, `tb_load_random_file`).
* In `MServer`, `tb_set_m_stats` reads a session's `total_bytes` twice (`tb_listener.c`
  469, 471), for `current_read` and for the listener's `total_tx_rx`; `AddSession`
  keeps the first only. The two may differ by what is received in between.
* SIGINT in `Udp`: `sig_action` shuts the socket down, and what `shutdown` does
  to a thread blocked in `recvfrom` on a UDP socket is up to the kernel, not to
  this source. SIGINT at a client of several connections: its loops do not look at
  `command`.
* In `UdpMulti`, duplicates made by the network (`Udp` has them, and the client
  repeats its messages anyway), the bytes of a payload, the lock that a join takes
  on a session whose only other user frees it, and the walk of `tb_set_m_stats`,
  which is that of `MServer`. The four connections of the code are `NumConn`.
* In `Utp`, a second incoming connection, which would overwrite the first
  (`tb_utp.c` 144), and what the bytes are: `tb_utp_write` copies from the start of
  the data each time (95), which no total shows. libutp's own global state, which
  two session threads of `tb_utp_m_client` enter at once since their lock is only
  tried (461, 486), is the library's; `MClient` has what these threads share with the
  rest of TestBed. `tb_utp_m_server` is empty.
* The width of sizes: `file_size` is an `int` of bytes made from KB; the models
  count in units. Which default a socket option has: `ClientStart` has that setting
  one may fail, and what happens then.
* Timers, CPU affinity and logging: no state that another part reads, but for the
  time of the stats above. The programs `cli` and `serv` and the tests, which call
  the library; vendored headers and libraries, which appear as external actions.

## 10. Running the checks

In this directory, for each configuration, named after its module (but for
`MServer_two.cfg`, which is of `MServerCount`):

    tlc -workers 2 -config Server.cfg Server
    tlc -workers 2 -config MServer_two.cfg MServerCount

and for the proofs:

    tlapm CountLemmas.tla
    tlapm MServer_proofs.tla
    tlapm Server_proofs.tla
    tlapm Stats_proofs.tla
    tlapm Udp_proofs.tla
    tlapm UdpMulti_proofs.tla
    tlapm Utp_proofs.tla
    tlapm MClient_proofs.tla
