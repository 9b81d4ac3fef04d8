------------------------------ MODULE TcpServer ------------------------------
(***************************************************************************)
(* The connection life cycle of src/net: TcpServer, TcpConnection, the    *)
(* acceptor, the worker loops' read/write dispatch and the idle timer.    *)
(*                                                                         *)
(* Threads.  The acceptor thread constructed every EventLoop (they are    *)
(* created in TcpServer::start on the caller's thread), so it is their    *)
(* el_tid and TcpConnection::add_task runs connected() on it directly.   *)
(* Worker loop i is run by thread i.  The timer's callbacks run on the     *)
(* timer's own pool (TimerPoolThread).  Each handler is split into the    *)
(* steps between which another thread can act on the same connection.    *)
(*                                                                         *)
(* Abstractions.  A peer message is one unit in the socket (inData); a    *)
(* write drains the whole output buffer; the idle timeout may expire at   *)
(* any moment, so a timer node is any element of timerQ whose turn has    *)
(* come (Timer.tla checks the timer itself); the user callbacks are an   *)
(* echo server: onMessage sends what it received.                          *)
(***************************************************************************)
EXTENDS Integers, Sequences, SequencesExt, FiniteSets

CONSTANTS
    NumLoops,         \* ts_thread_num: number of worker loops
    MaxConns,         \* number of connections the clients open
    MaxMsgs,          \* messages the clients send in all
    AcceptorThread,   \* model value: the thread running the acceptor loop
    TimerPoolThread   \* model value: the timer's thread pool

ASSUME /\ NumLoops \in Nat \ {0}
       /\ MaxConns \in Nat \ {0}
       /\ MaxMsgs \in Nat

Loops == 1..NumLoops
Conns == 1..MaxConns
Threads == Loops \cup {AcceptorThread, TimerPoolThread}
\* every timer node: one per accepted connection and one per message
TimerIds == 0..(MaxConns + MaxMsgs)
Idle == [op |-> "idle", c |-> 0]

VARIABLES
    ts_next_loop,   \* TcpServer::ts_next_loop
    nextConn,       \* connections accepted so far (connection c is the c-th)
    loopOf,         \* tc_loop of each connection (0: not yet accepted)
    fdOpen,         \* tc_fd is a valid, open socket
    interest,       \* events registered for tc_fd in its loop's Epoll
    inData,         \* unread peer messages in the socket
    eof,            \* the peer has closed its side
    sent,           \* messages the peer has sent
    obuf,           \* messages in tc_obuf
    timerId,        \* tc_timer_id
    nextTimerId,    \* Timer::tm_id
    timerQ,         \* idle-timeout nodes in the timer heap: [id, c]
    active,         \* keys of tm_id_state_map
    poolQ,          \* active_close callbacks queued on the timer's pool
    registry,       \* ts_tcp_connections
    pc,             \* the handler step each thread is in
    closeCount      \* history: calls of the close callback per connection

vars == <<ts_next_loop, nextConn, loopOf, fdOpen, interest, inData, eof, sent,
          obuf, timerId, nextTimerId, timerQ, active, poolQ, registry, pc,
          closeCount>>

TypeOK ==
    /\ ts_next_loop \in -1..(NumLoops - 1)
    /\ nextConn \in 0..MaxConns
    /\ loopOf \in [Conns -> 0..NumLoops]
    /\ fdOpen \in [Conns -> BOOLEAN]
    /\ interest \in [Conns -> SUBSET {"IN", "OUT"}]
    /\ inData \in [Conns -> 0..MaxMsgs]
    /\ eof \in [Conns -> BOOLEAN]
    /\ sent \in [Conns -> 0..MaxMsgs]
    /\ obuf \in [Conns -> 0..MaxMsgs]
    /\ timerId \in [Conns -> TimerIds \cup {-1}]
    /\ nextTimerId \in TimerIds
    /\ timerQ \subseteq [id : TimerIds, c : Conns]
    /\ active \subseteq TimerIds
    /\ poolQ \in Seq(Conns)
    /\ registry \in Seq(Conns)
    /\ pc \in [Threads -> [op : {"idle", "read", "msg"}, c : 0..MaxConns]]
    /\ closeCount \in [Conns -> Nat]

Init ==
    /\ ts_next_loop = -1
    /\ nextConn = 0
    /\ loopOf = [c \in Conns |-> 0]
    /\ fdOpen = [c \in Conns |-> FALSE]
    /\ interest = [c \in Conns |-> {}]
    /\ inData = [c \in Conns |-> 0]
    /\ eof = [c \in Conns |-> FALSE]
    /\ sent = [c \in Conns |-> 0]
    /\ obuf = [c \in Conns |-> 0]
    /\ timerId = [c \in Conns |-> -1]
    /\ nextTimerId = 0
    /\ timerQ = {}
    /\ active = {}
    /\ poolQ = <<>>
    /\ registry = <<>>
    /\ pc = [t \in Threads |-> Idle]
    /\ closeCount = [c \in Conns |-> 0]

--------------------------------------------------------------------------
(* Operations shared by several handlers.                                  *)

\* Mutant: get_next_loop forgets to wrap the index at the last loop.
GetNextLoopNoWrap(n) == IF n + 1 < NumLoops THEN n + 1 ELSE n

\* get_next_loop: ++ts_next_loop; ts_next_loop %= size
GetNextLoop(n) == (n + 1) % NumLoops

(* do_clean: erase the first entry of ts_tcp_connections that holds the  *)
(* connection, if there is one.                                            *)
DoClean(c) == RemoveFirst(registry, c)

(* add_new_tcp_conn: ts_timer.run_after(timeout, false, active_close),   *)
(* set_timer_id, then ts_tcp_connections.emplace_back.                   *)
AddNewTcpConn(c) ==
    /\ timerQ' = timerQ \cup {[id |-> nextTimerId, c |-> c]}
    /\ active' = active \cup {nextTimerId}
    /\ nextTimerId' = nextTimerId + 1
    /\ timerId' = [timerId EXCEPT ![c] = nextTimerId]
    /\ registry' = Append(registry, c)

\* Mutant: the message callback cancels the idle timer and does not re-arm it.
UpdateConnTimeoutNoRearm(c) ==
    /\ active' = active \ {timerId[c]}
    /\ registry' = DoClean(c)
    /\ UNCHANGED <<timerQ, nextTimerId, timerId>>

(* update_conn_timeout_time: ts_timer.cancel(timer id), do_clean (erase   *)
(* the first matching registry entry), add_new_tcp_conn.                  *)
UpdateConnTimeout(c) ==
    LET cleaned == DoClean(c)
    IN /\ timerQ' = timerQ \cup {[id |-> nextTimerId, c |-> c]}
       /\ active' = (active \ {timerId[c]}) \cup {nextTimerId}
       /\ nextTimerId' = nextTimerId + 1
       /\ timerId' = [timerId EXCEPT ![c] = nextTimerId]
       /\ registry' = Append(cleaned, c)

(* do_close, on whichever thread calls it: the close callback,           *)
(* del_from_poller(tc_fd), clear both buffers, tc_fd = -1 and close(fd),  *)
(* do_clean.  It does not cancel the idle timer.                           *)
DoClose(c) ==
    /\ closeCount' = [closeCount EXCEPT ![c] = @ + 1]
    /\ interest' = [interest EXCEPT ![c] = {}]
    /\ obuf' = [obuf EXCEPT ![c] = 0]
    /\ fdOpen' = [fdOpen EXCEPT ![c] = FALSE]
    /\ registry' = DoClean(c)

--------------------------------------------------------------------------
(* The acceptor thread.                                                    *)

(* Acceptor::do_accept for one socket, as one step of the acceptor      *)
(* thread: pick the next loop, construct the connection, and hand it to   *)
(* the server.  TcpConnection::add_task runs connected() at once on this  *)
(* thread (its el_tid) and add_to_poller(fd, EPOLLIN, do_read) on the     *)
(* worker loop's Epoll; add_new_tcp_conn arms the idle timer and          *)
(* registers the connection.  acceptor.cpp, which orders add_task and     *)
(* add_new_tcp_conn, is not in the repository, so no worker step is       *)
(* placed between them.                                                    *)
Accept ==
    /\ nextConn < MaxConns
    /\ LET c == nextConn + 1
           n == GetNextLoop(ts_next_loop)
       IN /\ nextConn' = c
          /\ ts_next_loop' = n
          /\ loopOf' = [loopOf EXCEPT ![c] = n + 1]
          /\ fdOpen' = [fdOpen EXCEPT ![c] = TRUE]
          /\ interest' = [interest EXCEPT ![c] = {"IN"}]
          /\ AddNewTcpConn(c)
    /\ UNCHANGED <<inData, eof, sent, obuf, poolQ, pc, closeCount>>

--------------------------------------------------------------------------
(* A worker loop thread: Epoll::poll and execute_cbs, then the callbacks. *)

Readable(c) == inData[c] > 0 \/ eof[c]

(* do_write: write2fd until tc_obuf is empty (the peer takes all of it),  *)
(* or -1 from a peer that has gone, which closes; an empty tc_obuf        *)
(* deregisters EPOLLOUT.                                                   *)
DoWrite(c, l) ==
    \/ /\ obuf' = [obuf EXCEPT ![c] = 0]
       /\ interest' = [interest EXCEPT ![c] = @ \ {"OUT"}]
       /\ UNCHANGED <<fdOpen, registry, closeCount>>
    \/ /\ eof[c]
       /\ DoClose(c)

(* Epoll::poll and execute_cbs for a ready fd of loop l.  EPOLLIN is      *)
(* tested first: a readable fd gets do_read; only an fd that is not       *)
(* readable gets do_write.                                                 *)
Poll(l) ==
    /\ pc[l] = Idle
    /\ \E c \in Conns :
        /\ loopOf[c] = l
        /\ \/ /\ "IN" \in interest[c] /\ Readable(c)
              /\ pc' = [pc EXCEPT ![l] = [op |-> "read", c |-> c]]
              /\ UNCHANGED <<fdOpen, interest, obuf, registry, closeCount>>
           \/ /\ "OUT" \in interest[c]
              /\ ~("IN" \in interest[c] /\ Readable(c))
              /\ DoWrite(c, l)
              /\ UNCHANGED pc
    /\ UNCHANGED <<ts_next_loop, nextConn, loopOf, inData, eof, sent, timerId,
                   nextTimerId, timerQ, active, poolQ>>

\* Mutant: read_from_fd leaves the bytes it read in the socket.
ReadFromFdNoConsume(c) == inData' = inData

\* read_from_fd: FIONREAD and read() take every pending byte.
ReadFromFd(c) == inData' = [inData EXCEPT ![c] = 0]

(* do_read: read_from_fd returns -1 on a closed fd (ioctl fails), 0 at    *)
(* the peer's end of stream, else the bytes read; -1 and 0 close.         *)
Read(l) ==
    /\ pc[l].op = "read"
    /\ LET c == pc[l].c
       IN \/ /\ fdOpen[c] /\ inData[c] > 0
             /\ ReadFromFd(c)
             /\ pc' = [pc EXCEPT ![l] = [op |-> "msg", c |-> c]]
             /\ UNCHANGED <<fdOpen, interest, obuf, registry, closeCount>>
          \/ /\ ~fdOpen[c] \/ inData[c] = 0
             /\ DoClose(c)
             /\ pc' = [pc EXCEPT ![l] = Idle]
             /\ UNCHANGED inData
    /\ UNCHANGED <<ts_next_loop, nextConn, loopOf, eof, sent, timerId,
                   nextTimerId, timerQ, active, poolQ>>

(* send() of the echo: write2buf, then, if tc_obuf was empty,             *)
(* add_to_poller(tc_fd, EPOLLOUT), which fails on a closed fd, now -1.    *)
Send(c) ==
    /\ interest' = [interest EXCEPT ![c] =
                      IF obuf[c] = 0 /\ fdOpen[c] THEN @ \cup {"OUT"} ELSE @]
    /\ obuf' = [obuf EXCEPT ![c] = @ + 1]

(* tc_message_cb = ts_message_cb: update_conn_timeout_time, then the      *)
(* user's onMessage, which echoes what it read with send().               *)
Message(l) ==
    /\ pc[l].op = "msg"
    /\ UpdateConnTimeout(pc[l].c)
    /\ Send(pc[l].c)
    /\ pc' = [pc EXCEPT ![l] = Idle]
    /\ UNCHANGED <<ts_next_loop, nextConn, loopOf, fdOpen, inData, eof, sent,
                   poolQ, closeCount>>

--------------------------------------------------------------------------
(* The idle timer and its pool.                                            *)

(* run_local pops a node whose timeout has expired; a cancelled id is     *)
(* dropped, an active one has its callback posted to the timer's pool.    *)
TimerFire ==
    /\ \E n \in timerQ :
        /\ timerQ' = timerQ \ {n}
        /\ poolQ' = IF n.id \in active THEN Append(poolQ, n.c) ELSE poolQ
    /\ UNCHANGED <<ts_next_loop, nextConn, loopOf, fdOpen, interest, inData,
                   eof, sent, obuf, timerId, nextTimerId, active, registry, pc,
                   closeCount>>

\* A pool thread runs the callback: tcp_conn->active_close(), i.e. do_close.
PoolRun ==
    /\ poolQ # <<>>
    /\ DoClose(Head(poolQ))
    /\ poolQ' = Tail(poolQ)
    /\ UNCHANGED <<ts_next_loop, nextConn, loopOf, inData, eof, sent,
                   timerId, nextTimerId, timerQ, active, pc>>

--------------------------------------------------------------------------
(* The clients.                                                            *)

TotalSent == FoldFunction(+, 0, sent)

PeerSend(c) ==
    /\ fdOpen[c] /\ ~eof[c] /\ TotalSent < MaxMsgs
    /\ inData' = [inData EXCEPT ![c] = @ + 1]
    /\ sent' = [sent EXCEPT ![c] = @ + 1]
    /\ UNCHANGED <<ts_next_loop, nextConn, loopOf, fdOpen, interest, eof, obuf,
                   timerId, nextTimerId, timerQ, active, poolQ, registry, pc,
                   closeCount>>

PeerClose(c) ==
    /\ fdOpen[c] /\ ~eof[c]
    /\ eof' = [eof EXCEPT ![c] = TRUE]
    /\ UNCHANGED <<ts_next_loop, nextConn, loopOf, fdOpen, interest, inData,
                   sent, obuf, timerId, nextTimerId, timerQ, active, poolQ,
                   registry, pc, closeCount>>

LoopStep(l) == Poll(l) \/ Read(l) \/ Message(l)

Next ==
    \/ Accept
    \/ \E l \in Loops : LoopStep(l)
    \/ TimerFire \/ PoolRun
    \/ \E c \in Conns : PeerSend(c) \/ PeerClose(c)

(* Every server thread runs whenever it has something to do, and an idle *)
(* timeout eventually expires; clients connect, send and close at will.   *)
Spec == Init /\ [][Next]_vars
        /\ WF_vars(TimerFire) /\ WF_vars(PoolRun)
        /\ \A l \in Loops : WF_vars(LoopStep(l))

--------------------------------------------------------------------------
(* Properties.                                                             *)

(* Round robin: the k-th accepted connection is bound to worker loop      *)
(* (k-1) mod NumLoops, whatever else has happened in between.            *)
RoundRobin ==
    \A c \in 1..nextConn : loopOf[c] = ((c - 1) % NumLoops) + 1

(* Idle eviction: every accepted connection is eventually closed, by the *)
(* peer or by its idle timer, however the timer was re-armed.             *)
EveryConnClosed == \A c \in Conns : fdOpen[c] ~> ~fdOpen[c]

(* The close callback runs once per connection (spec 8: "onClose fires    *)
(* exactly once").                                                         *)
CloseCallbackOnce == \A c \in Conns : closeCount[c] <= 1

(* A connection that has been closed is no longer in ts_tcp_connections   *)
(* (spec 4.4: closing removes the connection from the registry).          *)
ClosedConnLeavesRegistry ==
    \A c \in Conns : (closeCount[c] > 0) => ~Contains(registry, c)

=============================================================================
