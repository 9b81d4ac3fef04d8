------------------------------- MODULE Buffers -------------------------------
(***************************************************************************)
(* The input and output buffers of one connection (src/memory/data_buf.cpp *)
(* over Chunk, src/memory/chunk.cpp) as the pool's clients, driven by      *)
(* TcpConnection::do_read, send, do_write and do_close                     *)
(* (src/net/tcp_conn.cpp).  Another worker loop shares the pool and takes  *)
(* and returns 4K chunks meanwhile.                                        *)
(*                                                                         *)
(* A chunk is [cap, length, head], cap 0 standing for nullptr; bytes are   *)
(* counted, not named: a single loop thread owns both buffers, so a grow   *)
(* copies the live bytes in order and only their number can go wrong.      *)
(* The buffer steps run on the connection's loop thread, one handler at a  *)
(* time (lpc).  A grow-and-copy is split after alloc_chunk, which drops    *)
(* mp_mutex before the retrieve of the old chunk takes it again.           *)
(***************************************************************************)
EXTENDS MemPool

CONSTANTS
    PeerSizes,    \* bytes the peer sends at once
    SendSizes,    \* len of a send(data, len) from the message callback
    MaxIn,        \* bound: bytes the peer sends in all
    MaxSends,     \* bound: send calls in all
    MaxOther      \* bound: 4K chunks the other loop holds at once

VARIABLES
    ibuf, obuf,   \* tc_ibuf.data_buf and tc_obuf.data_buf
    oldCap,       \* the chunk a grow has replaced and not yet retrieved
    pend,         \* need_read or len carried across a grow
    lpc,          \* the loop thread: "idle", "rgrow", "wgrow", "closing",
                  \* "clearout", "closed"
    kin,          \* bytes in the socket's receive queue
    eof,          \* the peer has shut down its side
    peerSent, appRead, written, delivered, sends,
    oheld,        \* 4K chunks the other loop holds
    lastAlloc,    \* history: request and result of the last alloc_chunk
    ep_event_map, \* the loop's Epoll: fd -> [event, read_cb set, write_cb set]
    kernel,       \* the epoll instance's interest list in the kernel: fd -> events
    activateOut   \* send's should_activate_epollout, across a grow

bufVars == <<ibuf, obuf, oldCap, pend, lpc, kin, eof, peerSent, appRead,
             written, delivered, sends, oheld>>
epVars == <<ep_event_map, kernel, activateOut>>
vars == <<poolVars, bufVars, lastAlloc, epVars>>

ConnFd == 5                 \* tc_fd
EPOLLIN == "EPOLLIN"
EPOLLOUT == "EPOLLOUT"


None == [cap |-> 0, length |-> 0, head |-> 0]
Fresh(cap) == [None EXCEPT !.cap = cap]

Init ==
    /\ PoolInit
    /\ ibuf = None /\ obuf = None
    /\ oldCap = 0 /\ pend = 0 /\ lpc = "idle"
    /\ kin = 0 /\ eof = FALSE
    /\ peerSent = 0 /\ appRead = 0 /\ written = 0 /\ delivered = 0 /\ sends = 0
    /\ oheld = 0
    /\ lastAlloc = [n |-> 0, cap |-> -1]
    \* TcpConnection::add_task: add_to_poller(tc_fd, EPOLLIN, do_read)
    /\ ep_event_map = [f \in {ConnFd} |->
                         [event |-> {EPOLLIN}, rcb |-> TRUE, wcb |-> FALSE]]
    /\ kernel = [f \in {ConnFd} |-> {EPOLLIN}]
    /\ activateOut = FALSE

--------------------------------------------------------------------------
(* Chunk operations.                                                       *)

\* Chunk::pop(len): length -= len; head += len
ChunkPop(b, len) == [b EXCEPT !.length = @ - len, !.head = @ + len]

\* Chunk::adjust: memmove the live bytes to offset 0
ChunkAdjust(b) == [b EXCEPT !.head = 0]

\* Mutant: copy forgets the live bytes of the old chunk.
CopyChunkEmpty(new, other) == [new EXCEPT !.head = 0, !.length = 0]

\* new->copy(other): the live bytes of other, at offset 0 of new
CopyChunk(new, other) == [new EXCEPT !.head = 0, !.length = other.length]

\* memcpy(data + length, data, len); length += len
AppendBytes(b, n) == [b EXCEPT !.length = @ + n]

\* capacity - length < need: the chunk cannot take n more bytes
Fits(b, n) == b.cap - b.length >= n

\* Mutant: the grow asks for the new bytes only.
GrowRequestNeedOnly(b, n) == n

\* alloc_chunk(need_read + data_buf->length) for a grow
GrowRequest(b, n) == n + b.length

(* How much of len live bytes a pop or a write takes: all, or all but    *)
(* one, which leaves a head to adjust and a remainder to carry.            *)
Taken(len) == {len, len - 1} \ {0}

RecordAlloc(n, cap) == lastAlloc' = [n |-> n, cap |-> cap]

--------------------------------------------------------------------------
(* Epoll, as add_to_poller and del_from_poller reach it.  epoll_ctl fails *)
(* an ADD of a registered fd (EEXIST) and a MOD or DEL of an unregistered *)
(* one (ENOENT), leaving the kernel's interest list as it was.            *)

CtlAdd(fd, ev) ==
    kernel' = IF fd \in DOMAIN kernel THEN kernel
              ELSE [f \in DOMAIN kernel \cup {fd} |-> IF f = fd THEN ev ELSE kernel[f]]

CtlMod(fd, ev) ==
    kernel' = IF fd \in DOMAIN kernel THEN [kernel EXCEPT ![fd] = ev] ELSE kernel

CtlDel(fd) == kernel' = [f \in DOMAIN kernel \ {fd} |-> kernel[f]]

\* Mutant: epoll_add always issues EPOLL_CTL_ADD.
EpollCtlAddOnly(fd, final) == CtlAdd(fd, final)

\* op = EPOLL_CTL_MOD when fd was found in ep_event_map, else EPOLL_CTL_ADD
EpollCtl(fd, final) ==
    IF fd \in DOMAIN ep_event_map THEN CtlMod(fd, final) ELSE CtlAdd(fd, final)

(* epoll_add(fd, event, cb): final_events is event, or the entry's event  *)
(* | event with EPOLL_CTL_MOD when fd is in ep_event_map; the callback for *)
(* EPOLLIN, else EPOLLOUT, and the event are written into the map          *)
(* (operator[] creates the entry) before epoll_ctl, whose failure is only *)
(* logged.                                                                 *)
EpollAdd(fd, ev) ==
    LET found == fd \in DOMAIN ep_event_map
        old == IF found THEN ep_event_map[fd]
               ELSE [event |-> {}, rcb |-> FALSE, wcb |-> FALSE]
        final == old.event \cup {ev}
    IN  /\ ep_event_map' = [f \in DOMAIN ep_event_map \cup {fd} |->
              IF f = fd THEN [old EXCEPT !.event = final, !.rcb = @ \/ ev = EPOLLIN,
                                         !.wcb = @ \/ ev = EPOLLOUT]
              ELSE ep_event_map[f]]
        /\ EpollCtl(fd, final)

\* epoll_del(fd): erase the entry, EPOLL_CTL_DEL
EpollDelFd(fd) ==
    /\ ep_event_map' = [f \in DOMAIN ep_event_map \ {fd} |-> ep_event_map[f]]
    /\ CtlDel(fd)

(* epoll_del(fd, event): nothing for an fd not in the map; else clear the *)
(* event, and epoll_del(fd) when none is left, else EPOLL_CTL_MOD.        *)
EpollDelEvent(fd, ev) ==
    IF fd \notin DOMAIN ep_event_map THEN UNCHANGED <<ep_event_map, kernel>>
    ELSE LET target == ep_event_map[fd].event \ {ev} IN
         IF target = {} THEN EpollDelFd(fd)
         ELSE /\ ep_event_map' = [ep_event_map EXCEPT ![fd].event = target]
              /\ CtlMod(fd, target)

(* execute_cbs: epoll_wait reports the fd's registered events that hold;  *)
(* EPOLLIN runs read_callback, else EPOLLOUT runs write_callback, each    *)
(* only if set.  The socket is readable with bytes queued or after the     *)
(* peer's FIN; it is writable whenever the kernel would take a byte.      *)
Registered(ev) == ConnFd \in DOMAIN kernel /\ ev \in kernel[ConnFd]
InReady == Registered(EPOLLIN) /\ (kin > 0 \/ eof)
ReadDispatch == InReady /\ ep_event_map[ConnFd].rcb
WriteDispatch ==
    /\ Registered(EPOLLOUT) /\ ~InReady
    /\ ep_event_map[ConnFd].wcb

\* Mutant: send activates EPOLLOUT when tc_obuf already held bytes.
ShouldActivateEpolloutInverted(b) == b.length # 0

\* Mutant: send activates EPOLLOUT only when tc_obuf holds no chunk.
ShouldActivateEpolloutNoChunk(b) == b.cap = 0

\* send: should_activate_epollout = (tc_obuf.length() == 0), before write2buf
ShouldActivateEpollout(b) == b.length = 0

\* send, after write2buf returned 0: add_to_poller(tc_fd, EPOLLOUT, do_write)
ActivateEpollout(act) ==
    IF act THEN EpollAdd(ConnFd, EPOLLOUT) ELSE UNCHANGED <<ep_event_map, kernel>>

--------------------------------------------------------------------------
(* InputBuffer and do_read.                                                *)

(* The read of read_from_fd into chunk b, need_read = need, and do_read's *)
(* dispatch on the result.  The kernel holds at least need bytes, so a    *)
(* read of need returns need; need 0 happens only at end of stream, where *)
(* read returns 0 and do_read closes.                                      *)
ReadInto(b, need) ==
    /\ IF need = 0
       THEN /\ ibuf' = b /\ lpc' = "closing" /\ UNCHANGED kin
       ELSE /\ ibuf' = AppendBytes(b, need) /\ kin' = kin - need
            /\ lpc' = "idle"
    /\ oldCap' = 0 /\ pend' = 0

\* read_from_fd returns -1: do_read closes
ReadFail == lpc' = "closing" /\ UNCHANGED <<ibuf, kin, oldCap, pend>>

BufUnchangedExceptIn == UNCHANGED <<obuf, eof, peerSent, appRead, written,
                                    delivered, sends, oheld, epVars>>

(* do_read on EPOLLIN, through read_from_fd up to its read: ioctl FIONREAD *)
(* gives need_read; with no chunk alloc_chunk(need_read), with too little  *)
(* room alloc_chunk(need_read + length), then copy (the retrieve is        *)
(* ReadGrowRetrieve).                                                      *)
ReadFromFd ==
    LET need == kin IN
    /\ lpc = "idle" /\ ~exited
    /\ ReadDispatch
    /\ \/ /\ ibuf.cap = 0
          /\ \E cap \in Classes \cup {0} :
                /\ AllocChunk(need, cap) /\ RecordAlloc(need, cap)
                /\ IF cap = 0 THEN ReadFail ELSE ReadInto(Fresh(cap), need)
       \/ /\ ibuf.cap # 0 /\ Fits(ibuf, need)
          /\ ReadInto(ibuf, need)
          /\ UNCHANGED <<poolVars, lastAlloc>>
       \/ /\ ibuf.cap # 0 /\ ~Fits(ibuf, need)
          /\ \E cap \in Classes \cup {0} :
                /\ AllocChunk(GrowRequest(ibuf, need), cap)
                /\ RecordAlloc(GrowRequest(ibuf, need), cap)
                /\ IF cap = 0 THEN ReadFail
                   ELSE /\ ibuf' = CopyChunk(Fresh(cap), ibuf)
                        /\ oldCap' = ibuf.cap /\ pend' = need
                        /\ lpc' = "rgrow" /\ UNCHANGED kin
    /\ BufUnchangedExceptIn

\* retrieve(data_buf) of the old chunk, data_buf = new_buf, then the read
ReadGrowRetrieve ==
    /\ lpc = "rgrow" /\ ~exited
    /\ Retrieve(oldCap)
    /\ ReadInto(ibuf, pend)
    /\ UNCHANGED lastAlloc
    /\ BufUnchangedExceptIn

(* BufferBase::pop(len) from the message callback, then                    *)
(* InputBuffer::adjust: a chunk emptied by the pop goes back to the pool.  *)
AppPop(k) ==
    LET b == ChunkPop(ibuf, k) IN
    /\ lpc = "idle" /\ ~exited
    /\ ibuf.cap # 0 /\ k <= ibuf.length
    /\ IF b.length = 0
       THEN Retrieve(ibuf.cap) /\ ibuf' = None
       ELSE ibuf' = ChunkAdjust(b) /\ UNCHANGED poolVars
    /\ appRead' = appRead + k
    /\ UNCHANGED <<obuf, oldCap, pend, lpc, kin, eof, peerSent, written,
                   delivered, sends, oheld, lastAlloc, epVars>>

--------------------------------------------------------------------------
(* OutputBuffer, send and do_write.                                        *)

\* write2buf returns -1: send returns false and the bytes are dropped
SendFail == UNCHANGED <<obuf, written, lpc, oldCap, pend, epVars>>

BufUnchangedExceptOut == UNCHANGED <<ibuf, kin, eof, peerSent, appRead,
                                     delivered, oheld>>

(* send(data, n) from the message callback, through write2buf up to its   *)
(* memcpy: with no chunk alloc_chunk(len), with too little room            *)
(* alloc_chunk(len + length) and copy (the retrieve is SendGrowRetrieve).  *)
(* When write2buf succeeds, send activates EPOLLOUT if tc_obuf was empty.  *)
Send(n) ==
    /\ lpc = "idle" /\ ~exited
    /\ sends < MaxSends /\ sends' = sends + 1
    /\ \/ /\ obuf.cap = 0
          /\ \E cap \in Classes \cup {0} :
                /\ AllocChunk(n, cap) /\ RecordAlloc(n, cap)
                /\ IF cap = 0 THEN SendFail
                   ELSE /\ obuf' = AppendBytes(Fresh(cap), n)
                        /\ written' = written + n
                        /\ ActivateEpollout(ShouldActivateEpollout(obuf))
                        /\ UNCHANGED <<lpc, oldCap, pend, activateOut>>
       \/ /\ obuf.cap # 0 /\ Fits(obuf, n)
          /\ obuf' = AppendBytes(obuf, n) /\ written' = written + n
          /\ ActivateEpollout(ShouldActivateEpollout(obuf))
          /\ UNCHANGED <<lpc, oldCap, pend, poolVars, lastAlloc, activateOut>>
       \/ /\ obuf.cap # 0 /\ ~Fits(obuf, n)
          /\ \E cap \in Classes \cup {0} :
                /\ AllocChunk(GrowRequest(obuf, n), cap)
                /\ RecordAlloc(GrowRequest(obuf, n), cap)
                /\ IF cap = 0 THEN SendFail
                   ELSE /\ obuf' = CopyChunk(Fresh(cap), obuf)
                        /\ oldCap' = obuf.cap /\ pend' = n
                        /\ lpc' = "wgrow" /\ UNCHANGED written
                        /\ activateOut' = ShouldActivateEpollout(obuf)
                        /\ UNCHANGED <<ep_event_map, kernel>>
    /\ BufUnchangedExceptOut

(* retrieve(data_buf) of the old chunk, data_buf = new_buf, the memcpy,   *)
(* and send's EPOLLOUT activation.                                         *)
SendGrowRetrieve ==
    /\ lpc = "wgrow" /\ ~exited
    /\ Retrieve(oldCap)
    /\ obuf' = AppendBytes(obuf, pend) /\ written' = written + pend
    /\ ActivateEpollout(activateOut) /\ activateOut' = FALSE
    /\ lpc' = "idle" /\ oldCap' = 0 /\ pend' = 0
    /\ UNCHANGED <<sends, lastAlloc>>
    /\ BufUnchangedExceptOut

(* write2fd after the kernel took k > 0 bytes: pop them and adjust.  The  *)
(* chunk is kept even when it is emptied.                                  *)
Write2Fd(k) == obuf' = ChunkAdjust(ChunkPop(obuf, k))

(* do_write on EPOLLOUT: write2fd until the buffer is empty or the kernel *)
(* would block, k bytes in all, and del_from_poller(tc_fd, EPOLLOUT) once *)
(* it is empty; or write fails and do_write closes.  EPOLLOUT is          *)
(* registered only while tc_obuf holds bytes (WriteInterestIffPending).   *)
DoWrite ==
    /\ lpc = "idle" /\ ~exited
    /\ WriteDispatch
    /\ \/ \E k \in Taken(obuf.length) :
             /\ Write2Fd(k) /\ delivered' = delivered + k /\ UNCHANGED lpc
             /\ IF k = obuf.length THEN EpollDelEvent(ConnFd, EPOLLOUT)
                ELSE UNCHANGED <<ep_event_map, kernel>>
       \/ lpc' = "closing" /\ UNCHANGED <<obuf, delivered, ep_event_map, kernel>>
    /\ UNCHANGED <<poolVars, lastAlloc, ibuf, oldCap, pend, kin, eof, peerSent,
                   appRead, written, sends, oheld, activateOut>>

--------------------------------------------------------------------------
(* do_close and BufferBase::clear; the peer; the other loop.              *)

\* clear(): retrieve the chunk if there is one
Clear(b) == IF b.cap # 0 THEN Retrieve(b.cap) ELSE UNCHANGED poolVars

\* do_close: del_from_poller(tc_fd), then tc_ibuf.clear()
CloseClearIn ==
    /\ lpc = "closing" /\ ~exited
    /\ EpollDelFd(ConnFd)
    /\ Clear(ibuf) /\ ibuf' = None /\ lpc' = "clearout"
    /\ UNCHANGED <<activateOut, lastAlloc, obuf, oldCap, pend, kin, eof, peerSent, appRead,
                   written, delivered, sends, oheld>>

\* do_close: tc_obuf.clear(), then close(fd)
CloseClearOut ==
    /\ lpc = "clearout" /\ ~exited
    /\ Clear(obuf) /\ obuf' = None /\ lpc' = "closed"
    /\ UNCHANGED <<epVars, lastAlloc, ibuf, oldCap, pend, kin, eof, peerSent, appRead,
                   written, delivered, sends, oheld>>

PeerUnchanged == UNCHANGED <<poolVars, lastAlloc, ibuf, obuf, oldCap, pend,
                             lpc, appRead, written, delivered, sends, oheld,
                             epVars>>

PeerSend(n) ==
    /\ ~eof /\ lpc # "closed"
    /\ peerSent + n <= MaxIn
    /\ kin' = kin + n /\ peerSent' = peerSent + n
    /\ UNCHANGED eof /\ PeerUnchanged

PeerShutdown ==
    /\ ~eof /\ lpc # "closed"
    /\ eof' = TRUE
    /\ UNCHANGED <<kin, peerSent>> /\ PeerUnchanged

OtherUnchanged == UNCHANGED <<ibuf, obuf, oldCap, pend, lpc, kin, eof, peerSent,
                              appRead, written, delivered, sends, epVars>>

\* Another loop's buffer takes a 4K chunk ...
OtherAlloc ==
    /\ ~exited /\ oheld < MaxOther
    /\ \E cap \in Classes \cup {0} :
          /\ AllocChunk(mLow, cap) /\ RecordAlloc(mLow, cap)
          /\ oheld' = IF cap = 0 THEN oheld ELSE oheld + 1
    /\ OtherUnchanged

\* ... and gives it back.
OtherRelease ==
    /\ ~exited /\ oheld > 0
    /\ Retrieve(mLow) /\ oheld' = oheld - 1
    /\ UNCHANGED lastAlloc /\ OtherUnchanged

Next ==
    \/ ReadFromFd \/ ReadGrowRetrieve \/ \E k \in Taken(ibuf.length) : AppPop(k)
    \/ \E n \in SendSizes : Send(n)
    \/ SendGrowRetrieve \/ DoWrite \/ CloseClearIn \/ CloseClearOut
    \/ \E n \in PeerSizes : PeerSend(n)
    \/ PeerShutdown \/ OtherAlloc \/ OtherRelease

(* The loop thread's handlers, which EventLoop::loop runs whenever        *)
(* epoll_wait reports the fd or a grow or close is under way.             *)
LoopStep ==
    \/ ReadFromFd \/ ReadGrowRetrieve \/ SendGrowRetrieve \/ DoWrite
    \/ CloseClearIn \/ CloseClearOut

(* The loop thread is weakly fair: it polls again after every handler.   *)
(* What the peer, the callback and the other loop do is arbitrary, and    *)
(* gets no fairness.                                                       *)
Spec == Init /\ [][Next]_vars /\ WF_vars(LoopStep)

--------------------------------------------------------------------------
(* Properties.                                                             *)

Chunk == [cap : Classes \cup {0}, length : Nat, head : Nat]

TypeOK ==
    /\ mp_pool \in [Classes -> Nat]
    /\ mp_left_size_kb \in 0..mp_total_size_kb
    /\ ibuf \in Chunk /\ obuf \in Chunk
    /\ lpc \in {"idle", "rgrow", "wgrow", "closing", "clearout", "closed"}
    /\ oheld \in 0..MaxOther
    /\ DOMAIN ep_event_map \subseteq {ConnFd}
    /\ \A f \in DOMAIN ep_event_map :
          ep_event_map[f] \in [event : SUBSET {EPOLLIN, EPOLLOUT},
                               rcb : BOOLEAN, wcb : BOOLEAN]
    /\ kernel \in [DOMAIN kernel -> SUBSET {EPOLLIN, EPOLLOUT}]

(* Spec 4.1: alloc_chunk(n) returns a chunk of the smallest class >= n,   *)
(* and nullptr above the top class, for every request the buffers make:   *)
(* a first read or send, and each grow of need + length.                  *)
RoundUpIsSmallestClass ==
    (lastAlloc.cap # -1 /\ ~exited) =>
        IF lastAlloc.n > mUp THEN lastAlloc.cap = 0
        ELSE lastAlloc.cap = Min({c \in Classes : c >= lastAlloc.n})

(* Spec 3: a chunk a buffer holds never has its live bytes past its       *)
(* capacity, head + length <= capacity, across grow-and-copy, partial      *)
(* writes and pops.                                                        *)
ChunkFits ==
    \A b \in {ibuf, obuf} : b.head + b.length <= b.cap

(* Spec 7, buffer round-trip: until do_close clears them, every byte the  *)
(* peer sent is in the socket, in tc_ibuf or consumed by the callback,    *)
(* and every byte send accepted is in tc_obuf or written to the socket:   *)
(* no grow, copy or partial write loses or duplicates a byte.             *)
BytesConserved ==
    lpc \notin {"clearout", "closed"} =>
        /\ peerSent = kin + ibuf.length + appRead
        /\ written = obuf.length + delivered

(* Spec 7, pool conservation: the free KB counter equals the free lists   *)
(* and the total equals the free lists plus the chunks the buffers, a     *)
(* grow in progress and the other loop hold, whatever the interleaving of *)
(* the two loops between alloc_chunk and retrieve.                        *)
FreeKB == MapThenSumSet(LAMBDA c : KB(c) * mp_pool[c], Classes)
HeldKB == KB(ibuf.cap) + KB(obuf.cap) + KB(oldCap) + oheld * KB(mLow)

PoolConservation ==
    /\ mp_left_size_kb = FreeKB
    /\ mp_total_size_kb = FreeKB + HeldKB

(* The epoll instance's interest list in the kernel and ep_event_map stay *)
(* in step through every epoll_add, epoll_del and do_close: an fd is      *)
(* registered exactly when it has an entry, with the entry's events, and  *)
(* each registered event has its callback, so execute_cbs's assert holds  *)
(* and no reported event is ignored and reported again forever.           *)
InterestMirrorsMap ==
    /\ DOMAIN kernel = DOMAIN ep_event_map
    /\ \A f \in DOMAIN kernel :
          /\ kernel[f] = ep_event_map[f].event
          /\ EPOLLIN \in kernel[f] => ep_event_map[f].rcb
          /\ EPOLLOUT \in kernel[f] => ep_event_map[f].wcb

(* Spec 4.4, send: between handlers, EPOLLOUT is registered exactly while *)
(* tc_obuf holds bytes, across sends that grow the buffer, partial writes *)
(* and a drained buffer that keeps its chunk: no byte waits for an event  *)
(* that never comes, and the loop never spins on an empty buffer.         *)
WriteInterestIffPending ==
    lpc \in {"idle", "rgrow"} =>
        (Registered(EPOLLOUT) <=> obuf.length > 0)

(* Spec 4.4, send then do_write: bytes send accepted into tc_obuf are     *)
(* eventually written to the socket, or the connection closes (a failed   *)
(* write, the peer's end of stream) or the process exits at the pool's    *)
(* ceiling; they never wait for an EPOLLOUT that is not registered, nor   *)
(* behind an EPOLLIN that keeps being reported.                           *)
OutputDrained ==
    obuf.length > 0 ~> (obuf.length = 0 \/ exited)

=============================================================================
