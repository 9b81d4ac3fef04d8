------------------------------- MODULE Logger -------------------------------
(***************************************************************************)
(* The asynchronous logger (src/log/log.cpp, log.h) over its              *)
(* buffer_queue<string> (src/log/log_queue.h), after init() with          *)
(* buffer_queue_size >= 1 has started the writer thread async_write.      *)
(*                                                                         *)
(* Producers are threads calling write_log; a line is an id, its          *)
(* formatting is left out.  Each buffer_queue method runs under b_mutex   *)
(* and is one step, except pop's b_cond.wait: the check b_size <= 0 and   *)
(* the wait are two steps between which the writer still holds b_mutex,  *)
(* so no push falls between them, but the unlocked notify() of ~Logger    *)
(* can.  A wait can end spuriously.  ~Logger is the Main thread.          *)
(***************************************************************************)
EXTENDS Integers, Sequences, SequencesExt, FiniteSets

CONSTANTS
    Producers,   \* threads calling write_log
    Capacity,    \* buffer_queue_size passed to init, the queue's capacity
    MaxLines     \* bound: lines logged in all

ASSUME Capacity >= 1

Lines == 1..MaxLines
NoLine == 0
Slots == 0..(Capacity - 1)

VARIABLES
    b_array, b_first, b_last, b_size,
    is_thread_stop,
    wpc,         \* async_write: "pop", "checked" (holds b_mutex, about to
                 \* wait), "waiting", "recheck", "got", "done"
    item,        \* single_line
    ppc,         \* each producer: "idle" or "push"
    pline,       \* the line a producer is pushing
    mpc,         \* ~Logger: "run", "notify", "join", "done"
    nextLine,
    file,        \* the lines fputs wrote, in order
    pushed       \* history: the lines push accepted, in order

vars == <<b_array, b_first, b_last, b_size, is_thread_stop, wpc, item, ppc,
          pline, mpc, nextLine, file, pushed>>

queueVars == <<b_array, b_first, b_last, b_size>>

(* buffer_queue(max_size): an array of capacity slots, b_first = b_last = *)
(* -1, b_size = 0; the writer thread starts in pop.                       *)
Init ==
    /\ b_array = [s \in Slots |-> NoLine]
    /\ b_first = -1 /\ b_last = -1 /\ b_size = 0
    /\ is_thread_stop = FALSE
    /\ wpc = "pop" /\ item = NoLine
    /\ ppc = [p \in Producers |-> "idle"]
    /\ pline = [p \in Producers |-> NoLine]
    /\ mpc = "run"
    /\ nextLine = 1
    /\ file = <<>>
    /\ pushed = <<>>

\* Mutant: notify_all wakes nobody.
NotifyAllNone == UNCHANGED wpc

(* b_cond.notify_all(): the writer, if it is in the wait, wakes; if it is *)
(* between its check and its wait, the notification is lost.              *)
NotifyAll == wpc' = IF wpc = "waiting" THEN "recheck" ELSE wpc

\* Mutant: push stores the item at b_last before advancing it.
PushStoreFirst(x) ==
    /\ b_array' = [b_array EXCEPT ![(b_last + Capacity) % Capacity] = x]
    /\ b_last' = (b_last + 1) % Capacity
    /\ b_size' = b_size + 1

\* Mutant: push advances b_last without the modulo.
PushItemNoWrap(x) ==
    /\ b_last' = b_last + 1
    /\ b_array' = [b_array EXCEPT ![(b_last + 1) % Capacity] = x]
    /\ b_size' = b_size + 1

(* push(item) with room: b_last = (b_last + 1) % capacity,                *)
(* b_array[b_last] = item, b_size++.                                       *)
PushItem(x) ==
    /\ b_last' = (b_last + 1) % Capacity
    /\ b_array' = [b_array EXCEPT ![(b_last + 1) % Capacity] = x]
    /\ b_size' = b_size + 1

\* Mutant: pop reads the slot at b_first before advancing it.
TakeItemStale ==
    /\ b_first' = (b_first + 1) % Capacity
    /\ item' = b_array[(b_first + Capacity) % Capacity]
    /\ b_size' = b_size - 1
    /\ UNCHANGED <<b_array, b_last>>

(* pop with b_size > 0: b_first = (b_first + 1) % capacity,               *)
(* item = b_array[b_first], b_size--.                                      *)
TakeItem ==
    /\ b_first' = (b_first + 1) % Capacity
    /\ item' = b_array[(b_first + 1) % Capacity]
    /\ b_size' = b_size - 1
    /\ UNCHANGED <<b_array, b_last>>

--------------------------------------------------------------------------
(* Producers: write_log.                                                   *)

\* write_log formats the line under l_mutex, then starts pushing it.
WriteLog(p) ==
    /\ ppc[p] = "idle" /\ mpc = "run"
    /\ nextLine <= MaxLines
    /\ ppc' = [ppc EXCEPT ![p] = "push"]
    /\ pline' = [pline EXCEPT ![p] = nextLine]
    /\ nextLine' = nextLine + 1
    /\ UNCHANGED <<queueVars, is_thread_stop, wpc, item, mpc, file, pushed>>

(* One round of while (!l_buffer_queue->push(log_str) && !is_thread_stop). *)
(* push takes b_mutex, so it waits while the writer holds it.  A full      *)
(* queue notifies and returns false; the loop then ends only if            *)
(* is_thread_stop is set, and the line is lost.  Otherwise the item is    *)
(* stored, the writer notified, and write_log returns.                    *)
Push(p) ==
    /\ ppc[p] = "push" /\ wpc # "checked"
    /\ \/ /\ b_size >= Capacity
          /\ NotifyAll
          /\ ppc' = IF is_thread_stop THEN [ppc EXCEPT ![p] = "idle"] ELSE ppc
          /\ UNCHANGED <<queueVars, pushed>>
       \/ /\ b_size < Capacity
          /\ PushItem(pline[p]) /\ UNCHANGED b_first
          /\ NotifyAll
          /\ ppc' = [ppc EXCEPT ![p] = "idle"]
          /\ pushed' = Append(pushed, pline[p])
    /\ UNCHANGED <<is_thread_stop, item, pline, mpc, nextLine, file>>

--------------------------------------------------------------------------
(* The writer thread: async_write's loop over pop(single_line).           *)

WriterUnchanged == UNCHANGED <<is_thread_stop, ppc, pline, mpc, nextLine, pushed>>

\* pop: lock b_mutex; with an item take it, else go on to the wait.
PopLock ==
    /\ wpc = "pop"
    /\ \/ b_size > 0 /\ TakeItem /\ wpc' = "got"
       \/ b_size <= 0 /\ wpc' = "checked" /\ UNCHANGED <<queueVars, item>>
    /\ UNCHANGED file /\ WriterUnchanged

\* b_cond.wait(lck): release b_mutex and join the wait.
PopWait ==
    /\ wpc = "checked"
    /\ wpc' = "waiting"
    /\ UNCHANGED <<queueVars, item, file>> /\ WriterUnchanged

\* The wait returns without a notification.
SpuriousWakeup ==
    /\ wpc = "waiting"
    /\ wpc' = "recheck"
    /\ UNCHANGED <<queueVars, item, file>> /\ WriterUnchanged

(* After the wait, b_mutex again: if (b_size <= 0) return false, which    *)
(* ends async_write's loop and the thread; else take the item.            *)
PopRecheck ==
    /\ wpc = "recheck"
    /\ \/ b_size > 0 /\ TakeItem /\ wpc' = "got"
       \/ b_size <= 0 /\ wpc' = "done" /\ UNCHANGED <<queueVars, item>>
    /\ UNCHANGED file /\ WriterUnchanged

(* pop returned true; && !is_thread_stop: if stop is set the loop ends    *)
(* and the popped line is dropped, else fputs it under l_mutex.           *)
WriteLine ==
    /\ wpc = "got"
    /\ IF is_thread_stop
       THEN wpc' = "done" /\ UNCHANGED file
       ELSE wpc' = "pop" /\ file' = Append(file, item)
    /\ item' = NoLine
    /\ UNCHANGED queueVars /\ WriterUnchanged

--------------------------------------------------------------------------
(* ~Logger: is_thread_stop = true, notify(), join().                       *)

MainUnchanged == UNCHANGED <<queueVars, item, ppc, pline, nextLine, file, pushed>>

StopFlag ==
    /\ mpc = "run"
    /\ is_thread_stop' = TRUE /\ mpc' = "notify"
    /\ UNCHANGED wpc /\ MainUnchanged

\* l_buffer_queue->notify(): notify_all without b_mutex
StopNotify ==
    /\ mpc = "notify"
    /\ NotifyAll /\ mpc' = "join"
    /\ UNCHANGED is_thread_stop /\ MainUnchanged

StopJoin ==
    /\ mpc = "join" /\ wpc = "done"
    /\ mpc' = "done"
    /\ UNCHANGED <<is_thread_stop, wpc>> /\ MainUnchanged

Writer == PopLock \/ PopWait \/ PopRecheck \/ WriteLine

Next ==
    \/ \E p \in Producers : WriteLog(p) \/ Push(p)
    \/ Writer \/ SpuriousWakeup
    \/ StopFlag \/ StopNotify \/ StopJoin

(* The writer, a producer inside write_log and ~Logger once begun run on. *)
(* When write_log is called, when the process exits and whether a wait    *)
(* ends spuriously are up to the environment.                             *)
Spec == Init /\ [][Next]_vars
        /\ WF_vars(Writer)
        /\ \A p \in Producers : WF_vars(Push(p))
        /\ WF_vars(StopNotify) /\ WF_vars(StopJoin)

--------------------------------------------------------------------------
(* Properties.                                                             *)

TypeOK ==
    /\ b_array \in [Slots -> Lines \cup {NoLine}]
    /\ b_first \in -1..(Capacity - 1) /\ b_last \in -1..(Capacity - 1)
    /\ b_size \in 0..Capacity
    /\ wpc \in {"pop", "checked", "waiting", "recheck", "got", "done"}
    /\ ppc \in [Producers -> {"idle", "push"}]
    /\ mpc \in {"run", "notify", "join", "done"}

(* The items of the ring, oldest first: b_size slots after b_first.       *)
RingContents == [i \in 1..b_size |-> b_array[(b_first + i) % Capacity]]

(* buffer_queue is a bounded FIFO: under the ring's index arithmetic,     *)
(* with b_first and b_last wrapping and starting at -1, the items it      *)
(* holds change only by appending a pushed line or removing the oldest.   *)
Q == INSTANCE LogQueue WITH queue <- RingContents, Items <- Lines
QueueRefinement == Q!Spec

(* Until ~Logger sets is_thread_stop, every line push accepted is, in     *)
(* the order of the pushes, written by fputs, held by the writer between *)
(* pop and fputs, or still queued: none is lost, duplicated or reordered *)
(* between the producers' push and async_write.                           *)
LinesConserved ==
    ~is_thread_stop =>
        pushed = file \o (IF wpc = "got" THEN <<item>> ELSE <<>>) \o RingContents

(* A line push accepted is eventually written, unless the writer thread   *)
(* has ended: push's notify_all reaches a writer waiting in pop, and no   *)
(* push falls between the writer's check and its wait.                   *)
LineWritten ==
    \A l \in Lines : Contains(pushed, l) ~> (Contains(file, l) \/ wpc = "done")

(* Every write_log call returns: the push loop ends once the writer has   *)
(* made room, or once is_thread_stop is set.                              *)
WriteLogReturns ==
    \A p \in Producers : ppc[p] = "push" ~> ppc[p] = "idle"

=============================================================================
