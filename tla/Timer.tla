-------------------------------- MODULE Timer --------------------------------
(***************************************************************************)
(* The min-heap timer of src/timer/timer.h.                                *)
(*                                                                         *)
(* Client threads call run_after / run_at / run_repeated (each takes the   *)
(* next id, marks it Running in tm_id_state_map, pushes a TimerNode under  *)
(* tm_mutex and notifies tm_cond) and cancel (erases the id from the map,  *)
(* without tm_mutex).  One tick thread runs run_local: it checks           *)
(* tm_running, takes the lock, waits while the heap is empty or the top    *)
(* node is not due, otherwise pops it, drops it if its id is no longer in  *)
(* the map, re-inserts periodic and repeated nodes, unlocks and posts the  *)
(* callback to the timer's thread pool.  The destructor clears tm_running  *)
(* and notifies tm_cond without holding tm_mutex.                          *)
(*                                                                         *)
(* Time is a discrete clock `now`; a callback posted to the pool is        *)
(* counted in postCount.  postCount, cancelAt and requested are history    *)
(* variables used only by the properties.                                  *)
(***************************************************************************)
EXTENDS Integers, Sequences, FiniteSets

CONSTANTS
    MaxId,          \* number of timer nodes the clients may create (bound on tm_id)
    MaxTime,        \* bound on the clock
    Delays,         \* ms_time values passed to run_after / run_repeated
    RepeatCounts    \* repeated_num values passed to run_repeated

ASSUME /\ MaxId \in Nat \ {0}
       /\ MaxTime \in Nat
       /\ Delays \subseteq Nat \ {0}
       /\ RepeatCounts \subseteq Nat

Ids == 0..(MaxId - 1)
Times == 0..(MaxTime + MaxTime)   \* a re-armed node may lie beyond MaxTime
NoCancel == -1
NoLimit == -1

(* A TimerNode: tn_tm_point, tn_id, tn_period, tn_is_period,              *)
(* tn_is_repeated, tn_repeated_num.  The callback is the id itself.       *)
Node == [id : Ids, tp : Times, period : Nat, isPeriod : BOOLEAN,
         isRepeated : BOOLEAN, num : Nat]

VARIABLES
    now,          \* high_resolution_clock::now()
    tm_queue,     \* the priority_queue, as a set of nodes
    tm_id,        \* the atomic id counter
    active,       \* the keys of tm_id_state_map
    tm_running,   \* atomic<bool> tm_running
    tick,         \* program counter of the tick thread
    wakeAt,       \* the time point a wait_for of the tick thread ends at
    cur,          \* the id whose callback the tick thread is about to post
    postCount,    \* history: callbacks handed to tm_thread_pool, per id
    cancelAt,     \* history: postCount[i] when cancel(i) removed i, or NoCancel
    requested     \* history: repeated_num given to run_repeated, or NoLimit

vars == <<now, tm_queue, tm_id, active, tm_running, tick, wakeAt, cur,
          postCount, cancelAt, requested>>

TickPc == {"idle", "top", "lock", "wait", "waitfor", "post", "exit"}

TypeOK ==
    /\ now \in 0..MaxTime
    /\ tm_queue \subseteq Node
    /\ tm_id \in 0..MaxId
    /\ active \subseteq Ids
    /\ tm_running \in BOOLEAN
    /\ tick \in TickPc
    /\ wakeAt \in Times
    /\ cur \in Ids
    /\ postCount \in [Ids -> Nat]
    /\ cancelAt \in [Ids -> Nat \cup {NoCancel}]
    /\ requested \in [Ids -> Nat \cup {NoLimit}]

\* Timer(): tm_id = 0, tm_running = true; the tick thread starts in run().
Init ==
    /\ now = 0
    /\ tm_queue = {}
    /\ tm_id = 0
    /\ active = {}
    /\ tm_running = TRUE
    /\ tick = "idle"
    /\ wakeAt = 0
    /\ cur = 0
    /\ postCount = [i \in Ids |-> 0]
    /\ cancelAt = [i \in Ids |-> NoCancel]
    /\ requested = [i \in Ids |-> NoLimit]

(* tm_cond.notify_all(): a tick thread blocked in wait or wait_for wakes  *)
(* and goes back to the top of its loop.                                   *)
Notified(pc) == IF pc \in {"wait", "waitfor"} THEN "top" ELSE pc

\* Mutant: run_after and friends push the node but do not notify tm_cond.
ScheduleNoNotify(node, limit) ==
    /\ tm_id < MaxId
    /\ tm_id' = tm_id + 1
    /\ active' = active \cup {tm_id}
    /\ tm_queue' = tm_queue \cup {node}
    /\ requested' = [requested EXCEPT ![tm_id] = limit]
    /\ UNCHANGED <<now, tm_running, tick, wakeAt, cur, postCount, cancelAt>>

(* The common body of run_after, run_at and run_repeated: take an id,     *)
(* mark it Running, push the node under tm_mutex, notify_all.             *)
Schedule(node, limit) ==
    /\ tm_id < MaxId
    /\ tm_id' = tm_id + 1
    /\ active' = active \cup {tm_id}
    /\ tm_queue' = tm_queue \cup {node}
    /\ tick' = Notified(tick)
    /\ requested' = [requested EXCEPT ![tm_id] = limit]
    /\ UNCHANGED <<now, tm_running, wakeAt, cur, postCount, cancelAt>>

\* run_after(ms_time, is_period, f)
RunAfter(ms, isPeriod) ==
    Schedule([id |-> tm_id, tp |-> now + ms, period |-> ms,
              isPeriod |-> isPeriod, isRepeated |-> FALSE, num |-> 0], NoLimit)

\* run_at(time_point, f): a one-shot node at an absolute time, past or future
RunAt(t) ==
    Schedule([id |-> tm_id, tp |-> t, period |-> 0,
              isPeriod |-> FALSE, isRepeated |-> FALSE, num |-> 0], NoLimit)

\* run_repeated(ms_time, repeated_num, f)
RunRepeated(ms, n) ==
    Schedule([id |-> tm_id, tp |-> now + ms, period |-> ms,
              isPeriod |-> FALSE, isRepeated |-> TRUE, num |-> n], n)

\* cancel(id): erase the id from tm_id_state_map if it is there
Cancel(i) ==
    /\ i \in active
    /\ active' = active \ {i}
    /\ cancelAt' = [cancelAt EXCEPT ![i] = postCount[i]]
    /\ UNCHANGED <<now, tm_queue, tm_id, tm_running, tick, wakeAt, cur,
                   postCount, requested>>

\* ~Timer(): tm_running = false, then notify_all without holding tm_mutex
Destroy ==
    /\ tm_running
    /\ tm_running' = FALSE
    /\ tick' = Notified(tick)
    /\ UNCHANGED <<now, tm_queue, tm_id, active, wakeAt, cur,
                   postCount, cancelAt, requested>>

\* The clock advances by one millisecond.
AdvanceTime ==
    /\ now < MaxTime
    /\ now' = now + 1
    /\ UNCHANGED <<tm_queue, tm_id, active, tm_running, tick, wakeAt, cur,
                   postCount, cancelAt, requested>>

--------------------------------------------------------------------------
(* The tick thread.                                                        *)

\* run(): start the tick thread
Run ==
    /\ tick = "idle"
    /\ tick' = "top"
    /\ UNCHANGED <<now, tm_queue, tm_id, active, tm_running, wakeAt, cur,
                   postCount, cancelAt, requested>>

\* while (tm_running.load()): read outside tm_mutex
LoopTop ==
    /\ tick = "top"
    /\ tick' = IF tm_running THEN "lock" ELSE "exit"
    /\ UNCHANGED <<now, tm_queue, tm_id, active, tm_running, wakeAt, cur,
                   postCount, cancelAt, requested>>

\* Mutant: a repeated node is re-armed without the tn_repeated_num > 0 test.
RearmedNoCountGuard(s) ==
    IF s.isPeriod
    THEN {[s EXCEPT !.tp = now + s.period]}
    ELSE IF s.isRepeated
         THEN {[s EXCEPT !.tp = now + s.period, !.num = s.num - 1]}
         ELSE {}

(* The node a periodic or repeated node is re-inserted as, or {} if it    *)
(* is not re-inserted.                                                     *)
Rearmed(s) ==
    IF s.isPeriod
    THEN {[s EXCEPT !.tp = now + s.period]}
    ELSE IF s.isRepeated /\ s.num > 0
         THEN {[s EXCEPT !.tp = now + s.period, !.num = s.num - 1]}
         ELSE {}

(* The nodes tm_queue.top() may return: those with the earliest          *)
(* tn_tm_point (priority_queue orders equal time points arbitrarily).     *)
Earliest(Q) == {s \in Q : \A t \in Q : s.tp <= t.tp}

\* Mutant: run_local pops and posts the top node without the lazy-deletion check.
LockedNoActiveCheck ==
    /\ tick = "lock"
    /\ \/ /\ tm_queue = {}
          /\ tick' = "wait"
          /\ UNCHANGED <<tm_queue, wakeAt, cur>>
       \/ \E s \in Earliest(tm_queue) :
            \/ /\ s.tp > now
               /\ tick' = "waitfor"
               /\ wakeAt' = s.tp
               /\ UNCHANGED <<tm_queue, cur>>
            \/ /\ s.tp <= now
               /\ tm_queue' = (tm_queue \ {s}) \cup Rearmed(s)
               /\ tick' = "post"
               /\ cur' = s.id
               /\ UNCHANGED wakeAt
    /\ UNCHANGED <<now, tm_id, active, tm_running, postCount,
                   cancelAt, requested>>

(* One pass of run_local under tm_mutex: wait on an empty heap, wait_for  *)
(* a top node that is not due, or pop the due top node; drop it if its id *)
(* was cancelled, else re-arm it and go on to post its callback.          *)
Locked ==
    /\ tick = "lock"
    /\ \/ /\ tm_queue = {}
          /\ tick' = "wait"
          /\ UNCHANGED <<tm_queue, wakeAt, cur>>
       \/ \E s \in Earliest(tm_queue) :
            \/ /\ s.tp > now
               /\ tick' = "waitfor"
               /\ wakeAt' = s.tp
               /\ UNCHANGED <<tm_queue, cur>>
            \/ /\ s.tp <= now
               /\ s.id \notin active
               /\ tm_queue' = tm_queue \ {s}
               /\ tick' = "top"
               /\ UNCHANGED <<wakeAt, cur>>
            \/ /\ s.tp <= now
               /\ s.id \in active
               /\ tm_queue' = (tm_queue \ {s}) \cup Rearmed(s)
               /\ tick' = "post"
               /\ cur' = s.id
               /\ UNCHANGED wakeAt
    /\ UNCHANGED <<now, tm_id, active, tm_running, postCount,
                   cancelAt, requested>>

(* wait_for(lock, diff) returns once the time point is reached: the clock *)
(* has moved on to it (or to the clock bound) while the thread slept.     *)
WaitTimeout ==
    /\ tick = "waitfor"
    /\ now' = IF now >= wakeAt THEN now
              ELSE IF wakeAt < MaxTime THEN wakeAt ELSE MaxTime
    /\ tick' = "top"
    /\ UNCHANGED <<tm_queue, tm_id, active, tm_running, wakeAt, cur,
                   postCount, cancelAt, requested>>

\* A condition variable may wake without a notify.
SpuriousWakeup ==
    /\ tick \in {"wait", "waitfor"}
    /\ tick' = "top"
    /\ UNCHANGED <<now, tm_queue, tm_id, active, tm_running, wakeAt, cur,
                   postCount, cancelAt, requested>>

\* lock.unlock(); tm_thread_pool.post_task(move(s.tn_callback))
PostCallback ==
    /\ tick = "post"
    /\ postCount' = [postCount EXCEPT ![cur] = @ + 1]
    /\ tick' = "top"
    /\ UNCHANGED <<now, tm_queue, tm_id, active, tm_running, wakeAt, cur,
                   cancelAt, requested>>

TickStep == Run \/ LoopTop \/ Locked \/ WaitTimeout \/ PostCallback

Next ==
    \/ \E ms \in Delays, p \in BOOLEAN : RunAfter(ms, p)
    \/ \E t \in 0..MaxTime : RunAt(t)
    \/ \E ms \in Delays, n \in RepeatCounts : RunRepeated(ms, n)
    \/ \E i \in Ids : Cancel(i)
    \/ Destroy
    \/ AdvanceTime
    \/ TickStep
    \/ SpuriousWakeup

(* The tick thread is scheduled whenever it can run; a wait_for whose     *)
(* time point has passed returns.  Clients, the clock and spurious        *)
(* wake-ups get no fairness.                                               *)
Spec == Init /\ [][Next]_vars /\ WF_vars(TickStep)

--------------------------------------------------------------------------
(* Properties.                                                             *)

(* Cancellation is best effort but final: once cancel(i) has removed i    *)
(* from tm_id_state_map, at most one more callback of i is posted (the    *)
(* one the tick thread popped before the cancel).  It is the lazy-deletion *)
(* check in run_local that keeps a cancelled periodic or repeated node    *)
(* from firing again.                                                      *)
CancelStopsFiring ==
    \A i \in Ids : cancelAt[i] # NoCancel => postCount[i] <= cancelAt[i] + 1

(* A node that is due and still active is eventually popped and its       *)
(* callback unless it is cancelled or the timer shuts down: the   *)
(* notify in run_after / run_at / run_repeated and the bounded wait_for   *)
(* keep the tick thread from sleeping past a due node.                    *)
DueActive(i) == \E s \in tm_queue : s.id = i /\ s.tp <= now /\ i \in active

DueNodeFires ==
    \A i \in Ids :
        (DueActive(i) /\ tick # "idle")
            ~> ((tick = "post" /\ cur = i) \/ i \notin active \/ ~tm_running)

(* run_repeated(ms, n, f) runs f n times: the timer test counts the calls *)
(* down from repeated_cnt to zero (src/timer/tests/test_timer.cpp).       *)
RepeatedRunsN ==
    \A i \in Ids : requested[i] # NoLimit => postCount[i] <= requested[i]
=============================================================================
