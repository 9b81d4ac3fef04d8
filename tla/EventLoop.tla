------------------------------ MODULE EventLoop ------------------------------
(***************************************************************************)
(* EventLoop (src/net/event_loop.{h,cpp}): the cross-thread task queue,   *)
(* the eventfd wakeup and quit, around Epoll::poll.                        *)
(*                                                                         *)
(* el_tid is the thread that constructed the loop (Owner), which need not *)
(* be the thread that runs loop() (LoopThread): TcpServer::start builds   *)
(* the worker loops on its own thread and hands loop() to its pool.  A    *)
(* task is an id.                                                          *)
(* A task run by the loop may itself call add_task.  epoll_wait returns   *)
(* when the eventfd is readable, or after EPOLLWAIT_TIME; that timeout is *)
(* a step of its own which no fairness forces, so a liveness property     *)
(* here says the wakeups alone suffice.                                   *)
(***************************************************************************)
EXTENDS Integers, Sequences, SequencesExt, FiniteSets

CONSTANTS
    Callers,      \* threads other than LoopThread that call add_task or quit
    Owner,        \* el_tid: the thread that constructed the loop
    LoopThread,   \* the thread running loop()
    MaxTasks      \* bound: tasks added in all

ASSUME Owner \in Callers \cup {LoopThread}

TaskIds == 0..(MaxTasks - 1)
Threads == Callers \cup {LoopThread}
NoTask == -1

VARIABLES
    el_task_funcs,   \* queued task ids
    el_dealing_task_funcs,
    el_quit,
    evfd,            \* the eventfd counter
    lpc,             \* loop(): "start", "check", "poll", "swap", "exec", "done"
    functors,        \* the tasks swapped out, still to run
    cpc,             \* each caller: [op, t], op "idle", "wake" or "quitwake"
    nextTask,
    queuedLog,       \* history: tasks in the order they were queued
    runLog,          \* history: queued tasks in the order the loop ran them
    quitAfterStart   \* history: quit() was called by a thread that is not
                     \* el_tid, after loop() had started

vars == <<el_task_funcs, el_dealing_task_funcs, el_quit, evfd, lpc, functors,
          cpc, nextTask, queuedLog, runLog, quitAfterStart>>

CallerIdle == [op |-> "idle", t |-> NoTask]

Init ==
    /\ el_task_funcs = <<>>
    /\ el_dealing_task_funcs = FALSE
    /\ el_quit = FALSE
    /\ evfd = 0
    /\ lpc = "start"
    /\ functors = <<>>
    /\ cpc = [c \in Callers |-> CallerIdle]
    /\ nextTask = 0
    /\ queuedLog = <<>>
    /\ runLog = <<>>
    /\ quitAfterStart = FALSE

IsInLoopThread(th) == th = Owner

(* add_task(cb) on thread th, up to its wakeup: on el_tid cb() runs at    *)
(* once; elsewhere cb is appended to el_task_funcs under el_mutex.        *)
AddTaskBody(th, t) ==
    IF IsInLoopThread(th)
    THEN UNCHANGED <<el_task_funcs, queuedLog>>
    ELSE /\ el_task_funcs' = Append(el_task_funcs, t)
         /\ queuedLog' = Append(queuedLog, t)

\* Mutant: add_task never writes the eventfd.
WakeupNever(th) == UNCHANGED evfd

(* The tail of add_task: if (!is_in_loop_thread() ||                      *)
(* el_dealing_task_funcs) evfd_wakeup(), which adds 1 to the eventfd.    *)
Wakeup(th) ==
    evfd' = IF ~IsInLoopThread(th) \/ el_dealing_task_funcs THEN evfd + 1 ELSE evfd

AddTask(c) ==
    /\ cpc[c] = CallerIdle
    /\ nextTask < MaxTasks
    /\ AddTaskBody(c, nextTask)
    /\ cpc' = [cpc EXCEPT ![c] = [op |-> "wake", t |-> nextTask]]
    /\ nextTask' = nextTask + 1
    /\ UNCHANGED <<el_dealing_task_funcs, el_quit, evfd, lpc, functors, runLog,
                   quitAfterStart>>

AddTaskWakeup(c) ==
    /\ cpc[c].op = "wake"
    /\ Wakeup(c)
    /\ cpc' = [cpc EXCEPT ![c] = CallerIdle]
    /\ UNCHANGED <<el_task_funcs, el_dealing_task_funcs, el_quit, lpc, functors,
                   nextTask, queuedLog, runLog, quitAfterStart>>

(* quit(): el_quit = true, then evfd_wakeup() unless on el_tid.           *)
Quit(c) ==
    /\ cpc[c] = CallerIdle
    /\ ~el_quit
    /\ el_quit' = TRUE
    /\ quitAfterStart' = (quitAfterStart \/ (lpc # "start" /\ ~IsInLoopThread(c)))
    /\ cpc' = [cpc EXCEPT ![c] = [op |-> "quitwake", t |-> NoTask]]
    /\ UNCHANGED <<el_task_funcs, el_dealing_task_funcs, evfd, lpc, functors,
                   nextTask, queuedLog, runLog>>

\* Mutant: quit() never wakes the loop.
QuitWakeupNever(c) ==
    /\ cpc[c].op = "quitwake"
    /\ cpc' = [cpc EXCEPT ![c] = CallerIdle]
    /\ UNCHANGED <<el_task_funcs, el_dealing_task_funcs, el_quit, evfd, lpc, functors,
                   nextTask, queuedLog, runLog, quitAfterStart>>

QuitWakeup(c) ==
    /\ cpc[c].op = "quitwake"
    /\ evfd' = IF IsInLoopThread(c) THEN evfd ELSE evfd + 1
    /\ cpc' = [cpc EXCEPT ![c] = CallerIdle]
    /\ UNCHANGED <<el_task_funcs, el_dealing_task_funcs, el_quit, lpc, functors,
                   nextTask, queuedLog, runLog, quitAfterStart>>

--------------------------------------------------------------------------
(* The loop thread.                                                        *)

LoopUnchanged == UNCHANGED <<cpc, nextTask, queuedLog, quitAfterStart>>

\* loop(): el_quit = false before the first test.
LoopStart ==
    /\ lpc = "start"
    /\ el_quit' = FALSE
    /\ lpc' = "check"
    /\ LoopUnchanged
    /\ UNCHANGED <<el_task_funcs, el_dealing_task_funcs, evfd, functors, runLog>>

\* while (!el_quit)
LoopCheck ==
    /\ lpc = "check"
    /\ lpc' = IF el_quit THEN "done" ELSE "poll"
    /\ LoopUnchanged
    /\ UNCHANGED <<el_task_funcs, el_dealing_task_funcs, el_quit, evfd, functors, runLog>>

(* epoll_wait reports the eventfd readable and execute_cbs runs its read *)
(* callback evfd_read, which reads (and so zeroes) the counter.          *)
PollWakeup ==
    /\ lpc = "poll"
    /\ evfd > 0
    /\ evfd' = 0
    /\ lpc' = "swap"
    /\ LoopUnchanged
    /\ UNCHANGED <<el_task_funcs, el_dealing_task_funcs, el_quit, functors, runLog>>

\* epoll_wait returns after EPOLLWAIT_TIME with nothing ready.
PollTimeout ==
    /\ lpc = "poll"
    /\ lpc' = "swap"
    /\ LoopUnchanged
    /\ UNCHANGED <<el_task_funcs, el_dealing_task_funcs, el_quit, evfd, functors, runLog>>

\* Mutant: execute_task_funcs copies the queue instead of swapping it out.
SwapTasksCopy ==
    /\ lpc = "swap"
    /\ el_dealing_task_funcs' = TRUE
    /\ functors' = el_task_funcs
    /\ lpc' = "exec"
    /\ LoopUnchanged
    /\ UNCHANGED <<el_task_funcs, el_quit, evfd, runLog>>

(* execute_task_funcs: el_dealing_task_funcs = true, then under el_mutex  *)
(* functors.swap(el_task_funcs).                                           *)
SwapTasks ==
    /\ lpc = "swap"
    /\ el_dealing_task_funcs' = TRUE
    /\ functors' = el_task_funcs
    /\ el_task_funcs' = <<>>
    /\ lpc' = "exec"
    /\ LoopUnchanged
    /\ UNCHANGED <<el_quit, evfd, runLog>>

(* Run the next functor on the loop thread.  The task may call add_task:  *)
(* the loop thread is el_tid or not, so the new task runs at once or is   *)
(* queued, and el_dealing_task_funcs is true, so the eventfd is written.  *)
ExecTask ==
    /\ lpc = "exec"
    /\ functors # <<>>
    /\ LET t == Head(functors)
       IN /\ functors' = Tail(functors)
          /\ runLog' = Append(runLog, t)
          /\ \/ UNCHANGED <<el_task_funcs, queuedLog, evfd, nextTask>>
             \/ /\ nextTask < MaxTasks
                /\ nextTask' = nextTask + 1
                /\ AddTaskBody(LoopThread, nextTask)
                /\ Wakeup(LoopThread)
    /\ UNCHANGED <<el_dealing_task_funcs, el_quit, lpc, cpc, quitAfterStart>>

\* All functors ran: el_dealing_task_funcs = false, back to the while test.
ExecDone ==
    /\ lpc = "exec"
    /\ functors = <<>>
    /\ el_dealing_task_funcs' = FALSE
    /\ lpc' = "check"
    /\ LoopUnchanged
    /\ UNCHANGED <<el_task_funcs, el_quit, evfd, functors, runLog>>

LoopStep == LoopStart \/ LoopCheck \/ PollWakeup \/ SwapTasks \/ ExecTask \/ ExecDone

Next ==
    \/ LoopStep \/ PollTimeout
    \/ \E c \in Callers : AddTask(c) \/ AddTaskWakeup(c) \/ Quit(c) \/ QuitWakeup(c)

(* The loop thread and a caller that is inside add_task or quit run on;   *)
(* callers start calls at will, and the epoll_wait timeout is not relied  *)
(* on.                                                                     *)
Spec == Init /\ [][Next]_vars
        /\ WF_vars(LoopStep)
        /\ \A c \in Callers : WF_vars(AddTaskWakeup(c) \/ QuitWakeup(c))

--------------------------------------------------------------------------
(* Properties.                                                             *)

(* Spec 5: tasks queued on a loop run in submission order, each once: the *)
(* loop's run order is always a prefix of the queueing order.            *)
QueuedTasksRunInOrder == IsPrefix(runLog, queuedLog)

(* Spec 4.3: a queued task is run without waiting for the epoll_wait      *)
(* timeout, unless the loop has stopped.                                  *)
QueuedTaskRuns ==
    \A t \in TaskIds :
        Contains(queuedLog, t) ~> (Contains(runLog, t) \/ lpc = "done")

(* quit() from a thread other than el_tid, once loop() has started, stops *)
(* the loop without waiting for the epoll_wait timeout.                   *)
QuitStopsLoop == quitAfterStart ~> (lpc = "done")
=============================================================================
