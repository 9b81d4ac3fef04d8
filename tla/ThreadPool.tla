------------------------------ MODULE ThreadPool ------------------------------
(***************************************************************************)
(* The fixed-size thread pool of src/threadpool/threadpool.h.              *)
(*                                                                         *)
(* Each worker runs the loop of add_thread:                                *)
(*   while (tp_run) { lock; tp_task_cv.wait(lock, !tp_run || !empty);     *)
(*                    if (!tp_run && empty) return;                        *)
(*                    take the front task; unlock; run it }                *)
(* The owner thread posts tasks (push under tp_lock, then notify_one      *)
(* outside it) and finally destroys the pool (tp_run = false and          *)
(* notify_all, neither under tp_lock, then join every worker).            *)
(*                                                                         *)
(* wait(lock, pred) is the loop `while (!pred) wait(lock)`: the predicate *)
(* is evaluated with tp_lock held and the thread blocks, releasing the    *)
(* lock, in a later step; a notify in between reaches nobody.  A task is  *)
(* a number 0..MaxTasks-1 in post order; startCount and doneCount are     *)
(* history variables used only by the properties.                         *)
(***************************************************************************)
EXTENDS Naturals, Sequences, FiniteSets

CONSTANTS
    Workers,    \* the pool's threads (model values)
    MaxTasks,   \* number of post_task calls the owner makes at most
    NoThread    \* model value: tp_lock is free

ASSUME /\ Workers # {} /\ NoThread \notin Workers
       /\ MaxTasks \in Nat \ {0}

TaskIds == 0..(MaxTasks - 1)

VARIABLES
    tp_run,       \* atomic<bool> tp_run
    tp_tasks,     \* queue<Task> tp_tasks
    tp_idl_tnum,  \* atomic<int> tp_idl_tnum
    lock,         \* holder of tp_lock
    pc,           \* program counter of each worker
    running,      \* the task a worker took
    owner,        \* program counter of the owner thread
    nextTask,     \* number of tasks posted so far
    startCount,   \* history: times each task was started
    doneCount     \* history: number of tasks that finished

vars == <<tp_run, tp_tasks, tp_idl_tnum, lock, pc, running, owner, nextTask,
          startCount, doneCount>>

WorkerPc == {"top", "lock", "check", "blocking", "waiting", "run", "exit"}
OwnerPc == {"idle", "notify", "notifyall", "join", "done"}

TypeOK ==
    /\ tp_run \in BOOLEAN
    /\ tp_tasks \in Seq(TaskIds)
    /\ tp_idl_tnum \in 0..Cardinality(Workers)
    /\ lock \in Workers \cup {NoThread}
    /\ pc \in [Workers -> WorkerPc]
    /\ running \in [Workers -> TaskIds]
    /\ owner \in OwnerPc
    /\ nextTask \in 0..MaxTasks
    /\ startCount \in [TaskIds -> Nat]
    /\ doneCount \in 0..MaxTasks

\* Threadpool(size): add_thread(size) starts every worker, all idle.
Init ==
    /\ tp_run = TRUE
    /\ tp_tasks = <<>>
    /\ tp_idl_tnum = Cardinality(Workers)
    /\ lock = NoThread
    /\ pc = [w \in Workers |-> "top"]
    /\ running = [w \in Workers |-> 0]
    /\ owner = "idle"
    /\ nextTask = 0
    /\ startCount = [t \in TaskIds |-> 0]
    /\ doneCount = 0

--------------------------------------------------------------------------
(* The owner thread.                                                       *)

(* post_task: refused once tp_run is false; wraps the call in a           *)
(* packaged_task and pushes it under tp_lock.                              *)
PostTask ==
    /\ owner = "idle"
    /\ tp_run
    /\ nextTask < MaxTasks
    /\ lock = NoThread
    /\ tp_tasks' = Append(tp_tasks, nextTask)
    /\ nextTask' = nextTask + 1
    /\ owner' = "notify"
    /\ UNCHANGED <<tp_run, tp_idl_tnum, lock, pc, running, startCount, doneCount>>

\* Mutant: post_task returns without tp_task_cv.notify_one().
NotifyOneMissing ==
    /\ owner = "notify"
    /\ owner' = "idle"
    /\ UNCHANGED <<tp_run, tp_tasks, tp_idl_tnum, lock, pc, running, nextTask,
                   startCount, doneCount>>

(* tp_task_cv.notify_one() after the lock is released: wakes one blocked  *)
(* worker, if there is one; a woken worker re-acquires tp_lock.           *)
NotifyOne ==
    /\ owner = "notify"
    /\ \/ \E w \in Workers :
            /\ pc[w] = "waiting"
            /\ pc' = [pc EXCEPT ![w] = "lock"]
       \/ /\ \A w \in Workers : pc[w] # "waiting"
          /\ UNCHANGED pc
    /\ owner' = "idle"
    /\ UNCHANGED <<tp_run, tp_tasks, tp_idl_tnum, lock, running, nextTask,
                   startCount, doneCount>>

\* ~Threadpool(): tp_run = false, outside tp_lock
StopPool ==
    /\ owner = "idle"
    /\ tp_run' = FALSE
    /\ owner' = "notifyall"
    /\ UNCHANGED <<tp_tasks, tp_idl_tnum, lock, pc, running, nextTask,
                   startCount, doneCount>>

\* ~Threadpool(): tp_task_cv.notify_all(), outside tp_lock
NotifyAll ==
    /\ owner = "notifyall"
    /\ pc' = [w \in Workers |-> IF pc[w] = "waiting" THEN "lock" ELSE pc[w]]
    /\ owner' = "join"
    /\ UNCHANGED <<tp_run, tp_tasks, tp_idl_tnum, lock, running, nextTask,
                   startCount, doneCount>>

\* ~Threadpool(): join every worker
JoinAll ==
    /\ owner = "join"
    /\ \A w \in Workers : pc[w] = "exit"
    /\ owner' = "done"
    /\ UNCHANGED <<tp_run, tp_tasks, tp_idl_tnum, lock, pc, running, nextTask,
                   startCount, doneCount>>

--------------------------------------------------------------------------
(* A worker.                                                               *)

\* while (tp_run): read without the lock
WorkerTop(w) ==
    /\ pc[w] = "top"
    /\ pc' = [pc EXCEPT ![w] = IF tp_run THEN "lock" ELSE "exit"]
    /\ UNCHANGED <<tp_run, tp_tasks, tp_idl_tnum, lock, running, owner, nextTask,
                   startCount, doneCount>>

\* unique_lock<mutex> lock{tp_lock}, also the re-lock of a woken wait
Acquire(w) ==
    /\ pc[w] = "lock"
    /\ lock = NoThread
    /\ lock' = w
    /\ pc' = [pc EXCEPT ![w] = "check"]
    /\ UNCHANGED <<tp_run, tp_tasks, tp_idl_tnum, running, owner, nextTask,
                   startCount, doneCount>>

\* Mutant: the worker copies the front task but never pops it.
CheckNoPop(w) ==
    /\ pc[w] = "check"
    /\ \/ /\ tp_run /\ tp_tasks = <<>>
          /\ pc' = [pc EXCEPT ![w] = "blocking"]
          /\ UNCHANGED <<tp_tasks, tp_idl_tnum, lock, running, startCount>>
       \/ /\ ~tp_run /\ tp_tasks = <<>>
          /\ pc' = [pc EXCEPT ![w] = "exit"]
          /\ lock' = NoThread
          /\ UNCHANGED <<tp_tasks, tp_idl_tnum, running, startCount>>
       \/ /\ tp_tasks # <<>>
          /\ running' = [running EXCEPT ![w] = Head(tp_tasks)]
          /\ startCount' = [startCount EXCEPT ![Head(tp_tasks)] = @ + 1]
          /\ tp_idl_tnum' = tp_idl_tnum - 1
          /\ pc' = [pc EXCEPT ![w] = "run"]
          /\ lock' = NoThread
          /\ UNCHANGED tp_tasks
    /\ UNCHANGED <<tp_run, owner, nextTask, doneCount>>

\* Mutant: the worker runs its task without tp_idl_tnum--.
CheckNoIdleCount(w) ==
    /\ pc[w] = "check"
    /\ \/ /\ tp_run /\ tp_tasks = <<>>
          /\ pc' = [pc EXCEPT ![w] = "blocking"]
          /\ UNCHANGED <<tp_tasks, lock, running, startCount>>
       \/ /\ ~tp_run /\ tp_tasks = <<>>
          /\ pc' = [pc EXCEPT ![w] = "exit"]
          /\ lock' = NoThread
          /\ UNCHANGED <<tp_tasks, running, startCount>>
       \/ /\ tp_tasks # <<>>
          /\ running' = [running EXCEPT ![w] = Head(tp_tasks)]
          /\ tp_tasks' = Tail(tp_tasks)
          /\ startCount' = [startCount EXCEPT ![Head(tp_tasks)] = @ + 1]
          /\ pc' = [pc EXCEPT ![w] = "run"]
          /\ lock' = NoThread
    /\ UNCHANGED <<tp_run, tp_idl_tnum, owner, nextTask, doneCount>>

(* With tp_lock held: evaluate the wait predicate; if it is false, go on  *)
(* to block; if the pool is stopped and empty, return; otherwise take the *)
(* front task, unlock, and run it (tp_idl_tnum--).                        *)
Check(w) ==
    /\ pc[w] = "check"
    /\ \/ /\ tp_run /\ tp_tasks = <<>>
          /\ pc' = [pc EXCEPT ![w] = "blocking"]
          /\ UNCHANGED <<tp_tasks, tp_idl_tnum, lock, running, startCount>>
       \/ /\ ~tp_run /\ tp_tasks = <<>>
          /\ pc' = [pc EXCEPT ![w] = "exit"]
          /\ lock' = NoThread
          /\ UNCHANGED <<tp_tasks, tp_idl_tnum, running, startCount>>
       \/ /\ tp_tasks # <<>>
          /\ running' = [running EXCEPT ![w] = Head(tp_tasks)]
          /\ tp_tasks' = Tail(tp_tasks)
          /\ startCount' = [startCount EXCEPT ![Head(tp_tasks)] = @ + 1]
          /\ tp_idl_tnum' = tp_idl_tnum - 1
          /\ pc' = [pc EXCEPT ![w] = "run"]
          /\ lock' = NoThread
    /\ UNCHANGED <<tp_run, owner, nextTask, doneCount>>

\* tp_task_cv.wait: block and release tp_lock in one step
Block(w) ==
    /\ pc[w] = "blocking"
    /\ pc' = [pc EXCEPT ![w] = "waiting"]
    /\ lock' = NoThread
    /\ UNCHANGED <<tp_run, tp_tasks, tp_idl_tnum, running, owner, nextTask,
                   startCount, doneCount>>

\* task() returns; tp_idl_tnum++; back to the while test
Finish(w) ==
    /\ pc[w] = "run"
    /\ doneCount' = doneCount + 1
    /\ tp_idl_tnum' = tp_idl_tnum + 1
    /\ pc' = [pc EXCEPT ![w] = "top"]
    /\ UNCHANGED <<tp_run, tp_tasks, lock, running, owner, nextTask, startCount>>

\* A condition variable may wake a waiter without a notify.
SpuriousWakeup(w) ==
    /\ pc[w] = "waiting"
    /\ pc' = [pc EXCEPT ![w] = "lock"]
    /\ UNCHANGED <<tp_run, tp_tasks, tp_idl_tnum, lock, running, owner, nextTask,
                   startCount, doneCount>>

Worker(w) == WorkerTop(w) \/ Acquire(w) \/ Check(w) \/ Block(w) \/ Finish(w)

OwnerStep == NotifyOne \/ NotifyAll \/ JoinAll

Next ==
    \/ PostTask \/ StopPool \/ OwnerStep
    \/ \E w \in Workers : Worker(w) \/ SpuriousWakeup(w)

(* Every thread that can make progress eventually does; whether the owner *)
(* posts more or destroys the pool is its choice, and a spurious wake-up  *)
(* is never owed.                                                          *)
Spec == Init /\ [][Next]_vars /\ WF_vars(OwnerStep)
        /\ \A w \in Workers : WF_vars(Worker(w))

--------------------------------------------------------------------------
(* Properties.                                                             *)

(* Every posted task is started by exactly one worker at most once, and   *)
(* tasks start in the order they were posted: each worker pops the front  *)
(* of tp_tasks under tp_lock.                                              *)
TaskStartedOnceInOrder ==
    \A t \in TaskIds :
        /\ startCount[t] <= 1
        /\ startCount[t] = 1 => \A u \in 0..(t - 1) : startCount[u] = 1

(* A posted task is eventually started as long as the pool is not being  *)
(* destroyed: the notify_one after the push wakes a blocked worker.        *)
PostedTaskRuns ==
    \A t \in TaskIds : (t < nextTask /\ tp_run) ~> (startCount[t] > 0 \/ ~tp_run)

(* Destroying the pool returns: every worker leaves its loop and is joined. *)
ShutdownTerminates == ~tp_run ~> (owner = "done")
=============================================================================
