# TLA+ models of Reactor-WebSever

These are TLA+ specifications of the C++ reactor server under `src/`, with the
TLC configurations that check them. Each module is translated from the source
files named in `PROJECT.json` ("map" gives the lines behind every definition).

## The system

- **Memory pool** (`src/memory/mem_pool.*`, `chunk.*`): a singleton with one
  free list per size class (4K, 16K, 64K, 256K, 1M, 4M), plus the counters
  `mp_total_size_kb` and `mp_left_size_kb`, all under one mutex.
- **Buffers** (`src/memory/data_buf.cpp`): the input and output buffers of a
  connection. They take their chunks from the pool.
- **Epoll and EventLoop** (`src/net/epoll.cpp`, `event_loop.cpp`): one epoll
  instance per loop, with a read and a write callback per fd. `add_task` runs a
  task at once when the caller is the loop's `el_tid` thread; otherwise it
  queues the task and wakes the loop through an eventfd.
- **Connection** (`src/net/tcp_conn.cpp`): `do_read`, `send`, `do_write`,
  `do_close` and `connected`.
- **Acceptor and Server** (`src/net/tcp_server.*`, `acceptor.h`; `acceptor.cpp`
  is not in the repository):
  - picks a worker loop round robin for each accepted socket;
  - keeps the registry `ts_tcp_connections`;
  - arms an idle timer per connection and re-arms it on every message.
- **Thread pool** (`src/threadpool/threadpool.h`): a task queue with one mutex
  and one condition variable. It runs the worker loops and the timer's
  callbacks.
- **Timer** (`src/timer/timer.h`): a min-heap of nodes served by a tick thread.
  Due callbacks go to the timer's own thread pool. Cancellation goes through an
  active-id map.
- **Logger** (`src/log/`): `write_log` formats a line and pushes it into a
  `buffer_queue<string>`, a ring under one mutex and one condition variable.
  The writer thread `async_write` pops lines and `fputs` them. `~Logger`
  sets `is_thread_stop`, notifies and joins the writer. With a queue size of
  0, as every program of the repository but the async test uses it, the
  logger is synchronous: `write_log` rotates `l_fp` to a new dated file on a
  new day or every `l_split_lines` lines, then `fputs` under `l_mutex`.

### How the threads meet

There are three kinds of thread:

- the acceptor thread, which runs the acceptor loop;
- the worker loops, each run by a thread of the server's pool;
- the timer threads: the timer's tick thread and its pool threads.

The worker `EventLoop`s are constructed by `TcpServer::start` on the calling
thread, so their `el_tid` is that thread and not the thread that runs them.
A connection is touched in four places:

- by its loop, through `do_read`, `do_write` and `do_close`;
- by the acceptor, through `add_task`, which runs `connected()` synchronously
  there, and through `add_new_tcp_conn`;
- by the timer pool, through the idle timeout's `active_close`;
- by the registry operations, from all of the above.

The registry's lock is never taken: `lock_guard<mutex> lck(mutex);` declares a
function.

## Modules

| Module | Models | State | Actions |
|---|---|---|---|
| `Timer` | `timer.h` | the heap as a set of node records, `tm_id`, the active ids, `tm_running`, the tick thread's program counter, a discrete clock | `RunAfter`, `RunAt`, `RunRepeated`, `Cancel`, `Destroy`, `Run`, and the tick steps `LoopTop` (the while test), `Locked` (lock, empty-wait / wait_for / pop-check-reinsert), `WaitTimeout`, `SpuriousWakeup`, `PostCallback` |
| `ThreadPool` | `threadpool.h` | `tp_run`, `tp_tasks`, `tp_idl_tnum`, the lock owner, a program counter per worker and for the destroying thread | `PostTask`/`NotifyOne`, `StopPool`/`NotifyAll`/`JoinAll`, and per worker `WorkerTop` (while test), `Acquire`, `Check` (predicate, return, or take), `Block` (wait), `Finish`, `SpuriousWakeup` |
| `TcpServer` | `tcp_server.*`, `tcp_conn.cpp`, `execute_cbs`, the idle timer | per connection: its loop, fd open, epoll interest, unread and sent messages, `tc_obuf` size, `tc_timer_id`; the timer heap and active ids; the pool's callback queue; the registry as a sequence (`do_clean` is `DoClean`, which removes the first matching entry); a program counter per thread | `Accept` (one step of `do_accept`: get_next_loop, `connected` on the acceptor, register EPOLLIN, `add_new_tcp_conn`; `acceptor.cpp`, which orders these, is not in the repository, so no worker step comes between them), per loop `Poll` (EPOLLIN before EPOLLOUT; `DoWrite`), `Read` (`do_read`), `Message` (`update_conn_timeout_time` then the echo `Send`), `TimerFire`, `PoolRun` (`active_close`), and the peers' `PeerSend`/`PeerClose` |
| `MemPool` | `mem_pool.*` | free-list length per class, the two KB counters, the exit flag | no actions of its own: `AllocChunk` (round up, pop, grow or exit) and `Retrieve` are called by `Buffers` |
| `Buffers` (extends `MemPool`) | `data_buf.cpp`, `chunk.cpp`, and `do_read`, `send`, `do_write`, `do_close` | `tc_ibuf` and `tc_obuf` as `[cap, length, head]` chunks, the old chunk of a grow in progress, the loop thread's program counter, the socket's unread bytes and EOF, byte counters, the chunks another loop holds; the loop's `ep_event_map` entry and the kernel's interest list for the fd | `ReadFromFd` (FIONREAD, alloc or grow-and-copy, the read, `do_read`'s dispatch), `ReadGrowRetrieve`, `AppPop` (`pop` then `adjust`), `Send` (`write2buf`), `SendGrowRetrieve`, `DoWrite` (`write2fd` until EAGAIN, or an error), `CloseClearIn`/`CloseClearOut`, the peer's `PeerSend`/`PeerShutdown`, and `OtherAlloc`/`OtherRelease`. `send`, `do_write` and `do_close` call `EpollAdd` (ADD or MOD, map before `epoll_ctl`), `EpollDelEvent` and `EpollDelFd`; `do_read` and `do_write` run only when `execute_cbs` would dispatch them (EPOLLIN before EPOLLOUT) |
| `LogQueue` | what `buffer_queue` promises | the queue as a sequence | `Put`, `Get` |
| `Logger` | `log_queue.h`, `write_log`, `async_write`, `~Logger` | `b_array`, `b_first`, `b_last`, `b_size`, `is_thread_stop`, the writer's program counter and popped line, each producer's program counter and line, `~Logger`'s program counter, the file as a sequence, the pushed lines as history | per producer `WriteLog` and `Push` (one round of the push loop); the writer's `PopLock` (check), `PopWait`, `SpuriousWakeup`, `PopRecheck` (after the wait), `WriteLine`; `~Logger`'s `StopFlag`, `StopNotify`, `StopJoin` |
| `LogFile` | `init`, the `LOG_*` macros, synchronous `write_log`, `flush`, `~Logger`'s `fclose` | `l_inited`, `l_is_stdout`, `l_fp` (NULL, stdout or a file [day, part]), `l_today`, `l_count`, `l_split_lines`, the calendar day, each producer's program counter and clock reading, the main thread's program counter, the streams written to as history, a crash flag | `InitLogger` (NULL, a name without `/`, or `fopen` that may fail); per producer `WriteLog` (the macro and the clock read), `Rotate` (the first `l_mutex` section), `WriteLine` (`fputs` and `flush`); `DayPasses`; `DestroyLogger`. `fclose` or `fputs` of NULL is the crash state |
| `EventLoop` | `event_loop.cpp` | `el_task_funcs`, `el_dealing_task_funcs`, `el_quit`, the eventfd counter, the loop's program counter and swapped-out functors, each caller's program counter | callers' `AddTask`/`AddTaskWakeup` and `Quit`/`QuitWakeup`; the loop's `LoopStart`, `LoopCheck`, `PollWakeup`, `PollTimeout`, `SwapTasks`, `ExecTask` (which may itself call `add_task`), `ExecDone` |

`MCTimer`, `MCThreadPool`, `MCTcpServer`, `MCBuffers`, `MCEventLoop`, `MCLogger` and `MCLogFile` give the constants.

A handler is one action when it runs under a lock, or when nothing another
thread does can fall inside it. It is split where another thread can act
between two of its lines. Examples:

- a test of an atomic flag followed by taking the lock;
- a predicate check followed by the wait;
- `epoll_wait` returning, followed by the callback.

## Runs

Pass runs:

| Run | Properties | What it shows |
|---|---|---|
| `MCTimer.cfg` | `CancelStopsFiring`, `DueNodeFires` | A cancelled id fires at most once more: the callback that was popped before the cancel. A due, active node is eventually posted. |
| `MCThreadPool.cfg` | `TaskStartedOnceInOrder`, `PostedTaskRuns` | Tasks are taken once each and in FIFO order. A task posted while the pool runs is eventually run. |
| `MCTcpServer.cfg` | `RoundRobin`, `EveryConnClosed` | The k-th accepted connection goes to loop (k-1) mod N, across the wrap. Every connection is closed in the end, by the peer or the idle timer, however messages re-arm the timer. |
| `MCBuffers.cfg` | `RoundUpIsSmallestClass`, `ChunkFits`, `BytesConserved`, `PoolConservation`, `InterestMirrorsMap`, `WriteInterestIffPending`, `OutputDrained` | Every request the buffers make, including each grow of need + length, gets the smallest class ≥ n, or nullptr above 4 MiB. No chunk holds bytes past its capacity. Until `do_close`, no grow, copy, pop or partial write loses or duplicates a byte. The KB counters equal the free plus held chunks, with another loop allocating between a grow's `alloc_chunk` and its `retrieve`. The kernel's interest list equals `ep_event_map`, with a callback for each event. EPOLLOUT is registered exactly while `tc_obuf` holds bytes, across grows, partial writes and a drained buffer that keeps its chunk. With the loop weakly fair, bytes in `tc_obuf` are eventually written, or the connection closes or the pool exits: no byte waits for an EPOLLOUT that is not registered, or behind an EPOLLIN reported for ever. |
| `MCLogger.cfg` | `QueueRefinement`, `LinesConserved`, `LineWritten` | The ring refines `LogQueue`: mapped to its `b_size` slots after `b_first`, every step is a `Put`, a `Get` or no change. Until `~Logger`, the pushed lines are exactly the written, the popped and the queued ones, in order. A pushed line is written unless the writer thread has ended. |
| `MCEventLoop.cfg` | `QueuedTasksRunInOrder`, `QueuedTaskRuns`, `QuitStopsLoop` | Queued tasks run once each, in queueing order, including tasks queued by a running task. A queued task runs without relying on the `epoll_wait` timeout. A `quit` from a thread other than `el_tid`, after `loop()` started, stops the loop (`el_tid`'s own `quit` writes no eventfd and is not covered). |

The pass runs of `Timer`, `ThreadPool`, `TcpServer`, `Buffers` and `Logger` also check `TypeOK`.

Violation runs. Each shows a disagreement between the code and the spec, a
comment or a test:

| Run | What TLC finds |
|---|---|
| `MCTimer_RepeatedRunsN` | `run_repeated(ms, n, f)` fires n+1 times. The timer test expects n. |
| `MCThreadPool_ShutdownTerminates` | The unlocked `notify_all` falls between a worker's predicate check and its wait, so `join` hangs. |
| `MCTcpServer_CloseCallbackOnce` | `do_close` runs twice. It does not cancel the idle timer, and a read already dispatched reads fd -1 after a timer close. |
| `MCTcpServer_ClosedConnLeavesRegistry` | The worker loop reads a message, the idle timer's `active_close` closes the connection on the timer pool (its `do_clean` erases the entry), and then the message callback's `update_conn_timeout_time` pushes the closed connection back into the registry with a fresh timer. |
| `MCLogger_WriteLogReturns` | A spurious wakeup of the writer on an empty queue ends `async_write` (`pop` returns false). Once the queue fills, `write_log` spins for ever in its push loop. |
| `MCLogFile_StdoutKept` | After `init(NULL, ...)`, which the comment at `log.cpp:89` says sends the log to stdout, the first rotation (here a new day, or the second line with `l_split_lines` 2) `fclose`s stdout and `fopen`s `YYYY_MM_DD_` in the working directory; later lines go there. |

Each property of a pass run has a mutant in `PROJECT.json`. A mutant is a
plausible bug in the mapped code, and TLC finds the property violated when the
mutant replaces that code.

## Bounds

Timer:

- 2 ids and a clock up to 3;
- delays {1, 2} and a repeat count of 1.

These are enough for a re-armed node, for an earlier insertion waking a
`wait_for`, and for a cancel racing a pop. There are about 330k states.

ThreadPool:

- 2 workers and 3 tasks;
- so that one worker is busy while the other waits, and the queue holds more
  than one task.

TcpServer:

- 2 loops and 3 connections, so that the round-robin index wraps and two
  connections share a loop;
- one message in all (`MaxMsgs` bounds the clients together), which re-arms an
  idle timer while the other timers fire;
- about 220k states. With one message per client the state space exceeds what
  TLC finishes in minutes.

Buffers (about 27k states):

- the pool is seeded with one 4K and one 16K chunk (the code seeds 2000, 500,
  …), so that the free lists run dry and the pool must grow;
- the ceiling is 4096 KB, the 4 MiB of `MAX_POOL_SIZE`'s comment, so that
  growing by a 4M chunk exits;
- the peer sends 4096 bytes at a time, 8192 in all, so that the second read
  grows `tc_ibuf` from 4K to 16K;
- two sends of 1, 4096 or 4 MiB bytes: 1 then 4096 grows `tc_obuf`, 4 MiB on
  an empty buffer reaches the ceiling, and 4 MiB after 1 byte asks for more
  than the top class (nullptr);
- a pop or a write takes all the live bytes or all but one, so that a head is
  left to adjust and a remainder is carried into a grow;
- the other loop holds at most one 4K chunk.

A failed `alloc_chunk` in `read_from_fd` needs more than 4 MiB readable at
once, so it is not reached.

EventLoop (about 12.6k states):

- two callers, one of them `el_tid` (the thread that constructed the loop),
  and a loop thread that is not `el_tid`, as for the server's worker loops;
- three tasks in all.

Logger (about 6.8k states):

- two producers and a capacity of 2, so that the queue fills, a producer
  spins on a full queue, and `b_first`/`b_last` wrap from -1 through 0 and 1;
- four lines in all, so that each index wraps more than once.

LogFile (violation run only): two producers, `l_split_lines` 2, three lines
and two days, so that both rotation causes happen, a producer can read the
clock before the day changes and rotate after another did, and each of
`init`'s three file-name cases is taken.

## Fairness

- Server threads (the timer's tick thread, the pool's workers and the destroying
  thread, the worker loops, the timer pool) are
  weakly fair. Each is a dedicated thread that runs whenever it is not blocked.
- Clients, the clock, spurious wakeups and new connections get no fairness.
- In `TcpServer`, the idle timeout is weakly fair: a pending node eventually
  expires.
- In `EventLoop`, the loop thread and a caller inside `add_task` or `quit` are
  weakly fair. The `epoll_wait` timeout (`PollTimeout`) is not, so the
  liveness properties hold through the eventfd wakeups alone.
- In `Buffers`, the loop thread's handlers (`LoopStep`) are weakly fair:
  `EventLoop::loop` polls again after each one. The peer, the message
  callback and the other loop get no fairness.
- In `Logger`, the writer thread, a producer inside its push loop and
  `~Logger` once begun are weakly fair. When `write_log` is called, when
  `~Logger` starts, and spurious wakeups get no fairness.
- Waits without a timeout are modelled as blocking. A lost wakeup therefore
  shows as a liveness violation, not as a stuttering step.

## Not modelled yet

- `TcpServer::start`: the `[&ev]` capture and the uninitialised `ts_started`.
- In `EventLoop`, a `quit` before `loop()` starts is undone by
  `el_quit = false`, and `el_quit` is a plain bool read across threads.
- `epoll_add` and `epoll_del` from threads other than the connection's loop
  (`TcpServer` keeps one interest set per connection), so the `execute_cbs`
  assert after a timer-thread `do_close` is not reached; the HUP/ERR branch.
- The else-if of `execute_cbs` drops an echo to a peer that half-closed: with
  the FIN queued, `do_read` reads 0 and `do_close` clears `tc_obuf`. `Buffers`
  reaches this, but spec 4.4 allows it, so no run checks delivery before close.
- The `need_read == 0` read of up to 4K with bytes arriving after FIONREAD:
  this happens only at end of stream, where TCP delivers nothing more.
- A message callback that pops without `adjust` (no callback is in the
  repository). A `send` that fails keeps the connection open, while spec 6
  says it closes. A drained `tc_obuf` keeps its chunk.
- The registry data race below one vector operation.
- In the logger: rotation in async mode, levels and formatting, and the unused
  `pop(timeout)`, `clear`, `front`, `back`. The unlocked `notify` of
  `~Logger` can be lost between the writer's check and its wait; the model
  has this step. The `join` it hangs is the same failure as the
  `ShutdownTerminates` run of `ThreadPool`, so it is kept as a hazard and not
  given a run of its own. `~Timer` has the same unlocked `notify_all`; its run
  was retired for the same reason, and `Timer` still has the step order.
- In the synchronous logger, `LogFile` has only the `StdoutKept` run. Its
  crash state (`fputs` or `fclose` of a NULL `l_fp` after a failed `init` or
  `fopen`) is recorded as a hazard. A producer that read the clock before
  midnight and rotates after another producer moved to the new day rotates
  back to the old day's file and resets `l_count`; lines then alternate
  between files, which no property states.
- Two disagreements kept as hazards, not runs: `connected()` runs on the
  acceptor thread (it fails at the first accept), and `alloc_chunk`'s `>=`
  ceiling test makes reaching the ceiling exactly fatal.
- The order of `add_task` and `add_new_tcp_conn` inside `Acceptor::do_accept`:
  `acceptor.cpp` is not in the repository, so `Accept` does both in one step
  and no worker step can fall between them.

`PROJECT.json` lists each of these as a hazard with a note.
