\* Task order, wakeups and quit of a worker loop whose el_tid is not the
\* thread that runs it.
CONSTANTS
    owner = owner
    other = other
    worker = worker
    Callers <- MCCallers
    Owner = owner
    LoopThread = worker
    MaxTasks <- MCMaxTasks
SPECIFICATION Spec
INVARIANT QueuedTasksRunInOrder
PROPERTY QueuedTaskRuns
PROPERTY QuitStopsLoop
\* After quit() the loop thread returns from loop() and the model has no
\* more tasks to add.
CHECK_DEADLOCK FALSE
