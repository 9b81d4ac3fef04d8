CONSTANTS
    w1 = w1
    w2 = w2
    NoThread = NoThread
    Workers <- MCWorkers
    MaxTasks <- MCMaxTasks

SPECIFICATION Spec

PROPERTY ShutdownTerminates

\* The pool stops for good once the destructor has joined every worker.
CHECK_DEADLOCK FALSE
