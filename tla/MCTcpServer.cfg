\* Round robin over the worker loops, and idle eviction: every connection is
\* eventually closed.
CONSTANTS
    NumLoops <- MCNumLoops
    MaxConns <- MCMaxConns
    MaxMsgs <- MCMaxMsgs
    AcceptorThread = AcceptorThread
    TimerPoolThread = TimerPoolThread
SPECIFICATION Spec
INVARIANT TypeOK
INVARIANT RoundRobin
PROPERTY EveryConnClosed
\* The model bounds the clients' connections; once every one is closed the
\* server has nothing left to do and waits in epoll_wait forever.
CHECK_DEADLOCK FALSE
