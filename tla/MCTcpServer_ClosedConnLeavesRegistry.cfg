\* A message handled after a timer close re-registers the closed connection.
CONSTANTS
    NumLoops <- MCNumLoops
    MaxConns <- MCMaxConns
    MaxMsgs <- MCMaxMsgs
    AcceptorThread = AcceptorThread
    TimerPoolThread = TimerPoolThread
SPECIFICATION Spec
INVARIANT ClosedConnLeavesRegistry
\* The model bounds the clients' connections; once every one is closed the
\* server has nothing left to do and waits in epoll_wait forever.
CHECK_DEADLOCK FALSE
