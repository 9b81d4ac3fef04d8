\* do_close never cancels the idle timer: onClose fires twice.
CONSTANTS
    NumLoops <- MCNumLoops
    MaxConns <- MCMaxConns
    MaxMsgs <- MCMaxMsgs
    AcceptorThread = AcceptorThread
    TimerPoolThread = TimerPoolThread
SPECIFICATION Spec
INVARIANT CloseCallbackOnce
\* The model bounds the clients' connections; once every one is closed the
\* server has nothing left to do and waits in epoll_wait forever.
CHECK_DEADLOCK FALSE
