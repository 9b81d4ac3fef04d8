----------------------------- MODULE MCEventLoop -----------------------------
(* A worker loop as TcpServer::start builds it: constructed on the        *)
(* server's thread (el_tid), run by a pool thread, and called from el_tid *)
(* and from one other thread (an acceptor or a timer pool thread).        *)
EXTENDS EventLoop

CONSTANTS owner, other, worker

MCCallers == {owner, other}
MCMaxTasks == 3
=============================================================================
