----------------------------- MODULE MCTcpServer -----------------------------
(* Two worker loops and three connections: the third wraps the round     *)
(* robin back to loop 1, so two connections share a loop.  One message in *)
(* all is enough to re-arm an idle timer while other timers fire.         *)
EXTENDS TcpServer

MCNumLoops == 2
MCMaxConns == 3
MCMaxMsgs == 1
=============================================================================
