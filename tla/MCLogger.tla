------------------------------- MODULE MCLogger -------------------------------
(* Two producers and a queue of capacity 2, so that b_first and b_last    *)
(* wrap and a push meets a full queue; four lines in all.               *)
EXTENDS Logger

CONSTANTS p1, p2

MCProducers == {p1, p2}
MCCapacity == 2
MCMaxLines == 4
=============================================================================
