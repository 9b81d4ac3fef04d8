------------------------------ MODULE LogQueue ------------------------------
(***************************************************************************)
(* What buffer_queue<T> (src/log/log_queue.h) promises its users: a FIFO  *)
(* queue of at most Capacity items.  A put on a full queue and a get on   *)
(* an empty one change nothing.  Logger refines this module.              *)
(***************************************************************************)
EXTENDS Naturals, Sequences

CONSTANTS Capacity, Items

VARIABLE queue

Init == queue = <<>>

Put(x) ==
    /\ Len(queue) < Capacity
    /\ queue' = Append(queue, x)

Get ==
    /\ queue # <<>>
    /\ queue' = Tail(queue)

Next == (\E x \in Items : Put(x)) \/ Get

Spec == Init /\ [][Next]_queue
=============================================================================
