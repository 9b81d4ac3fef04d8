------------------------------ MODULE MCBuffers ------------------------------
(* A pool seeded with one 4K and one 16K chunk (Mempool() seeds 2000, 500, *)
(* 250, 100, 25 and 10), so that the free lists run dry and alloc_chunk    *)
(* must grow the pool.  The peer's 1 + 4096 bytes make tc_ibuf grow from  *)
(* 4K to 16K; sends of 1 and 4096 make tc_obuf grow, and sends of 4 MiB   *)
(* and 4 MiB + 1 reach the top class, the ceiling and the nullptr.         *)
EXTENDS Buffers

MCInitCount == [c \in Classes |-> IF c \in {4096, 16384} THEN 1 ELSE 0]
\* 4 MiB counted in KB, the size the comment of MAX_POOL_SIZE gives
MCMaxPoolSize == 4096
MCPeerSizes == {4096}
MCSendSizes == {1, 4096, 4194304}
MCMaxIn == 8192
MCMaxSends == 2
MCMaxOther == 1
=============================================================================
