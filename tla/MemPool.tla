------------------------------- MODULE MemPool -------------------------------
(***************************************************************************)
(* Mempool (src/memory/mem_pool.{h,cpp}): one free list per size class,    *)
(* a total and a free size in KB, all under mp_mutex.  alloc_chunk and    *)
(* retrieve hold the lock for their whole body, so each is one step.  A   *)
(* free list is abstracted to its length: chunks of a class are           *)
(* interchangeable once retrieve has reset their length and head.         *)
(* The process exit of alloc_chunk is the flag exited, after which        *)
(* nothing happens.  The pool's users are in Buffers.                     *)
(***************************************************************************)
EXTENDS Integers, FiniteSets, FiniteSetsExt

CONSTANTS
    InitCount,     \* chunk_num of mem_init for each class
    MaxPoolSize    \* MAX_POOL_SIZE, compared with mp_total_size_kb

\* MEM_CAP: mLow = m4K = 4096, each class MEM_CAP_MULTI_POWER = 4 times the last
mLow == 4096
MultiPower == 4
mUp == mLow * MultiPower^5
Classes == {mLow * MultiPower^i : i \in 0..5}
KB(c) == c \div 1024

ASSUME InitCount \in [Classes -> Nat]

VARIABLES
    mp_pool,            \* length of the free list of each class
    mp_total_size_kb,
    mp_left_size_kb,
    exited              \* the process has called exit(1)

poolVars == <<mp_pool, mp_total_size_kb, mp_left_size_kb, exited>>

(* Mempool(): mem_init of each class, mp_total_size_kb += size/1024 *     *)
(* chunk_num, then mp_left_size_kb = mp_total_size_kb.                     *)
InitTotal == MapThenSumSet(LAMBDA c : KB(c) * InitCount[c], Classes)

PoolInit ==
    /\ mp_pool = InitCount
    /\ mp_total_size_kb = InitTotal
    /\ mp_left_size_kb = InitTotal
    /\ exited = FALSE

\* Mutant: the round-up loop stops at the first class strictly above n.
RoundUpFromStrict(n, index) ==
    IF index > mUp THEN 0 ELSE IF n < index THEN index ELSE index * MultiPower

(* The round-up loop of alloc_chunk: for (index = mLow; index <= mUp;     *)
(* index *= 4) if (n <= index) found; 0 stands for !found (nullptr).      *)
RECURSIVE RoundUpFrom(_, _)
RoundUpFrom(n, index) ==
    IF index > mUp THEN 0
    ELSE IF n <= index THEN index
    ELSE RoundUpFrom(n, index * MultiPower)

AllocIndex(n) == RoundUpFrom(n, mLow)

(* The free list of the class has a chunk: pop its head,                 *)
(* mp_left_size_kb -= index/1024.                                          *)
PopFreeList(index) ==
    /\ mp_pool' = [mp_pool EXCEPT ![index] = @ - 1]
    /\ mp_left_size_kb' = mp_left_size_kb - KB(index)
    /\ UNCHANGED <<mp_total_size_kb, exited>>

\* Mutant: a freshly allocated chunk is also debited from mp_left_size_kb.
GrowPoolDebit(index) ==
    /\ mp_total_size_kb' = mp_total_size_kb + KB(index)
    /\ mp_left_size_kb' = mp_left_size_kb - KB(index)
    /\ UNCHANGED <<mp_pool, exited>>

(* The free list is empty: new Chunk(index), mp_total_size_kb +=          *)
(* index/1024; the chunk goes to the caller, not to a free list.          *)
GrowPool(index) ==
    /\ mp_total_size_kb' = mp_total_size_kb + KB(index)
    /\ UNCHANGED <<mp_pool, mp_left_size_kb, exited>>

(* alloc_chunk(n), whose result is cap (0 for nullptr).  The free list    *)
(* is popped when it has a chunk; otherwise a fresh chunk is allocated    *)
(* unless mp_total_size_kb + index/1024 >= MAX_POOL_SIZE, which exits.    *)
AllocChunk(n, cap) ==
    LET index == AllocIndex(n)
    IN \/ /\ index = 0
          /\ cap = 0
          /\ UNCHANGED poolVars
       \/ /\ index # 0 /\ mp_pool[index] > 0
          /\ cap = index
          /\ PopFreeList(index)
       \/ /\ index # 0 /\ mp_pool[index] = 0
          /\ mp_total_size_kb + KB(index) >= MaxPoolSize
          /\ cap = 0
          /\ exited' = TRUE
          /\ UNCHANGED <<mp_pool, mp_total_size_kb, mp_left_size_kb>>
       \/ /\ index # 0 /\ mp_pool[index] = 0
          /\ mp_total_size_kb + KB(index) < MaxPoolSize
          /\ cap = index
          /\ GrowPool(index)

\* Mutant: retrieve pushes the chunk back without crediting mp_left_size_kb.
RetrieveNoCredit(cap) ==
    /\ mp_pool' = [mp_pool EXCEPT ![cap] = @ + 1]
    /\ UNCHANGED <<mp_left_size_kb, mp_total_size_kb, exited>>

(* retrieve(block): clear length and head, assert the class exists, push  *)
(* the block onto its free list, mp_left_size_kb += capacity/1024.        *)
Retrieve(cap) ==
    /\ cap \in Classes
    /\ mp_pool' = [mp_pool EXCEPT ![cap] = @ + 1]
    /\ mp_left_size_kb' = mp_left_size_kb + KB(cap)
    /\ UNCHANGED <<mp_total_size_kb, exited>>

=============================================================================
