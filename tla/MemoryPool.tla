----------------------------- MODULE MemoryPool -----------------------------
(***************************************************************************)
(* MemoryPool<T> (include/tzzero/utils/memory_pool.h) and the threads that *)
(* share one.  A pointer is a pair <<block, index>>.  mutex_ is held from  *)
(* the start of allocate() and of deallocate() to their end; allocate() is *)
(* two steps, so that what is seen without the lock in between is a state  *)
(* of its own.                                                             *)
(***************************************************************************)
EXTENDS Integers, FiniteSets

CONSTANTS Threads,     \* users of the pool
          NoThread,    \* no holder of mutex_
          block_size_,
          MaxBlocks    \* bound: blocks the pool adds

ASSUME PoolAssumption ==
  /\ NoThread \notin Threads
  /\ block_size_ \in Nat \ {0}
  /\ MaxBlocks \in Nat \ {0}

VARIABLES
  blocks,            \* blocks_.size()
  used,              \* the slots whose used flag is set
  free_count,        \* of each block, as the constructor leaves it before
  allocated_count_,
  mutex_,
  found,             \* the slot an allocate() under way is to return
  held               \* the pointers each thread has and has not given back

poolVars == <<blocks, used, free_count, allocated_count_, mutex_, found, held>>

Index == 0..block_size_ - 1
Pointers == (1..MaxBlocks) \X Index
Slots == (1..blocks) \X Index
InBlock(set, b) == {p \in set : p[1] = b}

(***************************************************************************)
(* The types of the pool's state.                                          *)
(***************************************************************************)
TypeOK ==
  /\ blocks \in 1..MaxBlocks
  /\ used \in SUBSET Pointers
  /\ free_count \in [1..MaxBlocks -> Int]
  /\ allocated_count_ \in Int
  /\ mutex_ \in Threads \cup {NoThread}
  /\ found \in Pointers
  /\ held \in [Threads -> SUBSET Pointers]

(***************************************************************************)
(* The constructor adds the first block.                                   *)
(***************************************************************************)
PoolInit ==
  /\ blocks = 1
  /\ used = {}
  /\ free_count = [b \in 1..MaxBlocks |-> block_size_]
  /\ allocated_count_ = 0
  /\ mutex_ = NoThread
  /\ found = <<1, 0>>
  /\ held = [t \in Threads |-> {}]

(***************************************************************************)
(* What allocate()'s loops may stop at: an unused slot of a block that     *)
(* counts free ones.                                                       *)
(***************************************************************************)
BAD_Available == {p \in Slots : free_count[p[1]] > 0}

BAD_last_Available ==
  {p \in Slots : p[1] = blocks /\ p \notin used /\ free_count[p[1]] > 0}

Available == {p \in Slots : p \notin used /\ free_count[p[1]] > 0}

Before(p, q) == p[1] < q[1] \/ (p[1] = q[1] /\ p[2] <= q[2])

Take(t, p) ==
  /\ used' = used \cup {p}
  /\ free_count' = [free_count EXCEPT ![p[1]] = @ - 1]
  /\ found' = p
  /\ mutex_' = t
  /\ UNCHANGED <<allocated_count_, held>>

(***************************************************************************)
(* allocate() finds the first available slot, or add_block() gives it the  *)
(* first one of a new block.                                               *)
(***************************************************************************)
allocate(t) ==
  /\ mutex_ = NoThread
  /\ \E p \in Available : /\ \A q \in Available : Before(p, q)
                          /\ Take(t, p)
  /\ UNCHANGED blocks

add_block(t) ==
  /\ mutex_ = NoThread
  /\ Available = {}
  /\ blocks < MaxBlocks
  /\ blocks' = blocks + 1
  /\ Take(t, <<blocks + 1, 0>>)

(***************************************************************************)
(* It counts the slot, returns it and unlocks.                             *)
(***************************************************************************)
ReturnSlot(t) ==
  /\ mutex_ = t
  /\ allocated_count_' = allocated_count_ + 1
  /\ held' = [held EXCEPT ![t] = @ \cup {found}]
  /\ mutex_' = NoThread
  /\ UNCHANGED <<blocks, used, free_count, found>>

BAD_unchecked_PutBack(p) ==
  /\ used' = used \ {p}
  /\ free_count' = [free_count EXCEPT ![p[1]] = @ + 1]
  /\ allocated_count_' = allocated_count_ - 1

(***************************************************************************)
(* What deallocate() does with a pointer: nothing if the slot is not used, *)
(* or, which is the same here, not of this pool.                           *)
(***************************************************************************)
PutBack(p) ==
  IF p \in used
    THEN /\ used' = used \ {p}
         /\ free_count' = [free_count EXCEPT ![p[1]] = @ + 1]
         /\ allocated_count_' = allocated_count_ - 1
    ELSE UNCHANGED <<used, free_count, allocated_count_>>

(***************************************************************************)
(* deallocate() of a pointer the thread has, of one that was given back    *)
(* already and not handed out since, or of one the pool does not know.     *)
(***************************************************************************)
deallocate(t, p) ==
  /\ mutex_ = NoThread
  /\ p \in held[t] \/ p \notin used
  /\ PutBack(p)
  /\ held' = [held EXCEPT ![t] = @ \ {p}]
  /\ UNCHANGED <<blocks, mutex_, found>>

-----------------------------------------------------------------------------
PoolNext == \E t \in Threads : \/ allocate(t)
                               \/ add_block(t)
                               \/ ReturnSlot(t)
                               \/ \E p \in Pointers : deallocate(t, p)

PoolSpec == PoolInit /\ [][PoolNext]_poolVars

-----------------------------------------------------------------------------
(* Properties.                                                             *)

(***************************************************************************)
(* No slot is in two hands, and the one allocate() is about to return is   *)
(* in nobody's: what threads have is used (allocate, deallocate).          *)
(***************************************************************************)
NeverSharedOut ==
  /\ \A t, u \in Threads : t # u => held[t] \cap held[u] = {}
  /\ \A t \in Threads : held[t] \subseteq used
  /\ mutex_ # NoThread => \A t \in Threads : found \notin held[t]

(***************************************************************************)
(* Whenever mutex_ is free every used slot is in some thread's hands, and  *)
(* free_count and allocated_count_ count exactly them, double frees of     *)
(* free slots included (allocate, deallocate).                             *)
(***************************************************************************)
Accounting ==
  mutex_ = NoThread =>
    /\ used = UNION {held[t] : t \in Threads}
    /\ allocated_count_ = Cardinality(used)
    /\ \A b \in 1..MaxBlocks : free_count[b] = block_size_ - Cardinality(InBlock(used, b))

(***************************************************************************)
(* A block is added only when every slot of the pool is in use: none is    *)
(* lost to allocate() (allocate, deallocate).                              *)
(***************************************************************************)
GrowsOnlyWhenFull == [][blocks' # blocks => used = Slots]_poolVars
=============================================================================
