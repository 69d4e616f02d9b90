------------------------------- MODULE MemPool -------------------------------
(***************************************************************************)
(* Fixed-sized memory pools (kernel/mempfix.c).  k.cb[p] is the control    *)
(* block with the indices next of the blocks' management area: a block is  *)
(* in use, or in the list that starts at freelist, or was never used.      *)
(* ini_mpf does not clear next, and get_mpf_block relies on unused there.  *)
(***************************************************************************)
EXTENDS Dispatcher, Integers

CONSTANTS Mpf,      \* the memory pools
          blkcnt    \* the number of blocks of each

ASSUME MemPoolAssumption == Mpf \subseteq ComObj /\ blkcnt \in [Mpf -> Nat \ {0}]

Blk(p)      == 0 .. blkcnt[p] - 1
INDEX_NULL  == -1
INDEX_ALLOC == -2

EmptyPool(p) == [fblkcnt |-> blkcnt[p], unused |-> 0, freelist |-> INDEX_NULL,
                 next |-> [b \in Blk(p) |-> INDEX_NULL]]

impf == [o \in ComObj |-> IF o \in Mpf THEN EmptyPool(o) ELSE NoInfo]

\* Mutant: unused blocks are taken first, up to the end of the pool.
new_block_before_free(b) == IF b.fblkcnt > 1 THEN b.unused ELSE b.freelist

\* The block that get_mpf_block gives.
new_block(b) == IF b.freelist # INDEX_NULL THEN b.freelist ELSE b.unused

get_mpf_block(b) ==
  LET blk == new_block(b)
  IN  [fblkcnt  |-> b.fblkcnt - 1,
       unused   |-> IF b.freelist # INDEX_NULL THEN b.unused ELSE b.unused + 1,
       freelist |-> IF b.freelist # INDEX_NULL THEN b.next[blk] ELSE b.freelist,
       next     |-> [b.next EXCEPT ![blk] = INDEX_ALLOC]]

\* get_mpf, pget_mpf and tget_mpf when there is a block.
pget_mpf(p) ==
  /\ TaskContext
  /\ k.cb[p].fblkcnt > 0
  /\ PlainCall([k EXCEPT !.cb[p] = get_mpf_block(@)])

\* get_mpf and tget_mpf when there is none.
get_mpf(p, timed) ==
  /\ MayWait
  /\ k.cb[p].fblkcnt = 0
  /\ ~k.waifbd[runtsk]
  /\ WaitCall(wobj_make_wait(k, runtsk, p, timed))

\* The check of rel_mpf on the block that is given back (else E_PAR).
IsAllocated(p, blk) == blk < k.cb[p].unused /\ k.cb[p].next[blk] = INDEX_ALLOC

\* Mutant: the block goes to the list of free blocks and to the waiter.
give_back_twice(p, blk) ==
  LET k2 == [k EXCEPT !.cb[p].fblkcnt = @ + 1,
                      !.cb[p].next[blk] = k.cb[p].freelist,
                      !.cb[p].freelist = blk]
  IN  IF k.wait_queue[p] # << >>
      THEN wait_complete_with(queue_delete_next(k2, p), Head(k.wait_queue[p]), blk)
      ELSE k2

\* The block goes to the first waiter, and to the list when there is none.
give_back(p, blk) ==
  IF k.wait_queue[p] # << >>
  THEN wait_complete_with(queue_delete_next(k, p), Head(k.wait_queue[p]), blk)
  ELSE [k EXCEPT !.cb[p] = [fblkcnt  |-> @.fblkcnt + 1, unused |-> @.unused,
                            freelist |-> blk,
                            next     |-> [@.next EXCEPT ![blk] = k.cb[p].freelist]]]

\* rel_mpf, of a block that a task still has or no longer has.
rel_mpf(p, blk) == TaskContext /\ IsAllocated(p, blk) /\ TaskCall(give_back(p, blk))

ini_mpf(p) ==
  /\ TaskContext
  /\ LoopCall(k, "init_wait_queue", [NoFrame EXCEPT !.obj = p])

ini_mpf_end ==
  /\ pc = "init_wait_queue" /\ frame.obj \in Mpf
  /\ k.wait_queue[frame.obj] = << >>
  /\ LoopEnd([k EXCEPT !.cb[frame.obj] =
                [EmptyPool(frame.obj) EXCEPT !.next = k.cb[frame.obj].next]])

MemPoolNext ==
  \/ \E p \in Mpf : \/ pget_mpf(p)
                    \/ \E timed \in BOOLEAN : get_mpf(p, timed)
                    \/ \E blk \in Blk(p) : rel_mpf(p, blk)
                    \/ ini_mpf(p)
  \/ init_wait_queue
  \/ ini_mpf_end

-----------------------------------------------------------------------------
\* The n-th block of the list that starts at freelist.
ListBlock(b, n) ==
  LET from[i \in 0 .. n] == IF i = 0 THEN b.freelist
                            ELSE IF from[i - 1] \in DOMAIN b.next
                                 THEN b.next[from[i - 1]] ELSE INDEX_ALLOC
  IN  from[n]

\* fblkcnt is exact: the list holds just the blocks that were given back, each
\* once, and ends; all others below unused are in use.
PoolOK ==
  \A p \in Mpf :
    LET b    == k.cb[p]
        n    == b.fblkcnt - (blkcnt[p] - b.unused)
        free == {ListBlock(b, i) : i \in 0 .. n - 1}
    IN  /\ b.unused \in 0 .. blkcnt[p] /\ n >= 0
        /\ free \subseteq 0 .. b.unused - 1 /\ Cardinality(free) = n
        /\ ListBlock(b, n) = INDEX_NULL
        /\ \A blk \in 0 .. b.unused - 1 : blk \in free <=> b.next[blk] # INDEX_ALLOC

\* Nobody waits while a block is free.
NoWaitForFreeBlock ==
  \A p \in Mpf : k.wait_queue[p] # << >> => k.cb[p].fblkcnt = 0
=============================================================================
