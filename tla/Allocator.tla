------------------------------ MODULE Allocator ------------------------------
(***************************************************************************)
(* One size class of the slab allocator (src/src/l_utils.c,                *)
(* src/include/lutils.h): a stack of free cells, blocks that are cut into  *)
(* cells when the stack is empty, and compact_mem, which sorts the free    *)
(* cells by address and gives whole blocks back.                           *)
(*                                                                         *)
(* A block is its address in units of L_SFC_MEM_BLOCK_SIZE; a cell is its  *)
(* block and its place in it.  cmpptr keeps 32 bits of a difference.  Here *)
(* the blocks of a class lie between two consecutive multiples of 2 GB:    *)
(* then it orders cells by address, and puts NULL before all of them or    *)
(* after all of them, by bit 31 of their addresses (null_first).  Across   *)
(* such a multiple NULL would be above some cells and below others, cmpptr *)
(* would not be an order, and what qsort makes of it is not modelled.      *)
(*                                                                         *)
(* An operator named Mut_X is a wrong variant of X, used to show that the  *)
(* properties notice the difference.                                       *)
(***************************************************************************)
EXTENDS Integers, Sequences, FiniteSets, SequencesExt

CONSTANTS Blocks,         \* addresses posix_memalign may return
          per_block,      \* L_SFC_MEM_BLOCK_SIZE / elem_size
          period,         \* frees between two looks at compaction (L_SFC_MEM_BLOCK_SIZE)
          spare_blocks,   \* blocks that are always kept (16)
          NoAddr,         \* NULL
          MaxFreeCnt      \* bound: free_cnt

ASSUME AllocatorAssumption ==
    /\ Blocks \subseteq Nat
    /\ {per_block, period} \subseteq Nat \ {0}
    /\ {spare_blocks, MaxFreeCnt} \subseteq Nat

VARIABLES sfc,          \* stack, mem_blocks, alloc_cnt, free_cnt, __mem_l_free_count
          null_first,
          used          \* cells that are handed out

vars == <<sfc, null_first, used>>

Addr(b, j) == b * per_block + j
Cells(b) == {Addr(b, j) : j \in 0 .. per_block - 1}
BlockOf(a) == a \div per_block

-----------------------------------------------------------------------------
(* __l_alloc: pop a cell, or cut up another block first.  The stack is a      *)
(* sequence whose head is its top.                                            *)
Pushed(stack, s) == Reverse(s) \o stack

WithBlock(f, b) ==
    [f EXCEPT !.stack = Pushed(@, [j \in 1 .. per_block |-> Addr(b, j - 1)]),
              !.mem_blocks = Append(@, b),
              !.alloc_cnt = @ + per_block,
              !.free_cnt = @ + per_block]

Unused(f) == Blocks \ ToSet(f.mem_blocks)

Alloc ==
    /\ \E f \in IF sfc.stack # <<>> THEN {sfc} ELSE {WithBlock(sfc, b) : b \in Unused(sfc)} :
          /\ f.free_cnt <= MaxFreeCnt
          /\ sfc' = [f EXCEPT !.stack = Tail(@)]
          /\ used' = used \cup {Head(f.stack)}
    /\ UNCHANGED null_first

-----------------------------------------------------------------------------
(* compact_mem.  sort_buff: free_cnt places with the free cells, NULL in the  *)
(* rest, sorted.                                                              *)
Nulls(n) == [i \in 1 .. n |-> NoAddr]

sort_buff(f) ==
    LET n == IF Len(f.stack) < f.free_cnt THEN Len(f.stack) ELSE f.free_cnt
        cells == SortSeq(SubSeq(f.stack, 1, n), <)
        rest == Nulls(f.free_cnt - n)
    IN  IF null_first THEN rest \o cells ELSE cells \o rest

(* The block that begins at place i is free: its first cell is there, and its *)
(* last one where it must be.  The last place that is looked at is            *)
(* elems - per_block, counted from 1.                                         *)
Mut_WholeAt(buff, i) ==
    /\ buff[i] # NoAddr
    /\ buff[i] % per_block = 0
    /\ Contains(buff, buff[i] + per_block - 1)
WholeAt(buff, i) ==
    /\ buff[i] # NoAddr
    /\ buff[i] % per_block = 0
    /\ buff[i + per_block - 1] = buff[i] + per_block - 1

free_block(buff) == {BlockOf(buff[i]) : i \in {j \in 1 .. Len(buff) - per_block : WholeAt(buff, j)}}

(* __sort_stack over the first n places: the ones of freed blocks are NULL.   *)
Mut_SortedStack(buff, n, freed) ==
    Reverse(SelectSeq(SubSeq(buff, 1, n - 1), LAMBDA a : a # NoAddr /\ BlockOf(a) \notin freed))
SortedStack(buff, n, freed) ==
    Reverse(SelectSeq(SubSeq(buff, 1, n), LAMBDA a : a # NoAddr /\ BlockOf(a) \notin freed))

Compacted(f, buff, freed) ==
    LET less == Cardinality(freed) * per_block
    IN  [f EXCEPT !.stack = SortedStack(buff, f.free_cnt - less, freed),
                  !.mem_blocks = SelectSeq(@, LAMBDA b : b \notin freed),
                  !.alloc_cnt = @ - less,
                  !.free_cnt = @ - less,
                  !.__mem_l_free_count = 0]

(* __l_free *)
AfterPush(f, a) ==
    [f EXCEPT !.stack = <<a>> \o @, !.free_cnt = @ + 1, !.__mem_l_free_count = @ + 1]

Due(f) ==
    /\ f.__mem_l_free_count % period = 0
    /\ Len(f.mem_blocks) > spare_blocks
    /\ f.free_cnt > (f.alloc_cnt * 990) \div 1000

Free(a) ==
    /\ a \in used
    /\ used' = used \ {a}
    /\ \E f \in {AfterPush(sfc, a)} :
          /\ f.free_cnt <= MaxFreeCnt
          /\ \/ /\ ~Due(f)
                /\ sfc' = f
             \/ /\ Due(f)
                /\ \E buff \in {sort_buff(f)} : sfc' = Compacted(f, buff, free_block(buff))
    /\ UNCHANGED null_first

(* l_mem_init *)
Empty == [stack |-> <<>>, mem_blocks |-> <<>>, alloc_cnt |-> 0, free_cnt |-> 0,
          __mem_l_free_count |-> 0]

Init == sfc = Empty /\ null_first \in BOOLEAN /\ used = {}

(* l_mem_destroy, with what is in use; then the pool of another thread.       *)
ThreadEnds ==
    /\ sfc # Empty
    /\ sfc' = Empty /\ used' = {}
    /\ null_first' \in BOOLEAN

Next == Alloc \/ (\E b \in Blocks : \E a \in Cells(b) : Free(a)) \/ ThreadEnds

Spec == Init /\ [][Next]_vars

-----------------------------------------------------------------------------
(* No cell is handed out twice or is free twice, and no block is given back   *)
(* to the system while one of its cells is in use or on the stack.            *)
CellsOwnedOnce ==
    /\ IsInjective(sfc.stack)
    /\ ToSet(sfc.stack) \cap used = {}
    /\ ToSet(sfc.stack) \cup used \subseteq UNION {Cells(b) : b \in ToSet(sfc.mem_blocks)}

(* A cell is lost, neither free nor in use though its block is kept, only     *)
(* when compact_mem gives blocks back, and then no more cells than those of   *)
(* the blocks it gives back.  In particular free_cnt, which allocations do    *)
(* not lower, always covers the stack: compact_mem copies free_cnt cells and  *)
(* drops the others.                                                          *)
Kept == UNION {Cells(b) : b \in ToSet(sfc.mem_blocks)}
Lost == Kept \ (ToSet(sfc.stack) \cup used)

LossBounded ==
    [][sfc' # Empty =>
       Cardinality(Lost' \ Lost) <= per_block * (Len(sfc.mem_blocks) - Len(sfc'.mem_blocks))
       \/ Lost' \subseteq Lost]_vars
=============================================================================
