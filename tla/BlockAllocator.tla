--------------------------- MODULE BlockAllocator ---------------------------
(***************************************************************************)
(* What the kernel heap (src/memory/heap) promises its callers, one atomic *)
(* step per call.  A caller that is given the pointer to block b holds the *)
(* granted[b] consecutive blocks from b on until it frees that pointer.    *)
(*                                                                         *)
(* The run is the lowest one that fits.  When none fits, the search of     *)
(* heap_get_start_block ends with the start of the free run at the end of  *)
(* the table, if there is one, and that run is granted although it is too  *)
(* short: the grant then reaches past the last block of the heap.          *)
(***************************************************************************)
EXTENDS Integers

CONSTANTS Total,      \* blocks in the heap: kernel_heap_table.total
          MaxBlocks   \* the largest request, in blocks

ASSUME AllocatorAssumption == Total \in Nat \ {0} /\ MaxBlocks \in Nat \ {0}

VARIABLE granted      \* [Blocks -> number of blocks held from there, or 0]

Blocks == 0 .. Total - 1

Covers(b, k)  == b <= k /\ k < b + granted[b]
Unused(k)     == \A b \in Blocks : ~Covers(b, k)
Fits(b, n)    == b + n <= Total /\ \A k \in b .. b + n - 1 : Unused(k)
FirstFit(b, n) == Fits(b, n) /\ \A a \in 0 .. b - 1 : ~Fits(a, n)

\* b starts the free run that ends with the last block of the table.
TailRun(b) == /\ b > 0 => ~Unused(b - 1)
              /\ \A k \in b .. Total - 1 : Unused(k)

NothingFits(n) == \A a \in Blocks : ~Fits(a, n)

\* The block whose address heap_malloc returns for a request of n blocks.
Chosen(b, n) == FirstFit(b, n) \/ (TailRun(b) /\ NothingFits(n))

-----------------------------------------------------------------------------

\* fat16_resolve's kzalloc, the first of the boot, holds block 0 for good.
Init == granted = [b \in Blocks |-> IF b = 0 THEN 1 ELSE 0]

Malloc(b, n) == Chosen(b, n) /\ granted' = [granted EXCEPT ![b] = n]

Free(b) == granted[b] > 0 /\ granted' = [granted EXCEPT ![b] = 0]

Next == \E b \in Blocks : Free(b) \/ \E n \in 1 .. MaxBlocks : Malloc(b, n)

Spec == Init /\ [][Next]_granted
=============================================================================
