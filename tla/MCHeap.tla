------------------------------- MODULE MCHeap -------------------------------
(* Small heaps of two-byte blocks and every uint size below 2^4, of which the *)
(* bound admits the ones that need at most MaxBlocks blocks; 15 wraps to 0.  *)
EXTENDS Heap

AllSizes == {size \in 0 .. UintMod - 1 : BlocksFor(size) <= MaxBlocks}
=============================================================================
