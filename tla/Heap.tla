-------------------------------- MODULE Heap --------------------------------
(***************************************************************************)
(* The kernel heap of src/memory/heap/heap.c, loop iteration by loop       *)
(* iteration: heap_malloc searches the block table for a free run and      *)
(* marks it, heap_free clears a chain of marks.  kmalloc, kzalloc and      *)
(* kfree of kheap.c are these two calls on the one kernel heap.  The       *)
(* kernel runs with interrupts off, so one call is active at a time.       *)
(***************************************************************************)
EXTENDS Integers

CONSTANTS Total,      \* heap_table.total, the entries of the block table
          BlockSize,  \* PEACHOS_HEAP_BLOCK_SIZE
          UintMod,    \* 2^32: sizes are uint32_t
          Sizes,      \* the sizes, in bytes, that callers ask for
          MaxBlocks   \* bound: the largest request, in blocks

VARIABLES entries,    \* heap_table.entries, and the memory that follows it
          owned,      \* history: blocks held by the owner of each pointer
          pc,         \* where the active call stands, "idle" between calls
          total,      \* total_blocks of the active heap_malloc
          i,          \* the loop variable
          bc, bs,     \* heap_get_start_block's run length and run start
          entry       \* the mark that heap_mark_blocks_taken writes next

vars == <<entries, owned, pc, total, i, bc, bs, entry>>

Blocks == 0 .. Total - 1

\* An overlong grant is marked past the table: those writes have a place here.
Cells == 0 .. Total + MaxBlocks - 1

FREE  == {}
Entry == SUBSET {"TAKEN", "HAS_NEXT", "IS_FIRST"}

heap_get_entry_type(e) == e \cap {"TAKEN"}

heap_align_value_to_upper(val) ==
  IF val % BlockSize = 0 THEN val
  ELSE (val - (val % BlockSize) + BlockSize) % UintMod

BlocksFor(size) == heap_align_value_to_upper(size) \div BlockSize

ASSUME HeapAssumption ==
  /\ Total \in Nat \ {0}
  /\ MaxBlocks \in Nat \ {0}
  /\ \A size \in Sizes : BlocksFor(size) \in 0 .. MaxBlocks

-----------------------------------------------------------------------------
(* heap_malloc *)

\* Block 0 belongs to the FAT16 driver's private data from boot on.
Init == /\ entries = [k \in Cells |-> IF k = 0 THEN {"TAKEN", "IS_FIRST"}
                                               ELSE FREE]
        /\ owned = [b \in Blocks |-> IF b = 0 THEN 1 ELSE 0]
        /\ pc = "idle"
        /\ total = 0 /\ i = 0 /\ bc = 0 /\ bs = -1
        /\ entry = FREE

HeapMalloc(size) ==
  /\ pc = "idle"
  /\ pc' = "scan"
  /\ total' = BlocksFor(size)
  /\ i' = 0 /\ bc' = 0 /\ bs' = -1
  /\ UNCHANGED <<entries, owned, entry>>

\* heap_mark_blocks_taken's first mark, and the one that follows block k's.
FirstMarkAlone(n) == {"TAKEN", "IS_FIRST"}
FirstMark(n) ==
  {"TAKEN", "IS_FIRST"} \cup (IF n > 1 THEN {"HAS_NEXT"} ELSE {})

MarkAfterToEnd(k, end) == {"TAKEN"} \cup (IF k # end THEN {"HAS_NEXT"} ELSE {})
MarkAfter(k, end) == {"TAKEN"} \cup (IF k # end - 1 THEN {"HAS_NEXT"} ELSE {})

BeginMark(start) ==
  /\ pc' = "mark"
  /\ i' = start
  /\ entry' = FirstMark(total)

ScanTakenKeepsStart ==
  /\ pc = "scan" /\ i < Total
  /\ heap_get_entry_type(entries[i]) # FREE
  /\ bc' = 0
  /\ i' = i + 1
  /\ UNCHANGED <<entries, owned, pc, total, bs, entry>>

ScanTakenStalls ==
  /\ pc = "scan" /\ i < Total
  /\ heap_get_entry_type(entries[i]) # FREE
  /\ bc' = 0 /\ bs' = -1
  /\ UNCHANGED <<entries, owned, pc, total, i, entry>>

ScanTaken ==
  /\ pc = "scan" /\ i < Total
  /\ heap_get_entry_type(entries[i]) # FREE
  /\ bc' = 0 /\ bs' = -1
  /\ i' = i + 1
  /\ UNCHANGED <<entries, owned, pc, total, entry>>

RunEndsEarly(count) == count = total - 1
RunEndsLate(count) == count = total + 1
RunComplete(count) == count = total

ScanFree ==
  /\ pc = "scan" /\ i < Total
  /\ heap_get_entry_type(entries[i]) = FREE
  /\ bs' = IF bs = -1 THEN i ELSE bs
  /\ bc' = bc + 1
  /\ IF RunComplete(bc')
       THEN BeginMark(bs')
       ELSE i' = i + 1 /\ UNCHANGED <<pc, entry>>
  /\ UNCHANGED <<entries, owned, total>>

ScanEndUnchecked ==
  /\ pc = "scan" /\ i = Total
  /\ BeginMark(bs)
  /\ UNCHANGED <<entries, owned, total, bc, bs>>

\* No run was long enough: bs is the start of the run at the end, if any.
ScanEnd ==
  /\ pc = "scan" /\ i = Total
  /\ IF bs = -1 THEN pc' = "idle" /\ UNCHANGED <<i, entry>>
                ELSE BeginMark(bs)
  /\ UNCHANGED <<entries, owned, total, bc, bs>>

MarkBlock ==
  /\ pc = "mark" /\ i <= bs + total - 1
  /\ entries' = [entries EXCEPT ![i] = entry]
  /\ entry' = MarkAfter(i, bs + total - 1)
  /\ i' = i + 1
  /\ UNCHANGED <<owned, pc, total, bc, bs>>

MallocReturn ==
  /\ pc = "mark" /\ i > bs + total - 1
  /\ pc' = "idle"
  /\ owned' = [owned EXCEPT ![bs] = total]
  /\ UNCHANGED <<entries, total, i, bc, bs, entry>>

-----------------------------------------------------------------------------
(* heap_free, of a pointer that malloc returned and its owner still holds. *)

HeapFree(b) ==
  /\ pc = "idle"
  /\ b # 0 /\ owned[b] > 0
  /\ pc' = "free"
  /\ bs' = b /\ i' = b
  /\ UNCHANGED <<entries, owned, total, bc, entry>>

ChainEndsAt(e) == "HAS_NEXT" \notin e

FreeReturn == pc' = "idle" /\ owned' = [owned EXCEPT ![bs] = 0]

FreeBlock ==
  /\ pc = "free" /\ i < Total
  /\ entries' = [entries EXCEPT ![i] = FREE]
  /\ IF ChainEndsAt(entries[i])
       THEN FreeReturn /\ UNCHANGED i
       ELSE i' = i + 1 /\ UNCHANGED <<pc, owned>>
  /\ UNCHANGED <<total, bc, bs, entry>>

FreeEnd ==
  /\ pc = "free" /\ i = Total
  /\ FreeReturn
  /\ UNCHANGED <<entries, total, i, bc, bs, entry>>

-----------------------------------------------------------------------------

Call == \/ \E size \in Sizes : HeapMalloc(size)
        \/ \E b \in Blocks : HeapFree(b)

Step == \/ ScanTaken \/ ScanFree \/ ScanEnd
        \/ MarkBlock \/ MallocReturn
        \/ FreeBlock \/ FreeEnd

Next == Call \/ Step

Spec == Init /\ [][Next]_vars

\* A call in progress keeps the CPU: nothing can preempt the kernel.
FairSpec == Spec /\ WF_vars(Step)

-----------------------------------------------------------------------------
(* Correctness *)

TypeOK == /\ entries \in [Cells -> Entry]
          /\ owned \in [Blocks -> 0 .. MaxBlocks]
          /\ pc \in {"idle", "scan", "mark", "free"}
          /\ total \in 0 .. MaxBlocks
          /\ i \in 0 .. Total + MaxBlocks
          /\ bc \in 0 .. Total
          /\ bs \in -1 .. Total - 1
          /\ entry \in Entry

Abstract == INSTANCE BlockAllocator WITH granted <- owned

\* No two callers ever hold the same block: the ranges handed out by
\* heap_malloc and not yet passed to heap_free do not overlap.
NoOverlap ==
  \A b, c \in Blocks : b < c /\ owned[b] > 0 /\ owned[c] > 0 => b + owned[b] <= c

\* The mark of block k in a run of n blocks that starts at block b.
MarkOf(b, n, k) == {"TAKEN"} \cup (IF k = b THEN {"IS_FIRST"} ELSE {})
                             \cup (IF k < b + n - 1 THEN {"HAS_NEXT"} ELSE {})

\* Between calls the table says who holds what: a held block carries the mark
\* of its place in its run, so that heap_free will stop at the run's end, and
\* a block nobody holds is free, so that no block is lost.
TableMatchesOwners ==
  pc = "idle" => \A k \in Blocks :
    \/ entries[k] = FREE /\ Abstract!Unused(k)
    \/ \E b \in Blocks : Abstract!Covers(b, k) /\ entries[k] = MarkOf(b, owned[b], k)

\* heap_malloc refuses a request of at least one block, with NULL, only when the
\* table has no run of free blocks that is long enough.
FailsOnlyWhenNothingFits ==
  [][pc = "scan" /\ pc' = "idle" /\ total > 0 => Abstract!NothingFits(total)]_vars

\* Every call implements one atomic step of the abstract allocator: the run is
\* the lowest that fits, and nothing else changes hands.
ImplementsAllocator == Abstract!Spec

\* The loops of heap_malloc and heap_free end: every call returns.
CallsReturn == pc # "idle" ~> pc = "idle"

\* "100MB heap size" (src/config.h): what heap_malloc hands out lies inside the
\* heap.  The code does not achieve it.
GrantsInsideHeap == \A b \in Blocks : b + owned[b] <= Total
-----------------------------------------------------------------------------
(* The inductive invariant behind the properties above: what is known about  *)
(* the table in the middle of a call.                                        *)

\* A held block carries its mark, except those heap_free already cleared.
HeldMarked ==
  \A b, k \in Blocks :
    Abstract!Covers(b, k) /\ ~(pc = "free" /\ b = bs /\ k < i)
      => entries[k] = MarkOf(b, owned[b], k)

\* A mark belongs to a held block or to the run that is being marked.
MarksAccounted ==
  \A k \in Blocks :
    entries[k] # FREE => \/ \E b \in Blocks : Abstract!Covers(b, k)
                         \/ pc = "mark" /\ bs <= k /\ k < i

\* While it scans: bs .. i - 1 is the free run that ends before block i, and no
\* run that starts below it is long enough.
ScanInv ==
  pc = "scan" =>
    /\ i <= Total
    /\ bs = -1 => /\ bc = 0
                  /\ i > 0 => entries[i - 1] # FREE
    /\ bs # -1 => /\ bs < i /\ bc = i - bs
                  /\ \A k \in bs .. i - 1 : entries[k] = FREE
                  /\ bs > 0 => entries[bs - 1] # FREE
    /\ total > 0 =>
         /\ bc < total
         /\ \A b \in Blocks : b < (IF bs = -1 THEN i ELSE bs) =>
              \E k \in b .. b + total - 1 : k < i /\ entries[k] # FREE

\* While it marks: the run was chosen as the allocator promises, its blocks up
\* to i are marked, and entry is the mark of block i.
MarkInv ==
  pc = "mark" =>
    /\ bs \in Blocks /\ bs <= i /\ i <= bs + total
    /\ Abstract!Unused(bs)
    /\ total > 0 => Abstract!Chosen(bs, total)
    /\ \A k \in Blocks : bs <= k /\ k < i => entries[k] = MarkOf(bs, total, k)
    /\ i < bs + total => entry = MarkOf(bs, total, i)

\* While it frees: i has not left the run that bs starts, and the blocks of the
\* run before i are free.
FreeInv ==
  pc = "free" =>
    /\ bs \in Blocks /\ bs <= i /\ i <= Total /\ i < bs + owned[bs]
    /\ \A k \in bs .. i - 1 : entries[k] = FREE

\* The inductive invariant of the heap: every fact above at once, in every state
\* of every call.
IInv == /\ TypeOK /\ NoOverlap /\ HeldMarked /\ MarksAccounted
        /\ ScanInv /\ MarkInv /\ FreeInv
=============================================================================
