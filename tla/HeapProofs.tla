----------------------------- MODULE HeapProofs -----------------------------
(***************************************************************************)
(* Proofs about the kernel heap, for every heap size and every set of      *)
(* request sizes.                                                          *)
(***************************************************************************)
EXTENDS Heap, TLAPS

\* The initial table, one boot allocation in block 0, satisfies the invariant.
LEMMA InitEstablishes == Init => IInv
<1> SUFFICES ASSUME Init PROVE IInv
  OBVIOUS
<1> USE HeapAssumption DEF Init
<1>1. TypeOK
  BY DEF TypeOK, Blocks, Cells, Entry, FREE
<1>2. NoOverlap
  BY DEF NoOverlap, Blocks
<1>3. HeldMarked
  <2> SUFFICES ASSUME NEW b \in Blocks, NEW k \in Blocks, Abstract!Covers(b, k)
               PROVE  entries[k] = MarkOf(b, owned[b], k)
    BY DEF HeldMarked
  <2>1. b = 0 /\ k = 0 /\ owned[b] = 1 /\ 0 \in Cells
    BY DEF Blocks, Cells, Abstract!Covers
  <2>2. MarkOf(0, 1, 0) = {"TAKEN", "IS_FIRST"}
    BY DEF MarkOf
  <2> QED
    BY <2>1, <2>2
<1>4. MarksAccounted
  BY DEF MarksAccounted, Blocks, Cells, Abstract!Covers
<1>5. ScanInv /\ MarkInv /\ FreeInv
  BY DEF ScanInv, MarkInv, FreeInv
<1> QED
  BY <1>1, <1>2, <1>3, <1>4, <1>5 DEF IInv

\* What the invariant says of a block outside an active call: it is free in the
\* table exactly when nobody holds it.
LEMMA FreeMeansUnused ==
  ASSUME IInv, pc \in {"idle", "scan"}, NEW k \in Blocks
  PROVE  entries[k] = FREE <=> Abstract!Unused(k)
<1>1. ASSUME entries[k] # FREE PROVE ~Abstract!Unused(k)
  BY <1>1 DEF IInv, MarksAccounted, Abstract!Unused, Abstract!Blocks, Blocks
<1>2. ASSUME ~Abstract!Unused(k) PROVE entries[k] # FREE
  <2>1. PICK b \in Blocks : Abstract!Covers(b, k)
    BY <1>2 DEF Abstract!Unused, Abstract!Blocks, Blocks
  <2>2. entries[k] = MarkOf(b, owned[b], k)
    BY <2>1 DEF IInv, HeldMarked
  <2> QED
    BY <2>2 DEF MarkOf, FREE
<1> QED
  BY <1>1, <1>2

\* An entry counts as taken in the scan exactly when it is not FREE.
LEMMA EntryType ==
  ASSUME IInv, NEW k \in Blocks
  PROVE  pc \in {"idle", "scan"} =>
           (heap_get_entry_type(entries[k]) = FREE <=> entries[k] = FREE)
<1> SUFFICES ASSUME pc \in {"idle", "scan"}, entries[k] # FREE
             PROVE  "TAKEN" \in entries[k]
  BY DEF heap_get_entry_type, FREE
<1>1. PICK b \in Blocks : Abstract!Covers(b, k)
  BY DEF IInv, MarksAccounted
<1>2. entries[k] = MarkOf(b, owned[b], k)
  BY <1>1 DEF IInv, HeldMarked
<1> QED
  BY <1>2 DEF MarkOf

\* Calls and the scan's steps leave the table and the grants as they are.
LEMMA ScanKeepsTable ==
  ASSUME IInv, UNCHANGED <<entries, owned>>,
         pc \in {"idle", "scan"}, pc' \in {"idle", "scan", "mark"}
  PROVE  NoOverlap' /\ HeldMarked' /\ MarksAccounted'
<1> USE DEF IInv
<1>1. NoOverlap'
  BY DEF NoOverlap
<1>2. HeldMarked'
  BY DEF HeldMarked, Abstract!Covers, MarkOf
<1>3. MarksAccounted'
  BY DEF MarksAccounted, Abstract!Covers
<1> QED
  BY <1>1, <1>2, <1>3

\* A call of heap_malloc finds its locals fresh.
LEMMA HeapMallocStep ==
  ASSUME IInv, NEW size \in Sizes, HeapMalloc(size)
  PROVE  IInv'
<1> USE HeapAssumption DEF HeapMalloc
<1>1. TypeOK'
  BY DEF IInv, TypeOK, Blocks
<1>2. NoOverlap' /\ HeldMarked' /\ MarksAccounted'
  BY ScanKeepsTable
<1>3. ScanInv' /\ MarkInv' /\ FreeInv'
  BY <1>1 DEF ScanInv, MarkInv, FreeInv, TypeOK, Blocks
<1> QED
  BY <1>1, <1>2, <1>3 DEF IInv

\* A call of heap_free begins at the block its pointer names.
LEMMA HeapFreeStep ==
  ASSUME IInv, NEW b \in Blocks, HeapFree(b)
  PROVE  IInv'
<1> USE HeapAssumption DEF HeapFree
<1>1. TypeOK'
  BY DEF IInv, TypeOK, Blocks
<1>2. NoOverlap' /\ HeldMarked' /\ MarksAccounted'
  <2>1. NoOverlap'
    BY DEF IInv, NoOverlap
  <2>2. HeldMarked'
    BY DEF IInv, HeldMarked, Abstract!Covers, MarkOf, Blocks
  <2>3. MarksAccounted'
    BY DEF IInv, MarksAccounted, Abstract!Covers
  <2> QED
    BY <2>1, <2>2, <2>3
<1>3. ScanInv' /\ MarkInv' /\ FreeInv'
  BY DEF IInv, ScanInv, MarkInv, FreeInv, TypeOK, Blocks
<1> QED
  BY <1>1, <1>2, <1>3 DEF IInv

\* The search goes on behind a taken block.
LEMMA ScanTakenStep ==
  ASSUME IInv, ScanTaken
  PROVE  IInv'
<1> USE HeapAssumption DEF ScanTaken
<1>0. i \in Blocks /\ entries[i] # FREE
  BY EntryType DEF IInv, TypeOK, Blocks, heap_get_entry_type, FREE
<1>1. TypeOK'
  BY DEF IInv, TypeOK, Blocks
<1>2. NoOverlap' /\ HeldMarked' /\ MarksAccounted'
  BY ScanKeepsTable
<1>3. ScanInv'
  <2>1. ASSUME total > 0, NEW b \in Blocks, b < i + 1
        PROVE  \E k \in b .. b + total - 1 : k < i + 1 /\ entries[k] # FREE
    <3>1. CASE b < (IF bs = -1 THEN i ELSE bs)
      <4>1. PICK k \in b .. b + total - 1 : k < i /\ entries[k] # FREE
        BY <2>1, <3>1 DEF IInv, ScanInv
      <4> QED
        BY <4>1, <2>1 DEF IInv, TypeOK, Blocks
    <3>2. CASE ~(b < (IF bs = -1 THEN i ELSE bs))
      <4>1. i - b < total /\ b <= i
        BY <2>1, <3>2 DEF IInv, ScanInv, TypeOK, Blocks
      <4>2. i \in b .. b + total - 1
        BY <4>1 DEF IInv, TypeOK, Blocks
      <4> QED
        BY <4>2, <1>0 DEF Blocks
    <3> QED
      BY <3>1, <3>2
  <2> QED
    BY <2>1, <1>0, <1>1 DEF IInv, ScanInv, TypeOK, Blocks
<1>4. MarkInv' /\ FreeInv'
  BY DEF MarkInv, FreeInv
<1> QED
  BY <1>1, <1>2, <1>3, <1>4 DEF IInv

\* A run chosen for marking consists of blocks nobody holds.
LEMMA ChosenUnused ==
  ASSUME HeapAssumption, NEW b \in Blocks, NEW n \in Nat, n > 0,
         Abstract!Chosen(b, n)
  PROVE  \A k \in Blocks : b <= k /\ k < b + n => Abstract!Unused(k)
BY DEF Abstract!Chosen, Abstract!FirstFit, Abstract!Fits, Abstract!TailRun,
       Abstract!NothingFits, Blocks

\* A free block lengthens the run, or completes it.
LEMMA ScanFreeStep ==
  ASSUME IInv, ScanFree
  PROVE  IInv'
<1> USE HeapAssumption DEF ScanFree, BeginMark
<1> DEFINE b0 == IF bs = -1 THEN i ELSE bs
<1>0. i \in Blocks /\ entries[i] = FREE
  BY EntryType DEF IInv, TypeOK, Blocks
<1>1. /\ b0 \in Blocks /\ b0 <= i
      /\ \A k \in b0 .. i : entries[k] = FREE
      /\ b0 > 0 => entries[b0 - 1] # FREE
      /\ bc + 1 = i + 1 - b0
      /\ bs' = b0 /\ bc' = bc + 1
  BY <1>0 DEF IInv, ScanInv, TypeOK, Blocks
<1>2. ASSUME total > 0, NEW b \in Blocks, b < b0
      PROVE  \E k \in b .. b + total - 1 : k < i /\ entries[k] # FREE
  BY <1>2 DEF IInv, ScanInv
<1>3. TypeOK'
  <2>1. FirstMark(total) \in Entry
    BY DEF FirstMark, Entry
  <2>2. entry' \in Entry
    BY <2>1 DEF IInv, TypeOK
  <2>3. /\ pc' \in {"idle", "scan", "mark", "free"}
        /\ i' \in 0 .. Total + MaxBlocks
        /\ bc' \in 0 .. Total
        /\ bs' \in -1 .. Total - 1
    BY <1>0, <1>1 DEF IInv, TypeOK, Blocks
  <2> QED
    BY <2>2, <2>3 DEF IInv, TypeOK
<1>4. NoOverlap' /\ HeldMarked' /\ MarksAccounted'
  BY ScanKeepsTable
<1>5. CASE RunComplete(bc')
  <2>1. bc + 1 = total /\ pc' = "mark" /\ i' = b0 /\ entry' = FirstMark(total)
    BY <1>1, <1>5 DEF RunComplete
  <2>2. total \in Nat /\ total > 0 /\ b0 + total = i + 1
    BY <1>1, <2>1 DEF IInv, TypeOK, Blocks
  <2>3. ASSUME NEW k \in b0 .. b0 + total - 1 PROVE Abstract!Unused(k)
    <3>1. k \in Blocks /\ entries[k] = FREE
      BY <1>0, <1>1, <2>2 DEF IInv, TypeOK, Blocks
    <3> QED
      BY <3>1, FreeMeansUnused
  <2>4. Abstract!Fits(b0, total)
    <3>1. b0 + total <= Total
      BY <1>0, <2>2 DEF Blocks
    <3> QED
      BY <2>3, <3>1 DEF Abstract!Fits
  <2>5. ASSUME NEW a \in 0 .. b0 - 1 PROVE ~Abstract!Fits(a, total)
    <3>1. PICK k \in a .. a + total - 1 : k < i /\ entries[k] # FREE
      BY <1>1, <1>2, <2>2 DEF Blocks
    <3>2. ~Abstract!Unused(k)
      BY <1>0, <1>1, <3>1, FreeMeansUnused DEF Blocks
    <3> QED
      BY <3>1, <3>2 DEF Abstract!Fits
  <2>6. Abstract!Chosen(b0, total)
    BY <2>4, <2>5 DEF Abstract!Chosen, Abstract!FirstFit
  <2>7. Abstract!Unused(b0)
    BY <1>1, <2>2, <2>3 DEF Blocks
  <2>8. FirstMark(total) = MarkOf(b0, total, b0)
    BY <1>1, <2>2 DEF FirstMark, MarkOf, Blocks
  <2>9. MarkInv'
    BY <1>1, <2>1, <2>2, <2>6, <2>7, <2>8
    DEF MarkInv, Abstract!Unused, Abstract!Chosen, Abstract!FirstFit,
        Abstract!Fits, Abstract!TailRun, Abstract!NothingFits,
        Abstract!Covers, MarkOf, Blocks
  <2>10. ScanInv' /\ FreeInv'
    BY <2>1 DEF ScanInv, FreeInv
  <2> QED
    BY <1>3, <1>4, <2>9, <2>10 DEF IInv
<1>6. CASE ~RunComplete(bc')
  <2>1. pc' = "scan" /\ i' = i + 1 /\ bc + 1 # total
    BY <1>1, <1>6 DEF RunComplete
  <2>2. ScanInv'
    <3>1. total > 0 => bc' < total
      BY <1>1, <2>1 DEF IInv, ScanInv, TypeOK, Blocks
    <3>2. bs' # -1 /\ bs' < i' /\ bc' = i' - bs' /\ i' <= Total
      BY <1>0, <1>1, <2>1 DEF IInv, TypeOK, Blocks
    <3>3. \A k \in bs' .. i' - 1 : entries'[k] = FREE
      BY <1>0, <1>1, <2>1 DEF Blocks
    <3>4. bs' > 0 => entries'[bs' - 1] # FREE
      BY <1>1
    <3>5. ASSUME total > 0, NEW b \in Blocks, b < bs'
          PROVE  \E k \in b .. b + total - 1 : k < i' /\ entries'[k] # FREE
      <4>1. PICK k \in b .. b + total - 1 : k < i /\ entries[k] # FREE
        BY <1>1, <1>2, <3>5
      <4> QED
        BY <1>0, <2>1, <4>1 DEF IInv, TypeOK, Blocks
    <3> QED
      BY <3>1, <3>2, <3>3, <3>4, <3>5 DEF ScanInv
  <2>3. MarkInv' /\ FreeInv'
    BY <2>1 DEF MarkInv, FreeInv
  <2> QED
    BY <1>3, <1>4, <2>2, <2>3 DEF IInv
<1> QED
  BY <1>5, <1>6

\* A scan that reaches the end of the table has seen every run: none is long
\* enough.
LEMMA ScanEndFitsNothing ==
  ASSUME IInv, ScanEnd, total > 0
  PROVE  Abstract!NothingFits(total)
<1> USE HeapAssumption DEF ScanEnd
<1> SUFFICES ASSUME NEW a \in Blocks PROVE ~Abstract!Fits(a, total)
  BY DEF Abstract!NothingFits, Abstract!Blocks, Blocks
<1>1. CASE a < (IF bs = -1 THEN i ELSE bs)
  <2>1. PICK k \in a .. a + total - 1 : k < i /\ entries[k] # FREE
    BY <1>1 DEF IInv, ScanInv
  <2>2. k \in Blocks
    BY <2>1 DEF IInv, TypeOK, Blocks
  <2>3. ~Abstract!Unused(k)
    BY <2>1, <2>2, FreeMeansUnused
  <2> QED
    BY <2>1, <2>3 DEF Abstract!Fits
<1>2. CASE ~(a < (IF bs = -1 THEN i ELSE bs))
  <2>1. a + total > Total
    BY <1>2 DEF IInv, ScanInv, TypeOK, Blocks
  <2> QED
    BY <2>1 DEF Abstract!Fits, IInv, TypeOK, Blocks
<1> QED
  BY <1>1, <1>2

\* The search ends without a run that is long enough.
LEMMA ScanEndStep ==
  ASSUME IInv, ScanEnd
  PROVE  IInv'
<1> USE HeapAssumption DEF ScanEnd, BeginMark
<1>1. TypeOK'
  <2>1. FirstMark(total) \in Entry
    BY DEF FirstMark, Entry
  <2> QED
    BY <2>1 DEF IInv, TypeOK, Blocks
<1>2. NoOverlap' /\ HeldMarked' /\ MarksAccounted'
  BY ScanKeepsTable
<1>3. CASE bs = -1
  <2>1. ScanInv' /\ MarkInv' /\ FreeInv'
    BY <1>3 DEF ScanInv, MarkInv, FreeInv
  <2> QED
    BY <1>1, <1>2, <2>1 DEF IInv
<1>4. CASE bs # -1
  <2>1. /\ bs \in Blocks /\ bc = Total - bs
        /\ \A k \in bs .. Total - 1 : entries[k] = FREE
        /\ bs > 0 => entries[bs - 1] # FREE
    BY <1>4 DEF IInv, ScanInv, TypeOK, Blocks
  <2>2. Abstract!TailRun(bs)
    <3>1. ASSUME NEW k \in bs .. Total - 1 PROVE Abstract!Unused(k)
      <4>1. k \in Blocks /\ entries[k] = FREE
        BY <2>1 DEF Blocks
      <4> QED
        BY <4>1, FreeMeansUnused
    <3>2. bs > 0 => ~Abstract!Unused(bs - 1)
      BY <2>1, FreeMeansUnused DEF Blocks
    <3> QED
      BY <3>1, <3>2 DEF Abstract!TailRun
  <2>3. Abstract!Unused(bs)
    BY <2>1, FreeMeansUnused DEF Blocks
  <2>4. ASSUME total > 0 PROVE Abstract!NothingFits(total)
    BY <2>4, ScanEndFitsNothing
  <2>5. MarkInv'
    <3>1. total \in Nat
      BY DEF IInv, TypeOK
    <3>2. total > 0 => FirstMark(total) = MarkOf(bs, total, bs)
      BY <2>1, <3>1 DEF FirstMark, MarkOf, Blocks
    <3>3. total > 0 => Abstract!Chosen(bs, total)
      BY <2>2, <2>4 DEF Abstract!Chosen
    <3> QED
      BY <1>4, <2>1, <2>3, <3>1, <3>2, <3>3
      DEF MarkInv, Abstract!Unused, Abstract!Chosen, Abstract!FirstFit,
          Abstract!Fits, Abstract!TailRun, Abstract!NothingFits,
          Abstract!Covers, MarkOf, Blocks
  <2>6. ScanInv' /\ FreeInv'
    BY <1>4 DEF ScanInv, FreeInv
  <2> QED
    BY <1>1, <1>2, <2>5, <2>6 DEF IInv
<1> QED
  BY <1>3, <1>4

\* A block of the chosen run is marked.
LEMMA MarkBlockStep ==
  ASSUME IInv, MarkBlock
  PROVE  IInv'
<1> USE HeapAssumption DEF MarkBlock
<1>0. /\ total \in Nat /\ total > 0 /\ bs \in Blocks /\ bs <= i /\ i \in Cells
      /\ entry = MarkOf(bs, total, i) /\ Abstract!Chosen(bs, total)
  BY DEF IInv, TypeOK, MarkInv, Blocks, Cells
<1>1. TypeOK'
  <2>1. entries' \in [Cells -> Entry]
    BY <1>0 DEF IInv, TypeOK
  <2>2. entry' \in Entry
    BY DEF MarkAfter, Entry
  <2>3. i' \in 0 .. Total + MaxBlocks
    BY <1>0 DEF IInv, TypeOK, Blocks
  <2> QED
    BY <2>1, <2>2, <2>3 DEF IInv, TypeOK
<1>2. entries' = [entries EXCEPT ![i] = entry] /\ entries \in [Cells -> Entry]
  BY DEF IInv, TypeOK
<1>3. NoOverlap'
  BY DEF IInv, NoOverlap
<1>4. HeldMarked'
  <2> SUFFICES ASSUME NEW b \in Blocks, NEW k \in Blocks, Abstract!Covers(b, k)
               PROVE  entries'[k] = MarkOf(b, owned[b], k)
    BY DEF HeldMarked, Abstract!Covers, MarkOf
  <2>1. entries[k] = MarkOf(b, owned[b], k)
    BY DEF IInv, HeldMarked
  <2>2. k # i
    BY <1>0, ChosenUnused DEF Abstract!Unused, Abstract!Blocks, Blocks
  <2> QED
    BY <1>2, <2>1, <2>2 DEF Blocks, Cells
<1>5. MarksAccounted'
  BY <1>0, <1>2 DEF IInv, MarksAccounted, Abstract!Covers, Blocks, Cells
<1>6. MarkInv'
  <2>1. /\ i' = i + 1 /\ i + 1 <= bs + total /\ bs <= i + 1
        /\ UNCHANGED <<owned, pc, total, bs>> /\ pc = "mark"
    BY <1>0 DEF Blocks, Cells
  <2>2. \A k \in Blocks : bs <= k /\ k < i + 1 => entries'[k] = MarkOf(bs, total, k)
    BY <1>0, <1>2 DEF IInv, MarkInv, Blocks, Cells
  <2>3. i + 1 < bs + total => entry' = MarkOf(bs, total, i + 1)
    <3> SUFFICES ASSUME i + 1 < bs + total
                 PROVE  MarkAfter(i, bs + total - 1) = MarkOf(bs, total, i + 1)
      OBVIOUS
    <3> DEFINE end == bs + total - 1
    <3>1. i + 1 # bs /\ (i # end - 1 <=> i + 1 < bs + total - 1)
      BY <1>0 DEF Blocks, Cells
    <3>2. CASE i + 1 < bs + total - 1
      <4>1. MarkAfter(i, end) = {"TAKEN"} \cup {"HAS_NEXT"}
        BY <3>1, <3>2 DEF MarkAfter
      <4>2. MarkOf(bs, total, i + 1) = {"TAKEN"} \cup {"HAS_NEXT"}
        BY <3>1, <3>2 DEF MarkOf
      <4> QED
        BY <4>1, <4>2
    <3>3. CASE ~(i + 1 < bs + total - 1)
      <4>1. MarkAfter(i, end) = {"TAKEN"}
        BY <3>1, <3>3 DEF MarkAfter
      <4>2. MarkOf(bs, total, i + 1) = {"TAKEN"}
        BY <3>1, <3>3 DEF MarkOf
      <4> QED
        BY <4>1, <4>2
    <3> QED
      BY <3>2, <3>3
  <2>4. Abstract!Unused(bs)' /\ Abstract!Chosen(bs, total)'
    BY <1>0, <2>1
    DEF IInv, MarkInv, Abstract!Unused, Abstract!Chosen, Abstract!FirstFit,
        Abstract!Fits, Abstract!TailRun, Abstract!NothingFits, Abstract!Covers
  <2> QED
    BY <1>0, <2>1, <2>2, <2>3, <2>4 DEF MarkInv, MarkOf
<1>7. ScanInv' /\ FreeInv'
  BY DEF ScanInv, FreeInv
<1> QED
  BY <1>1, <1>3, <1>4, <1>5, <1>6, <1>7 DEF IInv

\* The grant is recorded when all its blocks are marked.
LEMMA MallocReturnStep ==
  ASSUME IInv, MallocReturn
  PROVE  IInv'
<1> USE HeapAssumption DEF MallocReturn
<1>0. /\ total \in Nat /\ bs \in Blocks /\ i = bs + total
      /\ owned \in [Blocks -> Nat]
      /\ owned' = [owned EXCEPT ![bs] = total] /\ owned[bs] = 0
  BY DEF IInv, TypeOK, MarkInv, Abstract!Unused, Abstract!Covers,
         Abstract!Blocks, Blocks
<1>1. ASSUME NEW k \in Blocks, bs <= k, k < bs + total
      PROVE  Abstract!Unused(k)
  <2>1. total > 0
    BY <1>0, <1>1 DEF Blocks
  <2> QED
    BY <1>0, <1>1, <2>1, ChosenUnused DEF IInv, MarkInv
<1>2. TypeOK'
  BY <1>0 DEF IInv, TypeOK
<1>3. NoOverlap'
  <2> SUFFICES ASSUME NEW b \in Blocks, NEW c \in Blocks, b < c,
                      owned'[b] > 0, owned'[c] > 0
               PROVE  b + owned'[b] <= c
    BY DEF NoOverlap
  <2>1. CASE b = bs
    <3>1. ~Abstract!Unused(c)
      BY <1>0, <2>1 DEF Abstract!Unused, Abstract!Covers, Abstract!Blocks, Blocks
    <3> QED
      BY <1>0, <1>1, <2>1, <3>1 DEF Blocks
  <2>2. CASE c = bs
    BY <1>0, <2>2
    DEF IInv, MarkInv, Abstract!Unused, Abstract!Covers, Abstract!Blocks, Blocks
  <2>3. CASE b # bs /\ c # bs
    BY <1>0, <2>3 DEF IInv, NoOverlap
  <2> QED
    BY <2>1, <2>2, <2>3
<1>4. HeldMarked'
  <2> SUFFICES ASSUME NEW b \in Blocks, NEW k \in Blocks, Abstract!Covers(b, k)'
               PROVE  entries[k] = MarkOf(b, owned'[b], k)
    BY DEF HeldMarked, MarkOf
  <2>1. CASE b = bs
    BY <1>0, <2>1 DEF IInv, MarkInv, Abstract!Covers, Blocks
  <2>2. CASE b # bs
    BY <1>0, <2>2 DEF IInv, HeldMarked, Abstract!Covers
  <2> QED
    BY <2>1, <2>2
<1>5. MarksAccounted'
  <2> SUFFICES ASSUME NEW k \in Blocks, entries[k] # FREE
               PROVE  \E b \in Blocks : Abstract!Covers(b, k)'
    BY DEF MarksAccounted
  <2>1. CASE bs <= k /\ k < i
    BY <1>0, <2>1 DEF Abstract!Covers, Blocks
  <2>2. CASE ~(bs <= k /\ k < i)
    <3>1. PICK b \in Blocks : Abstract!Covers(b, k)
      BY <2>2 DEF IInv, MarksAccounted
    <3>2. b # bs
      BY <1>0, <3>1 DEF Abstract!Covers, Blocks
    <3> QED
      BY <1>0, <3>1, <3>2 DEF Abstract!Covers
  <2> QED
    BY <2>1, <2>2
<1>6. ScanInv' /\ MarkInv' /\ FreeInv'
  BY DEF ScanInv, MarkInv, FreeInv
<1> QED
  BY <1>2, <1>3, <1>4, <1>5, <1>6 DEF IInv

\* heap_free returns when the run's last block has been cleared: block by block
\* the mark says whether another one follows.
LEMMA FreeReturnStep ==
  ASSUME IInv, pc = "free", FreeReturn, UNCHANGED <<total, i, bc, bs, entry>>,
         \A k \in Blocks : entries'[k] = IF k = i THEN FREE ELSE entries[k],
         entries' \in [Cells -> Entry],
         i + 1 = bs + owned[bs] \/ i = Total
  PROVE  IInv'
<1> USE HeapAssumption DEF FreeReturn
<1>0. /\ bs \in Blocks /\ bs <= i /\ i <= Total /\ i < bs + owned[bs] /\ i \in Nat
      /\ owned \in [Blocks -> Nat] /\ owned' = [owned EXCEPT ![bs] = 0]
      /\ \A k \in bs .. i - 1 : entries[k] = FREE
  BY DEF IInv, TypeOK, FreeInv, Blocks
<1>1. TypeOK'
  BY <1>0 DEF IInv, TypeOK
<1>2. NoOverlap'
  BY <1>0 DEF IInv, NoOverlap
<1>3. ASSUME NEW b \in Blocks, NEW k \in Blocks, b # bs, Abstract!Covers(b, k)
      PROVE  ~(bs <= k /\ k < bs + owned[bs])
  BY <1>0, <1>3 DEF IInv, NoOverlap, Abstract!Covers, Blocks
<1>4. HeldMarked'
  <2> SUFFICES ASSUME NEW b \in Blocks, NEW k \in Blocks, Abstract!Covers(b, k)'
               PROVE  entries'[k] = MarkOf(b, owned'[b], k)
    BY DEF HeldMarked, MarkOf
  <2>1. b # bs /\ Abstract!Covers(b, k)
    BY <1>0 DEF Abstract!Covers, Blocks
  <2>2. k # i
    BY <1>0, <1>3, <2>1 DEF Blocks
  <2> QED
    BY <1>0, <2>1, <2>2 DEF IInv, HeldMarked
<1>5. MarksAccounted'
  <2> SUFFICES ASSUME NEW k \in Blocks, entries'[k] # FREE
               PROVE  \E b \in Blocks : Abstract!Covers(b, k)'
    BY DEF MarksAccounted
  <2>1. k # i /\ entries[k] # FREE
    OBVIOUS
  <2>2. PICK b \in Blocks : Abstract!Covers(b, k)
    BY <2>1 DEF IInv, MarksAccounted
  <2>3. b # bs
    BY <1>0, <2>1, <2>2 DEF Abstract!Covers, Blocks
  <2> QED
    BY <1>0, <2>2, <2>3 DEF Abstract!Covers
<1>6. ScanInv' /\ MarkInv' /\ FreeInv'
  BY DEF ScanInv, MarkInv, FreeInv
<1> QED
  BY <1>1, <1>2, <1>4, <1>5, <1>6 DEF IInv

\* A block of the run is cleared, and there is another.
LEMMA FreeBlockStep ==
  ASSUME IInv, FreeBlock
  PROVE  IInv'
<1> USE HeapAssumption DEF FreeBlock
<1>0. /\ pc = "free" /\ i \in Blocks /\ i \in Cells /\ bs \in Blocks /\ bs <= i
      /\ i < bs + owned[bs]
      /\ owned \in [Blocks -> Nat] /\ entries \in [Cells -> Entry]
      /\ entries' = [entries EXCEPT ![i] = FREE]
  BY DEF IInv, TypeOK, FreeInv, Blocks, Cells
<1>1. entries[i] = MarkOf(bs, owned[bs], i)
  BY <1>0 DEF IInv, HeldMarked, Abstract!Covers, Blocks
<1>2. ChainEndsAt(entries[i]) <=> i + 1 = bs + owned[bs]
  <2>1. ChainEndsAt(entries[i]) <=> ~(i < bs + owned[bs] - 1)
    BY <1>1 DEF ChainEndsAt, MarkOf
  <2> QED
    BY <1>0, <2>1 DEF Blocks
<1>3. /\ \A k \in Blocks : entries'[k] = IF k = i THEN FREE ELSE entries[k]
      /\ entries' \in [Cells -> Entry]
  BY <1>0 DEF Blocks, Cells, FREE, Entry
<1>4. CASE ChainEndsAt(entries[i])
  <2>1. FreeReturn /\ UNCHANGED <<total, i, bc, bs, entry>>
    BY <1>4
  <2> QED
    BY <1>0, <1>2, <1>3, <1>4, <2>1, FreeReturnStep
<1>5. CASE ~ChainEndsAt(entries[i])
  <2>1. i' = i + 1 /\ UNCHANGED <<pc, owned, total, bc, bs, entry>>
    BY <1>5
  <2>2. TypeOK'
    BY <1>0, <1>3, <2>1 DEF IInv, TypeOK, Blocks
  <2>3. NoOverlap'
    BY <2>1 DEF IInv, NoOverlap
  <2>4. HeldMarked'
    <3> SUFFICES ASSUME NEW b \in Blocks, NEW k \in Blocks, Abstract!Covers(b, k),
                        ~(b = bs /\ k < i + 1)
                 PROVE  entries'[k] = MarkOf(b, owned[b], k)
      <4>1. pc' = "free" /\ bs' = bs /\ i' = i + 1 /\ owned' = owned
        BY <1>0, <2>1
      <4> QED
        BY <4>1 DEF HeldMarked, Abstract!Covers, MarkOf
    <3>1. b = bs => k > i
      BY <1>0 DEF Blocks
    <3>2. b # bs => k # i
      <4>1. bs \in Blocks /\ owned[bs] > 0 /\ owned[bs] \in Nat /\ owned[b] \in Nat
        BY <1>0 DEF Blocks
      <4>2. owned[b] > 0 /\ b <= k /\ k < b + owned[b] /\ b \in Nat /\ k \in Nat
        BY <4>1 DEF Abstract!Covers, Blocks
      <4>3. (b < bs => b + owned[b] <= bs) /\ (bs < b => bs + owned[bs] <= b)
        BY <4>1, <4>2 DEF IInv, NoOverlap
      <4>4. bs \in Nat /\ i \in Nat /\ bs <= i /\ i < bs + owned[bs]
        BY <1>0 DEF Blocks
      <4> QED
        BY <4>1, <4>2, <4>3, <4>4
    <3>3. k # i /\ ~(b = bs /\ k < i)
      BY <1>0, <3>1, <3>2 DEF Blocks
    <3> QED
      BY <1>0, <1>3, <3>3 DEF IInv, HeldMarked
  <2>5. MarksAccounted'
    BY <1>0, <1>3, <2>1 DEF IInv, MarksAccounted, Abstract!Covers
  <2>6. FreeInv'
    BY <1>0, <1>2, <1>3, <1>5, <2>1 DEF IInv, FreeInv, Blocks
  <2>7. ScanInv' /\ MarkInv'
    BY <1>0, <2>1 DEF ScanInv, MarkInv
  <2> QED
    BY <2>2, <2>3, <2>4, <2>5, <2>6, <2>7 DEF IInv
<1> QED
  BY <1>4, <1>5

\* The last block of a run is cleared.
LEMMA FreeEndStep ==
  ASSUME IInv, FreeEnd
  PROVE  IInv'
<1> USE HeapAssumption DEF FreeEnd
<1>1. /\ pc = "free" /\ FreeReturn /\ UNCHANGED <<entries, total, i, bc, bs, entry>>
      /\ i = Total /\ entries' \in [Cells -> Entry]
  BY DEF IInv, TypeOK
<1>2. \A k \in Blocks : entries'[k] = IF k = i THEN FREE ELSE entries[k]
  BY <1>1 DEF Blocks
<1> QED
  BY <1>1, <1>2, FreeReturnStep

\* Every step keeps the inductive invariant.
LEMMA NextStep ==
  ASSUME IInv, [Next]_vars
  PROVE  IInv'
<1>1. ASSUME NEW size \in Sizes, HeapMalloc(size) PROVE IInv'
  BY <1>1, HeapMallocStep
<1>2. ASSUME NEW b \in Blocks, HeapFree(b) PROVE IInv'
  BY <1>2, HeapFreeStep
<1>3. CASE ScanTaken
  BY <1>3, ScanTakenStep
<1>4. CASE ScanFree
  BY <1>4, ScanFreeStep
<1>5. CASE ScanEnd
  BY <1>5, ScanEndStep
<1>6. CASE MarkBlock
  BY <1>6, MarkBlockStep
<1>7. CASE MallocReturn
  BY <1>7, MallocReturnStep
<1>8. CASE FreeBlock
  BY <1>8, FreeBlockStep
<1>9. CASE FreeEnd
  BY <1>9, FreeEndStep
<1>10. CASE UNCHANGED vars
  <2>1. TypeOK'
    BY <1>10 DEF vars, IInv, TypeOK
  <2>5. NoOverlap'
    BY <1>10 DEF vars, IInv, NoOverlap
  <2>6. HeldMarked'
    BY <1>10 DEF vars, IInv, HeldMarked, MarkOf, Abstract!Covers
  <2>2. MarksAccounted' /\ FreeInv'
    BY <1>10 DEF vars, IInv, MarksAccounted, FreeInv, Abstract!Covers
  <2>3. ScanInv'
    BY <1>10 DEF vars, IInv, ScanInv, Abstract!Unused
  <2>4. MarkInv'
    BY <1>10
    DEF vars, IInv, MarkInv, MarkOf, Abstract!Unused, Abstract!Chosen,
        Abstract!FirstFit, Abstract!Fits, Abstract!TailRun,
        Abstract!NothingFits, Abstract!Covers
  <2> QED
    BY <2>1, <2>2, <2>3, <2>4, <2>5, <2>6 DEF IInv
<1> QED
  BY <1>1, <1>2, <1>3, <1>4, <1>5, <1>6, <1>7, <1>8, <1>9, <1>10
  DEF Next, Call, Step

-----------------------------------------------------------------------------

\* In every state of every call of heap_malloc and heap_free, whatever the size
\* of the heap and of the requests, the inductive invariant holds.
THEOREM InductiveInvariant == Spec => []IInv
<1>1. Init => IInv
  BY InitEstablishes
<1>2. IInv /\ [Next]_vars => IInv'
  BY NextStep
<1> QED
  BY <1>1, <1>2, PTL DEF Spec

\* The heap's variables keep their types; in particular no index leaves the
\* block table by more than the longest request.
THEOREM TypeCorrect == Spec => []TypeOK
<1>1. IInv => TypeOK
  BY DEF IInv
<1> QED
  BY <1>1, InductiveInvariant, PTL

\* No two live pointers of heap_malloc ever cover the same block.
THEOREM GrantsDisjoint == Spec => []NoOverlap
<1>1. IInv => NoOverlap
  BY DEF IInv
<1> QED
  BY <1>1, InductiveInvariant, PTL

\* Between calls the block table describes exactly what is held: a free after
\* any history of calls clears its own run, and no block is lost.
THEOREM TableExact == Spec => []TableMatchesOwners
<1>1. IInv => TableMatchesOwners
  <2> SUFFICES ASSUME IInv, pc = "idle", NEW k \in Blocks
               PROVE  \/ entries[k] = FREE /\ Abstract!Unused(k)
                      \/ \E b \in Blocks : /\ Abstract!Covers(b, k)
                                           /\ entries[k] = MarkOf(b, owned[b], k)
    BY DEF TableMatchesOwners
  <2>1. CASE entries[k] = FREE
    BY <2>1, FreeMeansUnused
  <2>2. CASE entries[k] # FREE
    BY <2>2 DEF IInv, MarksAccounted, HeldMarked
  <2> QED
    BY <2>1, <2>2
<1> QED
  BY <1>1, InductiveInvariant, PTL

\* heap_malloc returns NULL for a request of at least one block only when no run
\* of free blocks is long enough.
THEOREM NullMeansNoRun == Spec => FailsOnlyWhenNothingFits
<1> DEFINE Refuses == pc = "scan" /\ pc' = "idle" /\ total > 0
<1>1. IInv /\ [Next]_vars => [Refuses => Abstract!NothingFits(total)]_vars
  <2> SUFFICES ASSUME IInv, Next, Refuses PROVE Abstract!NothingFits(total)
    OBVIOUS
  <2>1. ScanEnd
    BY DEF Next, Call, Step, HeapMalloc, HeapFree, ScanTaken, ScanFree,
           BeginMark, MarkBlock, MallocReturn, FreeBlock, FreeEnd
  <2> QED
    BY <2>1, ScanEndFitsNothing
<1> QED
  BY <1>1, InductiveInvariant, PTL DEF Spec, FailsOnlyWhenNothingFits

\* Seen from its callers the heap is the abstract block allocator: each call
\* takes effect in one step, malloc's grant is the lowest run that fits or the
\* overlong tail run, and free returns exactly one grant.
THEOREM HeapImplementsAllocator == Spec => ImplementsAllocator
<1>1. Init => Abstract!Init
  BY DEF Init, Abstract!Init, Blocks, Abstract!Blocks
<1>2. ASSUME IInv, [Next]_vars PROVE [Abstract!Next]_owned
  <2> USE HeapAssumption
  <2>0. Blocks = Abstract!Blocks
    BY DEF Blocks, Abstract!Blocks
  <2>1. CASE MallocReturn
    <3>1. /\ bs \in Blocks /\ total \in 0 .. MaxBlocks
          /\ owned' = [owned EXCEPT ![bs] = total]
      BY <2>1, <1>2 DEF IInv, TypeOK, MarkInv, MallocReturn
    <3>2. CASE total = 0
      <4>1. owned[bs] = 0 /\ owned \in [Blocks -> 0 .. MaxBlocks]
        BY <1>2, <2>1, <3>1
        DEF IInv, TypeOK, MarkInv, MallocReturn, Abstract!Unused,
            Abstract!Covers, Abstract!Blocks, Blocks
      <4> QED
        BY <3>1, <3>2, <4>1
    <3>3. CASE total > 0
      <4>1. Abstract!Malloc(bs, total)
        BY <1>2, <2>1, <3>1, <3>3
        DEF IInv, MarkInv, MallocReturn, Abstract!Malloc
      <4> QED
        BY <2>0, <3>1, <3>3, <4>1 DEF Abstract!Next
    <3> QED
      BY <3>1, <3>2, <3>3
  <2>2. CASE pc = "free" /\ FreeReturn
    <3>1. bs \in Blocks /\ owned[bs] > 0
      BY <1>2, <2>2 DEF IInv, TypeOK, FreeInv, Blocks
    <3> QED
      BY <2>0, <2>2, <3>1 DEF FreeReturn, Abstract!Next, Abstract!Free
  <2>3. CASE UNCHANGED owned
    BY <2>3
  <2> QED
    BY <1>2, <2>1, <2>2, <2>3
    DEF Next, Call, Step, vars, HeapMalloc, HeapFree, ScanTaken, ScanFree,
        ScanEnd, MarkBlock, FreeBlock, FreeEnd
<1> QED
  BY <1>1, <1>2, InductiveInvariant, PTL DEF Spec, ImplementsAllocator, Abstract!Spec
=============================================================================
