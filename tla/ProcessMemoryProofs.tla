------------------------- MODULE ProcessMemoryProofs -------------------------
(***************************************************************************)
(* Proofs about the memory of user processes, for every number of          *)
(* processes and slots, every heap size, every set of request sizes and    *)
(* every set of program files.                                             *)
(***************************************************************************)
EXTENDS ProcessMemory, FiniteSetTheorems, WellFoundedInduction, TLAPS

(* The inductive invariant *)

\* No two runs share a block, and none of them a page behind the heap.
NoOverlap == \A a, b \in Blocks : \A k \in Int : Covers(a, k) /\ Covers(b, k) => a = b

\* A run that is held has one holder, a block where none starts has none.
Accounted == \A b \in Blocks :
               IF granted[b] = 0 THEN Holders(b) = {}
                                 ELSE \E h : Holders(b) = {h}

\* A slot in use points to a block, and remembers the size of the run that starts
\* there, unless it came from a request of no bytes.
SlotsHold == \A p \in Procs : \A k \in Live(p) : \E b \in Blocks :
               slots[p][k].ptr = PageOf(b) /\ slots[p][k].size \in {0, granted[b]}

\* A process has a file in memory, then a stack; only then it runs or allocates.
Loaded ==
  /\ \A p \in Procs : file[p] = None => image[p] = -1 /\ stack[p] = -1
  /\ \A p \in Procs : file[p] # None =>
       image[p] \in Blocks /\ granted[image[p]] = file[p].blocks
  /\ \A p \in Procs : stack[p] # -1 => granted[stack[p]] = StackBlocks
  /\ starting # None => file[starting] # None
  /\ current # None => stack[current] # -1

\* Until its memory is mapped it holds nothing and can write nowhere.
ReadsOnly == \A p \in Procs : stack[p] = -1 =>
               Live(p) = {} /\ \A v \in Pages : ~Writable(p, v)

\* e is the entry that the headers of the process's file give page v.
HeaderEntry(p, v, e) ==
  /\ file[p] # None /\ v \in DOMAIN file[p].pages /\ file[p].pages[v].w
  /\ e.frame = PageOf(image[p]) + file[p].pages[v].at

\* The page borrowed by a copy is one block, and what the copy puts back gives
\* write access only where the headers do.
Borrowed == copying # None =>
  /\ stack[copying.proc] # -1
  /\ \E b \in Blocks : copying.page = PageOf(b) /\ granted[b] = 1
  /\ {"P", "W"} \subseteq copying.old.flags =>
       HeaderEntry(copying.proc, copying.page, copying.old)

OnStack(p, v) ==
  /\ stack[p] # -1 /\ v \in Stack .. Stack + StackBlocks - 1
  /\ dir[p][v].frame = PageOf(stack[p]) + (v - Stack)

AtHome(p, v) == \/ ImagePage(p, v) \/ OnStack(p, v)
                \/ AllocatedPage(p, v) \/ CopyPage(p, v)

WritesAtHome == \A p \in Procs : \A v \in Pages : Writable(p, v) => AtHome(p, v)

Kept(p) == /\ \A v \in 0 .. Low - 1 : "P" \in dir[p][v].flags
           /\ \A v \in 0 .. Stack - 1 : dir[p][v].frame = v
           /\ \A k \in Live(p) : \A v \in Covered(p, k) : Writable(p, v)

MappingsKept == \A p \in Procs \ nullFreed : Kept(p)

Good == /\ MTypeOK /\ NoOverlap /\ Accounted /\ SlotsHold /\ Loaded /\ ReadsOnly
        /\ Borrowed /\ WritesAtHome /\ MappingsKept

IInv == MTypeOK /\ (mode # "stray" => Good)

-----------------------------------------------------------------------------
(* Sets of naturals and the abstract allocator *)

\* Min of a bounded set of naturals is its least element.
LEMMA MinOfNaturals ==
  ASSUME NEW n \in Nat, NEW S \in SUBSET (0 .. n), S # {}
  PROVE  Min(S) \in S /\ \A y \in S : Min(S) <= y
<1> DEFINE Below == {0 .. x : x \in S}
<1>1. IsFiniteSet(0 .. n)
  BY FS_Interval
<1>2. FiniteSubsetsOf(0 .. n) = SUBSET (0 .. n)
  BY <1>1, FS_FiniteSubsetsOfFinite
<1>3. IsWellFoundedOn(StrictSubsetOrdering(0 .. n), SUBSET (0 .. n))
  BY <1>2, FS_StrictSubsetOrderingWellFounded
<1>4. Below \subseteq SUBSET (0 .. n) /\ Below # {}
  <2>1. \A x \in S : 0 .. x \in SUBSET (0 .. n)
    OBVIOUS
  <2>2. \E x \in S : 0 .. x \in Below
    OBVIOUS
  <2> QED
    BY <2>1, <2>2
<1>5. \E X \in Below : \A Y \in Below : <<Y, X>> \notin StrictSubsetOrdering(0 .. n)
  <2> HIDE DEF Below
  <2> QED BY <1>3, <1>4, WFMin
<1>6. PICK x \in S : \A Y \in Below : <<Y, 0 .. x>> \notin StrictSubsetOrdering(0 .. n)
  BY <1>5
<1>7. \A y \in S : x <= y
  <2> SUFFICES ASSUME NEW y \in S, y < x PROVE FALSE
    OBVIOUS
  <2>1. 0 .. y \subseteq 0 .. x /\ x \notin 0 .. y /\ x \in 0 .. x
    OBVIOUS
  <2>2. 0 .. y \in Below /\ 0 .. y \in SUBSET (0 .. n) /\ 0 .. x \in SUBSET (0 .. n)
    OBVIOUS
  <2>3. <<0 .. y, 0 .. x>> \in StrictSubsetOrdering(0 .. n)
    <3> HIDE DEF Below
    <3> QED BY <2>1, <2>2 DEF StrictSubsetOrdering
  <2> QED
    BY <2>2, <2>3, <1>6
<1> QED
  BY <1>7 DEF Min

\* The slot that process_malloc takes is one that is not in use.
LEMMA FreeIndexFree ==
  ASSUME MemoryAssumption, NEW p \in Procs, FreeIndexes(p) # {}
  PROVE  /\ process_find_free_allocation_index(p) \in Index
         /\ slots[p][process_find_free_allocation_index(p)].ptr = NULL
<1>1. Slots - 1 \in Nat /\ FreeIndexes(p) \subseteq 0 .. Slots - 1
  BY DEF MemoryAssumption, FreeIndexes, Index
<1>2. Min(FreeIndexes(p)) \in FreeIndexes(p)
  BY <1>1, MinOfNaturals
<1> QED
  BY <1>2 DEF process_find_free_allocation_index, FreeIndexes

\* A run is granted only where nobody holds anything, up to its last page.
LEMMA MallocFresh ==
  ASSUME granted \in [Blocks -> 0 .. MaxBlocks], NEW b \in Blocks,
         NEW n \in 0 .. MaxBlocks, Offered(b, n)
  PROVE  /\ granted[b] = 0
         /\ \A a \in Blocks : \A k \in b .. b + n - 1 : ~Covers(a, k)
<1> USE AllocatorAssumption DEF AllocatorAssumption, Blocks
<1>1. Unused(b)
  BY DEF Offered, Chosen, FirstFit, Fits, TailRun
<1>2. granted[b] = 0
  BY <1>1 DEF Unused, Covers
<1>3. \A a \in Blocks : \A k \in b .. b + n - 1 : ~Covers(a, k)
  <2>1. CASE Fits(b, n)
    BY <2>1 DEF Fits, Unused
  <2>2. CASE TailRun(b)
    <3> SUFFICES ASSUME NEW a \in Blocks, NEW k \in b .. b + n - 1, Covers(a, k)
                 PROVE  FALSE
      OBVIOUS
    <3>1. CASE a < b
      BY <3>1, <1>1 DEF Unused, Covers
    <3>2. CASE a >= b
      <4>1. Unused(a)
        BY <3>2, <2>2 DEF TailRun
      <4> QED
        BY <4>1 DEF Unused, Covers
    <3> QED
      BY <3>1, <3>2
  <2> QED
    BY <2>1, <2>2 DEF Offered, Chosen, FirstFit
<1> QED
  BY <1>2, <1>3

\* A grant keeps the runs apart, and so does giving one back.
LEMMA MallocKeepsApart ==
  ASSUME granted \in [Blocks -> 0 .. MaxBlocks], NoOverlap, NEW b \in Blocks,
         NEW n \in 0 .. MaxBlocks, kzalloc(b, n)
  PROVE  NoOverlap'
<1> USE AllocatorAssumption DEF AllocatorAssumption
<1>1. granted' = [granted EXCEPT ![b] = n] /\ Offered(b, n)
  BY DEF kzalloc
<1>2. \A a \in Blocks : \A k \in b .. b + n - 1 : ~Covers(a, k)
  BY <1>1, MallocFresh
<1>3. \A a \in Blocks \ {b} : \A k \in Int : Covers(a, k)' <=> Covers(a, k)
  BY <1>1 DEF Covers
<1>4. \A k \in Int : Covers(b, k)' => k \in b .. b + n - 1
  BY <1>1 DEF Covers, Blocks
<1> QED
  BY <1>2, <1>3, <1>4 DEF NoOverlap

\* kfree of the start of a run, or of a block not in use, takes back that run alone.
LEMMA KfreeOwn ==
  ASSUME granted \in [Blocks -> 0 .. MaxBlocks], NoOverlap, NEW b \in Blocks,
         granted[b] # 0 \/ Unused(b), kfree(PageOf(b))
  PROVE  granted' = [granted EXCEPT ![b] = 0]
<1> USE AllocatorAssumption, MemoryAssumption
    DEF AllocatorAssumption, MemoryAssumption, Blocks
<1>1. PageOf(b) # NULL /\ BlockOf(PageOf(b)) = b
  BY DEF PageOf, BlockOf, NULL
<1>2. \A a \in Blocks : Covers(a, b) => a = b
  BY DEF NoOverlap, Unused, Covers
<1> QED
  BY <1>1, <1>2 DEF kfree

\* Freeing a grant keeps the others apart.
LEMMA FreeKeepsApart ==
  ASSUME granted \in [Blocks -> 0 .. MaxBlocks], NoOverlap, NEW b \in Blocks,
         granted' = [granted EXCEPT ![b] = 0]
  PROVE  NoOverlap'
<1>1. \A a \in Blocks : \A k \in Int : Covers(a, k)' => Covers(a, k)
  BY DEF Covers, Blocks
<1> QED
  BY <1>1 DEF NoOverlap

\* A new run gets the one holder that the step adds.
LEMMA GrantAccounted ==
  ASSUME Accounted, granted \in [Blocks -> 0 .. MaxBlocks], NEW b \in Blocks,
         NEW n \in 1 .. MaxBlocks, NEW h,
         granted[b] = 0, granted' = [granted EXCEPT ![b] = n],
         \A c \in Blocks \ {b} : Holders(c)' = Holders(c),
         Holders(b)' = Holders(b) \cup {h}
  PROVE  Accounted'
<1> SUFFICES ASSUME NEW c \in Blocks
             PROVE  IF granted'[c] = 0 THEN Holders(c)' = {} ELSE \E g : Holders(c)' = {g}
  BY DEF Accounted
<1>1. CASE c = b
  <2>1. Holders(b) = {}
    BY DEF Accounted
  <2>2. Holders(b)' = {h}
    BY <2>1
  <2>3. granted'[b] # 0
    OBVIOUS
  <2> QED
    BY <1>1, <2>2, <2>3
<1>2. CASE c # b
  <2>1. Holders(c)' = Holders(c)
    BY <1>2
  <2>2. granted'[c] = granted[c]
    BY <1>2
  <2> QED
    BY <2>1, <2>2 DEF Accounted
<1> QED
  BY <1>1, <1>2

\* A run given back loses the one holder it had.
LEMMA ReleaseAccounted ==
  ASSUME Accounted, granted \in [Blocks -> 0 .. MaxBlocks], NEW b \in Blocks, NEW h,
         h \in Holders(b), granted' = [granted EXCEPT ![b] = 0],
         \A c \in Blocks \ {b} : Holders(c)' = Holders(c),
         Holders(b)' = Holders(b) \ {h}
  PROVE  Accounted'
<1> SUFFICES ASSUME NEW c \in Blocks
             PROVE  IF granted'[c] = 0 THEN Holders(c)' = {} ELSE \E g : Holders(c)' = {g}
  BY DEF Accounted
<1>1. CASE c = b
  <2>1. Holders(b) = {h}
    BY DEF Accounted
  <2>2. Holders(b)' = {}
    BY <2>1
  <2>3. granted'[b] = 0
    OBVIOUS
  <2> QED
    BY <1>1, <2>2, <2>3
<1>2. CASE c # b
  <2>1. Holders(c)' = Holders(c)
    BY <1>2
  <2>2. granted'[c] = granted[c]
    BY <1>2
  <2> QED
    BY <2>1, <2>2 DEF Accounted
<1> QED
  BY <1>1, <1>2

-----------------------------------------------------------------------------
(* What the invariant says of runs and their holders *)

\* The stack and the program lie below the heap, and all of it in memory.
LEMMA Layout ==
  /\ Stack \in Nat \ {0} /\ Program \in Nat /\ Program < Low /\ Low \in Nat
  /\ Stack + StackBlocks < Program
  /\ \A b \in Blocks : /\ PageOf(b) \in Pages /\ PageOf(b) \in Nat /\ PageOf(b) >= Low
                       /\ PageOf(b) # NULL /\ BlockOf(PageOf(b)) = b
  /\ \A a, b \in Blocks : PageOf(a) = PageOf(b) => a = b
  /\ Blocks \subseteq Int /\ Pages \subseteq Int /\ 0 .. Low - 1 \subseteq Pages
  /\ None \notin Procs
<1> USE AllocatorAssumption, MemoryAssumption, NoneAssumption
    DEF AllocatorAssumption, MemoryAssumption, NoneAssumption
<1>1. StackBlocks \in Nat \ {0} /\ Program \in Nat /\ Program < Low /\ StackBlocks + 2 <= Program
  OBVIOUS
<1> QED
  BY <1>1 DEF Stack, PageOf, BlockOf, NULL, Blocks, Pages

\* A run that somebody holds is granted, and has no second holder.
LEMMA HolderIsOnly ==
  ASSUME Good, NEW b \in Blocks, NEW h \in Holders(b)
  PROVE  granted[b] # 0 /\ Holders(b) = {h}
BY DEF Good, Accounted

\* The holders of a run, one kind after the other.
LEMMA HoldersAre ==
  ASSUME NEW b \in Blocks, NEW h
  PROVE  h \in Holders(b) <=>
           \/ \E p \in Procs : \E k \in Index :
                h = <<p, k>> /\ slots[p][k].ptr = PageOf(b) /\ slots[p][k].size > 0
           \/ \E p \in Procs : h = <<p, Slots>> /\ image[p] = b
           \/ \E p \in Procs : h = <<p, Slots + 1>> /\ stack[p] = b
           \/ h = <<None, 0>> /\ b \in kernel
           \/ h = <<None, 1>> /\ copying # None /\ copying.page = PageOf(b)
BY DEF Holders

\* No two holders have the same name.
LEMMA HoldersDiffer ==
  /\ \A p, q \in Procs : \A k \in Index : <<p, k>> # <<q, Slots>> /\ <<p, k>> # <<q, Slots + 1>>
  /\ \A p, q \in Procs : <<p, Slots>> # <<q, Slots + 1>>
  /\ \A p \in Procs : \A k : <<p, k>> # <<None, 0>> /\ <<p, k>> # <<None, 1>>
BY MemoryAssumption, NoneAssumption DEF MemoryAssumption, NoneAssumption, Index

\* A slot that remembers a size has the run at its pointer.
LEMMA SlotHolds ==
  ASSUME Good, NEW p \in Procs, NEW k \in Live(p), slots[p][k].size # 0,
         NEW b \in Blocks, slots[p][k].ptr = PageOf(b)
  PROVE  granted[b] # 0 /\ Holders(b) = {<<p, k>>} /\ slots[p][k].size = granted[b]
<1>1. k \in Index /\ slots[p][k].size > 0
  BY DEF Good, MTypeOK, Live
<1>2. <<p, k>> \in Holders(b)
  BY <1>1, HoldersAre
<1>3. PICK c \in Blocks : slots[p][k].ptr = PageOf(c) /\ slots[p][k].size \in {0, granted[c]}
  BY DEF Good, SlotsHold
<1>4. b = c
  BY <1>3, Layout
<1> QED
  BY <1>2, <1>3, <1>4, HolderIsOnly

\* No two slots have the same run.
LEMMA OneSlot ==
  ASSUME Good, NEW p \in Procs, NEW k \in Live(p), slots[p][k].size # 0,
         NEW q \in Procs, NEW j \in Live(q), slots[q][j].size # 0,
         slots[p][k].ptr = slots[q][j].ptr
  PROVE  p = q /\ k = j
<1>1. PICK b \in Blocks : slots[p][k].ptr = PageOf(b)
  BY DEF Good, SlotsHold
<1>2. Holders(b) = {<<p, k>>}
  BY <1>1, SlotHolds
<1>3. slots[q][j].ptr = PageOf(b)
  BY <1>1
<1>4. Holders(b) = {<<q, j>>}
  BY <1>3, SlotHolds
<1>5. <<p, k>> = <<q, j>>
  BY <1>2, <1>4
<1> QED
  BY <1>5

\* What a loaded process, a mapped one and a copy hold.
LEMMA ImageHolds ==
  ASSUME Good, NEW p \in Procs, file[p] # None
  PROVE  /\ image[p] \in Blocks /\ granted[image[p]] = file[p].blocks
         /\ Holders(image[p]) = {<<p, Slots>>}
<1>1. image[p] \in Blocks /\ granted[image[p]] = file[p].blocks
  BY DEF Good, Loaded
<1>2. <<p, Slots>> \in Holders(image[p])
  BY <1>1, HoldersAre
<1> QED
  BY <1>1, <1>2, HolderIsOnly

LEMMA StackHolds ==
  ASSUME Good, NEW p \in Procs, stack[p] # -1
  PROVE  /\ stack[p] \in Blocks /\ granted[stack[p]] = StackBlocks /\ file[p] # None
         /\ Holders(stack[p]) = {<<p, Slots + 1>>}
<1>1. stack[p] \in Blocks /\ granted[stack[p]] = StackBlocks /\ file[p] # None
  BY AllocatorAssumption DEF Good, MTypeOK, Loaded, Blocks, AllocatorAssumption
<1>2. <<p, Slots + 1>> \in Holders(stack[p])
  BY <1>1, HoldersAre
<1> QED
  BY <1>1, <1>2, HolderIsOnly

LEMMA CopyHolds ==
  ASSUME Good, copying # None
  PROVE  \E b \in Blocks : copying.page = PageOf(b) /\ granted[b] = 1
                           /\ Holders(b) = {<<None, 1>>}
<1>1. PICK b \in Blocks : copying.page = PageOf(b) /\ granted[b] = 1
  BY DEF Good, Borrowed
<1>2. <<None, 1>> \in Holders(b)
  BY <1>1, HoldersAre
<1> QED
  BY <1>1, <1>2, HolderIsOnly

\* A page that a slot covers lies in the run that the slot has, and in memory.
LEMMA CoveredByRun ==
  ASSUME Good, NEW p \in Procs, NEW k \in Live(p), NEW v \in Covered(p, k)
  PROVE  /\ v \in Pages /\ v >= Low /\ BlockOf(v) \in Int /\ slots[p][k].size # 0
         /\ \E b \in Blocks : slots[p][k].ptr = PageOf(b) /\ Covers(b, BlockOf(v))
         /\ \A b \in Blocks : Covers(b, BlockOf(v)) => slots[p][k].ptr = PageOf(b)
<1> USE AllocatorAssumption, MemoryAssumption
    DEF AllocatorAssumption, MemoryAssumption
<1>1. PICK c \in Blocks : slots[p][k].ptr = PageOf(c) /\ slots[p][k].size \in {0, granted[c]}
  BY DEF Good, SlotsHold
<1>2. granted[c] \in 0 .. MaxBlocks
  BY DEF Good, MTypeOK
<1>3. slots[p][k].size = granted[c] /\ slots[p][k].size # 0
  BY <1>1, <1>2 DEF Covered, PageOf, Blocks
<1>4. v \in Int /\ PageOf(c) <= v /\ v < PageOf(c) + granted[c]
  BY <1>1, <1>2, <1>3 DEF Covered, PageOf, Blocks
<1>5. BlockOf(v) \in Int /\ Covers(c, BlockOf(v)) /\ v \in Pages /\ v >= Low
  BY <1>2, <1>4 DEF Covers, BlockOf, PageOf, Blocks, Pages
<1>6. NoOverlap
  BY DEF Good
<1> QED
  BY <1>1, <1>3, <1>5, <1>6 DEF NoOverlap

\* After a grant everybody still knows the size of what he holds.
LEMMA GrantKnown ==
  ASSUME Good, NEW b \in Blocks, NEW n, granted[b] = 0, granted' = [granted EXCEPT ![b] = n]
  PROVE  /\ \A p \in Procs : \A k \in Live(p) : \E c \in Blocks :
              slots[p][k].ptr = PageOf(c) /\ slots[p][k].size \in {0, granted'[c]}
         /\ \A p \in Procs : file[p] # None => granted'[image[p]] = granted[image[p]]
         /\ \A p \in Procs : stack[p] # -1 => granted'[stack[p]] = granted[stack[p]]
         /\ \A c \in Blocks : granted[c] # 0 => granted'[c] = granted[c]
<1>1. \A c \in Blocks \ {b} : granted'[c] = granted[c]
  BY DEF Good, MTypeOK
<1>2. ASSUME NEW p \in Procs, NEW k \in Live(p)
      PROVE  \E c \in Blocks :
               slots[p][k].ptr = PageOf(c) /\ slots[p][k].size \in {0, granted'[c]}
  <2>1. PICK c \in Blocks : slots[p][k].ptr = PageOf(c) /\ slots[p][k].size \in {0, granted[c]}
    BY DEF Good, SlotsHold
  <2> QED
    BY <1>1, <2>1
<1>3. \A p \in Procs : file[p] # None => image[p] \in Blocks /\ granted[image[p]] # 0
  BY ImageHolds, HolderIsOnly
<1>4. \A p \in Procs : stack[p] # -1 => stack[p] \in Blocks /\ granted[stack[p]] # 0
  BY StackHolds, HolderIsOnly
<1> QED
  BY <1>1, <1>2, <1>3, <1>4

\* Everybody but h knows the size of what he holds, now that the grants are g.
StillKnown(h, g) ==
  /\ \A p \in Procs : \A k \in Live(p) : <<p, k>> # h => \E c \in Blocks :
       slots[p][k].ptr = PageOf(c) /\ slots[p][k].size \in {0, g[c]}
  /\ \A p \in Procs : file[p] # None /\ <<p, Slots>> # h => g[image[p]] = granted[image[p]]
  /\ \A p \in Procs : stack[p] # -1 /\ <<p, Slots + 1>> # h => g[stack[p]] = granted[stack[p]]

\* And when a run is given back, everybody but its holder.
LEMMA ReleaseKnown ==
  ASSUME Good, NEW b \in Blocks, NEW h, Holders(b) \subseteq {h},
         granted' = [granted EXCEPT ![b] = 0]
  PROVE  StillKnown(h, granted')
<1>1. \A c \in Blocks \ {b} : granted'[c] = granted[c]
  BY DEF Good, MTypeOK
<1>2. ASSUME NEW p \in Procs, NEW k \in Live(p), <<p, k>> # h
      PROVE  \E c \in Blocks :
               slots[p][k].ptr = PageOf(c) /\ slots[p][k].size \in {0, granted'[c]}
  <2>1. PICK c \in Blocks : slots[p][k].ptr = PageOf(c) /\ slots[p][k].size \in {0, granted[c]}
    BY DEF Good, SlotsHold
  <2>2. CASE slots[p][k].size = 0
    BY <2>1, <2>2
  <2>3. CASE slots[p][k].size # 0
    <3>1. Holders(c) = {<<p, k>>}
      BY <2>1, <2>3, SlotHolds
    <3>2. c # b
      BY <1>2, <3>1
    <3> QED
      BY <1>1, <2>1, <3>2
  <2> QED
    BY <2>2, <2>3
<1>3. \A p \in Procs : file[p] # None /\ <<p, Slots>> # h => image[p] \in Blocks \ {b}
  BY ImageHolds
<1>4. \A p \in Procs : stack[p] # -1 /\ <<p, Slots + 1>> # h => stack[p] \in Blocks \ {b}
  BY StackHolds
<1> QED
  BY <1>1, <1>2, <1>3, <1>4 DEF StillKnown

\* A step that leaves a process's memory alone leaves its page tables right.
LEMMA UntouchedProcess ==
  ASSUME NEW q \in Procs, dir'[q] = dir[q], slots'[q] = slots[q], file'[q] = file[q],
         image'[q] = image[q], stack'[q] = stack[q],
         \/ copying' = copying
         \/ /\ copying # None => copying.proc # q
            /\ copying' # None => copying'.proc # q
  PROVE  /\ Live(q)' = Live(q) /\ Kept(q)' = Kept(q)
         /\ \A v \in Pages : Writable(q, v)' = Writable(q, v)
         /\ \A v \in Pages : AtHome(q, v)' = AtHome(q, v)
<1>1. Live(q)' = Live(q) /\ \A k : Covered(q, k)' = Covered(q, k)
  BY DEF Live, Covered
<1>2. \A v : Writable(q, v)' = Writable(q, v)
  BY DEF Writable
<1>3. Kept(q)' = Kept(q)
  BY <1>1, <1>2 DEF Kept
<1>4. ASSUME NEW v \in Pages
      PROVE /\ ImagePage(q, v)' = ImagePage(q, v) /\ OnStack(q, v)' = OnStack(q, v)
            /\ AllocatedPage(q, v)' = AllocatedPage(q, v) /\ CopyPage(q, v)' = CopyPage(q, v)
  <2>1. ImagePage(q, v)' = ImagePage(q, v) /\ OnStack(q, v)' = OnStack(q, v)
    BY DEF ImagePage, OnStack
  <2>2. AllocatedPage(q, v)' = AllocatedPage(q, v)
    BY <1>1 DEF AllocatedPage
  <2>3. CopyPage(q, v)' = CopyPage(q, v)
    BY DEF CopyPage
  <2> QED
    BY <2>1, <2>2, <2>3
<1> QED
  BY <1>1, <1>2, <1>3, <1>4 DEF AtHome

-----------------------------------------------------------------------------
(* Every step preserves the invariant *)

\* At boot only block 0 is held, by the kernel, and every process reads all.
LEMMA InitEstablishes == MInit => IInv
<1> SUFFICES ASSUME MInit PROVE Good
  BY DEF IInv, Good
<1> USE AllocatorAssumption, MemoryAssumption, NoneAssumption
    DEF AllocatorAssumption, MemoryAssumption, NoneAssumption, MInit, Init
<1>1. MTypeOK
  <2>1. /\ granted \in [Blocks -> 0 .. MaxBlocks] /\ kernel \subseteq Blocks
        /\ file \in [Procs -> Files \cup {None}] /\ image \in [Procs -> -1 .. Total - 1]
        /\ stack \in [Procs -> -1 .. Total - 1]
    BY DEF Blocks
  <2>2. slots \in [Procs -> [Index -> [ptr : Pages, size : 0 .. MaxBlocks]]]
    BY DEF FreshSlots, Pages, NULL
  <2>3. paging_new_4gb \in [Pages -> Entry]
    BY DEF paging_new_4gb, Entry, Flags
  <2> QED
    BY <2>1, <2>2, <2>3 DEF MTypeOK
<1>2. NoOverlap
  BY DEF NoOverlap, Covers, Blocks
<1>3. \A p \in Procs : Live(p) = {} /\ \A v \in Pages : ~Writable(p, v)
  BY DEF Live, FreshSlots, Writable, paging_new_4gb
<1>4. Accounted
  <2>1. ASSUME NEW b \in Blocks, NEW h PROVE h \in Holders(b) <=> h = <<None, 0>> /\ b = 0
    <3>1. \A p \in Procs : \A k \in Index : slots[p][k].size = 0
      BY DEF FreshSlots
    <3>2. \A p \in Procs : image[p] # b /\ stack[p] # b
      BY DEF Blocks
    <3> HIDE DEF MInit, Init
    <3>3. copying = None /\ kernel = {0}
      BY DEF MInit
    <3> QED
      BY <3>1, <3>2, <3>3, HoldersAre
  <2>2. \A b \in Blocks : granted[b] = IF b = 0 THEN 1 ELSE 0
    OBVIOUS
  <2>3. ASSUME NEW b \in Blocks, granted[b] = 0 PROVE Holders(b) = {}
    BY <2>1, <2>2, <2>3
  <2>4. ASSUME NEW b \in Blocks, granted[b] # 0 PROVE \E h : Holders(b) = {h}
    <3>1. b = 0
      BY <2>2, <2>4
    <3>2. Holders(b) = {<<None, 0>>}
      BY <2>1, <3>1
    <3> QED
      BY <3>2
  <2> QED
    BY <2>3, <2>4 DEF Accounted
<1>5. SlotsHold /\ ReadsOnly
  BY <1>3 DEF SlotsHold, ReadsOnly
<1>6. Loaded /\ Borrowed
  BY DEF Loaded, Borrowed
<1>7. WritesAtHome
  BY <1>3 DEF WritesAtHome
<1>8. MappingsKept
  <2>1. Stack - 1 < Low /\ Stack \in Nat /\ 0 .. Low - 1 \subseteq Pages
    BY Layout
  <2>2. ASSUME NEW p \in Procs, NEW v \in Pages
        PROVE  dir[p][v].frame = v /\ "P" \in dir[p][v].flags
    <3>1. dir[p][v] = [frame |-> v, flags |-> {"P", "U"}]
      BY DEF paging_new_4gb
    <3> QED
      BY <3>1
  <2> HIDE DEF MInit, Init, MemoryAssumption, NoneAssumption
  <2>3. ASSUME NEW p \in Procs PROVE Kept(p)
    <3>1. \A v \in 0 .. Low - 1 : "P" \in dir[p][v].flags
      BY <2>1, <2>2
    <3>2. \A v \in 0 .. Stack - 1 : v \in 0 .. Low - 1
      BY <2>1, Layout
    <3>3. \A v \in 0 .. Stack - 1 : dir[p][v].frame = v
      BY <2>1, <2>2, <3>2
    <3> QED
      BY <1>3, <3>1, <3>3 DEF Kept
  <2> QED
    BY <2>3 DEF MappingsKept
<1> QED
  BY <1>1, <1>2, <1>4, <1>5, <1>6, <1>7, <1>8 DEF Good

\* process_malloc, for the running process or for one being started: the run it
\* is granted lies in no other, so mapping it disturbs nobody's pages.
LEMMA ProcessMallocKeeps ==
  ASSUME Good, NEW p \in Procs, NEW n \in 0 .. MaxBlocks, process_malloc(p, n),
         stack[p] # -1, UNCHANGED <<file, image, stack, copying, kernel, nullFreed, mode>>,
         UNCHANGED <<current, starting>>
  PROVE  Good'
<1>1. PICK i \in Index : /\ i = process_find_free_allocation_index(p)
                         /\ slots[p][i].ptr = NULL
  BY FreeIndexFree, MemoryAssumption DEF process_malloc
<1>2. PICK b \in Blocks :
        /\ kzalloc(b, n)
        /\ slots' = [slots EXCEPT ![p][i] = [ptr |-> PageOf(b), size |-> n]]
        /\ dir' = [dir EXCEPT ![p] = paging_map_to(@, PageOf(b), n, USER_DATA)]
  BY <1>1 DEF process_malloc
<1>3. /\ slots \in [Procs -> [Index -> [ptr : Pages, size : 0 .. MaxBlocks]]]
      /\ dir \in [Procs -> [Pages -> Entry]]
      /\ granted \in [Blocks -> 0 .. MaxBlocks]
  BY DEF Good, MTypeOK
<1>30. /\ PageOf(b) \in Pages /\ PageOf(b) \in Nat /\ PageOf(b) >= Low /\ PageOf(b) # NULL
       /\ \A c \in Blocks : PageOf(c) # NULL /\ (PageOf(c) = PageOf(b) => c = b)
       /\ Low \in Nat /\ Stack \in Nat /\ Stack < Low /\ Pages \subseteq Int
       /\ 0 .. Low - 1 \subseteq Pages
  BY Layout, MemoryAssumption DEF MemoryAssumption
<1>4. granted' = [granted EXCEPT ![b] = n] /\ granted'[b] = n
  BY <1>2, <1>3 DEF kzalloc
<1>5. granted[b] = 0 /\ \A a \in Blocks : \A k \in b .. b + n - 1 : ~Covers(a, k)
  BY <1>2, <1>3, MallocFresh DEF kzalloc
<1>6. /\ slots'[p][i] = [ptr |-> PageOf(b), size |-> n]
      /\ \A k \in Index \ {i} : slots'[p][k] = slots[p][k]
      /\ \A q \in Procs \ {p} : slots'[q] = slots[q] /\ dir'[q] = dir[q]
      /\ dir'[p] = paging_map_to(dir[p], PageOf(b), n, USER_DATA)
  BY <1>2, <1>3
<1>7. /\ \A v \in Pages : PageOf(b) <= v /\ v < PageOf(b) + n =>
           dir'[p][v].frame = v /\ dir'[p][v].flags = USER_DATA
      /\ \A v \in Pages : ~(PageOf(b) <= v /\ v < PageOf(b) + n) => dir'[p][v] = dir[p][v]
  <2> SUFFICES ASSUME NEW v \in Pages
               PROVE  /\ PageOf(b) <= v /\ v < PageOf(b) + n =>
                           dir'[p][v].frame = v /\ dir'[p][v].flags = USER_DATA
                      /\ ~(PageOf(b) <= v /\ v < PageOf(b) + n) => dir'[p][v] = dir[p][v]
    OBVIOUS
  <2>1. dir'[p][v] = IF PageOf(b) <= v /\ v < PageOf(b) + n
                       THEN [frame |-> v, flags |-> USER_DATA] ELSE dir[p][v]
    BY <1>6 DEF paging_map_to
  <2> QED
    BY <2>1
<1>8. slots'[p][i].ptr = PageOf(b) /\ slots'[p][i].size = n
  BY <1>6
<1>9. MTypeOK'
  <2>1. granted' \in [Blocks -> 0 .. MaxBlocks]
    BY <1>3, <1>4
  <2>2. [ptr |-> PageOf(b), size |-> n] \in [ptr : Pages, size : 0 .. MaxBlocks]
    BY <1>30
  <2>3. slots' \in [Procs -> [Index -> [ptr : Pages, size : 0 .. MaxBlocks]]]
    BY <1>2, <1>3, <2>2
  <2>4. dir'[p] \in [Pages -> Entry]
    BY <1>3, <1>6 DEF paging_map_to, USER_DATA, Entry, Flags
  <2>5. dir' \in [Procs -> [Pages -> Entry]]
    BY <1>2, <1>3, <2>4
  <2> QED
    BY <2>1, <2>3, <2>5 DEF Good, MTypeOK
<1>10. NoOverlap'
  BY <1>2, <1>3, MallocKeepsApart DEF Good
<1>11. Accounted'
  <2>1. ASSUME NEW c \in Blocks, NEW h
        PROVE  h \in Holders(c)' <=> h \in Holders(c) \/ (c = b /\ h = <<p, i>> /\ n > 0)
    <3>1. \A q \in Procs : \A k \in Index :
            slots'[q][k].ptr = PageOf(c) /\ slots'[q][k].size > 0
              <=> \/ slots[q][k].ptr = PageOf(c) /\ slots[q][k].size > 0
                  \/ c = b /\ q = p /\ k = i /\ n > 0
      <4> SUFFICES ASSUME NEW q \in Procs, NEW k \in Index
                   PROVE  slots'[q][k].ptr = PageOf(c) /\ slots'[q][k].size > 0
                            <=> \/ slots[q][k].ptr = PageOf(c) /\ slots[q][k].size > 0
                                \/ c = b /\ q = p /\ k = i /\ n > 0
        OBVIOUS
      <4>1. CASE q = p /\ k = i
        BY <1>1, <1>8, <1>30, <4>1
      <4>2. CASE ~(q = p /\ k = i)
        BY <1>6, <4>2
      <4> QED
        BY <4>1, <4>2
    <3> QED
      BY <3>1 DEF Holders
  <2>2. \A c \in Blocks : n = 0 \/ c # b => Holders(c)' = Holders(c)
    <3> SUFFICES ASSUME NEW c \in Blocks, n = 0 \/ c # b PROVE Holders(c)' = Holders(c)
      OBVIOUS
    <3>1. \A h : h \in Holders(c)' <=> h \in Holders(c)
      BY <2>1
    <3> QED
      BY ONLY <3>1
  <2>3. CASE n = 0
    <3>1. granted' = granted
      BY <1>3, <1>4, <1>5, <2>3
    <3> QED
      BY <2>2, <2>3, <3>1 DEF Good, Accounted
  <2>4. CASE n # 0
    <3>1. n \in 1 .. MaxBlocks /\ n > 0
      BY <2>4
    <3>2. Accounted
      BY DEF Good
    <3>3. PICK h : h = <<p, i>>
      OBVIOUS
    <3>4. Holders(b)' = Holders(b) \cup {h}
      BY <2>1, <3>1, <3>3
    <3>5. \A c \in Blocks \ {b} : Holders(c)' = Holders(c)
      BY <2>2
    <3> QED
      BY <1>3, <1>4, <1>5, <3>1, <3>2, <3>4, <3>5, GrantAccounted
  <2> QED
    BY <2>3, <2>4
<1>12. Live(p)' = Live(p) \cup {i} /\ i \notin Live(p)
  BY <1>1, <1>6, <1>8, <1>30 DEF Live
<1>13. \A k \in Live(p) : slots'[p][k] = slots[p][k] /\ Covered(p, k)' = Covered(p, k)
  BY <1>6, <1>12 DEF Live, Covered
<1>14. \A q \in Procs \ {p} :
         /\ Live(q)' = Live(q) /\ Kept(q)' = Kept(q)
         /\ \A v \in Pages : Writable(q, v)' = Writable(q, v) /\ AtHome(q, v)' = AtHome(q, v)
  BY <1>6, UntouchedProcess
<1>15. SlotsHold'
  <2> SUFFICES ASSUME NEW q \in Procs, NEW k \in Live(q)'
               PROVE  \E c \in Blocks :
                        slots'[q][k].ptr = PageOf(c) /\ slots'[q][k].size \in {0, granted'[c]}
    BY DEF SlotsHold
  <2>1. CASE q = p /\ k = i
    BY <1>4, <1>8, <2>1
  <2>2. CASE ~(q = p /\ k = i)
    <3>1. k \in Live(q) /\ slots'[q][k] = slots[q][k]
      BY <1>6, <1>12, <1>13, <1>14, <2>2
    <3>2. PICK c \in Blocks :
                 slots[q][k].ptr = PageOf(c) /\ slots[q][k].size \in {0, granted'[c]}
      <4>1. \A r \in Procs : \A j \in Live(r) : \E c \in Blocks :
              slots[r][j].ptr = PageOf(c) /\ slots[r][j].size \in {0, granted'[c]}
        BY <1>4, <1>5, GrantKnown
      <4> QED
        BY <3>1, <4>1
    <3> QED
      BY <3>1, <3>2
  <2> QED
    BY <2>1, <2>2
<1>16. Loaded' /\ ReadsOnly'
  <2>1. Loaded'
    <3>1. /\ \A q \in Procs : file[q] # None => granted'[image[q]] = granted[image[q]]
          /\ \A q \in Procs : stack[q] # -1 => granted'[stack[q]] = granted[stack[q]]
      BY <1>4, <1>5, GrantKnown
    <3> QED
      BY <3>1 DEF Good, Loaded
  <2>2. ReadsOnly'
    BY <1>14 DEF Good, ReadsOnly
  <2> QED
    BY <2>1, <2>2
<1>17. Borrowed'
  <2>1. \A c \in Blocks : granted[c] = 1 => granted'[c] = 1
    BY <1>3, <1>4, <1>5
  <2> QED
    BY <2>1 DEF Good, Borrowed, HeaderEntry
<1>18. WritesAtHome'
  <2> SUFFICES ASSUME NEW v \in Pages, Writable(p, v)' PROVE AtHome(p, v)'
    BY <1>14 DEF Good, WritesAtHome
  <2>1. CASE PageOf(b) <= v /\ v < PageOf(b) + n
    <3>1. v \in Covered(p, i)' /\ dir'[p][v].frame = v
      <4>1. dir'[p][v].frame = v
        BY <1>7, <2>1
      <4>2. v \in PageOf(b) .. PageOf(b) + n - 1
        BY <1>30, <2>1
      <4> QED
        BY <1>8, <4>1, <4>2 DEF Covered
    <3> QED
      BY <1>12, <3>1 DEF AtHome, AllocatedPage
  <2>2. CASE ~(PageOf(b) <= v /\ v < PageOf(b) + n)
    <3>1. dir'[p][v] = dir[p][v]
      BY <1>7, <2>2
    <3>2. AtHome(p, v)
      BY <3>1 DEF Good, WritesAtHome, Writable
    <3>3. AllocatedPage(p, v) => AllocatedPage(p, v)'
      BY <1>12, <1>13, <3>1 DEF AllocatedPage
    <3> QED
      BY <3>1, <3>2, <3>3 DEF AtHome, ImagePage, OnStack, CopyPage
  <2> QED
    BY <2>1, <2>2
<1>19. MappingsKept'
  <2> SUFFICES ASSUME p \notin nullFreed PROVE Kept(p)'
    BY <1>14 DEF Good, MappingsKept
  <2>1. Kept(p)
    BY DEF Good, MappingsKept
  <2>2. \A v \in 0 .. Low - 1 : dir'[p][v] = dir[p][v]
    BY <1>7, <1>30
  <2>3. \A v \in 0 .. Stack - 1 : v \in 0 .. Low - 1
    BY <1>30
  <2>4. ASSUME NEW k \in Live(p)', NEW v \in Covered(p, k)' PROVE Writable(p, v)'
    <3>1. CASE k = i
      <4>1. v \in Pages /\ PageOf(b) <= v /\ v < PageOf(b) + n
        <5>1. v \in Int /\ PageOf(b) <= v /\ v < PageOf(b) + n
          BY <1>8, <1>30, <2>4, <3>1 DEF Covered
        <5> QED
          BY <1>30, <5>1, AllocatorAssumption DEF PageOf, Blocks, Pages, AllocatorAssumption
      <4> QED
        BY <1>7, <4>1 DEF Writable, USER_DATA
    <3>2. CASE k # i
      <4>1. k \in Live(p) /\ v \in Covered(p, k)
        BY <1>12, <1>13, <2>4, <3>2
      <4>2. Writable(p, v) /\ v \in Pages
        BY <2>1, <4>1, CoveredByRun DEF Kept
      <4>3. dir'[p][v].flags \in {dir[p][v].flags, USER_DATA}
        BY <1>7, <4>2
      <4> QED
        BY <4>2, <4>3 DEF Writable, USER_DATA
    <3> QED
      BY <3>1, <3>2
  <2> QED
    BY <2>1, <2>2, <2>3, <2>4 DEF Kept
<1> QED
  BY <1>9, <1>10, <1>11, <1>15, <1>16, <1>17, <1>18, <1>19 DEF Good

\* Loading a file gives the process a run, and write access to nothing.
LEMMA ProcessLoadKeeps ==
  ASSUME Good, NEW p \in Procs, ProcessLoad(p)
  PROVE  Good'
<1>1. PICK f \in Files, b \in Blocks :
        /\ kzalloc(b, f.blocks)
        /\ file' = [file EXCEPT ![p] = f] /\ image' = [image EXCEPT ![p] = b]
  BY DEF ProcessLoad
<1>2. /\ slots' = [slots EXCEPT ![p] = FreshSlots] /\ starting' = p
      /\ UNCHANGED <<stack, dir, current, copying, kernel, nullFreed, mode>>
      /\ file[p] = None /\ starting = None /\ copying = None
  BY DEF ProcessLoad, Idle
<1>3. PICK n \in 1 .. MaxBlocks : n = f.blocks /\ n \in 0 .. MaxBlocks /\ n # 0
  BY MemoryAssumption, AllocatorAssumption DEF MemoryAssumption, AllocatorAssumption
<1>4. /\ granted \in [Blocks -> 0 .. MaxBlocks] /\ file \in [Procs -> Files \cup {None}]
      /\ slots \in [Procs -> [Index -> [ptr : Pages, size : 0 .. MaxBlocks]]]
      /\ image \in [Procs -> -1 .. Total - 1] /\ stack \in [Procs -> -1 .. Total - 1]
  BY DEF Good, MTypeOK
<1>5. granted' = [granted EXCEPT ![b] = n] /\ granted'[b] = n
  BY <1>1, <1>3, <1>4 DEF kzalloc
<1>6. granted[b] = 0
  BY <1>1, <1>3, <1>4, MallocFresh DEF kzalloc
<1>7. /\ file'[p] = f /\ image'[p] = b /\ slots'[p] = FreshSlots /\ f # None
      /\ \A q \in Procs \ {p} : file'[q] = file[q] /\ image'[q] = image[q]
                                /\ slots'[q] = slots[q]
  BY <1>1, <1>2, <1>4, NoneAssumption DEF NoneAssumption
<1>8. image[p] = -1 /\ stack[p] = -1 /\ Live(p) = {} /\ \A v \in Pages : ~Writable(p, v)
  BY <1>2 DEF Good, Loaded, ReadsOnly
<1>9. Live(p)' = {} /\ \A v \in Pages : ~Writable(p, v)'
  BY <1>2, <1>7, <1>8 DEF Live, FreshSlots, Writable
<1>10. \A q \in Procs \ {p} :
         /\ Live(q)' = Live(q) /\ Kept(q)' = Kept(q)
         /\ \A v \in Pages : Writable(q, v)' = Writable(q, v) /\ AtHome(q, v)' = AtHome(q, v)
  BY <1>2, <1>7, UntouchedProcess
<1>11. MTypeOK'
  <2>1. granted' \in [Blocks -> 0 .. MaxBlocks] /\ file' \in [Procs -> Files \cup {None}]
    BY <1>1, <1>4, <1>5
  <2>2. image' \in [Procs -> -1 .. Total - 1]
    BY <1>1, <1>4, AllocatorAssumption DEF Blocks, AllocatorAssumption
  <2>3. FreshSlots \in [Index -> [ptr : Pages, size : 0 .. MaxBlocks]]
    BY AllocatorAssumption, MemoryAssumption
    DEF FreshSlots, NULL, Pages, AllocatorAssumption, MemoryAssumption
  <2>4. slots' \in [Procs -> [Index -> [ptr : Pages, size : 0 .. MaxBlocks]]]
    BY <1>2, <1>4, <2>3
  <2> QED
    BY <1>2, <2>1, <2>2, <2>4 DEF Good, MTypeOK
<1>12. NoOverlap'
  BY <1>1, <1>3, <1>4, MallocKeepsApart DEF Good
<1>13. Accounted'
  <2>1. \A c \in Blocks : \A q \in Procs : \A k \in Index :
          slots'[q][k].ptr = PageOf(c) /\ slots'[q][k].size > 0
            <=> slots[q][k].ptr = PageOf(c) /\ slots[q][k].size > 0
    <3> SUFFICES ASSUME NEW c \in Blocks, NEW q \in Procs, NEW k \in Index
                 PROVE  slots'[q][k].ptr = PageOf(c) /\ slots'[q][k].size > 0
                          <=> slots[q][k].ptr = PageOf(c) /\ slots[q][k].size > 0
      OBVIOUS
    <3>1. CASE q = p
      <4>1. PageOf(c) # NULL
        BY Layout
      <4>2. slots[p][k].ptr = NULL
        BY <1>8 DEF Live
      <4>3. slots'[p][k].ptr = NULL
        BY <1>7 DEF FreshSlots
      <4> QED
        BY <3>1, <4>1, <4>2, <4>3
    <3>2. CASE q # p
      BY <1>7, <3>2
    <3> QED
      BY <3>1, <3>2
  <2>2. \A c \in Blocks : \A h :
          h \in Holders(c)' <=> h \in Holders(c) \/ (c = b /\ h = <<p, Slots>>)
    <3>1. \A c \in Blocks : \A q \in Procs :
            image'[q] = c <=> image[q] = c \/ (c = b /\ q = p)
      BY <1>7, <1>8, AllocatorAssumption DEF Blocks, AllocatorAssumption
    <3> QED
      BY <1>2, <2>1, <3>1 DEF Holders
  <2>3. ASSUME NEW c \in Blocks \ {b} PROVE Holders(c)' = Holders(c)
    <3>1. \A h : h \in Holders(c)' <=> h \in Holders(c)
      BY <2>2
    <3> QED
      BY ONLY <3>1
  <2>4. PICK h : h = <<p, Slots>>
    OBVIOUS
  <2>5. Holders(b)' = Holders(b) \cup {h}
    BY <2>2, <2>4
  <2>6. Accounted
    BY DEF Good
  <2> QED
    BY <1>4, <1>5, <1>6, <2>3, <2>5, <2>6, GrantAccounted
<1>14. SlotsHold'
  <2> SUFFICES ASSUME NEW q \in Procs, NEW k \in Live(q)'
               PROVE  \E c \in Blocks :
                        slots'[q][k].ptr = PageOf(c) /\ slots'[q][k].size \in {0, granted'[c]}
    BY DEF SlotsHold
  <2>1. k \in Live(q) /\ slots'[q] = slots[q]
    BY <1>7, <1>9, <1>10
  <2>2. \A r \in Procs : \A j \in Live(r) : \E c \in Blocks :
          slots[r][j].ptr = PageOf(c) /\ slots[r][j].size \in {0, granted'[c]}
    BY <1>5, <1>6, GrantKnown
  <2> QED
    BY <2>1, <2>2
<1>15. Loaded' /\ ReadsOnly'
  <2>1. Loaded'
    <3>1. /\ \A q \in Procs : file[q] # None => granted'[image[q]] = granted[image[q]]
          /\ \A q \in Procs : stack[q] # -1 => granted'[stack[q]] = granted[stack[q]]
      BY <1>5, <1>6, GrantKnown
    <3> QED
      BY <1>2, <1>3, <1>5, <1>7, <1>8, <3>1 DEF Good, Loaded
  <2>2. ReadsOnly'
    BY <1>2, <1>9, <1>10 DEF Good, ReadsOnly
  <2> QED
    BY <2>1, <2>2
<1>16. Borrowed'
  BY <1>2 DEF Borrowed
<1>17. WritesAtHome'
  BY <1>9, <1>10 DEF Good, WritesAtHome
<1>18. MappingsKept'
  <2>1. Kept(p) => Kept(p)'
    BY <1>2, <1>9 DEF Kept
  <2> QED
    BY <1>2, <1>10, <2>1 DEF Good, MappingsKept
<1> QED
  BY <1>11, <1>12, <1>13, <1>14, <1>15, <1>16, <1>17, <1>18 DEF Good

\* A load that fails after its file was read leaves the file's run with the kernel.
LEMMA LoadFailsKeeps ==
  ASSUME Good, NEW p \in Procs, LoadFails(p)
  PROVE  Good'
<1>1. /\ kernel' = kernel \cup {image[p]} /\ file' = [file EXCEPT ![p] = None]
      /\ image' = [image EXCEPT ![p] = -1] /\ starting' = None
      /\ UNCHANGED <<granted, stack, slots, dir, current, copying, nullFreed>>
      /\ mode' \in {mode, "panic"}
      /\ starting = p /\ stack[p] = -1 /\ p # None /\ p \in Procs
  BY Layout DEF LoadFails, Loading
<1>2. PICK b \in Blocks : b = image[p] /\ granted[b] # 0 /\ Holders(b) = {<<p, Slots>>}
  <2>1. file[p] # None
    BY <1>1 DEF Good, Loaded
  <2> QED
    BY <2>1, ImageHolds, HolderIsOnly
<1>3. /\ file \in [Procs -> Files \cup {None}] /\ image \in [Procs -> -1 .. Total - 1]
      /\ kernel \subseteq Blocks
  BY DEF Good, MTypeOK
<1>4. /\ file'[p] = None /\ image'[p] = -1
      /\ \A q \in Procs \ {p} : file'[q] = file[q] /\ image'[q] = image[q]
  BY <1>1, <1>3
<1>5. /\ Live(p) = {} /\ Live(p)' = {}
      /\ \A v \in Pages : ~Writable(p, v) /\ ~Writable(p, v)'
  BY <1>1 DEF Good, ReadsOnly, Live, Writable
<1>6. \A q \in Procs \ {p} :
        /\ Live(q)' = Live(q) /\ Kept(q)' = Kept(q)
        /\ \A v \in Pages : Writable(q, v)' = Writable(q, v) /\ AtHome(q, v)' = AtHome(q, v)
  BY <1>1, <1>4, UntouchedProcess
<1>7. MTypeOK'
  <2>1. file' \in [Procs -> Files \cup {None}] /\ image' \in [Procs -> -1 .. Total - 1]
    BY <1>1, <1>3, AllocatorAssumption DEF AllocatorAssumption
  <2>2. kernel' \subseteq Blocks /\ mode' \in {"run", "panic", "stray"}
    BY <1>1, <1>2, <1>3 DEF Good, MTypeOK
  <2> QED
    BY <1>1, <2>1, <2>2 DEF Good, MTypeOK
<1>8. NoOverlap'
  BY <1>1 DEF Good, NoOverlap, Covers
<1>9. Accounted'
  <2>1. ASSUME NEW c \in Blocks \ {b} PROVE Holders(c)' = Holders(c)
    <3>1. {q \in Procs : image'[q] = c} = {q \in Procs : image[q] = c}
      BY <1>2, <1>4, AllocatorAssumption DEF Blocks, AllocatorAssumption
    <3>2. c \in kernel' <=> c \in kernel
      BY <1>1, <1>2
    <3> QED
      BY <1>1, <3>1, <3>2 DEF Holders
  <2>2. Holders(b)' = {<<None, 0>>}
    <3>1. \A h : h \in Holders(b)' <=> h = <<None, 0>> \/ (h \in Holders(b) /\ h # <<p, Slots>>)
      <4>1. \A q \in Procs : image'[q] = b <=> image[q] = b /\ q # p
        BY <1>2, <1>4, AllocatorAssumption DEF Blocks, AllocatorAssumption
      <4>2. b \in kernel'
        BY <1>1, <1>2
      <4> QED
        BY <1>1, <4>1, <4>2, HoldersDiffer DEF Holders
    <3> QED
      BY <1>2, <3>1
  <2> QED
    BY <1>1, <1>2, <2>1, <2>2 DEF Good, Accounted
<1>10. SlotsHold' /\ ReadsOnly'
  <2>1. SlotsHold'
    BY <1>1, <1>5, <1>6 DEF Good, SlotsHold
  <2>2. ReadsOnly'
    BY <1>1, <1>5, <1>6 DEF Good, ReadsOnly
  <2> QED
    BY <2>1, <2>2
<1>11. Loaded'
  BY <1>1, <1>4 DEF Good, Loaded
<1>12. Borrowed'
  BY <1>1, <1>4 DEF Good, MTypeOK, Borrowed, HeaderEntry, Copies
<1>13. WritesAtHome'
  BY <1>5, <1>6 DEF Good, WritesAtHome
<1>14. MappingsKept'
  <2>1. Kept(p) => Kept(p)'
    BY <1>1, <1>5 DEF Kept
  <2> QED
    BY <1>1, <1>6, <2>1 DEF Good, MappingsKept
<1> QED
  BY <1>7, <1>8, <1>9, <1>10, <1>11, <1>12, <1>13, <1>14 DEF Good

\* A switch to the process just mapped, or the failure to give it its arguments,
\* moves control alone: nothing is held or mapped differently.
LEMMA ControlKeeps ==
  ASSUME Good,
         UNCHANGED <<granted, file, image, stack, slots, dir, copying, kernel, nullFreed, mode>>,
         current' = current \/ (current' = starting /\ stack[starting] # -1),
         starting' = None \/ starting' = starting
  PROVE  Good'
<1>1. MTypeOK' /\ Loaded'
  <2>1. MTypeOK'
    BY DEF Good, MTypeOK
  <2>2. Loaded'
    BY DEF Good, Loaded
  <2> QED
    BY <2>1, <2>2
<1>2. \A q \in Procs :
        /\ Live(q)' = Live(q) /\ Kept(q)' = Kept(q)
        /\ \A v \in Pages : Writable(q, v)' = Writable(q, v) /\ AtHome(q, v)' = AtHome(q, v)
  BY UntouchedProcess
<1>3. \A b \in Blocks : Holders(b)' = Holders(b)
  BY DEF Holders
<1>4. NoOverlap' /\ Accounted' /\ Borrowed'
  <2>1. NoOverlap' /\ Accounted'
    BY <1>3 DEF Good, NoOverlap, Covers, Accounted
  <2>2. Borrowed'
    BY DEF Good, Borrowed, HeaderEntry
  <2> QED
    BY <2>1, <2>2
<1>5. SlotsHold' /\ ReadsOnly'
  BY <1>2 DEF Good, SlotsHold, ReadsOnly
<1>6. WritesAtHome' /\ MappingsKept'
  BY <1>2 DEF Good, WritesAtHome, MappingsKept
<1> QED
  BY <1>1, <1>4, <1>5, <1>6 DEF Good

\* Mapping a loaded process gives it write access to its stack and to the pages that
\* its file's headers ask for, and to nothing else.
LEMMA MapMemoryKeeps ==
  ASSUME Good, NEW p \in Procs, MapMemory(p)
  PROVE  Good'
<1>1. PICK s \in Blocks :
        /\ kzalloc(s, StackBlocks)
        /\ stack' = [stack EXCEPT ![p] = s]
        /\ dir' = [dir EXCEPT ![p] = process_map_memory(file[p], image[p], s)]
  BY DEF MapMemory
<1>2. /\ UNCHANGED <<file, image, slots, current, starting, copying, kernel, nullFreed, mode>>
      /\ starting = p /\ stack[p] = -1 /\ file[p] # None
  BY Layout DEF MapMemory, Loading, Good, Loaded
<1>3. PICK n \in 1 .. MaxBlocks : n = StackBlocks /\ n \in 0 .. MaxBlocks /\ n # 0
  BY MemoryAssumption, AllocatorAssumption DEF MemoryAssumption, AllocatorAssumption
<1>4. /\ granted \in [Blocks -> 0 .. MaxBlocks] /\ dir \in [Procs -> [Pages -> Entry]]
      /\ file \in [Procs -> Files \cup {None}] /\ stack \in [Procs -> -1 .. Total - 1]
  BY DEF Good, MTypeOK
<1>5. granted' = [granted EXCEPT ![s] = n] /\ granted'[s] = n
  BY <1>1, <1>3, <1>4 DEF kzalloc
<1>6. granted[s] = 0
  BY <1>1, <1>3, <1>4, MallocFresh DEF kzalloc
<1>7. /\ stack'[p] = s /\ stack'[p] # -1
      /\ dir'[p] = process_map_memory(file[p], image[p], s)
      /\ \A q \in Procs \ {p} : stack'[q] = stack[q] /\ dir'[q] = dir[q]
  BY <1>1, <1>4, AllocatorAssumption DEF Blocks, AllocatorAssumption
<1>8. image[p] \in Blocks /\ file[p] \in Files
  BY <1>2, <1>4, ImageHolds
<1>9. Live(p) = {} /\ Live(p)' = {}
  BY <1>2 DEF Good, ReadsOnly, Live
<1>10. \A v \in Pages :
         /\ v \in Stack .. Stack + StackBlocks - 1 =>
              /\ dir'[p][v].frame = PageOf(s) + (v - Stack)
              /\ dir'[p][v].flags = USER_DATA
         /\ v \notin Stack .. Stack + StackBlocks - 1 /\ v \in DOMAIN file[p].pages =>
              /\ dir'[p][v].frame = PageOf(image[p]) + file[p].pages[v].at
              /\ dir'[p][v].flags \in {USER_DATA, {"P", "U"}}
              /\ ~file[p].pages[v].w => dir'[p][v].flags = {"P", "U"}
         /\ v \notin Stack .. Stack + StackBlocks - 1 /\ v \notin DOMAIN file[p].pages =>
              dir'[p][v].frame = v /\ dir'[p][v].flags = {"P", "U"}
  <2> SUFFICES ASSUME NEW v \in Pages
               PROVE
         /\ v \in Stack .. Stack + StackBlocks - 1 =>
              /\ dir'[p][v].frame = PageOf(s) + (v - Stack)
              /\ dir'[p][v].flags = USER_DATA
         /\ v \notin Stack .. Stack + StackBlocks - 1 /\ v \in DOMAIN file[p].pages =>
              /\ dir'[p][v].frame = PageOf(image[p]) + file[p].pages[v].at
              /\ dir'[p][v].flags \in {USER_DATA, {"P", "U"}}
              /\ ~file[p].pages[v].w => dir'[p][v].flags = {"P", "U"}
         /\ v \notin Stack .. Stack + StackBlocks - 1 /\ v \notin DOMAIN file[p].pages =>
              dir'[p][v].frame = v /\ dir'[p][v].flags = {"P", "U"}
    OBVIOUS
  <2>1. CASE v \in Stack .. Stack + StackBlocks - 1
    <3>1. dir'[p][v] = [frame |-> PageOf(s) + (v - Stack), flags |-> USER_DATA]
      BY <1>7, <2>1 DEF process_map_memory
    <3> QED
      BY <2>1, <3>1
  <2>2. CASE v \notin Stack .. Stack + StackBlocks - 1 /\ v \in DOMAIN file[p].pages
    <3>1. dir'[p][v] = [frame |-> PageOf(image[p]) + file[p].pages[v].at,
                        flags |-> IF file[p].pages[v].w THEN USER_DATA ELSE {"P", "U"}]
      BY <1>7, <2>2 DEF process_map_memory
    <3> QED
      BY <2>2, <3>1
  <2>3. CASE v \notin Stack .. Stack + StackBlocks - 1 /\ v \notin DOMAIN file[p].pages
    <3>1. dir'[p][v] = [frame |-> v, flags |-> {"P", "U"}]
      BY <1>7, <2>3 DEF process_map_memory, paging_new_4gb
    <3> QED
      BY <2>3, <3>1
  <2> QED
    BY <2>1, <2>2, <2>3
<1>11. \A v \in DOMAIN file[p].pages :
         v \in Nat /\ v >= Program /\ file[p].pages[v].at \in 0 .. MaxBlocks
  BY <1>8, MemoryAssumption DEF MemoryAssumption
<1>12. \A q \in Procs \ {p} :
         /\ Live(q)' = Live(q) /\ Kept(q)' = Kept(q)
         /\ \A v \in Pages : Writable(q, v)' = Writable(q, v) /\ AtHome(q, v)' = AtHome(q, v)
  BY <1>2, <1>7, UntouchedProcess
<1>13. MTypeOK'
  <2>1. granted' \in [Blocks -> 0 .. MaxBlocks]
    BY <1>4, <1>5
  <2>2. stack' \in [Procs -> -1 .. Total - 1]
    BY <1>1, <1>4, AllocatorAssumption DEF Blocks, AllocatorAssumption
  <2>3. dir'[p] \in [Pages -> Entry]
    <3>1. dir'[p] = [v \in Pages |-> dir'[p][v]]
      BY <1>7 DEF process_map_memory
    <3>2. ASSUME NEW v \in Pages PROVE dir'[p][v] \in Entry
      <4> USE AllocatorAssumption, MemoryAssumption
          DEF AllocatorAssumption, MemoryAssumption
      <4>1. CASE v \in Stack .. Stack + StackBlocks - 1
        <5>1. PageOf(s) + (v - Stack) \in Pages
          <6>1. v - Stack \in 0 .. MaxBlocks - 1
            BY <4>1, Layout
          <6> QED
            BY <6>1 DEF PageOf, Blocks, Pages
        <5>2. dir'[p][v] = [frame |-> PageOf(s) + (v - Stack), flags |-> USER_DATA]
          BY <1>7, <4>1 DEF process_map_memory
        <5> QED
          BY <5>1, <5>2 DEF Entry, Flags, USER_DATA
      <4>2. CASE v \notin Stack .. Stack + StackBlocks - 1 /\ v \in DOMAIN file[p].pages
        <5>1. PageOf(image[p]) + file[p].pages[v].at \in Pages
          BY <1>8, <1>11, <4>2 DEF PageOf, Blocks, Pages
        <5>2. dir'[p][v] = [frame |-> PageOf(image[p]) + file[p].pages[v].at,
                            flags |-> IF file[p].pages[v].w THEN USER_DATA ELSE {"P", "U"}]
          BY <1>7, <4>2 DEF process_map_memory
        <5> QED
          BY <5>1, <5>2 DEF Entry, Flags, USER_DATA
      <4>3. CASE v \notin Stack .. Stack + StackBlocks - 1 /\ v \notin DOMAIN file[p].pages
        <5>1. dir'[p][v] = [frame |-> v, flags |-> {"P", "U"}]
          BY <1>7, <4>3 DEF process_map_memory, paging_new_4gb
        <5> QED
          BY <5>1 DEF Entry, Flags
      <4> QED
        BY <4>1, <4>2, <4>3
    <3> QED
      BY <3>1, <3>2
  <2>4. dir' \in [Procs -> [Pages -> Entry]]
    BY <1>1, <1>4, <2>3
  <2> QED
    BY <1>2, <2>1, <2>2, <2>4 DEF Good, MTypeOK
<1>14. NoOverlap'
  BY <1>1, <1>3, <1>4, MallocKeepsApart DEF Good
<1>15. Accounted'
  <2>1. \A c \in Blocks : \A h :
          h \in Holders(c)' <=> h \in Holders(c) \/ (c = s /\ h = <<p, Slots + 1>>)
    <3>1. \A c \in Blocks : \A q \in Procs :
            stack'[q] = c <=> stack[q] = c \/ (c = s /\ q = p)
      BY <1>2, <1>7, AllocatorAssumption DEF Blocks, AllocatorAssumption
    <3> QED
      BY <1>2, <3>1 DEF Holders
  <2>2. ASSUME NEW c \in Blocks \ {s} PROVE Holders(c)' = Holders(c)
    <3>1. \A h : h \in Holders(c)' <=> h \in Holders(c)
      BY <2>1
    <3> QED
      BY ONLY <3>1
  <2>3. PICK h : h = <<p, Slots + 1>>
    OBVIOUS
  <2>4. Holders(s)' = Holders(s) \cup {h}
    BY <2>1, <2>3
  <2>5. Accounted
    BY DEF Good
  <2> QED
    BY <1>4, <1>5, <1>6, <2>2, <2>4, <2>5, GrantAccounted
<1>16. SlotsHold'
  <2> SUFFICES ASSUME NEW q \in Procs, NEW k \in Live(q)'
               PROVE  \E c \in Blocks :
                        slots[q][k].ptr = PageOf(c) /\ slots[q][k].size \in {0, granted'[c]}
    BY <1>2 DEF SlotsHold
  <2>1. k \in Live(q)
    BY <1>9, <1>12
  <2>2. \A r \in Procs : \A j \in Live(r) : \E c \in Blocks :
          slots[r][j].ptr = PageOf(c) /\ slots[r][j].size \in {0, granted'[c]}
    BY <1>5, <1>6, GrantKnown
  <2> QED
    BY <2>1, <2>2
<1>17. Loaded' /\ ReadsOnly'
  <2>1. Loaded'
    <3>1. /\ \A q \in Procs : file[q] # None => granted'[image[q]] = granted[image[q]]
          /\ \A q \in Procs : stack[q] # -1 => granted'[stack[q]] = granted[stack[q]]
      BY <1>5, <1>6, GrantKnown
    <3>2. ASSUME NEW q \in Procs, file[q] = None PROVE image[q] = -1 /\ stack'[q] = -1
      BY <1>2, <1>7, <3>2 DEF Good, Loaded
    <3>3. ASSUME NEW q \in Procs, stack'[q] # -1 PROVE granted'[stack'[q]] = StackBlocks
      <4>1. CASE q = p
        BY <1>3, <1>5, <1>7, <4>1
      <4>2. CASE q # p
        BY <1>7, <3>1, <3>3, <4>2 DEF Good, Loaded
      <4> QED
        BY <4>1, <4>2
    <3>4. \A q \in Procs : file[q] # None =>
            image[q] \in Blocks /\ granted'[image[q]] = file[q].blocks
      BY <3>1 DEF Good, Loaded
    <3>5. current # None => stack'[current] # -1
      BY <1>4, <1>7 DEF Good, MTypeOK, Loaded
    <3>6. starting # None => file[starting] # None
      BY DEF Good, Loaded
    <3> QED
      BY <1>2, <3>2, <3>3, <3>4, <3>5, <3>6 DEF Loaded
  <2>2. ReadsOnly'
    BY <1>7, <1>12 DEF Good, ReadsOnly
  <2> QED
    BY <2>1, <2>2
<1>18. Borrowed'
  <2>1. \A c \in Blocks : granted[c] = 1 => granted'[c] = 1
    BY <1>4, <1>5, <1>6
  <2>2. copying # None => copying.proc \in Procs /\ copying.proc # p
    BY <1>2 DEF Good, MTypeOK, Borrowed, Copies
  <2> QED
    BY <1>2, <1>7, <2>1, <2>2 DEF Good, Borrowed, HeaderEntry
<1>19. WritesAtHome'
  <2> SUFFICES ASSUME NEW v \in Pages, Writable(p, v)' PROVE AtHome(p, v)'
    BY <1>12 DEF Good, WritesAtHome
  <2>1. CASE v \in Stack .. Stack + StackBlocks - 1
    BY <1>7, <1>10, <2>1 DEF AtHome, OnStack
  <2>2. CASE v \notin Stack .. Stack + StackBlocks - 1 /\ v \in DOMAIN file[p].pages
    <3>1. file[p].pages[v].w
      BY <1>10, <2>2 DEF Writable
    <3> QED
      BY <1>2, <1>10, <2>2, <3>1 DEF AtHome, ImagePage
  <2>3. CASE v \notin Stack .. Stack + StackBlocks - 1 /\ v \notin DOMAIN file[p].pages
    BY <1>10, <2>3 DEF Writable
  <2> QED
    BY <2>1, <2>2, <2>3
<1>20. MappingsKept'
  <2>1. Kept(p)'
    <3>1. \A v \in 0 .. Low - 1 : "P" \in dir'[p][v].flags
      <4> SUFFICES ASSUME NEW v \in 0 .. Low - 1 PROVE "P" \in dir'[p][v].flags
        OBVIOUS
      <4>1. v \in Pages
        BY Layout
      <4>2. dir'[p][v].flags \in {USER_DATA, {"P", "U"}}
        BY <1>10, <4>1
      <4> QED
        BY <4>2 DEF USER_DATA
    <3>2. \A v \in 0 .. Stack - 1 : dir'[p][v].frame = v
      <4> SUFFICES ASSUME NEW v \in 0 .. Stack - 1 PROVE dir'[p][v].frame = v
        OBVIOUS
      <4>1. v \in Pages /\ v < Stack /\ v < Program
        BY Layout, MemoryAssumption DEF MemoryAssumption
      <4>2. v \notin Stack .. Stack + StackBlocks - 1 /\ v \notin DOMAIN file[p].pages
        BY <1>11, <4>1, Layout
      <4> QED
        BY <1>10, <4>1, <4>2
    <3> QED
      BY <1>9, <3>1, <3>2 DEF Kept
  <2> QED
    BY <1>2, <1>12, <2>1 DEF Good, MappingsKept
<1> QED
  BY <1>13, <1>14, <1>15, <1>16, <1>17, <1>18, <1>19, <1>20 DEF Good

\* process_free of NULL: the pages from 0 on lose their flags, and the process
\* is remembered for it.
LEMMA FreeNullKeeps ==
  ASSUME Good, NEW p \in Procs, NEW n \in 0 .. MaxBlocks,
         dir' = [dir EXCEPT ![p] = paging_map_to(@, NULL, n, {})],
         nullFreed' = nullFreed \cup {p},
         UNCHANGED <<granted, file, image, stack, slots, current, starting, copying, kernel, mode>>
  PROVE  Good'
<1>1. dir \in [Procs -> [Pages -> Entry]]
  BY DEF Good, MTypeOK
<1>2. /\ dir'[p] = paging_map_to(dir[p], NULL, n, {})
      /\ \A q \in Procs \ {p} : dir'[q] = dir[q]
  BY <1>1
<1>3. \A q \in Procs : Live(q)' = Live(q)
  BY DEF Live
<1>4. \A q \in Procs \ {p} :
        /\ Kept(q)' = Kept(q)
        /\ \A v \in Pages : Writable(q, v)' = Writable(q, v) /\ AtHome(q, v)' = AtHome(q, v)
  BY <1>2, UntouchedProcess
<1>5. ASSUME NEW v \in Pages, Writable(p, v)' PROVE dir'[p][v] = dir[p][v]
  <2>1. dir'[p][v] = dir[p][v] \/ dir'[p][v] = [frame |-> v, flags |-> {}]
    BY <1>2 DEF paging_map_to
  <2> QED
    BY <1>5, <2>1 DEF Writable
<1>6. MTypeOK'
  <2>1. dir'[p] \in [Pages -> Entry]
    BY <1>1, <1>2 DEF paging_map_to, Entry, Flags
  <2>2. dir' \in [Procs -> [Pages -> Entry]]
    BY <1>1, <2>1
  <2> QED
    BY <2>2 DEF Good, MTypeOK
<1>7. NoOverlap' /\ Accounted' /\ Borrowed' /\ Loaded'
  <2>1. \A b \in Blocks : Holders(b)' = Holders(b)
    BY DEF Holders
  <2>2. NoOverlap' /\ Accounted'
    BY <2>1 DEF Good, NoOverlap, Covers, Accounted
  <2>3. Borrowed'
    BY DEF Good, Borrowed, HeaderEntry
  <2>4. Loaded'
    BY DEF Good, Loaded
  <2> QED
    BY <2>2, <2>3, <2>4
<1>8. SlotsHold' /\ ReadsOnly'
  <2>1. SlotsHold'
    BY <1>3 DEF Good, SlotsHold
  <2>2. \A v \in Pages : Writable(p, v)' => Writable(p, v)
    BY <1>5 DEF Writable
  <2>3. ReadsOnly'
    BY <1>3, <1>4, <2>2 DEF Good, ReadsOnly
  <2> QED
    BY <2>1, <2>3
<1>9. WritesAtHome'
  <2> SUFFICES ASSUME NEW v \in Pages, Writable(p, v)' PROVE AtHome(p, v)'
    BY <1>4 DEF Good, WritesAtHome
  <2>1. dir'[p][v] = dir[p][v]
    BY <1>5
  <2>2. AtHome(p, v)
    BY <2>1 DEF Good, WritesAtHome, Writable
  <2>3. \A k : Covered(p, k)' = Covered(p, k)
    BY DEF Covered
  <2> QED
    BY <1>3, <2>1, <2>2, <2>3 DEF AtHome, ImagePage, OnStack, AllocatedPage, CopyPage
<1>10. MappingsKept'
  BY <1>4 DEF Good, MappingsKept
<1> QED
  BY <1>6, <1>7, <1>8, <1>9, <1>10 DEF Good

\* process_free of a pointer that process_malloc returned: the slot's size is
\* that of the run, so that all its pages are taken away, and no page of another.
LEMMA FreeSlotKeeps ==
  ASSUME Good, NEW p \in Procs, NEW k \in Live(p), FreeSlot(p, k), ~Strays(p, k),
         stack[p] # -1,
         UNCHANGED <<file, image, stack, current, starting, copying, kernel, nullFreed, mode>>
  PROVE  Good'
<1>1. PICK b \in Blocks : slots[p][k].ptr = PageOf(b) /\ slots[p][k].size \in {0, granted[b]}
  BY DEF Good, SlotsHold
<1>2. PICK n : n = slots[p][k].size
  OBVIOUS
<1>3. /\ slots \in [Procs -> [Index -> [ptr : Pages, size : 0 .. MaxBlocks]]]
      /\ dir \in [Procs -> [Pages -> Entry]]
      /\ granted \in [Blocks -> 0 .. MaxBlocks]
      /\ k \in Index /\ n \in 0 .. MaxBlocks /\ n \in {0, granted[b]}
  BY <1>1, <1>2 DEF Good, MTypeOK, Live
<1>4. /\ PageOf(b) \in Nat /\ PageOf(b) >= Low /\ PageOf(b) # NULL /\ BlockOf(PageOf(b)) = b
      /\ \A c \in Blocks : PageOf(c) # NULL /\ (PageOf(c) = PageOf(b) => c = b)
      /\ Pages \subseteq Int /\ 0 .. Low - 1 \subseteq Pages
      /\ Stack \in Nat /\ Stack < Low /\ Low \in Nat
  BY Layout, MemoryAssumption DEF MemoryAssumption
<1>5. granted' = [granted EXCEPT ![b] = 0]
  <2>1. granted[b] # 0 \/ Unused(b)
    BY <1>1, <1>4 DEF Strays
  <2>2. kfree(PageOf(b))
    BY <1>1 DEF FreeSlot
  <2> QED
    BY <1>3, <2>1, <2>2, KfreeOwn DEF Good
<1>6. /\ slots' = [slots EXCEPT ![p][k].ptr = NULL]
      /\ dir' = [dir EXCEPT ![p] = paging_map_to(@, PageOf(b), n, {})]
  BY <1>1, <1>2 DEF FreeSlot
<1>7. /\ slots'[p][k].ptr = NULL
      /\ \A j \in Index \ {k} : slots'[p][j] = slots[p][j]
      /\ \A q \in Procs \ {p} : slots'[q] = slots[q] /\ dir'[q] = dir[q]
      /\ dir'[p] = paging_map_to(dir[p], PageOf(b), n, {})
      /\ granted'[b] = 0
  BY <1>3, <1>5, <1>6
<1>8. \A v \in Pages :
        /\ PageOf(b) <= v /\ v < PageOf(b) + n => dir'[p][v].flags = {}
        /\ ~(PageOf(b) <= v /\ v < PageOf(b) + n) => dir'[p][v] = dir[p][v]
  <2> SUFFICES ASSUME NEW v \in Pages
               PROVE  /\ PageOf(b) <= v /\ v < PageOf(b) + n => dir'[p][v].flags = {}
                      /\ ~(PageOf(b) <= v /\ v < PageOf(b) + n) => dir'[p][v] = dir[p][v]
    OBVIOUS
  <2>1. dir'[p][v] = IF PageOf(b) <= v /\ v < PageOf(b) + n
                       THEN [frame |-> v, flags |-> {}] ELSE dir[p][v]
    BY <1>7 DEF paging_map_to
  <2> QED
    BY <2>1
<1>9. Live(p)' = Live(p) \ {k}
  BY <1>7 DEF Live
<1>10. \A j \in Live(p)' : j \in Live(p) /\ j # k /\ slots'[p][j] = slots[p][j]
                           /\ Covered(p, j)' = Covered(p, j)
  BY <1>7, <1>9 DEF Live, Covered
<1>11. \A q \in Procs \ {p} :
         /\ Live(q)' = Live(q) /\ Kept(q)' = Kept(q)
         /\ \A v \in Pages : Writable(q, v)' = Writable(q, v) /\ AtHome(q, v)' = AtHome(q, v)
  BY <1>7, UntouchedProcess
<1>12. PICK h : h = <<p, k>>
  OBVIOUS
<1>13. Holders(b) \subseteq {h} /\ (n # 0 => h \in Holders(b))
  <2>1. CASE n = 0
    <3>1. granted[b] = 0
      <4>1. Unused(b)
        BY <1>1, <1>2, <1>4, <2>1 DEF Strays
      <4> QED
        BY <1>3, <1>4, <4>1 DEF Unused, Covers, Blocks
    <3> QED
      BY <2>1, <3>1 DEF Good, Accounted
  <2>2. CASE n # 0
    <3>1. Holders(b) = {<<p, k>>}
      BY <1>1, <1>2, <2>2, SlotHolds
    <3> QED
      BY <1>12, <3>1
  <2> QED
    BY <2>1, <2>2
<1>14. MTypeOK'
  <2>1. slots' \in [Procs -> [Index -> [ptr : Pages, size : 0 .. MaxBlocks]]]
    <3>1. NULL \in Pages
      BY AllocatorAssumption, MemoryAssumption
      DEF NULL, Pages, AllocatorAssumption, MemoryAssumption
    <3> QED
      BY <1>3, <1>6, <3>1
  <2>2. dir'[p] \in [Pages -> Entry]
    BY <1>3, <1>7 DEF paging_map_to, Entry, Flags
  <2>3. dir' \in [Procs -> [Pages -> Entry]]
    BY <1>3, <1>6, <2>2
  <2>4. granted' \in [Blocks -> 0 .. MaxBlocks]
    BY <1>3, <1>5, AllocatorAssumption DEF AllocatorAssumption
  <2> QED
    BY <2>1, <2>3, <2>4 DEF Good, MTypeOK
<1>15. NoOverlap'
  BY <1>3, <1>5, FreeKeepsApart DEF Good
<1>16. Accounted'
  <2>1. ASSUME NEW c \in Blocks, NEW g
        PROVE  g \in Holders(c)' <=> g \in Holders(c) /\ ~(c = b /\ g = h /\ n # 0)
    <3>1. ASSUME NEW q \in Procs, NEW j \in Index
          PROVE  slots'[q][j].ptr = PageOf(c) /\ slots'[q][j].size > 0
                   <=> /\ slots[q][j].ptr = PageOf(c) /\ slots[q][j].size > 0
                       /\ ~(c = b /\ q = p /\ j = k /\ n # 0)
      <4>1. CASE q = p /\ j = k
        BY <1>1, <1>2, <1>3, <1>4, <1>7, <4>1
      <4>2. CASE ~(q = p /\ j = k)
        BY <1>7, <4>2
      <4> QED
        BY <4>1, <4>2
    <3> QED
      BY <1>3, <1>12, <3>1, HoldersDiffer DEF Holders
  <2>2. \A c \in Blocks : n = 0 \/ c # b => Holders(c)' = Holders(c)
    <3> SUFFICES ASSUME NEW c \in Blocks, n = 0 \/ c # b PROVE Holders(c)' = Holders(c)
      OBVIOUS
    <3>1. \A g : g \in Holders(c)' <=> g \in Holders(c)
      BY <2>1
    <3> QED
      BY ONLY <3>1
  <2>3. CASE n = 0
    <3>1. granted[b] = 0
      <4>1. Unused(b)
        BY <1>1, <1>2, <1>4, <2>3 DEF Strays
      <4> QED
        BY <1>3, <1>4, <4>1 DEF Unused, Covers, Blocks
    <3>2. granted' = granted
      BY <1>3, <1>5, <3>1
    <3> QED
      BY <2>2, <2>3, <3>2 DEF Good, Accounted
  <2>4. CASE n # 0
    <3>1. Holders(b)' = Holders(b) \ {h}
      BY <2>1, <2>4
    <3>2. \A c \in Blocks \ {b} : Holders(c)' = Holders(c)
      BY <2>2
    <3>3. Accounted /\ h \in Holders(b)
      BY <1>13, <2>4 DEF Good
    <3> QED
      BY <1>3, <1>5, <3>1, <3>2, <3>3, ReleaseAccounted
  <2> QED
    BY <2>3, <2>4
<1>17. /\ \A q \in Procs : \A j \in Live(q) : <<q, j>> # h => \E c \in Blocks :
            slots[q][j].ptr = PageOf(c) /\ slots[q][j].size \in {0, granted'[c]}
       /\ \A q \in Procs : file[q] # None /\ <<q, Slots>> # h =>
            granted'[image[q]] = granted[image[q]]
       /\ \A q \in Procs : stack[q] # -1 /\ <<q, Slots + 1>> # h =>
            granted'[stack[q]] = granted[stack[q]]
  <2>1. StillKnown(h, granted')
    BY <1>5, <1>13, ReleaseKnown
  <2> QED
    BY <2>1 DEF StillKnown
<1>18. SlotsHold'
  <2> SUFFICES ASSUME NEW q \in Procs, NEW j \in Live(q)'
               PROVE  \E c \in Blocks :
                        slots'[q][j].ptr = PageOf(c) /\ slots'[q][j].size \in {0, granted'[c]}
    BY DEF SlotsHold
  <2>1. j \in Live(q) /\ <<q, j>> # h /\ slots'[q][j] = slots[q][j]
    BY <1>7, <1>10, <1>11, <1>12
  <2> QED
    BY <1>17, <2>1
<1>19. Loaded' /\ ReadsOnly'
  <2>1. \A q \in Procs : <<q, Slots>> # h /\ <<q, Slots + 1>> # h
    BY <1>3, <1>12, HoldersDiffer
  <2>2. Loaded'
    BY <1>17, <2>1 DEF Good, Loaded
  <2>3. ReadsOnly'
    BY <1>11 DEF Good, ReadsOnly
  <2> QED
    BY <2>2, <2>3
<1>20. Borrowed'
  <2>1. copying # None => copying.page # PageOf(b) \/ n = 0
    <3> SUFFICES ASSUME copying # None, copying.page = PageOf(b), n # 0 PROVE FALSE
      OBVIOUS
    <3>1. PICK c \in Blocks : copying.page = PageOf(c) /\ Holders(c) = {<<None, 1>>}
      BY CopyHolds
    <3>2. <<None, 1>> \in Holders(b)
      BY <1>4, <3>1
    <3>3. <<None, 1>> = <<p, k>>
      BY <1>12, <1>13, <3>2
    <3> QED
      BY <3>3, HoldersDiffer
  <2>2. n = 0 => granted' = granted
    <3> SUFFICES ASSUME n = 0 PROVE granted' = granted
      OBVIOUS
    <3>1. Unused(b)
      BY <1>1, <1>2, <1>4 DEF Strays
    <3>2. granted[b] = 0
      BY <1>3, <1>4, <3>1 DEF Unused, Covers, Blocks
    <3> QED
      BY <1>3, <1>5, <3>2
  <2>3. \A c \in Blocks \ {b} : granted'[c] = granted[c]
    BY <1>3, <1>5
  <2> QED
    BY <2>1, <2>2, <2>3 DEF Good, Borrowed, HeaderEntry
<1>21. ASSUME NEW v \in Pages
       PROVE  v \in Covered(p, k) <=> PageOf(b) <= v /\ v < PageOf(b) + n
  BY <1>1, <1>2, <1>3, <1>4 DEF Covered
<1>22. WritesAtHome'
  <2> SUFFICES ASSUME NEW v \in Pages, Writable(p, v)' PROVE AtHome(p, v)'
    BY <1>11 DEF Good, WritesAtHome
  <2>1. ~(PageOf(b) <= v /\ v < PageOf(b) + n)
    BY <1>8 DEF Writable
  <2>2. dir'[p][v] = dir[p][v] /\ v \notin Covered(p, k)
    BY <1>8, <1>21, <2>1
  <2>3. AtHome(p, v)
    BY <2>2 DEF Good, WritesAtHome, Writable
  <2>4. AllocatedPage(p, v) => AllocatedPage(p, v)'
    BY <1>9, <1>10, <2>2 DEF AllocatedPage
  <2> QED
    BY <2>2, <2>3, <2>4 DEF AtHome, ImagePage, OnStack, CopyPage
<1>23. MappingsKept'
  <2> SUFFICES ASSUME p \notin nullFreed PROVE Kept(p)'
    BY <1>11 DEF Good, MappingsKept
  <2>1. Kept(p)
    BY DEF Good, MappingsKept
  <2>2. \A v \in 0 .. Low - 1 : dir'[p][v] = dir[p][v]
    BY <1>4, <1>8
  <2>3. \A v \in 0 .. Stack - 1 : v \in 0 .. Low - 1
    BY <1>4
  <2>4. ASSUME NEW j \in Live(p)', NEW v \in Covered(p, j)' PROVE Writable(p, v)'
    <3>1. j \in Live(p) /\ j # k /\ v \in Covered(p, j)
      BY <1>10
    <3>2. v \in Pages /\ slots[p][j].size # 0
      BY <3>1, CoveredByRun
    <3>3. v \notin Covered(p, k)
      <4> SUFFICES ASSUME v \in Covered(p, k) PROVE FALSE
        OBVIOUS
      <4>1. PICK c \in Blocks : slots[p][k].ptr = PageOf(c) /\ Covers(c, BlockOf(v))
        BY CoveredByRun
      <4>2. slots[p][j].ptr = PageOf(c)
        BY <3>1, <4>1, CoveredByRun
      <4>3. slots[p][k].size # 0
        BY CoveredByRun
      <4> QED
        BY <3>1, <3>2, <4>1, <4>2, <4>3, OneSlot
    <3>4. dir'[p][v] = dir[p][v]
      BY <1>8, <1>21, <3>2, <3>3
    <3> QED
      BY <2>1, <3>1, <3>4 DEF Kept, Writable
  <2> QED
    BY <2>1, <2>2, <2>3, <2>4 DEF Kept
<1> QED
  BY <1>14, <1>15, <1>16, <1>18, <1>19, <1>20, <1>22, <1>23 DEF Good

\* copy_string_from_task borrows a page that nobody holds: what its entry was gives
\* write access only if the headers do, so that putting it back later cannot either.
LEMMA CopyBeginKeeps ==
  ASSUME Good, NEW p \in Procs, CopyBegin(p)
  PROVE  Good'
<1>1. PICK b \in Blocks :
        /\ kzalloc(b, 1)
        /\ copying' = [proc |-> p, page |-> PageOf(b), old |-> dir[p][PageOf(b)]]
        /\ dir' = [dir EXCEPT ![p] = paging_map_to(@, PageOf(b), 1, USER_DATA)]
  BY DEF CopyBegin
<1>2. /\ copying = None /\ current = p /\ stack[p] # -1
      /\ UNCHANGED <<file, image, stack, slots, current, starting, kernel, nullFreed, mode>>
  BY Layout DEF CopyBegin, Idle, Good, Loaded
<1>3. /\ dir \in [Procs -> [Pages -> Entry]] /\ granted \in [Blocks -> 0 .. MaxBlocks]
      /\ 1 \in 1 .. MaxBlocks /\ 1 \in 0 .. MaxBlocks
  BY AllocatorAssumption DEF Good, MTypeOK, AllocatorAssumption
<1>4. granted' = [granted EXCEPT ![b] = 1] /\ granted'[b] = 1
  BY <1>1, <1>3 DEF kzalloc
<1>5. granted[b] = 0 /\ \A a \in Blocks : ~Covers(a, b)
  <2>1. b \in b .. b + 1 - 1
    BY Layout
  <2> QED
    BY <1>1, <1>3, <2>1, MallocFresh DEF kzalloc
<1>6. /\ PageOf(b) \in Pages /\ PageOf(b) \in Nat /\ PageOf(b) >= Low /\ BlockOf(PageOf(b)) = b
      /\ \A c \in Blocks : PageOf(c) = PageOf(b) => c = b
      /\ Pages \subseteq Int /\ 0 .. Low - 1 \subseteq Pages
      /\ Stack \in Nat /\ Low \in Nat /\ Stack + StackBlocks < Low
  BY Layout, MemoryAssumption DEF MemoryAssumption
<1>7. /\ \A q \in Procs \ {p} : dir'[q] = dir[q]
      /\ dir'[p] = paging_map_to(dir[p], PageOf(b), 1, USER_DATA)
  BY <1>1, <1>3
<1>8. /\ dir'[p][PageOf(b)].frame = PageOf(b) /\ dir'[p][PageOf(b)].flags = USER_DATA
      /\ \A v \in Pages \ {PageOf(b)} : dir'[p][v] = dir[p][v]
  <2>1. dir'[p][PageOf(b)] = [frame |-> PageOf(b), flags |-> USER_DATA]
    BY <1>6, <1>7 DEF paging_map_to
  <2>2. \A v \in Pages \ {PageOf(b)} : dir'[p][v] = dir[p][v]
    BY <1>6, <1>7 DEF paging_map_to
  <2> QED
    BY <2>1, <2>2
<1>9. /\ copying' # None /\ copying' \in Copies
      /\ copying'.proc = p /\ copying'.page = PageOf(b) /\ copying'.old = dir[p][PageOf(b)]
  <2>1. copying' \in Copies
    BY <1>1, <1>3, <1>6 DEF Copies
  <2> QED
    BY <1>1, <2>1, NoneAssumption DEF NoneAssumption
<1>10. Live(p)' = Live(p) /\ \A k : Covered(p, k)' = Covered(p, k)
  BY <1>2 DEF Live, Covered
<1>11. \A q \in Procs \ {p} :
         /\ Live(q)' = Live(q) /\ Kept(q)' = Kept(q)
         /\ \A v \in Pages : Writable(q, v)' = Writable(q, v) /\ AtHome(q, v)' = AtHome(q, v)
  BY <1>2, <1>7, <1>9, UntouchedProcess
<1>12. MTypeOK'
  <2>1. dir'[p] \in [Pages -> Entry]
    BY <1>3, <1>7 DEF paging_map_to, USER_DATA, Entry, Flags
  <2>2. dir' \in [Procs -> [Pages -> Entry]]
    BY <1>1, <1>3, <2>1
  <2>3. granted' \in [Blocks -> 0 .. MaxBlocks]
    BY <1>3, <1>4
  <2> QED
    BY <1>2, <1>9, <2>2, <2>3 DEF Good, MTypeOK
<1>13. NoOverlap'
  BY <1>1, <1>3, MallocKeepsApart DEF Good
<1>14. Accounted'
  <2>1. \A c \in Blocks \ {b} : Holders(c)' = Holders(c)
    BY <1>2, <1>6, <1>9 DEF Holders
  <2>2. PICK h : h = <<None, 1>>
    OBVIOUS
  <2>3. Holders(b)' = Holders(b) \cup {h}
    BY <1>2, <1>9, <2>2 DEF Holders
  <2>4. Accounted
    BY DEF Good
  <2> QED
    BY <1>3, <1>4, <1>5, <2>1, <2>3, <2>4, GrantAccounted
<1>15. SlotsHold'
  <2>1. \A q \in Procs : \A k \in Live(q) : \E c \in Blocks :
          slots[q][k].ptr = PageOf(c) /\ slots[q][k].size \in {0, granted'[c]}
    BY <1>4, <1>5, GrantKnown
  <2> QED
    BY <1>2, <1>10, <1>11, <2>1 DEF SlotsHold
<1>16. Loaded' /\ ReadsOnly'
  <2>1. Loaded'
    <3>1. /\ \A q \in Procs : file[q] # None => granted'[image[q]] = granted[image[q]]
          /\ \A q \in Procs : stack[q] # -1 => granted'[stack[q]] = granted[stack[q]]
      BY <1>4, <1>5, GrantKnown
    <3> QED
      BY <1>2, <3>1 DEF Good, Loaded
  <2>2. ReadsOnly'
    BY <1>2, <1>11 DEF Good, ReadsOnly
  <2> QED
    BY <2>1, <2>2
<1>17. ~AllocatedPage(p, PageOf(b))
  <2> SUFFICES ASSUME NEW k \in Live(p), PageOf(b) \in Covered(p, k) PROVE FALSE
    BY DEF AllocatedPage
  <2>1. PICK c \in Blocks : Covers(c, BlockOf(PageOf(b)))
    BY CoveredByRun
  <2> QED
    BY <1>5, <1>6, <2>1
<1>18. Borrowed'
  <2>1. ASSUME {"P", "W"} \subseteq dir[p][PageOf(b)].flags
        PROVE  HeaderEntry(p, PageOf(b), dir[p][PageOf(b)])
    <3>1. AtHome(p, PageOf(b))
      BY <1>6, <2>1 DEF Good, WritesAtHome, Writable
    <3>2. ~OnStack(p, PageOf(b))
      BY <1>6, MemoryAssumption DEF OnStack, MemoryAssumption
    <3> QED
      BY <1>2, <1>17, <3>1, <3>2 DEF AtHome, ImagePage, CopyPage, HeaderEntry
  <2> QED
    BY <1>2, <1>4, <1>9, <2>1 DEF Borrowed, HeaderEntry
<1>19. WritesAtHome'
  <2> SUFFICES ASSUME NEW v \in Pages, Writable(p, v)' PROVE AtHome(p, v)'
    BY <1>11 DEF Good, WritesAtHome
  <2>1. CASE v = PageOf(b)
    BY <1>8, <1>9, <2>1 DEF AtHome, CopyPage
  <2>2. CASE v # PageOf(b)
    <3>1. dir'[p][v] = dir[p][v]
      BY <1>8, <2>2
    <3>2. AtHome(p, v)
      BY <3>1 DEF Good, WritesAtHome, Writable
    <3> QED
      BY <1>2, <1>10, <3>1, <3>2 DEF AtHome, ImagePage, OnStack, AllocatedPage, CopyPage
  <2> QED
    BY <2>1, <2>2
<1>20. MappingsKept'
  <2> SUFFICES ASSUME p \notin nullFreed PROVE Kept(p)'
    BY <1>2, <1>11 DEF Good, MappingsKept
  <2>1. Kept(p)
    BY DEF Good, MappingsKept
  <2>2. \A v \in 0 .. Low - 1 : v \in Pages /\ v # PageOf(b)
    BY <1>6
  <2>3. \A v \in 0 .. Stack - 1 : v \in 0 .. Low - 1
    BY <1>6, MemoryAssumption DEF MemoryAssumption
  <2>4. \A v \in 0 .. Low - 1 : dir'[p][v] = dir[p][v]
    BY <1>8, <2>2
  <2>5. ASSUME NEW k \in Live(p), NEW v \in Covered(p, k) PROVE Writable(p, v)'
    <3>1. v \in Pages /\ Writable(p, v)
      BY <2>1, CoveredByRun DEF Kept
    <3>2. dir'[p][v].flags \in {dir[p][v].flags, USER_DATA}
      BY <1>8, <3>1
    <3> QED
      BY <3>1, <3>2 DEF Writable, USER_DATA
  <2> QED
    BY <1>10, <2>1, <2>3, <2>4, <2>5 DEF Kept
<1> QED
  BY <1>12, <1>13, <1>14, <1>15, <1>16, <1>18, <1>19, <1>20 DEF Good

\* The copy is over: its page is given back, and the entry put back is the one
\* of a page that no run in a slot of the process reaches.
LEMMA CopyEndKeeps ==
  ASSUME Good, CopyEnd
  PROVE  Good'
<1>1. copying # None
  BY DEF CopyEnd
<1>2. PICK b \in Blocks :
        copying.page = PageOf(b) /\ granted[b] = 1 /\ Holders(b) = {<<None, 1>>}
  BY <1>1, CopyHolds
<1>3. PICK p \in Procs : p = copying.proc /\ copying.old \in Entry
  BY <1>1 DEF Good, MTypeOK, Copies
<1>4. /\ PageOf(b) \in Pages /\ PageOf(b) >= Low /\ BlockOf(PageOf(b)) = b
      /\ \A c \in Blocks : PageOf(c) = PageOf(b) => c = b
      /\ Pages \subseteq Int /\ 0 .. Low - 1 \subseteq Pages
      /\ Stack \in Nat /\ Low \in Nat /\ Stack < Low
  BY Layout, MemoryAssumption DEF MemoryAssumption
<1>5. /\ dir \in [Procs -> [Pages -> Entry]] /\ granted \in [Blocks -> 0 .. MaxBlocks]
  BY DEF Good, MTypeOK
<1>6. /\ copying' = None /\ dir' = [dir EXCEPT ![p][PageOf(b)] = copying.old]
      /\ UNCHANGED <<file, image, stack, slots, current, starting, kernel, nullFreed, mode>>
  BY <1>2, <1>3 DEF CopyEnd
<1>7. granted' = [granted EXCEPT ![b] = 0]
  <2>1. kfree(PageOf(b)) /\ granted[b] # 0
    BY <1>2 DEF CopyEnd
  <2> QED
    BY <1>5, <2>1, KfreeOwn DEF Good
<1>8. /\ \A q \in Procs \ {p} : dir'[q] = dir[q]
      /\ dir'[p][PageOf(b)] = copying.old
      /\ \A v \in Pages \ {PageOf(b)} : dir'[p][v] = dir[p][v]
  BY <1>4, <1>5, <1>6
<1>9. Live(p)' = Live(p) /\ \A k : Covered(p, k)' = Covered(p, k)
  BY <1>6 DEF Live, Covered
<1>10. \A q \in Procs \ {p} :
         /\ Live(q)' = Live(q) /\ Kept(q)' = Kept(q)
         /\ \A v \in Pages : Writable(q, v)' = Writable(q, v) /\ AtHome(q, v)' = AtHome(q, v)
  BY <1>3, <1>6, <1>8, UntouchedProcess
<1>11. MTypeOK'
  <2>1. dir' \in [Procs -> [Pages -> Entry]]
    BY <1>3, <1>4, <1>5, <1>6
  <2>2. granted' \in [Blocks -> 0 .. MaxBlocks]
    BY <1>5, <1>7, AllocatorAssumption DEF AllocatorAssumption
  <2> QED
    BY <1>6, <2>1, <2>2 DEF Good, MTypeOK
<1>12. NoOverlap'
  BY <1>5, <1>7, FreeKeepsApart DEF Good
<1>13. PICK h : h = <<None, 1>>
  OBVIOUS
<1>14. Accounted'
  <2>1. \A c \in Blocks \ {b} : Holders(c)' = Holders(c)
    BY <1>1, <1>2, <1>4, <1>6 DEF Holders
  <2>2. Holders(b)' = Holders(b) \ {h}
    <3>1. \A g : g \in Holders(b)' <=> g \in Holders(b) /\ g # <<None, 1>>
      BY <1>6, HoldersDiffer DEF Holders
    <3> QED
      BY <1>13, <3>1
  <2>3. Accounted /\ h \in Holders(b)
    BY <1>2, <1>13 DEF Good
  <2> QED
    BY <1>5, <1>7, <2>1, <2>2, <2>3, ReleaseAccounted
<1>15. /\ \A q \in Procs : \A j \in Live(q) : <<q, j>> # h => \E c \in Blocks :
            slots[q][j].ptr = PageOf(c) /\ slots[q][j].size \in {0, granted'[c]}
       /\ \A q \in Procs : file[q] # None /\ <<q, Slots>> # h =>
            granted'[image[q]] = granted[image[q]]
       /\ \A q \in Procs : stack[q] # -1 /\ <<q, Slots + 1>> # h =>
            granted'[stack[q]] = granted[stack[q]]
  <2>1. Holders(b) \subseteq {h}
    BY <1>2, <1>13
  <2>2. StillKnown(h, granted')
    BY <1>7, <2>1, ReleaseKnown
  <2> QED
    BY <2>2 DEF StillKnown
<1>16. \A q \in Procs : \A j : <<q, j>> # h
  BY <1>13, HoldersDiffer
<1>17. SlotsHold'
  BY <1>6, <1>9, <1>10, <1>15, <1>16 DEF SlotsHold
<1>18. Loaded' /\ ReadsOnly' /\ Borrowed'
  <2>1. Loaded'
    BY <1>6, <1>15, <1>16 DEF Good, Loaded
  <2>2. ReadsOnly'
    BY <1>1, <1>3, <1>6, <1>10 DEF Good, ReadsOnly, Borrowed
  <2>3. Borrowed'
    BY <1>6 DEF Borrowed
  <2> QED
    BY <2>1, <2>2, <2>3
<1>19. WritesAtHome'
  <2> SUFFICES ASSUME NEW v \in Pages, Writable(p, v)' PROVE AtHome(p, v)'
    BY <1>10 DEF Good, WritesAtHome
  <2>1. CASE v = PageOf(b)
    <3>1. HeaderEntry(p, v, copying.old)
      BY <1>1, <1>2, <1>3, <1>8, <2>1 DEF Good, Borrowed, Writable
    <3> QED
      BY <1>6, <1>8, <2>1, <3>1 DEF AtHome, ImagePage, HeaderEntry
  <2>2. CASE v # PageOf(b)
    <3>1. dir'[p][v] = dir[p][v]
      BY <1>8, <2>2
    <3>2. AtHome(p, v) /\ ~CopyPage(p, v)
      BY <1>2, <2>2, <3>1 DEF Good, WritesAtHome, Writable, CopyPage
    <3> QED
      BY <1>6, <1>9, <3>1, <3>2 DEF AtHome, ImagePage, OnStack, AllocatedPage
  <2> QED
    BY <2>1, <2>2
<1>20. MappingsKept'
  <2> SUFFICES ASSUME p \notin nullFreed PROVE Kept(p)'
    BY <1>6, <1>10 DEF Good, MappingsKept
  <2>1. Kept(p)
    BY DEF Good, MappingsKept
  <2>2. \A v \in 0 .. Low - 1 : dir'[p][v] = dir[p][v]
    <3>1. \A v \in 0 .. Low - 1 : v \in Pages /\ v # PageOf(b)
      BY <1>4
    <3> QED
      BY <1>8, <3>1
  <2>3. \A v \in 0 .. Stack - 1 : v \in 0 .. Low - 1
    BY <1>4
  <2>4. ASSUME NEW k \in Live(p), NEW v \in Covered(p, k) PROVE Writable(p, v)'
    <3>1. v # PageOf(b)
      <4> SUFFICES ASSUME v = PageOf(b) PROVE FALSE
        OBVIOUS
      <4>1. Covers(b, BlockOf(v))
        BY <1>2, <1>4, Layout DEF Covers
      <4>2. slots[p][k].ptr = PageOf(b) /\ slots[p][k].size # 0
        BY <4>1, CoveredByRun
      <4>3. Holders(b) = {<<p, k>>}
        BY <4>2, SlotHolds
      <4> QED
        BY <1>2, <4>3, HoldersDiffer
    <3>2. v \in Pages /\ Writable(p, v)
      BY <2>1, CoveredByRun DEF Kept
    <3> QED
      BY <1>8, <3>1, <3>2 DEF Writable
  <2> QED
    BY <1>9, <2>1, <2>2, <2>3, <2>4 DEF Kept
<1> QED
  BY <1>11, <1>12, <1>14, <1>17, <1>18, <1>19, <1>20 DEF Good

\* The kernel's own requests move no mapping.
LEMMA KernelAllocKeeps ==
  ASSUME Good, NEW n \in KernelSizes, KernelAlloc(n)
  PROVE  Good'
<1>1. PICK b \in Blocks : kzalloc(b, n) /\ kernel' = kernel \cup {b}
  BY DEF KernelAlloc
<1>2. UNCHANGED <<file, image, stack, slots, dir, current, starting, copying, nullFreed, mode>>
  BY DEF KernelAlloc
<1>3. n \in 1 .. MaxBlocks /\ n \in 0 .. MaxBlocks
  BY MemoryAssumption, AllocatorAssumption DEF MemoryAssumption, AllocatorAssumption
<1>4. granted \in [Blocks -> 0 .. MaxBlocks] /\ kernel \subseteq Blocks
  BY DEF Good, MTypeOK
<1>5. granted' = [granted EXCEPT ![b] = n] /\ granted[b] = 0
  BY <1>1, <1>3, <1>4, MallocFresh DEF kzalloc
<1>6. \A q \in Procs :
        /\ Live(q)' = Live(q) /\ Kept(q)' = Kept(q)
        /\ \A v \in Pages : Writable(q, v)' = Writable(q, v) /\ AtHome(q, v)' = AtHome(q, v)
  BY <1>2, UntouchedProcess
<1>7. MTypeOK'
  <2>1. granted' \in [Blocks -> 0 .. MaxBlocks] /\ kernel' \subseteq Blocks
    BY <1>1, <1>3, <1>4, <1>5
  <2> QED
    BY <1>2, <2>1 DEF Good, MTypeOK
<1>8. NoOverlap'
  BY <1>1, <1>3, <1>4, MallocKeepsApart DEF Good
<1>9. Accounted'
  <2>1. \A c \in Blocks \ {b} : Holders(c)' = Holders(c)
    BY <1>1, <1>2 DEF Holders
  <2>2. PICK h : h = <<None, 0>>
    OBVIOUS
  <2>3. Holders(b)' = Holders(b) \cup {h}
    BY <1>1, <1>2, <2>2 DEF Holders
  <2>4. Accounted
    BY DEF Good
  <2> QED
    BY <1>3, <1>4, <1>5, <2>1, <2>3, <2>4, GrantAccounted
<1>10. /\ \A q \in Procs : \A k \in Live(q) : \E c \in Blocks :
            slots[q][k].ptr = PageOf(c) /\ slots[q][k].size \in {0, granted'[c]}
       /\ \A q \in Procs : file[q] # None => granted'[image[q]] = granted[image[q]]
       /\ \A q \in Procs : stack[q] # -1 => granted'[stack[q]] = granted[stack[q]]
       /\ \A c \in Blocks : granted[c] # 0 => granted'[c] = granted[c]
  BY <1>5, GrantKnown
<1>11. SlotsHold' /\ ReadsOnly'
  BY <1>2, <1>6, <1>10 DEF Good, SlotsHold, ReadsOnly
<1>12. Loaded' /\ Borrowed'
  <2>1. Loaded'
    BY <1>2, <1>10 DEF Good, Loaded
  <2>2. Borrowed'
    BY <1>2, <1>10 DEF Good, Borrowed, HeaderEntry
  <2> QED
    BY <2>1, <2>2
<1>13. WritesAtHome' /\ MappingsKept'
  BY <1>2, <1>6 DEF Good, WritesAtHome, MappingsKept
<1> QED
  BY <1>7, <1>8, <1>9, <1>11, <1>12, <1>13 DEF Good

\* Nor do its releases.
LEMMA KernelFreeKeeps ==
  ASSUME Good, NEW b \in Blocks, KernelFree(b)
  PROVE  Good'
<1>1. /\ b \in kernel /\ kernel' = kernel \ {b} /\ kfree(PageOf(b)) /\ copying = None
      /\ UNCHANGED <<file, image, stack, slots, dir, current, starting, copying, nullFreed, mode>>
  BY DEF KernelFree, Idle
<1>2. granted \in [Blocks -> 0 .. MaxBlocks] /\ kernel \subseteq Blocks
  BY DEF Good, MTypeOK
<1>3. Holders(b) = {<<None, 0>>} /\ granted[b] # 0
  <2>1. <<None, 0>> \in Holders(b)
    BY <1>1, HoldersAre
  <2> QED
    BY <2>1, HolderIsOnly
<1>4. granted' = [granted EXCEPT ![b] = 0]
  BY <1>1, <1>2, <1>3, KfreeOwn DEF Good
<1>5. PICK h : h = <<None, 0>>
  OBVIOUS
<1>6. \A q \in Procs : \A k : <<q, k>> # h
  BY <1>5, HoldersDiffer
<1>7. /\ \A q \in Procs : \A j \in Live(q) : <<q, j>> # h => \E c \in Blocks :
            slots[q][j].ptr = PageOf(c) /\ slots[q][j].size \in {0, granted'[c]}
      /\ \A q \in Procs : file[q] # None /\ <<q, Slots>> # h =>
            granted'[image[q]] = granted[image[q]]
      /\ \A q \in Procs : stack[q] # -1 /\ <<q, Slots + 1>> # h =>
            granted'[stack[q]] = granted[stack[q]]
  <2>1. Holders(b) \subseteq {h}
    BY <1>3, <1>5
  <2>2. StillKnown(h, granted')
    BY <1>4, <2>1, ReleaseKnown
  <2> QED
    BY <2>2 DEF StillKnown
<1>8. \A q \in Procs :
        /\ Live(q)' = Live(q) /\ Kept(q)' = Kept(q)
        /\ \A v \in Pages : Writable(q, v)' = Writable(q, v) /\ AtHome(q, v)' = AtHome(q, v)
  BY <1>1, UntouchedProcess
<1>9. MTypeOK'
  <2>1. granted' \in [Blocks -> 0 .. MaxBlocks] /\ kernel' \subseteq Blocks
    BY <1>1, <1>2, <1>4, AllocatorAssumption DEF AllocatorAssumption
  <2> QED
    BY <1>1, <2>1 DEF Good, MTypeOK
<1>10. NoOverlap'
  BY <1>2, <1>4, FreeKeepsApart DEF Good
<1>11. Accounted'
  <2>1. \A c \in Blocks \ {b} : Holders(c)' = Holders(c)
    BY <1>1 DEF Holders
  <2>2. Holders(b)' = Holders(b) \ {h}
    <3>1. \A g : g \in Holders(b)' <=> g \in Holders(b) /\ g # <<None, 0>>
      BY <1>1, HoldersDiffer DEF Holders
    <3> QED
      BY <1>5, <3>1
  <2>3. Accounted /\ h \in Holders(b)
    BY <1>3, <1>5 DEF Good
  <2> QED
    BY <1>2, <1>4, <2>1, <2>2, <2>3, ReleaseAccounted
<1>12. SlotsHold' /\ ReadsOnly'
  BY <1>1, <1>6, <1>7, <1>8 DEF Good, SlotsHold, ReadsOnly
<1>13. Loaded' /\ Borrowed'
  <2>1. Loaded'
    BY <1>1, <1>6, <1>7 DEF Good, Loaded
  <2>2. Borrowed'
    BY <1>1 DEF Borrowed
  <2> QED
    BY <2>1, <2>2
<1>14. WritesAtHome' /\ MappingsKept'
  BY <1>1, <1>8 DEF Good, WritesAtHome, MappingsKept
<1> QED
  BY <1>9, <1>10, <1>11, <1>12, <1>13, <1>14 DEF Good

\* kfree of any pointer leaves every number of granted blocks in its range.
LEMMA KfreeTypes ==
  ASSUME granted \in [Blocks -> 0 .. MaxBlocks], NEW v \in Pages, kfree(v)
  PROVE  granted' \in [Blocks -> 0 .. MaxBlocks]
<1> USE AllocatorAssumption, MemoryAssumption DEF AllocatorAssumption, MemoryAssumption
<1>1. BlockOf(v) \in Int
  BY DEF BlockOf, Pages
<1>2. \A a \in Blocks : Covers(a, BlockOf(v)) => BlockOf(v) - a \in 0 .. MaxBlocks
  BY <1>1 DEF Covers, Blocks
<1> QED
  BY <1>2 DEF kfree

\* Whatever slot process_free finds, the variables keep their types.
LEMMA FreeSlotTypes ==
  ASSUME MTypeOK, NEW p \in Procs, NEW k \in Index, FreeSlot(p, k),
         UNCHANGED <<file, image, stack, current, starting, copying, kernel>>,
         nullFreed' \subseteq Procs, mode' \in {"run", "panic", "stray"}
  PROVE  MTypeOK'
<1>1. /\ slots \in [Procs -> [Index -> [ptr : Pages, size : 0 .. MaxBlocks]]]
      /\ dir \in [Procs -> [Pages -> Entry]] /\ granted \in [Blocks -> 0 .. MaxBlocks]
  BY DEF MTypeOK
<1>2. granted' \in [Blocks -> 0 .. MaxBlocks]
  BY <1>1, KfreeTypes DEF FreeSlot
<1>3. slots' \in [Procs -> [Index -> [ptr : Pages, size : 0 .. MaxBlocks]]]
  <2>1. NULL \in Pages
    BY AllocatorAssumption, MemoryAssumption
    DEF NULL, Pages, AllocatorAssumption, MemoryAssumption
  <2>2. slots' = [slots EXCEPT ![p][k].ptr = NULL]
    BY DEF FreeSlot
  <2> QED
    BY <1>1, <2>1, <2>2
<1>4. dir' \in [Procs -> [Pages -> Entry]]
  <2>1. paging_map_to(dir[p], slots[p][k].ptr, slots[p][k].size, {}) \in [Pages -> Entry]
    BY <1>1 DEF paging_map_to, Entry, Flags
  <2> QED
    BY <1>1, <2>1 DEF FreeSlot
<1> QED
  BY <1>2, <1>3, <1>4 DEF MTypeOK

\* process_free of any page keeps the invariant, or strays.
LEMMA ProcessFreeKeeps ==
  ASSUME Good, NEW p \in Procs, NEW v \in Pages, ProcessFree(p, v)
  PROVE  MTypeOK' /\ (mode' # "stray" => Good')
<1> DEFINE found == {k \in Index : slots[p][k].ptr = v}
<1>1. Slots - 1 \in Nat /\ found \subseteq 0 .. Slots - 1 /\ found # {}
  BY MemoryAssumption DEF MemoryAssumption, Index, ProcessFree
<1>2. Min(found) \in found
  BY <1>1, MinOfNaturals
<1>3. PICK k \in Index : k = Min(found) /\ slots[p][k].ptr = v
  BY <1>2
<1>4. /\ FreeSlot(p, k) /\ mode' = (IF Strays(p, k) THEN "stray" ELSE mode)
      /\ nullFreed' = IF v = NULL THEN nullFreed \cup {p} ELSE nullFreed
      /\ UNCHANGED <<file, image, stack, current, starting, copying, kernel>>
  BY <1>3 DEF ProcessFree
<1>5. current = p /\ mode = "run" /\ stack[p] # -1
  BY Layout DEF ProcessFree, Idle, Good, Loaded
<1>6. MTypeOK'
  <2>1. nullFreed' \subseteq Procs
    BY <1>4 DEF Good, MTypeOK
  <2>2. mode' \in {"run", "panic", "stray"}
    BY <1>4, <1>5
  <2> QED
    BY <1>4, <2>1, <2>2, FreeSlotTypes DEF Good
<1>7. CASE Strays(p, k)
  BY <1>4, <1>6, <1>7
<1>8. CASE ~Strays(p, k) /\ v = NULL
  <2>1. slots \in [Procs -> [Index -> [ptr : Pages, size : 0 .. MaxBlocks]]]
    BY DEF Good, MTypeOK
  <2>2. slots' = slots
    BY <1>3, <1>4, <1>8, <2>1 DEF FreeSlot
  <2>3. granted' = granted
    BY <1>3, <1>4, <1>8 DEF FreeSlot, kfree
  <2>4. PICK n \in 0 .. MaxBlocks : n = slots[p][k].size
    BY <2>1
  <2>5. dir' = [dir EXCEPT ![p] = paging_map_to(@, NULL, n, {})]
    BY <1>3, <1>4, <1>8, <2>4 DEF FreeSlot
  <2>6. mode' = mode
    BY <1>4, <1>8
  <2>7. Good'
    BY <1>4, <1>8, <2>2, <2>3, <2>5, <2>6, FreeNullKeeps
  <2> QED
    BY <1>6, <2>7
<1>9. CASE ~Strays(p, k) /\ v # NULL
  <2>1. k \in Live(p)
    BY <1>3, <1>9 DEF Live
  <2>2. Good'
    BY <1>4, <1>5, <1>9, <2>1, FreeSlotKeeps
  <2> QED
    BY <1>6, <2>2
<1> QED
  BY <1>7, <1>8, <1>9

\* Whoever acts, what it does to one process's memory leaves every other's alone.
LEMMA StepPreserves == IInv /\ [MNext]_vars => IInv'
<1> SUFFICES ASSUME IInv, [MNext]_vars PROVE IInv'
  OBVIOUS
<1>1. CASE UNCHANGED vars
  <2>1. MTypeOK' = MTypeOK /\ mode' = mode
    BY <1>1 DEF vars, MTypeOK
  <2>2. Good => Good'
    <3>1. \A b \in Blocks : Holders(b)' = Holders(b)
      BY <1>1 DEF vars, Holders
    <3> QED
      BY <1>1, ControlKeeps DEF vars
  <2> QED
    BY <2>1, <2>2 DEF IInv
<1>2. CASE mode = "run" /\ MNext
  <2>0. Good
    BY <1>2 DEF IInv
  <2>1. ASSUME Good' PROVE IInv'
    BY <2>1 DEF IInv, Good
  <2>2. ASSUME NEW p \in Procs, ProcessLoad(p) PROVE IInv'
    BY <2>0, <2>1, <2>2, ProcessLoadKeeps
  <2>3. ASSUME NEW p \in Procs, LoadFails(p) PROVE IInv'
    BY <2>0, <2>1, <2>3, LoadFailsKeeps
  <2>4. ASSUME NEW p \in Procs, MapMemory(p) PROVE IInv'
    BY <2>0, <2>1, <2>4, MapMemoryKeeps
  <2>5. ASSUME NEW p \in Procs, SwitchTo(p) \/ InjectFails(p) PROVE IInv'
    <3>1. /\ UNCHANGED <<granted, file, image, stack, slots, dir, copying, kernel,
                         nullFreed, mode>>
          /\ current' = current \/ (current' = starting /\ stack[starting] # -1)
          /\ starting' = None \/ starting' = starting
      BY <2>5 DEF SwitchTo, InjectFails, Mapped
    <3> QED
      BY <2>0, <2>1, <3>1, ControlKeeps
  <2>6. ASSUME NEW p \in Procs, CopyBegin(p) PROVE IInv'
    BY <2>0, <2>1, <2>6, CopyBeginKeeps
  <2>7. ASSUME NEW p \in Procs, NEW n \in 0 .. MaxBlocks,
               InjectArgument(p, n) \/ ProcessMalloc(p, n)
        PROVE  IInv'
    <3>1. /\ process_malloc(p, n)
          /\ UNCHANGED <<file, image, stack, copying, kernel, nullFreed, mode>>
          /\ UNCHANGED <<current, starting>>
      BY <2>7 DEF InjectArgument, ProcessMalloc
    <3>2. stack[p] # -1
      BY <2>0, <2>7, Layout DEF InjectArgument, ProcessMalloc, Mapped, Good, Loaded
    <3> QED
      BY <2>0, <2>1, <3>1, <3>2, ProcessMallocKeeps
  <2>8. ASSUME NEW p \in Procs, NEW v \in Pages, ProcessFree(p, v) PROVE IInv'
    BY <2>0, <2>8, ProcessFreeKeeps DEF IInv
  <2>9. CASE CopyEnd
    BY <2>0, <2>1, <2>9, CopyEndKeeps
  <2>10. ASSUME NEW n \in KernelSizes, KernelAlloc(n) PROVE IInv'
    BY <2>0, <2>1, <2>10, KernelAllocKeeps
  <2>11. ASSUME NEW b \in Blocks, KernelFree(b) PROVE IInv'
    BY <2>0, <2>1, <2>11, KernelFreeKeeps
  <2>12. ~Stopped
    BY <1>2 DEF Stopped
  <2>13. ASSUME NEW p \in Procs, NEW n \in 1 .. MaxBlocks, InjectArgument(p, n) PROVE IInv'
    <3>1. n \in 0 .. MaxBlocks
      BY AllocatorAssumption DEF AllocatorAssumption
    <3> QED
      BY <2>7, <2>13, <3>1
  <2> QED
    BY <1>2, <2>2, <2>3, <2>4, <2>5, <2>6, <2>7, <2>8, <2>9, <2>10, <2>11, <2>12, <2>13
    DEF MNext
<1>3. CASE mode # "run" /\ MNext
  BY <1>1, <1>3
  DEF MNext, Stopped, ProcessLoad, LoadFails, MapMemory, SwitchTo, InjectFails, CopyBegin,
      InjectArgument, ProcessMalloc, ProcessFree, CopyEnd, KernelAlloc, KernelFree,
      Idle, Loading, Mapped
<1> QED
  BY <1>1, <1>2, <1>3

\* Until a process strays, each grant has one holder, slots and page tables agree
\* with the grants, and nothing else is mapped writable.
THEOREM InductiveInvariant == MSpec => []IInv
BY InitEstablishes, StepPreserves, PTL DEF MSpec

-----------------------------------------------------------------------------
(* What follows *)

\* Each variable keeps its type, also where a process strays.
THEOREM TypeCorrect == MSpec => []MTypeOK
<1>1. IInv => MTypeOK
  BY DEF IInv
<1> QED
  BY <1>1, InductiveInvariant, PTL

\* Until a pointer from malloc(0) is freed under a later holder of its block, every
\* run of the heap has exactly one holder, who knows its size, and nobody holds a run
\* that was given back, through failing mallocs, frees of any pointer, copies and loads.
THEOREM EveryRunHasOneHolder == MSpec => []OneHolder
<1>1. Good => OneHolder
  <2> SUFFICES ASSUME Good PROVE OneHolder
    OBVIOUS
  <2>1. ASSUME NEW b \in Blocks
        PROVE  Cardinality(Holders(b)) = IF granted[b] > 0 THEN 1 ELSE 0
    <3>1. granted[b] \in Nat
      BY DEF Good, MTypeOK
    <3>2. ASSUME granted[b] = 0 PROVE Cardinality(Holders(b)) = 0
      <4>1. Holders(b) = {}
        BY <3>2 DEF Good, Accounted
      <4> QED
        BY <4>1, FS_EmptySet
    <3>3. ASSUME granted[b] # 0 PROVE Cardinality(Holders(b)) = 1
      <4>1. PICK h : Holders(b) = {h}
        BY <3>3 DEF Good, Accounted
      <4> QED
        BY <4>1, FS_Singleton
    <3> QED
      BY <3>1, <3>2, <3>3
  <2>2. ASSUME NEW p \in Procs, NEW k \in Live(p)
        PROVE  slots[p][k].size \in {0, granted[BlockOf(slots[p][k].ptr)]}
    <3>1. PICK b \in Blocks : slots[p][k].ptr = PageOf(b) /\ slots[p][k].size \in {0, granted[b]}
      BY DEF Good, SlotsHold
    <3> QED
      BY <3>1, Layout
  <2>3. \A p \in Procs : /\ file[p] # None => granted[image[p]] = file[p].blocks
                         /\ stack[p] # -1 => granted[stack[p]] = StackBlocks
    BY DEF Good, Loaded
  <2> QED
    BY <2>1, <2>2, <2>3 DEF OneHolder
<1>2. mode = "stray" => OneHolder
  BY DEF OneHolder
<1>3. IInv => OneHolder
  BY <1>1, <1>2 DEF IInv
<1> QED
  BY <1>3, InductiveInvariant, PTL

\* A stack lies in the run that was granted for it.
LEMMA StackInRun ==
  ASSUME Good, NEW p \in Procs, NEW v \in Pages, OnStack(p, v)
  PROVE  StackPage(p, v) /\ Covers(stack[p], BlockOf(dir[p][v].frame))
<1>1. stack[p] \in Blocks /\ granted[stack[p]] = StackBlocks
  BY StackHolds DEF OnStack
<1>2. PICK x : x = v - Stack
  OBVIOUS
<1>3. x \in 0 .. StackBlocks - 1 /\ dir[p][v].frame = PageOf(stack[p]) + x
  BY <1>2, Layout, MemoryAssumption, AllocatorAssumption
  DEF OnStack, MemoryAssumption, AllocatorAssumption
<1> QED
  BY <1>1, <1>3, MemoryAssumption, AllocatorAssumption
  DEF OnStack, StackPage, Run, Covers, BlockOf, PageOf, Blocks, MemoryAssumption,
      AllocatorAssumption

\* A page of the file in memory lies in the file's run, or is not in the file.
LEMMA ImageInRun ==
  ASSUME Good, NEW p \in Procs, NEW v \in Pages, ImagePage(p, v), ~PastFile(p, v)
  PROVE  dir[p][v].frame \in Run(image[p]) /\ Covers(image[p], BlockOf(dir[p][v].frame))
<1>1. image[p] \in Blocks /\ granted[image[p]] = file[p].blocks
  BY ImageHolds DEF ImagePage
<1>2. file[p] \in Files
  BY DEF ImagePage, Good, MTypeOK
<1>3. PICK x : x = file[p].pages[v].at
  OBVIOUS
<1>4. file[p].blocks \in Nat /\ x \in Nat
  BY <1>2, <1>3, MemoryAssumption, AllocatorAssumption
  DEF ImagePage, MemoryAssumption, AllocatorAssumption
<1>5. x < file[p].blocks /\ dir[p][v].frame = PageOf(image[p]) + x
  BY <1>3, <1>4 DEF ImagePage, PastFile
<1> QED
  BY <1>1, <1>4, <1>5, MemoryAssumption, AllocatorAssumption
  DEF Run, Covers, BlockOf, PageOf, Blocks, MemoryAssumption, AllocatorAssumption

\* Until then a process can write only to its file's run, its stack, what it holds and
\* the page of a copy while it lasts, however memory is recycled between processes,
\* and behind its file only where its headers say so.
THEOREM ProcessesWriteAtHome == MSpec => []WritesStayHome
<1>1. Good => WritesStayHome
  <2> SUFFICES ASSUME Good, NEW p \in Procs, NEW v \in Pages, Writable(p, v)
               PROVE  \/ /\ ImagePage(p, v)
                         /\ dir[p][v].frame \in Run(image[p]) \/ PastFile(p, v)
                      \/ StackPage(p, v) \/ AllocatedPage(p, v) \/ CopyPage(p, v)
    BY DEF WritesStayHome
  <2>1. AtHome(p, v)
    BY DEF Good, WritesAtHome
  <2>2. OnStack(p, v) => StackPage(p, v)
    BY StackInRun
  <2>3. ImagePage(p, v) => dir[p][v].frame \in Run(image[p]) \/ PastFile(p, v)
    BY ImageInRun
  <2> QED
    BY <2>1, <2>2, <2>3 DEF AtHome
<1>2. mode = "stray" => WritesStayHome
  BY DEF WritesStayHome
<1>3. IInv => WritesStayHome
  BY <1>1, <1>2 DEF IInv
<1> QED
  BY <1>3, InductiveInvariant, PTL

\* Until then, and until a process frees NULL, what it holds and the kernel stay
\* mapped in it.
THEOREM HeldMemoryStaysMapped == MSpec => []StaysMapped
<1>1. Good => StaysMapped
  BY DEF Good, MappingsKept, Kept, StaysMapped
<1>2. mode = "stray" => StaysMapped
  BY DEF StaysMapped
<1>3. IInv => StaysMapped
  BY <1>1, <1>2 DEF IInv
<1> QED
  BY <1>3, InductiveInvariant, PTL

-----------------------------------------------------------------------------
(* Isolation *)

\* The runs that a process has write access to: its file's, its stack's, those of its
\* slots and that of its copy.
Holds(p, h) == \/ \E k : h = <<p, k>>
               \/ h = <<None, 1>> /\ copying # None /\ copying.proc = p

\* A frame that a process can write to lies in a run that it has, or behind its file.
LEMMA WritableIsHeld ==
  ASSUME Good, NEW p \in Procs, NEW v \in Pages, Writable(p, v), ~PastFile(p, v)
  PROVE  \E b \in Blocks : \E h \in Holders(b) :
           Covers(b, BlockOf(dir[p][v].frame)) /\ Holds(p, h)
<1>1. CASE ImagePage(p, v)
  <2>1. image[p] \in Blocks /\ <<p, Slots>> \in Holders(image[p])
    BY <1>1, ImageHolds DEF ImagePage
  <2>2. Covers(image[p], BlockOf(dir[p][v].frame))
    BY <1>1, ImageInRun
  <2> QED
    BY <2>1, <2>2 DEF Holds
<1>2. CASE OnStack(p, v)
  <2>1. stack[p] \in Blocks /\ <<p, Slots + 1>> \in Holders(stack[p])
    BY <1>2, StackHolds DEF OnStack
  <2>2. Covers(stack[p], BlockOf(dir[p][v].frame))
    BY <1>2, StackInRun
  <2> QED
    BY <2>1, <2>2 DEF Holds
<1>3. CASE AllocatedPage(p, v)
  <2>1. PICK k \in Live(p) : v \in Covered(p, k) /\ dir[p][v].frame = v
    BY <1>3 DEF AllocatedPage
  <2>2. PICK b \in Blocks : slots[p][k].ptr = PageOf(b) /\ Covers(b, BlockOf(v))
    BY <2>1, CoveredByRun
  <2>3. slots[p][k].size # 0
    BY <2>1, CoveredByRun
  <2>4. <<p, k>> \in Holders(b)
    BY <2>2, <2>3, SlotHolds
  <2> QED
    BY <2>1, <2>2, <2>4 DEF Holds
<1>4. CASE CopyPage(p, v)
  <2>1. PICK b \in Blocks :
          copying.page = PageOf(b) /\ granted[b] = 1 /\ Holders(b) = {<<None, 1>>}
    BY <1>4, CopyHolds DEF CopyPage
  <2>2. BlockOf(dir[p][v].frame) = b
    BY <1>4, <2>1, Layout DEF CopyPage
  <2>3. Covers(b, BlockOf(dir[p][v].frame))
    BY <2>1, <2>2, Layout DEF Covers
  <2> QED
    BY <1>4, <2>1, <2>3 DEF Holds, CopyPage
<1> QED
  BY <1>1, <1>2, <1>3, <1>4 DEF Good, WritesAtHome, AtHome

\* Two processes write to the same frame only where one of them goes past its file.
NoSharedFrame ==
  mode # "stray" =>
    \A p, q \in Procs : \A v, w \in Pages :
      Writable(p, v) /\ Writable(q, w) /\ dir[p][v].frame = dir[q][w].frame =>
        p = q \/ PastFile(p, v) \/ PastFile(q, w)

\* Until a pointer from malloc(0) is freed under a later holder of its block, two
\* processes can write to the same frame only where the headers of one of them reach
\* behind its file: not after a free, not through a page borrowed for a copy, and not
\* when a run is granted again to the next.
THEOREM ProcessesAreIsolated == MSpec => []NoSharedFrame
<1>1. Good => NoSharedFrame
  <2> SUFFICES ASSUME Good, NEW p \in Procs, NEW q \in Procs, NEW v \in Pages,
                      NEW w \in Pages, Writable(p, v), Writable(q, w),
                      dir[p][v].frame = dir[q][w].frame,
                      ~PastFile(p, v), ~PastFile(q, w)
               PROVE  p = q
    BY DEF NoSharedFrame
  <2>1. PICK b \in Blocks : \E h \in Holders(b) :
               Covers(b, BlockOf(dir[p][v].frame)) /\ Holds(p, h)
    BY WritableIsHeld
  <2>2. PICK c \in Blocks : \E g \in Holders(c) :
               Covers(c, BlockOf(dir[p][v].frame)) /\ Holds(q, g)
    BY WritableIsHeld
  <2>3. BlockOf(dir[p][v].frame) \in Int
    <3>1. dir[p][v] \in Entry
      BY DEF Good, MTypeOK
    <3>2. dir[p][v].frame \in Int
      BY <3>1, Layout DEF Entry
    <3> QED
      BY <3>2, MemoryAssumption DEF BlockOf, MemoryAssumption
  <2>4. b = c
    BY <2>1, <2>2, <2>3 DEF Good, NoOverlap
  <2>5. \A g, h \in Holders(b) : g = h
    BY HolderIsOnly
  <2>6. PICK h \in Holders(b) : Holds(p, h) /\ Holds(q, h)
    BY <2>1, <2>2, <2>4, <2>5
  <2> QED
    BY <2>6, NoneAssumption DEF Holds, NoneAssumption
<1>2. mode = "stray" => NoSharedFrame
  BY DEF NoSharedFrame
<1>3. IInv => NoSharedFrame
  BY <1>1, <1>2 DEF IInv
<1> QED
  BY <1>3, InductiveInvariant, PTL
=============================================================================
