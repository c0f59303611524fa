---------------------------- MODULE ProcessMemory ----------------------------
(***************************************************************************)
(* The memory of user processes: the allocations of each process           *)
(* (process_malloc, process_free), its page tables (src/memory/paging) and *)
(* the page that copy_string_from_task borrows from it.  The heap below is *)
(* the abstract allocator of BlockAllocator, which Heap implements: a heap *)
(* block is exactly one page, and page directories map the heap one to one.*)
(*                                                                         *)
(* Handlers run with interrupts off, so malloc and free are one step each. *)
(* copy_string_from_task is cut in two, at the point where the kernel runs *)
(* on the directory of the process; a program start is cut where its file  *)
(* is in memory, where its memory is mapped, and at each argument.         *)
(***************************************************************************)
EXTENDS BlockAllocator, FiniteSets, FiniteSetsExt

CONSTANTS Procs,      \* the processes
          Low,        \* pages below the heap
          Program,    \* the page of PEACHOS_PROGRAM_VIRTUAL_ADDRESS
          StackBlocks, \* PEACHOS_USER_PROGRAM_STACK_SIZE
          Slots,      \* PEACHOS_MAX_PROGRAM_ALLOCATIONS
          KernelSizes, \* the sizes, in blocks, of the kernel's own requests
          Files,      \* the program files: the blocks each takes, and which page of
                      \* memory maps which page from the file's first on, and how
          None        \* no process, no file, no copy

\* Page 0 is NULL, and a page is left free between the stack and the program.
\* Programs are linked to their address and up, flat files and ELF files alike.
\* The page that a header maps need not be in the file: p_memsz reaches past it.
ASSUME MemoryAssumption ==
  /\ Slots \in Nat \ {0} /\ KernelSizes \subseteq 1 .. MaxBlocks
  /\ StackBlocks \in 1 .. MaxBlocks
  /\ Low \in Nat /\ Program \in StackBlocks + 2 .. Low - 1
  /\ \A f \in Files :
       /\ f.blocks \in 1 .. MaxBlocks
       /\ \A v \in DOMAIN f.pages : /\ v \in Nat /\ v >= Program
                                    /\ f.pages[v] \in [at : 0 .. MaxBlocks, w : BOOLEAN]

VARIABLES
  file,      \* the file that a process was loaded from, or None
  image,     \* the block at which the heap has that file, or -1
  stack,     \* the block of the stack, or -1 until the process's memory is mapped
  slots,     \* proc->allocations: the page of ptr, the pages that size covers
  dir,       \* the page tables of each process: frame and flags of each page
  current,   \* the process that runs
  starting,  \* the process that is loaded and about to be switched to
  copying,   \* copy_string_from_task's process, page and old_entry
  kernel,    \* history: the runs the rest of the kernel holds, or has lost
  nullFreed, \* history: the processes that have freed NULL
  mode       \* "run", "panic", or "stray" once kfree was given another's block

vars == <<granted, file, image, stack, slots, dir, current, starting, copying,
          kernel, nullFreed, mode>>

\* The last pages stand for the memory behind the heap, which an overlong grant
\* and a file's last header reach.
Pages   == 0 .. Low + Total + MaxBlocks - 1
NULL    == 0
Stack   == Program - 1 - StackBlocks
Flags   == SUBSET {"P", "W", "U"}
Entry   == [frame : Pages, flags : Flags]
Index   == 0 .. Slots - 1
Copies  == [proc : Procs, page : Pages, old : Entry]

ASSUME NoneAssumption == None \notin Procs \cup Files \cup Copies

PageOf(b)  == Low + b
BlockOf(v) == v - Low

USER_DATA == {"P", "W", "U"}

MapOnePageShort(d, v, n, flags) ==
  [w \in Pages |-> IF v <= w /\ w < v + n - 1
                     THEN [frame |-> w, flags |-> flags] ELSE d[w]]

\* paging_map_to over the n pages from v, each mapped to itself.
paging_map_to(d, v, n, flags) ==
  [w \in Pages |-> IF v <= w /\ w < v + n
                     THEN [frame |-> w, flags |-> flags] ELSE d[w]]

OffsetAdvancedFirst == [v \in Pages |-> [frame |-> v + 1, flags |-> {"P", "U"}]]

\* paging_new_4gb(PRESENT | ACCESS_FROM_ALL): all memory, to read.
paging_new_4gb == [v \in Pages |-> [frame |-> v, flags |-> {"P", "U"}]]

FreshSlots == [k \in Index |-> [ptr |-> NULL, size |-> 0]]

MInit == /\ Init
         /\ file = [p \in Procs |-> None]
         /\ image = [p \in Procs |-> -1] /\ stack = [p \in Procs |-> -1]
         /\ slots = [p \in Procs |-> FreshSlots]
         /\ dir = [p \in Procs |-> paging_new_4gb]
         /\ current = None /\ starting = None /\ copying = None
         /\ kernel = {0}
         /\ nullFreed = {} /\ mode = "run"

Idle    == mode = "run" /\ starting = None /\ copying = None
Loading == mode = "run" /\ starting # None /\ stack[starting] = -1
Mapped(p) == mode = "run" /\ starting = p /\ stack[p] # -1

\* heap_malloc: a request of no bytes is answered with the free run at the end of
\* the table, of which nothing is marked, so that the next request may get it too.
Offered(b, n) == IF n = 0 THEN TailRun(b) ELSE Chosen(b, n)
kzalloc(b, n) == Offered(b, n) /\ granted' = [granted EXCEPT ![b] = n]

\* kfree of any pointer: the run is given back from there to its end.  NULL changes
\* nothing, as its block number is past the table, and so does a block not in use.
kfree(v) ==
  granted' = IF v = NULL THEN granted
             ELSE [a \in Blocks |-> IF a = BlockOf(v) THEN 0
                                    ELSE IF Covers(a, BlockOf(v)) THEN BlockOf(v) - a
                                    ELSE granted[a]]

-----------------------------------------------------------------------------
(* Starting a program *)

\* process_load_for_slot up to the file in memory.
ProcessLoad(p) ==
  /\ Idle /\ file[p] = None
  /\ \E f \in Files, b \in Blocks :
       /\ kzalloc(b, f.blocks)
       /\ file' = [file EXCEPT ![p] = f] /\ image' = [image EXCEPT ![p] = b]
  /\ slots' = [slots EXCEPT ![p] = FreshSlots]
  /\ starting' = p
  /\ UNCHANGED <<stack, dir, current, copying, kernel, nullFreed, mode>>

\* There is no memory for the stack, the task or its directory: the file in memory
\* is lost.  At boot kernel_main panics.
LoadFails(p) ==
  /\ Loading /\ starting = p
  /\ kernel' = kernel \cup {image[p]}
  /\ file' = [file EXCEPT ![p] = None] /\ image' = [image EXCEPT ![p] = -1]
  /\ starting' = None
  /\ mode' = IF current = None THEN "panic" ELSE mode
  /\ UNCHANGED <<granted, stack, slots, dir, current, copying, nullFreed>>

\* The new directory with what process_map_memory maps in it.
process_map_memory(f, b, s) ==
  [v \in Pages |->
     IF v \in Stack .. Stack + StackBlocks - 1
       THEN [frame |-> PageOf(s) + (v - Stack), flags |-> USER_DATA]
     ELSE IF v \in DOMAIN f.pages
       THEN [frame |-> PageOf(b) + f.pages[v].at,
             flags |-> IF f.pages[v].w THEN USER_DATA ELSE {"P", "U"}]
     ELSE paging_new_4gb[v]]

\* process_load_for_slot from the stack on.
MapMemory(p) ==
  /\ Loading /\ starting = p
  /\ \E s \in Blocks :
       /\ kzalloc(s, StackBlocks)
       /\ stack' = [stack EXCEPT ![p] = s]
       /\ dir' = [dir EXCEPT ![p] = process_map_memory(file[p], image[p], s)]
  /\ UNCHANGED <<file, image, slots, current, starting, copying, kernel, nullFreed, mode>>

FreeIndexes(p) == {k \in Index : slots[p][k].ptr = NULL}

process_find_free_allocation_index(p) == Min(FreeIndexes(p))

\* process_malloc returns NULL: there is no memory, or no slot to remember it
\* in, and then the memory has been given back.
MallocFails(p, n) == FreeIndexes(p) = {} \/ \A b \in Blocks : ~Offered(b, n)

process_malloc(p, n) ==
  /\ FreeIndexes(p) # {}
  /\ \E b \in Blocks :
       /\ kzalloc(b, n)
       /\ slots' = [slots EXCEPT ![p][process_find_free_allocation_index(p)] =
                      [ptr |-> PageOf(b), size |-> n]]
       /\ dir' = [dir EXCEPT ![p] = paging_map_to(@, PageOf(b), n, USER_DATA)]

\* process_inject_arguments allocates in the new process while the old one
\* waits in its system call.
InjectArgument(p, n) ==
  /\ Mapped(p)
  /\ process_malloc(p, n)
  /\ UNCHANGED <<file, image, stack, current, starting, copying, kernel, nullFreed, mode>>

SwitchTo(p) ==
  /\ Mapped(p)
  /\ current' = p /\ starting' = None
  /\ UNCHANGED <<granted, file, image, stack, slots, dir, copying, kernel, nullFreed, mode>>

\* When an argument does not fit, the caller stays; kernel_main goes on anyway.
InjectFails(p) ==
  /\ Mapped(p)
  /\ \E n \in 1 .. MaxBlocks : MallocFails(p, n)
  /\ current' = IF current = None THEN p ELSE current
  /\ starting' = None
  /\ UNCHANGED <<granted, file, image, stack, slots, dir, copying, kernel, nullFreed, mode>>

-----------------------------------------------------------------------------
(* System calls of the running process *)

ProcessMalloc(p, n) ==
  /\ Idle /\ current = p
  /\ process_malloc(p, n)
  /\ UNCHANGED <<file, image, stack, current, starting, copying, kernel, nullFreed, mode>>

FreeKeepsBlock(p, k) ==
  LET v == slots[p][k].ptr IN
  /\ dir' = [dir EXCEPT ![p] = paging_map_to(@, v, slots[p][k].size, {})]
  /\ slots' = [slots EXCEPT ![p][k].ptr = NULL]
  /\ UNCHANGED granted

\* The slot's size stays behind when its pointer is cleared.
FreeSlot(p, k) ==
  LET v == slots[p][k].ptr IN
  /\ dir' = [dir EXCEPT ![p] = paging_map_to(@, v, slots[p][k].size, {})]
  /\ slots' = [slots EXCEPT ![p][k].ptr = NULL]
  /\ kfree(v)

\* What was allocated with no bytes has been granted since, and is freed under
\* its holder.  Where that cuts a run, the flags before the cut still say that the
\* run goes on, which the grants do not show: the model ends there.
Strays(p, k) == /\ slots[p][k].ptr # NULL /\ slots[p][k].size = 0
                /\ ~Unused(BlockOf(slots[p][k].ptr))

\* process_free of the pointer to page v.  One that is in no slot is ignored, and
\* NULL is found in the first slot that is not in use.
ProcessFree(p, v) ==
  /\ Idle /\ current = p
  /\ LET found == {k \in Index : slots[p][k].ptr = v} IN
       /\ found # {}
       /\ FreeSlot(p, Min(found))
       /\ mode' = IF Strays(p, Min(found)) THEN "stray" ELSE mode
  /\ nullFreed' = IF v = NULL THEN nullFreed \cup {p} ELSE nullFreed
  /\ UNCHANGED <<file, image, stack, current, starting, copying, kernel>>

\* copy_string_from_task up to the copy, made on the directory of the process.
CopyBegin(p) ==
  /\ Idle /\ current = p
  /\ \E b \in Blocks :
       /\ kzalloc(b, 1)
       /\ copying' = [proc |-> p, page |-> PageOf(b), old |-> dir[p][PageOf(b)]]
       /\ dir' = [dir EXCEPT ![p] = paging_map_to(@, PageOf(b), 1, USER_DATA)]
  /\ UNCHANGED <<file, image, stack, slots, current, starting, kernel, nullFreed, mode>>

CopyEndLeavesMapping ==
  /\ mode = "run" /\ copying # None
  /\ kfree(copying.page)
  /\ copying' = None
  /\ UNCHANGED <<file, image, stack, slots, dir, current, starting, kernel, nullFreed, mode>>

CopyEnd ==
  /\ mode = "run" /\ copying # None
  /\ dir' = [dir EXCEPT ![copying.proc][copying.page] = copying.old]
  /\ kfree(copying.page)
  /\ copying' = None
  /\ UNCHANGED <<file, image, stack, slots, current, starting, kernel, nullFreed, mode>>

-----------------------------------------------------------------------------
(* The rest of the kernel: kzalloc and kfree for descriptors, page tables, *)
(* files that are looked into, also while a program is loaded              *)

KernelAlloc(n) ==
  /\ Idle \/ Loading
  /\ \E b \in Blocks : kzalloc(b, n) /\ kernel' = kernel \cup {b}
  /\ UNCHANGED <<file, image, stack, slots, dir, current, starting, copying, nullFreed, mode>>

KernelFree(b) ==
  /\ Idle /\ b \in kernel \ {0}
  /\ kfree(PageOf(b))
  /\ kernel' = kernel \ {b}
  /\ UNCHANGED <<file, image, stack, slots, dir, current, starting, copying, nullFreed, mode>>

Stopped == mode # "run" /\ UNCHANGED vars

MNext ==
  \/ \E p \in Procs :
       \/ ProcessLoad(p) \/ LoadFails(p) \/ MapMemory(p) \/ SwitchTo(p) \/ InjectFails(p)
       \/ CopyBegin(p)
       \/ \E n \in 1 .. MaxBlocks : InjectArgument(p, n)
       \/ \E n \in 0 .. MaxBlocks : ProcessMalloc(p, n)
       \/ \E v \in Pages : ProcessFree(p, v)
  \/ CopyEnd
  \/ \E n \in KernelSizes : KernelAlloc(n)
  \/ \E b \in Blocks : KernelFree(b)
  \/ Stopped

MSpec == MInit /\ [][MNext]_vars

-----------------------------------------------------------------------------

MTypeOK ==
  /\ granted \in [Blocks -> 0 .. MaxBlocks]
  /\ file \in [Procs -> Files \cup {None}]
  /\ image \in [Procs -> -1 .. Total - 1] /\ stack \in [Procs -> -1 .. Total - 1]
  /\ slots \in [Procs -> [Index -> [ptr : Pages, size : 0 .. MaxBlocks]]]
  /\ dir \in [Procs -> [Pages -> Entry]]
  /\ current \in Procs \cup {None} /\ starting \in Procs \cup {None}
  /\ copying \in {None} \cup Copies
  /\ kernel \subseteq Blocks
  /\ nullFreed \subseteq Procs
  /\ mode \in {"run", "panic", "stray"}

Live(p)        == {k \in Index : slots[p][k].ptr # NULL}
Covered(p, k)  == slots[p][k].ptr .. slots[p][k].ptr + slots[p][k].size - 1
Writable(p, v) == {"P", "W"} \subseteq dir[p][v].flags
Run(b)         == PageOf(b) .. PageOf(b) + granted[b] - 1

\* A page that the headers of the process's file make writable, and one of those
\* that is not in the file: there the process writes to what the heap has behind it.
ImagePage(p, v) ==
  /\ file[p] # None /\ v \in DOMAIN file[p].pages /\ file[p].pages[v].w
  /\ dir[p][v].frame = PageOf(image[p]) + file[p].pages[v].at
PastFile(p, v) == ImagePage(p, v) /\ file[p].pages[v].at >= file[p].blocks

StackPage(p, v) == /\ stack[p] # -1 /\ v \in Stack .. Stack + StackBlocks - 1
                   /\ dir[p][v].frame \in Run(stack[p])

AllocatedPage(p, v) == dir[p][v].frame = v /\ \E k \in Live(p) : v \in Covered(p, k)

CopyPage(p, v) == /\ copying # None /\ copying.proc = p /\ copying.page = v
                  /\ dir[p][v].frame = v

\* Until a pointer from malloc(0) is freed under a later holder of its block, a
\* process can write only to its file's run, its stack, and what it has allocated
\* and not freed; to the page that a string of its is copied through, while it is;
\* and behind its file's run where the headers of its file say so.
WritesStayHome ==
  mode # "stray" =>
    \A p \in Procs : \A v \in Pages :
      Writable(p, v) =>
        \/ ImagePage(p, v) /\ (dir[p][v].frame \in Run(image[p]) \/ PastFile(p, v))
        \/ StackPage(p, v)
        \/ AllocatedPage(p, v)
        \/ CopyPage(p, v)

\* Who has the run that starts at block b.
Holders(b) ==
  {s \in Procs \X Index : slots[s[1]][s[2]].ptr = PageOf(b) /\ slots[s[1]][s[2]].size > 0}
    \cup {<<p, Slots>> : p \in {q \in Procs : image[q] = b}}
    \cup {<<p, Slots + 1>> : p \in {q \in Procs : stack[q] = b}}
    \cup (IF b \in kernel THEN {<<None, 0>>} ELSE {})
    \cup (IF copying # None /\ copying.page = PageOf(b) THEN {<<None, 1>>} ELSE {})

\* Until then every run of the heap has exactly one holder, who knows its size, and
\* nobody holds a run that was given back: nothing is lost when a malloc fails half
\* way and nothing is freed twice, although a pointer from malloc(0), which holds
\* nothing, may be that of any run granted later.
OneHolder ==
  mode # "stray" =>
    /\ \A b \in Blocks : Cardinality(Holders(b)) = IF granted[b] > 0 THEN 1 ELSE 0
    /\ \A p \in Procs :
         /\ \A k \in Live(p) : slots[p][k].size \in {0, granted[BlockOf(slots[p][k].ptr)]}
         /\ file[p] # None => granted[image[p]] = file[p].blocks
         /\ stack[p] # -1 => granted[stack[p]] = StackBlocks

\* Until then what malloc returned is mapped until it is freed, and the kernel's own
\* memory stays mapped in every process, without which no interrupt can be taken.
\* A process that has freed NULL can lose both.
StaysMapped ==
  mode # "stray" =>
    \A p \in Procs \ nullFreed :
      /\ \A v \in 0 .. Low - 1 : "P" \in dir[p][v].flags
      /\ \A v \in 0 .. Stack - 1 : dir[p][v].frame = v
      /\ \A k \in Live(p) : \A v \in Covered(p, k) : Writable(p, v)
=============================================================================
