# PeachOS: a verification development

The repository is a small 32-bit kernel in the PeachOS tradition: a boot loader,
a kernel with a block heap, paging, a FAT16 file system, user processes started
from ELF or flat files, nine system calls behind `int 0x80`, and a PS/2
keyboard, plus a user library and a shell. There is one CPU, every gate of the
interrupt table is an interrupt gate, and the kernel never enables interrupts:
they are enabled only by the flags that `task_return` puts on the stack of a user
program. So **a handler runs to its end before anything else happens**, and what
interleaves are whole handlers: key presses against system calls, system calls
of one process against what the kernel did for another. Nothing is preempted,
there is no timer, and no process ever exits.

This directory holds TLA+ models of the kernel's core, TLC configurations that
check them, and proofs checked by TLAPS.

## Inventory

| Part | State it keeps | Operations | What must be right |
|---|---|---|---|
| kernel heap (`memory/heap`) | one byte of flags per 4096-byte block | `heap_malloc`, `heap_free`; `kmalloc`, `kzalloc`, `kfree` | grants disjoint; `heap_free` stops exactly at the end of its run; NULL only when nothing fits; loops end |
| paging (`memory/paging`) | directories of page tables, one per process and one of the kernel; `cr3` | `paging_new_4gb`, `paging_map_to`, `paging_set`, `paging_get`, `paging_free_4gb`, `paging_switch` | a process writes only what it owns; the kernel stays mapped |
| process memory (`task/process.c`, `task/task.c`) | 1024 allocation slots per process | `process_malloc`, `process_free`, `process_inject_arguments`, `copy_string_from_task` | slots, page tables and heap agree after every call, also the failing ones |
| processes and tasks (`task`) | table of 16 processes, doubly linked task list, `current_task`, `current_process` | load, switch, unlink; system calls 6, 7, 8 | list and table agree; a failed start leaves nothing half done; current process and current task belong together |
| keyboard (`keyboard`) | a ring buffer of 4096 characters in each process | IRQ 1 handler, `keyboard_push`, `keyboard_pop` | first in, first out; no key twice; every key read |
| interrupts and traps (`idt`, `task.asm`) | interrupt table, saved registers, `tmp_res` | wrappers, `interrupt_handler`, `isr80h_handler`, `task_return` | `cr3` and segments match the code that runs; results reach the caller |
| file layer (`fs`) | 512 descriptor slots, registered file systems | `fopen`, `fread`, `fseek`, `fstat`, `fclose`, path parser | descriptors unique, given back, usable while open |
| FAT16 (`fs/fat`) | header, root directory, streams | resolve, open, read, seek, stat, close | chains followed inside the table; bytes of the file and no others; a path leads to what it names; nothing leaked |
| disk (`disk`) | position of a stream | seek, read across sectors | the bytes at the position |
| ELF loader (`loader/formats`) | the file image and its segments | load, map | segments mapped where the headers say, and writable as they say |
| terminal (`kernel.c`) | row and column, video memory | write, backspace | the screen shows the line that is edited, and the prompt stays |
| user library and shell (`programs`) | line buffer, argument list | `readline`, command parsing | what was typed is what is run |
| strings (`string`, `programs/stdlib`) | `strtok`'s place in its string | tokens, bounded copies, `printf`, `itoa` | every word once; nothing read past an end |
| boot, GDT, port I/O | - | straight-line code, run once | not modelled: nothing to interleave |

How they interact: the shell and other programs call the kernel through `int
0x80`; handlers read the stack and strings of the task through its page tables,
allocate from the one kernel heap and start programs, which runs the file layer,
FAT16 and the disk streamer to their end. The keyboard interrupt writes to the
buffer of `current_process`; `getkey` reads the buffer of
`current_task->process`. Everything shares the heap.

Hard to test, and the reason for these models (each one with its line is under
"hazards" in `PROJECT.json`): long sequences of allocation and release; the
table, buffer or heap at its limit; calls that fail half way; state that two
actors each hold half of (head and tail, current task and current process); a
page borrowed from a process; indices that wrap; which page directory and which
segments are loaded on each path through a handler; text whose end or whose cut
falls on the boundary of a buffer, a page, a row or a field.

## Modules

| Module | Models | Kind |
|---|---|---|
| `BlockAllocator` | what the heap promises: one atomic step per call | abstract specification |
| `Heap` | `heap.c`, loop iteration by loop iteration | implements `BlockAllocator` |
| `HeapProofs` | theorems about `Heap` | proofs |
| `KeyQueue` | what the keyboard layer promises its reader | abstract specification |
| `Keyboard` | `classic.c`, `keyboard.c`, `getkey`, the ring buffer | implements `KeyQueue` |
| `KeyboardProofs` | theorems about `Keyboard` | proofs |
| `ProcessMemory` | allocations, page tables and string copies of processes | extends `BlockAllocator` |
| `ProcessMemoryProofs` | theorems about `ProcessMemory` | proofs |
| `Process` | process table, task list, program start, where keys go | uses queues like `KeyQueue` |
| `ProcessProofs` | theorems about `Process` | proofs |
| `Fat16` | `fread`, `fseek`: cluster chains, chunks and sectors of `fat16.c` and `streamer.c` | against a definition of the file's bytes |
| `ProgramLoad` | `process_load_for_slot` down to `fat16_open`: what each step allocates, opens, frees and closes | details the loads of `Process` |
| `Trap` | every way into the kernel and out of it: `idt.asm`, `idt.c`, `task.asm`, the paging of the system calls | |
| `TrapProofs` | theorems about `Trap` | proofs |
| `Terminal` | the cursor and the video memory of `kernel.c` | operators |
| `LineEditor` | what reading a line promises | abstract specification |
| `ReadLine` | the prompt and `peachos_terminal_readline`; extends `Terminal` | implements `LineEditor` |
| `CommandLine` | the shell: `ReadLine`'s lines, then `strtok`, `peachos_parse_command`, system call 7, `process_inject_arguments` | extends `ReadLine`; against the words of the line |
| `CommandLineProofs` | theorems about `CommandLine` and the reading of its lines | proofs |
| `Mount` | `disk_search_and_init`, `fs_resolve`, `fat16_resolve` at boot | the first part of `PathLookup` |
| `FatName` | a file's name from its directory entry | operators |
| `FatDirectory` | what is counted and copied of a directory; extends `FatName` | operators |
| `PathLookup` | path parser, `fopen`'s checks, `fat16_get_directory_entry` on a mounted disk | extends `Mount` and `FatDirectory`; against what the path names |
| `FileSystemProofs` | theorems about `Fat16` and about `PathLookup` with what it extends | proofs |
| `ElfMap` | the pages mapped for a program | against the program headers |
| `LoaderProofs` | theorems about `ProgramLoad` and `ElfMap` | proofs |
| `MC*` | instances for TLC | |

How the modules fit: `Heap` implements `BlockAllocator`, on which `ProcessMemory`
is built; `Trap` has the skeleton of every system call, whose bodies are in
`Keyboard`, `ProcessMemory`, `Process` and `CommandLine`; `Process` starts
programs in one step, which `ProgramLoad` details; opening a file in `ProgramLoad`
is walked in `PathLookup`, on the file system that `Mount` left and with the names
and directories of `FatName` and `FatDirectory`; the file's content is read as in
`Fat16` and mapped as in `ElfMap`.

### Heap and BlockAllocator

`BlockAllocator` has one variable, `granted[b]`, the number of blocks that the
owner of the pointer to block `b` holds. `Malloc(b, n)` grants the lowest run of
`n` free blocks. Where there is none, `heap_get_start_block` ends its loop with
`bs` at the start of the free run at the end of the table, and that is what it
returns: the grant is then longer than the run. This is in the abstract
specification as `TailRun`, because every client of the heap lives with it; run
`heap_inside` shows it as a violation of the heap's declared size.

`Heap` has the flags of the block table (`entries`, the flag bits as a set), the
local variables of the active call (`bc`, `bs`, `i`, `entry`, `total`) and a
program counter `pc`. A call is started by `HeapMalloc(size)` or `HeapFree(b)`;
`ScanTaken` and `ScanFree` are the iterations of the search, `ScanEnd` its end
without a fit, `MarkBlock` an iteration of `heap_mark_blocks_taken`, `FreeBlock`
one of `heap_mark_blocks_free`. The cells behind the table are part of the model,
because the marks of an overlong grant land there. Sizes wrap at `UintMod` when
they are rounded up. The history variable `owned` is the refinement mapping. The
initial state has block 0 taken: `fat16_resolve` allocates first and keeps it
(were the table empty, a request of zero blocks would mark for ever).

`HeapFree` is called with pointers that `heap_malloc` returned for at least one
block and that are still held. Other calls of `kfree` are these: with NULL, a no-op
because its block number lies past the table; with a pointer from `malloc(0)`, which
`ProcessMemory` has (its `kfree` takes any page); and the second free of a directory
that could not be read, after which `ProgramLoad` promises nothing. Block 0 is never
freed after boot.

### Keyboard and KeyQueue

`Interrupt(code)` is the whole interrupt handler, `Getkey` the whole system call.
The cells, `tail` and `head` are the fields of `struct keyboard_buffer`; the
indices count modulo `Wrap`, which stands for the width of `int`. The scan table
is a constant; the code that equals its size passes the size check and reads the
byte behind the table, which `Init` picks (0 or `Stray`). There is no test for a
full buffer: the ghost `overrun` records that a push hit a cell in use. Until
then the buffer is the queue of `KeyQueue`, with the content between `head` and
`tail` as the refinement mapping; afterwards `KeyQueue` promises nothing and only
`NoKeyTwice` remains, because the code itself delivers the newest keys first and
then leaves keys stuck behind an empty cell.

### ProcessMemory

A heap block is exactly one page (both are 4096 bytes) and directories map the
heap one to one, so block `b` is page `Low + b` and all sizes are in pages. The
module extends `BlockAllocator`: `kzalloc(b, n)` grants what its `Chosen` allows, and
since `Heap` implements `BlockAllocator`, what is checked here is about the real heap.
`kzalloc(b, 0)` and `kfree` of any page are the two uses of the heap that
`BlockAllocator` does not have, and are translated here: a request of no bytes gets
the start of the free run at the end of the table, marks nothing, and fails only when
there is no such run; `kfree` gives a run back from the block it is passed to its end.

`dir[p]` is the page table of `p`: a frame and the flags P(resent), W(riteable)
and U(ser) for every page, including the pages behind the heap. A slot keeps its
`size` when it is freed, as the code does, so that `ProcessFree(p, NULL)` unmaps
what that size covers from address 0. `ProcessMalloc` takes every size from 0 on and
`ProcessFree` any page, allocated or not.

A program file is its number of blocks and the pages that its headers map: which page
of memory to which page from the file's first on, writable or not. The page mapped
need not be in the file (`p_memsz` is mapped, not `p_filesz`), and the page of memory
may be one of the heap's. A flat file is one whose pages are all its own and writable.
How headers become pages is in `ElfMap`.

`copy_string_from_task` is two steps, `CopyBegin` and `CopyEnd`. A program start is
`ProcessLoad` (the file is in memory), `MapMemory` or `LoadFails`, an `InjectArgument`
for each argument, and `SwitchTo` or `InjectFails`, so that what holds in between is
checked too. `kernel` are the runs of all the rest, descriptors, page tables, files
that are only looked at, and those that a load has lost; between the steps of a load
the kernel allocates, and frees when no load is under way.

`mode` is `"panic"` when the shell cannot be loaded and `"stray"` when a pointer from
`malloc(0)` was freed after its block had been granted to somebody else (`Strays`).
The step itself is modelled. The model stops behind it: where the block was inside a
longer run, the flags of the blocks before it still say that the run goes on, and
`granted` does not show that.

Assumed: programs are linked at `PEACHOS_PROGRAM_VIRTUAL_ADDRESS` and above; headers
reach at most `MaxBlocks` pages from the file's first. Not here: sizes that overflow
when they are rounded up, and requests of no bytes by the kernel itself (an empty
directory or file), whose pointers hold nothing.

### Process

A process and its task are named by the slot of the process table. `tasks` is
the task list as the code keeps it, links, head, tail and `current_task`;
`task_new` and `task_list_remove` are operators on it, and the actions compose
them. New links are `NULL` or `Garbage`: `kzalloc(sizeof(task))` clears the size
of a pointer, not of the task. `LoadFails` has the ways a load can end: before
there is a task; with the task linked and unlinked again; or in a wild access
(an uninitialised `proc`, an error number used as a task, a garbage link), after
which `mode` is `"wild"` and the model promises nothing. `process_get_free_slot`
returns the positive `EISTKN` for a full table, and the model goes on with that
number as the code does.

### Fat16

One `fread` is followed through the code's own structure. `Fread` starts the loop
of `fat16_read` over `count` elements of `size` bytes; `ReadChunk` is an entry of
the recursive `fat_16_read_internal_from_stream` with `total` bytes of the element
left; `FollowChain` is one iteration of `fat16_get_cluster_for_offset`, with
`ahead` of them to go; `SeekCluster` computes the position; `ReadSector` is one
call of `diskstreamer_read`, which calls itself when it used its sector up, even
with nothing left to read (so a read that ends with a sector reads one more);
`NextElement` and `FreadReturns` end an element and the call.

A byte is its position on the disk, so `out`, the sequence of positions
delivered, says which bytes a read returns and in which order. The content of the
disk matters only where the code looks for FAT entries. `FatEntryPos` is the
position that `fat16_get_fat_entry` seeks, a product where an entry of the table
is at a sum, and `word` is whatever is found there, any value of `Words`. The
reference `FileByte` follows the chain through the same words, and run
`fat16_table` shows separately that they are not entries of the table. The end of
a chain is compared with twelve-bit values, so 0xFFFF is followed as a cluster;
where that leads the disk has no sector, and `disk_read_sector` waits for ever
(`Poll`).

`Clusters` are the numbers that chains can lead to: those of the files and whatever
word may be found on the disk. The proofs need of these constants only that they are
natural numbers, and that an offset inside a file is within `MaxPos`.

The positions of the two streams are variables because all reads share them; a
returning call resets them, which loses nothing since each read seeks first. The
kernel itself calls `fread` with one element from position 0 and never `fseek`;
the module allows all arguments of the file layer, with `MaxPos` as the bound of
relative seeks. Reading a directory as a file is left out (`fstat` refuses it
before anyone reads).

### ProgramLoad

The loads of `Process` in detail. A heap object is a number; `live` are those
allocated, `l` those in the load's local variables (of `process_load_for_slot`,
`elf_load` or `process_load_binary`, `fopen`, `fat16_open`), and the descriptor
table and `processes` hold the rest. Each allocation is a step that can fail: small
ones when the heap is full, the file's content, the stack and the task with its
page directory at any time, since they need more blocks than one. The lowest free
object is handed out. One object stands for a parsed path with its parts, and one
for a task with its page directory, because nothing happens between their
allocations. `prog` is the kind of file that was named, which decides what the
driver and the loader find.

Where the code uses a pointer that may be NULL (`fclose` of a descriptor that is
not found, the path parser, `file_new_descriptor`, `task_new`) or memory it has
freed (the directory that `fat16_load_fat_directory` frees and returns), the state
is `"wild"` and nothing is promised from there on.

Not here: the task list and the switch (in `Process`), the page tables (in
`ProcessMemory`), disk waits (in `Fat16`), files of zero bytes.

### Trap

The processor's part is `ring`, the loaded directory `cr3`, the data segments and
the program's registers; the kernel's is `frame` (the stack as `struct
interupt_frame` reads it), the registers saved in each task, `current_task` and
the return value. `Trapped(cause)` is the entry of one gate: a system call of each
kind that pages in its own way, an interrupt with a callback (the keyboard) and
one without, a fault. What follows is one action per change of directory or
segments: `kernel_page`, saving the frame, the stack item that is read in the
task's pages, the string that is copied on the task's directory alone (the two
page changes of `copy_string_from_task`), the start of a program, and the two ways
back, `iret` with `tmp_res` in `eax` and `task_return`.

The first vector is set to `idt_zero`, a C function; faults with an error code
(the page fault stands for them) shift the frame by one word. Both lead to
`"lost"`: a program in the kernel's ring, or at an address that is none. An unused
vector and an interrupt without a callback differ only in the acknowledgement, and
are one. What system calls do beside paging is in the other modules. Faults of the
kernel itself are not modelled (while it reads a task's stack, for one). Nor is `ebp`,
which `task_return` leaves as it is: `eax` stands for the registers that it restores.

### Terminal, LineEditor and ReadLine

`terminal_write_char`, `terminal_backspace` and `print` are operators on the record
of cursor and video memory. Memory is linear: a backspace at the left edge goes to
the end of the row above. `ReadLine` has one action per key of
`peachos_terminal_readline`: a character, a backspace (the two decrements of the
index and the increment of the loop together), a backspace at the start, Enter.
`EndOfLine` is also what happens, with or without Enter, when one byte is left: it
is enabled in any state of `read`, which has the loop end when it must. The buffer
starts with anything and keeps what earlier lines left. `LineEditor` is the
abstract line, with the index as the refinement mapping.

The model has the `Rows` rows that `terminal_intialize` clears (`VGA_HEIGHT`): nothing
in the code scrolls, and nothing keeps the cursor on them, so a session that is long
enough leaves them, and later video memory. What is written there is not modelled;
`ScreenShowsLine` speaks of the cells there are (`Shows`), also after the cursor has
left them and come back.

### CommandLine

The shell's loop: a line is read as in `ReadLine`, and `Run` hands it on. One
iteration of the token loop is `Strtok` and `Node` (or `NoNode`, where the list
ends early). `scommand` is the copy that `strtok` writes its zero bytes into, `sp`
its place. In the kernel, `Load` cuts the first word at the size of a path and
`InjectArgument` copies one node. `used` counts the shell's allocation slots,
which commands that fail never give back. A command that fails leads back to the
prompt, with the buffer, `strtok`'s place and the slots as they are then; a
program that starts never lets the shell run again. The copy is longer than any
line (1024 bytes of each). What `argv` should be is defined without any scanning:
the `n`-th word of a line begins at the position that has `n - 1` beginnings of
words before it.

### FatName and FatDirectory

Operators on what is on the disk. A directory entry has the two fields of a name,
its attributes and what its first cluster begins. `propper_string` reads a field up
to a blank or a zero byte, so a full field runs on into what follows it, the
extension, the attributes and the zero bytes behind (`Bytes`).

Not every entry is a file: a label, and each piece of a long name, has `Volume` in its
attributes and arbitrary bytes in its fields. The `Makefile` copies lower-case names to
a mounted FAT disk, which makes such pieces, and `fat16.c` does not tell them apart: the
piece of `hello.txt` is read as `ah`, its number and the first of its letters, behind
which there is a zero byte.

A directory is a record. `onDisk` is what is on the disk from its start on, entry
by entry: an entry, an unused one, or a zero byte. `entries` are the directory's own,
through all its clusters; they agree with `onDisk` as far as it lies in one piece
(`Together`: the root directory, or one cluster). `total_items` is the result of
`fat16_get_total_items_for_directory`, which counts `onDisk`. `Copied` is what can be
at an index of the copy in the heap: the copy of the root directory ends with it; that
of another directory follows its chain, and behind its first cluster holds whatever is
found where `fat16_get_fat_entry` looks (see `Fat16`). There it is any entry.

`Listed` and `HasName` are the reference: what the directory holds, and what its files
are called. `IsDirectory` and the assumptions say what is on a disk: the fields of files
are letters filled up with blanks, no directory has two files of a name, and somewhere
behind its start there is a zero byte. An entry `..` with cluster 0, which names the
root and is looked up in front of the data by the code, is not among them.

### Mount

Boot, allocation by allocation: what is allocated (`live`), which fields of the
private data are set and whether the disk has a file system. Allocations that are
not tested lead to `"wild"` when they are used at once, and to a field that is
NULL when they are used later. That the disk cannot be read is tested in the code
and possible in the model, although `disk_read_sector` never reports it.

### PathLookup

The steps of `Mount`, then one `fopen`. A path is a drive and a sequence of
components, with `Empty` where two slashes meet or one ends the path. `ParsePart`
allocates a part and its string. `NotThis` and `This` are the iterations of
`fat16_find_item_in_directory`, `This` with the new item it makes; `ThisFails` has
the ways that fails: no item, an item without data, a directory that is freed and
used all the same. `Searched` returns and frees the directory that was searched.
`Enter`, `StopAtFile` and `StepFromNull` are the ways the loop goes on: into a
directory, out of a file (whose item is lost), and through NULL; `NotInRoot` is
the test that the root has and the others have not. A stream that could not be
allocated at boot is met when the first subdirectory is read
(`ThroughNullStream`).

### ElfMap

`MapPage` is one page of `paging_map_to` for a segment, `MapBinary` one of a flat
file, `MapStack` the stack. A page of the file's image is a number, so that a byte
of a segment is in its place when frame and offset give the byte's position in
the file. `process_map_memory` calls `process_map_binary` for ELF files too, whose
`size` is zero; this maps nothing, and is no step. Headers are what linkers write:
none is empty, address and offset agree modulo a page, and what they describe is in
the address space at or above the program's address, which the stack is below. A
segment's memory beyond the file maps what follows in the heap: it is not cleared,
and behind the last page of the file it belongs to others.

## Runs

| Run | Instance | What it asks |
|---|---|---|
| `heap` | 5 blocks of 2 bytes, requests of 0..3 blocks, sizes modulo 16 | type and inductive invariant, disjoint grants, exact table, NULL only when nothing fits, refinement of `BlockAllocator`, every call returns |
| `heap_inside` | 4 blocks | do grants stay inside the heap? (they do not) |
| `keyboard` | 3 cells, indices modulo 6, 7 keys of three characters | refinement of `KeyQueue`, no key twice, every key read |
| `process_memory` | 2 processes with 2 slots, 5 free blocks, requests of 0..2 blocks; an ELF file with memory behind it, and one with a page at an address of the heap | who can write what, one holder per run, what stays mapped |
| `process` | 4 slots, EISTKN = 1, 3 keys | list and table, current task and process, what failed starts leave, keys |
| `fat16` | 13 sectors of 4 bytes, clusters of 2 sectors, files of 17 and 8 bytes, reads of 3, 8 or 17 bytes once or twice | exactly the file's bytes, every read returns or waits for a missing sector |
| `fat16_table` | same | is what is read for a FAT entry inside the tables? (it is not) |
| `program_load` | 24 objects, 3 descriptors, 2 process slots, all kinds of file | nothing freed that is pointed to, files closed, what is lost |
| `trap` | 2 tasks, registers of 2 values, all kinds of call, interrupt and fault | directory, segments and registers on every way in and out; does every trap end? |
| `command_line` | rows of 3 cells, a prompt of 2, a buffer of 5, 2 lines; arguments cut at 3 characters, names at 2, 3 slots | refinement of `LineEditor`, the screen shows the line, `argv` and the program are what was typed |
| `path_lookup` | 280 disks: a root of 2 entries with a third behind it, a subdirectory that holds itself, of clusters of 2 entries; a piece of a long name; fields of 2 and 1 characters; paths of up to 3 components of 5 | leads to what is named, frees the way, leaves known data only where it must |
| `elf_map` | pages of 2 bytes, two segments at every offset, address and length of two pages; files of 4 and 5 bytes | every byte in place, writable as asked, nobody else's memory |

Why the bounds are enough. *heap*: five blocks with one taken for good give runs
of every shape (free prefix, hole, tail, fragmented, full); three blocks is the
first length with a first, a middle and a last mark; an overlong grant reaches
two cells past the table; size 15 wraps to zero. *keyboard*: seven keys pass
three cells twice and the wrap at six once, with overruns of every length up to
four. *process_memory*: both processes can hold memory, the heap and the slots
fill up, blocks go from one process to the other and to the kernel, grants and headers
reach past the heap, a block that `malloc(0)` returned is granted to each kind of holder,
at its start and in its middle, and freed under it; the processes are interchangeable
(symmetry). *process*:
the table fills and then overflows into `EISTKN`. *fat16*: a read of 3 bytes stays
in a sector or crosses one, 8 fills a cluster, 17 needs three with a rest; files
begin where FAT positions are on the disk and where they are not, one ends with
the disk, and the words lead on, in circles, to an end or off the disk.
*program_load*: two ELF programs keep their descriptors and a third
load gets the last one; the process table is full with two processes, and the
heap runs out after some failed loads, at every allocation of a load. *trap*: a
program is started by the shell, and both ways back and all faults occur in both
tasks; two values tell the registers of any two moments apart. *command_line*: a line
ends inside a row, at its end or in the next one, and backspaces go back over the
end of a row; the second line finds the first in its buffer, `strtok` where the
first left it, and the slots used up; up to two words, blanks before, between and
after them, words at and beyond both cuts. *path_lookup*: every path that ends,
breaks off or goes on behind a file at each depth, directories that are empty,
full, overfull, of two clusters that lie together or do not, or have unused entries
before, between and behind names; pieces of long names before, between and behind files,
with the name of a file and without it; fields that are empty, partly filled and full,
and attributes that end a name or do not.
*elf_map*: segments within a page, over an end of page and up to it, sharing a
page or not, in either order; files that fill their last page or not.

`CHECK_DEADLOCK` is on everywhere: no reachable state is without a successor
(`panic` loops).

**Fairness.** `Heap`: weak fairness of the steps of the active call; the kernel
is not preemptible, so a call in progress keeps the CPU. `Keyboard` and
`Process`: weak fairness of `Getkey`, because the readers poll:
`peachos_getkey_block` repeats the call until it gets a key. No fairness is
assumed of keys, calls or program starts. `Fat16`: weak fairness of the steps of
the active read, as in `Heap`, but none of the disk. `Trap`: weak fairness of the
kernel's steps; it runs with interrupts off, so nothing takes the processor from
it, while programs may run for ever. `CommandLine`, `PathLookup`, `ElfMap` and the
others state no liveness: each of their steps makes progress, and where they end
is visible in the state graph, which has no deadlock.

**Histories.** `owned`, `typed`, `got`, `overrun`, `kernel`, `nullFreed`,
`outcome`, `strayed`, `pressed`, `accepted`, `litter`, `left`, `start`, `delivered`,
`failed` and `outOfMemory` record what happened; no guard of the code's
behaviour reads them, only the bounds `MaxKeys` and `MaxLines` do, and `KernelFree`, which
frees what the kernel holds.

**What the conditional properties say.** Some properties exclude a case the code
gets wrong, and so show that it is the only one: `KeyGoesToRunner` excludes
starts that failed between `process_switch` and `task_switch` (`strayed`),
`StaysMapped` excludes processes that freed NULL, and with `OneHolder` and
`WritesStayHome` of `ProcessMemory` ends when a pointer from `malloc(0)` is freed under a
later holder of its block (`"stray"`); `WritesStayHome`, like `NoSharedFrame` of the
proofs, excludes pages that a header maps behind its file (`PastFile`).
`FailureLeavesAtMostAnOrphan` is about every start that fails, and has one exception: the
program whose arguments could not be injected is left behind. `ImplementsQueue` and
`EveryKeyRead` end with the first overrun, `ReadExact` excludes elements that start
inside a cluster and leave it, `OneHolder` of `ProgramLoad` directories that could
not be read, and `LosesOnlyPaths` loads that fail. `EveryTrapEnds` excludes divide
errors and faults with an error code. `FindsNamed`, `FreesTheWay` and `WildOnlyIf`
are about paths through tidy directories (`TidyWay`): without deleted entries, in one
piece with a zero byte behind it, also where the root or the cluster is full, without
names that run on, and without a label or piece of a long name that reads as the name
looked for; other pieces are allowed. `FindsNamed` ignores
what follows an empty component, as the parser does, and allows for an `fopen` in
which memory or a read failed; `FreesTheWay` excludes paths that go on behind a file;
`WildOnlyIf` names the three ways into NULL: a failure, a stream missing since boot,
and a component below the root that names nothing. `FileBytesInPlace` excludes
pages that two segments share, `WritesStayInside` segments whose memory reaches past
the last page of the file, and `ArgvIsTyped` asks for a beginning of the arguments
when memory ran out.

**Findings.** `heap_inside`: `config.h` gives the heap 100 MB, and `heap_malloc`
hands out memory past its end when the last free run is too short. `fat16_table`:
the stream "used to stream file allocation table" reads elsewhere, so no file of
more than one cluster is read correctly unless chance helps.

Met while modelling, and in the models as the code does it: a deleted ("unused") entry
hides the last file of its directory (`total_items`, excluded by `Tidy`); a full name
runs on into the field behind it (`RunsOn`); a piece of a long name is found as a file
(`0:/ah` on a disk with `hello.txt`); a directory of more than one cluster is counted
in the sectors behind its first and read elsewhere; `malloc(0)` returns a block that
the next `malloc` returns too, and freeing the one releases the other's; memory of a
segment behind its file is mapped to what the heap has there, and written; a program
whose arguments could not be injected is the current process and never runs; the
descriptors "start at 1", but the last of them is refused (`Known` of `ProgramLoad`),
and since an ELF program keeps its descriptor for ever, the load that gets the last
one ends in an `fclose` that reads through NULL; for the faults with an error code the
frame that the wrappers take for "already pushed to us by the processor" is shifted by
the code, to which `iret` then returns; the gate of the divide error is a C function;
and the terminal never scrolls, so that a session that is long enough leaves video
memory.

## Proofs

`HeapProofs` proves, for every `Total`, `BlockSize`, `UintMod`, `MaxBlocks` and
set of sizes that satisfy `HeapAssumption` (at least one block, and the bound on
requests is a bound), that `Spec` implies

* `[]IInv`, the inductive invariant;
* `[]TypeOK`, `[]NoOverlap`, `[]TableMatchesOwners`;
* `FailsOnlyWhenNothingFits`;
* `ImplementsAllocator`, the refinement of `BlockAllocator`.

`NoOverlap` is not inductive: that the run about to be marked is free depends on
what the scan has seen, and that a free stops in time depends on the marks. So
`IInv` adds `HeldMarked` (a held block carries the mark of its place in its run),
`MarksAccounted` (a mark belongs to a held run or to the one being marked) and one
part for each loop: `ScanInv` (the run that ends at `i`, and a taken block in
every candidate below it), `MarkInv` (the run was chosen as the allocator
promises, and is marked up to `i`) and `FreeInv` (the run is cleared up to `i`).
There is one lemma per action; `FreeMeansUnused` and `EntryType` tie the table to
the grants during a scan, `ScanEndFitsNothing` turns an exhausted scan into
"nothing fits". In the refinement, `MallocReturn` is the abstract `Malloc` (or a
stutter for a request of zero blocks), the last step of a free is `Free`, and
everything else stutters. TLC checks `IInv` in run `heap` too.

`TrapProofs` proves, for every set of tasks, every set of register values and a
kernel directory that is no task's (`TrapAssumption`), that `Spec` of `Trap` implies
`[]TypeOK`, `[]AtHome`, `[]SavedIsCaller` and `ResumesExactly`. None of the last
three is inductive. Its `IInv` adds `Places` (which traps are handled at which
place, and that both ways back have the current task's directory loaded) and
`FrameIsLeft` (from entry to `iret` the frame is what the program was left with,
unless there was an error code), which is what ties the registers that are saved
and those that are restored to those that were interrupted. One lemma each covers
the steps in user mode, of the handlers, of a system call's body and of a program
start.

`ProcessMemoryProofs`, for every number of processes and slots, heap size and set of
program files (with the assumptions of `ProcessMemory` on addresses): `[]MTypeOK`,
`[]OneHolder`, `[]WritesStayHome`, `[]StaysMapped`, and `[]NoSharedFrame`, which says
what the whole component is for: two processes can write the same frame only where a
header of one reaches behind its file. All but the first end with `"stray"`, and so does
`Good`: `IInv` is `MTypeOK`, and `Good` until then. What holds a run (a slot, a file, a
stack, the kernel, a copy in progress) is spread over many variables, so `Good` has
`NoOverlap` (runs are apart, even behind the heap), `Accounted` (a run has exactly one
holder, and what is not the start of a run has none), `SlotsHold` (a slot in use
remembers the size of its run, which is what it will unmap, or zero), `Loaded` (what a
process has at each point of its start), `ReadsOnly` (until its memory is mapped it
writes nowhere), `Borrowed` (the page of `copy_string_from_task` is a block of its own,
and the entry it puts back gives write access only where a header does), `WritesAtHome`
and `MappingsKept`. A pointer from `malloc(0)` holds nothing, so it is in no count of
holders; a free of it changes the heap only when `Strays` says so, which is where the
invariant ends.

`ProcessProofs`, for every number of process slots and every set of keys (with the
assumptions of `Process` on `EISTKN`, `NULL` and `Garbage`): `[]TypeOK`,
`[]ListMatchesTable`, `KeyGoesToRunner`, `FailureLeavesAtMostAnOrphan`. Slots are taken in
order, because a load that finds the table full fails; so the list is the table
read upwards, a new task goes to its end, and taking it off again restores the list
(`LoadAppends`, `RemoveNewest`). `IInv` adds that nothing exists before the shell,
that then something does, and that until a start goes astray the task that runs
belongs to the current process. `OrphanIsWhole` is about the start whose arguments cannot
be injected.

`KeyboardProofs`, for every buffer size, every multiple of it as `Wrap`, and every
scan table: `[]TypeOK`, `ImplementsQueue`, `[]NoKeyTwice`. `NoKeyTwice` is a
statement about all histories and holds even after an overrun; the refinement needs
`CellsMatchIndices`: until the first overrun at most `Size` keys wait, and a cell is
in use exactly when it is between `head` and `tail`. The first lemmas are the
arithmetic of the two moduli; that `Size` divides `Wrap` is what makes the cell of
an index survive its wrap.

`CommandLineProofs`, for every prompt, screen, line and set of lengths at which
arguments and names are cut (a name no longer than an argument): `[]ArgvIsTyped`,
`ImplementsLineEditor` and `[]ScreenShowsLine`. The invariant follows one line:
`Reading` (what has been typed has no zero byte), `Delivered` (the buffer holds the
line), `Scanning` (the copy is cut only below `sp`, and each word that begins there
has been returned), `Parsed` and `Injected` (the list, the name of the program and
`argv` are beginnings of the words, and complete unless memory ran out). `NextWord`
and `NoFurtherWord` say what one `strtok` finds. `ScreenShowsLine` has an invariant
of its own, `OnScreen`: no cell from the cursor on shows anything, while the shell
runs a line too (`Blank`), or the next line would begin among what is left there.
`WriteShows`, `BackspaceClears` and `NewLineAdvances` are about one character,
`PrintShows` about a string; an accepted key changes one cell and one byte of the
buffer, on both ends of the line alike (`KeyStep`).

`FileSystemProofs` has two parts. For `Fat16`, with every geometry and content of
the disk, and all files, sizes and offsets: `[]TypeOK` and `[]ReadExact`. A read is
cut four times over: into elements, chunks, clusters and sectors. `IInv` says where
it is in each of them: at the beginning of an element and of a chunk (`InCall`), in
a chunk that does not leave its cluster (`ChunkStays`, false for an element that
runs from the middle of a cluster into the next, which is why `ReadExact` excludes
that), at the cluster of the chain that is `ahead` steps before the one wanted
(`OnChain`), and with how much delivered (`Delivered` between chunks, `Streamed`
within one).

For `PathLookup`, with every size of a name's fields, every set of entries and
directories, and every set of paths: `[]FindsNamed`, `[]FreesTheWay` and
`[]WildOnlyIf`. `NameIsRead` is about the fields of one entry: unless one runs on,
what `full_relative_filename` reads is what the file is called. `TidyDirectory` is
about one directory: there the index runs over what is listed, one candidate each.
`PathInv` then has `Boots` and `Mounted` (what is allocated at each label of the
mount as long as nothing fails), `Parses` (the parts are the first components),
`Searches` (before the index no entry has the name, or the one that has it is the
item found) and `Stands` (between two directories the current item is what the path
names so far). That no name is given twice in a directory is what keeps the loop,
which goes on behind a match, from finding a second entry and losing the first item.
The assumptions are about the disk: the fields of files are letters filled up with
blanks (those of labels and pieces of long names are anything), a directory has a zero
byte somewhere behind its start and no file's name twice, its entries are those on the
disk as far as its first cluster reaches, and an entry leads to a directory exactly
when it has that attribute, and never to the root.

`LoaderProofs` has two parts. For `ProgramLoad`, with every number of objects,
descriptors and process slots: `[]TypeOK`, `[]OneHolder`, `[]OnlyElfsStayOpen`,
`[]LosesOnlyPaths`. The properties count the pointers to an object, the code moves
pointers one at a time. So `IInv` says
that no two pointers are equal (`Apart`: in the table, in `processes`, in the load,
and between them; with no more than one descriptor naming a file), which local
variables are still unassigned at each label (`Unassigned`: nothing is overwritten),
that what the table has beyond the files of ELF programs is the load's own (`Opened`),
and that a live object is pointed to or a path (`Kept`). `HoldersZero` and
`HoldersOne` lead from there to the counts. Every step is one of few moves (a fresh
object, a pointer dropped, a file described, a file mapped), each with a lemma.

For `ElfMap`, with every page size, address space, file and number of headers in any
order: `[]FileBytesInPlace` and `[]WritesStayInside`. `MapIInv` says them page by page
while the headers are walked: behind the header and page that is next (`Reached`), a
page that only one segment has maps the page of the image as far from the segment's
first. `SegmentPages` is what makes bytes of it: the image of a segment and its memory
begin in the same place of a page, so they have equally many pages, and the same bytes
are in each.

Three functions here are recursive: `Chain` of `Fat16`, what a path names (`Named`),
and the screens `print` goes through. The induction rules of the library cannot be
used (they take a predicate as a parameter), so `ChainIs`, `NamedIs` and
`PrintGoesOn` show by a least counterexample that the function exists up to every
number, and satisfies its equation.

Model-checked only:

* liveness (`CallsReturn`, `EveryKeyRead`, `KeysAreRead`, `ReadsReturn`,
  `EveryTrapEnds`): out of the prover's reach;
* the properties of the two findings, which are false.

## Plan

Done: all components are modelled, and every property of safety that a passing run
checks is proved.

## Not modelled

* The boot sector, loading of the GDT and port I/O are straight-line machine code
  that runs once, or single instructions; the ATA protocol is pure I/O.
* The encoding of segment descriptors in `gdt.c` and the task state segment are
  written once at boot, before anything else can happen.
* `printf` and `itoa` of the user library are sequential formatting of one call.
* The bounds that `elf_process_phdr_pt_load` computes of the segments, and the
  functions that return them, have no caller that uses them.
* `elf_close`, `keyboard_backspace`, `pathparser_free`, section accessors of the ELF
  header and the section and symbol constants have no caller.
* `sum` (system call 0) adds two words of the stack and returns; its reading of
  them is a stack item of `Trap`.
* Comparing and copying of strings and bytes is part of the actions that do it;
  characters are values, so comparison without regard to case is equality.
