------------------------------- MODULE ElfMap -------------------------------
(***************************************************************************)
(* The memory of a new process: process_map_memory maps the pages of the   *)
(* file's image in the heap to where the program headers say, page by      *)
(* page, and then the stack.  A flat file is one range.                    *)
(*                                                                         *)
(* Addresses count bytes.  The image begins at physical address 0, and     *)
(* what is behind its last page belongs to others.  The headers are such   *)
(* as linkers write: of type PT_LOAD (others are refused), at or above the *)
(* program's address, which agrees with the offset modulo a page.          *)
(***************************************************************************)
EXTENDS Integers, Sequences, FiniteSetsExt

CONSTANTS PageSize, Pages,     \* bytes of a page; virtual pages are 0 .. Pages - 1
          ProgramAt, StackAt,  \* PEACHOS_PROGRAM_VIRTUAL_ADDRESS, _STACK_ADDRESS_END
          StackPages,
          FileSizes,           \* bytes of the file
          Segments, Headers    \* the program headers there can be, and their number

\* The stack is below the program, and what the headers describe is within the
\* address space.
ASSUME ElfMapAssumption ==
  /\ PageSize \in Nat \ {0} /\ Pages \in Nat /\ Headers \in Nat
  /\ ProgramAt \in Nat /\ ProgramAt % PageSize = 0
  /\ StackAt \in Nat /\ StackAt % PageSize = 0 /\ StackPages \in Nat
  /\ StackAt + StackPages * PageSize <= ProgramAt
  /\ FileSizes \subseteq Nat /\ \A n \in FileSizes : ProgramAt + n <= Pages * PageSize
  /\ Segments \subseteq [offset : Nat, vaddr : Nat, filesz : Nat, memsz : Nat \ {0}, w : BOOLEAN]
  /\ \A s \in Segments : s.vaddr >= ProgramAt /\ s.vaddr % PageSize = s.offset % PageSize
                         /\ s.filesz <= s.memsz /\ s.vaddr + s.memsz <= Pages * PageSize

AlwaysNext(a)  == a - (a % PageSize) + PageSize
Lower(a) == a - (a % PageSize)                                      \* paging_align_to_lower_page
Upper(a) == IF (a % PageSize) = 0 THEN a ELSE Lower(a) + PageSize    \* paging_align_address
PageOf(a) == a \div PageSize

VARIABLES
  filetype, size, segments,    \* the file
  stage,                       \* "map", or "run"
  header, page,                \* the header, and the page of it, that is next
  table                        \* what each virtual page maps, and whether writable

elfVars == <<filetype, size, segments, stage, header, page, table>>

Kernel == [frame |-> -1, w |-> FALSE]     \* paging_new_4gb: itself, read only
Stack(n) == -2 - n                        \* the frames of the stack

ElfInit ==
  /\ filetype \in {"elf", "bin"} /\ size \in FileSizes
  /\ segments \in IF filetype = "bin" THEN {<<>>} ELSE [1 .. Headers -> Segments]
  /\ \A n \in DOMAIN segments : segments[n].offset + segments[n].filesz <= size
  /\ stage = "map" /\ header = 1 /\ page = 0
  /\ table = [p \in 0 .. Pages - 1 |-> Kernel]

More == header <= Len(segments)

Put(virt, frame, w) == table' = [table EXCEPT ![PageOf(virt)] = [frame |-> frame, w |-> w]]

RangeOfSize(s) ==
  [virt |-> Lower(s.vaddr), from |-> Lower(s.offset), to |-> Lower(s.offset) + Upper(s.memsz)]

\* process_map_elf, for a header: from and to which physical address.
RangeOf(s) == [virt |-> Lower(s.vaddr), from |-> Lower(s.offset), to |-> Upper(s.offset + s.memsz)]
Writable(n) == segments[n].w

MapPage ==
  /\ stage = "map" /\ More
  /\ LET r == RangeOf(segments[header])
     IN  /\ r.from + page * PageSize < r.to
         /\ Put(r.virt + page * PageSize, PageOf(r.from) + page, Writable(header))
  /\ page' = page + 1
  /\ UNCHANGED <<filetype, size, segments, stage, header>>

NextHeader ==
  /\ stage = "map" /\ More
  /\ LET r == RangeOf(segments[header]) IN r.from + page * PageSize >= r.to
  /\ header' = header + 1 /\ page' = 0
  /\ UNCHANGED <<filetype, size, segments, stage, table>>

\* process_map_binary: the whole file, writable.  It is called for ELF files too,
\* whose size is not set: then it maps nothing.
MapBinary ==
  /\ stage = "map" /\ filetype = "bin" /\ page * PageSize < Upper(size)
  /\ Put(ProgramAt + page * PageSize, page, TRUE)
  /\ page' = page + 1
  /\ UNCHANGED <<filetype, size, segments, stage, header>>

Mapped == IF filetype = "elf" THEN ~More ELSE page * PageSize >= Upper(size)

MapStack ==
  /\ stage = "map" /\ Mapped
  /\ stage' = "run"
  /\ table' = [p \in DOMAIN table |->
                 LET n == p - PageOf(StackAt)
                 IN  IF n \in 0 .. StackPages - 1 THEN [frame |-> Stack(n), w |-> TRUE] ELSE table[p]]
  /\ UNCHANGED <<filetype, size, segments, header, page>>

Run == stage = "run" /\ UNCHANGED elfVars

ElfNext == MapPage \/ NextHeader \/ MapBinary \/ MapStack \/ Run

ElfSpec == ElfInit /\ [][ElfNext]_elfVars

-----------------------------------------------------------------------------
(* Correctness *)

ImageFrames == {PageOf(a) : a \in 0 .. size - 1}
PagesOf(s)  == {PageOf(a) : a \in s.vaddr .. s.vaddr + s.memsz - 1}
Alone(n, p) == \A m \in DOMAIN segments : m # n => p \notin PagesOf(segments[m])

\* The byte of the file that a program finds at an address.
FileByteAt(a) == table[PageOf(a)].frame * PageSize + (a % PageSize)

\* Every byte of a segment that is in the file is where its header says, and the
\* segment can be written exactly if it says so, whatever part of a page it begins
\* and ends in and whatever the order of the headers; unless two segments share the
\* page.  A flat file is at the program's address from its first byte to its last.
FileBytesInPlace ==
  stage = "run" =>
    /\ \A n \in DOMAIN segments : LET s == segments[n] IN
         /\ \A b \in 0 .. s.filesz - 1 :
              Alone(n, PageOf(s.vaddr + b)) => FileByteAt(s.vaddr + b) = s.offset + b
         /\ \A p \in PagesOf(s) : Alone(n, p) => table[p].w = s.w
    /\ filetype = "bin" => \A b \in 0 .. size - 1 : FileByteAt(ProgramAt + b) = b

\* A program can write to no memory but its file's and its stack, except through a segment
\* whose memory, with what is not in the file, reaches past the last page of the
\* file: such a segment has the next blocks of the heap behind it.
WritesStayInside ==
  stage = "run" =>
    \/ \A p \in DOMAIN table : table[p].w =>
         table[p].frame \in ImageFrames \cup {Stack(n) : n \in 0 .. StackPages - 1}
    \/ \E n \in DOMAIN segments : segments[n].w /\ segments[n].offset + segments[n].memsz > Upper(size)
=============================================================================
