---------------------------- MODULE ProgramLoad ----------------------------
(***************************************************************************)
(* process_load_for_slot with everything below it that takes or gives back *)
(* memory: elf_load, process_load_binary, fopen, fstat, fread and fclose   *)
(* of fs/file.c, and fat16_open and fat16_close.                           *)
(*                                                                         *)
(* A heap object is a number, NULL is 0; live are those allocated now.     *)
(* The lowest free one is handed out, as heap_malloc does.  One object     *)
(* stands for a path_root with its parts, and one for a task with its page *)
(* directory: nothing comes between their allocations.  Where the code     *)
(* uses a pointer without having looked whether kzalloc returned NULL, or  *)
(* uses memory that it has freed, nothing is known of what follows: "wild".*)
(***************************************************************************)
EXTENDS Integers, FiniteSets, FiniteSetsExt

CONSTANTS
  MaxObjects,     \* the heap
  MaxFds,         \* PEACHOS_MAX_FILE_DESCRIPTORS
  MaxProcesses,   \* PEACHOS_MAX_PROCESSES
  Programs        \* what can be typed: one name for each kind below

\* Every path is "0:/" and what was typed, which may be nothing.
Kinds == {"elf", "flat", "unloadable elf", "directory", "missing", "no name"}

ASSUME ProgramLoadAssumption ==
  /\ MaxObjects \in Nat \ {0} /\ MaxFds \in Nat \ {0} /\ MaxProcesses \in Nat \ {0}
  /\ Programs \subseteq Kinds

VARIABLES
  live,
  file_descriptors,   \* the table; an unused entry is NoFile
  processes,          \* the loaded processes
  pc,
  prog, via,          \* what is loaded, by elf_load or process_load_binary
  fd,                 \* their descriptor
  res,                \* their result, when they are about to close it
  l,                  \* the objects the load has in its local variables
  accepted,           \* history: the descriptors of ELF files that were accepted
  litter              \* history: what was lost before this load, and its paths

history == <<accepted, litter>>
vars == <<live, file_descriptors, processes, pc, prog, via, fd, res, l, history>>

NULL    == 0
Objects == 1 .. MaxObjects
Fds     == 1 .. MaxFds

\* A freed directory that an item still points to.
Dangling == MaxObjects + 1

FileFields == {"desc", "fat", "item", "body", "entries"}
ProcFields == {"proc", "elf", "mem", "stack", "task"}

NoFile == [x \in FileFields |-> NULL]
Nothing == [x \in FileFields \cup ProcFields |-> NULL]

Init == /\ live = {}
        /\ file_descriptors = [i \in Fds |-> NoFile]
        /\ processes = {}
        /\ pc = "idle" /\ prog = "none" /\ via = "elf" /\ fd = 0 /\ res = "ok"
        /\ l = Nothing
        /\ accepted = {} /\ litter = {}

\* The pointers to an object: in the table, in a process, in the load's variables.
InTable(o)     == {s \in Fds \X FileFields : file_descriptors[s[1]][s[2]] = o}
InProcesses(o) == {s \in processes \X ProcFields : s[1][s[2]] = o}
InLoad(o)      == {x \in DOMAIN l : l[x] = o}
Holders(o) == Cardinality(InTable(o)) + Cardinality(InProcesses(o)) + Cardinality(InLoad(o))

\* What is allocated and can no longer be reached.
Lost == {o \in live : Holders(o) = 0}

-----------------------------------------------------------------------------
(* The heap, and where a load goes on *)

HeapFull == live = Objects
NewObject == Min(Objects \ live)

\* kzalloc of an object that is kept in local variable x.
Kzalloc(x) == /\ ~HeapFull
              /\ live' = live \cup {NewObject}
              /\ l' = [l EXCEPT ![x] = NewObject]

Kfree(ids) == live' = live \ ids

Goto(label) == pc' = label

\* The load returns; of what its variables hold, nothing is freed here.
Return == /\ Goto("idle")
          /\ l' = Nothing /\ fd' = 0 /\ res' = "ok" /\ via' = "elf" /\ prog' = "none"

Wild == /\ Goto("wild")
        /\ UNCHANGED <<live, file_descriptors, processes, prog, via, fd, res, l, history>>

NoFdNegative ==
  /\ Goto("opened") /\ fd' = -1
  /\ l' = [x \in DOMAIN l |-> IF x \in FileFields THEN NULL ELSE l[x]]
  /\ UNCHANGED live

\* fopen returns 0.  What it has allocated is lost.
NoFd == /\ Goto("opened") /\ fd' = 0
        /\ l' = [x \in DOMAIN l |-> IF x \in FileFields THEN NULL ELSE l[x]]
        /\ UNCHANGED live

\* elf_load or process_load_binary goes to its end with an error.
Leave(error) == Goto("close") /\ res' = error

-----------------------------------------------------------------------------
(* process_load_for_slot, elf_load *)

Begin(p) ==
  /\ pc = "idle" /\ Cardinality(processes) < MaxProcesses
  /\ Kzalloc("proc") /\ Goto("elf") /\ prog' = p
  /\ litter' = Lost
  /\ UNCHANGED <<file_descriptors, processes, via, fd, res, accepted>>

\* No memory for the process, or no free slot; then proc is read uninitialised.
Refused ==
  /\ pc = "idle"
  /\ \/ HeapFull /\ UNCHANGED vars
     \/ Cardinality(processes) = MaxProcesses /\ (UNCHANGED vars \/ Wild)

AllocElf ==
  /\ pc = "elf"
  /\ IF HeapFull THEN Return /\ UNCHANGED live
                 ELSE Kzalloc("elf") /\ Goto("fopen") /\ UNCHANGED <<prog, via, fd, res>>
  /\ UNCHANGED <<file_descriptors, processes, history>>

-----------------------------------------------------------------------------
(* fopen: the path is parsed, and never freed. *)

ParsePath ==
  /\ pc = "fopen" /\ ~HeapFull
  /\ live' = live \cup {NewObject} /\ litter' = litter \cup {NewObject}
  /\ IF prog = "no name" THEN Goto("opened") /\ fd' = 0
                         ELSE Goto("fat16_open") /\ UNCHANGED fd
  /\ UNCHANGED <<file_descriptors, processes, prog, via, res, l, accepted>>

Fat16Open ==
  /\ pc = "fat16_open"
  /\ IF HeapFull THEN NoFd ELSE Kzalloc("fat") /\ Goto("find") /\ UNCHANGED fd
  /\ UNCHANGED <<file_descriptors, processes, prog, via, res, history>>

\* fat16_new_fat_item_for_directory_item, for the entry with the name.
FindItem ==
  /\ pc = "find"
  /\ IF prog = "missing" \/ HeapFull
       THEN NoFd
       ELSE Kzalloc("item") /\ Goto("load item") /\ UNCHANGED fd
  /\ UNCHANGED <<file_descriptors, processes, prog, via, res, history>>

\* Without memory for the copy of its entry a file is opened all the same.
CloneItem ==
  /\ pc = "load item" /\ prog # "directory"
  /\ IF HeapFull THEN UNCHANGED <<live, l>> ELSE Kzalloc("body")
  /\ Goto("new descriptor")
  /\ UNCHANGED <<file_descriptors, processes, prog, via, fd, res, history>>

\* fat16_load_fat_directory: when the entries cannot be allocated or read, the
\* directory is freed, and returned.
LoadDirectory ==
  /\ pc = "load item" /\ prog = "directory"
  /\ \/ HeapFull /\ UNCHANGED <<live, l>>
     \/ ~HeapFull /\ l' = [l EXCEPT !.body = Dangling] /\ UNCHANGED live
     \/ /\ Cardinality(Objects \ live) >= 2
        /\ LET e == Min(Objects \ (live \cup {NewObject})) IN
             /\ live' = live \cup {NewObject, e}
             /\ l' = [l EXCEPT !.body = NewObject, !.entries = e]
  /\ Goto("new descriptor")
  /\ UNCHANGED <<file_descriptors, processes, prog, via, fd, res, history>>

FreeFds == {i \in Fds : file_descriptors[i] = NoFile}

\* file_new_descriptor, and the end of fopen.  (The table is never seen full: the
\* load that gets its last descriptor does not survive fclose.)
NewDescriptor ==
  /\ pc = "new descriptor"
  /\ IF FreeFds = {}
       THEN NoFd /\ UNCHANGED file_descriptors
       ELSE /\ ~HeapFull
            /\ live' = live \cup {NewObject}
            /\ fd' = Min(FreeFds)
            /\ file_descriptors' = [file_descriptors EXCEPT ![Min(FreeFds)] =
                 [x \in FileFields |-> IF x = "desc" THEN NewObject ELSE l[x]]]
            /\ l' = [x \in DOMAIN l |-> IF x \in FileFields THEN NULL ELSE l[x]]
            /\ Goto("opened")
  /\ UNCHANGED <<processes, prog, via, res, history>>

\* pathparser_parse and file_new_descriptor write through a NULL pointer.
NullWritten ==
  /\ HeapFull
  /\ \/ pc = "fopen"
     \/ pc = "new descriptor" /\ FreeFds # {}
  /\ Wild

-----------------------------------------------------------------------------
(* fstat, kzalloc for the file's content, fread *)

\* file_get_descriptor finds it.
Known(i) == i > 0 /\ i < MaxFds /\ file_descriptors[i] # NoFile

\* fstat of a file whose entry could not be copied reads through NULL.
Fstat ==
  /\ pc = "opened"
  /\ IF ~Known(fd) THEN Leave("EIO")
     ELSE IF prog = "directory" THEN Leave("EINVARG")
     ELSE IF file_descriptors[fd].body = NULL THEN Goto("wild") /\ UNCHANGED res
     ELSE Goto("kzalloc") /\ UNCHANGED res
  /\ UNCHANGED <<live, file_descriptors, processes, prog, via, fd, l, history>>

\* A large object may find no room before the heap is full.
AllocContent ==
  /\ pc = "kzalloc"
  /\ \/ Kzalloc("mem") /\ Goto("fread") /\ UNCHANGED res
     \/ Leave("ENOMEM") /\ UNCHANGED <<live, l>>
  /\ UNCHANGED <<file_descriptors, processes, prog, via, fd, history>>

CleanNothing(error) == Leave(error) /\ UNCHANGED <<live, l>>

\* elf_load's label clean.
Clean(error) == Leave(error) /\ Kfree({l.mem}) /\ l' = [l EXCEPT !.mem = NULL]

\* process_load_binary does not free what it could not read.
Fread ==
  /\ pc = "fread"
  /\ \/ IF via = "elf" THEN Goto("validate") /\ UNCHANGED <<live, l, res>>
                       ELSE Leave("ok") /\ UNCHANGED <<live, l>>
     \/ IF via = "elf" THEN Clean("EIO") ELSE Leave("EIO") /\ UNCHANGED <<live, l>>
  /\ UNCHANGED <<file_descriptors, processes, prog, via, fd, history>>

\* elf_process_loaded.  A file that is accepted stays open.
Validate ==
  /\ pc = "validate"
  /\ CASE prog = "elf"  -> /\ Goto("stack") /\ fd' = 0 /\ accepted' = accepted \cup {fd}
                           /\ UNCHANGED <<live, l, res>>
       [] prog = "flat" -> Clean("EINFORMAT") /\ UNCHANGED <<fd, accepted>>
       [] OTHER         -> Clean("EINVELFTYPE") /\ UNCHANGED <<fd, accepted>>
  /\ UNCHANGED <<file_descriptors, processes, prog, via, litter>>

-----------------------------------------------------------------------------
(* fclose, at the end of elf_load (label out) and of process_load_binary *)

FcloseKeepsEntry ==
  /\ UNCHANGED file_descriptors
  /\ LET f == file_descriptors[fd] IN Kfree({f[x] : x \in FileFields} \cup {l.elf})

FcloseOmitted == Kfree({l.elf}) /\ UNCHANGED file_descriptors

FcloseOfOpen ==
  /\ file_descriptors' = [file_descriptors EXCEPT ![fd] = NoFile]
  /\ LET f == file_descriptors[fd] IN Kfree({f[x] : x \in FileFields} \cup {l.elf})

\* elf_load frees elf_file first (process_load_binary has none).  fclose of 0 is
\* refused; of a descriptor that is not found, it reads through NULL; of one
\* with a freed directory, that is freed again.
Fclose ==
  /\ pc = "close"
  /\ \/ fd = 0 /\ Kfree({l.elf}) /\ UNCHANGED file_descriptors
     \/ Known(fd) /\ file_descriptors[fd].body # Dangling /\ FcloseOfOpen
  /\ CASE res = "ok" -> /\ Goto("stack") /\ fd' = 0
                        /\ UNCHANGED <<l, res, via, prog>>
       [] res = "EINFORMAT" -> /\ Goto("fopen") /\ fd' = 0 /\ res' = "ok" /\ via' = "bin"
                               /\ l' = [l EXCEPT !.elf = NULL]
                               /\ UNCHANGED prog
       [] OTHER -> Return
  /\ UNCHANGED <<processes, history>>

FcloseUnknown ==
  /\ pc = "close" /\ fd # 0
  /\ ~Known(fd) \/ file_descriptors[fd].body = Dangling
  /\ Wild

-----------------------------------------------------------------------------
(* The rest of process_load_for_slot *)

AllocStack ==
  /\ pc = "stack"
  /\ \/ Kzalloc("stack") /\ Goto("task") /\ UNCHANGED <<prog, via, fd, res>>
     \/ Return /\ UNCHANGED live
  /\ UNCHANGED <<file_descriptors, processes, history>>

\* Without memory task_new frees a task through NULL.
TaskNew ==
  /\ pc = "task"
  /\ \/ Kzalloc("task") /\ Goto("map")
     \/ Goto("wild") /\ UNCHANGED <<live, l>>
  /\ UNCHANGED <<file_descriptors, processes, prog, via, fd, res, history>>

\* process_map_memory, and the process is in the table; or, for an ELF segment
\* whose size wraps the address space, task_free.
Map ==
  /\ pc = "map"
  /\ \/ /\ processes' = processes \cup {[x \in ProcFields |-> l[x]]}
        /\ UNCHANGED live
     \/ via = "elf" /\ Kfree({l.task}) /\ UNCHANGED processes
  /\ Return
  /\ UNCHANGED <<file_descriptors, history>>

-----------------------------------------------------------------------------

Stopped == pc = "wild" /\ UNCHANGED vars

Next == \/ \E p \in Programs : Begin(p)
        \/ Refused \/ AllocElf \/ ParsePath \/ Fat16Open \/ FindItem \/ CloneItem
        \/ LoadDirectory \/ NewDescriptor \/ NullWritten
        \/ Fstat \/ AllocContent \/ Fread \/ Validate \/ Fclose \/ FcloseUnknown
        \/ AllocStack \/ TaskNew \/ Map \/ Stopped

Spec == Init /\ [][Next]_vars

-----------------------------------------------------------------------------
(* Correctness *)

Labels == {"idle", "elf", "fopen", "fat16_open", "find", "load item", "new descriptor",
           "opened", "kzalloc", "fread", "validate", "close", "stack", "task", "map", "wild"}

TypeOK == /\ live \subseteq Objects
          /\ file_descriptors \in [Fds -> [FileFields -> 0 .. Dangling]]
          /\ \A p \in processes : p \in [ProcFields -> 0 .. MaxObjects]
          /\ Cardinality(processes) <= MaxProcesses
          /\ pc \in Labels
          /\ prog \in Kinds \cup {"none"} /\ via \in {"elf", "bin"} /\ fd \in Fds \cup {0}
          /\ res \in {"ok", "EIO", "EINVARG", "ENOMEM", "EINFORMAT", "EINVELFTYPE"}
          /\ l \in [FileFields \cup ProcFields -> 0 .. Dangling]

\* Whatever fails, nothing that is still pointed to has been freed, and nothing
\* has two owners: no close or error path frees too much or leaves a pointer
\* behind.  (The directory that is returned after it was freed is the exception.)
OneHolder ==
  pc # "wild" => \A o \in Objects : Holders(o) <= 1 /\ (Holders(o) = 1 => o \in live)

\* Between loads the open descriptors are those of ELF files that were accepted
\* (elf_load does not close these): every other load has closed its file, on
\* every error path.
OnlyElfsStayOpen ==
  pc = "idle" => {i \in Fds : file_descriptors[i] # NoFile} = accepted

\* A load that gets as far as mapping its program has lost nothing but the
\* parsed paths, one for each fopen.
LosesOnlyPaths == pc = "map" => Lost \subseteq litter
=============================================================================
