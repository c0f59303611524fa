------------------------------ MODULE MCElfMap ------------------------------
(* Pages of two bytes; segments begin and end in the middle of a page or at *)
(* its end, and have less in the file than in memory.                       *)
EXTENDS ElfMap
MCSegments == {s \in [offset : 0 .. 3, vaddr : ProgramAt .. ProgramAt + 3, filesz : 0 .. 3,
                      memsz : 1 .. 3, w : BOOLEAN] :
                 s.filesz <= s.memsz /\ s.offset % PageSize = s.vaddr % PageSize}
=============================================================================
