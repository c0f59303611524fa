--------------------------- MODULE MCProcessMemory ---------------------------
(* Two processes with two allocation slots each, on a heap of five blocks    *)
(* besides the one taken at boot.                                            *)
EXTENDS ProcessMemory, TLC
CONSTANTS p1, p2
Interchangeable == Permutations({p1, p2})

Page(at, w) == [at |-> at, w |-> w]

\* An ELF file whose writable segment lies behind it in memory, and one of two blocks
\* with a segment at an address of the heap.
Bss  == [blocks |-> 1, pages |-> Program :> Page(0, FALSE) @@ Program + 1 :> Page(1, TRUE)]
High == [blocks |-> 2, pages |-> Program :> Page(1, FALSE) @@ Low + 4 :> Page(0, TRUE)]

MCFiles == {Bss, High}
=============================================================================
