--------------------------- MODULE MCPathLookup ---------------------------
(* A root directory of two entries, followed on the disk by one more, and a *)
(* subdirectory that contains itself, as "." does, of clusters of two       *)
(* entries: one that is full, two that lie together, and two that do not.   *)
EXTENDS PathLookup
CONSTANTS a, b, c, sub, file, other

Item(name, ext, attributes, first) ==
  [name |-> name, ext |-> ext, attributes |-> attributes, first |-> first]

Self  == Item(<<Dot, Pad>>, <<Pad>>, Subdirectory, sub)    \* .
Sub   == Item(<<a, Pad>>, <<Pad>>, Subdirectory, sub)      \* a
Text  == Item(<<a, Pad>>, <<c>>, Pad, file)                \* a.c
Other == Item(<<a, Pad>>, <<c>>, ReadOnly, other)          \* a.c, runs on
Full  == Item(<<a, b>>, <<Pad>>, Pad, other)               \* ab
Long  == Item(<<a, b>>, <<c>>, Pad, file)                  \* ab.c, runs on
Piece == Item(<<a, Zero>>, <<Zero>>, Volume, other)        \* of a long name: reads as a

MCItems == {Self, Sub, Text, Other, Full, Long, Piece}

InOnePiece(s, length) == [onDisk |-> s, entries |-> SubSeq(s, 1, Min({length, Len(s)}))]
Pieces == {<<Piece, Sub>>, <<Sub, Piece>>, <<Piece, Text, Sub>>, <<Text, Piece, Piece>>}
RootContents == {InOnePiece(Append(s, End), RootEntries) :
                   s \in Pieces \cup {t \in SeqOf({Sub, Text, Long, Unused}, 3) : Differ(t)}}
SubContents ==
  {InOnePiece(<<Self, End>>, 2), InOnePiece(<<Self, Text, End>>, 2),
   InOnePiece(<<Self, Piece, End>>, 2),
   InOnePiece(<<Self, Other, Full, End>>, 4),
   [onDisk |-> <<Self, Unused, Text, End>>, entries |-> <<Self, Unused, Full, End>>]}

MCDisks == {[dir \in Dirs |-> IF dir = Root THEN r ELSE s] : r \in RootContents, s \in SubContents}

Components == {<<a>>, <<Dot>>, <<a, Dot, c>>, <<a, b>>, Empty}
MCPaths == [drive : {"0:/"}, components : SeqOf(Components, 3)]
             \cup [drive : {"1:/", "bad"}, components : SeqOf(Components, 1)]
=============================================================================
