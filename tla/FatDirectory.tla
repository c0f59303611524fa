---------------------------- MODULE FatDirectory ----------------------------
(***************************************************************************)
(* A FAT16 directory on the disk, and what the kernel takes from it: the   *)
(* entries are counted on the disk up to a zero byte, sector after sector, *)
(* and as many are compared in the copy that the kernel made.              *)
(*                                                                         *)
(* A directory is a record.  "onDisk" is what is on the disk from its      *)
(* first entry on; its last element is a zero byte somewhere on the disk.  *)
(* "entries" are the directory's own: at most RootEntries of the root      *)
(* directory, behind which other data follows, and of another directory    *)
(* those of all its clusters.  The root directory lies in one piece, of    *)
(* another one this is known only of its first cluster.                    *)
(***************************************************************************)
EXTENDS FatName, FiniteSetsExt

CONSTANTS Items,          \* the entries there can be, with what each stands for
          Unused, End,    \* by filename[0]: 0xE5, 0x00
          RootEntries,
          ClusterEntries  \* the entries of one cluster

ASSUME FatDirectoryAssumption ==
  /\ RootEntries \in Nat \ {0} /\ ClusterEntries \in Nat \ {0}
  /\ {Unused, End} \cap Items = {}
  /\ \A item \in Items : /\ Len(item.name) = NameSize /\ Len(item.ext) = ExtSize
                        /\ \/ item.attributes = Volume
                           \/ Padded(item.name, NameSize) /\ Padded(item.ext, ExtSize)

Together(root) == IF root THEN RootEntries ELSE ClusterEntries

\* No two files of a directory have the same name.
Differ(entries) ==
  LET files == {k \in DOMAIN entries : entries[k] \in Items /\ entries[k].attributes # Volume}
  IN  \A k, m \in files : FileName(entries[k]) = FileName(entries[m]) => k = m

IsDirectory(d, root) ==
  /\ d.onDisk \in Seq(Items \cup {Unused, End}) /\ d.entries \in Seq(Items \cup {Unused, End})
  /\ \E k \in DOMAIN d.onDisk : d.onDisk[k] = End
  /\ \A k \in 1 .. Together(root) :
       (k <= Len(d.entries) \/ k <= Len(d.onDisk)) =>
         k <= Len(d.entries) /\ k <= Len(d.onDisk) /\ d.entries[k] = d.onDisk[k]
  /\ root => Len(d.entries) <= RootEntries
  /\ Differ(d.entries)

ZeroAt(onDisk) == Min({k \in DOMAIN onDisk : onDisk[k] = End})

total_items(onDisk) == Cardinality({k \in 1 .. ZeroAt(onDisk) - 1 : onDisk[k] # Unused})

\* What is at index k of the copy, which has the entries counted, or the size of
\* the root directory.  Behind this is the heap; a second cluster is looked for at
\* a wrong place in the table: what is read there is unknown.
Copied(d, root, k) == IF k <= Together(root) THEN {d.onDisk[k]} ELSE Items \cup {Unused, End}

-----------------------------------------------------------------------------
(* What a directory lists *)

EndsAt(d) == Min({k \in DOMAIN d.entries : d.entries[k] = End} \cup {Len(d.entries) + 1})
Listed(d) == {d.entries[k] : k \in 1 .. EndsAt(d) - 1} \ {Unused}

\* All entries lie together and a zero byte follows them, also if the root directory
\* or the cluster is full; none was deleted; each file's name is ended by its field
\* or by a blank, and no label or piece of a long name reads as the name looked for.
Tidy(d, root, called) ==
  /\ ZeroAt(d.onDisk) = EndsAt(d) /\ EndsAt(d) - 1 <= Together(root)
  /\ \A k \in 1 .. EndsAt(d) - 1 :
       /\ d.entries[k] # Unused
       /\ IF d.entries[k].attributes = Volume
            THEN full_relative_filename(d.entries[k]) # called
            ELSE ~RunsOn(d.entries[k])
=============================================================================
