------------------------------- MODULE Fat16 -------------------------------
(***************************************************************************)
(* Reading files: fread and fseek of fs/fat/fat16.c on top of              *)
(* disk/streamer.c, one step per loop iteration or recursive call.         *)
(*                                                                         *)
(* A byte of the disk is named by its position, and what a read delivers   *)
(* is the sequence of the positions of its bytes.  Of the disk's content   *)
(* only the 16-bit words matter that fat16_get_fat_entry reads: word[p] is *)
(* the one at position p, whatever is stored there.  A sector that the     *)
(* disk does not have is never delivered: disk_read_sector polls forever.  *)
(***************************************************************************)
EXTENDS Integers, Sequences

CONSTANTS
  SectorSize, SectorsPerCluster,
  FatSector, FatSectors,        \* where the file allocation tables are
  DataSector,                   \* root_directory.ending_sector_pos
  Sectors,                      \* of the disk
  Files, FirstCluster, FileSize,
  Words,                        \* what a word of the disk may be
  Sizes, Counts, Offsets,       \* arguments of fread and fseek
  MaxPos,                       \* bounds a descriptor's position
  None

ClusterBytes == SectorsPerCluster * SectorSize

ASSUME Fat16Assumption ==
  /\ SectorSize \in Nat \ {0} /\ SectorsPerCluster \in Nat \ {0}
  /\ FatSector \in Nat /\ FatSectors \in Nat /\ DataSector \in Nat /\ Sectors \in Nat
  /\ FirstCluster \in [Files -> Words] /\ FileSize \in [Files -> Nat]
  /\ Words \subseteq Nat /\ Offsets \subseteq Int /\ MaxPos \in Nat
  /\ Sizes \subseteq Nat \ {0} /\ Counts \subseteq Nat \ {0}
  /\ \A f \in Files, o \in Offsets : o < FileSize[f] => o <= MaxPos

VARIABLES
  word,         \* the disk's words at the positions of FAT entries
  pos,          \* fat_file_descriptor.pos of every open file
  fat, data,    \* the positions of fat_read_stream and cluster_read_stream
  pc,
  file, size, count,  \* fread's descriptor, size and elements still to read
  offset,       \* the offset of fat16_read's current element
  total,        \* bytes of the element still to read
  cluster, ahead,     \* fat16_get_cluster_for_offset: where it is, and how far to go
  want,         \* bytes that diskstreamer_read still has to deliver
  out           \* what has been delivered to the caller

call   == <<file, size, count, offset>>
locals == <<call, total, cluster, ahead, fat, data, want, out>>
vars   == <<word, pos, pc, locals>>

\* End of chain (0xFF8, 0xFFF), bad (0xFF7), reserved (0xFF0, 0xFF6), free.
Refused == {4088, 4095, 4087, 4080, 4086, 0}

fat16_cluster_to_sector(c) == DataSector + (c - 2) * SectorsPerCluster

\* The position that fat16_get_fat_entry seeks: a product, not a sum.  (It wraps
\* only for cluster numbers above 20000, which the disk does not have; then it
\* is one more position that has nothing to do with the entry.)
FatEntryPos(c) == FatSector * SectorSize * c * 2

OnDisk(position) == position \div SectorSize \in 0 .. Sectors - 1

\* What a chain can lead through; a file's first cluster is taken as it is.
Clusters == (Words \ Refused) \cup {FirstCluster[f] : f \in Files}

EntryPositions == {p \in {FatEntryPos(c) : c \in Clusters} : OnDisk(p)}

Init ==
  /\ word \in [EntryPositions -> Words]
  /\ pos = [f \in Files |-> 0]
  /\ pc = "idle"
  /\ file = None /\ size = 0 /\ count = 0 /\ offset = 0
  /\ total = 0 /\ cluster = 0 /\ ahead = 0
  /\ fat = 0 /\ data = 0 /\ want = 0 /\ out = <<>>

-----------------------------------------------------------------------------
(* fseek: the comparison is unsigned, a negative offset is as good as too     *)
(* large.  SEEK_CURR checks the offset only, MaxPos bounds where it leads.    *)

SeekTo(f, p) == pos' = [pos EXCEPT ![f] = p]

Fseek(f, o) ==
  /\ pc = "idle"
  /\ o >= 0 /\ o < FileSize[f]
  /\ SeekTo(f, o) \/ (pos[f] + o <= MaxPos /\ SeekTo(f, pos[f] + o))
  /\ UNCHANGED <<word, pc, locals>>

-----------------------------------------------------------------------------
(* fread *)

Fread(f, s, n) ==
  /\ pc = "idle"
  /\ pc' = "element"
  /\ file' = f /\ size' = s /\ count' = n
  /\ offset' = pos[f] /\ total' = s
  /\ UNCHANGED <<word, pos, fat, data, cluster, ahead, want, out>>

\* fat_16_read_internal_from_stream: the bytes from Here to the element's end
\* are still to be read, and are read in chunks.
Here      == offset + size - total
ChunkFull == ClusterBytes
Chunk     == IF total > ClusterBytes THEN ClusterBytes ELSE total

ReadChunk ==
  /\ pc = "element" /\ count > 0 /\ total > 0
  /\ pc' = "chain"
  /\ cluster' = FirstCluster[file]
  /\ ahead' = Here \div ClusterBytes
  /\ UNCHANGED <<word, pos, fat, data, call, total, want, out>>

ChainToItsEnd ==
  /\ pc = "chain" /\ ahead > 0
  /\ OnDisk(FatEntryPos(cluster))
  /\ fat' = FatEntryPos(cluster) + 2
  /\ LET entry == word[FatEntryPos(cluster)] IN
       IF entry \in Refused THEN pc' = "EIO" /\ UNCHANGED cluster
                            ELSE cluster' = entry /\ UNCHANGED pc
  /\ UNCHANGED <<word, pos, data, call, total, ahead, want, out>>

\* fat16_get_cluster_for_offset, one FAT entry.
FollowChain ==
  /\ pc = "chain" /\ ahead > 0
  /\ OnDisk(FatEntryPos(cluster))
  /\ fat' = FatEntryPos(cluster) + 2
  /\ LET entry == word[FatEntryPos(cluster)] IN
       IF entry \in Refused
         THEN pc' = "EIO" /\ UNCHANGED <<cluster, ahead>>
         ELSE cluster' = entry /\ ahead' = ahead - 1 /\ UNCHANGED pc
  /\ UNCHANGED <<word, pos, data, call, total, want, out>>

SeekClusterStart ==
  /\ pc = "chain" /\ ahead = 0
  /\ data' = fat16_cluster_to_sector(cluster) * SectorSize
  /\ want' = Chunk
  /\ pc' = "stream"
  /\ UNCHANGED <<word, pos, fat, call, total, cluster, ahead, out>>

SeekCluster ==
  /\ pc = "chain" /\ ahead = 0
  /\ data' = fat16_cluster_to_sector(cluster) * SectorSize + (Here % ClusterBytes)
  /\ want' = Chunk
  /\ pc' = "stream"
  /\ UNCHANGED <<word, pos, fat, call, total, cluster, ahead, out>>

\* diskstreamer_read reads one sector, and calls itself when it used that up,
\* even if no byte is left to read.
Overflow == (data % SectorSize) + want >= SectorSize
Taken    == IF Overflow THEN SectorSize - (data % SectorSize) ELSE want

ReadSector ==
  /\ pc = "stream" /\ OnDisk(data)
  /\ out' = out \o [k \in 1 .. Taken |-> data + k - 1]
  /\ data' = data + Taken
  /\ want' = want - Taken
  /\ IF Overflow THEN UNCHANGED <<pc, total>>
                 ELSE pc' = "element" /\ total' = total - Chunk
  /\ UNCHANGED <<word, pos, fat, call, cluster, ahead>>

NextElement ==
  /\ pc = "element" /\ count > 0 /\ total = 0
  /\ offset' = offset + size /\ count' = count - 1
  /\ total' = size
  /\ UNCHANGED <<word, pos, fat, data, pc, file, size, cluster, ahead, want, out>>

\* The locals die with the call.  Where the streams are left makes no difference
\* either: they are sought before every read.
FreadReturns ==
  /\ pc = "EIO" \/ (pc = "element" /\ count = 0)
  /\ pc' = "idle"
  /\ file' = None /\ size' = 0 /\ count' = 0 /\ offset' = 0
  /\ total' = 0 /\ cluster' = 0 /\ ahead' = 0
  /\ fat' = 0 /\ data' = 0 /\ want' = 0 /\ out' = <<>>
  /\ UNCHANGED <<word, pos>>

\* disk_read_sector waits for a sector that the disk does not have.
Polling == \/ pc = "stream" /\ ~OnDisk(data)
           \/ pc = "chain" /\ ahead > 0 /\ ~OnDisk(FatEntryPos(cluster))

Poll == Polling /\ UNCHANGED vars

Step == \/ ReadChunk \/ FollowChain \/ SeekCluster
        \/ ReadSector \/ NextElement \/ FreadReturns

Next == \/ \E f \in Files, o \in Offsets : Fseek(f, o)
        \/ \E f \in Files, s \in Sizes, n \in Counts : Fread(f, s, n)
        \/ Step \/ Poll

Spec == Init /\ [][Next]_vars

\* The kernel is not preempted: a call that can go on does.
FairSpec == Spec /\ WF_vars(Step)

-----------------------------------------------------------------------------
(* Correctness *)

TypeOK == /\ word \in [EntryPositions -> Words]
          /\ pos \in [Files -> 0 .. MaxPos]
          /\ fat \in Nat /\ data \in Int
          /\ pc \in {"idle", "element", "chain", "stream", "EIO"}
          /\ file \in Files \cup {None}
          /\ size \in Sizes \cup {0} /\ count \in Nat /\ offset \in Nat
          /\ total \in 0 .. size /\ want \in 0 .. size
          /\ cluster \in Words \cup {0} /\ ahead \in Nat

\* The file's k-th cluster, and the disk position of its o-th byte, as the
\* words that are read for FAT entries have it.
Chain[k \in Nat] == IF k = 0 THEN FirstCluster[file]
                             ELSE word[FatEntryPos(Chain[k - 1])]
FileByte(o) == fat16_cluster_to_sector(Chain[o \div ClusterBytes]) * SectorSize
               + (o % ClusterBytes)

\* The element that starts at offset o begins with its cluster or stays inside.
Aligned(o) == o % ClusterBytes = 0 \/ (o % ClusterBytes) + size <= ClusterBytes

\* A successful fread delivers exactly the file's bytes from the descriptor's
\* position on, whichever sectors, clusters and elements they are spread over,
\* and whatever was read or sought before.  It does so if no element runs from
\* the middle of a cluster into the next: such a read goes on in the next
\* cluster of the disk.
ReadExact ==
  pc = "element" /\ count = 0
  /\ (\A o \in pos[file] .. offset - 1 : (o - pos[file]) % size = 0 => Aligned(o))
  => out = [k \in 1 .. offset - pos[file] |-> FileByte(pos[file] + k - 1)]

\* A read ends, unless the disk is asked for a sector that it does not have.
ReadsReturn == pc # "idle" ~> pc = "idle" \/ Polling

\* "used to stream file allocation table" (src/fs/fat/fat16.c): what is read for
\* a FAT entry lies in the file allocation tables.  The code does not achieve it.
FatStreamInTable ==
  fat # 0 => (fat - 2) \div SectorSize \in FatSector .. FatSector + FatSectors - 1
=============================================================================
