-------------------------- MODULE FileSystemProofs --------------------------
(***************************************************************************)
(* Proofs about the file system.  Reading files, of Fat16: for every       *)
(* geometry of the disk, every content of its words, and every set of      *)
(* files, sizes and offsets.  Looking up paths, of PathLookup: for every   *)
(* size of the fields of a name, every set of entries and directories,     *)
(* and every set of paths.                                                 *)
(***************************************************************************)
EXTENDS Fat16, PathLookup, FiniteSetTheorems, SequenceTheorems, WellFoundedInduction, TLAPS


(* The inductive invariant of reads *)

Reading == {"element", "chain", "stream"}

\* The elements that begin below n begin with their cluster or stay inside.
Tame(n) == \A o \in pos[file] .. n - 1 : (o - pos[file]) % size = 0 => Aligned(o)

\* What has been delivered are the file's bytes up to n.
Exact(n) == out = [k \in 1 .. n - pos[file] |-> FileByte(pos[file] + k - 1)]

\* A read is at the beginning of an element, and an element at that of a chunk.
InCall ==
  /\ pc = "idle" => out = <<>> /\ want = 0
  /\ pc \in Reading =>
       /\ file \in Files /\ size \in Sizes
       /\ pos[file] <= offset /\ (offset - pos[file]) % size = 0
       /\ count = 0 => total = size
  /\ pc \in {"chain", "stream"} => total > 0 /\ count > 0

\* The chunk that is read next does not leave its cluster, if the element does not
\* run from the middle of a cluster into the next.
ChunkStays ==
  pc \in Reading /\ total > 0 /\ Aligned(offset) =>
    Here % ClusterBytes = 0 \/ (Here % ClusterBytes) + total <= ClusterBytes

\* How far fat16_get_cluster_for_offset has come on the chain.
OnChain ==
  pc = "chain" =>
    /\ cluster \in Clusters
    /\ ahead <= Here \div ClusterBytes
    /\ cluster = Chain[(Here \div ClusterBytes) - ahead]

\* Between chunks everything up to Here has been delivered.
Delivered == pc \in {"element", "chain"} /\ Tame(Here) => Exact(Here)

\* Within a chunk all but the last want bytes, and the stream is where it should be.
Streamed ==
  pc = "stream" =>
    /\ want <= Chunk
    /\ Chain[Here \div ClusterBytes] \in Clusters
    /\ FileByte(Here) = data - (Chunk - want)
    /\ Tame(Here + 1) => Exact(Here + Chunk - want)

IInv == TypeOK /\ InCall /\ ChunkStays /\ OnChain /\ Delivered /\ Streamed

-----------------------------------------------------------------------------
(* Arithmetic *)

\* A remainder is below its divisor.
LEMMA ModRange ==
  ASSUME NEW a \in Int, NEW n \in Nat \ {0}
  PROVE  a % n \in 0 .. n - 1
OBVIOUS

\* Division with remainder.
LEMMA DivMod ==
  ASSUME NEW a \in Int, NEW n \in Nat \ {0}
  PROVE  a \div n \in Int /\ a = n * (a \div n) + (a % n)
OBVIOUS

\* Only 0 is a multiple of n nearer to 0 than n.
LEMMA SmallMultiple ==
  ASSUME NEW n \in Nat \ {0}, NEW q \in Int, NEW r \in Int,
         n * q = r, -n < r, r < n
  PROVE  q = 0
OBVIOUS

\* Quotient and remainder are unique.
LEMMA DivModUnique ==
  ASSUME NEW a \in Int, NEW n \in Nat \ {0}, NEW q \in Int, NEW r \in 0 .. n - 1,
         a = n * q + r
  PROVE  a \div n = q /\ a % n = r
<1> DEFINE d == a \div n
           m == a % n
<1>1. d \in Int /\ m \in 0 .. n - 1 /\ a = n * d + m
  BY DivMod, ModRange
<1> HIDE DEF d, m
<1>2. n * (d - q) = r - m
  BY <1>1
<1>3. d - q = 0
  BY <1>1, <1>2, SmallMultiple
<1>4. d = q
  BY <1>1, <1>3
<1>5. m = r
  BY <1>1, <1>4
<1> QED
  BY <1>4, <1>5 DEF d, m

\* As long as a remainder and what is added stay below n, only it changes.
LEMMA SameQuotient ==
  ASSUME NEW a \in Int, NEW n \in Nat \ {0}, NEW d \in Nat, (a % n) + d < n
  PROVE  (a + d) \div n = a \div n /\ (a + d) % n = (a % n) + d
<1> DEFINE q == a \div n
           m == a % n
<1>1. q \in Int /\ m \in 0 .. n - 1 /\ a = n * q + m /\ m + d < n
  BY DivMod, ModRange
<1> HIDE DEF q, m
<1>2. a + d \in Int /\ m + d \in 0 .. n - 1 /\ a + d = n * q + (m + d)
  BY <1>1
<1>3. (a + d) \div n = q /\ (a + d) % n = m + d
  BY <1>1, <1>2, DivModUnique
<1> QED
  BY <1>3 DEF q, m

\* Adding n changes no remainder.
LEMMA NextMultiple ==
  ASSUME NEW a \in Int, NEW n \in Nat \ {0}
  PROVE  (a + n) % n = a % n
<1> DEFINE q == a \div n
           m == a % n
<1>1. q \in Int /\ m \in 0 .. n - 1 /\ a = n * q + m
  BY DivMod, ModRange
<1> HIDE DEF q, m
<1>2. a + n \in Int /\ q + 1 \in Int /\ a + n = n * (q + 1) + m
  BY <1>1
<1>3. (a + n) % n = m
  BY <1>1, <1>2, DivModUnique
<1> QED
  BY <1>3 DEF m

\* The quotient of a natural number is one.
LEMMA DivNat ==
  ASSUME NEW a \in Nat, NEW n \in Nat \ {0}
  PROVE  a \div n \in Nat
OBVIOUS

\* A cluster has at least one byte.
LEMMA ClusterNotEmpty == ClusterBytes \in Nat \ {0}
BY Fat16Assumption DEF ClusterBytes

\* A set of natural numbers has a least one.
LEMMA LeastNatural ==
  ASSUME NEW S \in SUBSET Nat, S # {}
  PROVE  \E x \in S : \A y \in S : x <= y
<1> PICK n \in S : TRUE
  OBVIOUS
<1> DEFINE Below == {0 .. x : x \in {y \in S : y <= n}}
<1>1. IsFiniteSet(0 .. n)
  BY FS_Interval
<1>2. IsWellFoundedOn(StrictSubsetOrdering(0 .. n), SUBSET (0 .. n))
  <2>1. FiniteSubsetsOf(0 .. n) = SUBSET (0 .. n)
    BY <1>1, FS_FiniteSubsetsOfFinite
  <2> QED
    BY <2>1, FS_StrictSubsetOrderingWellFounded
<1>3. Below \subseteq SUBSET (0 .. n) /\ Below # {}
  <2>1. \A x \in {y \in S : y <= n} : 0 .. x \in SUBSET (0 .. n)
    OBVIOUS
  <2>2. 0 .. n \in Below
    OBVIOUS
  <2> QED
    BY <2>1, <2>2
<1>4. \E X \in Below : \A Y \in Below : <<Y, X>> \notin StrictSubsetOrdering(0 .. n)
  <2> HIDE DEF Below
  <2> QED BY <1>2, <1>3, WFMin
<1>5. PICK x \in S : x <= n /\ \A Y \in Below : <<Y, 0 .. x>> \notin StrictSubsetOrdering(0 .. n)
  BY <1>4
<1>6. \A y \in S : x <= y
  <2> SUFFICES ASSUME NEW y \in S, y < x PROVE FALSE
    OBVIOUS
  <2>1. 0 .. y \subseteq 0 .. x /\ x \notin 0 .. y /\ x \in 0 .. x /\ y <= n
    BY <1>5
  <2>2. 0 .. y \in Below /\ 0 .. y \in SUBSET (0 .. n) /\ 0 .. x \in SUBSET (0 .. n)
    BY <1>5, <2>1
  <2>3. <<0 .. y, 0 .. x>> \in StrictSubsetOrdering(0 .. n)
    <3> HIDE DEF Below
    <3> QED BY <2>1, <2>2 DEF StrictSubsetOrdering
  <2> QED
    BY <2>2, <2>3, <1>5
<1> QED
  BY <1>6

-----------------------------------------------------------------------------
(* The chain of a file *)

\* The beginning of the chain, up to its n-th cluster.
Link(g, k) == IF k = 0 THEN FirstCluster[file] ELSE word[FatEntryPos(g[k - 1])]
Follows(g, n) == g = [k \in 0 .. n |-> Link(g, k)]

\* The chain can be followed as far as one likes.
LEMMA ChainGoesOn == \A n \in Nat : \E g : Follows(g, n)
<1> DEFINE S == {m \in Nat : ~\E g : Follows(g, m)}
<1> SUFFICES ASSUME S # {} PROVE FALSE
  OBVIOUS
<1>1. PICK m \in S : \A y \in S : m <= y
  BY LeastNatural
<1>2. CASE m = 0
  <2>1. Follows([k \in 0 .. 0 |-> FirstCluster[file]], 0)
    BY DEF Follows, Link
  <2> QED
    BY <1>1, <1>2, <2>1
<1>3. CASE m # 0
  <2>1. m - 1 \in Nat /\ m - 1 \notin S /\ m \in Nat
    BY <1>1, <1>3
  <2>2. PICK g : Follows(g, m - 1)
    BY <2>1
  <2> DEFINE h == [k \in 0 .. m |-> IF k = m THEN word[FatEntryPos(g[m - 1])] ELSE g[k]]
  <2>3. \A k \in 0 .. m - 1 : g[k] = Link(g, k)
    BY <2>2 DEF Follows
  <2>4. ASSUME NEW k \in 0 .. m PROVE h[k] = Link(h, k)
    <3>1. CASE k = m
      <4>1. m - 1 \in 0 .. m /\ m - 1 # m
        BY <2>1
      <4> QED
        BY <1>3, <3>1, <4>1 DEF Link
    <3>2. CASE k # m
      <4>1. k \in 0 .. m - 1 /\ (k # 0 => k - 1 \in 0 .. m /\ k - 1 # m)
        BY <2>1, <3>2
      <4> QED
        BY <2>3, <3>2, <4>1 DEF Link
    <3> QED
      BY <3>1, <3>2
  <2>5. h = [k \in 0 .. m |-> Link(h, k)]
    <3>1. h = [k \in 0 .. m |-> h[k]]
      OBVIOUS
    <3> HIDE DEF h
    <3> QED
      BY <2>4, <3>1
  <2>6. Follows(h, m)
    <3> HIDE DEF h
    <3> QED
      BY <2>5 DEF Follows
  <2> QED
    BY <1>1, <2>6
<1> QED
  BY <1>2, <1>3

\* There is one way to follow it.
LEMMA ChainUnique ==
  ASSUME NEW n \in Nat, NEW m \in Nat, NEW g, NEW h,
         Follows(g, n), Follows(h, m), NEW k \in 0 .. n, k <= m
  PROVE  g[k] = h[k]
<1> DEFINE S == {j \in Nat : j <= k /\ g[j] # h[j]}
<1> SUFFICES ASSUME S # {} PROVE FALSE
  OBVIOUS
<1>1. PICK j \in S : \A y \in S : j <= y
  BY LeastNatural
<1>2. g[j] = Link(g, j) /\ h[j] = Link(h, j)
  <2>1. \A i \in 0 .. n : g[i] = Link(g, i)
    BY DEF Follows
  <2>2. \A i \in 0 .. m : h[i] = Link(h, i)
    BY DEF Follows
  <2>3. j \in 0 .. n /\ j \in 0 .. m
    BY <1>1
  <2> QED
    BY <2>1, <2>2, <2>3
<1>3. CASE j = 0
  BY <1>1, <1>2, <1>3 DEF Link
<1>4. CASE j # 0
  <2>1. j - 1 \in Nat /\ j - 1 <= k /\ j - 1 \notin S
    BY <1>1, <1>4
  <2> QED
    BY <1>1, <1>2, <1>4, <2>1 DEF Link
<1> QED
  BY <1>3, <1>4

\* The recursive definition of the chain says what it should.
LEMMA ChainIs ==
  /\ Chain[0] = FirstCluster[file]
  /\ \A k \in Nat : Chain[k + 1] = word[FatEntryPos(Chain[k])]
<1> DEFINE G(n) == CHOOSE g : Follows(g, n)
           c == [k \in Nat |-> G(k)[k]]
<1>1. \A n \in Nat : Follows(G(n), n)
  BY ChainGoesOn
<1> HIDE DEF G
<1>2. ASSUME NEW k \in Nat PROVE c[k] = Link(c, k)
  <2>1. G(k)[k] = Link(G(k), k)
    BY <1>1 DEF Follows
  <2>2. CASE k = 0
    BY <2>1, <2>2 DEF Link
  <2>3. CASE k # 0
    <3>1. k - 1 \in Nat /\ k - 1 \in 0 .. k /\ k - 1 <= k - 1
      BY <2>3
    <3>2. G(k)[k - 1] = G(k - 1)[k - 1]
      BY <1>1, <3>1, ChainUnique
    <3> QED
      BY <2>1, <2>3, <3>1, <3>2 DEF Link
  <2> QED
    BY <2>2, <2>3
<1>3. c = [k \in Nat |-> Link(c, k)]
  <2>1. c = [k \in Nat |-> c[k]]
    OBVIOUS
  <2> HIDE DEF c
  <2> QED
    BY <1>2, <2>1
<1>4. Chain = [k \in Nat |-> Link(Chain, k)]
  <2> HIDE DEF c
  <2> QED
    BY <1>3 DEF Chain, Link
<1>5. \A k \in Nat : Chain[k] = Link(Chain, k)
  BY <1>4
<1> QED
  <2>1. ASSUME NEW k \in Nat PROVE Chain[k + 1] = word[FatEntryPos(Chain[k])]
    <3>1. k + 1 \in Nat /\ k + 1 # 0 /\ (k + 1) - 1 = k
      OBVIOUS
    <3> QED
      BY <1>5, <3>1 DEF Link
  <2> QED
    BY <1>5, <2>1 DEF Link

-----------------------------------------------------------------------------
(* The bytes of a file *)

\* What is read of a file depends on the disk and on nothing else that changes.
LEMMA BytesKept ==
  ASSUME UNCHANGED <<word, file>>
  PROVE  Chain' = Chain /\ \A o : FileByte(o)' = FileByte(o)
<1>1. Chain' = Chain
  BY DEF Chain
<1> QED
  BY <1>1 DEF FileByte, fat16_cluster_to_sector

\* A cluster begins somewhere.
LEMMA ClusterStarts ==
  ASSUME NEW c \in Nat
  PROVE  fat16_cluster_to_sector(c) * SectorSize \in Int
<1>1. fat16_cluster_to_sector(c) \in Int
  BY Fat16Assumption DEF fat16_cluster_to_sector
<1> QED
  BY <1>1, Fat16Assumption

\* The bytes of one cluster of a file lie on the disk in their order.
LEMMA BytesInCluster ==
  ASSUME NEW o \in Nat, NEW d \in Nat, (o % ClusterBytes) + d < ClusterBytes,
         Chain[o \div ClusterBytes] \in Nat
  PROVE  FileByte(o + d) = FileByte(o) + d
<1> DEFINE s == fat16_cluster_to_sector(Chain[o \div ClusterBytes]) * SectorSize
           m == o % ClusterBytes
<1>1. (o + d) \div ClusterBytes = o \div ClusterBytes /\ (o + d) % ClusterBytes = m + d
  <2> DEFINE n == ClusterBytes
  <2>1. o \in Int /\ n \in Nat \ {0} /\ (o % n) + d < n
    BY ClusterNotEmpty
  <2> HIDE DEF n
  <2>2. (o + d) \div n = o \div n /\ (o + d) % n = (o % n) + d
    BY ONLY <2>1, d \in Nat, SameQuotient
  <2> QED
    BY <2>2 DEF n
<1>2. FileByte(o) = s + m /\ FileByte(o + d) = s + (m + d)
  BY <1>1 DEF FileByte
<1>3. m \in Int /\ s \in Int
  BY ClusterNotEmpty, ModRange, ClusterStarts
<1> HIDE DEF s, m
<1> QED
  BY <1>2, <1>3

\* The parts of the invariant keep their meaning while a chunk is read.
LEMMA CallKept ==
  ASSUME UNCHANGED <<word, pos, file, size, offset, total>>
  PROVE  /\ Here' = Here /\ Chunk' = Chunk /\ Chain' = Chain
         /\ Aligned(offset)' <=> Aligned(offset)
         /\ \A o : FileByte(o)' = FileByte(o)
         /\ \A n : Tame(n)' <=> Tame(n)
         /\ out' = out => \A n : Exact(n)' <=> Exact(n)
<1>1. Here' = Here /\ Chunk' = Chunk
  BY DEF Here, Chunk
<1>2. \A o : Aligned(o)' <=> Aligned(o)
  BY DEF Aligned
<1>3. \A n : Tame(n)' <=> Tame(n)
  BY <1>2 DEF Tame
<1>4. \A o : FileByte(o)' = FileByte(o)
  BY BytesKept
<1>5. out' = out => \A n : Exact(n)' <=> Exact(n)
  BY <1>4 DEF Exact
<1> QED
  BY <1>1, <1>2, <1>3, <1>4, <1>5, BytesKept

-----------------------------------------------------------------------------
(* Every step of a read keeps the invariant *)

\* Where a read is.
LEMMA Numbers ==
  ASSUME IInv, pc \in Reading
  PROVE  /\ file \in Files /\ size \in Nat \ {0} /\ offset \in Nat /\ total \in 0 .. size
         /\ pos[file] \in Nat /\ pos[file] <= offset
         /\ Here \in Nat /\ offset <= Here /\ Here = offset + size - total
         /\ total > 0 => /\ Chunk \in 1 .. ClusterBytes /\ Chunk <= total
                         /\ total - Chunk \in 0 .. size
         /\ ClusterBytes \in Nat \ {0}
<1>1. file \in Files /\ size \in Sizes /\ size \in Nat \ {0} /\ pos[file] <= offset
  BY Fat16Assumption DEF IInv, InCall
<1>2. offset \in Nat /\ total \in 0 .. size /\ pos[file] \in Nat
  BY <1>1, Fat16Assumption DEF IInv, TypeOK
<1>3. Here \in Nat /\ offset <= Here /\ Here = offset + size - total
  BY <1>1, <1>2 DEF Here
<1>4. total > 0 => Chunk \in 1 .. ClusterBytes /\ Chunk <= total /\ total - Chunk \in 0 .. size
  BY <1>1, <1>2, ClusterNotEmpty DEF Chunk
<1> QED
  BY <1>1, <1>2, <1>3, <1>4, ClusterNotEmpty

\* An element that has begun and is not finished is tame with what is before it.
LEMMA TameElement ==
  ASSUME IInv, pc \in Reading, total > 0, Tame(Here + 1)
  PROVE  Aligned(offset) /\ Tame(Here)
<1>1. /\ pos[file] \in Nat /\ offset \in Nat /\ pos[file] <= offset
      /\ Here \in Nat /\ offset <= Here
  BY Numbers
<1>2. offset \in pos[file] .. (Here + 1) - 1 /\ (offset - pos[file]) % size = 0
  BY <1>1 DEF IInv, InCall
<1>3. \A o \in pos[file] .. Here - 1 : o \in pos[file] .. (Here + 1) - 1
  BY <1>1
<1> QED
  BY <1>2, <1>3 DEF Tame

\* The words that are read for the entries of a chain are words of the disk.
LEMMA EntryIsWord ==
  ASSUME TypeOK, cluster \in Clusters, OnDisk(FatEntryPos(cluster))
  PROVE  word[FatEntryPos(cluster)] \in Words
<1>1. FatEntryPos(cluster) \in EntryPositions
  BY DEF EntryPositions
<1> QED
  BY <1>1 DEF TypeOK

\* Clusters are words.
LEMMA ClustersAre == Clusters \subseteq Words /\ Clusters \subseteq Nat
BY Fat16Assumption DEF Clusters

\* Nothing is read before the first call.
LEMMA InitEstablishes == Init => IInv
<1> SUFFICES ASSUME Init PROVE IInv
  OBVIOUS
<1>1. TypeOK
  BY Fat16Assumption DEF Init, TypeOK
<1> QED
  BY <1>1 DEF Init, IInv, InCall, ChunkStays, OnChain, Delivered, Streamed, Reading

\* fseek moves a descriptor within the bounds, and no read is in progress.
LEMMA FseekStep ==
  ASSUME IInv, NEW f \in Files, NEW o \in Offsets, Fseek(f, o)
  PROVE  IInv'
<1>1. pc = "idle" /\ UNCHANGED <<word, pc, file, size, count, offset, total, cluster, ahead,
                                 fat, data, want, out>>
  BY DEF Fseek, locals, call
<1>2. pos' \in [Files -> 0 .. MaxPos]
  <2>1. pos \in [Files -> 0 .. MaxPos] /\ MaxPos \in Nat /\ o \in Int /\ FileSize[f] \in Nat
    BY Fat16Assumption DEF IInv, TypeOK
  <2>2. pos[f] \in 0 .. MaxPos
    BY <2>1
  <2>3. o \in 0 .. MaxPos
    BY <2>1, Fat16Assumption DEF Fseek
  <2>4. CASE SeekTo(f, o)
    BY <2>1, <2>3, <2>4 DEF SeekTo
  <2>5. CASE pos[f] + o <= MaxPos /\ SeekTo(f, pos[f] + o)
    <3>1. pos[f] + o \in 0 .. MaxPos
      BY <2>1, <2>2, <2>3, <2>5
    <3> QED
      BY <2>1, <2>5, <3>1 DEF SeekTo
  <2> QED
    BY <2>4, <2>5 DEF Fseek
<1>3. TypeOK'
  BY <1>1, <1>2 DEF IInv, TypeOK, EntryPositions
<1> QED
  BY <1>1, <1>3 DEF IInv, InCall, ChunkStays, OnChain, Delivered, Streamed, Reading

\* fread begins where the descriptor is; nothing has been delivered.
LEMMA FreadStep ==
  ASSUME IInv, NEW f \in Files, NEW s \in Sizes, NEW n \in Counts, Fread(f, s, n)
  PROVE  IInv'
<1>1. /\ pc = "idle" /\ pc' = "element" /\ file' = f /\ size' = s /\ count' = n
      /\ offset' = pos[f] /\ total' = s
      /\ UNCHANGED <<word, pos, fat, data, cluster, ahead, want, out>>
  BY DEF Fread
<1>2. pos[f] \in Nat /\ s \in Nat \ {0} /\ n \in Nat /\ out = <<>> /\ want = 0
  BY <1>1, Fat16Assumption DEF IInv, TypeOK, InCall
<1>3. Here' = pos[f]
  BY <1>1, <1>2 DEF Here
<1>4. TypeOK'
  <2>1. total' \in 0 .. size' /\ want' \in 0 .. size'
    BY <1>1, <1>2
  <2> QED
    BY <1>1, <1>2, <2>1 DEF IInv, TypeOK, EntryPositions
<1>5. InCall'
  <2>1. (pos[f] - pos[f]) % s = 0
    <3>1. pos[f] - pos[f] = 0 /\ 0 % s = 0
      BY <1>2
    <3> QED
      BY <3>1
  <2> QED
    BY <1>1, <1>2, <2>1 DEF InCall
<1>6. ChunkStays'
  <2>1. Aligned(offset)' => Here' % ClusterBytes = 0 \/ (Here' % ClusterBytes) + total' <= ClusterBytes
    BY <1>1, <1>3 DEF Aligned
  <2> QED
    BY <2>1 DEF ChunkStays
<1>7. Delivered'
  <2>1. Here' - pos'[file'] = 0
    BY <1>1, <1>2, <1>3
  <2>2. out' = <<>>
    BY <1>1, <1>2
  <2>3. Exact(Here)'
    BY <2>1, <2>2 DEF Exact
  <2> QED
    BY <2>3 DEF Delivered
<1>8. OnChain' /\ Streamed'
  BY <1>1 DEF OnChain, Streamed
<1> QED
  BY <1>4, <1>5, <1>6, <1>7, <1>8 DEF IInv

\* A chunk is looked for from the beginning of the chain.
LEMMA ReadChunkStep ==
  ASSUME IInv, ReadChunk
  PROVE  IInv'
<1>1. /\ pc = "element" /\ pc' = "chain" /\ total > 0 /\ count > 0
      /\ cluster' = FirstCluster[file] /\ ahead' = Here \div ClusterBytes
      /\ UNCHANGED <<word, pos, fat, data, file, size, count, offset, total, want, out>>
  BY DEF ReadChunk, call
<1>2. file \in Files /\ Here \in Nat /\ ClusterBytes \in Nat \ {0}
  BY <1>1, Numbers DEF Reading
<1>3. Here \div ClusterBytes \in Nat
  BY <1>2, DivNat
<1>4. FirstCluster[file] \in Clusters /\ FirstCluster[file] \in Words
  BY <1>2, Fat16Assumption DEF Clusters
<1>5. TypeOK'
  BY <1>1, <1>3, <1>4 DEF IInv, TypeOK, EntryPositions
<1>6. InCall'
  BY <1>1 DEF IInv, InCall, Reading
<1>7. /\ Here' = Here /\ Chain' = Chain /\ (Aligned(offset)' <=> Aligned(offset))
      /\ \A n : (Tame(n)' <=> Tame(n)) /\ (Exact(n)' <=> Exact(n))
  BY <1>1, CallKept
<1>8. ChunkStays'
  BY <1>1, <1>7 DEF IInv, ChunkStays, Reading
<1>9. OnChain'
  <2>1. (Here \div ClusterBytes) - (Here \div ClusterBytes) = 0
    BY <1>3
  <2> QED
    BY <1>1, <1>3, <1>4, <1>7, <2>1, ChainIs DEF OnChain
<1>10. Delivered'
  <2>1. Tame(Here)' => Exact(Here)'
    BY <1>1, <1>7 DEF IInv, Delivered
  <2> QED
    BY <2>1 DEF Delivered
<1>11. Streamed'
  BY <1>1 DEF Streamed
<1> QED
  BY <1>5, <1>6, <1>8, <1>9, <1>10, <1>11 DEF IInv

\* A FAT entry leads one cluster further, or ends the read.
LEMMA FollowChainStep ==
  ASSUME IInv, FollowChain
  PROVE  IInv'
<1> DEFINE entry == word[FatEntryPos(cluster)]
           q == Here \div ClusterBytes
<1>1. /\ pc = "chain" /\ ahead > 0 /\ OnDisk(FatEntryPos(cluster))
      /\ fat' = FatEntryPos(cluster) + 2
      /\ UNCHANGED <<word, pos, data, file, size, count, offset, total, want, out>>
  BY DEF FollowChain, call
<1>2. /\ cluster \in Clusters /\ cluster \in Nat /\ ahead \in Nat /\ ahead <= q
      /\ cluster = Chain[q - ahead]
  BY <1>1, ClustersAre DEF IInv, OnChain, TypeOK
<1>3. entry \in Words
  BY <1>1, <1>2, EntryIsWord DEF IInv
<1>4. fat' \in Nat
  <2>1. FatEntryPos(cluster) \in Nat
    BY <1>2, Fat16Assumption DEF FatEntryPos
  <2> QED
    BY <1>1, <2>1
<1>5. /\ Here' = Here /\ Chain' = Chain /\ (Aligned(offset)' <=> Aligned(offset))
      /\ \A n : (Tame(n)' <=> Tame(n)) /\ (Exact(n)' <=> Exact(n))
  BY <1>1, CallKept
<1>6. CASE entry \in Refused
  <2>1. pc' = "EIO" /\ UNCHANGED <<cluster, ahead>>
    BY <1>6 DEF FollowChain
  <2>2. TypeOK'
    BY <1>1, <1>4, <2>1 DEF IInv, TypeOK, EntryPositions
  <2> QED
    BY <2>1, <2>2 DEF IInv, InCall, ChunkStays, OnChain, Delivered, Streamed, Reading
<1>7. CASE entry \notin Refused
  <2>1. cluster' = entry /\ ahead' = ahead - 1 /\ pc' = "chain"
    BY <1>1, <1>7 DEF FollowChain
  <2>2. ahead' \in Nat
    BY <1>1, <1>2, <2>1
  <2>3. TypeOK'
    BY <1>1, <1>3, <1>4, <2>1, <2>2 DEF IInv, TypeOK, EntryPositions
  <2>4. InCall' /\ ChunkStays'
    BY <1>1, <1>5, <2>1 DEF IInv, InCall, ChunkStays, Reading
  <2>5. OnChain'
    <3>1. q \in Nat
      BY <1>1, Numbers, DivNat DEF Reading
    <3> HIDE DEF q
    <3>2. q - ahead \in Nat /\ q - (ahead - 1) = (q - ahead) + 1 /\ ahead - 1 <= q
      BY <1>2, <3>1
    <3>3. Chain[q - (ahead - 1)] = entry
      BY <1>2, <3>2, ChainIs
    <3>4. entry \in Clusters
      BY <1>3, <1>7 DEF Clusters
    <3> QED
      BY <1>5, <2>1, <3>2, <3>3, <3>4 DEF OnChain, q
  <2>6. Delivered'
    <3>1. Tame(Here)' => Exact(Here)'
      BY <1>1, <1>5 DEF IInv, Delivered
    <3> QED
      BY <3>1 DEF Delivered
  <2>7. Streamed'
    BY <2>1 DEF Streamed
  <2> QED
    BY <2>3, <2>4, <2>5, <2>6, <2>7 DEF IInv
<1> QED
  BY <1>6, <1>7

\* At the end of the walk the stream is sought to the file's byte at Here.
LEMMA SeekClusterStep ==
  ASSUME IInv, SeekCluster
  PROVE  IInv'
<1> DEFINE q == Here \div ClusterBytes
<1>1. /\ pc = "chain" /\ pc' = "stream" /\ ahead = 0 /\ want' = Chunk
      /\ data' = fat16_cluster_to_sector(cluster) * SectorSize + (Here % ClusterBytes)
      /\ UNCHANGED <<word, pos, fat, file, size, count, offset, total, cluster, ahead, out>>
  BY DEF SeekCluster, call
<1>2. /\ Here \in Nat /\ total > 0 /\ Chunk \in Nat /\ Chunk <= total /\ total \in 0 .. size
      /\ size \in Nat /\ ClusterBytes \in Nat \ {0}
  BY <1>1, Numbers DEF Reading, IInv, InCall
<1>3. cluster \in Clusters /\ cluster \in Nat /\ cluster = Chain[q]
  <2>1. q \in Nat
    BY <1>2, DivNat
  <2>2. q - 0 = q
    BY <2>1
  <2> QED
    BY <1>1, <2>2, ClustersAre DEF IInv, OnChain
<1>4. data' = FileByte(Here) /\ data' \in Int
  <2>1. Here % ClusterBytes \in Int
    BY <1>2, ModRange
  <2>2. fat16_cluster_to_sector(cluster) * SectorSize \in Int
    BY <1>3, ClusterStarts
  <2> QED
    BY <1>1, <1>3, <2>1, <2>2 DEF FileByte
<1>5. TypeOK'
  <2>1. want' \in 0 .. size'
    BY <1>1, <1>2
  <2> QED
    BY <1>1, <1>4, <2>1 DEF IInv, TypeOK, EntryPositions
<1>6. /\ Here' = Here /\ Chunk' = Chunk /\ Chain' = Chain
      /\ (Aligned(offset)' <=> Aligned(offset))
      /\ \A n : (Tame(n)' <=> Tame(n)) /\ (Exact(n)' <=> Exact(n))
      /\ \A o : FileByte(o)' = FileByte(o)
  BY <1>1, CallKept
<1>7. InCall' /\ ChunkStays'
  BY <1>1, <1>6 DEF IInv, InCall, ChunkStays, Reading
<1>8. Streamed'
  <2>1. Tame(Here + 1) => Exact(Here + Chunk - Chunk)
    <3> SUFFICES ASSUME Tame(Here + 1) PROVE Exact(Here + Chunk - Chunk)
      OBVIOUS
    <3>1. Tame(Here)
      BY <1>1, <1>2, TameElement DEF Reading
    <3>2. Here + Chunk - Chunk = Here
      BY <1>2
    <3> QED
      BY <1>1, <3>1, <3>2 DEF IInv, Delivered
  <2>2. FileByte(Here) = data' - (Chunk - Chunk)
    BY <1>2, <1>4
  <2>3. Chunk <= Chunk
    BY <1>2
  <2> QED
    BY <1>1, <1>3, <1>6, <2>1, <2>2, <2>3 DEF Streamed
<1>9. OnChain' /\ Delivered'
  BY <1>1 DEF OnChain, Delivered
<1> QED
  BY <1>5, <1>7, <1>8, <1>9 DEF IInv

\* The next element begins where this one ends.
LEMMA NextElementStep ==
  ASSUME IInv, NextElement
  PROVE  IInv'
<1>1. /\ pc = "element" /\ pc' = "element" /\ count > 0 /\ total = 0
      /\ offset' = offset + size /\ count' = count - 1 /\ total' = size
      /\ UNCHANGED <<word, pos, fat, data, file, size, cluster, ahead, want, out>>
  BY DEF NextElement
<1>2. /\ file \in Files /\ size \in Nat \ {0} /\ offset \in Nat
      /\ pos[file] \in Nat /\ pos[file] <= offset /\ Here = offset + size
  BY <1>1, Numbers DEF Reading
<1>3. Here' = Here
  BY <1>1, <1>2 DEF Here
<1>4. TypeOK'
  <2>1. offset' \in Nat /\ total' \in 0 .. size' /\ count' \in Nat
    BY <1>1, <1>2 DEF IInv, TypeOK
  <2> QED
    BY <1>1, <2>1 DEF IInv, TypeOK, EntryPositions
<1>5. InCall'
  <2>1. (offset' - pos[file]) % size = 0
    <3> DEFINE d == offset - pos[file]
    <3>1. d \in Int /\ d % size = 0 /\ offset' - pos[file] = d + size
      BY <1>1, <1>2 DEF IInv, InCall, Reading
    <3> HIDE DEF d
    <3> QED
      BY <1>2, <3>1, NextMultiple
  <2>2. pos[file] <= offset'
    BY <1>1, <1>2
  <2> QED
    BY <1>1, <1>2, <2>1, <2>2 DEF IInv, InCall, Reading
<1>6. ChunkStays'
  <2>1. Here' = offset'
    BY <1>1, <1>2, <1>3
  <2> QED
    BY <1>1, <2>1 DEF ChunkStays, Aligned
<1>7. Delivered'
  <2>1. Tame(Here)' <=> Tame(Here)
    BY <1>1, <1>3 DEF Tame, Aligned
  <2>2. Exact(Here)' <=> Exact(Here)
    <3>1. \A o : FileByte(o)' = FileByte(o)
      BY <1>1, BytesKept
    <3> QED
      BY <1>1, <1>3, <3>1 DEF Exact
  <2> QED
    BY <1>1, <2>1, <2>2 DEF IInv, Delivered
<1>8. OnChain' /\ Streamed'
  BY <1>1 DEF OnChain, Streamed
<1> QED
  BY <1>4, <1>5, <1>6, <1>7, <1>8 DEF IInv

\* A read that returns leaves the descriptors and the disk as they are.
LEMMA FreadReturnsStep ==
  ASSUME IInv, FreadReturns
  PROVE  IInv'
<1>1. TypeOK'
  BY DEF IInv, TypeOK, FreadReturns, EntryPositions
<1> QED
  BY <1>1 DEF FreadReturns, IInv, InCall, ChunkStays, OnChain, Delivered, Streamed, Reading

\* Two stretches, one behind the other, are the stretch of both.
LEMMA Joined ==
  ASSUME NEW n \in Nat, NEW t \in Nat, NEW h,
         NEW s, s = [k \in 1 .. n |-> h[k]], NEW u, u = [k \in 1 .. t |-> h[n + k]]
  PROVE  s \o u = [k \in 1 .. n + t |-> h[k]]
<1> DEFINE R == {h[k] : k \in 1 .. n + t}
           w == [k \in 1 .. n + t |-> h[k]]
<1>1. \A k \in 1 .. n : h[k] \in R
  OBVIOUS
<1>2. \A k \in 1 .. t : n + k \in 1 .. n + t /\ h[n + k] \in R
  OBVIOUS
<1>3. \A k \in 1 .. n + t : h[k] \in R
  OBVIOUS
<1> HIDE DEF R
<1>4. s \in Seq(R) /\ Len(s) = n /\ \A k \in 1 .. n : s[k] = h[k]
  BY <1>1
<1>5. u \in Seq(R) /\ Len(u) = t /\ \A k \in 1 .. t : u[k] = h[n + k]
  <2>1. u \in [1 .. t -> R] /\ \A k \in 1 .. t : u[k] = h[n + k]
    BY <1>2
  <2> QED
    BY <2>1
<1>6. w \in Seq(R) /\ Len(w) = n + t /\ \A k \in 1 .. n + t : w[k] = h[k]
  BY <1>3
<1> HIDE DEF w
<1>7. s \o u \in Seq(R) /\ Len(s \o u) = n + t
  BY <1>4, <1>5, ConcatProperties
<1>8. ASSUME NEW k \in 1 .. Len(s \o u) PROVE (s \o u)[k] = w[k]
  <2>1. k \in 1 .. Len(s) + Len(u) /\ k \in 1 .. n + t
    BY <1>4, <1>5, <1>7
  <2>2. (s \o u)[k] = IF k <= Len(s) THEN s[k] ELSE u[k - Len(s)]
    BY <1>4, <1>5, <2>1, ConcatProperties
  <2>3. CASE k <= n
    BY <1>4, <1>6, <2>1, <2>2, <2>3
  <2>4. CASE k > n
    <3>1. k - n \in 1 .. t /\ n + (k - n) = k
      BY <2>1, <2>4
    <3> QED
      BY <1>4, <1>5, <1>6, <2>1, <2>2, <2>4, <3>1
  <2> QED
    BY <2>1, <2>3, <2>4
<1>9. s \o u = w
  BY <1>6, <1>7, <1>8, SeqEqual
<1> QED
  BY <1>9 DEF w

\* How much of a sector is taken.
LEMMA TakenIs ==
  ASSUME IInv, pc = "stream"
  PROVE  /\ want \in Nat /\ data \in Int /\ Taken \in 0 .. want
         /\ ~Overflow => Taken = want
<1>1. want \in Nat /\ data \in Int /\ SectorSize \in Nat \ {0}
  <2>1. size \in Nat
    BY Numbers DEF Reading
  <2> QED
    BY <2>1, Fat16Assumption DEF IInv, TypeOK
<1>2. data % SectorSize \in 0 .. SectorSize - 1
  BY <1>1, ModRange
<1> DEFINE m == data % SectorSize
<1> HIDE DEF m
<1>3. m \in 0 .. SectorSize - 1 /\ (Overflow <=> m + want >= SectorSize)
      /\ Taken = IF Overflow THEN SectorSize - m ELSE want
  BY <1>2 DEF m, Overflow, Taken
<1> QED
  BY <1>1, <1>3

\* A sector's share of a chunk: the bytes that follow those delivered.
LEMMA SectorDelivers ==
  ASSUME IInv, ReadSector, Tame(Here + 1)
  PROVE  out' = [k \in 1 .. Here + Chunk - (want - Taken) - pos[file]
                   |-> FileByte(pos[file] + k - 1)]
<1> DEFINE P == pos[file]
           e == Here + Chunk - want
           n == e - P
           h == [k \in 1 .. n + Taken |-> FileByte(P + k - 1)]
           u == [k \in 1 .. Taken |-> data + k - 1]
<1>1. pc = "stream" /\ out' = out \o u
  BY DEF ReadSector
<1>2. /\ Here \in Nat /\ P \in Nat /\ P <= Here /\ ClusterBytes \in Nat \ {0}
      /\ total > 0 /\ Chunk \in 1 .. ClusterBytes /\ Chunk <= total /\ total \in Nat
  <2>1. total > 0
    BY <1>1 DEF IInv, InCall
  <2> QED
    BY <1>1, <2>1, Numbers DEF Reading
<1>3. want \in Nat /\ Taken \in 0 .. want /\ want <= Chunk /\ data \in Int
  BY <1>1, TakenIs DEF IInv, Streamed
<1>4. Here % ClusterBytes = 0 \/ (Here % ClusterBytes) + total <= ClusterBytes
  BY <1>1, <1>2, TameElement DEF IInv, ChunkStays, Reading
<1>5. (Here % ClusterBytes) + Chunk <= ClusterBytes /\ Here % ClusterBytes \in Nat
  <2> DEFINE m == Here % ClusterBytes
  <2>1. m \in Nat /\ (m = 0 \/ m + total <= ClusterBytes)
    BY <1>2, <1>4, ModRange
  <2> HIDE DEF m
  <2>2. m + Chunk <= ClusterBytes
    BY <1>2, <2>1
  <2> QED
    BY <2>1, <2>2 DEF m
<1>6. /\ FileByte(Here) = data - (Chunk - want) /\ Chain[Here \div ClusterBytes] \in Nat
      /\ out = [k \in 1 .. n |-> FileByte(P + k - 1)]
  <2>1. /\ FileByte(Here) = data - (Chunk - want) /\ Chain[Here \div ClusterBytes] \in Clusters
        /\ Exact(e)
    BY <1>1 DEF IInv, Streamed
  <2>2. out = [k \in 1 .. n |-> FileByte(P + k - 1)]
    <3> HIDE DEF e
    <3> QED
      BY <2>1 DEF Exact
  <2>3. Chain[Here \div ClusterBytes] \in Nat
    BY <2>1, ClustersAre
  <2> QED
    BY <2>1, <2>2, <2>3
<1>7. n \in Nat /\ Taken \in Nat
  BY <1>2, <1>3
<1>8. \A k \in 1 .. Taken : FileByte(P + (n + k) - 1) = data + k - 1
  <2> TAKE k \in 1 .. Taken
  <2> DEFINE d == (Chunk - want) + (k - 1)
             m == Here % ClusterBytes
  <2>1. d \in Nat /\ d < Chunk /\ P + (n + k) - 1 = Here + d
    BY <1>2, <1>3
  <2>2. m \in Nat /\ m + Chunk <= ClusterBytes
    BY <1>5
  <2> HIDE DEF d, m
  <2>3. m + d < ClusterBytes
    BY <1>2, <2>1, <2>2
  <2>4. FileByte(Here + d) = FileByte(Here) + d
    BY <1>2, <1>6, <2>1, <2>3, BytesInCluster DEF m
  <2>5. FileByte(Here) + d = data + k - 1
    BY <1>2, <1>3, <1>6 DEF d
  <2> QED
    BY <2>1, <2>4, <2>5
<1>9. u = [k \in 1 .. Taken |-> h[n + k]]
  <2>1. \A k \in 1 .. Taken : h[n + k] = data + k - 1
    <3> TAKE k \in 1 .. Taken
    <3>1. n + k \in 1 .. n + Taken
      BY <1>7
    <3> HIDE DEF n, P
    <3> QED
      BY <1>8, <3>1
  <2> HIDE DEF h, n
  <2> QED
    BY <2>1
<1>10. out = [k \in 1 .. n |-> h[k]]
  <2>1. \A k \in 1 .. n : h[k] = FileByte(P + k - 1)
    <3> TAKE k \in 1 .. n
    <3>1. k \in 1 .. n + Taken
      BY <1>7
    <3> HIDE DEF n, P
    <3> QED
      BY <3>1
  <2> HIDE DEF h, n, P
  <2> QED
    BY <1>6, <2>1
<1>11. out \o u = [k \in 1 .. n + Taken |-> h[k]]
  <2> HIDE DEF h, n, u
  <2> QED
    BY <1>7, <1>9, <1>10, Joined
<1>12. [k \in 1 .. n + Taken |-> h[k]] = h
  <2> HIDE DEF n, P
  <2> QED OBVIOUS
<1>13. n + Taken = Here + Chunk - (want - Taken) - P
  BY <1>2, <1>3
<1> QED
  <2>1. out' = [k \in 1 .. n + Taken |-> FileByte(P + k - 1)]
    <3> HIDE DEF n, P, u
    <3> QED BY <1>1, <1>11, <1>12
  <2> HIDE DEF n
  <2> QED
    BY <1>13, <2>1

\* A sector's share is delivered; with the last one the chunk ends.
LEMMA ReadSectorStep ==
  ASSUME IInv, ReadSector
  PROVE  IInv'
<1>1. /\ pc = "stream" /\ data' = data + Taken /\ want' = want - Taken
      /\ UNCHANGED <<word, pos, fat, file, size, count, offset, cluster, ahead>>
  BY DEF ReadSector, call
<1>2. /\ file \in Files /\ size \in Nat \ {0} /\ offset \in Nat /\ total \in 0 .. size
      /\ pos[file] \in Nat /\ pos[file] <= offset
      /\ Here \in Nat /\ offset <= Here /\ Here = offset + size - total
      /\ total > 0 /\ Chunk \in 1 .. ClusterBytes /\ Chunk <= total
      /\ total - Chunk \in 0 .. size /\ ClusterBytes \in Nat \ {0}
  <2>1. total > 0
    BY <1>1 DEF IInv, InCall
  <2> QED
    BY <1>1, <2>1, Numbers DEF Reading
<1>3. /\ want \in Nat /\ data \in Int /\ Taken \in 0 .. want /\ want <= Chunk
      /\ ~Overflow => Taken = want
  BY <1>1, TakenIs DEF IInv, Streamed
<1>4. data' \in Int /\ want' \in 0 .. size'
  BY <1>1, <1>2, <1>3
<1>5. /\ \A n : Tame(n)' <=> Tame(n)
      /\ \A o : FileByte(o)' = FileByte(o)
      /\ Chain' = Chain
  BY <1>1, BytesKept DEF Tame, Aligned
<1>6. Tame(Here + 1) =>
        out' = [k \in 1 .. Here + Chunk - want' - pos[file] |-> FileByte(pos[file] + k - 1)]
  BY <1>1, SectorDelivers
<1>7. CASE Overflow
  <2>1. pc' = "stream" /\ total' = total
    BY <1>1, <1>7 DEF ReadSector
  <2>2. Here' = Here /\ Chunk' = Chunk /\ (Aligned(offset)' <=> Aligned(offset))
    BY <1>1, <2>1, CallKept
  <2>3. TypeOK'
    BY <1>1, <1>4, <2>1 DEF IInv, TypeOK, EntryPositions
  <2>4. InCall' /\ ChunkStays'
    BY <1>1, <2>1, <2>2 DEF IInv, InCall, ChunkStays, Reading
  <2>5. Streamed'
    <3>1. want' <= Chunk
      BY <1>1, <1>2, <1>3
    <3>2. FileByte(Here) = data' - (Chunk - want')
      <4>1. FileByte(Here) = data - (Chunk - want)
        BY <1>1 DEF IInv, Streamed
      <4> QED
        BY <1>1, <1>2, <1>3, <4>1
    <3>3. Chain[Here \div ClusterBytes] \in Clusters
      BY <1>1 DEF IInv, Streamed
    <3>4. Tame(Here + 1) => Exact(Here + Chunk - want)'
      <4>1. \A n : Exact(n)' <=> out' = [k \in 1 .. n - pos[file] |-> FileByte(pos[file] + k - 1)]
        BY <1>1, <1>5 DEF Exact
      <4>2. PICK e : e = Here + Chunk - want'
        OBVIOUS
      <4>3. Tame(Here + 1) => Exact(e)'
        <5>1. e - pos[file] = Here + Chunk - want' - pos[file]
          BY <1>2, <1>4, <4>2
        <5>2. Tame(Here + 1) =>
                out' = [k \in 1 .. e - pos[file] |-> FileByte(pos[file] + k - 1)]
          BY <1>6, <5>1
        <5> QED
          BY <4>1, <5>2
      <4>4. Here' + Chunk' - want' = e
        BY <2>2, <4>2
      <4> QED
        BY <4>3, <4>4
    <3> QED
      BY <1>1, <1>5, <2>2, <3>1, <3>2, <3>3, <3>4 DEF Streamed
  <2>6. OnChain' /\ Delivered'
    BY <2>1 DEF OnChain, Delivered
  <2> QED
    BY <2>3, <2>4, <2>5, <2>6 DEF IInv
<1>8. CASE ~Overflow
  <2>1. pc' = "element" /\ total' = total - Chunk
    BY <1>1, <1>8 DEF ReadSector
  <2>2. want' = 0 /\ Here' = Here + Chunk
    <3>1. Here' = offset + size - (total - Chunk)
      BY <1>1, <2>1 DEF Here
    <3> QED
      BY <1>1, <1>2, <1>3, <1>8, <3>1
  <2>3. TypeOK'
    <3>1. total' \in 0 .. size'
      BY <1>1, <1>2, <2>1
    <3> QED
      BY <1>1, <1>4, <2>1, <3>1 DEF IInv, TypeOK, EntryPositions
  <2>4. InCall'
    BY <1>1, <2>1 DEF IInv, InCall, Reading
  <2>5. ChunkStays'
    <3> SUFFICES ASSUME total' > 0, Aligned(offset)'
                 PROVE  Here' % ClusterBytes = 0
      BY DEF ChunkStays
    <3>1. Aligned(offset)
      BY <1>1 DEF Aligned
    <3>2. total > ClusterBytes /\ Chunk = ClusterBytes
      BY <1>2, <2>1 DEF Chunk
    <3>3. Here % ClusterBytes = 0
      <4> DEFINE m == Here % ClusterBytes
      <4>1. m \in Nat /\ (m = 0 \/ m + total <= ClusterBytes)
        BY <1>1, <1>2, <3>1, ModRange DEF IInv, ChunkStays, Reading
      <4> HIDE DEF m
      <4>2. m = 0
        BY <1>2, <3>2, <4>1
      <4> QED
        BY <4>2 DEF m
    <3>4. (Here + ClusterBytes) % ClusterBytes = Here % ClusterBytes
      <4> DEFINE n == ClusterBytes
                 a == Here
      <4>1. n \in Nat \ {0} /\ a \in Int
        BY <1>2
      <4> HIDE DEF n, a
      <4>2. (a + n) % n = a % n
        BY <4>1, NextMultiple
      <4> QED
        BY <4>2 DEF n, a
    <3> QED
      BY <2>2, <3>2, <3>3, <3>4
  <2>6. Delivered'
    <3> SUFFICES ASSUME Tame(Here)' PROVE Exact(Here)'
      BY DEF Delivered
    <3>1. \A o \in pos[file] .. (Here + Chunk) - 1 : (o - pos[file]) % size = 0 => Aligned(o)
      BY <1>1, <2>2 DEF Tame, Aligned
    <3>2. \A o \in pos[file] .. (Here + 1) - 1 : o \in pos[file] .. (Here + Chunk) - 1
      BY <1>2
    <3>3. Tame(Here + 1)
      BY <3>1, <3>2 DEF Tame
    <3>4. Here + Chunk - want' = Here'
      BY <1>2, <2>2
    <3>5. out' = [k \in 1 .. Here' - pos[file] |-> FileByte(pos[file] + k - 1)]
      <4>1. Here + Chunk - want' - pos[file] = Here' - pos[file]
        BY <1>2, <2>2
      <4> QED
        BY <1>6, <3>3, <4>1
    <3> QED
      BY <1>1, <1>5, <3>5 DEF Exact
  <2>7. OnChain' /\ Streamed'
    BY <2>1 DEF OnChain, Streamed
  <2> QED
    BY <2>3, <2>4, <2>5, <2>6, <2>7 DEF IInv
<1> QED
  BY <1>7, <1>8

\* Every step keeps the inductive invariant.
LEMMA StepPreserves == IInv /\ [Next]_vars => IInv'
<1> SUFFICES ASSUME IInv, [Next]_vars PROVE IInv'
  OBVIOUS
<1>1. CASE UNCHANGED vars
  <2>1. UNCHANGED <<word, pos, pc, file, size, count, offset, total, cluster, ahead,
                    fat, data, want, out>>
    BY <1>1 DEF vars, locals, call
  <2>2. TypeOK' /\ InCall'
    BY <2>1 DEF IInv, TypeOK, InCall, EntryPositions
  <2>3. /\ Here' = Here /\ Chunk' = Chunk /\ Chain' = Chain
        /\ (Aligned(offset)' <=> Aligned(offset))
        /\ \A n : (Tame(n)' <=> Tame(n)) /\ (Exact(n)' <=> Exact(n))
        /\ \A o : FileByte(o)' = FileByte(o)
    BY <2>1, CallKept
  <2>4. ChunkStays' /\ OnChain' /\ Delivered'
    BY <2>1, <2>3 DEF IInv, ChunkStays, OnChain, Delivered
  <2>5. Streamed'
    BY <2>1, <2>3 DEF IInv, Streamed
  <2> QED
    BY <2>2, <2>4, <2>5 DEF IInv
<1>2. ASSUME NEW f \in Files, NEW o \in Offsets, Fseek(f, o) PROVE IInv'
  BY <1>2, FseekStep
<1>3. ASSUME NEW f \in Files, NEW s \in Sizes, NEW n \in Counts, Fread(f, s, n) PROVE IInv'
  BY <1>3, FreadStep
<1>4. CASE Step
  BY <1>4, ReadChunkStep, FollowChainStep, SeekClusterStep, ReadSectorStep, NextElementStep,
     FreadReturnsStep DEF Step
<1>5. CASE Poll
  BY <1>1, <1>5 DEF Poll
<1> QED
  BY <1>1, <1>2, <1>3, <1>4, <1>5 DEF Next

-----------------------------------------------------------------------------
(* The theorems about reads *)

\* The inductive invariant holds in every state, for every disk and every file.
THEOREM InductiveInvariant == Spec => []IInv
<1> QED
  BY InitEstablishes, StepPreserves, PTL DEF Spec

\* The locals of a read and the positions of descriptors and streams keep their
\* types through every chunk, chain and sector.
THEOREM TypeCorrect == Spec => []TypeOK
<1>1. IInv => TypeOK
  BY DEF IInv
<1> QED
  BY <1>1, InductiveInvariant, PTL

\* fread delivers exactly the bytes of the file from the descriptor's position on,
\* unless an element runs from the middle of a cluster into the next: whatever the
\* sizes of sectors, clusters, elements and files, and wherever the chain leads.
THEOREM ReadsAreExact == Spec => []ReadExact
<1>1. IInv => ReadExact
  <2> SUFFICES ASSUME IInv, pc = "element", count = 0,
                      \A o \in pos[file] .. offset - 1 : (o - pos[file]) % size = 0 => Aligned(o)
               PROVE  out = [k \in 1 .. offset - pos[file] |-> FileByte(pos[file] + k - 1)]
    BY DEF ReadExact
  <2>1. total = size /\ Here = offset
    <3>1. size \in Nat /\ offset \in Nat /\ Here = offset + size - total
      BY Numbers DEF Reading
    <3>2. total = size
      BY DEF IInv, InCall, Reading
    <3> QED
      BY <3>1, <3>2
  <2>2. Tame(Here)
    BY <2>1 DEF Tame
  <2>3. Exact(Here)
    BY <2>2 DEF IInv, Delivered
  <2> QED
    BY <2>1, <2>3 DEF Exact
<1> QED
  BY <1>1, InductiveInvariant, PTL

-----------------------------------------------------------------------------
(* Names in directory entries *)

\* The letters of a padded field are its first ones, and they are what is left of it
\* without the blanks.
LEMMA FieldLetters ==
  ASSUME NEW field, NEW length \in Nat, Padded(field, length)
  PROVE  \E l \in 0 .. length :
           /\ \A k \in 1 .. length :
                IF k <= l THEN field[k] \in Letters \cup {Dot} /\ field[k] # Pad
                          ELSE field[k] = Pad
           /\ Trimmed(field) = SubSeq(field, 1, l)
           /\ Trimmed(field) \in Seq(Letters \cup {Dot}) /\ Len(Trimmed(field)) = l
<1> DEFINE Blanks == {k \in Nat : k = length + 1 \/ (k \in 1 .. length /\ field[k] = Pad)}
<1>1. /\ field \in Seq(Letters \cup {Dot, Pad}) /\ Len(field) = length
      /\ DOMAIN field = 1 .. length
      /\ \A k, m \in 1 .. length : field[k] = Pad /\ k < m => field[m] = Pad
      /\ \A k \in 1 .. length : field[k] \in Letters \cup {Dot, Pad}
  BY DEF Padded
<1>2. Blanks \in SUBSET Nat /\ length + 1 \in Blanks
  OBVIOUS
<1>3. PICK x \in Blanks : \A y \in Blanks : x <= y
  <2> HIDE DEF Blanks
  <2> QED
    BY <1>2, LeastNatural
<1>4. x \in 1 .. length + 1
  BY <1>3
<1>5. \A k \in 1 .. length : k < x => field[k] # Pad
  <2> SUFFICES ASSUME NEW k \in 1 .. length, k < x, field[k] = Pad PROVE FALSE
    OBVIOUS
  <2>1. k \in Blanks
    OBVIOUS
  <2> QED
    BY <1>3, <2>1
<1>6. \A k \in 1 .. length : ~(k < x) => field[k] = Pad
  <2> TAKE k \in 1 .. length
  <2> HAVE ~(k < x)
  <2>1. x \in 1 .. length /\ field[x] = Pad
    BY <1>3, <1>4
  <2> QED
    BY <1>1, <1>4, <2>1
<1>7. {k \in DOMAIN field : field[k] # Pad} = 1 .. x - 1
  BY <1>1, <1>4, <1>5, <1>6
<1>8. Cardinality(1 .. x - 1) = x - 1
  <2>1. 1 \in Int /\ x - 1 \in Int /\ ~(1 > x - 1 /\ x - 1 # 0) /\ x - 1 - 1 + 1 = x - 1
    BY <1>4
  <2>2. Cardinality(1 .. x - 1) = IF 1 > x - 1 THEN 0 ELSE x - 1 - 1 + 1
    BY <2>1, FS_Interval
  <2> QED
    BY <2>1, <2>2
<1> DEFINE l == x - 1
<1>9. Trimmed(field) = SubSeq(field, 1, l)
  BY <1>7, <1>8 DEF Trimmed
<1>10. l \in 0 .. length /\ \A k \in 1 .. l : field[k] \in Letters \cup {Dot}
  BY <1>1, <1>4, <1>5
<1>11. /\ SubSeq(field, 1, l) \in Seq(Letters \cup {Dot})
       /\ Len(SubSeq(field, 1, l)) = IF 1 <= l THEN l - 1 + 1 ELSE 0
  <2> HIDE DEF l
  <2>1. 1 \in Int /\ l \in Int
    BY <1>10
  <2> QED
    BY ONLY <1>10, <2>1, SubSeqProperties
<1>12. \A k \in 1 .. length : IF k <= l THEN field[k] \in Letters \cup {Dot} /\ field[k] # Pad
                                        ELSE field[k] = Pad
  BY <1>1, <1>4, <1>5, <1>6
<1> QED
  <2> HIDE DEF l
  <2> QED
    BY <1>9, <1>10, <1>11, <1>12

\* A string ends before the first zero or blank.
LEMMA ProperIs ==
  ASSUME NEW bytes, NEW from \in Int, NEW q \in Int, Len(bytes) \in Int,
         from <= q, q <= Len(bytes), bytes[q] \in {Zero, Pad},
         \A r \in from .. q - 1 : bytes[r] \notin {Zero, Pad}
  PROVE  propper_string(bytes, from) = SubSeq(bytes, from, q - 1)
<1> DEFINE Ends(e) == e \in from .. Len(bytes) /\ bytes[e] \in {Zero, Pad}
                        /\ \A r \in from .. e - 1 : bytes[r] \notin {Zero, Pad}
           end == CHOOSE e \in from .. Len(bytes) :
                    bytes[e] \in {Zero, Pad} /\ \A r \in from .. e - 1 : bytes[r] \notin {Zero, Pad}
<1>1. Ends(q)
  OBVIOUS
<1>2. Ends(end)
  BY <1>1
<1>3. \A e : Ends(e) => e = q
  <2> SUFFICES ASSUME NEW e, Ends(e), e # q PROVE FALSE
    OBVIOUS
  <2>1. e \in Int /\ from <= e
    OBVIOUS
  <2>2. CASE e < q
    <3>1. e \in from .. q - 1
      BY <2>1, <2>2
    <3> QED
      BY <3>1
  <2>3. CASE q < e
    <3>1. q \in from .. e - 1
      BY <2>1, <2>3
    <3> QED
      BY <3>1
  <2> QED
    BY <2>1, <2>2, <2>3
<1>4. end = q
  <2> HIDE DEF Ends, end
  <2> QED
    BY <1>2, <1>3
<1>5. propper_string(bytes, from) = SubSeq(bytes, from, end - 1)
  BY DEF propper_string
<1> QED
  <2> HIDE DEF end
  <2> QED
    BY <1>4, <1>5

\* A stretch of bytes that has a field's letters is the beginning of that field.
LEMMA SameLetters ==
  ASSUME NEW S, NEW bytes, NEW field, NEW shift \in Int, NEW l \in Nat,
         \A k \in 1 .. l : bytes[shift + k] = field[k] /\ field[k] \in S
  PROVE  SubSeq(bytes, shift + 1, shift + l) = SubSeq(field, 1, l)
<1> DEFINE f == shift + 1
           e == shift + l
           u == SubSeq(bytes, f, e)
           v == SubSeq(field, 1, l)
<1>1. \A q \in f .. e : bytes[q] \in S
  <2> TAKE q \in f .. e
  <2>1. q - shift \in 1 .. l /\ shift + (q - shift) = q
    OBVIOUS
  <2> QED
    BY <2>1
<1>2. f \in Int /\ e \in Int /\ l \in Int /\ 1 \in Int /\ e - f + 1 = l /\ (f <= e <=> 1 <= l)
  OBVIOUS
<1>3. \A k \in 1 .. l : f + k - 1 = shift + k /\ 1 + k - 1 = k
  OBVIOUS
<1> HIDE DEF f, e
<1>4. /\ u \in Seq(S) /\ Len(u) = IF f <= e THEN e - f + 1 ELSE 0
      /\ \A k \in 1 .. e - f + 1 : u[k] = bytes[f + k - 1]
  BY ONLY <1>1, <1>2, SubSeqProperties
<1>5. \A q \in 1 .. l : field[q] \in S
  OBVIOUS
<1>6. /\ v \in Seq(S) /\ Len(v) = IF 1 <= l THEN l - 1 + 1 ELSE 0
      /\ \A k \in 1 .. l - 1 + 1 : v[k] = field[1 + k - 1]
  BY ONLY <1>2, <1>5, SubSeqProperties
<1> HIDE DEF u, v
<1>7. Len(u) = l /\ Len(v) = l
  BY <1>2, <1>4, <1>6
<1>8. ASSUME NEW k \in 1 .. Len(u) PROVE u[k] = v[k]
  <2>1. k \in 1 .. l /\ l - 1 + 1 = l
    BY <1>7
  <2>2. u[k] = bytes[shift + k]
    BY <1>2, <1>3, <1>4, <2>1
  <2>3. v[k] = field[k]
    BY <1>3, <1>6, <2>1
  <2> QED
    BY <2>1, <2>2, <2>3
<1>9. u = v
  BY <1>4, <1>6, <1>7, <1>8, SeqEqual
<1> QED
  BY <1>9 DEF u, v, f, e

\* The elements of three sequences in a row.
LEMMA ThreeParts ==
  ASSUME NEW S, NEW s \in Seq(S), NEW t \in Seq(S), NEW u \in Seq(S)
  PROVE  /\ Len(s \o t \o u) = Len(s) + Len(t) + Len(u)
         /\ \A k \in 1 .. Len(s) : (s \o t \o u)[k] = s[k]
         /\ \A k \in 1 .. Len(t) : (s \o t \o u)[Len(s) + k] = t[k]
         /\ \A k \in 1 .. Len(u) : (s \o t \o u)[Len(s) + Len(t) + k] = u[k]
<1>1. Len(s) \in Nat /\ Len(t) \in Nat /\ Len(u) \in Nat
  BY LenProperties
<1> DEFINE v == s \o t
<1>2. /\ v \in Seq(S) /\ Len(v) = Len(s) + Len(t)
      /\ \A k \in 1 .. Len(s) + Len(t) : v[k] = IF k <= Len(s) THEN s[k] ELSE t[k - Len(s)]
  BY ConcatProperties
<1> HIDE DEF v
<1> DEFINE w == v \o u
<1>3. /\ Len(w) = Len(v) + Len(u)
      /\ \A k \in 1 .. Len(v) + Len(u) : w[k] = IF k <= Len(v) THEN v[k] ELSE u[k - Len(v)]
  <2>1. v \in Seq(S) /\ u \in Seq(S)
    BY <1>2
  <2> QED
    BY ONLY <2>1, ConcatProperties
<1> HIDE DEF w
<1>4. \A k \in 1 .. Len(s) : w[k] = s[k]
  BY <1>1, <1>2, <1>3
<1>5. \A k \in 1 .. Len(t) : w[Len(s) + k] = t[k]
  BY <1>1, <1>2, <1>3
<1>6. \A k \in 1 .. Len(u) : w[Len(s) + Len(t) + k] = u[k]
  BY <1>1, <1>2, <1>3
<1> QED
  BY <1>1, <1>2, <1>3, <1>4, <1>5, <1>6 DEF v, w

\* The bytes of an entry with padded fields.
LEMMA BytesAre ==
  ASSUME NEW item, Padded(item.name, NameSize), Padded(item.ext, ExtSize)
  PROVE  /\ Len(Bytes(item)) = NameSize + ExtSize + 3
         /\ \A k \in 1 .. NameSize : Bytes(item)[k] = item.name[k]
         /\ \A k \in 1 .. ExtSize : Bytes(item)[NameSize + k] = item.ext[k]
         /\ Bytes(item)[NameSize + ExtSize + 1] = item.attributes
         /\ Bytes(item)[NameSize + ExtSize + 2] = Zero
<1> DEFINE S == Letters \cup {Dot, Pad, Zero, item.attributes}
<1>1. PICK s \in Seq(S) : s = item.name /\ Len(s) = NameSize
  <2>1. Letters \cup {Dot, Pad} \subseteq S
    OBVIOUS
  <2> HIDE DEF S
  <2> QED
    BY <2>1, SeqMonotonic DEF Padded
<1>2. PICK t \in Seq(S) : t = item.ext /\ Len(t) = ExtSize
  <2>1. Letters \cup {Dot, Pad} \subseteq S
    OBVIOUS
  <2> HIDE DEF S
  <2> QED
    BY <2>1, SeqMonotonic DEF Padded
<1>3. PICK u \in Seq(S) : /\ u = <<item.attributes, Zero, Zero>>
                         /\ Len(u) = 3 /\ u[1] = item.attributes /\ u[2] = Zero
  <2> DEFINE v == <<item.attributes, Zero, Zero>>
  <2>1. v \in Seq(S) /\ Len(v) = 3 /\ v[1] = item.attributes /\ v[2] = Zero
    OBVIOUS
  <2> HIDE DEF v
  <2>2. v = <<item.attributes, Zero, Zero>>
    BY DEF v
  <2> QED
    BY <2>1, <2>2
<1>4. NameSize \in Nat \ {0} /\ ExtSize \in Nat \ {0}
  BY FatNameAssumption
<1>5. Bytes(item) = s \o t \o u
  BY <1>1, <1>2, <1>3 DEF Bytes
<1> HIDE DEF S
<1>6. /\ Len(s \o t \o u) = Len(s) + Len(t) + Len(u)
      /\ \A k \in 1 .. Len(s) : (s \o t \o u)[k] = s[k]
      /\ \A k \in 1 .. Len(t) : (s \o t \o u)[Len(s) + k] = t[k]
      /\ \A k \in 1 .. Len(u) : (s \o t \o u)[Len(s) + Len(t) + k] = u[k]
  BY ThreeParts
<1>7. PICK b : b = s \o t \o u
  OBVIOUS
<1>8. /\ Len(b) = NameSize + ExtSize + 3
      /\ \A k \in 1 .. NameSize : b[k] = s[k]
      /\ \A k \in 1 .. ExtSize : b[NameSize + k] = t[k]
      /\ \A k \in 1 .. 3 : b[NameSize + ExtSize + k] = u[k]
  BY <1>1, <1>2, <1>3, <1>6, <1>7
<1>9. b[NameSize + ExtSize + 1] = u[1] /\ b[NameSize + ExtSize + 2] = u[2]
  BY <1>8
<1>10. Bytes(item) = b /\ u[1] = item.attributes /\ u[2] = Zero
  BY <1>3, <1>5, <1>7
<1>11. \A k \in 1 .. NameSize : b[k] = item.name[k]
  BY <1>1, <1>8
<1>12. \A k \in 1 .. ExtSize : b[NameSize + k] = item.ext[k]
  BY <1>2, <1>8
<1> QED
  BY <1>8, <1>9, <1>10, <1>11, <1>12

\* A name whose fields are ended is read as the file is called.
LEMMA NameIsRead ==
  ASSUME NEW item, Padded(item.name, NameSize), Padded(item.ext, ExtSize), ~RunsOn(item)
  PROVE  full_relative_filename(item) = FileName(item)
<1> DEFINE b == Bytes(item)
<1>1. NameSize \in Nat \ {0} /\ ExtSize \in Nat \ {0} /\ Zero \notin Letters \cup {Dot}
  BY FatNameAssumption
<1>2. PICK l \in 0 .. NameSize :
        /\ \A k \in 1 .. NameSize :
             IF k <= l THEN item.name[k] \in Letters \cup {Dot} /\ item.name[k] # Pad
                       ELSE item.name[k] = Pad
        /\ Trimmed(item.name) = SubSeq(item.name, 1, l) /\ Len(Trimmed(item.name)) = l
  BY <1>1, FieldLetters
<1>3. PICK m \in 0 .. ExtSize :
        /\ \A k \in 1 .. ExtSize :
             IF k <= m THEN item.ext[k] \in Letters \cup {Dot} /\ item.ext[k] # Pad
                       ELSE item.ext[k] = Pad
        /\ Trimmed(item.ext) = SubSeq(item.ext, 1, m) /\ Len(Trimmed(item.ext)) = m
  BY <1>1, FieldLetters
<1>4. /\ Len(b) = NameSize + ExtSize + 3
      /\ \A k \in 1 .. NameSize : b[k] = item.name[k]
      /\ \A k \in 1 .. ExtSize : b[NameSize + k] = item.ext[k]
      /\ b[NameSize + ExtSize + 1] = item.attributes
  BY BytesAre
<1>5. /\ l = NameSize => item.ext[1] = Pad
      /\ m = ExtSize => item.attributes \in {Pad, Zero}
  BY <1>2, <1>3 DEF RunsOn
<1>6. b[ExtAt] = item.ext[1] /\ ExtAt = NameSize + 1
  BY <1>1, <1>4 DEF ExtAt
<1> HIDE DEF b
<1>7. propper_string(b, 1) = Trimmed(item.name)
  <2>1. b[l + 1] \in {Zero, Pad}
    <3>1. CASE l < NameSize
      <4>1. l + 1 \in 1 .. NameSize /\ ~(l + 1 <= l)
        BY <1>1, <3>1
      <4> QED
        BY <1>2, <1>4, <4>1
    <3>2. CASE l = NameSize
      BY <1>5, <1>6, <3>2
    <3> QED
      BY <1>1, <3>1, <3>2
  <2>2. \A r \in 1 .. l : b[r] = item.name[r] /\ item.name[r] \in Letters \cup {Dot}
    BY <1>1, <1>2, <1>4
  <2>3. \A r \in 1 .. l : b[r] \notin {Zero, Pad}
    BY <1>1, <1>2, <2>2
  <2> DEFINE q == l + 1
  <2>4. q \in Int /\ 1 \in Int /\ 1 <= q /\ Len(b) \in Int /\ q <= Len(b) /\ q - 1 = l /\ l \in Nat
    BY <1>1, <1>2, <1>4
  <2> HIDE DEF q
  <2>5. propper_string(b, 1) = SubSeq(b, 1, q - 1)
    BY <2>1, <2>3, <2>4, ProperIs DEF q
  <2>6. SubSeq(b, 0 + 1, 0 + l) = SubSeq(item.name, 1, l)
    <3>1. \A k \in 1 .. l : b[0 + k] = item.name[k] /\ item.name[k] \in Letters \cup {Dot}
      BY <2>2
    <3>2. 0 \in Int
      OBVIOUS
    <3> QED
      BY ONLY <2>4, <3>1, <3>2, SameLetters
  <2> QED
    BY <1>2, <2>4, <2>5, <2>6
<1>8. CASE m = 0
  <2>1. b[ExtAt] \in {Zero, Pad}
    BY <1>1, <1>3, <1>6, <1>8
  <2>2. Trimmed(item.ext) = <<>>
    <3>1. 1 \in Int /\ 0 \in Int /\ 0 < 1
      OBVIOUS
    <3>2. SubSeq(item.ext, 1, 0) = <<>>
      BY <3>1, SubSeqEmpty
    <3> QED
      BY <1>3, <1>8, <3>2
  <2> QED
    BY <1>7, <2>1, <2>2 DEF full_relative_filename, FileName, b
<1>9. CASE m # 0
  <2>1. item.ext[1] \in Letters \cup {Dot} /\ item.ext[1] # Pad
    BY <1>1, <1>3, <1>9
  <2>2. b[ExtAt] \notin {Zero, Pad}
    BY <1>1, <1>6, <2>1
  <2>3. Trimmed(item.ext) # <<>>
    <3>1. Len(<<>>) = 0
      OBVIOUS
    <3> QED
      BY <1>3, <1>9, <3>1
  <2> DEFINE q == ExtAt + m
  <2>4. b[q] \in {Zero, Pad}
    <3>1. CASE m < ExtSize
      <4>1. m + 1 \in 1 .. ExtSize /\ q = NameSize + (m + 1) /\ ~(m + 1 <= m)
        BY <1>1, <1>3, <1>6, <3>1
      <4> HIDE DEF q
      <4> QED
        BY <1>3, <1>4, <4>1
    <3>2. CASE m = ExtSize
      <4>1. q = NameSize + ExtSize + 1
        BY <1>1, <1>6, <3>2
      <4> HIDE DEF q
      <4> QED
        BY <1>4, <1>5, <3>2, <4>1
    <3> QED
      BY <1>1, <3>1, <3>2
  <2>5. \A k \in 1 .. m : b[NameSize + k] = item.ext[k] /\ item.ext[k] \in Letters \cup {Dot}
    BY <1>1, <1>3, <1>4
  <2>6. \A r \in ExtAt .. q - 1 : b[r] \notin {Zero, Pad}
    <3> TAKE r \in ExtAt .. q - 1
    <3>1. r - NameSize \in 1 .. m /\ r - NameSize \in 1 .. ExtSize /\ r = NameSize + (r - NameSize)
      BY <1>1, <1>3, <1>6
    <3>2. b[r] \in Letters \cup {Dot} /\ b[r] # Pad
      BY <1>3, <2>5, <3>1
    <3> QED
      BY <1>1, <3>2
  <2>7. /\ q \in Int /\ ExtAt \in Int /\ ExtAt <= q /\ Len(b) \in Int /\ q <= Len(b)
        /\ q - 1 = NameSize + m /\ m \in Nat /\ NameSize \in Int
    BY <1>1, <1>3, <1>4, <1>6
  <2> HIDE DEF q
  <2>8. propper_string(b, ExtAt) = SubSeq(b, ExtAt, q - 1)
    BY <2>4, <2>6, <2>7, ProperIs
  <2>9. SubSeq(b, NameSize + 1, NameSize + m) = SubSeq(item.ext, 1, m)
    BY ONLY <2>5, <2>7, SameLetters
  <2>10. propper_string(b, ExtAt) = Trimmed(item.ext)
    BY <1>3, <1>6, <2>7, <2>8, <2>9
  <2> QED
    BY <1>7, <2>2, <2>3, <2>10 DEF full_relative_filename, FileName, b
<1> QED
  BY <1>8, <1>9

-----------------------------------------------------------------------------
(* Directories *)

\* The least element of a set of natural numbers.
LEMMA MinIs ==
  ASSUME NEW S \in SUBSET Nat, S # {}
  PROVE  Min(S) \in S /\ \A y \in S : Min(S) <= y
<1>1. \E x \in S : \A y \in S : x =< y
  BY LeastNatural
<1> QED
  BY <1>1 DEF Min

\* Where a directory ends on the disk, and where its own entries do.
LEMMA EndIs ==
  ASSUME NEW d, NEW root \in BOOLEAN, IsDirectory(d, root)
  PROVE  /\ ZeroAt(d.onDisk) \in 1 .. Len(d.onDisk) /\ Len(d.onDisk) \in Nat
         /\ EndsAt(d) \in 1 .. Len(d.entries) + 1 /\ Len(d.entries) \in Nat
         /\ \A k \in 1 .. EndsAt(d) - 1 :
              /\ k \in DOMAIN d.entries /\ d.entries[k] \in Items \cup {Unused}
<1> DEFINE S == {k \in DOMAIN d.onDisk : d.onDisk[k] = End}
           T == {k \in DOMAIN d.entries : d.entries[k] = End} \cup {Len(d.entries) + 1}
<1>1. DOMAIN d.onDisk = 1 .. Len(d.onDisk) /\ Len(d.onDisk) \in Nat
  <2>1. d.onDisk \in Seq(Items \cup {Unused, End})
    BY DEF IsDirectory
  <2> QED
    BY <2>1, LenProperties
<1>2. /\ DOMAIN d.entries = 1 .. Len(d.entries) /\ Len(d.entries) \in Nat
      /\ \A k \in DOMAIN d.entries : d.entries[k] \in Items \cup {Unused, End}
  <2>1. d.entries \in Seq(Items \cup {Unused, End})
    BY DEF IsDirectory
  <2> QED
    BY <2>1, LenProperties
<1>3. S \in SUBSET Nat /\ S # {}
  BY <1>1 DEF IsDirectory
<1>4. ZeroAt(d.onDisk) \in S
  <2> HIDE DEF S
  <2>1. ZeroAt(d.onDisk) = Min(S)
    BY DEF ZeroAt, S
  <2> QED
    BY <1>3, <2>1, MinIs
<1>5. T \in SUBSET Nat /\ T # {} /\ T \subseteq 1 .. Len(d.entries) + 1
  BY <1>2
<1>6. EndsAt(d) \in T /\ \A y \in T : EndsAt(d) <= y
  <2> HIDE DEF T
  <2>1. EndsAt(d) = Min(T)
    BY DEF EndsAt, T
  <2> QED
    BY <1>5, <2>1, MinIs
<1>7. ASSUME NEW k \in 1 .. EndsAt(d) - 1
      PROVE  k \in DOMAIN d.entries /\ d.entries[k] \in Items \cup {Unused}
  <2>1. EndsAt(d) \in 1 .. Len(d.entries) + 1
    BY <1>5, <1>6
  <2>2. k \in DOMAIN d.entries /\ ~(EndsAt(d) <= k)
    BY <1>2, <2>1
  <2>3. k \notin T
    BY <1>6, <2>2
  <2> QED
    BY <1>2, <2>2, <2>3
<1> QED
  BY <1>1, <1>2, <1>4, <1>5, <1>6, <1>7

\* What a directory lists are entries.
LEMMA ListedAreItems ==
  ASSUME NEW d, NEW root \in BOOLEAN, IsDirectory(d, root)
  PROVE  Listed(d) \subseteq Items
BY EndIs DEF Listed

\* In a tidy directory what is compared is what is listed, and an entry reads as the
\* name that is looked for if and only if it is the file with this name.
LEMMA TidyDirectory ==
  ASSUME NEW d, NEW root \in BOOLEAN, IsDirectory(d, root), NEW called, Tidy(d, root, called)
  PROVE  /\ total_items(d.onDisk) \in Nat
         /\ Listed(d) = {d.onDisk[k] : k \in 1 .. total_items(d.onDisk)}
         /\ \A k \in 1 .. total_items(d.onDisk) :
              /\ d.onDisk[k] \in Items /\ Copied(d, root, k) = {d.onDisk[k]}
              /\ full_relative_filename(d.onDisk[k]) = called <=> HasName(d.onDisk[k], called)
         /\ \A k, m \in 1 .. total_items(d.onDisk) :
              HasName(d.onDisk[k], called) /\ HasName(d.onDisk[m], called) => k = m
<1> DEFINE z == EndsAt(d)
           n == z - 1
           raw == d.onDisk
           own == d.entries
<1>1. /\ z \in 1 .. Len(own) + 1 /\ Len(own) \in Nat /\ Len(raw) \in Nat /\ ZeroAt(raw) = z
      /\ \A k \in 1 .. z - 1 : k \in DOMAIN own /\ own[k] \in Items \cup {Unused}
  BY EndIs DEF Tidy
<1>2. /\ z - 1 <= Together(root)
      /\ \A k \in 1 .. z - 1 : own[k] # Unused
      /\ \A k \in 1 .. z - 1 : own[k].attributes = Volume => full_relative_filename(own[k]) # called
      /\ \A k \in 1 .. z - 1 : own[k].attributes # Volume => ~RunsOn(own[k])
  BY DEF Tidy
<1>3. Together(root) \in Nat
  BY FatDirectoryAssumption DEF Together
<1>4. \A k \in 1 .. Together(root) : k <= Len(own) => own[k] = raw[k]
  BY DEF IsDirectory
<1>5. Differ(own)
  BY DEF IsDirectory
<1> HIDE DEF z, raw, own
<1>6. n \in Nat /\ n <= Together(root) /\ n <= Len(own)
  BY <1>1, <1>2
<1>7. \A k \in 1 .. n : /\ k \in 1 .. Together(root) /\ raw[k] = own[k]
                        /\ k \in DOMAIN own /\ own[k] \in Items
                        /\ ~(k > Together(root))
  <2> TAKE k \in 1 .. n
  <2>1. k \in 1 .. Together(root) /\ k <= Len(own) /\ k \in 1 .. z - 1 /\ ~(k > Together(root))
    BY <1>1, <1>3, <1>6
  <2> QED
    BY <1>1, <1>2, <1>4, <2>1
<1>8. total_items(raw) = Cardinality(1 .. n)
  <2>1. {k \in 1 .. ZeroAt(raw) - 1 : raw[k] # Unused} = 1 .. n
    BY <1>1, <1>2, <1>7
  <2> QED
    BY <2>1 DEF total_items
<1>9. Listed(d) = {raw[k] : k \in 1 .. n}
  <2>1. Listed(d) = {own[k] : k \in 1 .. n} \ {Unused}
    BY DEF Listed, z, own
  <2> HIDE DEF n
  <2>2. {own[k] : k \in 1 .. n} = {raw[k] : k \in 1 .. n}
    BY <1>7
  <2>3. Unused \notin {raw[k] : k \in 1 .. n}
    BY <1>7, FatDirectoryAssumption
  <2> QED
    BY <2>1, <2>2, <2>3
<1>10. \A k \in 1 .. n : own[k].attributes = Volume => full_relative_filename(own[k]) # called
  BY <1>2
<1>11. \A k \in 1 .. n : own[k].attributes # Volume => ~RunsOn(own[k])
  BY <1>2
<1> HIDE DEF n
<1>12. total_items(raw) = n
  <2>1. 1 \in Int /\ n \in Int /\ (1 > n => n = 0) /\ n - 1 + 1 = n
    BY <1>6
  <2>2. Cardinality(1 .. n) = IF 1 > n THEN 0 ELSE n - 1 + 1
    BY <2>1, FS_Interval
  <2> QED
    BY <1>8, <2>1, <2>2
<1>13. \A k \in 1 .. n : raw[k] \in Items /\ Copied(d, root, k) = {raw[k]}
  BY <1>7 DEF Copied, raw
<1>14. ASSUME NEW k \in 1 .. n
       PROVE  full_relative_filename(raw[k]) = called <=> HasName(raw[k], called)
  <2>1. raw[k] = own[k] /\ own[k] \in Items
    BY <1>7
  <2>2. CASE own[k].attributes = Volume
    BY <1>10, <2>1, <2>2 DEF HasName
  <2>3. CASE own[k].attributes # Volume
    <3>1. Padded(own[k].name, NameSize) /\ Padded(own[k].ext, ExtSize) /\ ~RunsOn(own[k])
      BY <1>11, <2>1, <2>3, FatDirectoryAssumption
    <3>2. full_relative_filename(own[k]) = FileName(own[k])
      BY <3>1, NameIsRead
    <3> QED
      BY <2>1, <2>3, <3>2 DEF HasName
  <2> QED
    BY <2>2, <2>3
<1>15. ASSUME NEW k \in 1 .. n, NEW m \in 1 .. n, HasName(raw[k], called), HasName(raw[m], called)
       PROVE  k = m
  <2>1. /\ k \in DOMAIN own /\ own[k] \in Items /\ m \in DOMAIN own /\ own[m] \in Items
        /\ raw[k] = own[k] /\ raw[m] = own[m]
    BY <1>7
  <2>2. /\ own[k].attributes # Volume /\ own[m].attributes # Volume
        /\ FileName(own[k]) = FileName(own[m])
    BY <1>15, <2>1 DEF HasName
  <2> QED
    BY <1>5, <2>1, <2>2 DEF Differ
<1> QED
  BY <1>6, <1>9, <1>12, <1>13, <1>14, <1>15 DEF raw

-----------------------------------------------------------------------------
(* Paths *)

\* The components that a path gives are its first ones, and none of them is empty.
LEMMA GivenIs ==
  ASSUME path \in Paths
  PROVE  /\ Len(Given) \in Nat /\ Len(Given) <= Len(path.components)
         /\ Given \in Seq(Range(path.components))
         /\ \A k \in 1 .. Len(Given) : Given[k] = path.components[k] /\ Given[k] # Empty
         /\ Len(Given) = Len(path.components) \/ path.components[Len(Given) + 1] = Empty
<1> DEFINE c == path.components
           S == Range(c)
           ends == {k \in DOMAIN c : c[k] = Empty}
<1>1. c \in Seq(S) /\ Len(c) \in Nat /\ DOMAIN c = 1 .. Len(c) /\ \A k \in 1 .. Len(c) : c[k] \in S
  <2>1. c \in Seq(S)
    BY PathLookupAssumption
  <2> HIDE DEF c, S
  <2> QED
    BY <2>1, LenProperties
<1>2. Given = IF ends = {} THEN c ELSE SubSeq(c, 1, Min(ends) - 1)
  BY DEF Given
<1> HIDE DEF S, c
<1>3. CASE ends = {}
  <2>1. Given = c /\ \A k \in 1 .. Len(c) : c[k] # Empty
    BY <1>1, <1>2, <1>3
  <2> QED
    BY <1>1, <2>1 DEF c, S
<1>4. CASE ends # {}
  <2>1. ends \in SUBSET Nat
    BY <1>1
  <2>2. PICK x : x = Min(ends) /\ x \in ends /\ \A y \in ends : x <= y
    <3> HIDE DEF ends
    <3> QED
      BY <1>4, <2>1, MinIs
  <2>3. x \in 1 .. Len(c) /\ c[x] = Empty
    BY <1>1, <2>2
  <2>4. \A k \in 1 .. x - 1 : c[k] # Empty /\ c[k] \in S
    <3> TAKE k \in 1 .. x - 1
    <3>1. k \in 1 .. Len(c) /\ ~(x <= k)
      BY <1>1, <2>3
    <3> QED
      BY <1>1, <2>2, <3>1
  <2>5. Given = SubSeq(c, 1, x - 1)
    BY <1>2, <1>4, <2>2
  <2> DEFINE e == x - 1
  <2>6. /\ e \in Int /\ 1 \in Int /\ e \in Nat /\ e + 1 = x
        /\ (IF 1 <= e THEN e - 1 + 1 ELSE 0) = e /\ e - 1 + 1 = e
        /\ e <= Len(c) /\ \A k \in 1 .. e : 1 + k - 1 = k
    BY <1>1, <2>3
  <2> HIDE DEF e
  <2>7. \A k \in 1 .. e : c[k] \in S
    BY <2>4 DEF e
  <2>8. /\ SubSeq(c, 1, e) \in Seq(S) /\ Len(SubSeq(c, 1, e)) = IF 1 <= e THEN e - 1 + 1 ELSE 0
        /\ \A k \in 1 .. e - 1 + 1 : SubSeq(c, 1, e)[k] = c[1 + k - 1]
    BY ONLY <2>6, <2>7, SubSeqProperties
  <2>9. Given \in Seq(S) /\ Len(Given) = e /\ \A k \in 1 .. e : Given[k] = c[k]
    <3>1. Given = SubSeq(c, 1, e)
      BY <2>5 DEF e
    <3> QED
      BY ONLY <2>6, <2>8, <3>1
  <2>10. \A k \in 1 .. e : c[k] # Empty
    BY <2>4 DEF e
  <2> QED
    BY <1>1, <2>3, <2>6, <2>9, <2>10 DEF c, S
<1> QED
  BY <1>3, <1>4

\* The beginning of what a path names.
Entries(g, k) == {e \in Listed(disk[g[k - 1]]) : HasName(e, Given[k])}
NextName(g, k) ==
  IF k = 0 THEN Root
  ELSE IF g[k - 1] \in Dirs /\ Entries(g, k) # {} THEN Goal(CHOOSE e \in Entries(g, k) : TRUE)
                                                  ELSE Nothing
Names(g, m) == g = [k \in 0 .. m |-> NextName(g, k)]

\* It can be followed as far as one likes.
LEMMA NamesGoOn == \A m \in Nat : \E g : Names(g, m)
<1> DEFINE S == {m \in Nat : ~\E g : Names(g, m)}
<1> SUFFICES ASSUME S # {} PROVE FALSE
  OBVIOUS
<1>1. PICK m \in S : \A y \in S : m <= y
  BY LeastNatural
<1>2. CASE m = 0
  <2>1. Names([k \in 0 .. 0 |-> Root], 0)
    BY DEF Names, NextName
  <2> QED
    BY <1>1, <1>2, <2>1
<1>3. CASE m # 0
  <2>1. m - 1 \in Nat /\ m - 1 \notin S /\ m \in Nat
    BY <1>1, <1>3
  <2>2. PICK g : Names(g, m - 1)
    BY <2>1
  <2> DEFINE h == [k \in 0 .. m |-> IF k = m THEN NextName(g, m) ELSE g[k]]
  <2>3. \A k \in 0 .. m - 1 : g[k] = NextName(g, k)
    BY <2>2 DEF Names
  <2>4. ASSUME NEW k \in 0 .. m PROVE h[k] = NextName(h, k)
    <3>1. h[k] = NextName(g, k)
      <4>1. k = m \/ k \in 0 .. m - 1
        BY <2>1
      <4> QED
        BY <2>3, <4>1
    <3>2. k # 0 => k - 1 \in 0 .. m /\ k - 1 # m
      BY <2>1
    <3>3. k # 0 => h[k - 1] = g[k - 1]
      BY <3>2
    <3> HIDE DEF h
    <3>4. NextName(g, k) = NextName(h, k)
      <4>1. CASE k = 0
        BY <4>1 DEF NextName
      <4>2. CASE k # 0
        <5>1. h[k - 1] = g[k - 1] /\ Entries(g, k) = Entries(h, k)
          BY <3>3, <4>2 DEF Entries
        <5> QED
          BY <5>1 DEF NextName
      <4> QED
        BY <4>1, <4>2
    <3> QED
      BY <3>1, <3>4
  <2>5. h = [k \in 0 .. m |-> NextName(h, k)]
    <3>1. h = [k \in 0 .. m |-> h[k]]
      OBVIOUS
    <3> HIDE DEF h
    <3> QED
      BY <2>4, <3>1
  <2>6. Names(h, m)
    <3> HIDE DEF h
    <3> QED
      BY <2>5 DEF Names
  <2> QED
    BY <1>1, <2>6
<1> QED
  BY <1>2, <1>3

\* The recursive definition of what a path names says what it should.
LEMMA NamedIs ==
  ASSUME path \in Paths
  PROVE  \A k \in 0 .. Len(Given) : Named[k] = NextName(Named, k)
<1>1. Len(Given) \in Nat
  BY GivenIs
<1>2. PICK g : Names(g, Len(Given))
  BY <1>1, NamesGoOn
<1>3. Named = [k \in 0 .. Len(Given) |-> NextName(Named, k)]
  BY <1>2 DEF Named, Names, NextName, Entries
<1> QED
  BY <1>3

\* A path names directories, files, or nothing, and no component the root directory.
LEMMA NamedTypes ==
  ASSUME path \in Paths, disk \in Disks
  PROVE  \A k \in 0 .. Len(Given) : /\ Named[k] \in Dirs \cup PlainFiles \cup {Nothing}
                                    /\ Named[k] = Root <=> k = 0
<1> SUFFICES ASSUME NEW k \in 0 .. Len(Given)
             PROVE  /\ Named[k] \in Dirs \cup PlainFiles \cup {Nothing}
                    /\ Named[k] = Root <=> k = 0
  OBVIOUS
<1>1. Named[k] = NextName(Named, k)
  BY NamedIs
<1>2. CASE k = 0
  BY <1>1, <1>2, PathLookupAssumption DEF NextName
<1>3. CASE k # 0 /\ Named[k - 1] \in Dirs /\ Entries(Named, k) # {}
  <2>1. PICK e \in Entries(Named, k) : Named[k] = Goal(e)
    BY <1>1, <1>3 DEF NextName
  <2> DEFINE root == (Named[k - 1] = Root)
  <2>2. root \in BOOLEAN /\ IsDirectory(disk[Named[k - 1]], root)
    BY <1>3, PathLookupAssumption
  <2> HIDE DEF root
  <2>3. e \in Items
    BY <2>1, <2>2, ListedAreItems DEF Entries
  <2>4. Goal(e) \in (Dirs \ {Root}) \cup PlainFiles
    BY <2>3, PathLookupAssumption
  <2> QED
    BY <1>3, <2>1, <2>4, PathLookupAssumption
<1>4. Nothing # Root
  BY PathLookupAssumption
<1> QED
  BY <1>1, <1>2, <1>3, <1>4 DEF NextName

\* Behind what is no directory a path names nothing.
LEMMA NamedStops ==
  ASSUME path \in Paths, NEW k \in 0 .. Len(Given), Named[k] \notin Dirs
  PROVE  \A m \in k + 1 .. Len(Given) : Named[m] = Nothing
<1> DEFINE S == {m \in Nat : m \in k + 1 .. Len(Given) /\ Named[m] # Nothing}
<1>1. Len(Given) \in Nat
  BY GivenIs
<1> SUFFICES ASSUME S # {} PROVE FALSE
  BY <1>1
<1>2. PICK m \in S : \A y \in S : m <= y
  BY LeastNatural
<1>3. Named[m - 1] \notin Dirs
  <2>1. CASE m = k + 1
    BY <1>1, <2>1
  <2>2. CASE m # k + 1
    <3>1. m - 1 \in Nat /\ m - 1 \in k + 1 .. Len(Given) /\ m - 1 \notin S
      BY <1>1, <1>2, <2>2
    <3> QED
      BY <3>1, PathLookupAssumption
  <2> QED
    BY <2>1, <2>2
<1>4. m \in 0 .. Len(Given) /\ m # 0
  BY <1>1
<1>5. Named[m] = Nothing
  BY <1>3, <1>4, NamedIs DEF NextName
<1> QED
  BY <1>5

-----------------------------------------------------------------------------
(* The inductive invariant of looking up a path *)

\* Where the kernel is before the disk has its file system.
BootLabels == {"private", "streams", "header", "read header", "count", "root", "root stream",
               "read root", "out", "resolved"}

\* The types of the variables.
PathTypes ==
  /\ disk \in Disks
  /\ label \in BootLabels \cup {"booted", "root of path", "parse", "find", "step", "done", "wild"}
  /\ streams \subseteq PrivateStreams
  /\ depth \in Nat /\ index \in Nat \ {0} /\ failed \in BOOLEAN
  /\ f_item \in FatItems \cup {Nothing} /\ current \in FatItems \cup {Nothing}

\* What is allocated while the file system is mounted, as long as nothing fails.
Boots ==
  /\ label \in BootLabels \cup {"booted"} => path = Nothing
  /\ label = "private" => live = {}
  /\ label = "streams" => live = {"private"}
  /\ label \in {"private", "streams"} => streams = {}
  /\ label \in {"header", "read header", "count", "root", "root stream", "read root"} =>
       fs_private = "private"
  /\ label = "header" => live = streams \cup {"private"}
  /\ label \in {"read header", "count", "root"} =>
       live = streams \cup {"private", "header stream"}
  /\ label = "root stream" => live = streams \cup {"private", "header stream", "root"}
  /\ label = "read root" =>
       live = streams \cup {"private", "header stream", "root", "root stream"}
  /\ label \in {"out", "resolved"} /\ res = "ok" => directory /\ fs_private = "private"
  /\ label = "out" /\ res = "ok" =>
       live = streams \cup {"private", "header stream", "root", "root stream"}
  /\ label = "resolved" /\ res = "ok" => live = streams \cup {"private", "root", "root stream"}

\* A file system that is mounted has its root directory.
Mounted ==
  label \notin BootLabels \cup {"wild"} /\ filesystem # "NULL" =>
    directory /\ fs_private = "private" /\ live = streams \cup {"private", "root", "root stream"}

\* Before the walk nothing is found, and the parts are the first components.
Parses ==
  /\ label \in BootLabels \cup {"booted", "root of path", "parse"} =>
       depth = 0 /\ index = 1 /\ f_item = Nothing /\ current = Nothing /\ items = {}
  /\ label \in BootLabels \cup {"booted", "root of path"} => parts = <<>>
  /\ label \in {"root of path", "parse", "find", "step", "done"} => path \in Paths
  /\ label = "root of path" => rest = path.components
  /\ label = "parse" =>
       /\ parts \in Seq(Range(path.components)) /\ rest \in Seq(Range(path.components))
       /\ Len(parts) + Len(rest) = Len(path.components)
       /\ \A k \in 1 .. Len(parts) : parts[k] = path.components[k] /\ parts[k] # Empty
       /\ \A k \in 1 .. Len(rest) : rest[k] = path.components[Len(parts) + k]

\* The walk goes on within the parts, in the file system of the disk.
OnTheWay ==
  label \in {"find", "step"} =>
    /\ path.drive = "0:/" /\ parts = Given /\ filesystem # "NULL" /\ depth <= Len(parts)
    /\ label = "find" => depth < Len(parts)
    /\ label = "find" => (depth = 0 <=> current = Nothing)
    /\ label = "step" => depth > 0 /\ index = 1 /\ f_item = Nothing

\* The item, and its data, that an entry of the n-th directory got.
Owned(n, item) == {<<"item", n, item.at>>, <<"data", n, item.at>>}

\* An item that was found is that of the one entry with the name, and if none was
\* found, there is none before the index.
Searches ==
  label = "find" /\ TidyWay =>
    /\ Place = Named[depth] /\ Place \in Dirs
    /\ f_item # Nothing =>
         /\ f_item.at \in 1 .. Total /\ f_item.at < index
         /\ HasName(disk[Place].onDisk[f_item.at], parts[depth + 1])
         /\ f_item.node = Goal(disk[Place].onDisk[f_item.at])
         /\ f_item.data # "valid" => failed
    /\ f_item = Nothing =>
         failed \/ \A k \in 1 .. Total : k < index => ~HasName(disk[Place].onDisk[k], parts[depth + 1])
    /\ \A o \in items : \/ current # Nothing /\ o \in Owned(depth, current)
                        \/ f_item # Nothing /\ o \in Owned(depth + 1, f_item)

\* Between two directories the current item is what the path names so far.
Stands ==
  label = "step" /\ TidyWay =>
    /\ current # Nothing => current.node = Named[depth] /\ (current.data # "valid" => failed)
    /\ current = Nothing => failed \/ Named[depth] = Nothing
    /\ \A o \in items : current # Nothing /\ o \in Owned(depth, current)

PathInv == /\ PathTypes /\ Boots /\ Mounted /\ Parses /\ OnTheWay /\ Searches /\ Stands
           /\ FindsNamed /\ FreesTheWay /\ WildOnlyIf

\* A path names the same as long as it and the disk stay the same.
LEMMA NamesKept ==
  ASSUME UNCHANGED <<disk, path>>
  PROVE  Given' = Given /\ Named' = Named /\ TidyWay' = TidyWay /\ Wanted' = Wanted
<1>1. Given' = Given
  BY DEF Given
<1>2. Named' = Named
  BY <1>1 DEF Named
<1> QED
  BY <1>1, <1>2 DEF TidyWay, Wanted

\* The invariant holds when the kernel starts.
LEMMA PathInitEstablishes == PathInit => PathInv
<1> SUFFICES ASSUME PathInit PROVE PathInv
  OBVIOUS
<1>1. label = "private" /\ path = Nothing
  BY DEF PathInit, MountInit
<1>2. PathTypes
  <2>1. depth \in Nat /\ index \in Nat \ {0}
    BY DEF PathInit
  <2>2. failed \in BOOLEAN
    BY DEF PathInit
  <2>3. disk \in Disks /\ f_item = Nothing /\ current = Nothing /\ streams = {}
    BY DEF PathInit, MountInit
  <2> QED
    BY <1>1, <2>1, <2>2, <2>3 DEF PathTypes, BootLabels
<1>5. Parses
  BY <1>1 DEF PathInit, Parses
<1>3. Boots /\ Mounted
  BY DEF PathInit, MountInit, Boots, BootLabels, Mounted
<1>4. OnTheWay /\ Searches /\ Stands /\ FindsNamed /\ FreesTheWay /\ WildOnlyIf
  BY <1>1 DEF OnTheWay, Searches, Stands, FindsNamed, FreesTheWay, WildOnlyIf
<1> QED
  BY <1>2, <1>3, <1>4, <1>5 DEF PathInv

-----------------------------------------------------------------------------
(* The mount *)

\* A step of the mount preserves the invariant.
LEMMA BootStep == PathInv /\ Boot => PathInv'
<1> SUFFICES ASSUME PathInv, Boot PROVE PathInv'
  OBVIOUS
<1> DEFINE Good == /\ label \in BootLabels /\ label' \in BootLabels \cup {"booted", "wild"}
                   /\ streams' \subseteq PrivateStreams /\ Boots' /\ Mounted'
<1>1. /\ MountNext /\ UNCHANGED <<disk, path, rest, walk, failed>>
      /\ streams \subseteq PrivateStreams /\ Boots /\ Mounted
  BY DEF Boot, PathInv, PathTypes
<1>2. Good
  <2> USE DEF BootLabels, Boots, Mounted, Goto, Allocate, Error
  <2>1. CASE PrivateIsNull \/ NewPrivate
    BY <1>1, <2>1 DEF PrivateIsNull, NewPrivate
  <2>2. CASE InitPrivate
    BY <1>1, <2>2 DEF InitPrivate
  <2>3. CASE NewHeaderStream \/ NoHeaderStream
    BY <1>1, <2>3 DEF NewHeaderStream, NoHeaderStream
  <2>4. CASE NotOurs \/ Ours
    BY <1>1, <2>4 DEF NotOurs, Ours
  <2>5. CASE CountItems \/ CountFails
    BY <1>1, <2>5 DEF CountItems, CountFails
  <2>6. CASE NewRoot \/ NoRoot
    BY <1>1, <2>6 DEF NewRoot, NoRoot
  <2>7. CASE RootStreamIsNull \/ NewRootStream
    BY <1>1, <2>7 DEF RootStreamIsNull, NewRootStream
  <2>8. CASE ReadRootFails \/ ReadRoot
    BY <1>1, <2>8 DEF ReadRootFails, ReadRoot
  <2>9. CASE Resolve
    <3>1. "header stream" \notin streams
      BY <1>1 DEF PrivateStreams
    <3> QED
      BY <1>1, <2>9, <3>1 DEF Resolve
  <2>10. CASE SetFilesystem
    BY <1>1, <2>10 DEF SetFilesystem
  <2> QED
    BY <1>1, <2>1, <2>2, <2>3, <2>4, <2>5, <2>6, <2>7, <2>8, <2>9, <2>10 DEF MountNext
<1>3. PathTypes'
  <2>1. UNCHANGED walk /\ UNCHANGED <<disk, failed>> /\ PathTypes
    BY <1>1 DEF PathInv
  <2>2. label' \in BootLabels \cup {"booted", "wild"} /\ streams' \subseteq PrivateStreams
    BY <1>2
  <2> HIDE DEF Good
  <2> QED
    BY <2>1, <2>2 DEF PathTypes, walk
<1>4. Parses' /\ path = Nothing
  <2>1. UNCHANGED walk /\ path' = path /\ Parses /\ Boots
    BY <1>1 DEF PathInv
  <2>2. label \in BootLabels /\ label' \in BootLabels \cup {"booted", "wild"}
    BY <1>2
  <2> HIDE DEF Good
  <2>3. path = Nothing
    BY <2>1, <2>2 DEF Boots
  <2>4. Parses'
    BY <2>1, <2>2 DEF Parses, BootLabels, walk
  <2> QED
    BY <2>3, <2>4
<1>5. OnTheWay' /\ Searches' /\ Stands' /\ FindsNamed' /\ FreesTheWay' /\ WildOnlyIf'
  <2>1. path' = Nothing /\ label' \notin {"find", "step", "done"}
    BY <1>1, <1>2, <1>4 DEF BootLabels
  <2> QED
    BY <2>1 DEF OnTheWay, Searches, Stands, FindsNamed, FreesTheWay, WildOnlyIf
<1> QED
  BY <1>2, <1>3, <1>4, <1>5 DEF PathInv

\* After the boot no step takes the file system away.
LEMMA StaysMounted ==
  ASSUME PathInv, UNCHANGED boot,
         label \notin BootLabels \cup {"wild"}, label' \notin BootLabels \cup {"booted"}
  PROVE  Boots' /\ Mounted' /\ streams' \subseteq PrivateStreams
BY DEF PathInv, PathTypes, BootLabels, Boots, Mounted, boot

-----------------------------------------------------------------------------
(* pathparser_parse *)

\* Fopen preserves the invariant.
LEMMA FopenStep == PathInv /\ Fopen => PathInv'
<1> SUFFICES ASSUME PathInv, Fopen PROVE PathInv'
  OBVIOUS
<1>1. /\ label = "booted" /\ label' = "root of path" /\ path' \in Paths /\ rest' = path'.components
      /\ UNCHANGED boot /\ UNCHANGED <<disk, walk, failed>>
  BY DEF Fopen, Goto
<1>2. Boots' /\ Mounted' /\ streams' \subseteq PrivateStreams
  BY <1>1, StaysMounted DEF BootLabels
<1>3. PathTypes' /\ Parses'
  BY <1>1, <1>2 DEF PathInv, PathTypes, Parses, BootLabels, walk
<1>4. OnTheWay' /\ Searches' /\ Stands' /\ FindsNamed' /\ FreesTheWay' /\ WildOnlyIf'
  BY <1>1 DEF OnTheWay, Searches, Stands, FindsNamed, FreesTheWay, WildOnlyIf
<1> QED
  BY <1>2, <1>3, <1>4 DEF PathInv

\* So do the steps that make the root of the parsed path.
LEMMA RootStep == PathInv /\ (RootIsNull \/ CreateRoot) => PathInv'
<1> SUFFICES ASSUME PathInv, RootIsNull \/ CreateRoot PROVE PathInv'
  OBVIOUS
<1>1. /\ label = "root of path" /\ UNCHANGED boot /\ UNCHANGED <<disk, path, rest, walk>>
      /\ \/ label' = "done" /\ path.drive = "bad"
         \/ label' = "wild" /\ failed' = TRUE
         \/ label' = "parse"
      /\ failed' \in BOOLEAN
  BY DEF RootIsNull, CreateRoot, Goto, PathInv, PathTypes
<1>2. Boots' /\ Mounted' /\ streams' \subseteq PrivateStreams
  BY <1>1, StaysMounted DEF BootLabels
<1>3. path \in Paths /\ parts = <<>> /\ rest = path.components /\ current = Nothing /\ items = {}
  BY <1>1 DEF PathInv, Parses
<1>4. PathTypes'
  BY <1>1, <1>2 DEF PathInv, PathTypes, BootLabels, walk
<1>5. Parses'
  <2>1. path.components \in Seq(Range(path.components)) /\ <<>> \in Seq(Range(path.components))
    BY <1>3, PathLookupAssumption
  <2>2. Len(path.components) \in Nat /\ Len(<<>>) = 0
    BY <2>1, LenProperties
  <2>3. CASE label' # "parse"
    BY <1>1, <1>3, <2>3 DEF PathInv, Parses, BootLabels, walk
  <2>4. CASE label' = "parse"
    <3>1. parts' = <<>> /\ rest' = path.components /\ path' = path
      BY <1>1, <1>3 DEF walk
    <3>5. \A k \in 1 .. Len(<<>>) : FALSE
      BY <2>2
    <3>2. \A k \in 1 .. Len(rest') : rest'[k] = path.components[Len(parts') + k]
      BY <2>2, <3>1
    <3>3. Len(parts') + Len(rest') = Len(path.components)
      BY <2>2, <3>1
    <3>4. depth' = 0 /\ index' = 1 /\ f_item' = Nothing /\ current' = Nothing /\ items' = {}
      BY <1>1 DEF PathInv, Parses, walk
    <3> QED
      BY <1>3, <2>1, <2>4, <3>1, <3>2, <3>3, <3>4, <3>5 DEF Parses, BootLabels
  <2> QED
    BY <2>3, <2>4
<1>6. OnTheWay' /\ Searches' /\ Stands' /\ WildOnlyIf'
  BY <1>1 DEF OnTheWay, Searches, Stands, WildOnlyIf
<1>7. FindsNamed' /\ FreesTheWay'
  <2>1. path.drive = "bad" => Wanted' = Nothing
    BY <1>1 DEF Wanted
  <2>2. current' = Nothing /\ items' = {}
    BY <1>1, <1>3 DEF walk
  <2>3. FindsNamed'
    BY <1>1, <2>1, <2>2 DEF FindsNamed
  <2>4. FreesTheWay'
    BY <1>1, <1>2, <2>2 DEF FreesTheWay, Mounted, BootLabels
  <2> QED
    BY <2>3, <2>4
<1> QED
  BY <1>2, <1>4, <1>5, <1>6, <1>7 DEF PathInv

\* So does a part of the path.
LEMMA PartStep == PathInv /\ (ParsePart \/ PartIsNull) => PathInv'
<1> SUFFICES ASSUME PathInv, ParsePart \/ PartIsNull PROVE PathInv'
  OBVIOUS
<1>1. /\ label = "parse" /\ UNCHANGED boot /\ UNCHANGED <<disk, path>>
      /\ UNCHANGED <<depth, index, f_item, current, items>>
      /\ label' = "parse" \/ (label' = "wild" /\ failed' = TRUE)
      /\ failed' \in BOOLEAN
  BY DEF ParsePart, PartIsNull, Goto, PathInv, PathTypes, walk
<1>2. Boots' /\ Mounted' /\ streams' \subseteq PrivateStreams
  BY <1>1, StaysMounted DEF BootLabels
<1>3. PathTypes'
  BY <1>1, <1>2 DEF PathInv, PathTypes, BootLabels
<1>4. Parses'
  <2>1. CASE label' = "wild"
    BY <1>1, <2>1 DEF Parses, BootLabels
  <2>2. CASE label' = "parse"
    <3> DEFINE c == path.components
               S == Range(c)
    <3>1. /\ parts \in Seq(S) /\ rest \in Seq(S) /\ Len(parts) + Len(rest) = Len(c)
          /\ \A k \in 1 .. Len(parts) : parts[k] = c[k] /\ parts[k] # Empty
          /\ \A k \in 1 .. Len(rest) : rest[k] = c[Len(parts) + k]
          /\ path \in Paths
      BY <1>1 DEF PathInv, Parses
    <3>2. /\ rest # <<>> /\ Head(rest) # Empty
          /\ parts' = Append(parts, Head(rest)) /\ rest' = Tail(rest)
      BY <2>2 DEF ParsePart, PartIsNull, More, Goto
    <3> HIDE DEF S
    <3>3. Len(parts) \in Nat /\ Len(rest) \in Nat \ {0}
      BY <3>1, <3>2, LenProperties, EmptySeq
    <3>4. /\ Head(rest) \in S /\ Head(rest) = rest[1] /\ Tail(rest) \in Seq(S)
          /\ Len(Tail(rest)) = Len(rest) - 1
          /\ \A k \in 1 .. Len(Tail(rest)) : Tail(rest)[k] = rest[k + 1]
      BY <3>1, <3>2, HeadTailProperties
    <3>5. /\ parts' \in Seq(S) /\ Len(parts') = Len(parts) + 1
          /\ \A k \in 1 .. Len(parts) : parts'[k] = parts[k]
          /\ parts'[Len(parts) + 1] = Head(rest)
      <4> DEFINE h == Head(rest)
      <4>1. h \in S /\ parts \in Seq(S)
        BY <3>1, <3>4
      <4> HIDE DEF h
      <4>2. parts' = Append(parts, h)
        BY <3>2 DEF h
      <4> QED
        BY <4>1, <4>2, AppendProperties DEF h
    <3>6. Head(rest) = c[Len(parts) + 1]
      BY <3>1, <3>3, <3>4
    <3>7. ASSUME NEW k \in 1 .. Len(parts') PROVE parts'[k] = c[k] /\ parts'[k] # Empty
      <4>1. CASE k = Len(parts) + 1
        BY <3>2, <3>5, <3>6, <4>1
      <4>2. CASE k # Len(parts) + 1
        <5>1. k \in 1 .. Len(parts)
          BY <3>3, <3>5, <4>2
        <5> QED
          BY <3>1, <3>5, <5>1
      <4> QED
        BY <4>1, <4>2
    <3>8. ASSUME NEW k \in 1 .. Len(rest') PROVE rest'[k] = c[Len(parts') + k]
      <4>1. k + 1 \in 1 .. Len(rest) /\ Len(parts') + k = Len(parts) + (k + 1)
        BY <3>2, <3>3, <3>4, <3>5
      <4> QED
        BY <3>1, <3>2, <3>4, <4>1
    <3>9. Len(parts') + Len(rest') = Len(c)
      <4>1. Len(rest') = Len(rest) - 1 /\ Len(parts') = Len(parts) + 1
        BY <3>2, <3>4, <3>5
      <4>2. Len(parts) + Len(rest) = Len(c)
        BY <3>1
      <4> QED
        BY ONLY <3>3, <4>1, <4>2
    <3>10. rest' \in Seq(S) /\ path' = path
      BY <1>1, <3>2, <3>4
    <3>11. depth = 0 /\ index = 1 /\ f_item = Nothing /\ current = Nothing /\ items = {}
      BY <1>1 DEF PathInv, Parses
    <3> QED
      BY <1>1, <2>2, <3>1, <3>5, <3>7, <3>8, <3>9, <3>10, <3>11 DEF Parses, BootLabels, S
  <2> QED
    BY <1>1, <2>1, <2>2
<1>5. OnTheWay' /\ Searches' /\ Stands' /\ FindsNamed' /\ FreesTheWay' /\ WildOnlyIf'
  BY <1>1 DEF OnTheWay, Searches, Stands, FindsNamed, FreesTheWay, WildOnlyIf
<1> QED
  BY <1>2, <1>3, <1>4, <1>5 DEF PathInv

\* At its end the parts are those that the path gives.
LEMMA PartsAreGiven ==
  ASSUME PathInv, label = "parse", ~More
  PROVE  parts = Given
<1> DEFINE c == path.components
           S == Range(c)
<1>1. /\ parts \in Seq(S) /\ rest \in Seq(S) /\ Len(parts) + Len(rest) = Len(c)
      /\ \A k \in 1 .. Len(parts) : parts[k] = c[k] /\ parts[k] # Empty
      /\ \A k \in 1 .. Len(rest) : rest[k] = c[Len(parts) + k]
      /\ path \in Paths
  BY DEF PathInv, Parses
<1>2. /\ Len(Given) \in Nat /\ Len(Given) <= Len(c) /\ Given \in Seq(S)
      /\ \A k \in 1 .. Len(Given) : Given[k] = c[k] /\ Given[k] # Empty
      /\ Len(Given) = Len(c) \/ c[Len(Given) + 1] = Empty
  BY <1>1, GivenIs
<1> HIDE DEF S, c
<1>3. Len(parts) \in Nat /\ Len(rest) \in Nat /\ (rest # <<>> => Len(rest) # 0)
  BY <1>1, LenProperties, EmptySeq
<1>4. Len(parts) = Len(c) \/ (Len(parts) < Len(c) /\ c[Len(parts) + 1] = Empty)
  <2>1. CASE rest = <<>>
    <3>1. Len(rest) = 0
      BY <2>1
    <3> QED
      BY <1>1, <1>3, <3>1
  <2>2. CASE rest # <<>>
    <3>1. rest[1] = Empty
      BY <1>1, <2>2, HeadTailProperties DEF More
    <3>2. 1 \in 1 .. Len(rest)
      BY <1>3, <2>2
    <3> QED
      BY <1>1, <1>3, <3>1, <3>2
  <2> QED
    BY <2>1, <2>2
<1>5. Len(parts) = Len(Given)
  <2>1. ~(Len(parts) < Len(Given))
    <3> SUFFICES ASSUME Len(parts) < Len(Given) PROVE FALSE
      OBVIOUS
    <3>1. Len(parts) + 1 \in 1 .. Len(Given)
      BY <1>2, <1>3
    <3>2. Len(parts) # Len(c)
      BY <1>2, <1>3
    <3> QED
      BY <1>2, <1>4, <3>1, <3>2
  <2>2. ~(Len(Given) < Len(parts))
    <3> SUFFICES ASSUME Len(Given) < Len(parts) PROVE FALSE
      OBVIOUS
    <3>1. Len(Given) + 1 \in 1 .. Len(parts)
      BY <1>2, <1>3
    <3>2. Len(Given) # Len(c)
      BY <1>1, <1>2, <1>3
    <3> QED
      BY <1>1, <1>2, <3>1, <3>2
  <2> QED
    BY <1>2, <1>3, <2>1, <2>2
<1>6. \A k \in 1 .. Len(parts) : parts[k] = Given[k]
  BY <1>1, <1>2, <1>5
<1> QED
  BY <1>1, <1>2, <1>5, <1>6, SeqEqual

\* The end of the path preserves the invariant.
LEMMA EndStep == PathInv /\ EndOfPath => PathInv'
<1> SUFFICES ASSUME PathInv, EndOfPath PROVE PathInv'
  OBVIOUS
<1>1. /\ label = "parse" /\ ~More /\ UNCHANGED boot /\ UNCHANGED <<disk, path>>
      /\ UNCHANGED <<rest, parts, depth, index, f_item, current, items, failed>>
      /\ \/ label' = "find" /\ parts # <<>> /\ path.drive = "0:/" /\ filesystem # "NULL"
         \/ label' = "done" /\ ~(parts # <<>> /\ path.drive = "0:/" /\ filesystem # "NULL")
  BY DEF EndOfPath, Goto, walk
<1>2. Boots' /\ Mounted' /\ streams' \subseteq PrivateStreams
  BY <1>1, StaysMounted DEF BootLabels
<1>3. /\ path \in Paths /\ depth = 0 /\ index = 1 /\ f_item = Nothing /\ current = Nothing
      /\ items = {} /\ disk \in Disks
  BY <1>1 DEF PathInv, Parses, PathTypes
<1>4. parts = Given /\ Len(Given) \in Nat /\ (Given # <<>> => Len(Given) # 0)
  <2>1. parts = Given
    BY <1>1, PartsAreGiven
  <2> QED
    BY <1>3, <2>1, GivenIs, EmptySeq
<1>5. PathTypes' /\ Parses'
  BY <1>1, <1>2, <1>3 DEF PathInv, PathTypes, Parses, BootLabels
<1>6. Given' = Given /\ Named' = Named /\ TidyWay' = TidyWay /\ Wanted' = Wanted
  BY <1>1, NamesKept
<1>7. OnTheWay'
  BY <1>1, <1>3, <1>4, <1>6 DEF OnTheWay, boot
<1>8. Searches'
  <2>1. Named[0] = Root /\ Root \in Dirs
    <3>1. 0 \in 0 .. Len(Given)
      BY <1>4
    <3>2. Named[0] = NextName(Named, 0)
      BY <1>3, <3>1, NamedIs
    <3> QED
      BY <3>2, PathLookupAssumption DEF NextName
  <2>2. Place' = Root
    BY <1>1, <1>3 DEF Place
  <2>3. Named'[depth'] = Root
    BY <1>1, <1>3, <1>6, <2>1
  <2>4. f_item' = Nothing /\ items' = {} /\ \A k \in 1 .. Total' : ~(k < index')
    BY <1>1, <1>3
  <2> QED
    BY <2>1, <2>2, <2>3, <2>4 DEF Searches
<1>9. Stands' /\ WildOnlyIf'
  BY <1>1 DEF Stands, WildOnlyIf
<1>10. FindsNamed' /\ FreesTheWay'
  <2>1. label' = "done" /\ filesystem' # "NULL" => Wanted' = Nothing
    BY <1>1, <1>4, <1>6 DEF Wanted, boot
  <2>2. current' = Nothing /\ items' = {}
    BY <1>1, <1>3
  <2>3. FindsNamed'
    BY <2>1, <2>2 DEF FindsNamed
  <2>4. FreesTheWay'
    BY <1>1, <1>2, <2>2 DEF FreesTheWay, Mounted, BootLabels
  <2> QED
    BY <2>3, <2>4
<1> QED
  BY <1>2, <1>5, <1>7, <1>8, <1>9, <1>10 DEF PathInv

-----------------------------------------------------------------------------
(* fat16_find_item_in_directory *)

\* In a tidy directory each index has one candidate, which is taken for what is looked
\* for if and only if it is the file with this name.
LEMMA SearchIs ==
  ASSUME PathInv, label = "find", TidyWay
  PROVE  /\ Total \in Nat
         /\ \A k \in 1 .. Total : disk[Place].onDisk[k] \in Items
         /\ \A e \in Candidates : index <= Total =>
              /\ e = disk[Place].onDisk[index]
              /\ Is(e) <=> HasName(e, parts[depth + 1])
         /\ \A k, m \in 1 .. Total :
              /\ HasName(disk[Place].onDisk[k], parts[depth + 1])
              /\ HasName(disk[Place].onDisk[m], parts[depth + 1])
              => k = m
         /\ Listed(disk[Place]) = {disk[Place].onDisk[k] : k \in 1 .. Total}
<1> DEFINE d == disk[Place]
           root == (depth = 0)
           called == parts[depth + 1]
<1>1. /\ Place = Named[depth] /\ Place \in Dirs /\ disk \in Disks
      /\ parts = Given /\ depth \in Nat /\ depth < Len(parts) /\ path \in Paths
      /\ index \in Nat \ {0} /\ filesystem # "NULL"
  BY DEF PathInv, Searches, OnTheWay, PathTypes, Parses
<1>2. directory
  BY <1>1 DEF PathInv, Mounted, BootLabels
<1>3. Total = total_items(d.onDisk)
  BY <1>2 DEF Total
<1>4. depth \in 0 .. Len(Given) - 1 /\ depth \in 0 .. Len(Given)
  BY <1>1, GivenIs
<1>5. Tidy(d, root, called)
  BY <1>1, <1>4 DEF TidyWay
<1>6. IsDirectory(d, root) /\ root \in BOOLEAN
  <2>1. (Place = Root) = root
    BY <1>1, <1>4, NamedTypes
  <2>2. IsDirectory(disk[Place], Place = Root)
    BY <1>1, PathLookupAssumption
  <2> QED
    BY <2>1, <2>2
<1> HIDE DEF d, root, called
<1>7. /\ Total \in Nat
      /\ Listed(d) = {d.onDisk[k] : k \in 1 .. Total}
      /\ \A k \in 1 .. Total :
           /\ d.onDisk[k] \in Items /\ Copied(d, root, k) = {d.onDisk[k]}
           /\ full_relative_filename(d.onDisk[k]) = called <=> HasName(d.onDisk[k], called)
      /\ \A k, m \in 1 .. Total :
           HasName(d.onDisk[k], called) /\ HasName(d.onDisk[m], called) => k = m
  BY <1>3, <1>5, <1>6, TidyDirectory
<1>8. Candidates = Copied(d, root, index)
  BY DEF Candidates, d, root
<1>9. ASSUME NEW e \in Candidates, index <= Total
      PROVE  e = d.onDisk[index] /\ (Is(e) <=> HasName(e, called))
  <2>1. index \in 1 .. Total
    BY <1>1, <1>7, <1>9
  <2>2. /\ e = d.onDisk[index] /\ e \in Items
        /\ full_relative_filename(e) = called <=> HasName(e, called)
    BY <1>7, <1>8, <2>1
  <2> QED
    BY <2>2 DEF Is, called
<1> QED
  BY <1>7, <1>9 DEF d, called

\* What a step of the search leaves alone.
LEMMA SearchFrame ==
  ASSUME PathInv, label = "find", label' = "find", UNCHANGED boot,
         UNCHANGED <<disk, path, rest, parts, depth, current>>, index' = index + 1,
         f_item' \in FatItems \cup {Nothing}, failed' \in BOOLEAN
  PROVE  /\ PathTypes' /\ Boots' /\ Mounted' /\ Parses' /\ OnTheWay' /\ Stands'
         /\ FindsNamed' /\ FreesTheWay' /\ WildOnlyIf'
         /\ TidyWay' = TidyWay /\ Named' = Named /\ Place' = Place /\ Total' = Total
<1>1. Boots' /\ Mounted' /\ streams' \subseteq PrivateStreams
  BY StaysMounted DEF BootLabels
<1>2. index' \in Nat \ {0}
  BY DEF PathInv, PathTypes
<1>3. PathTypes'
  BY <1>1, <1>2 DEF PathInv, PathTypes, BootLabels
<1>4. Parses'
  BY DEF PathInv, Parses, BootLabels
<1>5. Given' = Given /\ Named' = Named /\ TidyWay' = TidyWay
  BY NamesKept
<1>6. OnTheWay'
  BY <1>5 DEF PathInv, OnTheWay, boot
<1>7. Stands' /\ FindsNamed' /\ FreesTheWay' /\ WildOnlyIf'
  BY DEF Stands, FindsNamed, FreesTheWay, WildOnlyIf
<1>8. Place' = Place
  BY DEF Place
<1>9. Total' = Total
  BY <1>8 DEF Total, boot
<1> QED
  BY <1>1, <1>3, <1>4, <1>5, <1>6, <1>7, <1>8, <1>9

\* An entry with another name preserves the invariant.
LEMMA NotThisStep == PathInv /\ NotThis => PathInv'
<1> SUFFICES ASSUME PathInv, NotThis PROVE PathInv'
  OBVIOUS
<1>1. /\ label = "find" /\ label' = "find" /\ UNCHANGED boot /\ index <= Total
      /\ UNCHANGED <<disk, path, rest, parts, depth, current, f_item, items, failed>>
      /\ index' = index + 1
  BY DEF NotThis, Onward
<1>2. PICK entry \in Candidates : ~Is(entry)
  BY DEF NotThis
<1>3. f_item \in FatItems \cup {Nothing} /\ failed \in BOOLEAN /\ index \in Nat \ {0}
  BY DEF PathInv, PathTypes
<1>4. /\ PathTypes' /\ Boots' /\ Mounted' /\ Parses' /\ OnTheWay' /\ Stands'
      /\ FindsNamed' /\ FreesTheWay' /\ WildOnlyIf'
      /\ TidyWay' = TidyWay /\ Named' = Named /\ Place' = Place /\ Total' = Total
  <2>1. f_item' \in FatItems \cup {Nothing} /\ failed' \in BOOLEAN
    BY <1>1, <1>3
  <2> QED
    BY <1>1, <2>1, SearchFrame
<1>5. Searches'
  <2> SUFFICES ASSUME TidyWay PROVE Searches'
    BY <1>4 DEF Searches
  <2>1. Total \in Nat /\ ~HasName(disk[Place].onDisk[index], parts[depth + 1])
    BY <1>1, <1>2, SearchIs
  <2>2. /\ Place = Named[depth] /\ Place \in Dirs
        /\ f_item # Nothing =>
             /\ f_item.at \in 1 .. Total /\ f_item.at < index
             /\ HasName(disk[Place].onDisk[f_item.at], parts[depth + 1])
             /\ f_item.node = Goal(disk[Place].onDisk[f_item.at])
             /\ f_item.data # "valid" => failed
        /\ f_item = Nothing =>
             \/ failed
             \/ \A k \in 1 .. Total : k < index => ~HasName(disk[Place].onDisk[k], parts[depth + 1])
        /\ \A o \in items : \/ current # Nothing /\ o \in Owned(depth, current)
                            \/ f_item # Nothing /\ o \in Owned(depth + 1, f_item)
    BY <1>1 DEF PathInv, Searches
  <2>3. f_item # Nothing => f_item.at < index + 1
    BY <1>3, <2>1, <2>2
  <2>4. f_item = Nothing =>
          \/ failed
          \/ \A k \in 1 .. Total : k < index + 1 => ~HasName(disk[Place].onDisk[k], parts[depth + 1])
    <3> SUFFICES ASSUME f_item = Nothing, ~failed, NEW k \in 1 .. Total, k < index + 1
                 PROVE  ~HasName(disk[Place].onDisk[k], parts[depth + 1])
      OBVIOUS
    <3>1. CASE k = index
      BY <2>1, <3>1
    <3>2. CASE k # index
      <4>1. k < index
        BY <1>3, <2>1, <3>2
      <4> QED
        BY <2>2, <4>1
    <3> QED
      BY <3>1, <3>2
  <2> QED
    BY <1>1, <1>4, <2>2, <2>3, <2>4 DEF Searches, Owned
<1> QED
  BY <1>4, <1>5 DEF PathInv

\* So does the entry that is looked for, whether it gets an item or not.
LEMMA ThisStep == PathInv /\ (This \/ ThisFails) => PathInv'
<1> SUFFICES ASSUME PathInv, This \/ ThisFails PROVE PathInv'
  OBVIOUS
<1>1. /\ label = "find" /\ label' = "find" /\ UNCHANGED boot /\ index <= Total
      /\ UNCHANGED <<disk, path, rest, parts, depth, current>>
      /\ index' = index + 1
  BY DEF This, ThisFails, Onward
<1> DEFINE Mine == {<<"item", depth + 1, index>>, <<"data", depth + 1, index>>}
<1>2. PICK entry \in Candidates, d \in {"valid", "null", "freed"} :
        /\ Is(entry)
        /\ \/ NewItem(entry, d) /\ items' \subseteq items \cup Mine
              /\ (d # "valid" => failed')
           \/ f_item' = Nothing /\ items' = items /\ failed'
        /\ failed' = TRUE \/ failed' = failed
  <2>1. CASE This
    BY <2>1 DEF This
  <2>2. CASE ThisFails
    BY <2>2 DEF ThisFails
  <2> QED
    BY <2>1, <2>2
<1>3. failed \in BOOLEAN /\ index \in Nat \ {0} /\ depth \in Nat
  BY DEF PathInv, PathTypes
<1>4. \/ f_item' = Nothing
      \/ /\ f_item' = [node |-> Goal(entry), data |-> d, at |-> index]
         /\ f_item' \in FatItems
  <2>1. entry \in Items /\ Goal(entry) \in Dirs \cup PlainFiles
    BY <1>2, PathLookupAssumption DEF Is
  <2> QED
    BY <1>2, <1>3, <2>1 DEF NewItem, FatItems
<1>5. /\ PathTypes' /\ Boots' /\ Mounted' /\ Parses' /\ OnTheWay' /\ Stands'
      /\ FindsNamed' /\ FreesTheWay' /\ WildOnlyIf'
      /\ TidyWay' = TidyWay /\ Named' = Named /\ Place' = Place /\ Total' = Total
  <2>1. f_item' \in FatItems \cup {Nothing}
    BY <1>4
  <2>2. failed' \in BOOLEAN
    BY <1>2, <1>3
  <2> QED
    BY <1>1, <2>1, <2>2, SearchFrame
<1>6. Searches'
  <2> SUFFICES ASSUME TidyWay PROVE Searches'
    BY <1>5 DEF Searches
  <2>1. /\ Total \in Nat /\ entry = disk[Place].onDisk[index] /\ index \in 1 .. Total
        /\ HasName(disk[Place].onDisk[index], parts[depth + 1])
        /\ \A k, m \in 1 .. Total :
             /\ HasName(disk[Place].onDisk[k], parts[depth + 1])
             /\ HasName(disk[Place].onDisk[m], parts[depth + 1])
             => k = m
    BY <1>1, <1>2, <1>3, SearchIs
  <2>2. /\ Place = Named[depth] /\ Place \in Dirs
        /\ f_item # Nothing =>
             /\ f_item.at \in 1 .. Total /\ f_item.at < index
             /\ HasName(disk[Place].onDisk[f_item.at], parts[depth + 1])
        /\ \A o \in items : \/ current # Nothing /\ o \in Owned(depth, current)
                            \/ f_item # Nothing /\ o \in Owned(depth + 1, f_item)
    BY <1>1 DEF PathInv, Searches
  <2>3. f_item = Nothing
    <3> SUFFICES ASSUME f_item # Nothing PROVE FALSE
      OBVIOUS
    <3>1. f_item.at = index
      BY <2>1, <2>2
    <3> QED
      BY <1>3, <2>2, <3>1
  <2>4. \A o \in items : current # Nothing /\ o \in Owned(depth, current)
    BY <2>2, <2>3
  <2>5. CASE f_item' = Nothing
    <3>1. items' = items /\ failed'
      <4>1. Nothing \notin FatItems
        BY PathLookupAssumption
      <4>2. ~NewItem(entry, d)
        <5> SUFFICES ASSUME NewItem(entry, d) PROVE FALSE
          OBVIOUS
        <5>1. entry \in Items /\ Goal(entry) \in Dirs \cup PlainFiles
          BY <1>2, PathLookupAssumption DEF Is
        <5>2. f_item' \in FatItems
          BY <1>2, <1>3, <5>1 DEF NewItem, FatItems
        <5> QED
          BY <2>5, <4>1, <5>2
      <4> QED
        BY <1>2, <4>2
    <3> QED
      BY <1>1, <1>5, <2>2, <2>4, <2>5, <3>1 DEF Searches, Owned
  <2>6. CASE f_item' # Nothing
    <3>1. /\ f_item' = [node |-> Goal(entry), data |-> d, at |-> index]
          /\ items' \subseteq items \cup Mine /\ (d # "valid" => failed')
      BY <1>2, <2>6 DEF NewItem
    <3>2. f_item'.at = index /\ f_item'.node = Goal(entry) /\ f_item'.data = d
      BY <3>1
    <3>3. Owned(depth + 1, f_item') = Mine
      BY <3>2 DEF Owned
    <3>4. \A o \in items' : \/ current # Nothing /\ o \in Owned(depth, current)
                            \/ o \in Owned(depth + 1, f_item')
      <4> HIDE DEF Mine
      <4> QED
        BY <2>4, <3>1, <3>3
    <3>5. index < index + 1
      BY <1>3
    <3> QED
      BY <1>1, <1>5, <2>1, <2>2, <2>6, <3>1, <3>2, <3>4, <3>5 DEF Searches, Owned
  <2> QED
    BY <2>5, <2>6
<1> QED
  BY <1>5, <1>6 DEF PathInv

\* So does the stream that was not allocated.
LEMMA NullStreamStep == PathInv /\ ThroughNullStream => PathInv'
<1> SUFFICES ASSUME PathInv, ThroughNullStream PROVE PathInv'
  OBVIOUS
<1>1. /\ label = "find" /\ label' = "wild" /\ "cluster stream" \notin streams
      /\ UNCHANGED boot /\ UNCHANGED <<disk, path, rest, failed>> /\ UNCHANGED walk
  BY DEF ThroughNullStream, Goto
<1>2. Boots' /\ Mounted' /\ streams' \subseteq PrivateStreams
  BY <1>1, StaysMounted DEF BootLabels
<1>3. PathTypes' /\ Parses'
  BY <1>1, <1>2 DEF PathInv, PathTypes, Parses, BootLabels, walk
<1>4. OnTheWay' /\ Searches' /\ Stands' /\ FindsNamed' /\ FreesTheWay'
  BY <1>1 DEF OnTheWay, Searches, Stands, FindsNamed, FreesTheWay
<1>5. WildOnlyIf'
  BY <1>1 DEF WildOnlyIf, boot
<1> QED
  BY <1>2, <1>3, <1>4, <1>5 DEF PathInv

-----------------------------------------------------------------------------
(* fat16_get_directory_entry *)

\* The end of a search preserves the invariant: the item found is what the path names.
LEMMA SearchedStep == PathInv /\ Searched => PathInv'
<1> SUFFICES ASSUME PathInv, Searched PROVE PathInv'
  OBVIOUS
<1>1. /\ label = "find" /\ label' = "step" /\ index > Total
      /\ UNCHANGED boot /\ UNCHANGED <<disk, path, rest, parts, failed>>
      /\ items' = items \ Released
      /\ current' = f_item /\ depth' = depth + 1 /\ index' = 1 /\ f_item' = Nothing
  BY DEF Searched, Goto
<1>2. Boots' /\ Mounted' /\ streams' \subseteq PrivateStreams
  BY <1>1, StaysMounted DEF BootLabels
<1>3. /\ depth \in Nat /\ index \in Nat \ {0} /\ disk \in Disks /\ path \in Paths
      /\ parts = Given /\ depth < Len(Given) /\ Len(Given) \in Nat
  <2>1. path \in Paths
    BY <1>1 DEF PathInv, Parses
  <2> QED
    BY <1>1, <2>1, GivenIs DEF PathInv, PathTypes, OnTheWay
<1>4. PathTypes'
  BY <1>1, <1>2, <1>3 DEF PathInv, PathTypes, BootLabels
<1>5. Parses'
  BY <1>1, <1>3 DEF Parses, BootLabels
<1>6. Given' = Given /\ Named' = Named /\ TidyWay' = TidyWay
  BY <1>1, NamesKept
<1>7. OnTheWay'
  <2>1. depth' > 0 /\ depth' <= Len(parts')
    BY <1>1, <1>3
  <2> QED
    BY <1>1, <1>6, <2>1 DEF PathInv, OnTheWay, boot
<1>8. Stands'
  <2> SUFFICES ASSUME TidyWay PROVE Stands'
    BY <1>6 DEF Stands
  <2> DEFINE raw == disk[Place].onDisk
  <2>1. /\ Place = Named[depth] /\ Place \in Dirs
        /\ f_item # Nothing =>
             /\ f_item.at \in 1 .. Total
             /\ HasName(raw[f_item.at], parts[depth + 1])
             /\ f_item.node = Goal(raw[f_item.at])
             /\ f_item.data # "valid" => failed
        /\ f_item = Nothing =>
             failed \/ \A k \in 1 .. Total : k < index => ~HasName(raw[k], parts[depth + 1])
        /\ \A o \in items : \/ current # Nothing /\ o \in Owned(depth, current)
                            \/ f_item # Nothing /\ o \in Owned(depth + 1, f_item)
    BY <1>1 DEF PathInv, Searches
  <2>2. /\ Total \in Nat
        /\ \A k, m \in 1 .. Total :
             HasName(raw[k], parts[depth + 1]) /\ HasName(raw[m], parts[depth + 1]) => k = m
        /\ Listed(disk[Place]) = {raw[k] : k \in 1 .. Total}
    BY <1>1, SearchIs
  <2> DEFINE next == depth + 1
             L == {e \in Listed(disk[Place]) : HasName(e, parts[next])}
  <2>3. next \in 0 .. Len(Given) /\ next # 0 /\ next - 1 = depth /\ (next = 1 <=> depth = 0)
    BY <1>3
  <2>4. Entries(Named, next) = L
    BY <1>3, <2>1, <2>3 DEF Entries
  <2>5. Named[next] = IF L # {} THEN Goal(CHOOSE e \in L : TRUE) ELSE Nothing
    <3> HIDE DEF L, next
    <3>1. Named[next] = NextName(Named, next)
      BY <1>3, <2>3, NamedIs
    <3> QED
      BY <2>1, <2>3, <2>4, <3>1 DEF NextName
  <2>6. f_item # Nothing => f_item.node = Named[next] /\ (f_item.data # "valid" => failed)
    <3> SUFFICES ASSUME f_item # Nothing PROVE f_item.node = Named[next]
      BY <2>1
    <3> DEFINE at == f_item.at
    <3>1. at \in 1 .. Total /\ HasName(raw[at], parts[next]) /\ f_item.node = Goal(raw[at])
      BY <2>1
    <3>5. \A k \in 1 .. Total : HasName(raw[k], parts[next]) => k = at
      BY <2>2, <3>1
    <3> HIDE DEF at, raw, next
    <3>2. raw[at] \in L
      BY <2>2, <3>1
    <3>3. \A e \in L : e = raw[at]
      BY <2>2, <3>5
    <3> HIDE DEF L
    <3>4. (CHOOSE e \in L : TRUE) = raw[at]
      BY <3>2, <3>3
    <3> QED
      BY <2>5, <3>1, <3>2, <3>4
  <2>7. f_item = Nothing => failed \/ Named[next] = Nothing
    <3> SUFFICES ASSUME f_item = Nothing, ~failed PROVE L = {}
      BY <2>5
    <3>1. \A k \in 1 .. Total : ~HasName(raw[k], parts[next])
      <4> TAKE k \in 1 .. Total
      <4>1. k < index
        BY <1>1, <1>3, <2>2
      <4> QED
        BY <2>1, <4>1
    <3> HIDE DEF raw, next
    <3> QED
      BY <2>2, <3>1
  <2>8. \A o \in items' : f_item # Nothing /\ o \in Owned(next, f_item)
    <3>1. current # Nothing => Owned(depth, current) = Released
      BY DEF Released, ItemAndData, Owned
    <3> QED
      BY <1>1, <2>1, <3>1
  <2> HIDE DEF next
  <2>9. current' = f_item /\ depth' = next /\ failed' = failed /\ Named' = Named
    BY <1>1, <1>6 DEF next
  <2> QED
    BY <2>6, <2>7, <2>8, <2>9 DEF Stands, Owned
<1>9. Searches' /\ FindsNamed' /\ FreesTheWay' /\ WildOnlyIf'
  BY <1>1 DEF Searches, FindsNamed, FreesTheWay, WildOnlyIf
<1> QED
  BY <1>2, <1>4, <1>5, <1>7, <1>8, <1>9 DEF PathInv

\* What holds between two directories, and what steps from there leave alone.
LEMMA StepFrame ==
  ASSUME PathInv, label = "step", label' \in {"find", "done", "wild"}, UNCHANGED boot,
         UNCHANGED <<disk, path, rest, parts, depth, index, f_item, items, failed>>,
         current' \in {current, Nothing}
  PROVE  /\ PathTypes' /\ Boots' /\ Mounted' /\ Parses' /\ Stands'
         /\ Given' = Given /\ Named' = Named /\ TidyWay' = TidyWay /\ Wanted' = Wanted
         /\ path \in Paths /\ disk \in Disks /\ Len(Given) \in Nat /\ parts = Given
         /\ depth \in 1 .. Len(Given) /\ Wanted = Named[Len(Given)]
         /\ index = 1 /\ f_item = Nothing /\ filesystem # "NULL" /\ path.drive = "0:/"
<1>1. Boots' /\ Mounted' /\ streams' \subseteq PrivateStreams
  BY StaysMounted DEF BootLabels
<1>2. PathTypes'
  BY <1>1 DEF PathInv, PathTypes, BootLabels
<1>3. Parses' /\ path \in Paths /\ disk \in Disks /\ depth \in Nat
  BY DEF PathInv, PathTypes, Parses, BootLabels
<1>4. Stands'
  BY DEF Stands
<1>5. /\ parts = Given /\ depth > 0 /\ depth <= Len(parts) /\ path.drive = "0:/"
      /\ index = 1 /\ f_item = Nothing /\ filesystem # "NULL"
  BY DEF PathInv, OnTheWay
<1>6. Len(Given) \in Nat
  BY <1>3, GivenIs
<1>7. depth \in 1 .. Len(Given)
  BY <1>3, <1>5, <1>6
<1>8. Wanted = Named[Len(Given)]
  <2>1. Given # <<>>
    <3>1. Len(<<>>) = 0
      OBVIOUS
    <3> QED
      BY <1>6, <1>7, <3>1
  <2> QED
    BY <1>5, <2>1 DEF Wanted
<1>9. Given' = Given /\ Named' = Named /\ TidyWay' = TidyWay /\ Wanted' = Wanted
  BY NamesKept
<1> QED
  BY <1>1, <1>2, <1>3, <1>4, <1>5, <1>6, <1>7, <1>8, <1>9

\* The next directory preserves the invariant.
LEMMA EnterStep == PathInv /\ Enter => PathInv'
<1> SUFFICES ASSUME PathInv, Enter PROVE PathInv'
  OBVIOUS
<1>1. /\ label = "step" /\ depth < Len(parts) /\ current # Nothing /\ current.node \in Dirs
      /\ IF current.data = "valid" THEN label' = "find" ELSE label' = "wild"
      /\ UNCHANGED boot
      /\ UNCHANGED <<disk, path, rest, parts, depth, index, f_item, current, items, failed>>
  BY DEF Enter, Walks, IsDir, Goto, walk
<1>2. /\ PathTypes' /\ Boots' /\ Mounted' /\ Parses' /\ Stands'
      /\ Given' = Given /\ Named' = Named /\ TidyWay' = TidyWay
      /\ parts = Given /\ depth \in 1 .. Len(Given) /\ Len(Given) \in Nat
      /\ index = 1 /\ f_item = Nothing /\ filesystem # "NULL" /\ path.drive = "0:/"
  BY <1>1, StepFrame
<1>3. OnTheWay'
  BY <1>1, <1>2 DEF OnTheWay, boot
<1>4. Searches'
  <2> SUFFICES ASSUME TidyWay PROVE Searches'
    BY <1>2 DEF Searches
  <2>1. /\ current.node = Named[depth]
        /\ \A o \in items : o \in Owned(depth, current)
    BY <1>1 DEF PathInv, Stands
  <2>2. Place' = current.node /\ Place' = Named'[depth']
    BY <1>1, <1>2, <2>1 DEF Place
  <2>3. f_item' = Nothing /\ \A k \in 1 .. Total' : ~(k < index')
    BY <1>1, <1>2
  <2>4. \A o \in items' : o \in Owned(depth', current')
    BY <1>1, <2>1
  <2> QED
    BY <1>1, <2>2, <2>3, <2>4 DEF Searches, Owned
<1>5. FindsNamed' /\ FreesTheWay'
  BY <1>1 DEF FindsNamed, FreesTheWay
<1>6. WildOnlyIf'
  <2> SUFFICES ASSUME TidyWay, label' = "wild" PROVE failed'
    BY <1>2 DEF WildOnlyIf
  <2>1. current.data # "valid"
    BY <1>1
  <2> QED
    BY <1>1, <2>1 DEF PathInv, Stands
<1> QED
  BY <1>2, <1>3, <1>4, <1>5, <1>6 DEF PathInv

\* So do the ends of the walk.
LEMMA EndOfWalkStep ==
  PathInv /\ (Arrive \/ StopAtFile \/ NotInRoot \/ StepFromNull) => PathInv'
<1> SUFFICES ASSUME PathInv, Arrive \/ StopAtFile \/ NotInRoot \/ StepFromNull PROVE PathInv'
  OBVIOUS
<1>1. /\ label = "step" /\ label' \in {"done", "wild"} /\ UNCHANGED boot
      /\ UNCHANGED <<disk, path, rest, parts, depth, index, f_item, items, failed>>
      /\ current' \in {current, Nothing}
  BY DEF Arrive, StopAtFile, NotInRoot, StepFromNull, Walks, Goto, walk
<1>2. /\ PathTypes' /\ Boots' /\ Mounted' /\ Parses' /\ Stands'
      /\ Given' = Given /\ Named' = Named /\ TidyWay' = TidyWay /\ Wanted' = Wanted
      /\ path \in Paths /\ disk \in Disks /\ Len(Given) \in Nat /\ parts = Given
      /\ depth \in 1 .. Len(Given) /\ Wanted = Named[Len(Given)]
      /\ index = 1 /\ f_item = Nothing /\ filesystem # "NULL"
  BY <1>1, StepFrame
<1>3. OnTheWay' /\ Searches'
  BY <1>1 DEF OnTheWay, Searches
<1>4. ASSUME TidyWay
      PROVE  /\ current # Nothing => current.node = Named[depth]
             /\ current = Nothing => failed \/ Named[depth] = Nothing
             /\ \A o \in items : current # Nothing /\ o[2] = depth
             /\ Named[depth] = Nothing => \A m \in depth .. Len(Given) : Named[m] = Nothing
  <2>1. /\ current # Nothing => current.node = Named[depth]
        /\ current = Nothing => failed \/ Named[depth] = Nothing
        /\ \A o \in items : current # Nothing /\ o \in Owned(depth, current)
    BY <1>1, <1>4 DEF PathInv, Stands
  <2>2. \A o \in items : o[2] = depth
    BY <2>1 DEF Owned
  <2>3. Named[depth] = Nothing => \A m \in depth .. Len(Given) : Named[m] = Nothing
    <3> SUFFICES ASSUME Named[depth] = Nothing, NEW m \in depth .. Len(Given), m # depth
                 PROVE  Named[m] = Nothing
      OBVIOUS
    <3>1. depth \in 0 .. Len(Given) /\ m \in depth + 1 .. Len(Given) /\ Named[depth] \notin Dirs
      BY <1>2, PathLookupAssumption
    <3> QED
      BY <1>2, <3>1, NamedStops
  <2> QED
    BY <2>1, <2>2, <2>3
<1>5. /\ Len(Given) \in depth .. Len(Given)
      /\ depth # Len(Given) => Len(Given) \in depth + 1 .. Len(Given)
  BY <1>2
<1>6. FindsNamed' /\ FreesTheWay'
  <2> SUFFICES ASSUME TidyWay, label' = "done" PROVE FindsNamed' /\ FreesTheWay'
    BY <1>2 DEF FindsNamed, FreesTheWay
  <2>1. /\ fs_private' = "private" /\ live' = streams' \cup {"private", "root", "root stream"}
    BY <1>1, <1>2 DEF Mounted, BootLabels, boot
  <2>2. CASE Arrive
    <3>1. depth = Len(Given) /\ current' = current
      BY <1>2, <2>2 DEF Arrive, walk
    <3>2. FindsNamed'
      BY <1>1, <1>2, <1>4, <3>1 DEF FindsNamed
    <3>3. FreesTheWay'
      BY <1>1, <1>2, <1>4, <2>1, <3>1 DEF FreesTheWay
    <3> QED
      BY <3>2, <3>3
  <2>3. CASE StopAtFile
    <3>1. /\ depth < Len(Given) /\ current # Nothing /\ current.node \notin Dirs
          /\ current' = Nothing
      BY <1>2, <2>3 DEF StopAtFile, Walks, IsDir
    <3>2. current \in FatItems
      BY <3>1 DEF PathInv, PathTypes
    <3>3. current.node \in PlainFiles
      BY <3>1, <3>2 DEF FatItems
    <3>4. Named[depth] \in PlainFiles /\ depth \in 0 .. Len(Given) /\ Named[depth] \notin Dirs
      BY <1>2, <1>4, <3>1, <3>3
    <3>5. Wanted = Nothing
      BY <1>2, <1>5, <3>1, <3>4, NamedStops
    <3>6. FindsNamed'
      BY <1>2, <3>1, <3>5 DEF FindsNamed
    <3>7. FreesTheWay'
      BY <1>1, <1>2, <1>4, <2>1, <3>1, <3>4 DEF FreesTheWay
    <3> QED
      BY <3>6, <3>7
  <2>4. CASE NotInRoot \/ StepFromNull
    <3>1. current = Nothing /\ current' = Nothing
      BY <2>4 DEF NotInRoot, StepFromNull, walk
    <3>2. Wanted = Nothing \/ failed
      BY <1>2, <1>4, <1>5, <3>1
    <3>3. items' = {}
      BY <1>1, <1>4, <3>1
    <3>4. FindsNamed'
      BY <1>1, <1>2, <3>1, <3>2 DEF FindsNamed
    <3>5. FreesTheWay'
      BY <2>1, <3>3 DEF FreesTheWay
    <3> QED
      BY <3>4, <3>5
  <2> QED
    BY <2>2, <2>3, <2>4
<1>7. WildOnlyIf'
  <2> SUFFICES ASSUME TidyWay, label' = "wild"
               PROVE  failed' \/ \E k \in 2 .. Len(Given') - 1 : Named'[k] = Nothing
    BY <1>2 DEF WildOnlyIf
  <2>1. current = Nothing /\ depth > 1 /\ depth < Len(Given)
    BY <1>2 DEF Arrive, StopAtFile, NotInRoot, StepFromNull, Walks, Goto
  <2>2. depth \in 2 .. Len(Given) - 1
    BY <1>2, <2>1
  <2>3. failed \/ Named[depth] = Nothing
    BY <1>4, <2>1
  <2> QED
    BY <1>1, <1>2, <2>2, <2>3
<1> QED
  BY <1>2, <1>3, <1>6, <1>7 DEF PathInv

-----------------------------------------------------------------------------
(* The theorems about paths *)

\* Every step preserves the invariant.
LEMMA PathStepPreserves == PathInv /\ [PathNext]_pathVars => PathInv'
<1> SUFFICES ASSUME PathInv, [PathNext]_pathVars PROVE PathInv'
  OBVIOUS
<1>1. CASE Boot
  BY <1>1, BootStep
<1>2. CASE Fopen
  BY <1>2, FopenStep
<1>3. CASE RootIsNull \/ CreateRoot
  BY <1>3, RootStep
<1>4. CASE ParsePart \/ PartIsNull
  BY <1>4, PartStep
<1>5. CASE EndOfPath
  BY <1>5, EndStep
<1>6. CASE NotThis
  BY <1>6, NotThisStep
<1>7. CASE This \/ ThisFails
  BY <1>7, ThisStep
<1>8. CASE ThroughNullStream
  BY <1>8, NullStreamStep
<1>9. CASE Searched
  BY <1>9, SearchedStep
<1>10. CASE Enter
  BY <1>10, EnterStep
<1>11. CASE Arrive \/ StopAtFile \/ NotInRoot \/ StepFromNull
  BY <1>11, EndOfWalkStep
<1>12. CASE UNCHANGED pathVars
  <2>1. UNCHANGED mountVars /\ UNCHANGED walk /\ UNCHANGED <<disk, path, rest, failed>>
    BY <1>12 DEF pathVars
  <2>2. UNCHANGED <<label, live, streams, directory, fs_private, filesystem, res>>
    BY <2>1 DEF mountVars
  <2>3. UNCHANGED <<parts, depth, index, f_item, current, items>>
    BY <2>1 DEF walk
  <2>4. Given' = Given /\ Named' = Named /\ TidyWay' = TidyWay /\ Wanted' = Wanted
    BY <2>1, NamesKept
  <2>5. Place' = Place /\ Total' = Total
    <3>1. Place' = Place
      BY <2>3 DEF Place
    <3> QED
      BY <2>1, <2>2, <2>3, <3>1 DEF Total
  <2>6. PathTypes' /\ Boots' /\ Mounted' /\ Parses'
    <3>1. PathTypes'
      BY <2>1, <2>2, <2>3 DEF PathInv, PathTypes
    <3>2. Boots'
      BY <2>1, <2>2 DEF PathInv, Boots
    <3>3. Mounted'
      BY <2>2 DEF PathInv, Mounted
    <3>4. Parses'
      BY <2>1, <2>2, <2>3 DEF PathInv, Parses
    <3> QED
      BY <3>1, <3>2, <3>3, <3>4
  <2>7. OnTheWay' /\ Stands'
    BY <2>1, <2>2, <2>3, <2>4 DEF PathInv, OnTheWay, Stands, Owned
  <2>8. Searches'
    BY <2>1, <2>2, <2>3, <2>4, <2>5 DEF PathInv, Searches, Owned
  <2>9. FindsNamed' /\ FreesTheWay' /\ WildOnlyIf'
    BY <2>1, <2>2, <2>3, <2>4 DEF PathInv, FindsNamed, FreesTheWay, WildOnlyIf
  <2> QED
    BY <2>6, <2>7, <2>8, <2>9 DEF PathInv
<1> QED
  BY <1>1, <1>2, <1>3, <1>4, <1>5, <1>6, <1>7, <1>8, <1>9, <1>10, <1>11, <1>12
     DEF PathNext, Stopped

\* The invariant of the lookup holds in every state.
THEOREM PathInvariant == PathSpec => []PathInv
<1>1. PathInit => PathInv
  BY PathInitEstablishes
<1>2. PathInv /\ [PathNext]_pathVars => PathInv'
  BY PathStepPreserves
<1> QED
  BY <1>1, <1>2, PTL DEF PathSpec

\* fat16_get_directory_entry finds what the path names and nothing else, on every
\* disk whose directories on the way are tidy.
THEOREM PathsFindWhatTheyName == PathSpec => []FindsNamed
<1>1. PathInv => FindsNamed
  BY DEF PathInv
<1> QED
  BY <1>1, PathInvariant, PTL

\* Of the way nothing stays allocated but the item that is returned, or that of a file
\* where a directory should be, and what the mount keeps.
THEOREM WayIsFreed == PathSpec => []FreesTheWay
<1>1. PathInv => FreesTheWay
  BY DEF PathInv
<1> QED
  BY <1>1, PathInvariant, PTL

\* Only failures, and components behind one that names nothing, lead the walk through
\* a NULL pointer.
THEOREM WildHasCause == PathSpec => []WildOnlyIf
<1>1. PathInv => WildOnlyIf
  BY DEF PathInv
<1> QED
  BY <1>1, PathInvariant, PTL
=============================================================================
