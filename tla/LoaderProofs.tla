---------------------------- MODULE LoaderProofs ----------------------------
(***************************************************************************)
(* Proofs about what loads a program: ProgramLoad, which gets its memory   *)
(* and its file, and ElfMap, which maps them.                              *)
(*                                                                         *)
(* In ProgramLoad a pointer is a field of an open file, of a process or of *)
(* the load's variables.  The properties count pointers with Cardinality;  *)
(* the invariant says the same of the pointers themselves.  ElfMap is      *)
(* about bytes and its steps about pages, so most of its lemmas are        *)
(* arithmetic: of an address, its page and its place in the page.          *)
(***************************************************************************)
EXTENDS ProgramLoad, ElfMap, FiniteSetTheorems, WellFoundedInduction, TLAPS

Fields == FileFields \cup ProcFields

\* Only a file's body may be a directory that was freed.
LoadTyped ==
  /\ l \in [FileFields \cup ProcFields -> 0 .. Dangling]
  /\ \A x \in ProcFields : l[x] \in 0 .. MaxObjects

Typed ==
  /\ TypeOK
  /\ IsFiniteSet(processes)
  /\ pc \notin {"idle", "wild"} => Cardinality(processes) < MaxProcesses
  /\ accepted \subseteq Fds
  /\ LoadTyped

\* Which variables of the load cannot have been assigned yet at a label: an
\* allocation never overwrites a pointer.
Unassigned ==
  pc # "wild" =>
    /\ l["desc"] = NULL
    /\ pc \notin {"find", "load item", "new descriptor"} => \A x \in FileFields : l[x] = NULL
    /\ pc = "find" => l["item"] = NULL
    /\ pc \in {"find", "load item"} => l["body"] = NULL /\ l["entries"] = NULL
    /\ pc \in {"idle", "elf"} \/ via = "bin" => l["elf"] = NULL
    /\ pc \notin {"fread", "validate", "close", "stack", "task", "map"} => l["mem"] = NULL
    /\ pc = "close" /\ res = "EINFORMAT" => l["mem"] = NULL /\ via = "elf"
    /\ pc = "close" /\ res = "ok" => via = "bin"
    /\ pc = "validate" => via = "elf"
    /\ pc \notin {"task", "map"} => l["stack"] = NULL
    /\ pc # "map" => l["task"] = NULL
    /\ pc = "idle" => l["proc"] = NULL
    /\ pc \in {"idle", "elf"} => via = "elf"

\* No object has two pointers, and what has one is allocated.
TableApart ==
  \A i \in Fds, x \in FileFields :
    file_descriptors[i][x] \in Objects =>
      /\ file_descriptors[i][x] \in live
      /\ \A j \in Fds, y \in FileFields :
           file_descriptors[j][y] = file_descriptors[i][x] => j = i /\ y = x
      /\ \A p \in processes, y \in ProcFields : p[y] # file_descriptors[i][x]
      /\ \A y \in Fields : l[y] # file_descriptors[i][x]

ProcessesApart ==
  \A p \in processes, x \in ProcFields :
    p[x] \in Objects =>
      /\ p[x] \in live
      /\ \A q \in processes, y \in ProcFields : q[y] = p[x] => q = p /\ y = x
      /\ \A y \in Fields : l[y] # p[x]

LoadApart ==
  \A x \in Fields :
    l[x] \in Objects => /\ l[x] \in live
                        /\ \A y \in Fields : l[y] = l[x] => y = x

AllApart == TableApart /\ ProcessesApart /\ LoadApart

Apart == pc # "wild" => AllApart

\* The open descriptors are those of accepted files and the load's own.
Opened ==
  pc # "wild" =>
    /\ {i \in Fds : file_descriptors[i] # NoFile} = accepted \cup ({fd} \ {0})
    /\ fd \notin accepted
    /\ fd # 0 => pc \in {"opened", "kzalloc", "fread", "validate", "close"}
    /\ pc \in {"kzalloc", "fread", "validate"} => fd # 0

Held(o) ==
  \/ \E i \in Fds, x \in FileFields : file_descriptors[i][x] = o
  \/ \E p \in processes, x \in ProcFields : p[x] = o
  \/ \E x \in Fields : l[x] = o

\* The load can still get to mapping its program.
Hopeful ==
  \/ pc \in {"elf", "fopen", "fat16_open", "find", "load item", "new descriptor",
             "kzalloc", "fread", "validate", "stack", "task", "map"}
  \/ pc = "opened" /\ fd # 0
  \/ pc = "close" /\ res \in {"ok", "EINFORMAT"}

AllKept == \A o \in live : o \in litter \/ Held(o)

Kept == Hopeful => AllKept

IInv == Typed /\ Unassigned /\ Apart /\ Opened /\ Kept

-----------------------------------------------------------------------------
(* Allocation *)

\* Min of a bounded set of naturals is its least element.
LEMMA MinOfNaturals ==
  ASSUME NEW n \in Nat, NEW S \in SUBSET (0 .. n), S # {}
  PROVE  Min(S) \in S /\ \A y \in S : Min(S) <= y
<1> DEFINE Below == {0 .. x : x \in S}
<1>1. IsFiniteSet(0 .. n)
  BY FS_Interval
<1>2. FiniteSubsetsOf(0 .. n) = SUBSET (0 .. n)
  BY <1>1, FS_FiniteSubsetsOfFinite
<1>3. IsWellFoundedOn(StrictSubsetOrdering(0 .. n), SUBSET (0 .. n))
  BY <1>2, FS_StrictSubsetOrderingWellFounded
<1>4. Below \subseteq SUBSET (0 .. n) /\ Below # {}
  <2>1. \A x \in S : 0 .. x \in SUBSET (0 .. n)
    OBVIOUS
  <2>2. \E x \in S : 0 .. x \in Below
    OBVIOUS
  <2> QED
    BY <2>1, <2>2
<1>5. \E X \in Below : \A Y \in Below : <<Y, X>> \notin StrictSubsetOrdering(0 .. n)
  <2> HIDE DEF Below
  <2> QED BY <1>3, <1>4, WFMin
<1>6. PICK x \in S : \A Y \in Below : <<Y, 0 .. x>> \notin StrictSubsetOrdering(0 .. n)
  BY <1>5
<1>7. \A y \in S : x <= y
  <2> SUFFICES ASSUME NEW y \in S, y < x PROVE FALSE
    OBVIOUS
  <2>1. 0 .. y \subseteq 0 .. x /\ x \notin 0 .. y /\ x \in 0 .. x
    OBVIOUS
  <2>2. 0 .. y \in Below /\ 0 .. y \in SUBSET (0 .. n) /\ 0 .. x \in SUBSET (0 .. n)
    OBVIOUS
  <2>3. <<0 .. y, 0 .. x>> \in StrictSubsetOrdering(0 .. n)
    <3> HIDE DEF Below
    <3> QED BY <2>1, <2>2 DEF StrictSubsetOrdering
  <2> QED
    BY <2>2, <2>3, <1>6
<1> QED
  BY <1>7 DEF Min

\* What the heap hands out was not allocated.
LEMMA NewObjectFree ==
  ASSUME Typed, ~HeapFull
  PROVE  NewObject \in Objects \ live /\ NewObject \in 1 .. MaxObjects
<1>1. MaxObjects \in Nat \ {0}
  BY ProgramLoadAssumption
<1>2. Objects \ live \in SUBSET (0 .. MaxObjects) /\ Objects \ live # {}
  <2>1. live \subseteq Objects /\ live # Objects
    BY DEF Typed, TypeOK, HeapFull
  <2>2. Objects \ live # {}
    BY <2>1
  <2> QED
    BY <1>1, <2>2 DEF Objects
<1>3. Min(Objects \ live) \in Objects \ live
  BY <1>1, <1>2, MinOfNaturals
<1> QED
  BY <1>3 DEF NewObject, Objects

\* The descriptor that is taken was not in use.
LEMMA NewFdFree ==
  ASSUME Typed, FreeFds # {}
  PROVE  Min(FreeFds) \in Fds /\ file_descriptors[Min(FreeFds)] = NoFile
<1>1. MaxFds \in Nat \ {0}
  BY ProgramLoadAssumption
<1>2. FreeFds \in SUBSET (0 .. MaxFds)
  BY <1>1 DEF FreeFds, Fds
<1>3. Min(FreeFds) \in FreeFds
  BY <1>1, <1>2, MinOfNaturals
<1> QED
  BY <1>3 DEF FreeFds

\* The directory's two objects are both new.
LEMMA TwoNewObjects ==
  ASSUME Typed, Cardinality(Objects \ live) >= 2,
         NEW e, e = Min(Objects \ (live \cup {NewObject}))
  PROVE  /\ ~HeapFull
         /\ NewObject \in Objects \ live /\ e \in Objects \ live /\ e # NewObject
<1>1. MaxObjects \in Nat \ {0}
  BY ProgramLoadAssumption
<1>2. IsFiniteSet(Objects) /\ IsFiniteSet(Objects \ live)
  <2>1. IsFiniteSet(Objects) /\ Objects \ live \in SUBSET Objects
    BY <1>1, FS_Interval DEF Objects
  <2> QED
    BY <2>1, FS_Subset
<1>3. Objects \ live # {}
  BY FS_EmptySet
<1>4. ~HeapFull
  BY <1>3 DEF HeapFull
<1>5. NewObject \in Objects \ live
  BY <1>4, NewObjectFree
<1>6. Cardinality((Objects \ live) \ {NewObject}) = Cardinality(Objects \ live) - 1
      /\ Cardinality(Objects \ live) \in Nat
      /\ IsFiniteSet((Objects \ live) \ {NewObject})
  BY <1>2, <1>5, FS_RemoveElement, FS_CardinalityType
<1>7. (Objects \ live) \ {NewObject} # {}
  BY <1>6, FS_EmptySet
<1>8. (Objects \ live) \ {NewObject} = Objects \ (live \cup {NewObject})
  OBVIOUS
<1> DEFINE R == Objects \ (live \cup {NewObject})
<1>9. R \in SUBSET (0 .. MaxObjects) /\ R # {}
  BY <1>1, <1>7, <1>8 DEF Objects
<1>10. e \in R
  <2> HIDE DEF R
  <2>1. Min(R) \in R
    BY <1>1, <1>9, MinOfNaturals
  <2>2. e = Min(R)
    BY DEF R
  <2> QED
    BY <2>1, <2>2
<1> QED
  BY <1>4, <1>5, <1>10

-----------------------------------------------------------------------------
(* Types *)

\* An allocation keeps the heap and the variables of the load typed.
LEMMA KzallocTyped ==
  ASSUME Typed, NEW x \in Fields, Kzalloc(x)
  PROVE  live' \subseteq Objects /\ LoadTyped'
<1>0. MaxObjects \in Nat
  BY ProgramLoadAssumption
<1>1. NewObject \in Objects /\ NewObject \in 0 .. Dangling /\ NewObject \in 0 .. MaxObjects
  BY <1>0, NewObjectFree DEF Kzalloc, Dangling
<1>2. l' = [l EXCEPT ![x] = NewObject] /\ live' = live \cup {NewObject}
  BY DEF Kzalloc
<1> DEFINE n == NewObject
<1> HIDE DEF n
<1>3. n \in Objects /\ n \in 0 .. Dangling /\ n \in 0 .. MaxObjects
      /\ l' = [l EXCEPT ![x] = n] /\ live' = live \cup {n}
  BY <1>1, <1>2 DEF n
<1>4. LoadTyped'
  <2>1. l' \in [FileFields \cup ProcFields -> 0 .. Dangling]
    BY <1>3 DEF Typed, LoadTyped, Fields
  <2>2. ASSUME NEW y \in ProcFields PROVE l'[y] \in 0 .. MaxObjects
    BY <1>3, <2>2 DEF Typed, LoadTyped, Fields
  <2> QED
    BY <2>1, <2>2 DEF LoadTyped
<1> QED
  BY <1>3, <1>4 DEF Typed, TypeOK

\* So does clearing some of the variables.
LEMMA ClearedTyped ==
  ASSUME Typed, l' = Nothing \/ l' = [x \in DOMAIN l |-> IF x \in FileFields THEN NULL ELSE l[x]]
                \/ l' = [l EXCEPT !["mem"] = NULL] \/ l' = [l EXCEPT !["elf"] = NULL]
                \/ l' = [l EXCEPT !["body"] = Dangling] \/ UNCHANGED l
  PROVE  LoadTyped'
<1>1. NULL \in 0 .. Dangling /\ Dangling \in 0 .. Dangling /\ NULL \in 0 .. MaxObjects
  BY ProgramLoadAssumption DEF NULL, Dangling
<1>2. "body" \notin ProcFields /\ ProcFields \cap FileFields = {}
  BY DEF ProcFields, FileFields
<1>3. l' \in [FileFields \cup ProcFields -> 0 .. Dangling]
  BY <1>1 DEF Typed, LoadTyped, Nothing
<1>4. ASSUME NEW y \in ProcFields PROVE l'[y] \in 0 .. MaxObjects
  BY <1>1, <1>2, <1>4 DEF Typed, LoadTyped, Nothing
<1> QED
  BY <1>3, <1>4 DEF LoadTyped

\* The variables that a process takes over hold objects, never a freed directory.
LEMMA ProcessTyped ==
  ASSUME Typed
  PROVE  [x \in ProcFields |-> l[x]] \in [ProcFields -> 0 .. MaxObjects]
BY DEF Typed, LoadTyped

\* Every step keeps the heap and the load's variables typed.
LEMMA HeapTypedStep ==
  ASSUME Typed, [Next]_vars
  PROVE  live' \subseteq Objects /\ LoadTyped'
<1> DEFINE Goal == live' \subseteq Objects /\ LoadTyped'
<1>1. live \subseteq Objects /\ (UNCHANGED l => LoadTyped')
  BY ClearedTyped DEF Typed, TypeOK
<1>2. ASSUME NEW x \in Fields, Kzalloc(x) PROVE Goal
  BY <1>2, KzallocTyped
<1>3. /\ "proc" \in Fields /\ "elf" \in Fields /\ "fat" \in Fields /\ "item" \in Fields
      /\ "body" \in Fields /\ "mem" \in Fields /\ "stack" \in Fields /\ "task" \in Fields
  BY DEF Fields, FileFields, ProcFields
<1>4. ASSUME Return \/ NoFd \/ Clean("EIO") \/ Clean("EINFORMAT") \/ Clean("EINVELFTYPE")
      PROVE  LoadTyped'
  BY <1>4, ClearedTyped DEF Return, NoFd, Clean
<1>5. ASSUME UNCHANGED <<live, l>> PROVE Goal
  BY <1>1, <1>5
<1> SUFFICES Goal
  OBVIOUS
<1> HIDE DEF Goal
<1>6. CASE UNCHANGED vars
  BY <1>5, <1>6 DEF vars
<1>7. CASE \E p \in Programs : Begin(p)
  BY <1>2, <1>3, <1>7 DEF Begin
<1>8. CASE Refused
  BY <1>5, <1>8 DEF Refused, Wild, vars
<1>9. CASE AllocElf
  <2>1. Return /\ UNCHANGED live => Goal
    BY <1>1, <1>4 DEF Goal
  <2> QED
    BY <1>2, <1>3, <1>9, <2>1 DEF AllocElf
<1>10. CASE ParsePath
  BY <1>1, <1>10, NewObjectFree DEF ParsePath, Goal
<1>11. CASE Fat16Open \/ FindItem
  <2>1. NoFd => Goal
    BY <1>1, <1>4 DEF Goal, NoFd
  <2> QED
    BY <1>2, <1>3, <1>11, <2>1 DEF Fat16Open, FindItem
<1>12. CASE CloneItem
  BY <1>2, <1>3, <1>5, <1>12 DEF CloneItem
<1>13. CASE LoadDirectory
  <2>1. CASE UNCHANGED live /\ l' = [l EXCEPT !.body = Dangling]
    BY <1>1, <2>1, ClearedTyped DEF Goal
  <2> DEFINE n == NewObject
             e == Min(Objects \ (live \cup {n}))
  <2>2. CASE /\ Cardinality(Objects \ live) >= 2
             /\ live' = live \cup {n, e}
             /\ l' = [l EXCEPT !.body = n, !.entries = e]
    <3>1. n \in Objects /\ e \in Objects
      BY <2>2, TwoNewObjects
    <3> HIDE DEF n, e
    <3>2. n \in 0 .. Dangling /\ e \in 0 .. Dangling
      BY <3>1, ProgramLoadAssumption DEF Objects, Dangling
    <3>3. LoadTyped'
      <4>1. l' \in [FileFields \cup ProcFields -> 0 .. Dangling]
        BY <2>2, <3>2 DEF Typed, LoadTyped
      <4>2. ASSUME NEW y \in ProcFields PROVE l'[y] = l[y]
        BY <2>2, <4>2 DEF Typed, LoadTyped, ProcFields, FileFields
      <4> QED
        BY <4>1, <4>2 DEF Typed, LoadTyped
    <3> QED
      BY <1>1, <2>2, <3>1, <3>3 DEF Goal
  <2> QED
    BY <1>5, <1>13, <2>1, <2>2 DEF LoadDirectory
<1>14. CASE NewDescriptor
  <2>1. NoFd => Goal
    BY <1>1, <1>4 DEF Goal, NoFd
  <2>2. CASE FreeFds # {}
    <3>1. NewObject \in Objects /\ live' = live \cup {NewObject}
      BY <1>14, <2>2, NewObjectFree DEF NewDescriptor
    <3>2. LoadTyped'
      BY <1>14, <2>2, ClearedTyped DEF NewDescriptor
    <3> QED
      BY <1>1, <3>1, <3>2 DEF Goal
  <2> QED
    BY <1>14, <2>1, <2>2 DEF NewDescriptor
<1>15. CASE NullWritten \/ FcloseUnknown \/ Stopped
  BY <1>5, <1>15 DEF NullWritten, FcloseUnknown, Stopped, Wild, vars
<1>16. CASE Fstat
  BY <1>5, <1>16 DEF Fstat
<1>17. CASE AllocContent
  BY <1>2, <1>3, <1>5, <1>17 DEF AllocContent
<1>18. CASE Fread \/ Validate
  <2>1. ASSUME Clean("EIO") \/ Clean("EINFORMAT") \/ Clean("EINVELFTYPE") PROVE Goal
    BY <1>1, <1>4, <2>1 DEF Goal, Clean, Kfree
  <2> QED
    BY <1>5, <1>18, <2>1 DEF Fread, Validate
<1>19. CASE Fclose
  <2>1. live' \subseteq live
    BY <1>19 DEF Fclose, FcloseOfOpen, Kfree
  <2>2. UNCHANGED l \/ l' = Nothing \/ l' = [l EXCEPT !["elf"] = NULL]
    BY <1>19 DEF Fclose, Return
  <2> QED
    BY <1>1, <2>1, <2>2, ClearedTyped DEF Goal
<1>20. CASE AllocStack \/ TaskNew
  <2>1. Return /\ UNCHANGED live => Goal
    BY <1>1, <1>4 DEF Goal
  <2> QED
    BY <1>2, <1>3, <1>5, <1>20, <2>1 DEF AllocStack, TaskNew
<1>21. CASE Map
  BY <1>1, <1>4, <1>21 DEF Goal, Map, Kfree
<1> QED
  BY <1>6, <1>7, <1>8, <1>9, <1>10, <1>11, <1>12, <1>13, <1>14, <1>15, <1>16, <1>17, <1>18,
     <1>19, <1>20, <1>21
  DEF Next, Goal

\* Every step keeps the table of descriptors typed.
LEMMA TableTypedStep ==
  ASSUME Typed, [Next]_vars
  PROVE  file_descriptors' \in [Fds -> [FileFields -> 0 .. Dangling]]
<1>1. file_descriptors \in [Fds -> [FileFields -> 0 .. Dangling]]
  BY DEF Typed, TypeOK
<1>2. CASE NewDescriptor
  <2>1. CASE UNCHANGED file_descriptors
    BY <1>1, <2>1
  <2>2. CASE FreeFds # {}
    <3> DEFINE n == NewObject
               i == Min(FreeFds)
               f == [x \in FileFields |-> IF x = "desc" THEN n ELSE l[x]]
    <3>1. n \in 0 .. Dangling
      <4>1. n \in 1 .. MaxObjects
        BY <1>2, <2>2, NewObjectFree DEF NewDescriptor
      <4> HIDE DEF n
      <4> QED
        BY <4>1, ProgramLoadAssumption DEF Dangling
    <3>2. f \in [FileFields -> 0 .. Dangling]
      <4> HIDE DEF n
      <4> QED BY <3>1 DEF Typed, LoadTyped
    <3>3. i \in Fds
      BY <2>2, NewFdFree
    <3>4. file_descriptors' = [file_descriptors EXCEPT ![i] = f]
      BY <1>2, <2>2 DEF NewDescriptor
    <3> HIDE DEF i, f
    <3> QED
      BY <1>1, <3>2, <3>3, <3>4
  <2> QED
    BY <1>2, <2>1, <2>2 DEF NewDescriptor
<1>3. CASE Fclose
  <2>1. NoFile \in [FileFields -> 0 .. Dangling]
    BY ProgramLoadAssumption DEF NoFile, NULL, Dangling
  <2> QED
    BY <1>1, <1>3, <2>1 DEF Fclose, FcloseOfOpen
<1>4. CASE UNCHANGED file_descriptors
  BY <1>1, <1>4
<1> QED
  BY <1>2, <1>3, <1>4
  DEF Next, vars, Begin, Refused, AllocElf, ParsePath, Fat16Open, FindItem, CloneItem,
      LoadDirectory, NullWritten, Fstat, AllocContent, Fread, Validate, FcloseUnknown,
      AllocStack, TaskNew, Map, Stopped, Wild

\* Every step keeps the processes typed; a load under way has a slot left.
LEMMA ProcessesTypedStep ==
  ASSUME Typed, [Next]_vars
  PROVE  /\ IsFiniteSet(processes') /\ Cardinality(processes') <= MaxProcesses
         /\ \A p \in processes' : p \in [ProcFields -> 0 .. MaxObjects]
         /\ pc' \notin {"idle", "wild"} => Cardinality(processes') < MaxProcesses
<1>0. /\ IsFiniteSet(processes) /\ Cardinality(processes) <= MaxProcesses
      /\ \A p \in processes : p \in [ProcFields -> 0 .. MaxObjects]
      /\ pc \notin {"idle", "wild"} => Cardinality(processes) < MaxProcesses
      /\ MaxProcesses \in Nat
  BY ProgramLoadAssumption DEF Typed, TypeOK
<1>1. CASE Map
  <2> DEFINE r == [x \in ProcFields |-> l[x]]
  <2>1. pc = "map" /\ pc' = "idle" /\ (UNCHANGED processes \/ processes' = processes \cup {r})
    BY <1>1 DEF Map, Return, Goto
  <2>2. r \in [ProcFields -> 0 .. MaxObjects]
    BY ProcessTyped
  <2> HIDE DEF r
  <2>3. Cardinality(processes) < MaxProcesses /\ Cardinality(processes) \in Nat
    BY <1>0, <2>1, FS_CardinalityType
  <2>4. CASE UNCHANGED processes
    BY <1>0, <2>1, <2>4
  <2>5. CASE processes' = processes \cup {r}
    <3>1. IsFiniteSet(processes') /\ Cardinality(processes') <= Cardinality(processes) + 1
          /\ Cardinality(processes') \in Nat
      <4>1. IsFiniteSet(processes \cup {r})
            /\ (Cardinality(processes \cup {r}) = Cardinality(processes)
                \/ Cardinality(processes \cup {r}) = Cardinality(processes) + 1)
        BY <1>0, FS_AddElement
      <4>2. Cardinality(processes \cup {r}) \in Nat
        BY <4>1, FS_CardinalityType
      <4> QED
        BY <2>3, <2>5, <4>1, <4>2
    <3>2. Cardinality(processes') <= MaxProcesses
      BY <1>0, <2>3, <3>1
    <3> QED
      BY <1>0, <2>1, <2>2, <2>5, <3>1, <3>2
  <2> QED
    BY <2>1, <2>4, <2>5
<1>2. CASE UNCHANGED processes /\ (pc' \in {"idle", "wild"} \/ pc \notin {"idle", "wild"} \/ UNCHANGED pc)
  BY <1>0, <1>2
<1>3. CASE \E p \in Programs : Begin(p)
  BY <1>0, <1>3 DEF Begin
<1> QED
  BY <1>1, <1>2, <1>3
  DEF Next, vars, Refused, AllocElf, ParsePath, Fat16Open, FindItem, CloneItem,
      LoadDirectory, NewDescriptor, NullWritten, Fstat, AllocContent, Fread, Validate, Fclose,
      FcloseUnknown, AllocStack, TaskNew, Stopped, Wild, Goto, Return

\* Every step keeps the rest of the state typed.
LEMMA ControlTypedStep ==
  ASSUME Typed, Opened, [Next]_vars
  PROVE  /\ pc' \in Labels
         /\ prog' \in Kinds \cup {"none"} /\ via' \in {"elf", "bin"} /\ fd' \in Fds \cup {0}
         /\ res' \in {"ok", "EIO", "EINVARG", "ENOMEM", "EINFORMAT", "EINVELFTYPE"}
         /\ accepted' \subseteq Fds
<1> DEFINE Control == /\ pc \in Labels
                      /\ prog \in Kinds \cup {"none"} /\ via \in {"elf", "bin"} /\ fd \in Fds \cup {0}
                      /\ res \in {"ok", "EIO", "EINVARG", "ENOMEM", "EINFORMAT", "EINVELFTYPE"}
                      /\ accepted \subseteq Fds
<1> SUFFICES Control'
  OBVIOUS
<1>0. Control
  BY DEF Typed, TypeOK
<1>1. CASE \E p \in Programs : Begin(p)
  <2>1. PICK p \in Programs : Begin(p)
    BY <1>1
  <2>2. p \in Kinds
    BY ProgramLoadAssumption
  <2> QED
    BY <1>0, <2>1, <2>2 DEF Begin, Goto, Labels
<1>2. CASE Validate
  <2>1. fd \in Fds \/ accepted' = accepted
    BY <1>0, <1>2 DEF Validate, Opened
  <2> QED
    BY <1>0, <1>2, <2>1 DEF Validate, Clean, Leave, Goto, Labels
<1>3. CASE NewDescriptor
  <2>1. FreeFds # {} => Min(FreeFds) \in Fds
    BY NewFdFree
  <2> QED
    BY <1>0, <1>3, <2>1 DEF NewDescriptor, NoFd, Goto, Labels, history
<1>4. CASE Refused \/ NullWritten \/ FcloseUnknown \/ Stopped \/ UNCHANGED vars
  BY <1>0, <1>4 DEF Refused, NullWritten, FcloseUnknown, Stopped, Wild, vars, history, Goto, Labels
<1>5. CASE AllocElf \/ ParsePath \/ Fat16Open \/ FindItem \/ CloneItem \/ LoadDirectory
  BY <1>0, <1>5 DEF AllocElf, ParsePath, Fat16Open, FindItem, CloneItem, LoadDirectory, NoFd,
                    Return, history, Goto, Labels
<1>6. CASE Fstat \/ AllocContent \/ Fread
  BY <1>0, <1>6 DEF Fstat, AllocContent, Fread, Clean, Leave, Return, history, Goto, Labels
<1>7. CASE Fclose \/ AllocStack \/ TaskNew \/ Map
  BY <1>0, <1>7 DEF Fclose, AllocStack, TaskNew, Map, Return, history, Goto, Labels
<1> QED
  BY <1>1, <1>2, <1>3, <1>4, <1>5, <1>6, <1>7 DEF Next

\* Every step keeps the types.
LEMMA TypedStep ==
  ASSUME IInv, [Next]_vars
  PROVE  Typed'
<1>1. Typed /\ Opened
  BY DEF IInv
<1>2. live' \subseteq Objects /\ LoadTyped'
  BY <1>1, HeapTypedStep
<1>3. file_descriptors' \in [Fds -> [FileFields -> 0 .. Dangling]]
  BY <1>1, TableTypedStep
<1>4. /\ IsFiniteSet(processes') /\ Cardinality(processes') <= MaxProcesses
      /\ \A p \in processes' : p \in [ProcFields -> 0 .. MaxObjects]
      /\ pc' \notin {"idle", "wild"} => Cardinality(processes') < MaxProcesses
  BY <1>1, ProcessesTypedStep
<1>5. /\ pc' \in Labels
      /\ prog' \in Kinds \cup {"none"} /\ via' \in {"elf", "bin"} /\ fd' \in Fds \cup {0}
      /\ res' \in {"ok", "EIO", "EINVARG", "ENOMEM", "EINFORMAT", "EINVELFTYPE"}
      /\ accepted' \subseteq Fds
  BY <1>1, ControlTypedStep
<1>6. l' \in [FileFields \cup ProcFields -> 0 .. Dangling]
  BY <1>2 DEF LoadTyped
<1>7. TypeOK'
  BY <1>2, <1>3, <1>4, <1>5, <1>6 DEF TypeOK
<1> QED
  BY <1>2, <1>4, <1>5, <1>7 DEF Typed

-----------------------------------------------------------------------------
(* The load's variables *)

\* An allocation changes one variable.
LEMMA KzallocVars ==
  ASSUME Typed, NEW x \in Fields, Kzalloc(x)
  PROVE  \A y \in Fields : y # x => l'[y] = l[y]
BY DEF Kzalloc, Typed, LoadTyped, Fields

\* When fopen fails or ends, its variables are gone.
LEMMA NoFdVars ==
  ASSUME Typed, l' = [x \in DOMAIN l |-> IF x \in FileFields THEN NULL ELSE l[x]]
  PROVE  /\ \A y \in FileFields : l'[y] = NULL
         /\ \A y \in ProcFields : l'[y] = l[y]
<1>1. FileFields \cap ProcFields = {}
  BY DEF FileFields, ProcFields
<1> QED
  BY <1>1 DEF Typed, LoadTyped

\* A single variable that is set leaves the others alone.
LEMMA ExceptVars ==
  ASSUME Typed, NEW x \in Fields, NEW v, l' = [l EXCEPT ![x] = v]
  PROVE  l'[x] = v /\ \A y \in Fields : y # x => l'[y] = l[y]
BY DEF Typed, LoadTyped, Fields

\* Every step keeps what is not assigned yet at each label.
LEMMA UnassignedStep ==
  ASSUME IInv, [Next]_vars
  PROVE  Unassigned'
<1>0. Typed /\ Unassigned /\ ("proc" \in Fields /\ "elf" \in Fields /\ "fat" \in Fields
      /\ "item" \in Fields /\ "body" \in Fields /\ "mem" \in Fields /\ "stack" \in Fields
      /\ "task" \in Fields /\ "desc" \in Fields /\ "entries" \in Fields)
  BY DEF IInv, Fields, FileFields, ProcFields
<1>1. CASE UNCHANGED vars \/ Refused \/ NullWritten \/ FcloseUnknown \/ Stopped
  BY <1>0, <1>1 DEF Refused, NullWritten, FcloseUnknown, Stopped, Wild, vars, Goto, Unassigned
<1>2. CASE \E p \in Programs : Begin(p)
  <2>1. Kzalloc("proc") /\ pc = "idle" /\ pc' = "elf" /\ UNCHANGED <<via, res>>
    BY <1>2 DEF Begin, Goto
  <2>2. \A y \in Fields : y # "proc" => l'[y] = l[y]
    BY <1>0, <2>1, KzallocVars
  <2> QED
    BY <1>0, <2>1, <2>2 DEF Unassigned, Fields, FileFields, ProcFields
<1>3. ASSUME Return PROVE Unassigned'
  <2>1. \A y \in Fields : l'[y] = NULL
    BY <1>3 DEF Return, Nothing, Fields
  <2> QED
    BY <1>3, <2>1 DEF Return, Goto, Unassigned, Fields, FileFields, ProcFields
<1>4. CASE AllocElf
  <2>1. CASE Kzalloc("elf")
    <3>1. \A y \in Fields : y # "elf" => l'[y] = l[y]
      BY <1>0, <2>1, KzallocVars
    <3> QED
      BY <1>0, <1>3, <1>4, <2>1, <3>1 DEF AllocElf, Goto, Unassigned, Fields, FileFields, ProcFields
  <2> QED
    BY <1>3, <1>4, <2>1 DEF AllocElf
<1>5. CASE ParsePath
  BY <1>0, <1>5 DEF ParsePath, Goto, Unassigned
<1>6. ASSUME NoFd, pc \in {"fat16_open", "find", "new descriptor"}, UNCHANGED <<via, res>>
      PROVE  Unassigned'
  <2>1. (\A y \in FileFields : l'[y] = NULL) /\ (\A y \in ProcFields : l'[y] = l[y])
    BY <1>0, <1>6, NoFdVars DEF NoFd
  <2> QED
    BY <1>0, <1>6, <2>1 DEF NoFd, Goto, Unassigned, FileFields, ProcFields
<1>7. CASE Fat16Open
  <2>1. CASE Kzalloc("fat")
    <3>1. \A y \in Fields : y # "fat" => l'[y] = l[y]
      BY <1>0, <2>1, KzallocVars
    <3> QED
      BY <1>0, <1>6, <1>7, <2>1, <3>1 DEF Fat16Open, Goto, Unassigned, Fields, FileFields, ProcFields
  <2> QED
    BY <1>6, <1>7, <2>1 DEF Fat16Open
<1>8. CASE FindItem
  <2>1. CASE Kzalloc("item")
    <3>1. \A y \in Fields : y # "item" => l'[y] = l[y]
      BY <1>0, <2>1, KzallocVars
    <3> QED
      BY <1>0, <1>6, <1>8, <2>1, <3>1 DEF FindItem, Goto, Unassigned, Fields, FileFields, ProcFields
  <2> QED
    BY <1>6, <1>8, <2>1 DEF FindItem
<1>9. CASE CloneItem \/ LoadDirectory
  <2>1. \A y \in Fields \ {"body", "entries"} : l'[y] = l[y]
    <3>1. CASE UNCHANGED l
      BY <3>1
    <3>2. CASE Kzalloc("body")
      BY <1>0, <3>2, KzallocVars
    <3>3. CASE l' = [l EXCEPT !.body = Dangling]
      BY <1>0, <3>3 DEF Typed, LoadTyped, Fields
    <3>4. ASSUME NEW n, NEW e, l' = [l EXCEPT !.body = n, !.entries = e]
          PROVE  \A y \in Fields \ {"body", "entries"} : l'[y] = l[y]
      BY <1>0, <3>4 DEF Typed, LoadTyped, Fields
    <3> QED
      BY <1>9, <3>1, <3>2, <3>3, <3>4 DEF CloneItem, LoadDirectory
  <2>2. pc = "load item" /\ pc' = "new descriptor" /\ UNCHANGED <<via, res>>
    BY <1>9 DEF CloneItem, LoadDirectory, Goto
  <2> QED
    BY <1>0, <2>1, <2>2 DEF Unassigned, Fields, FileFields, ProcFields
<1>10. CASE NewDescriptor
  <2>1. CASE FreeFds # {}
    <3>1. /\ l' = [x \in DOMAIN l |-> IF x \in FileFields THEN NULL ELSE l[x]]
          /\ pc = "new descriptor" /\ pc' = "opened" /\ UNCHANGED <<via, res>>
      BY <1>10, <2>1 DEF NewDescriptor, Goto
    <3>2. (\A y \in FileFields : l'[y] = NULL) /\ (\A y \in ProcFields : l'[y] = l[y])
      BY <1>0, <3>1, NoFdVars
    <3> QED
      BY <1>0, <3>1, <3>2 DEF Unassigned, FileFields, ProcFields
  <2> QED
    BY <1>6, <1>10, <2>1 DEF NewDescriptor
<1>11. CASE Fstat
  BY <1>0, <1>11 DEF Fstat, Leave, Goto, Unassigned
<1>12. CASE AllocContent
  <2>1. CASE Kzalloc("mem") /\ Goto("fread")
    <3>1. \A y \in Fields : y # "mem" => l'[y] = l[y]
      BY <1>0, <2>1, KzallocVars
    <3> QED
      BY <1>0, <1>12, <2>1, <3>1 DEF AllocContent, Goto, Unassigned, Fields, FileFields, ProcFields
  <2>2. CASE Leave("ENOMEM") /\ UNCHANGED l
    BY <1>0, <1>12, <2>2 DEF AllocContent, Leave, Goto, Unassigned
  <2> QED
    BY <1>12, <2>1, <2>2 DEF AllocContent
<1>13. CASE Fread \/ Validate
  <2>1. ASSUME Clean("EIO") \/ Clean("EINFORMAT") \/ Clean("EINVELFTYPE"), via = "elf",
               pc \in {"fread", "validate"}, UNCHANGED via
        PROVE  Unassigned'
    <3>1. l' = [l EXCEPT !["mem"] = NULL] /\ pc' = "close"
          /\ res' \in {"EIO", "EINFORMAT", "EINVELFTYPE"}
      BY <2>1 DEF Clean, Leave, Goto
    <3>2. l'["mem"] = NULL /\ \A y \in Fields : y # "mem" => l'[y] = l[y]
      BY <1>0, <3>1, ExceptVars
    <3> QED
      BY <1>0, <2>1, <3>1, <3>2 DEF Unassigned, Fields, FileFields, ProcFields
  <2>2. ASSUME Leave("ok") \/ Leave("EIO"), via # "elf", pc = "fread", UNCHANGED <<via, l>>
        PROVE  Unassigned'
    <3>1. via = "bin"
      BY <1>0, <2>2 DEF Typed, TypeOK
    <3> QED
      BY <1>0, <2>2, <3>1 DEF Leave, Goto, Unassigned
  <2>3. ASSUME Goto("validate") \/ Goto("stack"), pc \in {"fread", "validate"},
               via = "elf", UNCHANGED <<via, l, res>>
        PROVE  Unassigned'
    BY <1>0, <2>3 DEF Goto, Unassigned
  <2>4. CASE Fread
    BY <2>1, <2>2, <2>3, <2>4 DEF Fread
  <2>5. CASE Validate
    <3>1. via = "elf" /\ pc = "validate"
      BY <1>0, <2>5 DEF Validate, Unassigned
    <3> QED
      BY <2>1, <2>3, <2>5, <3>1 DEF Validate
  <2> QED
    BY <1>13, <2>4, <2>5
<1>14. CASE Fclose
  <2>1. CASE Return
    BY <1>3, <2>1
  <2>2. CASE res = "ok"
    BY <1>0, <1>14, <2>2 DEF Fclose, Goto, Unassigned
  <2>3. CASE res = "EINFORMAT"
    <3>1. l' = [l EXCEPT !["elf"] = NULL] /\ pc = "close" /\ pc' = "fopen"
      BY <1>14, <2>3 DEF Fclose, Goto
    <3>2. l'["elf"] = NULL /\ \A y \in Fields : y # "elf" => l'[y] = l[y]
      BY <1>0, <3>1, ExceptVars
    <3> QED
      BY <1>0, <2>3, <3>1, <3>2 DEF Unassigned, Fields, FileFields, ProcFields
  <2> QED
    BY <1>14, <2>1, <2>2, <2>3 DEF Fclose
<1>15. CASE AllocStack
  <2>1. CASE Kzalloc("stack") /\ Goto("task") /\ UNCHANGED <<via, res>>
    <3>1. \A y \in Fields : y # "stack" => l'[y] = l[y]
      BY <1>0, <2>1, KzallocVars
    <3> QED
      BY <1>0, <1>15, <2>1, <3>1 DEF AllocStack, Goto, Unassigned, Fields, FileFields, ProcFields
  <2> QED
    BY <1>3, <1>15, <2>1 DEF AllocStack
<1>16. CASE TaskNew
  <2>1. CASE Kzalloc("task") /\ Goto("map")
    <3>1. \A y \in Fields : y # "task" => l'[y] = l[y]
      BY <1>0, <2>1, KzallocVars
    <3> QED
      BY <1>0, <1>16, <2>1, <3>1 DEF TaskNew, Goto, Unassigned, Fields, FileFields, ProcFields
  <2> QED
    BY <1>16, <2>1 DEF TaskNew, Goto, Unassigned
<1>17. CASE Map
  BY <1>3, <1>17 DEF Map
<1> QED
  BY <1>1, <1>2, <1>4, <1>5, <1>7, <1>8, <1>9, <1>10, <1>11, <1>12, <1>13, <1>14, <1>15, <1>16,
     <1>17
  DEF Next

-----------------------------------------------------------------------------
(* No object has two pointers *)

\* NULL and the freed directory are no objects.
LEMMA NotObjects == NULL \notin Objects /\ Dangling \notin Objects
BY ProgramLoadAssumption DEF NULL, Dangling, Objects

\* An allocation adds a pointer to an object that had none.
LEMMA GrowApart ==
  ASSUME AllApart, UNCHANGED <<file_descriptors, processes>>, live \subseteq live',
         \A y \in Fields : l'[y] \in Objects => l'[y] \in live',
         \A y \in Fields : l'[y] = l[y] \/ (l'[y] \notin live /\ \A z \in Fields : l'[z] = l'[y] => z = y)
  PROVE  AllApart'
<1>1. TableApart'
  <2> SUFFICES ASSUME NEW i \in Fds, NEW x \in FileFields, file_descriptors[i][x] \in Objects
               PROVE  /\ file_descriptors[i][x] \in live'
                      /\ \A j \in Fds, y \in FileFields :
                           file_descriptors[j][y] = file_descriptors[i][x] => j = i /\ y = x
                      /\ \A p \in processes, y \in ProcFields : p[y] # file_descriptors[i][x]
                      /\ \A y \in Fields : l'[y] # file_descriptors[i][x]
    BY DEF TableApart
  <2> QED
    BY DEF AllApart, TableApart
<1>2. ProcessesApart'
  <2> SUFFICES ASSUME NEW p \in processes, NEW x \in ProcFields, p[x] \in Objects
               PROVE  /\ p[x] \in live'
                      /\ \A q \in processes, y \in ProcFields : q[y] = p[x] => q = p /\ y = x
                      /\ \A y \in Fields : l'[y] # p[x]
    BY DEF ProcessesApart
  <2> QED
    BY DEF AllApart, ProcessesApart
<1>3. LoadApart'
  <2> SUFFICES ASSUME NEW x \in Fields, l'[x] \in Objects, NEW y \in Fields, l'[y] = l'[x]
               PROVE  y = x
    BY DEF LoadApart
  <2>1. CASE l'[x] = l[x] /\ l'[y] = l[y]
    BY <2>1 DEF AllApart, LoadApart
  <2> QED
    BY <2>1
<1> QED
  BY <1>1, <1>2, <1>3 DEF AllApart

\* Dropping pointers keeps the others apart, when nothing that still has one is freed.
LEMMA DropApart ==
  ASSUME AllApart, UNCHANGED processes,
         \A i \in Fds, x \in FileFields :
           file_descriptors'[i][x] \in {file_descriptors[i][x], NULL},
         \A y \in Fields : l'[y] \in {l[y], NULL, Dangling},
         \A i \in Fds, x \in FileFields :
           file_descriptors'[i][x] \in Objects => file_descriptors'[i][x] \in live',
         \A p \in processes, x \in ProcFields : p[x] \in Objects => p[x] \in live',
         \A y \in Fields : l'[y] \in Objects => l'[y] \in live'
  PROVE  AllApart'
<1>0. NULL \notin Objects /\ Dangling \notin Objects
  BY NotObjects
<1>1. TableApart'
  <2> SUFFICES ASSUME NEW i \in Fds, NEW x \in FileFields, file_descriptors'[i][x] \in Objects
               PROVE  /\ file_descriptors'[i][x] \in live'
                      /\ \A j \in Fds, y \in FileFields :
                           file_descriptors'[j][y] = file_descriptors'[i][x] => j = i /\ y = x
                      /\ \A p \in processes, y \in ProcFields : p[y] # file_descriptors'[i][x]
                      /\ \A y \in Fields : l'[y] # file_descriptors'[i][x]
    BY DEF TableApart
  <2>1. file_descriptors'[i][x] = file_descriptors[i][x]
    BY <1>0
  <2>2. ASSUME NEW j \in Fds, NEW y \in FileFields, file_descriptors'[j][y] = file_descriptors'[i][x]
        PROVE  j = i /\ y = x
    <3>1. file_descriptors'[j][y] = file_descriptors[j][y]
      BY <1>0, <2>2
    <3>2. file_descriptors[i][x] \in Objects /\ file_descriptors[j][y] = file_descriptors[i][x]
      BY <2>1, <2>2, <3>1
    <3>3. TableApart
      BY DEF AllApart
    <3> QED
      BY <3>2, <3>3 DEF TableApart
  <2>3. ASSUME NEW y \in Fields PROVE l'[y] # file_descriptors'[i][x]
    BY <1>0, <2>1, <2>3 DEF AllApart, TableApart
  <2> QED
    BY <2>1, <2>2, <2>3 DEF AllApart, TableApart
<1>2. ProcessesApart'
  <2> SUFFICES ASSUME NEW p \in processes, NEW x \in ProcFields, p[x] \in Objects
               PROVE  /\ p[x] \in live'
                      /\ \A q \in processes, y \in ProcFields : q[y] = p[x] => q = p /\ y = x
                      /\ \A y \in Fields : l'[y] # p[x]
    BY DEF ProcessesApart
  <2> QED
    BY <1>0 DEF AllApart, ProcessesApart
<1>3. LoadApart'
  <2> SUFFICES ASSUME NEW x \in Fields, l'[x] \in Objects, NEW y \in Fields, l'[y] = l'[x]
               PROVE  y = x
    BY DEF LoadApart
  <2>1. l'[x] = l[x] /\ l'[y] = l[y]
    BY <1>0
  <2> QED
    BY <2>1 DEF AllApart, LoadApart
<1> QED
  BY <1>1, <1>2, <1>3 DEF AllApart

\* file_new_descriptor moves the pointers of the opening to the table.
LEMMA DescribeApart ==
  ASSUME AllApart, Typed, UNCHANGED processes, l["desc"] = NULL,
         NEW n \in Objects, n \notin live, live' = live \cup {n},
         NEW i \in Fds, file_descriptors[i] = NoFile,
         NEW f, f["desc"] = n, \A x \in FileFields : x # "desc" => f[x] = l[x],
         file_descriptors' = [file_descriptors EXCEPT ![i] = f],
         \A y \in FileFields : l'[y] = NULL, \A y \in ProcFields : l'[y] = l[y]
  PROVE  AllApart'
<1>0. NULL \notin Objects /\ Dangling \notin Objects
  BY NotObjects
<1>1. /\ Fields = FileFields \cup ProcFields /\ FileFields \cap ProcFields = {}
      /\ "desc" \in FileFields
  BY DEF Fields, FileFields, ProcFields
<1>2. /\ file_descriptors'[i] = f
      /\ \A j \in Fds : j # i => file_descriptors'[j] = file_descriptors[j]
  BY DEF Typed, TypeOK
<1>3. \A x \in FileFields : file_descriptors[i][x] = NULL
  BY DEF NoFile
<1>4. \A x \in FileFields : f[x] \in Objects /\ x # "desc" => f[x] \in live
  BY <1>1 DEF AllApart, LoadApart
<1>5. ASSUME NEW x \in FileFields, f[x] \in Objects, NEW y \in FileFields, f[y] = f[x]
      PROVE  y = x
  <2>1. CASE x # "desc" /\ y # "desc"
    BY <1>1, <1>5, <2>1 DEF AllApart, LoadApart
  <2>2. CASE x = "desc" \/ y = "desc"
    BY <1>4, <1>5, <2>2
  <2> QED
    BY <2>1, <2>2
<1>6. ASSUME NEW x \in FileFields, f[x] \in Objects
      PROVE  /\ \A j \in Fds, y \in FileFields : j # i => file_descriptors[j][y] # f[x]
             /\ \A p \in processes, y \in ProcFields : p[y] # f[x]
             /\ \A y \in ProcFields : l[y] # f[x]
  <2>1. CASE x = "desc"
    <3>1. f[x] = n
      BY <2>1
    <3>2. \A j \in Fds, y \in FileFields : file_descriptors[j][y] # n
      BY DEF AllApart, TableApart
    <3>3. \A p \in processes, y \in ProcFields : p[y] # n
      BY DEF AllApart, ProcessesApart
    <3>4. \A y \in ProcFields : l[y] # n
      BY <1>1 DEF AllApart, LoadApart
    <3> QED
      BY <3>1, <3>2, <3>3, <3>4
  <2>2. CASE x # "desc"
    <3>1. f[x] = l[x] /\ x \in Fields /\ x \notin ProcFields
      BY <1>1, <2>2
    <3> QED
      BY <1>1, <1>6, <3>1 DEF AllApart, TableApart, ProcessesApart, LoadApart
  <2> QED
    BY <2>1, <2>2
<1>7. TableApart'
  <2> SUFFICES ASSUME NEW j \in Fds, NEW x \in FileFields, file_descriptors'[j][x] \in Objects
               PROVE  /\ file_descriptors'[j][x] \in live'
                      /\ \A k \in Fds, y \in FileFields :
                           file_descriptors'[k][y] = file_descriptors'[j][x] => k = j /\ y = x
                      /\ \A p \in processes, y \in ProcFields : p[y] # file_descriptors'[j][x]
                      /\ \A y \in Fields : l'[y] # file_descriptors'[j][x]
    BY DEF TableApart
  <2>1. CASE j = i
    <3>1. file_descriptors'[j][x] = f[x]
      BY <1>2, <2>1
    <3>2. f[x] \in live'
      BY <1>4, <3>1
    <3>3. \A k \in Fds, y \in FileFields : file_descriptors'[k][y] = f[x] => k = j /\ y = x
      BY <1>2, <1>5, <1>6, <2>1, <3>1
    <3>4. \A y \in Fields : l'[y] # f[x]
      BY <1>0, <1>1, <1>6, <3>1
    <3> QED
      BY <1>6, <3>1, <3>2, <3>3, <3>4
  <2>2. CASE j # i
    <3>1. file_descriptors'[j][x] = file_descriptors[j][x]
      BY <1>2, <2>2
    <3>2. \A k \in Fds, y \in FileFields :
            file_descriptors'[k][y] = file_descriptors[j][x] => k = j /\ y = x
      <4> SUFFICES ASSUME NEW k \in Fds, NEW y \in FileFields,
                          file_descriptors'[k][y] = file_descriptors[j][x]
                   PROVE  k = j /\ y = x
        OBVIOUS
      <4>1. k # i
        BY <1>2, <1>6, <2>2, <3>1
      <4> QED
        BY <1>2, <3>1, <4>1 DEF AllApart, TableApart
    <3>3. \A y \in Fields : l'[y] # file_descriptors[j][x]
      BY <1>0, <1>1, <3>1 DEF AllApart, TableApart
    <3> QED
      BY <3>1, <3>2, <3>3 DEF AllApart, TableApart
  <2> QED
    BY <2>1, <2>2
<1>8. ProcessesApart'
  <2> SUFFICES ASSUME NEW p \in processes, NEW x \in ProcFields, p[x] \in Objects
               PROVE  /\ p[x] \in live'
                      /\ \A q \in processes, y \in ProcFields : q[y] = p[x] => q = p /\ y = x
                      /\ \A y \in Fields : l'[y] # p[x]
    BY DEF ProcessesApart
  <2>1. \A y \in Fields : l'[y] # p[x]
    BY <1>0, <1>1 DEF AllApart, ProcessesApart
  <2> QED
    BY <2>1 DEF AllApart, ProcessesApart
<1>9. LoadApart'
  <2> SUFFICES ASSUME NEW x \in Fields, l'[x] \in Objects
               PROVE  l'[x] \in live' /\ \A y \in Fields : l'[y] = l'[x] => y = x
    BY DEF LoadApart
  <2>1. x \in ProcFields /\ l'[x] = l[x]
    BY <1>0, <1>1
  <2>2. ASSUME NEW y \in Fields, l'[y] = l'[x] PROVE y = x
    <3>1. y \in ProcFields /\ l'[y] = l[y]
      BY <1>0, <1>1, <2>2
    <3> QED
      BY <2>1, <2>2, <3>1 DEF AllApart, LoadApart
  <2>3. l'[x] \in live'
    BY <2>1 DEF AllApart, LoadApart
  <2> QED
    BY <2>2, <2>3
<1> QED
  BY <1>7, <1>8, <1>9 DEF AllApart

\* A load that succeeds hands its pointers to the process.
LEMMA MapApart ==
  ASSUME AllApart, Typed, \A x \in FileFields : l[x] = NULL,
         NEW r, \A x \in ProcFields : r[x] = l[x],
         processes' = processes \cup {r}, UNCHANGED <<file_descriptors, live>>,
         \A y \in Fields : l'[y] = NULL
  PROVE  AllApart'
<1>0. NULL \notin Objects
  BY NotObjects
<1>1. ProcFields \subseteq Fields
  BY DEF Fields
<1>2. TableApart'
  <2> SUFFICES ASSUME NEW j \in Fds, NEW x \in FileFields, file_descriptors[j][x] \in Objects
               PROVE  /\ file_descriptors[j][x] \in live
                      /\ \A k \in Fds, y \in FileFields :
                           file_descriptors[k][y] = file_descriptors[j][x] => k = j /\ y = x
                      /\ \A p \in processes', y \in ProcFields : p[y] # file_descriptors[j][x]
                      /\ \A y \in Fields : l'[y] # file_descriptors[j][x]
    BY DEF TableApart
  <2>1. \A y \in ProcFields : r[y] # file_descriptors[j][x]
    BY <1>1 DEF AllApart, TableApart
  <2>2. \A y \in Fields : l'[y] # file_descriptors[j][x]
    BY <1>0
  <2> QED
    BY <2>1, <2>2 DEF AllApart, TableApart
<1>3. ASSUME NEW x \in ProcFields, r[x] \in Objects
      PROVE  /\ r[x] \in live
             /\ \A y \in ProcFields : r[y] = r[x] => y = x
             /\ \A q \in processes, y \in ProcFields : q[y] # r[x]
  BY <1>1, <1>3 DEF AllApart, ProcessesApart, LoadApart
<1>4. ProcessesApart'
  <2> SUFFICES ASSUME NEW p \in processes', NEW x \in ProcFields, p[x] \in Objects
               PROVE  /\ p[x] \in live
                      /\ \A q \in processes', y \in ProcFields : q[y] = p[x] => q = p /\ y = x
                      /\ \A y \in Fields : l'[y] # p[x]
    BY DEF ProcessesApart
  <2>0. \A y \in Fields : l'[y] # p[x]
    BY <1>0
  <2>1. CASE p = r
    BY <1>3, <2>0, <2>1
  <2>2. CASE p \in processes
    BY <1>3, <2>0, <2>2 DEF AllApart, ProcessesApart
  <2> QED
    BY <2>1, <2>2
<1>5. LoadApart'
  BY <1>0 DEF LoadApart
<1> QED
  BY <1>2, <1>4, <1>5 DEF AllApart

\* kzalloc keeps the pointers apart.
LEMMA KzallocApart ==
  ASSUME Typed, AllApart, NEW x \in Fields, Kzalloc(x), UNCHANGED <<file_descriptors, processes>>
  PROVE  AllApart'
<1> DEFINE n == NewObject
<1>1. n \in Objects /\ n \notin live
  BY NewObjectFree DEF Kzalloc
<1>2. live' = live \cup {n} /\ l' = [l EXCEPT ![x] = n]
  BY DEF Kzalloc
<1> HIDE DEF n
<1>3. l'[x] = n /\ \A y \in Fields : y # x => l'[y] = l[y]
  BY <1>2, ExceptVars
<1>4. \A y \in Fields : l[y] \in Objects => l[y] \in live
  BY DEF AllApart, LoadApart
<1>5. \A y \in Fields : l'[y] \in Objects => l'[y] \in live'
  BY <1>2, <1>3, <1>4
<1>6. ASSUME NEW y \in Fields
      PROVE  l'[y] = l[y] \/ (l'[y] \notin live /\ \A z \in Fields : l'[z] = l'[y] => z = y)
  <2>1. CASE y = x
    BY <1>1, <1>3, <1>4, <2>1
  <2> QED
    BY <1>3, <2>1
<1>7. live \subseteq live'
  BY <1>2
<1> QED
  BY <1>5, <1>6, <1>7, GrowApart

\* A return forgets the load's pointers and frees nothing.
LEMMA ForgetApart ==
  ASSUME AllApart, UNCHANGED <<live, file_descriptors, processes>>,
         \A y \in Fields : l'[y] \in {l[y], NULL, Dangling}
  PROVE  AllApart'
<1>1. \A i \in Fds, x \in FileFields :
        /\ file_descriptors'[i][x] \in {file_descriptors[i][x], NULL}
        /\ file_descriptors'[i][x] \in Objects => file_descriptors'[i][x] \in live'
  BY DEF AllApart, TableApart
<1>2. \A p \in processes, x \in ProcFields : p[x] \in Objects => p[x] \in live'
  BY DEF AllApart, ProcessesApart
<1>3. \A y \in Fields : l'[y] \in Objects => l'[y] \in live'
  BY NotObjects DEF AllApart, LoadApart
<1> QED
  BY <1>1, <1>2, <1>3, DropApart

\* What is freed with the variable that held it had no other pointer.
LEMMA FreeApart ==
  ASSUME Typed, AllApart, NEW x \in Fields, live' = live \ {l[x]}, l'[x] = NULL,
         \A y \in Fields : l'[y] \in {l[y], NULL}, UNCHANGED <<file_descriptors, processes>>
  PROVE  AllApart'
<1>1. ASSUME NEW i \in Fds, NEW y \in FileFields, file_descriptors[i][y] \in Objects
      PROVE  file_descriptors[i][y] \in live'
  BY <1>1 DEF AllApart, TableApart
<1>2. ASSUME NEW p \in processes, NEW y \in ProcFields, p[y] \in Objects
      PROVE  p[y] \in live'
  BY <1>2 DEF AllApart, ProcessesApart
<1>3. ASSUME NEW y \in Fields, l'[y] \in Objects
      PROVE  l'[y] \in live'
  <2>1. y # x /\ l'[y] = l[y]
    BY <1>3, NotObjects
  <2>2. l[y] \in live /\ l[x] # l[y]
    BY <1>3, <2>1 DEF AllApart, LoadApart
  <2> QED
    BY <2>1, <2>2
<1>4. \A i \in Fds, y \in FileFields :
        file_descriptors'[i][y] \in {file_descriptors[i][y], NULL}
  OBVIOUS
<1> QED
  BY <1>1, <1>2, <1>3, <1>4, DropApart

\* What fclose and elf_load's end do to the pointers.
LEMMA FcloseVars ==
  ASSUME Typed, Unassigned, Fclose
  PROVE  /\ l'["elf"] = NULL
         /\ \A y \in Fields : l'[y] \in {l[y], NULL}
         /\ \A y \in Fields : y # "elf" /\ res \in {"ok", "EINFORMAT"} => l'[y] = l[y]
<1>1. /\ pc = "close" /\ "elf" \in Fields
      /\ (l' = l \/ l' = Nothing \/ l' = [l EXCEPT !["elf"] = NULL])
  BY DEF Fclose, Return, Fields, ProcFields
<1>2. CASE l' = l
  <2>1. CASE res = "ok"
    <3>1. via = "bin" /\ l["elf"] = NULL
      BY <1>1, <2>1 DEF Unassigned
    <3> QED
      BY <1>2, <3>1
  <2>2. CASE res = "EINFORMAT"
    <3>1. l' = [l EXCEPT !["elf"] = NULL]
      BY <2>2 DEF Fclose
    <3> QED
      BY <1>1, <3>1, ExceptVars
  <2>3. CASE res \notin {"ok", "EINFORMAT"}
    <3>1. l' = Nothing
      BY <2>3 DEF Fclose, Return
    <3> QED
      BY <2>3, <3>1 DEF Nothing, Fields, ProcFields
  <2> QED
    BY <2>1, <2>2, <2>3
<1>3. CASE res = "EINFORMAT"
  <2>1. l' = [l EXCEPT !["elf"] = NULL]
    BY <1>3 DEF Fclose
  <2> QED
    BY <1>1, <2>1, ExceptVars
<1>4. CASE res = "ok"
  BY <1>2, <1>4 DEF Fclose
<1>5. CASE res \notin {"ok", "EINFORMAT"}
  <2>1. l' = Nothing
    BY <1>5 DEF Fclose, Return
  <2> QED
    BY <1>5, <2>1 DEF Nothing, Fields, ProcFields
<1> QED
  BY <1>3, <1>4, <1>5

\* Closing frees what only the closed entry pointed to.
LEMMA CloseApart ==
  ASSUME Typed, Unassigned, AllApart, FcloseOfOpen, fd \in Fds, UNCHANGED processes,
         l'["elf"] = NULL, \A y \in Fields : l'[y] \in {l[y], NULL}
  PROVE  AllApart'
<1> DEFINE F == {file_descriptors[fd][x] : x \in FileFields} \cup {l["elf"]}
<1>1. live' = live \ F
  BY DEF FcloseOfOpen, Kfree
<1>2. /\ file_descriptors'[fd] = NoFile
      /\ \A j \in Fds : j # fd => file_descriptors'[j] = file_descriptors[j]
  BY DEF FcloseOfOpen, Typed, TypeOK
<1>3. \A x \in FileFields : file_descriptors'[fd][x] = NULL
  BY <1>2 DEF NoFile
<1>4. "elf" \in Fields
  BY DEF Fields, ProcFields
<1>5. ASSUME NEW i \in Fds, NEW x \in FileFields
      PROVE  /\ file_descriptors'[i][x] \in {file_descriptors[i][x], NULL}
             /\ file_descriptors'[i][x] \in Objects => file_descriptors'[i][x] \in live'
  <2>1. CASE i = fd
    BY <1>3, <2>1, NotObjects
  <2>2. CASE i # fd
    <3>1. file_descriptors'[i][x] = file_descriptors[i][x]
      BY <1>2, <2>2
    <3>2. ASSUME file_descriptors[i][x] \in Objects
          PROVE  file_descriptors[i][x] \in live /\ file_descriptors[i][x] \notin F
      BY <1>4, <2>2, <3>2 DEF AllApart, TableApart
    <3> QED
      BY <1>1, <3>1, <3>2
  <2> QED
    BY <2>1, <2>2
<1>6. ASSUME NEW p \in processes, NEW x \in ProcFields, p[x] \in Objects
      PROVE  p[x] \in live'
  <2>1. p[x] \in live /\ l["elf"] # p[x]
    BY <1>4, <1>6 DEF AllApart, ProcessesApart
  <2>2. ASSUME NEW y \in FileFields PROVE file_descriptors[fd][y] # p[x]
    BY <1>6 DEF AllApart, TableApart
  <2> QED
    BY <1>1, <2>1, <2>2
<1>7. ASSUME NEW y \in Fields, l'[y] \in Objects
      PROVE  l'[y] \in live'
  <2>1. y # "elf" /\ l'[y] = l[y]
    BY <1>7, NotObjects
  <2>2. l[y] \in live /\ l["elf"] # l[y]
    BY <1>4, <1>7, <2>1 DEF AllApart, LoadApart
  <2>3. ASSUME NEW x \in FileFields PROVE file_descriptors[fd][x] # l[y]
    BY <1>7, <2>1 DEF AllApart, TableApart
  <2> QED
    BY <1>1, <2>1, <2>2, <2>3
<1> HIDE DEF F
<1> QED
  BY <1>5, <1>6, <1>7, DropApart

\* Every step keeps the pointers apart.
LEMMA ApartStep ==
  ASSUME IInv, [Next]_vars
  PROVE  Apart'
<1>0. Typed /\ Unassigned /\ Apart
  BY DEF IInv
<1>s. "proc" \in Fields /\ "elf" \in Fields /\ "fat" \in Fields /\ "item" \in Fields
      /\ "body" \in Fields /\ "mem" \in Fields /\ "stack" \in Fields /\ "task" \in Fields
      /\ "desc" \in Fields /\ "entries" \in Fields
  BY DEF Fields, FileFields, ProcFields
<1> SUFFICES ASSUME pc' # "wild" PROVE AllApart'
  BY DEF Apart
<1>1. CASE UNCHANGED vars
  BY <1>0, <1>1 DEF vars, Apart, AllApart, TableApart, ProcessesApart, LoadApart
<1>2. CASE Refused \/ NullWritten \/ FcloseUnknown \/ Stopped
  BY <1>1, <1>2 DEF Refused, NullWritten, FcloseUnknown, Stopped, Wild, Goto
<1>3. CASE pc # "wild"
  <2>0. AllApart
    BY <1>0, <1>3 DEF Apart
  <2>1. ASSUME NEW x \in Fields, Kzalloc(x), UNCHANGED <<file_descriptors, processes>>
        PROVE  AllApart'
    BY <1>0, <2>0, <2>1, KzallocApart
  <2>2. ASSUME UNCHANGED <<live, l, file_descriptors, processes>>
        PROVE  AllApart'
    BY <2>0, <2>2 DEF AllApart, TableApart, ProcessesApart, LoadApart
  <2>3. ASSUME Return \/ NoFd, UNCHANGED <<live, file_descriptors, processes>>
        PROVE  AllApart'
    <3>1. \A y \in Fields : l'[y] \in {l[y], NULL, Dangling}
      BY <1>0, <2>3, NoFdVars DEF Return, NoFd, Nothing, Fields
    <3> QED
      BY <2>0, <2>3, <3>1, ForgetApart
  <2>4. ASSUME Clean("EIO") \/ Clean("EINFORMAT") \/ Clean("EINVELFTYPE"),
               UNCHANGED <<file_descriptors, processes>>
        PROVE  AllApart'
    <3>1. l' = [l EXCEPT !["mem"] = NULL] /\ live' = live \ {l["mem"]}
      BY <2>4 DEF Clean, Kfree
    <3>2. l'["mem"] = NULL /\ \A y \in Fields : l'[y] \in {l[y], NULL}
      BY <1>0, <1>s, <3>1, ExceptVars
    <3> QED
      BY <1>0, <1>s, <2>0, <2>4, <3>1, <3>2, FreeApart
  <2>5. CASE \E p \in Programs : Begin(p)
    BY <1>s, <2>1, <2>5 DEF Begin
  <2>6. CASE AllocElf
    BY <1>s, <2>1, <2>3, <2>6 DEF AllocElf
  <2>7. CASE ParsePath
    <3> DEFINE n == NewObject
    <3>1. UNCHANGED <<l, file_descriptors, processes>> /\ live' = live \cup {n}
      BY <2>7 DEF ParsePath
    <3> HIDE DEF n
    <3>2. live \subseteq live'
      BY <3>1
    <3>3. \A y \in Fields : l'[y] \in Objects => l'[y] \in live'
      BY <2>0, <3>1, <3>2 DEF AllApart, LoadApart
    <3>4. \A y \in Fields : l'[y] = l[y]
      BY <3>1
    <3> QED
      BY <2>0, <3>1, <3>2, <3>3, <3>4, GrowApart
  <2>8. CASE Fat16Open \/ FindItem
    BY <1>s, <2>1, <2>3, <2>8 DEF Fat16Open, FindItem, NoFd
  <2>9. CASE CloneItem
    BY <1>s, <2>1, <2>2, <2>9 DEF CloneItem
  <2>10. CASE LoadDirectory
    <3>1. CASE UNCHANGED live /\ l' = [l EXCEPT !["body"] = Dangling]
      <4>1. \A y \in Fields : l'[y] \in {l[y], NULL, Dangling}
        BY <1>0, <1>s, <3>1, ExceptVars
      <4> QED
        BY <2>0, <2>10, <3>1, <4>1, ForgetApart DEF LoadDirectory
    <3> DEFINE n == NewObject
               e == Min(Objects \ (live \cup {n}))
    <3>2. CASE /\ Cardinality(Objects \ live) >= 2
               /\ live' = live \cup {n, e}
               /\ l' = [l EXCEPT !.body = n, !.entries = e]
      <4>1. n \in Objects \ live /\ e \in Objects \ live /\ e # n
        BY <1>0, <3>2, TwoNewObjects
      <4> HIDE DEF n, e
      <4>2. l'["body"] = n /\ l'["entries"] = e
            /\ \A y \in Fields \ {"body", "entries"} : l'[y] = l[y]
        BY <1>0, <1>s, <3>2 DEF Typed, LoadTyped, Fields
      <4>3. \A y \in Fields : l[y] \in Objects => l[y] \in live
        BY <2>0 DEF AllApart, LoadApart
      <4>4. \A y \in Fields : l'[y] \in Objects => l'[y] \in live'
        <5>1. n \in live' /\ e \in live' /\ live \subseteq live'
          BY <3>2
        <5>2. \A z \in Fields : z = "body" \/ z = "entries" \/ l'[z] = l[z]
          BY <4>2
        <5> QED
          BY <4>2, <4>3, <5>1, <5>2
      <4>5. ASSUME NEW y \in Fields
            PROVE  l'[y] = l[y] \/ (l'[y] \notin live /\ \A z \in Fields : l'[z] = l'[y] => z = y)
        <5>1. \A z \in Fields : z = "body" \/ z = "entries" \/ l'[z] = l[z]
          BY <4>2
        <5>2. \A z \in Fields : l[z] # n /\ l[z] # e
          BY <4>1, <4>3
        <5>3. CASE y = "body"
          BY <4>1, <4>2, <5>1, <5>2, <5>3
        <5>4. CASE y = "entries"
          BY <4>1, <4>2, <5>1, <5>2, <5>4
        <5> QED
          BY <5>1, <5>3, <5>4
      <4>6. live \subseteq live' /\ UNCHANGED <<file_descriptors, processes>>
        BY <2>10, <3>2 DEF LoadDirectory
      <4> QED
        BY <2>0, <4>4, <4>5, <4>6, GrowApart
    <3> QED
      BY <2>2, <2>10, <3>1, <3>2 DEF LoadDirectory
  <2>11. CASE NewDescriptor
    <3>1. CASE FreeFds = {}
      BY <2>3, <2>11, <3>1 DEF NewDescriptor, NoFd
    <3>2. CASE FreeFds # {}
      <4> DEFINE n == NewObject
                 i == Min(FreeFds)
                 f == [x \in FileFields |-> IF x = "desc" THEN n ELSE l[x]]
      <4>1. n \in Objects /\ n \notin live
        BY <1>0, <2>11, <3>2, NewObjectFree DEF NewDescriptor
      <4>2. i \in Fds /\ file_descriptors[i] = NoFile
        BY <1>0, <3>2, NewFdFree
      <4>3. /\ live' = live \cup {n} /\ UNCHANGED processes
            /\ file_descriptors' = [file_descriptors EXCEPT ![i] = f]
            /\ l' = [x \in DOMAIN l |-> IF x \in FileFields THEN NULL ELSE l[x]]
        BY <2>11, <3>2 DEF NewDescriptor
      <4>4. (\A y \in FileFields : l'[y] = NULL) /\ (\A y \in ProcFields : l'[y] = l[y])
        BY <1>0, <4>3, NoFdVars
      <4>5. f["desc"] = n /\ \A x \in FileFields : x # "desc" => f[x] = l[x]
        BY DEF FileFields
      <4>6. l["desc"] = NULL
        BY <1>0, <1>3 DEF Unassigned
      <4> HIDE DEF n, i, f
      <4> QED
        BY <1>0, <2>0, <4>1, <4>2, <4>3, <4>4, <4>5, <4>6, DescribeApart
    <3> QED
      BY <3>1, <3>2
  <2>12. CASE Fstat
    BY <2>2, <2>12 DEF Fstat
  <2>13. CASE AllocContent
    BY <1>s, <2>1, <2>2, <2>13 DEF AllocContent
  <2>14. CASE Fread \/ Validate
    BY <2>2, <2>4, <2>14 DEF Fread, Validate
  <2>15. CASE Fclose
    <3>1. l'["elf"] = NULL /\ \A y \in Fields : l'[y] \in {l[y], NULL}
      BY <1>0, <2>15, FcloseVars
    <3>2. CASE Kfree({l.elf}) /\ UNCHANGED file_descriptors
      <4>1. live' = live \ {l["elf"]} /\ UNCHANGED <<file_descriptors, processes>>
        BY <2>15, <3>2 DEF Kfree, Fclose
      <4> QED
        BY <1>0, <1>s, <2>0, <3>1, <4>1, FreeApart
    <3>3. CASE FcloseOfOpen /\ Known(fd)
      <4>1. fd \in Fds /\ UNCHANGED processes
        BY <1>0, <2>15, <3>3 DEF Fclose, Known, Typed, TypeOK
      <4> QED
        BY <1>0, <2>0, <3>1, <3>3, <4>1, CloseApart
    <3> QED
      BY <2>15, <3>2, <3>3 DEF Fclose
  <2>16. CASE AllocStack \/ TaskNew
    BY <1>s, <2>1, <2>2, <2>3, <2>16 DEF AllocStack, TaskNew
  <2>17. CASE Map
    <3> DEFINE r == [x \in ProcFields |-> l[x]]
    <3>1. pc = "map" /\ l' = Nothing /\ UNCHANGED file_descriptors
      BY <2>17 DEF Map, Return
    <3>2. \A y \in Fields : l'[y] = NULL
      BY <3>1 DEF Nothing, Fields
    <3>3. CASE processes' = processes \cup {r} /\ UNCHANGED live
      <4>1. \A x \in ProcFields : r[x] = l[x]
        OBVIOUS
      <4>2. \A x \in FileFields : l[x] = NULL
        BY <1>0, <3>1 DEF Unassigned
      <4> HIDE DEF r
      <4> QED
        BY <1>0, <2>0, <3>1, <3>2, <3>3, <4>1, <4>2, MapApart
    <3>4. CASE Kfree({l.task}) /\ UNCHANGED processes
      <4>1. live' = live \ {l["task"]} /\ l'["task"] = NULL
            /\ \A y \in Fields : l'[y] \in {l[y], NULL}
        BY <1>s, <3>2, <3>4 DEF Kfree
      <4> QED
        BY <1>0, <1>s, <2>0, <3>1, <3>4, <4>1, FreeApart
    <3> QED
      BY <2>17, <3>3, <3>4 DEF Map
  <2> QED
    BY <1>1, <1>2, <2>5, <2>6, <2>7, <2>8, <2>9, <2>10, <2>11, <2>12, <2>13, <2>14, <2>15,
       <2>16, <2>17
    DEF Next
<1>4. CASE pc = "wild"
  BY <1>0, <1>1, <1>2, <1>4
  DEF Next, Begin, AllocElf, ParsePath, Fat16Open, FindItem, CloneItem, LoadDirectory,
      NewDescriptor, Fstat, AllocContent, Fread, Validate, Fclose, AllocStack, TaskNew, Map
<1> QED
  BY <1>3, <1>4

-----------------------------------------------------------------------------
(* Descriptors *)

\* Every step leaves open the accepted files and the load's own.
LEMMA OpenedStep ==
  ASSUME IInv, [Next]_vars
  PROVE  Opened'
<1> DEFINE Open == {i \in Fds : file_descriptors[i] # NoFile}
<1>0. Typed /\ Unassigned /\ Opened
  BY DEF IInv
<1> SUFFICES ASSUME pc' # "wild"
             PROVE  /\ Open' = accepted' \cup ({fd'} \ {0})
                    /\ fd' \notin accepted'
                    /\ fd' # 0 => pc' \in {"opened", "kzalloc", "fread", "validate", "close"}
                    /\ pc' \in {"kzalloc", "fread", "validate"} => fd' # 0
  BY DEF Opened
<1>z. 0 \notin Fds /\ accepted \subseteq Fds /\ fd \in Fds \cup {0}
  BY <1>0, ProgramLoadAssumption DEF Fds, Typed, TypeOK
<1>1. CASE UNCHANGED vars
  BY <1>0, <1>1 DEF vars, history, Opened
<1>2. CASE Refused \/ NullWritten \/ FcloseUnknown \/ Stopped
  BY <1>1, <1>2 DEF Refused, NullWritten, FcloseUnknown, Stopped, Wild, Goto
<1>3. CASE pc = "wild"
  BY <1>1, <1>2, <1>3
  DEF Next, Begin, AllocElf, ParsePath, Fat16Open, FindItem, CloneItem, LoadDirectory,
      NewDescriptor, Fstat, AllocContent, Fread, Validate, Fclose, AllocStack, TaskNew, Map
<1>4. CASE pc # "wild"
  <2>1. /\ Open = accepted \cup ({fd} \ {0}) /\ fd \notin accepted
        /\ fd # 0 => pc \in {"opened", "kzalloc", "fread", "validate", "close"}
        /\ pc \in {"kzalloc", "fread", "validate"} => fd # 0
    BY <1>0, <1>4 DEF Opened
  <2>2. UNCHANGED file_descriptors => Open' = Open
    OBVIOUS
  <2>3. ASSUME FreeFds # {}, NewDescriptor
        PROVE  Open' = Open \cup {fd'} /\ fd' \notin Open /\ fd' \in Fds
    <3> DEFINE n == NewObject
               i == Min(FreeFds)
               f == [x \in FileFields |-> IF x = "desc" THEN n ELSE l[x]]
    <3>1. n # NULL
      <4>1. n \in Objects
        BY <1>0, <2>3, NewObjectFree DEF NewDescriptor
      <4> QED
        BY <4>1, NotObjects
    <3>2. f # NoFile
      <4> HIDE DEF n
      <4>1. f["desc"] = n /\ NoFile["desc"] = NULL
        BY DEF FileFields, NoFile
      <4> QED
        BY <3>1, <4>1
    <3>3. i \in Fds /\ file_descriptors[i] = NoFile
      BY <1>0, <2>3, NewFdFree
    <3>4. file_descriptors' = [file_descriptors EXCEPT ![i] = f] /\ fd' = i
      BY <2>3 DEF NewDescriptor
    <3> HIDE DEF n, i, f
    <3> QED
      BY <1>0, <3>2, <3>3, <3>4 DEF Typed, TypeOK
  <2>4. ASSUME FcloseOfOpen, fd \in Fds
        PROVE  Open' = Open \ {fd}
    BY <1>0, <2>4 DEF FcloseOfOpen, Typed, TypeOK
  <2> HIDE DEF Open
  <2>5. CASE \E p \in Programs : Begin(p)
    BY <2>1, <2>2, <2>5 DEF Begin, Goto
  <2>6. CASE AllocElf \/ ParsePath \/ Fat16Open \/ FindItem \/ CloneItem \/ LoadDirectory
    BY <2>1, <2>2, <2>6 DEF AllocElf, ParsePath, Fat16Open, FindItem, CloneItem, LoadDirectory,
                            NoFd, Return, Goto, history
  <2>7. CASE NewDescriptor
    <3>1. CASE FreeFds = {}
      BY <2>1, <2>2, <2>7, <3>1 DEF NewDescriptor, NoFd, Goto, history
    <3>2. CASE FreeFds # {}
      <4>1. pc = "new descriptor" /\ pc' = "opened" /\ accepted' = accepted
        BY <2>7, <3>2 DEF NewDescriptor, Goto, history
      <4>2. fd = 0 /\ Open = accepted
        BY <2>1, <4>1
      <4> QED
        BY <1>z, <2>3, <2>7, <3>2, <4>1, <4>2
    <3> QED
      BY <3>1, <3>2
  <2>8. CASE Fstat
    <3>1. Known(fd) => fd # 0
      BY DEF Known
    <3> QED
      BY <2>1, <2>2, <2>8, <3>1 DEF Fstat, Leave, Goto, history
  <2>9. CASE AllocContent \/ Fread
    BY <2>1, <2>2, <2>9 DEF AllocContent, Fread, Clean, Leave, Goto, history
  <2>10. CASE Validate
    <3>1. pc = "validate" /\ UNCHANGED file_descriptors /\ fd \in Fds /\ fd # 0
      BY <1>z, <2>1, <2>10 DEF Validate
    <3>2. CASE pc' = "stack" /\ fd' = 0 /\ accepted' = accepted \cup {fd}
      BY <1>z, <2>1, <2>2, <3>1, <3>2
    <3>3. CASE pc' = "close" /\ UNCHANGED <<fd, accepted>>
      BY <2>1, <2>2, <3>1, <3>3
    <3> QED
      BY <2>10, <3>2, <3>3 DEF Validate, Clean, Leave, Goto
  <2>11. CASE Fclose
    <3>1. pc = "close" /\ fd' = 0 /\ pc' \in {"stack", "fopen", "idle"} /\ UNCHANGED accepted
      BY <2>11 DEF Fclose, Return, Goto, history
    <3>2. Open' = accepted
      <4>1. CASE fd = 0 /\ UNCHANGED file_descriptors
        BY <2>1, <2>2, <4>1
      <4>2. CASE Known(fd) /\ FcloseOfOpen
        <5>1. fd \in Fds /\ fd # 0
          BY <1>z, <4>2 DEF Known
        <5> QED
          BY <1>z, <2>1, <2>4, <4>2, <5>1
      <4> QED
        BY <2>11, <4>1, <4>2 DEF Fclose
    <3> QED
      BY <1>z, <3>1, <3>2
  <2>12. CASE AllocStack \/ TaskNew \/ Map
    BY <2>1, <2>2, <2>12 DEF AllocStack, TaskNew, Map, Return, Goto, history
  <2> QED
    BY <1>1, <1>2, <2>5, <2>6, <2>7, <2>8, <2>9, <2>10, <2>11, <2>12 DEF Next
<1> QED
  BY <1>3, <1>4

-----------------------------------------------------------------------------
(* What can be reached, and the number of pointers *)

\* The pointers to an object are finitely many.
LEMMA PointersFinite ==
  ASSUME Typed, NEW o
  PROVE  IsFiniteSet(InTable(o)) /\ IsFiniteSet(InProcesses(o)) /\ IsFiniteSet(InLoad(o))
<1>1. IsFiniteSet(FileFields) /\ IsFiniteSet(ProcFields)
  <2>1. ASSUME NEW a, NEW b, NEW c, NEW d, NEW e PROVE IsFiniteSet({a, b, c, d, e})
    <3>1. IsFiniteSet({a}) /\ IsFiniteSet({b}) /\ IsFiniteSet({c}) /\ IsFiniteSet({d}) /\ IsFiniteSet({e})
      BY FS_Singleton
    <3>2. IsFiniteSet({a} \cup {b} \cup {c} \cup {d} \cup {e})
      BY <3>1, FS_Union
    <3>3. {a} \cup {b} \cup {c} \cup {d} \cup {e} = {a, b, c, d, e}
      OBVIOUS
    <3> QED
      BY <3>2, <3>3
  <2> QED
    BY <2>1 DEF FileFields, ProcFields
<1>2. IsFiniteSet(Fds)
  BY ProgramLoadAssumption, FS_Interval DEF Fds
<1>3. IsFiniteSet(Fds \X FileFields) /\ IsFiniteSet(processes \X ProcFields)
  BY <1>1, <1>2, FS_Product DEF Typed
<1>4. IsFiniteSet(DOMAIN l)
  <2>1. DOMAIN l = FileFields \cup ProcFields
    BY DEF Typed, LoadTyped
  <2> QED
    BY <1>1, <2>1, FS_Union
<1>5. InTable(o) \subseteq Fds \X FileFields /\ InProcesses(o) \subseteq processes \X ProcFields
      /\ InLoad(o) \subseteq DOMAIN l
  BY DEF InTable, InProcesses, InLoad
<1> QED
  BY <1>3, <1>4, <1>5, FS_Subset

\* An object without a pointer is one that Holders counts none of.
LEMMA HoldersZero ==
  ASSUME Typed, NEW o
  PROVE  /\ Holders(o) \in Nat
         /\ Holders(o) = 0 <=> ~Held(o)
<1>1. IsFiniteSet(InTable(o)) /\ IsFiniteSet(InProcesses(o)) /\ IsFiniteSet(InLoad(o))
  BY PointersFinite
<1>2. /\ Cardinality(InTable(o)) \in Nat /\ Cardinality(InProcesses(o)) \in Nat
      /\ Cardinality(InLoad(o)) \in Nat
      /\ Cardinality(InTable(o)) = 0 <=> InTable(o) = {}
      /\ Cardinality(InProcesses(o)) = 0 <=> InProcesses(o) = {}
      /\ Cardinality(InLoad(o)) = 0 <=> InLoad(o) = {}
  BY <1>1, FS_CardinalityType, FS_EmptySet
<1>3. InTable(o) = {} <=> ~\E i \in Fds, x \in FileFields : file_descriptors[i][x] = o
  <2>1. ASSUME NEW i \in Fds, NEW x \in FileFields, file_descriptors[i][x] = o
        PROVE  <<i, x>> \in InTable(o)
    BY <2>1 DEF InTable
  <2>2. ASSUME NEW s \in InTable(o)
        PROVE  s[1] \in Fds /\ s[2] \in FileFields /\ file_descriptors[s[1]][s[2]] = o
    BY DEF InTable
  <2> QED
    BY <2>1, <2>2
<1>4. InProcesses(o) = {} <=> ~\E p \in processes, x \in ProcFields : p[x] = o
  <2>1. ASSUME NEW p \in processes, NEW x \in ProcFields, p[x] = o
        PROVE  <<p, x>> \in InProcesses(o)
    BY <2>1 DEF InProcesses
  <2>2. ASSUME NEW s \in InProcesses(o)
        PROVE  s[1] \in processes /\ s[2] \in ProcFields /\ s[1][s[2]] = o
    BY DEF InProcesses
  <2> QED
    BY <2>1, <2>2
<1>5. InLoad(o) = {} <=> ~\E x \in Fields : l[x] = o
  BY DEF InLoad, Typed, LoadTyped, Fields
<1> QED
  BY <1>2, <1>3, <1>4, <1>5 DEF Holders, Held

\* A set without two elements has at most one.
LEMMA AtMostOne ==
  ASSUME NEW S, IsFiniteSet(S), \A a, b \in S : a = b
  PROVE  Cardinality(S) \in Nat /\ Cardinality(S) <= 1
<1>1. CASE S = {}
  BY <1>1, FS_EmptySet
<1>2. CASE S # {}
  <2>1. PICK a \in S : TRUE
    BY <1>2
  <2>2. S = {a}
    BY <2>1
  <2>3. Cardinality({a}) = 1
    BY FS_Singleton
  <2> QED
    BY <2>2, <2>3
<1> QED
  BY <1>1, <1>2

\* Objects that are apart have at most one pointer, and are allocated if they have.
LEMMA HoldersOne ==
  ASSUME Typed, AllApart, NEW o \in Objects
  PROVE  Holders(o) <= 1 /\ (Holders(o) = 1 => o \in live)
<1> DEFINE T == InTable(o)
           P == InProcesses(o)
           L == InLoad(o)
<1>1. IsFiniteSet(T) /\ IsFiniteSet(P) /\ IsFiniteSet(L)
  BY PointersFinite
<1>2. \A a, b \in T : a = b
  <2> SUFFICES ASSUME NEW a \in T, NEW b \in T PROVE a = b
    OBVIOUS
  <2>1. /\ a \in Fds \X FileFields /\ b \in Fds \X FileFields
        /\ file_descriptors[a[1]][a[2]] = o /\ file_descriptors[b[1]][b[2]] = o
    BY DEF InTable
  <2>2. a[1] = b[1] /\ a[2] = b[2]
    BY <2>1 DEF AllApart, TableApart
  <2> QED
    BY <2>1, <2>2
<1>3. \A a, b \in P : a = b
  <2> SUFFICES ASSUME NEW a \in P, NEW b \in P PROVE a = b
    OBVIOUS
  <2>1. /\ a \in processes \X ProcFields /\ b \in processes \X ProcFields
        /\ a[1][a[2]] = o /\ b[1][b[2]] = o
    BY DEF InProcesses
  <2>2. a[1] = b[1] /\ a[2] = b[2]
    BY <2>1 DEF AllApart, ProcessesApart
  <2> QED
    BY <2>1, <2>2
<1>4. \A a, b \in L : a = b
  BY DEF InLoad, AllApart, LoadApart, Typed, LoadTyped, Fields
<1>5. /\ Cardinality(T) \in Nat /\ Cardinality(T) <= 1
      /\ Cardinality(P) \in Nat /\ Cardinality(P) <= 1
      /\ Cardinality(L) \in Nat /\ Cardinality(L) <= 1
  <2> HIDE DEF T, P, L
  <2> QED BY <1>1, <1>2, <1>3, <1>4, AtMostOne
<1>6. T # {} => P = {} /\ L = {} /\ o \in live
  BY DEF InTable, InProcesses, InLoad, AllApart, TableApart, Typed, LoadTyped, Fields
<1>7. P # {} => L = {} /\ o \in live
  BY DEF InProcesses, InLoad, AllApart, ProcessesApart, Typed, LoadTyped, Fields
<1>8. L # {} => o \in live
  BY DEF InLoad, AllApart, LoadApart, Typed, LoadTyped, Fields
<1>9. /\ T = {} => Cardinality(T) = 0
      /\ P = {} => Cardinality(P) = 0
      /\ L = {} => Cardinality(L) = 0
  BY FS_EmptySet
<1>10. Holders(o) = Cardinality(T) + Cardinality(P) + Cardinality(L)
  BY DEF Holders
<1> HIDE DEF T, P, L
<1> QED
  BY <1>5, <1>6, <1>7, <1>8, <1>9, <1>10

-----------------------------------------------------------------------------
(* Nothing is lost on the way to a mapped program but the paths *)


\* A held object stays held when a variable that was NULL is filled.
LEMMA HeldAfterKzalloc ==
  ASSUME Typed, AllKept, NEW x \in Fields, Kzalloc(x), l[x] = NULL, litter \subseteq litter',
         UNCHANGED <<file_descriptors, processes>>
  PROVE  AllKept'
<1> DEFINE n == NewObject
<1>1. live' = live \cup {n} /\ l' = [l EXCEPT ![x] = n]
  BY DEF Kzalloc
<1> HIDE DEF n
<1>2. l'[x] = n /\ \A y \in Fields : y # x => l'[y] = l[y]
  BY <1>1, ExceptVars
<1> SUFFICES ASSUME NEW o \in live' PROVE o \in litter' \/ Held(o)'
  BY DEF AllKept
<1>3. CASE o = n
  BY <1>2, <1>3 DEF Held
<1>4. CASE o \in live
  <2>1. CASE o \in litter
    BY <2>1
  <2>2. CASE Held(o)
    <3>1. o # NULL
      BY <1>4, NotObjects DEF Typed, TypeOK
    <3>2. ASSUME NEW y \in Fields, l[y] = o PROVE l'[y] = o
      BY <1>2, <3>1, <3>2
    <3> QED
      BY <2>2, <3>2 DEF Held
  <2> QED
    BY <1>4, <2>1, <2>2 DEF AllKept
<1> QED
  BY <1>1, <1>3, <1>4

\* When every pointer that is dropped is to something that is freed, nothing is lost.
LEMMA HeldAfterFree ==
  ASSUME Typed, AllKept, UNCHANGED <<processes, litter>>, live' \subseteq live,
         \A i \in Fds, x \in FileFields :
           file_descriptors'[i][x] = file_descriptors[i][x] \/ file_descriptors[i][x] \notin live',
         \A y \in Fields : l'[y] = l[y] \/ l[y] \notin live'
  PROVE  AllKept'
<1> SUFFICES ASSUME NEW o \in live' PROVE o \in litter \/ Held(o)'
  BY DEF AllKept
<1>1. CASE Held(o)
  BY <1>1 DEF Held
<1> QED
  BY <1>1 DEF AllKept

\* Every step on the way to a mapped program loses nothing but a path.
LEMMA KeptStep ==
  ASSUME IInv, [Next]_vars
  PROVE  Kept'
<1>0. Typed /\ Unassigned /\ Apart /\ Opened /\ Kept
  BY DEF IInv
<1>s. "proc" \in Fields /\ "elf" \in Fields /\ "fat" \in Fields /\ "item" \in Fields
      /\ "body" \in Fields /\ "mem" \in Fields /\ "stack" \in Fields /\ "task" \in Fields
      /\ "desc" \in Fields /\ "entries" \in Fields
  BY DEF Fields, FileFields, ProcFields
<1>n. \A o \in live : o # NULL
  BY <1>0, NotObjects DEF Typed, TypeOK
<1> SUFFICES ASSUME Hopeful' PROVE AllKept'
  BY DEF Kept
<1>1. CASE UNCHANGED vars
  <2>1. Hopeful
    BY <1>1 DEF vars, Hopeful
  <2> QED
    BY <1>0, <1>1, <2>1 DEF vars, history, Kept, AllKept, Held
<1>2. CASE Refused \/ NullWritten \/ FcloseUnknown \/ Stopped
  BY <1>1, <1>2 DEF Refused, NullWritten, FcloseUnknown, Stopped, Wild, Goto, Hopeful
<1>3. CASE \E p \in Programs : Begin(p)
  <2> DEFINE n == NewObject
  <2>1. /\ live' = live \cup {n} /\ l' = [l EXCEPT !["proc"] = n] /\ litter' = Lost
        /\ UNCHANGED <<file_descriptors, processes>> /\ pc = "idle"
    BY <1>3 DEF Begin, Kzalloc
  <2> HIDE DEF n
  <2>2. l'["proc"] = n /\ \A y \in Fields : y # "proc" => l'[y] = l[y]
    BY <1>0, <1>s, <2>1, ExceptVars
  <2>3. l["proc"] = NULL
    BY <1>0, <2>1 DEF Unassigned
  <2> SUFFICES ASSUME NEW o \in live' PROVE o \in Lost \/ Held(o)'
    BY <2>1 DEF AllKept
  <2>4. CASE o = n
    BY <1>s, <2>2, <2>4 DEF Held
  <2>5. CASE o \in live /\ Held(o)
    <3>1. ASSUME NEW y \in Fields, l[y] = o PROVE l'[y] = o
      BY <1>n, <2>2, <2>3, <2>5, <3>1
    <3> QED
      BY <2>1, <2>5, <3>1 DEF Held
  <2>6. CASE o \in live /\ ~Held(o)
    <3>1. Holders(o) = 0
      BY <1>0, <2>6, HoldersZero
    <3> QED
      BY <2>6, <3>1 DEF Lost
  <2> QED
    BY <2>1, <2>4, <2>5, <2>6
<1>4. ASSUME NEW x \in Fields, Kzalloc(x), l[x] = NULL, Hopeful, UNCHANGED litter,
             UNCHANGED <<file_descriptors, processes>>
      PROVE  AllKept'
  BY <1>0, <1>4, HeldAfterKzalloc DEF Kept
<1>5. ASSUME UNCHANGED <<live, l, file_descriptors, processes, litter>>, Hopeful
      PROVE  AllKept'
  BY <1>0, <1>5 DEF Kept, AllKept, Held
<1>6. CASE AllocElf
  <2>1. pc = "elf" /\ l["elf"] = NULL /\ UNCHANGED litter /\ UNCHANGED <<file_descriptors, processes>>
    BY <1>0, <1>6 DEF AllocElf, Unassigned, history
  <2>2. ~Return
    BY DEF Return, Goto, Hopeful
  <2>3. Kzalloc("elf")
    BY <1>6, <2>2 DEF AllocElf
  <2>4. Hopeful
    BY <2>1 DEF Hopeful
  <2> QED
    BY <1>s, <1>4, <2>1, <2>3, <2>4
<1>7. CASE ParsePath
  <2> DEFINE n == NewObject
  <2>1. live' = live \cup {n} /\ litter' = litter \cup {n} /\ pc = "fopen"
        /\ UNCHANGED <<l, file_descriptors, processes>>
    BY <1>7 DEF ParsePath
  <2> HIDE DEF n
  <2>2. AllKept
    BY <1>0, <2>1 DEF Kept, Hopeful
  <2> QED
    BY <2>1, <2>2 DEF AllKept, Held
<1>8. ASSUME NoFd PROVE FALSE
  BY <1>8 DEF NoFd, Goto, Hopeful
<1>9. CASE Fat16Open
  <2>1. pc = "fat16_open" /\ Kzalloc("fat") /\ UNCHANGED litter /\ UNCHANGED <<file_descriptors, processes>>
    BY <1>8, <1>9 DEF Fat16Open, history
  <2>2. l["fat"] = NULL /\ Hopeful
    BY <1>0, <2>1 DEF Unassigned, FileFields, Hopeful
  <2> QED
    BY <1>s, <1>4, <2>1, <2>2
<1>10. CASE FindItem
  <2>1. pc = "find" /\ Kzalloc("item") /\ UNCHANGED litter /\ UNCHANGED <<file_descriptors, processes>>
    BY <1>8, <1>10 DEF FindItem, history
  <2>2. l["item"] = NULL /\ Hopeful
    BY <1>0, <2>1 DEF Unassigned, Hopeful
  <2> QED
    BY <1>s, <1>4, <2>1, <2>2
<1>11. CASE CloneItem
  <2>1. pc = "load item" /\ UNCHANGED litter /\ UNCHANGED <<file_descriptors, processes>>
        /\ (UNCHANGED <<live, l>> \/ Kzalloc("body"))
    BY <1>11 DEF CloneItem, history
  <2>2. l["body"] = NULL /\ Hopeful
    BY <1>0, <2>1 DEF Unassigned, Hopeful
  <2>3. CASE UNCHANGED <<live, l>>
    BY <1>5, <2>1, <2>2, <2>3
  <2>4. CASE Kzalloc("body")
    BY <1>s, <1>4, <2>1, <2>2, <2>4
  <2> QED
    BY <2>1, <2>3, <2>4
<1>12. CASE LoadDirectory
  <2>1. pc = "load item" /\ UNCHANGED litter /\ UNCHANGED <<file_descriptors, processes>>
    BY <1>12 DEF LoadDirectory, history
  <2>2. l["body"] = NULL /\ l["entries"] = NULL /\ Hopeful
    BY <1>0, <2>1 DEF Unassigned, Hopeful
  <2>3. AllKept
    BY <1>0, <2>2 DEF Kept
  <2>4. CASE UNCHANGED <<live, l>>
    BY <1>5, <2>1, <2>2, <2>4
  <2>5. CASE UNCHANGED live /\ l' = [l EXCEPT !["body"] = Dangling]
    <3>1. \A y \in Fields : y # "body" => l'[y] = l[y]
      BY <1>0, <1>s, <2>5, ExceptVars
    <3>2. ASSUME NEW y \in Fields PROVE l'[y] = l[y] \/ l[y] \notin live'
      BY <1>n, <2>2, <2>5, <3>1
    <3> QED
      BY <1>0, <2>1, <2>3, <2>5, <3>2, HeldAfterFree
  <2> DEFINE n == NewObject
             e == Min(Objects \ (live \cup {n}))
  <2>6. CASE /\ live' = live \cup {n, e}
             /\ l' = [l EXCEPT !.body = n, !.entries = e]
    <3> HIDE DEF n, e
    <3>1. l'["body"] = n /\ l'["entries"] = e
          /\ \A y \in Fields \ {"body", "entries"} : l'[y] = l[y]
      BY <1>0, <1>s, <2>6 DEF Typed, LoadTyped, Fields
    <3> SUFFICES ASSUME NEW o \in live' PROVE o \in litter' \/ Held(o)'
      BY DEF AllKept
    <3>2. CASE o = n \/ o = e
      BY <1>s, <3>1, <3>2 DEF Held
    <3>3. CASE o \in live
      <4>1. CASE o \in litter
        BY <2>1, <4>1
      <4>2. CASE Held(o)
        <5>1. ASSUME NEW y \in Fields, l[y] = o PROVE l'[y] = o
          BY <1>n, <2>2, <3>1, <3>3, <5>1
        <5> QED
          BY <2>1, <4>2, <5>1 DEF Held
      <4> QED
        BY <2>3, <3>3, <4>1, <4>2 DEF AllKept
    <3> QED
      BY <2>6, <3>2, <3>3
  <2> QED
    BY <1>12, <2>4, <2>5, <2>6 DEF LoadDirectory
<1>13. CASE NewDescriptor
  <2> DEFINE n == NewObject
             i == Min(FreeFds)
             f == [x \in FileFields |-> IF x = "desc" THEN n ELSE l[x]]
  <2>1. FreeFds # {}
    BY <1>8, <1>13 DEF NewDescriptor
  <2>2. /\ pc = "new descriptor" /\ live' = live \cup {n} /\ UNCHANGED <<processes, litter>>
        /\ file_descriptors' = [file_descriptors EXCEPT ![i] = f]
        /\ l' = [x \in DOMAIN l |-> IF x \in FileFields THEN NULL ELSE l[x]]
    BY <1>13, <2>1 DEF NewDescriptor, history
  <2>3. (\A y \in FileFields : l'[y] = NULL) /\ (\A y \in ProcFields : l'[y] = l[y])
    BY <1>0, <2>2, NoFdVars
  <2>4. f["desc"] = n /\ \A x \in FileFields : x # "desc" => f[x] = l[x]
    BY DEF FileFields
  <2>5. i \in Fds /\ file_descriptors[i] = NoFile
    BY <1>0, <2>1, NewFdFree
  <2>6. l["desc"] = NULL /\ AllKept
    BY <1>0, <2>2 DEF Unassigned, Kept, Hopeful
  <2> HIDE DEF n, i, f
  <2>7. /\ file_descriptors'[i] = f
        /\ \A j \in Fds : j # i => file_descriptors'[j] = file_descriptors[j]
        /\ \A x \in FileFields : file_descriptors[i][x] = NULL
    BY <1>0, <2>2, <2>5 DEF Typed, TypeOK, NoFile
  <2> SUFFICES ASSUME NEW o \in live' PROVE o \in litter' \/ Held(o)'
    BY DEF AllKept
  <2>8. CASE o = n
    <3>1. "desc" \in FileFields
      BY DEF FileFields
    <3> QED
      BY <2>4, <2>5, <2>7, <2>8, <3>1 DEF Held
  <2>9. CASE o \in live
    <3>0. o # NULL
      BY <1>n, <2>9
    <3>1. CASE o \in litter
      BY <2>2, <3>1
    <3>2. ASSUME NEW j \in Fds, NEW x \in FileFields, file_descriptors[j][x] = o
          PROVE  Held(o)'
      <4>1. file_descriptors'[j][x] = o
        BY <2>7, <3>0, <3>2
      <4> QED
        BY <4>1 DEF Held
    <3>3. ASSUME NEW p \in processes, NEW x \in ProcFields, p[x] = o
          PROVE  Held(o)'
      BY <2>2, <3>3 DEF Held
    <3>4. ASSUME NEW x \in Fields, l[x] = o
          PROVE  Held(o)'
      <4>1. CASE x \in FileFields
        <5>1. file_descriptors'[i][x] = o
          BY <2>4, <2>6, <2>7, <3>0, <3>4, <4>1
        <5> QED
          BY <2>5, <4>1, <5>1 DEF Held
      <4>2. CASE x \in ProcFields
        BY <2>3, <3>4, <4>2 DEF Held, Fields
      <4> QED
        BY <4>1, <4>2 DEF Fields
    <3> QED
      BY <2>6, <2>9, <3>1, <3>2, <3>3, <3>4 DEF AllKept, Held
  <2> QED
    BY <2>2, <2>8, <2>9
<1>14. CASE Fstat
  <2>1. UNCHANGED <<live, l, file_descriptors, processes, litter>> /\ pc = "opened"
    BY <1>14 DEF Fstat, history
  <2>2. fd # 0
    <3>1. Known(fd)
      BY <1>14 DEF Fstat, Leave, Goto, Hopeful
    <3> QED
      BY <3>1 DEF Known
  <2> QED
    BY <1>5, <2>1, <2>2 DEF Hopeful
<1>15. CASE AllocContent
  <2>1. pc = "kzalloc" /\ UNCHANGED litter /\ UNCHANGED <<file_descriptors, processes>>
    BY <1>15 DEF AllocContent, history
  <2>2. Kzalloc("mem")
    BY <1>15 DEF AllocContent, Leave, Goto, Hopeful
  <2>3. l["mem"] = NULL /\ Hopeful
    BY <1>0, <2>1 DEF Unassigned, Hopeful
  <2> QED
    BY <1>s, <1>4, <2>1, <2>2, <2>3
<1>16. CASE Fread \/ Validate
  <2>1. pc \in {"fread", "validate"} /\ UNCHANGED litter /\ UNCHANGED <<file_descriptors, processes>>
    BY <1>16 DEF Fread, Validate, history
  <2>2. Hopeful /\ AllKept
    BY <1>0, <2>1 DEF Kept, Hopeful
  <2>3. CASE UNCHANGED <<live, l>>
    BY <1>5, <2>1, <2>2, <2>3
  <2>4. CASE Clean("EIO") \/ Clean("EINFORMAT") \/ Clean("EINVELFTYPE")
    <3>1. l' = [l EXCEPT !["mem"] = NULL] /\ live' = live \ {l["mem"]}
      BY <2>4 DEF Clean, Kfree
    <3>2. \A y \in Fields : y # "mem" => l'[y] = l[y]
      BY <1>0, <1>s, <3>1, ExceptVars
    <3>3. \A y \in Fields : l'[y] = l[y] \/ l[y] \notin live'
      BY <3>1, <3>2
    <3>4. live' \subseteq live
      BY <3>1
    <3> QED
      BY <1>0, <2>1, <2>2, <3>3, <3>4, HeldAfterFree
  <2> QED
    BY <1>16, <2>3, <2>4 DEF Fread, Validate
<1>17. CASE Fclose
  <2>1. res \in {"ok", "EINFORMAT"}
    BY <1>17 DEF Fclose, Return, Goto, Hopeful
  <2>2. pc = "close" /\ UNCHANGED <<processes, litter>> /\ AllKept
    BY <1>0, <1>17, <2>1 DEF Fclose, Kept, Hopeful, history
  <2>3. l'["elf"] = NULL /\ \A y \in Fields : y # "elf" => l'[y] = l[y]
    BY <1>0, <1>17, <2>1, FcloseVars
  <2>4. CASE Kfree({l.elf}) /\ UNCHANGED file_descriptors
    <3>1. live' = live \ {l["elf"]}
      BY <2>4 DEF Kfree
    <3>2. \A y \in Fields : l'[y] = l[y] \/ l[y] \notin live'
      BY <2>3, <3>1
    <3>3. live' \subseteq live
      BY <3>1
    <3> QED
      BY <1>0, <2>2, <2>4, <3>2, <3>3, HeldAfterFree
  <2>5. CASE FcloseOfOpen
    <3> DEFINE F == {file_descriptors[fd][x] : x \in FileFields} \cup {l["elf"]}
    <3>1. live' = live \ F /\ file_descriptors' = [file_descriptors EXCEPT ![fd] = NoFile]
      BY <2>5 DEF FcloseOfOpen, Kfree
    <3>2. l["elf"] \in F /\ \A x \in FileFields : file_descriptors[fd][x] \in F
      OBVIOUS
    <3> HIDE DEF F
    <3>3. \A y \in Fields : l'[y] = l[y] \/ l[y] \notin live'
      BY <2>3, <3>1, <3>2
    <3>4. ASSUME NEW j \in Fds, NEW x \in FileFields
          PROVE  file_descriptors'[j][x] = file_descriptors[j][x] \/ file_descriptors[j][x] \notin live'
      <4>1. CASE j = fd
        BY <3>1, <3>2, <4>1
      <4>2. CASE j # fd
        BY <1>0, <3>1, <4>2 DEF Typed, TypeOK
      <4> QED
        BY <4>1, <4>2
    <3>5. live' \subseteq live
      BY <3>1
    <3> QED
      BY <1>0, <2>2, <3>3, <3>4, <3>5, HeldAfterFree
  <2> QED
    BY <1>17, <2>4, <2>5 DEF Fclose
<1>18. CASE AllocStack
  <2>1. pc = "stack" /\ UNCHANGED litter /\ UNCHANGED <<file_descriptors, processes>>
    BY <1>18 DEF AllocStack, history
  <2>2. Kzalloc("stack")
    BY <1>18 DEF AllocStack, Return, Goto, Hopeful
  <2>3. l["stack"] = NULL /\ Hopeful
    BY <1>0, <2>1 DEF Unassigned, Hopeful
  <2> QED
    BY <1>s, <1>4, <2>1, <2>2, <2>3
<1>19. CASE TaskNew
  <2>1. pc = "task" /\ UNCHANGED litter /\ UNCHANGED <<file_descriptors, processes>>
    BY <1>19 DEF TaskNew, history
  <2>2. Kzalloc("task")
    BY <1>19 DEF TaskNew, Goto, Hopeful
  <2>3. l["task"] = NULL /\ Hopeful
    BY <1>0, <2>1 DEF Unassigned, Hopeful
  <2> QED
    BY <1>s, <1>4, <2>1, <2>2, <2>3
<1>20. CASE Map
  BY <1>20 DEF Map, Return, Goto, Hopeful
<1> QED
  BY <1>1, <1>2, <1>3, <1>6, <1>7, <1>9, <1>10, <1>11, <1>12, <1>13, <1>14, <1>15, <1>16, <1>17,
     <1>18, <1>19, <1>20
  DEF Next

-----------------------------------------------------------------------------
(* The theorems *)

\* The first state satisfies the inductive invariant.
LEMMA InitEstablishes == Init => IInv
<1> SUFFICES ASSUME Init PROVE IInv
  OBVIOUS
<1>0. /\ NULL \in 0 .. Dangling /\ NULL \in 0 .. MaxObjects /\ NULL \notin Objects
      /\ MaxProcesses \in Nat /\ 0 <= MaxProcesses
  BY ProgramLoadAssumption, NotObjects DEF NULL, Dangling
<1>1. \A i \in Fds : file_descriptors[i] = NoFile
  BY DEF Init
<1>2. \A i \in Fds, x \in FileFields : file_descriptors[i][x] = NULL
  BY <1>1 DEF NoFile
<1>3. (\A y \in Fields : l[y] = NULL) /\ Fields = FileFields \cup ProcFields
      /\ l = [x \in Fields |-> NULL]
  BY DEF Init, Nothing, Fields
<1>4. IsFiniteSet(processes) /\ Cardinality(processes) = 0
  BY FS_EmptySet DEF Init
<1>5. Typed
  <2>1. file_descriptors \in [Fds -> [FileFields -> 0 .. Dangling]]
    BY <1>0 DEF Init, NoFile
  <2>2. LoadTyped
    BY <1>0, <1>3 DEF LoadTyped
  <2>3. TypeOK
    BY <1>0, <1>4, <2>1, <2>2 DEF Init, TypeOK, LoadTyped, Labels
  <2> QED
    BY <1>4, <2>2, <2>3 DEF Init, Typed
<1>6. Unassigned
  BY <1>3 DEF Init, Unassigned, FileFields, ProcFields
<1>7. Apart
  BY <1>0, <1>2, <1>3 DEF Init, Apart, AllApart, TableApart, ProcessesApart, LoadApart
<1>8. Opened
  BY <1>1 DEF Init, Opened
<1>9. Kept
  BY DEF Init, Kept, Hopeful
<1> QED
  BY <1>5, <1>6, <1>7, <1>8, <1>9 DEF IInv

\* In every reachable state types hold, no object has two pointers, the open
\* descriptors are accounted for, and nothing but paths is lost on the way to a
\* mapped program.
THEOREM InductiveInvariant == Spec => []IInv
<1>1. IInv /\ [Next]_vars => IInv'
  BY TypedStep, UnassignedStep, ApartStep, OpenedStep, KeptStep DEF IInv
<1> QED
  BY InitEstablishes, <1>1, PTL DEF Spec

\* Loading keeps the heap, the table of descriptors, the table of processes (never
\* over PEACHOS_MAX_PROCESSES) and its own variables well typed.
THEOREM TypeCorrect == Spec => []TypeOK
<1>1. IInv => TypeOK
  BY DEF IInv, Typed
<1> QED
  BY <1>1, InductiveInvariant, PTL

\* process_load_for_slot and all it calls free nothing that is still pointed to
\* and leave nothing with two owners, whichever of their calls fails.
THEOREM NothingFreedTooEarly == Spec => []OneHolder
<1>1. IInv => OneHolder
  BY HoldersOne DEF IInv, Apart, OneHolder
<1> QED
  BY <1>1, InductiveInvariant, PTL

\* Every load but an accepted ELF file's has closed its file when it returns.
THEOREM FilesAreClosed == Spec => []OnlyElfsStayOpen
<1>1. IInv => OnlyElfsStayOpen
  BY DEF IInv, Opened, OnlyElfsStayOpen
<1> QED
  BY <1>1, InductiveInvariant, PTL

\* A load that gets as far as process_map_memory has leaked its parsed paths at most.
THEOREM LoadLosesOnlyPaths == Spec => []LosesOnlyPaths
<1>1. IInv => LosesOnlyPaths
  <2> SUFFICES ASSUME IInv, pc = "map", NEW o \in Lost PROVE o \in litter
    BY DEF LosesOnlyPaths
  <2>1. o \in live /\ Holders(o) = 0
    BY DEF Lost
  <2>2. ~Held(o)
    BY <2>1, HoldersZero DEF IInv
  <2> QED
    BY <2>1, <2>2 DEF IInv, Kept, Hopeful, AllKept
<1> QED
  BY <1>1, InductiveInvariant, PTL

-----------------------------------------------------------------------------
(* ElfMap: the invariant *)

\* A segment's memory from its first page to its last one.
First(s)    == PageOf(s.vaddr)
LastPage(s) == PageOf(s.vaddr + s.memsz - 1)

Entries == [frame : Int, w : BOOLEAN]

MapTyped ==
  /\ filetype \in {"elf", "bin"} /\ size \in FileSizes
  /\ filetype = "bin" => segments = <<>>
  /\ filetype = "elf" => segments \in [1 .. Headers -> Segments]
  /\ stage \in {"map", "run"} /\ header \in Nat \ {0} /\ page \in Nat
  /\ table \in [0 .. Pages - 1 -> Entries]

\* Behind the headers and pages that were mapped, a page of one segment has its
\* place in the image.
Reached(n, p) == n < header \/ (n = header /\ p < First(segments[n]) + page)
InPlace ==
  \A n \in DOMAIN segments : \A p \in PagesOf(segments[n]) :
    Alone(n, p) /\ Reached(n, p) =>
      table[p] = [frame |-> PageOf(segments[n].offset) + (p - First(segments[n])), w |-> segments[n].w]

FlatInPlace ==
  filetype = "bin" => \A n \in 0 .. page - 1 :
    /\ PageOf(ProgramAt) + n \in DOMAIN table
    /\ table[PageOf(ProgramAt) + n] = [frame |-> n, w |-> TRUE]

\* What can be written is the file's or the stack's, unless a segment leaves the file.
OurFrames == ImageFrames \cup {Stack(n) : n \in 0 .. StackPages - 1}
Leaves(n) == segments[n].w /\ segments[n].offset + segments[n].memsz > Upper(size)
Inside ==
  \/ \A p \in DOMAIN table : table[p].w => table[p].frame \in OurFrames
  \/ \E n \in DOMAIN segments : Leaves(n)

Complete == stage = "run" => Mapped

MapIInv == MapTyped /\ InPlace /\ FlatInPlace /\ Inside /\ Complete

-----------------------------------------------------------------------------
(* ElfMap: pages *)

\* An address is a page and a place in it.
LEMMA PageIs ==
  ASSUME NEW a \in Nat
  PROVE  PageOf(a) \in Nat /\ a % PageSize \in 0 .. PageSize - 1
         /\ a = PageSize * PageOf(a) + (a % PageSize)
<1>1. PageSize \in Nat \ {0}
  BY ElfMapAssumption
<1> QED
  BY <1>1 DEF PageOf

\* Only 0 is a multiple of n nearer to 0 than n.
LEMMA SmallMultiple ==
  ASSUME NEW n \in Nat \ {0}, NEW q \in Int, NEW r \in Int,
         n * q = r, -n < r, r < n
  PROVE  q = 0
OBVIOUS

\* They are unique.
LEMMA PageUnique ==
  ASSUME NEW a \in Nat, NEW q \in Int, NEW r \in 0 .. PageSize - 1, a = PageSize * q + r
  PROVE  PageOf(a) = q /\ a % PageSize = r
<1> DEFINE d == PageOf(a)
           m == a % PageSize
<1>0. PageSize \in Nat \ {0}
  BY ElfMapAssumption
<1>1. d \in Int /\ m \in 0 .. PageSize - 1 /\ a = PageSize * d + m
  BY PageIs
<1> HIDE DEF d, m
<1>2. PageSize * (d - q) = r - m
  BY <1>0, <1>1
<1>3. d - q = 0
  BY <1>0, <1>1, <1>2, SmallMultiple
<1>4. d = q
  BY <1>1, <1>3
<1>5. m = r
  BY <1>0, <1>1, <1>4
<1> QED
  BY <1>4, <1>5 DEF d, m

\* A product is compared by its factor.
LEMMA Factor ==
  ASSUME NEW n \in Nat \ {0}, NEW a \in Int, NEW b \in Int
  PROVE  /\ n * a < n * b <=> a < b
         /\ n * a \in Int /\ n * (a + b) = n * a + n * b /\ n * (a - b) = n * a - n * b
         /\ n * (a + 1) = n * a + n /\ (b = 0 => n * b = 0)
<1>1. n * a \in Int /\ n * b \in Int /\ n * (a - b) = n * a - n * b
  OBVIOUS
<1>2. ASSUME a < b PROVE n * a < n * b
  <2>1. PICK d \in Nat : b = a + 1 + d
    <3>1. b - a - 1 \in Nat /\ b = a + 1 + (b - a - 1)
      BY <1>2
    <3> QED
      BY <3>1
  <2>2. n * b = n * a + n + n * d /\ n * d \in Nat
    BY <2>1
  <2> QED
    BY <1>1, <2>2
<1>3. ASSUME b < a PROVE n * b < n * a
  <2>1. PICK d \in Nat : a = b + 1 + d
    <3>1. a - b - 1 \in Nat /\ a = b + 1 + (a - b - 1)
      BY <1>3
    <3> QED
      BY <3>1
  <2>2. n * a = n * b + n + n * d /\ n * d \in Nat
    BY <2>1
  <2> QED
    BY <1>1, <2>2
<1>4. n * a < n * b <=> a < b
  BY <1>1, <1>2, <1>3
<1> QED
  BY <1>1, <1>4

\* Higher addresses are in higher pages.
LEMMA PageMonotone ==
  ASSUME NEW a \in Nat, NEW b \in Nat, a <= b
  PROVE  PageOf(a) <= PageOf(b)
<1> DEFINE p == PageOf(a)
           q == PageOf(b)
<1>0. PageSize \in Nat \ {0}
  BY ElfMapAssumption
<1>1. /\ p \in Nat /\ q \in Nat
      /\ \E r \in 0 .. PageSize - 1 : a = PageSize * p + r
      /\ \E r \in 0 .. PageSize - 1 : b = PageSize * q + r
  BY PageIs
<1> HIDE DEF p, q
<1>2. PageSize * p < PageSize * (q + 1) /\ PageSize * (q + 1) = PageSize * q + PageSize
  BY <1>0, <1>1, Factor
<1>3. p < q + 1
  BY <1>0, <1>1, <1>2, Factor
<1> QED
  BY <1>1, <1>3 DEF p, q

LEMMA LowerIs ==
  ASSUME NEW a \in Nat
  PROVE  Lower(a) = PageSize * PageOf(a) /\ Lower(a) \in Nat
<1> DEFINE m == a % PageSize
           x == PageSize * PageOf(a)
<1>1. PageSize \in Nat \ {0} /\ PageOf(a) \in Nat /\ a = x + m /\ m \in 0 .. PageSize - 1
  BY PageIs, ElfMapAssumption
<1>2. x \in Nat
  BY <1>1
<1>3. Lower(a) = a - m
  BY DEF Lower
<1> HIDE DEF m, x
<1>4. a - m = x
  BY <1>1, <1>2
<1> QED
  BY <1>2, <1>3, <1>4 DEF x

\* Upper is the end of the page of the last byte.
LEMMA UpperIs ==
  ASSUME NEW a \in Nat \ {0}
  PROVE  Upper(a) = PageSize * (PageOf(a - 1) + 1)
<1> DEFINE q == PageOf(a - 1)
           m == (a - 1) % PageSize
<1>0. a - 1 \in Nat
  OBVIOUS
<1>1. /\ PageSize \in Nat \ {0} /\ q \in Nat /\ m \in 0 .. PageSize - 1
      /\ a - 1 = PageSize * q + m
  BY <1>0, PageIs, ElfMapAssumption
<1> HIDE DEF q, m
<1>2. PageSize * (q + 1) = PageSize * q + PageSize /\ PageSize * q \in Nat
  BY <1>1
<1>3. CASE m = PageSize - 1
  <2>1. a = PageSize * (q + 1) + 0
    BY <1>1, <1>2, <1>3
  <2>2. a % PageSize = 0
    BY <1>1, <2>1, PageUnique
  <2>3. a = PageSize * (q + 1)
    BY <1>1, <1>2, <1>3
  <2> QED
    BY <2>2, <2>3 DEF Upper, q
<1>4. CASE m # PageSize - 1
  <2>1. a = PageSize * q + (m + 1) /\ m + 1 \in 0 .. PageSize - 1
    BY <1>1, <1>2, <1>4
  <2>2. a % PageSize = m + 1 /\ PageOf(a) = q
    BY <1>1, <2>1, PageUnique
  <2>3. Lower(a) = PageSize * q
    BY <2>2, LowerIs
  <2> QED
    BY <1>1, <1>2, <2>2, <2>3 DEF Upper, q
<1> QED
  BY <1>3, <1>4

\* The pages between two addresses are those of the addresses between them.
LEMMA PagesBetween ==
  ASSUME NEW a \in Nat, NEW b \in Nat, a <= b
  PROVE  {PageOf(c) : c \in a .. b} = PageOf(a) .. PageOf(b)
<1>1. ASSUME NEW c \in a .. b PROVE PageOf(c) \in PageOf(a) .. PageOf(b)
  <2>1. c \in Nat /\ a <= c /\ c <= b
    OBVIOUS
  <2>2. PageOf(a) <= PageOf(c) /\ PageOf(c) <= PageOf(b)
    BY <2>1, PageMonotone
  <2>3. PageOf(a) \in Nat /\ PageOf(b) \in Nat /\ PageOf(c) \in Nat
    BY <2>1, PageIs
  <2> QED
    BY <2>2, <2>3
<1>2. ASSUME NEW p \in PageOf(a) .. PageOf(b) PROVE \E c \in a .. b : PageOf(c) = p
  <2> DEFINE x == PageSize * p
             y == PageSize * PageOf(b)
  <2>0. PageSize \in Nat \ {0} /\ p \in Nat /\ PageOf(a) <= p /\ p <= PageOf(b)
        /\ PageOf(a) \in Nat /\ PageOf(b) \in Nat
    BY PageIs, ElfMapAssumption
  <2>1. CASE p = PageOf(a)
    <3>1. a \in a .. b
      OBVIOUS
    <3> QED
      BY <2>1, <3>1
  <2>2. CASE p # PageOf(a)
    <3>1. x \in Nat /\ x = PageSize * p + 0 /\ 0 \in 0 .. PageSize - 1
      BY <2>0
    <3>2. PageOf(x) = p
      BY <2>0, <3>1, PageUnique
    <3>3. ~(x < a)
      <4>1. x < a => PageOf(x) <= PageOf(a)
        BY <3>1, PageMonotone
      <4> QED
        BY <2>0, <2>2, <3>2, <4>1
    <3>4. x <= b
      <4>1. y \in Nat /\ b = y + (b % PageSize) /\ b % PageSize \in Nat
        <5>1. b = y + (b % PageSize) /\ b % PageSize \in 0 .. PageSize - 1
          BY PageIs
        <5>2. y \in Nat
          BY <2>0
        <5> QED
          BY <2>0, <5>1, <5>2
      <4>2. ~(y < x)
        BY <2>0, Factor
      <4> HIDE DEF x, y
      <4> QED
        BY <3>1, <4>1, <4>2
    <3>5. x \in a .. b
      BY <3>1, <3>3, <3>4
    <3> QED
      BY <3>2, <3>5
  <2> QED
    BY <2>1, <2>2
<1> QED
  BY <1>1, <1>2

\* What a header says, in pages: the image of a segment has as many as its memory.
LEMMA SegmentPages ==
  ASSUME NEW s \in Segments
  PROVE  /\ First(s) \in Nat /\ LastPage(s) \in Nat /\ First(s) <= LastPage(s)
         /\ PageOf(ProgramAt) <= First(s) /\ LastPage(s) < Pages
         /\ PagesOf(s) = First(s) .. LastPage(s)
         /\ PageOf(s.offset) \in Nat
         /\ PageOf(s.offset + s.memsz - 1) = PageOf(s.offset) + (LastPage(s) - First(s))
         /\ RangeOf(s).virt = PageSize * First(s)
         /\ RangeOf(s).from = PageSize * PageOf(s.offset)
         /\ RangeOf(s).to = PageSize * (PageOf(s.offset) + (LastPage(s) - First(s)) + 1)
<1> DEFINE v == s.vaddr
           o == s.offset
           e == s.memsz - 1
           P == PageSize
           m == v % PageSize
           me == (v + e) % PageSize
           F == PageOf(v)
           L == PageOf(v + e)
           O == PageOf(o)
<1>1. /\ v \in Nat /\ o \in Nat /\ e \in Nat /\ v >= ProgramAt /\ m = o % P /\ v + e < Pages * P
      /\ v + e \in Nat /\ o + e \in Nat /\ v <= v + e
      /\ P \in Nat \ {0} /\ Pages \in Nat /\ ProgramAt \in Nat
      /\ s.vaddr + s.memsz - 1 = v + e /\ s.offset + s.memsz - 1 = o + e
      /\ \E a \in Nat \ {0} : a = o + s.memsz /\ a - 1 = o + e
  <2>1. s \in [offset : Nat, vaddr : Nat, filesz : Nat, memsz : Nat \ {0}, w : BOOLEAN]
        /\ s.vaddr >= ProgramAt /\ s.vaddr % PageSize = s.offset % PageSize
        /\ s.vaddr + s.memsz <= Pages * PageSize
        /\ PageSize \in Nat \ {0} /\ Pages \in Nat /\ ProgramAt \in Nat /\ Pages * PageSize \in Nat
    BY ElfMapAssumption
  <2> DEFINE z == Pages * PageSize
  <2>2. s.memsz \in Nat \ {0} /\ s.vaddr \in Nat /\ s.offset \in Nat /\ z \in Nat /\ s.vaddr + s.memsz <= z
    BY <2>1
  <2> HIDE DEF z
  <2>3. e \in Nat /\ v + e < z /\ s.vaddr + s.memsz - 1 = v + e /\ s.offset + s.memsz - 1 = o + e
    BY <2>2
  <2> QED
    BY <2>1, <2>2, <2>3 DEF z
<1> HIDE DEF v, o, e
<1>2. /\ F \in Nat /\ L \in Nat /\ O \in Nat
      /\ m \in 0 .. P - 1 /\ me \in 0 .. P - 1
      /\ v = P * F + m /\ v + e = P * L + me /\ o = P * O + m
  BY <1>1, PageIs
<1>3. PageOf(ProgramAt) <= F /\ F <= L
  BY <1>1, PageMonotone
<1>4. L < Pages
  <2> HIDE DEF L, me
  <2>1. P * L \in Int /\ P * Pages \in Int /\ P * Pages = Pages * P
    BY <1>1, <1>2
  <2>2. P * L < P * Pages
    <3> DEFINE x == P * L
               y == P * Pages
               z == Pages * P
    <3>1. x \in Int /\ y = z /\ y \in Int /\ v + e = x + me /\ me \in 0 .. P - 1 /\ v + e < z /\ P \in Nat
      BY <1>1, <1>2, <2>1
    <3> HIDE DEF x, y, z
    <3>2. x < y
      BY <1>1, <3>1
    <3> QED
      BY <3>2 DEF x, y
  <2> QED
    BY <1>1, <1>2, <2>2, Factor
<1>5. PagesOf(s) = F .. L
  <2>1. {PageOf(c) : c \in v .. v + e} = F .. L
    BY <1>1, PagesBetween
  <2> QED
    BY <1>1, <2>1 DEF PagesOf, v
<1>6. PageOf(o + e) = O + (L - F)
  <2> HIDE DEF F, L, O, m, me
  <2>1. P * (O + (L - F)) = P * O + (P * L - P * F) /\ P * O \in Int /\ P * L \in Int /\ P * F \in Int
    <3>1. L - F \in Int /\ P * (O + (L - F)) = P * O + P * (L - F) /\ P * (L - F) = P * L - P * F
      BY <1>1, <1>2, Factor
    <3> QED
      BY <1>1, <1>2, <3>1
  <2>2. o + e = P * (O + (L - F)) + me
    <3> DEFINE x == P * O
               y == P * L
               z == P * F
               a == P * (O + (L - F))
    <3>1. /\ a = x + (y - z) /\ x \in Int /\ y \in Int /\ z \in Int /\ m \in Int /\ me \in Int
          /\ v = z + m /\ v + e = y + me /\ o = x + m /\ e \in Nat
      BY <1>1, <1>2, <2>1
    <3> HIDE DEF x, y, z, a
    <3>2. o + e = a + me
      BY <3>1
    <3> QED
      BY <3>2 DEF a
  <2>3. O + (L - F) \in Int
    BY <1>2
  <2> QED
    BY <1>1, <1>2, <2>2, <2>3, PageUnique
<1>7. Lower(s.vaddr) = P * F /\ Lower(s.offset) = P * O
  BY <1>1, LowerIs DEF v, o
<1>8. Upper(s.offset + s.memsz) = P * (O + (L - F) + 1)
  <2>1. PICK a \in Nat \ {0} : a = o + s.memsz /\ a - 1 = o + e
    BY <1>1
  <2>2. Upper(a) = P * (PageOf(a - 1) + 1)
    BY <2>1, UpperIs
  <2> QED
    BY <1>6, <2>1, <2>2 DEF o
<1>9. First(s) = F /\ LastPage(s) = L
  BY <1>1 DEF First, LastPage, v
<1> QED
  BY <1>1, <1>2, <1>3, <1>4, <1>5, <1>6, <1>7, <1>8, <1>9 DEF RangeOf, v, o

\* Multiples of the page size.
LEMMA PageOfMultiple ==
  ASSUME NEW n \in Nat
  PROVE  PageSize * n \in Nat /\ PageOf(PageSize * n) = n
<1> DEFINE x == PageSize * n
<1>1. PageSize \in Nat \ {0}
  BY ElfMapAssumption
<1>2. x \in Nat /\ x = PageSize * n + 0 /\ 0 \in 0 .. PageSize - 1
  BY <1>1
<1> HIDE DEF x
<1>3. PageOf(x) = n
  BY <1>2, PageUnique
<1> QED
  BY <1>2, <1>3 DEF x

\* The stack ends below the program, and both begin with a page.
LEMMA StackBelow ==
  /\ PageOf(StackAt) \in Nat /\ PageOf(ProgramAt) \in Nat /\ StackPages \in Nat
  /\ PageOf(StackAt) + StackPages <= PageOf(ProgramAt)
  /\ ProgramAt = PageSize * PageOf(ProgramAt)
<1> DEFINE P == PageSize
           a == PageOf(StackAt)
           b == PageOf(ProgramAt)
<1>1. P \in Nat \ {0} /\ StackPages \in Nat /\ StackAt \in Nat /\ ProgramAt \in Nat
      /\ StackAt % P = 0 /\ ProgramAt % P = 0 /\ StackAt + StackPages * P <= ProgramAt
  BY ElfMapAssumption
<1>2. a \in Nat /\ b \in Nat /\ StackAt = P * a + (StackAt % P) /\ ProgramAt = P * b + (ProgramAt % P)
  BY <1>1, PageIs
<1> HIDE DEF P, a, b
<1>3. StackAt = P * a /\ ProgramAt = P * b /\ P * a \in Int /\ P * b \in Int
  BY <1>1, <1>2
<1>4. P * (a + StackPages) = P * a + P * StackPages /\ P * StackPages = StackPages * P
  BY <1>1, <1>2
<1>5. ~(P * b < P * (a + StackPages))
  <2> DEFINE x == P * a
             y == P * b
             z == StackPages * P
             t == P * StackPages
             u == P * (a + StackPages)
  <2>1. x \in Int /\ y \in Int /\ z \in Int /\ u = x + t /\ t = z
        /\ StackAt = x /\ ProgramAt = y /\ StackAt + z <= ProgramAt
    BY <1>1, <1>3, <1>4
  <2> HIDE DEF x, y, z, t, u
  <2>2. ~(y < u)
    BY <2>1
  <2> QED
    BY <2>2 DEF y, u
<1>6. a + StackPages <= b
  <2>1. a + StackPages \in Int
    BY <1>1, <1>2
  <2> QED
    BY <1>1, <1>2, <1>5, <2>1, Factor
<1> QED
  BY <1>1, <1>2, <1>3, <1>6 DEF P, a, b

\* The headers are segments, and only those of an ELF file.
LEMMA HeadersAre ==
  ASSUME MapTyped
  PROVE  /\ Len(segments) \in Nat /\ DOMAIN segments = 1 .. Len(segments)
         /\ \A n \in DOMAIN segments : segments[n] \in Segments
         /\ filetype = "bin" => DOMAIN segments = {} /\ ~(1 <= Len(segments))
<1>1. Headers \in Nat
  BY ElfMapAssumption
<1>2. CASE filetype = "bin"
  BY <1>2 DEF MapTyped
<1>3. CASE filetype = "elf"
  <2>1. segments \in [1 .. Headers -> Segments]
    BY <1>3 DEF MapTyped
  <2>2. segments \in Seq(Segments)
    BY <1>1, <2>1
  <2> QED
    BY <1>3, <2>2
<1> QED
  BY <1>2, <1>3 DEF MapTyped

\* What MapPage does, in pages.
LEMMA MapPageIs ==
  ASSUME MapTyped, More, header >= 1,
         NEW s, s = segments[header]
  PROVE  /\ s \in Segments /\ header \in DOMAIN segments
         /\ (RangeOf(s).from + page * PageSize < RangeOf(s).to <=> First(s) + page <= LastPage(s))
         /\ PageOf(RangeOf(s).virt + page * PageSize) = First(s) + page
         /\ PageOf(RangeOf(s).from) = PageOf(s.offset)
<1>1. header \in DOMAIN segments /\ s \in Segments
  BY HeadersAre DEF More, MapTyped
<1> DEFINE F == First(s)
           L == LastPage(s)
           O == PageOf(s.offset)
           P == PageSize
           from == RangeOf(s).from
           to == RangeOf(s).to
           virt == RangeOf(s).virt
<1>2. /\ F \in Nat /\ L \in Nat /\ O \in Nat /\ P \in Nat \ {0} /\ page \in Nat
      /\ virt = P * F /\ from = P * O /\ to = P * (O + (L - F) + 1)
  BY <1>1, SegmentPages, ElfMapAssumption DEF MapTyped
<1> HIDE DEF F, L, O, P, from, to, virt
<1>3. P * O + page * P = P * (O + page) /\ P * F + page * P = P * (F + page)
  BY <1>2
<1>4. from + page * P < to <=> O + page < O + (L - F) + 1
  <2>1. O + page \in Int /\ O + (L - F) + 1 \in Int
    BY <1>2
  <2> QED
    BY <1>2, <1>3, <2>1, Factor
<1>5. O + page < O + (L - F) + 1 <=> F + page <= L
  BY <1>2
<1>6. PageOf(virt + page * P) = F + page /\ PageOf(from) = O
  <2>1. F + page \in Nat
    BY <1>2
  <2> QED
    BY <1>2, <1>3, <2>1, PageOfMultiple DEF P
<1> QED
  BY <1>1, <1>4, <1>5, <1>6 DEF F, O, L, P, from, to, virt

\* What MapBinary does, in pages.
LEMMA MapBinaryIs ==
  ASSUME MapTyped
  PROVE  /\ PageOf(ProgramAt + page * PageSize) = PageOf(ProgramAt) + page
         /\ page * PageSize < Upper(size) <=> size # 0 /\ page <= PageOf(size - 1)
         /\ page * PageSize < Upper(size) => PageOf(ProgramAt) + page < Pages
<1> DEFINE P == PageSize
           A == PageOf(ProgramAt)
<1>1. P \in Nat \ {0} /\ page \in Nat /\ size \in Nat /\ A \in Nat /\ ProgramAt = P * A
      /\ ProgramAt + size <= Pages * P /\ Pages \in Nat /\ ProgramAt \in Nat
  BY StackBelow, ElfMapAssumption DEF MapTyped
<1> HIDE DEF P, A
<1>2. P * A + page * P = P * (A + page) /\ page * P = P * page /\ A + page \in Nat
  BY <1>1
<1>3. PageOf(ProgramAt + page * P) = A + page
  BY <1>1, <1>2, PageOfMultiple DEF P
<1>4. page * P < Upper(size) <=> size # 0 /\ page <= PageOf(size - 1)
  <2>1. CASE size = 0
    <3>1. 0 = P * 0 + 0 /\ 0 \in 0 .. P - 1
      BY <1>1
    <3>2. Upper(size) = 0
      BY <2>1, <3>1, PageUnique DEF Upper, P
    <3>3. page * P \in Nat
      BY <1>1
    <3> QED
      BY <2>1, <3>2, <3>3
  <2>2. CASE size # 0
    <3>1. PICK q \in Nat : q = PageOf(size - 1) /\ Upper(size) = P * (q + 1)
      <4>1. size - 1 \in Nat /\ size \in Nat \ {0}
        BY <1>1, <2>2
      <4> QED
        BY <4>1, PageIs, UpperIs DEF P
    <3>2. P * page < P * (q + 1) <=> page < q + 1
      BY <1>1, <3>1, Factor
    <3> QED
      BY <1>1, <1>2, <2>2, <3>1, <3>2
  <2> QED
    BY <2>1, <2>2
<1>5. ASSUME size # 0, page <= PageOf(size - 1) PROVE A + page < Pages
  <2>1. PICK b \in Nat : b = size - 1
    BY <1>1, <1>5
  <2>2. PICK q \in Nat, m \in 0 .. P - 1 : q = PageOf(b) /\ b = P * q + m
    BY <1>1, <2>1, PageIs DEF P
  <2>3. P * (A + q) = P * A + P * q /\ P * (A + q) \in Int /\ P * q \in Nat /\ Pages * P = P * Pages
        /\ Pages * P \in Nat
    BY <1>1, <2>2
  <2>4. P * (A + q) < P * Pages
    <3> DEFINE x == P * (A + q)
               y == P * q
               z == P * A
               t == P * Pages
               u == Pages * P
    <3>1. /\ x = z + y /\ y \in Nat /\ x \in Int /\ ProgramAt = z /\ b = y + m /\ m \in 0 .. P - 1
          /\ P \in Nat /\ t = u /\ u \in Nat /\ ProgramAt + size <= u /\ b = size - 1
          /\ size \in Nat /\ ProgramAt \in Nat
      BY <1>1, <2>1, <2>2, <2>3
    <3> HIDE DEF x, y, z, t, u
    <3>2. x < t
      BY <3>1
    <3> QED
      BY <3>2 DEF x, t
  <2>5. A + q < Pages
    <3>1. A + q \in Int /\ Pages \in Int
      BY <1>1, <2>2
    <3> QED
      BY <1>1, <2>4, <3>1, Factor
  <2> QED
    BY <1>1, <1>5, <2>1, <2>2, <2>5
<1> QED
  BY <1>3, <1>4, <1>5 DEF P, A

-----------------------------------------------------------------------------
(* ElfMap: the steps *)

LEMMA MapInit == ElfInit => MapIInv
<1> SUFFICES ASSUME ElfInit PROVE MapIInv
  OBVIOUS
<1>1. MapTyped
  <2>1. Kernel \in Entries
    BY DEF Kernel, Entries
  <2> QED
    BY <2>1 DEF ElfInit, MapTyped
<1>2. InPlace
  <2> SUFFICES ASSUME NEW n \in DOMAIN segments, NEW p \in PagesOf(segments[n]), Reached(n, p)
               PROVE  FALSE
    BY DEF InPlace
  <2>1. n \in Nat /\ n >= 1 /\ segments[n] \in Segments
    BY <1>1, HeadersAre
  <2>2. p \in Nat /\ First(segments[n]) <= p /\ First(segments[n]) \in Nat
    BY <2>1, SegmentPages
  <2> QED
    BY <2>1, <2>2 DEF Reached, ElfInit
<1>3. FlatInPlace
  BY DEF FlatInPlace, ElfInit
<1>4. Inside
  BY DEF Inside, ElfInit, Kernel
<1>5. Complete
  BY DEF Complete, ElfInit
<1> QED
  BY <1>1, <1>2, <1>3, <1>4, <1>5 DEF MapIInv

\* A page of the image that is not behind the end of the file is the file's.
LEMMA FrameInside ==
  ASSUME MapTyped, NEW s \in Segments, NEW p \in First(s) .. LastPage(s),
         ~(s.offset + s.memsz > Upper(size))
  PROVE  PageOf(s.offset) + (p - First(s)) \in ImageFrames
<1> DEFINE f == PageOf(s.offset) + (p - First(s))
           P == PageSize
<1>1. /\ First(s) \in Nat /\ LastPage(s) \in Nat /\ PageOf(s.offset) \in Nat
      /\ PageOf(s.offset + s.memsz - 1) = PageOf(s.offset) + (LastPage(s) - First(s))
  BY SegmentPages
<1>2. s.offset \in Nat /\ s.memsz \in Nat \ {0} /\ size \in Nat /\ P \in Nat \ {0}
  BY ElfMapAssumption DEF MapTyped
<1>3. f \in Nat /\ f <= PageOf(s.offset + s.memsz - 1)
  BY <1>1
<1> HIDE DEF f, P
<1>4. PICK b \in Nat : b = s.offset + s.memsz - 1 /\ b < s.offset + s.memsz
  BY <1>2
<1>5. size # 0
  <2> SUFFICES ASSUME size = 0 PROVE FALSE
    OBVIOUS
  <2>1. 0 = P * 0 + 0 /\ 0 \in 0 .. P - 1
    BY <1>2
  <2>2. Upper(size) = 0
    BY <2>1, PageUnique DEF Upper, P
  <2> QED
    BY <1>2, <2>2
<1>6. PICK e \in Nat : e = size - 1
  BY <1>2, <1>5
<1>7. PICK q \in Nat : q = PageOf(e) /\ Upper(size) = P * (q + 1)
  <2>1. size \in Nat \ {0}
    BY <1>2, <1>5
  <2> QED
    BY <1>6, <2>1, PageIs, UpperIs DEF P
<1>8. PICK c \in Nat, m \in Nat : c = PageOf(b) /\ b = P * c + m
  BY PageIs DEF P
<1>9. c <= q
  <2> DEFINE x == P * c
             y == P * (q + 1)
  <2>1. x \in Nat /\ y \in Nat /\ (x < y <=> c < q + 1)
    BY <1>2, <1>7, <1>8, Factor
  <2>2. x <= b /\ b < y
    <3>1. s.offset + s.memsz <= y /\ b = x + m
      BY <1>2, <1>7, <1>8, <2>1
    <3> HIDE DEF x, y
    <3> QED
      BY <1>2, <1>4, <1>8, <2>1, <3>1
  <2> QED
    BY <2>1, <2>2
<1>10. f \in PageOf(0) .. PageOf(e)
  <2>1. PageOf(0) = 0
    <3>1. 0 = P * 0 + 0 /\ 0 \in 0 .. P - 1
      BY <1>2
    <3> QED
      BY <3>1, PageUnique DEF P
  <2> QED
    BY <1>3, <1>4, <1>7, <1>8, <1>9, <2>1
<1>11. {PageOf(a) : a \in 0 .. e} = PageOf(0) .. PageOf(e)
  BY PagesBetween
<1> QED
  BY <1>6, <1>10, <1>11 DEF ImageFrames, f

LEMMA MapPageStep ==
  ASSUME MapIInv, MapPage
  PROVE  MapIInv'
<1> DEFINE s == segments[header]
           v == First(s) + page
<1> USE DEF MapIInv
<1>1. /\ stage = "map" /\ More /\ header \in Nat /\ header >= 1 /\ page' = page + 1
      /\ UNCHANGED <<filetype, size, segments, stage, header>>
  BY DEF MapPage, MapTyped
<1>2. /\ s \in Segments /\ header \in DOMAIN segments /\ v <= LastPage(s)
      /\ table' = [table EXCEPT ![v] = [frame |-> PageOf(s.offset) + page, w |-> s.w]]
  <2>1. /\ RangeOf(s).from + page * PageSize < RangeOf(s).to
        /\ table' = [table EXCEPT ![PageOf(RangeOf(s).virt + page * PageSize)] =
                       [frame |-> PageOf(RangeOf(s).from) + page, w |-> s.w]]
    BY DEF MapPage, Put, Writable
  <2> QED
    BY <1>1, <2>1, MapPageIs
<1>3. /\ First(s) \in Nat /\ LastPage(s) \in Nat /\ PageOf(s.offset) \in Nat /\ page \in Nat
      /\ LastPage(s) < Pages /\ PagesOf(s) = First(s) .. LastPage(s) /\ s.w \in BOOLEAN
      /\ Pages \in Nat
  BY <1>2, SegmentPages, ElfMapAssumption DEF MapTyped
<1>4. v \in Nat /\ v \in DOMAIN table /\ v \in PagesOf(s) /\ v \in First(s) .. LastPage(s)
      /\ v - First(s) = page
  BY <1>2, <1>3 DEF MapTyped
<1> DEFINE entry == [frame |-> PageOf(s.offset) + page, w |-> s.w]
<1>5. entry \in Entries
  BY <1>3 DEF Entries
<1>6. MapTyped'
  BY <1>1, <1>2, <1>3, <1>5 DEF MapTyped
<1>7. table'[v] = entry /\ \A p \in DOMAIN table : p # v => table'[p] = table[p]
  BY <1>2, <1>4
<1>8. DOMAIN table' = DOMAIN table
  BY <1>2
<1> HIDE DEF entry, v
<1>9. ASSUME NEW n \in DOMAIN segments, NEW p \in PagesOf(segments[n]), Alone(n, p),
             n < header \/ (n = header /\ p < First(segments[n]) + page')
      PROVE  table'[p] = [frame |-> PageOf(segments[n].offset) + (p - First(segments[n])),
                          w |-> segments[n].w]
  <2>1. CASE p = v
    <3>1. n = header
      BY <1>2, <1>4, <1>9, <2>1 DEF Alone
    <3> QED
      BY <1>4, <1>7, <2>1, <3>1 DEF entry
  <2>2. CASE p # v
    <3>1. segments[n] \in Segments /\ n \in Nat
      BY HeadersAre
    <3>2. p \in Nat /\ p \in DOMAIN table
      <4>1. p \in First(segments[n]) .. LastPage(segments[n]) /\ First(segments[n]) \in Nat
            /\ LastPage(segments[n]) \in Nat /\ LastPage(segments[n]) < Pages
        BY <3>1, SegmentPages
      <4> QED
        BY <1>3, <4>1 DEF MapTyped
    <3>3. Reached(n, p)
      <4>1. n = header => p < First(segments[n]) + page
        <5> SUFFICES ASSUME n = header PROVE p < First(s) + page
          OBVIOUS
        <5>1. p < First(s) + (page + 1) /\ p # First(s) + page
          BY <1>1, <1>9, <2>2 DEF v
        <5> QED
          BY <1>3, <3>2, <5>1
      <4> QED
        BY <1>9, <4>1 DEF Reached
    <3> QED
      BY <1>7, <1>9, <2>2, <3>2, <3>3 DEF InPlace
  <2> QED
    BY <2>1, <2>2
<1>10. InPlace'
  BY <1>1, <1>9 DEF InPlace, Reached, First, PagesOf, PageOf, Alone
<1>11. filetype = "elf"
  BY <1>2, HeadersAre DEF MapTyped
<1>12. FlatInPlace'
  BY <1>1, <1>11 DEF FlatInPlace
<1>13. Inside'
  <2>1. Leaves(header) \/ ~s.w \/ PageOf(s.offset) + page \in ImageFrames
    BY <1>2, <1>4, FrameInside DEF Leaves
  <2>2. UNCHANGED OurFrames /\ \A n : Leaves(n)' <=> Leaves(n)
    BY <1>1 DEF OurFrames, ImageFrames, Leaves, Upper, Lower, PageOf, Stack
  <2>3. CASE \E n \in DOMAIN segments : Leaves(n)
    BY <1>1, <2>2, <2>3 DEF Inside
  <2>4. CASE ~\E n \in DOMAIN segments : Leaves(n)
    <3>1. ASSUME NEW p \in DOMAIN table, table'[p].w PROVE table'[p].frame \in OurFrames
      <4>1. CASE p = v
        BY <1>2, <1>7, <2>1, <2>4, <3>1, <4>1 DEF entry, OurFrames
      <4>2. CASE p # v
        BY <1>7, <2>4, <3>1, <4>2 DEF Inside
      <4> QED
        BY <4>1, <4>2
    <3> QED
      BY <1>8, <2>2, <3>1 DEF Inside
  <2> QED
    BY <2>3, <2>4
<1>14. Complete'
  BY <1>1 DEF Complete
<1> QED
  BY <1>6, <1>10, <1>12, <1>13, <1>14

LEMMA NextHeaderStep ==
  ASSUME MapIInv, NextHeader
  PROVE  MapIInv'
<1> DEFINE s == segments[header]
<1> USE DEF MapIInv
<1>1. /\ stage = "map" /\ More /\ header >= 1 /\ page' = 0 /\ header' = header + 1 /\ header \in Nat
      /\ UNCHANGED <<filetype, size, segments, stage, table>>
  BY DEF NextHeader, MapTyped
<1>2. s \in Segments /\ header \in DOMAIN segments /\ ~(First(s) + page <= LastPage(s))
  <2>1. RangeOf(s).from + page * PageSize >= RangeOf(s).to
    BY DEF NextHeader
  <2>2. s \in Segments /\ header \in DOMAIN segments
        /\ (RangeOf(s).from + page * PageSize < RangeOf(s).to <=> First(s) + page <= LastPage(s))
    BY <1>1, MapPageIs
  <2>3. RangeOf(s).from + page * PageSize \in Int /\ RangeOf(s).to \in Int
    <3>1. /\ PageSize \in Nat /\ page \in Nat /\ First(s) \in Nat /\ LastPage(s) \in Nat
          /\ PageOf(s.offset) \in Nat
          /\ RangeOf(s).from = PageSize * PageOf(s.offset)
          /\ RangeOf(s).to = PageSize * (PageOf(s.offset) + (LastPage(s) - First(s)) + 1)
      BY <2>2, SegmentPages, ElfMapAssumption DEF MapTyped
    <3> QED
      BY <3>1
  <2> QED
    BY <2>1, <2>2, <2>3
<1>3. MapTyped'
  BY <1>1 DEF MapTyped
<1>4. InPlace'
  <2>1. ASSUME NEW n \in DOMAIN segments, NEW p \in PagesOf(segments[n]), Alone(n, p),
               n < header' \/ (n = header' /\ p < First(segments[n]) + page')
        PROVE  table[p] = [frame |-> PageOf(segments[n].offset) + (p - First(segments[n])),
                           w |-> segments[n].w]
    <3>1. segments[n] \in Segments /\ n \in Nat
      BY HeadersAre
    <3>2. p \in First(segments[n]) .. LastPage(segments[n]) /\ First(segments[n]) \in Nat
          /\ LastPage(segments[n]) \in Nat /\ page \in Nat
      BY <3>1, SegmentPages DEF MapTyped
    <3>3. n < header'
      BY <1>1, <2>1, <3>2
    <3>4. Reached(n, p)
      BY <1>1, <1>2, <3>1, <3>2, <3>3 DEF Reached
    <3> QED
      BY <2>1, <3>4 DEF InPlace
  <2> QED
    BY <1>1, <2>1 DEF InPlace, Reached, First, PagesOf, PageOf, Alone
<1>5. FlatInPlace'
  <2>1. filetype = "elf"
    BY <1>2, HeadersAre DEF MapTyped
  <2> QED
    BY <1>1, <2>1 DEF FlatInPlace
<1>6. Inside'
  BY <1>1 DEF Inside, OurFrames, ImageFrames, Leaves, Upper, Lower, PageOf, Stack
<1>7. Complete'
  BY <1>1 DEF Complete
<1> QED
  BY <1>3, <1>4, <1>5, <1>6, <1>7

LEMMA MapBinaryStep ==
  ASSUME MapIInv, MapBinary
  PROVE  MapIInv'
<1> DEFINE A == PageOf(ProgramAt)
           entry == [frame |-> page, w |-> TRUE]
<1> USE DEF MapIInv
<1>1. /\ filetype = "bin" /\ page * PageSize < Upper(size) /\ page' = page + 1
      /\ stage = "map"
      /\ UNCHANGED <<filetype, size, segments, stage, header>>
  BY DEF MapBinary
<1>2. /\ table' = [table EXCEPT ![A + page] = entry]
      /\ size # 0 /\ page <= PageOf(size - 1) /\ A + page < Pages
  BY <1>1, MapBinaryIs DEF MapBinary, Put
<1>3. page \in Nat /\ A \in Nat /\ A + page \in DOMAIN table /\ Pages \in Nat /\ size \in Nat
  BY <1>2, StackBelow, ElfMapAssumption DEF MapTyped
<1>4. MapTyped'
  BY <1>1, <1>2, <1>3 DEF MapTyped, Entries
<1>5. InPlace'
  BY <1>1, HeadersAre DEF InPlace
<1>6. table'[A + page] = entry /\ \A p \in DOMAIN table : p # A + page => table'[p] = table[p]
  BY <1>2, <1>3
<1>7. FlatInPlace'
  <2>1. ASSUME NEW n \in 0 .. page' - 1 PROVE A + n \in DOMAIN table /\ table'[A + n] = [frame |-> n, w |-> TRUE]
    <3>1. CASE n = page
      BY <1>3, <1>6, <3>1
    <3>2. CASE n # page
      <4>1. n \in 0 .. page - 1 /\ A + n # A + page /\ A + n \in DOMAIN table
        BY <1>1, <1>2, <1>3, <3>2 DEF MapTyped
      <4>2. table[A + n] = [frame |-> n, w |-> TRUE]
        BY <1>1, <4>1 DEF FlatInPlace
      <4> QED
        BY <1>6, <4>1, <4>2
    <3> QED
      BY <3>1, <3>2
  <2> QED
    BY <1>2, <2>1 DEF FlatInPlace, PageOf
<1>8. Inside'
  <2>1. page \in ImageFrames
    <3>1. PICK e \in Nat : e = size - 1
      BY <1>2, <1>3
    <3>2. {PageOf(a) : a \in 0 .. e} = PageOf(0) .. PageOf(e)
      BY <3>1, PagesBetween
    <3>3. PageOf(0) = 0 /\ PageOf(e) \in Nat
      <4>1. PageSize \in Nat \ {0} /\ 0 = PageSize * 0 + 0 /\ 0 \in 0 .. PageSize - 1
        BY ElfMapAssumption
      <4> QED
        BY <4>1, PageUnique, PageIs
    <3>4. page \in PageOf(0) .. PageOf(e)
      BY <1>2, <1>3, <3>1, <3>3
    <3> QED
      BY <3>1, <3>2, <3>4 DEF ImageFrames
  <2>2. UNCHANGED OurFrames
    BY <1>1 DEF OurFrames, ImageFrames, PageOf, Stack
  <2>3. DOMAIN table' = DOMAIN table
    BY <1>2
  <2>4. \A p \in DOMAIN table : table[p].w => table[p].frame \in OurFrames
    BY <1>1, HeadersAre DEF Inside
  <2>5. ASSUME NEW p \in DOMAIN table, table'[p].w PROVE table'[p].frame \in OurFrames
    <3>1. CASE p = A + page
      BY <1>6, <2>1, <3>1 DEF OurFrames
    <3>2. CASE p # A + page
      BY <1>6, <2>4, <2>5, <3>2
    <3> QED
      BY <3>1, <3>2
  <2> QED
    BY <2>2, <2>3, <2>5 DEF Inside
<1>9. Complete'
  BY <1>1 DEF Complete
<1> QED
  BY <1>4, <1>5, <1>7, <1>8, <1>9

LEMMA MapStackStep ==
  ASSUME MapIInv, MapStack
  PROVE  MapIInv'
<1> DEFINE S == PageOf(StackAt)
           A == PageOf(ProgramAt)
<1> USE DEF MapIInv
<1>1. /\ Mapped /\ stage' = "run"
      /\ UNCHANGED <<filetype, size, segments, header, page>>
  BY DEF MapStack
<1>2. /\ S \in Nat /\ A \in Nat /\ StackPages \in Nat /\ S + StackPages <= A /\ Pages \in Nat
  BY StackBelow, ElfMapAssumption
<1>3. \A p \in DOMAIN table : p \in Nat /\ p \in 0 .. Pages - 1
  BY <1>2 DEF MapTyped
<1>4. /\ DOMAIN table' = DOMAIN table
      /\ \A p \in DOMAIN table :
           table'[p] = IF p - S \in 0 .. StackPages - 1 THEN [frame |-> Stack(p - S), w |-> TRUE]
                                                      ELSE table[p]
  BY DEF MapStack
<1> HIDE DEF S, A
<1>5. \A p \in DOMAIN table : p >= A => table'[p] = table[p]
  <2> TAKE p \in DOMAIN table
  <2> HAVE p >= A
  <2>1. p - S \notin 0 .. StackPages - 1
    BY <1>2, <1>3
  <2> QED
    BY <1>4, <2>1
<1>6. MapTyped'
  <2>1. \A p \in DOMAIN table : table'[p] \in Entries
    <3> TAKE p \in DOMAIN table
    <3>1. table[p] \in Entries
      BY DEF MapTyped
    <3>2. Stack(p - S) \in Int
      BY <1>2, <1>3 DEF Stack
    <3>3. [frame |-> Stack(p - S), w |-> TRUE] \in Entries
      BY <3>2 DEF Entries
    <3> QED
      BY <1>4, <3>1, <3>3
  <2>2. table' = [p \in DOMAIN table |-> table'[p]]
    BY DEF MapStack
  <2>3. table' \in [0 .. Pages - 1 -> Entries]
    BY <2>1, <2>2 DEF MapTyped
  <2> QED
    BY <1>1, <2>3 DEF MapTyped
<1>7. InPlace'
  <2>1. ASSUME NEW n \in DOMAIN segments, NEW p \in PagesOf(segments[n]), Alone(n, p), Reached(n, p)
        PROVE  table'[p] = [frame |-> PageOf(segments[n].offset) + (p - First(segments[n])),
                            w |-> segments[n].w]
    <3>1. segments[n] \in Segments
      BY HeadersAre
    <3>2. p \in DOMAIN table /\ p >= A
      BY <1>2, <3>1, SegmentPages DEF A, MapTyped
    <3> QED
      BY <1>5, <2>1, <3>2 DEF InPlace
  <2> QED
    BY <1>1, <2>1 DEF InPlace, Reached, First, PagesOf, PageOf, Alone
<1>8. FlatInPlace'
  <2> SUFFICES ASSUME filetype = "bin", NEW n \in 0 .. page - 1
               PROVE  A + n \in DOMAIN table /\ table'[A + n] = [frame |-> n, w |-> TRUE]
    BY <1>1, <1>4 DEF FlatInPlace, A, PageOf
  <2>1. A + n \in DOMAIN table /\ table[A + n] = [frame |-> n, w |-> TRUE]
    BY DEF FlatInPlace, A
  <2>2. A + n >= A
    BY <1>2
  <2> QED
    BY <1>5, <2>1, <2>2
<1>9. Inside'
  <2>1. UNCHANGED OurFrames /\ \A n : Leaves(n)' <=> Leaves(n)
    BY <1>1 DEF OurFrames, ImageFrames, Leaves, Upper, Lower, PageOf, Stack
  <2>2. ASSUME NEW p \in DOMAIN table, table'[p].w, \A q \in DOMAIN table : table[q].w => table[q].frame \in OurFrames
        PROVE table'[p].frame \in OurFrames
    <3>1. CASE p - S \in 0 .. StackPages - 1
      BY <1>4, <3>1 DEF OurFrames
    <3>2. CASE p - S \notin 0 .. StackPages - 1
      BY <1>4, <2>2, <3>2
    <3> QED
      BY <3>1, <3>2
  <2> QED
    BY <1>1, <1>4, <2>1, <2>2 DEF Inside
<1>10. Complete'
  BY <1>1 DEF Complete, Mapped, More, Upper, Lower
<1> QED
  BY <1>6, <1>7, <1>8, <1>9, <1>10

LEMMA MapStep == MapIInv /\ [ElfNext]_elfVars => MapIInv'
<1> SUFFICES ASSUME MapIInv, [ElfNext]_elfVars PROVE MapIInv'
  OBVIOUS
<1>1. CASE UNCHANGED elfVars
  BY <1>1 DEF elfVars, MapIInv, MapTyped, InPlace, FlatInPlace, Inside, Complete, Reached, First,
              PagesOf, PageOf, Alone, OurFrames, ImageFrames, Leaves, Upper, Lower, Stack, Mapped, More
<1>2. CASE Run
  BY <1>1, <1>2 DEF Run
<1> QED
  BY <1>1, <1>2, MapPageStep, NextHeaderStep, MapBinaryStep, MapStackStep DEF ElfNext

\* A byte of a segment is as far behind the byte at its first address as in the file.
LEMMA ByteIsThere ==
  ASSUME MapTyped, NEW s \in Segments, NEW b \in 0 .. s.filesz - 1,
         table[PageOf(s.vaddr + b)].frame = PageOf(s.offset) + (PageOf(s.vaddr + b) - First(s))
  PROVE  FileByteAt(s.vaddr + b) = s.offset + b
<1> DEFINE v == s.vaddr
           o == s.offset
           P == PageSize
           p == PageOf(v + b)
           t == (v + b) % PageSize
           F == PageOf(v)
           O == PageOf(o)
           m == v % PageSize
<1>1. v \in Nat /\ o \in Nat /\ b \in Nat /\ v + b \in Nat /\ m = o % P /\ P \in Nat \ {0}
  <2>1. s \in [offset : Nat, vaddr : Nat, filesz : Nat, memsz : Nat \ {0}, w : BOOLEAN]
        /\ s.vaddr % PageSize = s.offset % PageSize /\ PageSize \in Nat \ {0}
    BY ElfMapAssumption
  <2> QED
    BY <2>1
<1>2. table[p].frame = O + (p - F) /\ FileByteAt(v + b) = table[p].frame * P + t
  BY DEF First, FileByteAt
<1> HIDE DEF v, o
<1>3. /\ p \in Nat /\ F \in Nat /\ O \in Nat
      /\ v + b = P * p + t /\ v = P * F + m /\ o = P * O + m
      /\ t \in Nat /\ m \in Nat
  <2>1. \A a \in Nat : PageOf(a) \in Nat /\ a % P \in Nat /\ a = P * PageOf(a) + (a % P)
    <3> TAKE a \in Nat
    <3>1. a % P \in 0 .. P - 1
      BY PageIs
    <3> QED
      BY <1>1, <3>1, PageIs
  <2> QED
    BY <1>1, <2>1
<1> HIDE DEF P, p, t, F, O, m
<1>4. (O + (p - F)) * P = P * O + (P * p - P * F) /\ P * O \in Int /\ P * p \in Int /\ P * F \in Int
  <2>1. P * (O + (p - F)) = P * O + P * (p - F) /\ P * (p - F) = P * p - P * F
    <3>1. p - F \in Int
      BY <1>3
    <3> QED
      BY <1>1, <1>3, <3>1, Factor
  <2>2. (O + (p - F)) * P = P * (O + (p - F))
    BY <1>1, <1>3
  <2> QED
    BY <1>1, <1>3, <2>1, <2>2
<1>5. (O + (p - F)) * P + t = o + b
  <2> DEFINE x == P * O
             y == P * p
             z == P * F
             a == (O + (p - F)) * P
  <2>1. /\ a = x + (y - z) /\ x \in Int /\ y \in Int /\ z \in Int
        /\ v + b = y + t /\ v = z + m /\ o = x + m /\ t \in Nat /\ m \in Nat /\ b \in Nat
    BY <1>1, <1>3, <1>4
  <2> HIDE DEF x, y, z, a
  <2>2. a + t = o + b
    BY <2>1
  <2> QED
    BY <2>2 DEF a
<1>6. FileByteAt(v + b) = o + b
  BY <1>2, <1>5
<1> QED
  BY <1>6 DEF v, o

\* Nor is a flat file moved within its pages.
LEMMA FlatByteIsThere ==
  ASSUME NEW b \in Nat, table[PageOf(ProgramAt) + PageOf(b)].frame = PageOf(b)
  PROVE  FileByteAt(ProgramAt + b) = b
<1> DEFINE P == PageSize
           A == PageOf(ProgramAt)
           p == PageOf(b)
           t == b % PageSize
<1>1. /\ P \in Nat \ {0} /\ A \in Nat /\ p \in Nat /\ t \in 0 .. P - 1
      /\ ProgramAt = P * A /\ b = P * p + t /\ ProgramAt \in Nat
  BY StackBelow, PageIs, ElfMapAssumption
<1> HIDE DEF P, A, p, t
<1>2. P * (A + p) = P * A + P * p /\ P * A \in Int /\ P * p \in Int /\ p * P = P * p
  BY <1>1
<1>3. ProgramAt + b = P * (A + p) + t
  <2> DEFINE x == P * A
             y == P * p
             a == P * (A + p)
  <2>1. a = x + y /\ x \in Int /\ y \in Int /\ ProgramAt = x /\ b = y + t /\ t \in Int
    BY <1>1, <1>2
  <2> HIDE DEF x, y, a
  <2>2. ProgramAt + b = a + t
    BY <2>1
  <2> QED
    BY <2>2 DEF a
<1>4. PICK c \in Nat : c = ProgramAt + b
  BY <1>1
<1>5. PageOf(c) = A + p /\ c % P = t
  <2>1. A + p \in Int
    BY <1>1
  <2> QED
    BY <1>1, <1>3, <1>4, <2>1, PageUnique DEF P
<1>6. FileByteAt(c) = p * P + t
  BY <1>5 DEF FileByteAt, A, p, P
<1> QED
  BY <1>1, <1>2, <1>4, <1>6

-----------------------------------------------------------------------------
(* ElfMap: the theorems *)

\* For every file, every page size and every number of headers, in any order, the
\* invariant holds.
THEOREM MapInvariant == ElfSpec => []MapIInv
<1> QED
  BY MapInit, MapStep, PTL DEF ElfSpec

\* A program finds every byte of its file where its headers say, and its pages as
\* writable as they say.
THEOREM BytesAreInPlace == ElfSpec => []FileBytesInPlace
<1>1. MapIInv => FileBytesInPlace
  <2> SUFFICES ASSUME MapIInv, stage = "run" PROVE FileBytesInPlace
    BY DEF FileBytesInPlace
  <2> USE DEF MapIInv
  <2>1. Mapped
    BY DEF Complete
  <2>2. ASSUME NEW n \in DOMAIN segments, NEW p \in PagesOf(segments[n]), Alone(n, p)
        PROVE  table[p] = [frame |-> PageOf(segments[n].offset) + (p - First(segments[n])),
                           w |-> segments[n].w]
    <3>1. filetype = "elf"
      BY HeadersAre DEF MapTyped
    <3>2. n < header
      <4>1. ~(header <= Len(segments))
        BY <2>1, <3>1 DEF Mapped, More
      <4>2. n \in 1 .. Len(segments) /\ Len(segments) \in Nat /\ header \in Nat
        BY HeadersAre DEF MapTyped
      <4> QED
        BY <4>1, <4>2
    <3> QED
      BY <2>2, <3>2 DEF InPlace, Reached
  <2>3. ASSUME NEW n \in DOMAIN segments, NEW b \in 0 .. segments[n].filesz - 1,
               Alone(n, PageOf(segments[n].vaddr + b))
        PROVE  FileByteAt(segments[n].vaddr + b) = segments[n].offset + b
    <3> DEFINE s == segments[n]
    <3>1. s \in Segments
      BY HeadersAre
    <3>2. PageOf(s.vaddr + b) \in PagesOf(s)
      <4>1. s \in [offset : Nat, vaddr : Nat, filesz : Nat, memsz : Nat \ {0}, w : BOOLEAN]
            /\ s.filesz <= s.memsz
        BY <3>1, ElfMapAssumption
      <4>2. s.vaddr + b \in s.vaddr .. s.vaddr + s.memsz - 1
        BY <4>1
      <4> QED
        BY <4>2 DEF PagesOf
    <3>3. table[PageOf(s.vaddr + b)].frame = PageOf(s.offset) + (PageOf(s.vaddr + b) - First(s))
      <4>1. PICK p \in PagesOf(s) : p = PageOf(s.vaddr + b)
        BY <3>2
      <4>2. table[p] = [frame |-> PageOf(s.offset) + (p - First(s)), w |-> s.w]
        BY <2>2, <2>3, <4>1
      <4>3. table[p].frame = PageOf(s.offset) + (p - First(s))
        BY <4>2
      <4> QED
        BY <4>1, <4>3
    <3> QED
      BY <3>1, <3>3, ByteIsThere
  <2>4. ASSUME NEW n \in DOMAIN segments, NEW p \in PagesOf(segments[n]), Alone(n, p)
        PROVE  table[p].w = segments[n].w
    <3>1. table[p] = [frame |-> PageOf(segments[n].offset) + (p - First(segments[n])),
                      w |-> segments[n].w]
      BY <2>2, <2>4
    <3> QED
      BY <3>1
  <2>5. ASSUME filetype = "bin", NEW b \in 0 .. size - 1 PROVE FileByteAt(ProgramAt + b) = b
    <3>1. b \in Nat /\ b <= size - 1 /\ size \in Nat /\ size # 0 /\ size - 1 \in Nat
      BY ElfMapAssumption DEF MapTyped
    <3>2. PageOf(b) \in Nat /\ PageOf(size - 1) \in Nat /\ PageOf(b) <= PageOf(size - 1)
      BY <3>1, PageIs, PageMonotone
    <3>3. ~(page <= PageOf(size - 1))
      <4>1. page * PageSize >= Upper(size)
        BY <2>1, <2>5 DEF Mapped
      <4>2. page * PageSize \in Int /\ Upper(size) \in Int
        <5>1. PageSize \in Nat \ {0} /\ page \in Nat
          BY ElfMapAssumption DEF MapTyped
        <5>2. Upper(size) = PageSize * (PageOf(size - 1) + 1)
          BY <3>1, UpperIs
        <5> QED
          BY <3>2, <5>1, <5>2
      <4>3. ~(page * PageSize < Upper(size))
        BY <4>1, <4>2
      <4> QED
        BY <3>1, <4>3, MapBinaryIs
    <3>4. PageOf(b) \in 0 .. page - 1
      BY <3>2, <3>3 DEF MapTyped
    <3>5. table[PageOf(ProgramAt) + PageOf(b)].frame = PageOf(b)
      <4>1. table[PageOf(ProgramAt) + PageOf(b)] = [frame |-> PageOf(b), w |-> TRUE]
        BY <2>5, <3>4 DEF FlatInPlace
      <4> QED
        BY <4>1
    <3> QED
      BY <3>1, <3>5, FlatByteIsThere
  <2> QED
    BY <2>3, <2>4, <2>5 DEF FileBytesInPlace
<1> QED
  BY <1>1, MapInvariant, PTL

\* A program can write to its file's memory and its stack only, unless a segment
\* that it may write reaches past the last page of the file.
THEOREM WritesAreInside == ElfSpec => []WritesStayInside
<1>1. MapIInv => WritesStayInside
  BY DEF MapIInv, Inside, OurFrames, Leaves, WritesStayInside
<1> QED
  BY <1>1, MapInvariant, PTL
=============================================================================
