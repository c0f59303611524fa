---------------------------- MODULE ProcessProofs ----------------------------
(***************************************************************************)
(* Proofs about processes and tasks, for every number of process slots     *)
(* and every keyboard.                                                     *)
(***************************************************************************)
EXTENDS Process, FiniteSetTheorems, TLAPS

(* The inductive invariant *)

TaskList == [next : [Slots -> Pointer], prev : [Slots -> Pointer],
             head : Pointer, tail : Pointer, current : Pointer]

\* Before the shell there is no process and no task.
Empty == /\ processes = {} /\ tasks.head = NULL

\* The slots are taken in order: loads fail when the table is full, since the
\* slot that is then tried is a taken one.  Until a start goes astray, the task
\* that runs belongs to the current process.
IInv == /\ TypeOK
        /\ mode = "boot" => Empty /\ strayed = FALSE
        /\ mode = "user" => Loaded > 0 /\ Loaded \in Nat
        /\ ListMatchesTable
        /\ mode = "user" /\ ~strayed => tasks.current = current_process

-----------------------------------------------------------------------------
(* The free slot and the task list *)

\* As long as there is room the slots are taken in order; a full table names a
\* slot that is taken.
LEMMA FreeSlotIsNext ==
  ASSUME NEW n \in Nat, processes = 0 .. n - 1, processes \subseteq Slots
  PROVE  /\ process_get_free_slot \in Slots
         /\ process_get_free_slot \notin processes => process_get_free_slot = n
<1> USE ProcessAssumption DEF ProcessAssumption
<1>1. CASE processes = Slots
  BY <1>1 DEF process_get_free_slot
<1>2. CASE processes # Slots
  <2>1. n < MaxProcesses
    BY <1>2 DEF Slots
  <2>2. n \in Slots \ processes /\ \A y \in Slots \ processes : n <= y
    BY <2>1 DEF Slots
  <2>3. Min(Slots \ processes) = n
    <3>1. \A x \in Slots \ processes :
            (\A y \in Slots \ processes : x <= y) => x = n
      BY <2>2 DEF Slots
    <3>2. \E x \in Slots \ processes : \A y \in Slots \ processes : x <= y
      BY <2>2
    <3> QED
      BY <3>1, <3>2 DEF Min
  <2> QED
    BY <1>2, <2>2, <2>3 DEF process_get_free_slot
<1> QED
  BY <1>1, <1>2

\* How many slots an initial stretch of the table has.
LEMMA Stretch ==
  ASSUME NEW n \in Nat PROVE Cardinality(0 .. n - 1) = n
BY FS_Interval

\* The first task is the head, the tail and the current one.
LEMMA FirstTask ==
  ASSUME NEW L \in TaskList, L.head = NULL, NEW s \in Slots,
         NEW left \in {NULL, Garbage}, NEW right \in {NULL, Garbage}
  PROVE  /\ task_new(L, s, left, right) \in TaskList
         /\ task_new(L, s, left, right).head = s
         /\ task_new(L, s, left, right).tail = s
         /\ task_new(L, s, left, right).current = s
<1> DEFINE fresh == [L EXCEPT !.prev[s] = left, !.next[s] = right]
<1>1. fresh \in TaskList
  BY DEF TaskList, Pointer
<1>2. task_new(L, s, left, right) = [fresh EXCEPT !.head = s, !.tail = s, !.current = s]
  BY DEF task_new
<1> HIDE DEF fresh
<1> QED
  BY <1>1, <1>2 DEF TaskList, Pointer

\* A later task is linked behind the tail; what its own links were read as does
\* not reach the other tasks.
LEMMA LaterTask ==
  ASSUME NEW L \in TaskList, L.head # NULL, NEW s \in Slots, L.tail \in Slots \ {s},
         NEW left \in {NULL, Garbage}, NEW right \in {NULL, Garbage},
         NEW M, M = task_new(L, s, left, right)
  PROVE  /\ M \in TaskList
         /\ M.head = L.head /\ M.current = L.current /\ M.tail = s
         /\ M.next[s] = right /\ M.next[L.tail] = s /\ M.prev[s] = L.tail
         /\ \A t \in Slots \ {s, L.tail} : M.next[t] = L.next[t]
         /\ \A t \in Slots \ {s} : M.prev[t] = L.prev[t]
<1> DEFINE fresh == [L EXCEPT !.prev[s] = left, !.next[s] = right]
<1>1. /\ fresh \in TaskList
      /\ fresh.head = L.head /\ fresh.current = L.current /\ fresh.tail = L.tail
      /\ fresh.next = [L.next EXCEPT ![s] = right]
      /\ fresh.prev = [L.prev EXCEPT ![s] = left]
  BY DEF TaskList, Pointer
<1>2. M = [fresh EXCEPT !.next[L.tail] = s, !.prev[s] = L.tail, !.tail = s]
  BY DEF task_new
<1> HIDE DEF fresh
<1>3. /\ M \in TaskList
      /\ M.head = fresh.head /\ M.current = fresh.current /\ M.tail = s
      /\ M.next = [fresh.next EXCEPT ![L.tail] = s]
      /\ M.prev = [fresh.prev EXCEPT ![s] = L.tail]
  <2>1. M = [next |-> [fresh.next EXCEPT ![L.tail] = s],
             prev |-> [fresh.prev EXCEPT ![s] = L.tail],
             head |-> fresh.head, tail |-> s, current |-> fresh.current]
    BY <1>1, <1>2 DEF TaskList
  <2>2. [fresh.next EXCEPT ![L.tail] = s] \in [Slots -> Pointer]
    BY <1>1 DEF TaskList, Pointer
  <2>3. [fresh.prev EXCEPT ![s] = L.tail] \in [Slots -> Pointer]
    BY <1>1 DEF TaskList, Pointer
  <2>4. fresh.head \in Pointer /\ fresh.current \in Pointer /\ s \in Pointer
    BY <1>1 DEF TaskList, Pointer
  <2> QED
    BY <2>1, <2>2, <2>3, <2>4 DEF TaskList
<1>4. /\ M.next[s] = right /\ M.next[L.tail] = s
      /\ \A t \in Slots \ {s, L.tail} : M.next[t] = L.next[t]
  BY <1>1, <1>3 DEF TaskList
<1>5. /\ M.prev[s] = L.tail
      /\ \A t \in Slots \ {s} : M.prev[t] = L.prev[t]
  BY <1>1, <1>3 DEF TaskList
<1> QED
  BY <1>1, <1>3, <1>4, <1>5

\* Unlinking the newest task restores the tail and every link of the others.
LEMMA RemoveNewest ==
  ASSUME NEW L \in TaskList, L.head \in Slots, NEW s \in Slots, L.tail \in Slots \ {s},
         L.head # s, L.current # s,
         NEW left \in {NULL, Garbage}, NEW right \in {NULL, Garbage},
         NEW M, M = task_new(L, s, left, right), Garbage \notin {M.prev[s], M.next[s]}
  PROVE  /\ task_list_remove(M, s) \in TaskList
         /\ task_list_remove(M, s).head = L.head
         /\ task_list_remove(M, s).tail = L.tail
         /\ task_list_remove(M, s).current = L.current
         /\ \A t \in Slots \ {s, L.tail} : task_list_remove(M, s).next[t] = L.next[t]
         /\ \A t \in Slots \ {s} : task_list_remove(M, s).prev[t] = L.prev[t]
<1> USE ProcessAssumption DEF ProcessAssumption
<1>0. L.head # NULL
  OBVIOUS
<1>1. /\ M \in TaskList
      /\ M.head = L.head /\ M.current = L.current /\ M.tail = s
      /\ M.next[s] = right /\ M.prev[s] = L.tail
      /\ \A t \in Slots \ {s, L.tail} : M.next[t] = L.next[t]
      /\ \A t \in Slots \ {s} : M.prev[t] = L.prev[t]
  BY <1>0, LaterTask
<1>2. M.next[s] = NULL
  BY <1>1
<1> DEFINE U == Unlink(M, s)
<1>3. task_list_remove(M, s) = U
  BY <1>1 DEF task_list_remove
<1>4. /\ U \in TaskList
      /\ U.head = M.head /\ U.tail = L.tail /\ U.current = M.current
      /\ U.next = [t \in Slots |-> IF t = L.tail THEN NULL ELSE M.next[t]]
      /\ U.prev = [t \in Slots |-> M.prev[t]]
  <2>1. /\ [t \in Slots |-> IF t = M.prev[s] THEN M.next[s] ELSE M.next[t]]
             = [t \in Slots |-> IF t = L.tail THEN NULL ELSE M.next[t]]
        /\ [t \in Slots |-> IF t = M.next[s] THEN M.prev[s] ELSE M.prev[t]]
             = [t \in Slots |-> M.prev[t]]
    BY <1>1, <1>2
  <2>2. /\ (IF s = M.head THEN M.next[s] ELSE M.head) = M.head
        /\ (IF s = M.tail THEN M.prev[s] ELSE M.tail) = L.tail
    BY <1>1
  <2>3. U = [M EXCEPT
               !.next = [t \in Slots |-> IF t = L.tail THEN NULL ELSE M.next[t]],
               !.prev = [t \in Slots |-> M.prev[t]],
               !.head = M.head, !.tail = L.tail]
    BY <2>1, <2>2, Zenon DEF Unlink
  <2>4. M.head \in Pointer /\ M.current \in Pointer /\ L.tail \in Pointer
    BY <1>1 DEF TaskList, Pointer
  <2>5. [t \in Slots |-> IF t = L.tail THEN NULL ELSE M.next[t]] \in [Slots -> Pointer]
    BY <1>1 DEF TaskList, Pointer
  <2>6. [t \in Slots |-> M.prev[t]] \in [Slots -> Pointer]
    BY <1>1 DEF TaskList
  <2> HIDE DEF U
  <2> QED
    BY <1>1, <2>3, <2>4, <2>5, <2>6 DEF TaskList
<1> HIDE DEF U
<1> QED
  BY <1>1, <1>3, <1>4

-----------------------------------------------------------------------------
(* Every step preserves the invariant *)

\* What the invariant says of the table and the list while programs run.
LEMMA UserFacts ==
  ASSUME IInv, mode = "user"
  PROVE  /\ Loaded \in Nat \ {0} /\ processes = 0 .. Loaded - 1
         /\ processes \subseteq Slots /\ tasks \in TaskList
         /\ tasks.head = 0 /\ tasks.tail = Loaded - 1
         /\ 0 \in Slots /\ Loaded - 1 \in Slots
         /\ \A s \in 0 .. Loaded - 2 : tasks.next[s] = s + 1 /\ tasks.prev[s + 1] = s
         /\ tasks.current \in processes /\ current_process \in processes
<1>1. /\ Loaded \in Nat \ {0} /\ processes = 0 .. Loaded - 1
      /\ processes \subseteq Slots /\ tasks \in TaskList
  <2>1. processes \subseteq Slots /\ tasks \in TaskList
    BY DEF IInv, TypeOK, TaskList
  <2>2. Loaded \in Nat \ {0} /\ processes = 0 .. Loaded - 1
    BY DEF IInv, ListMatchesTable
  <2> QED
    BY <2>1, <2>2
<1>2. 0 \in processes /\ Loaded - 1 \in processes
  BY <1>1
<1> QED
  BY <1>1, <1>2 DEF IInv, ListMatchesTable

\* A load that succeeds takes the next slot and puts its task behind the others.
LEMMA LoadAppends ==
  ASSUME IInv, mode = "user", NEW s, s = process_get_free_slot,
         NEW left \in {NULL, Garbage}, NEW right \in {NULL, Garbage}, NEW M,
         M = task_new(tasks, s, left, right), NEW list \in {M, [M EXCEPT !.current = s]},
         Load(s, list), mode' = "user"
  PROVE  /\ Loaded' > 0 /\ Loaded' \in Nat /\ processes' \subseteq Slots
         /\ tasks' \in TaskList /\ s \in Slots /\ current_process' = s
         /\ ListMatchesTable'
<1> USE ProcessAssumption DEF ProcessAssumption
<1>1. /\ Loaded \in Nat \ {0} /\ processes = 0 .. Loaded - 1
      /\ processes \subseteq Slots /\ tasks \in TaskList
      /\ tasks.head = 0 /\ tasks.tail = Loaded - 1
      /\ 0 \in Slots /\ Loaded - 1 \in Slots
      /\ \A t \in 0 .. Loaded - 2 : tasks.next[t] = t + 1 /\ tasks.prev[t + 1] = t
      /\ tasks.current \in processes
  BY UserFacts
<1> DEFINE n == Loaded
<1> HIDE DEF n
<1>2. s \in Slots /\ s = n
  BY <1>1, FreeSlotIsNext DEF Load, n
<1>3. processes' = 0 .. n /\ current_process' = s /\ tasks' = list
  BY <1>1, <1>2 DEF Load, n
<1>4. Loaded' = n + 1
  <2>1. n + 1 \in Nat /\ 0 .. n = 0 .. (n + 1) - 1
    BY <1>1 DEF n
  <2>2. Cardinality(0 .. n) = n + 1
    BY <2>1, Stretch
  <2> QED
    BY <1>3, <2>2 DEF Loaded
<1>5. tasks.tail \in Slots \ {s} /\ tasks.head # NULL
  BY <1>1, <1>2 DEF n
<1>6. /\ M \in TaskList
      /\ M.head = tasks.head /\ M.current = tasks.current /\ M.tail = s
      /\ M.next[tasks.tail] = s /\ M.prev[s] = tasks.tail
      /\ \A t \in Slots \ {s, tasks.tail} : M.next[t] = tasks.next[t]
      /\ \A t \in Slots \ {s} : M.prev[t] = tasks.prev[t]
  BY <1>1, <1>2, <1>5, LaterTask
<1>65. M.head = 0 /\ M.tail = n /\ M.current \in 0 .. n
  BY <1>1, <1>2, <1>6 DEF n
<1>7. /\ list \in TaskList
      /\ list.head = 0 /\ list.tail = n /\ list.current \in 0 .. n
      /\ list.next = M.next /\ list.prev = M.prev
  <2>1. CASE list = M
    BY <1>6, <1>65, <2>1
  <2>2. CASE list = [M EXCEPT !.current = s]
    BY <1>1, <1>2, <1>6, <2>2 DEF TaskList, Pointer, n
  <2> QED
    BY <2>1, <2>2
<1>8. \A t \in 0 .. n - 1 : list.next[t] = t + 1 /\ list.prev[t + 1] = t
  <2> SUFFICES ASSUME NEW t \in 0 .. n - 1
               PROVE  M.next[t] = t + 1 /\ M.prev[t + 1] = t
    BY <1>7
  <2>1. CASE t = n - 1
    BY <1>1, <1>2, <1>6, <2>1 DEF n
  <2>2. CASE t # n - 1
    <3>1. t \in 0 .. n - 2 /\ t \in Slots \ {s, tasks.tail} /\ t + 1 \in Slots \ {s}
      BY <1>1, <1>2, <2>2 DEF Slots, n
    <3> QED
      BY <1>1, <1>6, <3>1 DEF n
  <2> QED
    BY <2>1, <2>2
<1>9. ListMatchesTable'
  BY <1>1, <1>2, <1>3, <1>4, <1>7, <1>8 DEF ListMatchesTable, n
<1> QED
  BY <1>1, <1>2, <1>3, <1>4, <1>7, <1>9 DEF n

\* A load that fails leaves the table, and all of the list that is in use.
LEMMA FailureKeeps ==
  ASSUME IInv, mode = "user", StartFails, mode' = "user"
  PROVE  /\ UNCHANGED <<processes, current_process, strayed>>
         /\ tasks' \in TaskList
         /\ tasks'.head = tasks.head /\ tasks'.tail = tasks.tail
         /\ tasks'.current = tasks.current
         /\ ListMatchesTable'
<1> USE ProcessAssumption DEF ProcessAssumption
<1> DEFINE s == process_get_free_slot
           n == Loaded
<1>1. /\ n \in Nat \ {0} /\ processes = 0 .. n - 1
      /\ processes \subseteq Slots /\ tasks \in TaskList
      /\ tasks.head = 0 /\ tasks.tail = n - 1
      /\ 0 \in Slots /\ n - 1 \in Slots
      /\ \A t \in 0 .. n - 2 : tasks.next[t] = t + 1 /\ tasks.prev[t + 1] = t
      /\ tasks.current \in processes /\ current_process \in processes
  BY UserFacts
<1>2. UNCHANGED <<processes, current_process, strayed>> /\ n' = n
  BY DEF StartFails, LoadFails, Failed, Loaded
<1> HIDE DEF s, n
<1>3. CASE UNCHANGED tasks
  <2>1. ListMatchesTable'
    BY <1>2, <1>3 DEF IInv, ListMatchesTable, n
  <2> QED
    BY <1>1, <1>2, <1>3, <2>1
<1>4. CASE ~UNCHANGED tasks
  <2>1. PICK left \in {NULL, Garbage}, right \in {NULL, Garbage} :
          LET L == task_new(tasks, s, left, right) IN
            /\ s \notin processes
            /\ Garbage \notin {L.prev[s], L.next[s]}
            /\ tasks' = task_list_remove(L, s)
    BY <1>4 DEF StartFails, LoadFails, s
  <2>2. s \in Slots \ processes
    BY <1>1, <2>1, FreeSlotIsNext DEF s
  <2>3. s = n
    BY <1>1, <2>1, FreeSlotIsNext DEF s
  <2>4. /\ tasks.head \in Slots /\ tasks.head # s /\ tasks.current # s
        /\ tasks.tail \in Slots \ {s}
    BY <1>1, <2>2, <2>3
  <2>5. /\ tasks' \in TaskList
        /\ tasks'.head = tasks.head /\ tasks'.tail = tasks.tail
        /\ tasks'.current = tasks.current
        /\ \A t \in Slots \ {s, tasks.tail} : tasks'.next[t] = tasks.next[t]
        /\ \A t \in Slots \ {s} : tasks'.prev[t] = tasks.prev[t]
    BY <1>1, <2>1, <2>2, <2>4, RemoveNewest
  <2>6. \A t \in 0 .. n - 2 : tasks'.next[t] = t + 1 /\ tasks'.prev[t + 1] = t
    <3> SUFFICES ASSUME NEW t \in 0 .. n - 2
                 PROVE  tasks'.next[t] = t + 1 /\ tasks'.prev[t + 1] = t
      OBVIOUS
    <3>1. t \in Slots \ {s, tasks.tail} /\ t + 1 \in Slots \ {s}
      BY <1>1, <2>3 DEF Slots
    <3> QED
      BY <1>1, <2>5, <3>1
  <2>7. ListMatchesTable'
    BY <1>1, <1>2, <2>5, <2>6 DEF ListMatchesTable, n
  <2> QED
    BY <1>2, <2>5, <2>7
<1> QED
  BY <1>3, <1>4

\* A process whose arguments cannot be injected has been linked behind the others,
\* and the caller's task has not been touched.
LEMMA OrphanIsWhole ==
  ASSUME IInv, mode = "user", StartWithoutArguments
  PROVE  /\ UNCHANGED <<tasks.current, tasks.head>>
         /\ outcome' = "no arguments" /\ LeavesOrphan
<1> USE ProcessAssumption DEF ProcessAssumption
<1> DEFINE s == process_get_free_slot
<1>1. /\ Loaded \in Nat \ {0} /\ processes = 0 .. Loaded - 1
      /\ processes \subseteq Slots /\ tasks \in TaskList
      /\ tasks.head = 0 /\ tasks.tail = Loaded - 1
      /\ 0 \in Slots /\ Loaded - 1 \in Slots
  BY UserFacts
<1> HIDE DEF s
<1>2. PICK left \in {NULL, Garbage}, right \in {NULL, Garbage} :
        Load(s, task_new(tasks, s, left, right))
  BY DEF StartWithoutArguments, s
<1>3. s \in Slots \ processes
  BY <1>1, <1>2, FreeSlotIsNext DEF Load, s
<1>4. tasks.tail \in Slots \ {s} /\ tasks.head # NULL
  BY <1>1, <1>3
<1>5. /\ tasks'.head = tasks.head /\ tasks'.current = tasks.current
      /\ tasks'.tail = s /\ tasks'.next[tasks.tail] = s /\ tasks'.prev[s] = tasks.tail
  BY <1>1, <1>2, <1>3, <1>4, LaterTask DEF Load
<1>6. /\ processes' = processes \cup {s} /\ current_process' = s
      /\ strayed' /\ outcome' = "no arguments"
  BY <1>2 DEF Load, StartWithoutArguments
<1> QED
  BY <1>3, <1>5, <1>6 DEF LeavesOrphan

\* The state before the shell is started satisfies the inductive invariant.
LEMMA InitEstablishes == Init => IInv
<1> SUFFICES ASSUME Init PROVE IInv
  OBVIOUS
<1> USE ProcessAssumption DEF ProcessAssumption, Init
<1>1. TypeOK
  <2>1. tasks \in TaskList
    BY DEF TaskList, Pointer
  <2>2. inbox \in [Slots -> Seq(Keys)]
    OBVIOUS
  <2>3. /\ processes \subseteq Slots /\ current_process \in Slots \cup {NULL}
        /\ mode \in {"boot", "user", "panic", "wild"}
        /\ outcome \in {"none", "started", "failed", "no arguments"}
        /\ strayed \in BOOLEAN
    OBVIOUS
  <2>4. pressed \in 0 .. MaxKeys
    OBVIOUS
  <2> HIDE DEF Init
  <2> QED
    BY <2>1, <2>2, <2>3, <2>4 DEF TypeOK, TaskList
<1> QED
  BY <1>1 DEF IInv, Empty, ListMatchesTable

\* A key goes to the end of one queue, a poll takes from the front of one.
LEMMA InboxType ==
  ASSUME inbox \in [Slots -> Seq(Keys)]
  PROVE  /\ \A c \in Keys : Key(c) => inbox' \in [Slots -> Seq(Keys)]
         /\ Getkey => inbox' \in [Slots -> Seq(Keys)]
<1>1. ASSUME NEW c \in Keys, Key(c) PROVE inbox' \in [Slots -> Seq(Keys)]
  <2>1. CASE inbox' = inbox
    BY <2>1
  <2>2. CASE inbox' = [inbox EXCEPT ![current_process] = Append(@, c)]
    <3>1. current_process \in Slots => Append(inbox[current_process], c) \in Seq(Keys)
      OBVIOUS
    <3> QED
      BY <2>2, <3>1
  <2> QED
    BY <1>1, <2>1, <2>2 DEF Key
<1>2. ASSUME Getkey PROVE inbox' \in [Slots -> Seq(Keys)]
  <2>1. CASE inbox' = inbox
    BY <2>1
  <2>2. CASE /\ inbox[tasks.current] # <<>>
             /\ inbox' = [inbox EXCEPT ![tasks.current] = Tail(@)]
    <3>1. tasks.current \in Slots => Tail(inbox[tasks.current]) \in Seq(Keys)
      BY <2>2
    <3> QED
      BY <2>2, <3>1
  <2> QED
    BY <1>2, <2>1, <2>2 DEF Getkey
<1> QED
  BY <1>1, <1>2

\* Starting a program, with or without its arguments.
LEMMA StartKeeps ==
  ASSUME IInv, StartProgram \/ StartWithoutArguments
  PROVE  IInv'
<1> DEFINE s == process_get_free_slot
<1>1. mode = "user" /\ mode' = "user" /\ UNCHANGED <<inbox, pressed>>
  BY DEF StartProgram, StartWithoutArguments
<1>2. PICK left \in {NULL, Garbage}, right \in {NULL, Garbage} :
        LET M == task_new(tasks, s, left, right) IN
          \/ Load(s, [M EXCEPT !.current = s]) /\ outcome' = "started" /\ strayed' = FALSE
          \/ Load(s, M) /\ outcome' = "no arguments" /\ strayed' = TRUE
  BY DEF StartProgram, StartWithoutArguments
<1> DEFINE M == task_new(tasks, s, left, right)
<1>3. PICK list \in {M, [M EXCEPT !.current = s]} :
        /\ Load(s, list)
        /\ \/ list = [M EXCEPT !.current = s] /\ outcome' = "started" /\ strayed' = FALSE
           \/ outcome' = "no arguments" /\ strayed' = TRUE
  BY <1>2
<1>4. /\ Loaded' > 0 /\ Loaded' \in Nat /\ processes' \subseteq Slots
      /\ tasks' \in TaskList /\ s \in Slots /\ current_process' = s
      /\ ListMatchesTable'
  BY <1>1, <1>3, LoadAppends
<1> HIDE DEF s
<1>5. ~strayed' => tasks'.current = current_process'
  <2> SUFFICES ASSUME list = [M EXCEPT !.current = s], tasks' = list
               PROVE  tasks'.current = s
    BY <1>3, <1>4 DEF Load
  <2>1. list \in TaskList
    BY <1>4
  <2>2. "current" \in DOMAIN list /\ DOMAIN list = DOMAIN M
    BY <2>1 DEF TaskList
  <2> HIDE DEF M
  <2> QED
    BY <2>2
<1>6. TypeOK'
  BY <1>1, <1>3, <1>4 DEF IInv, TypeOK, TaskList
<1> QED
  BY <1>1, <1>4, <1>5, <1>6 DEF IInv

\* The first load: kernel_main's shell.
LEMMA BootKeeps ==
  ASSUME IInv, BootShell
  PROVE  IInv'
<1> USE ProcessAssumption DEF ProcessAssumption
<1> DEFINE s == process_get_free_slot
<1>1. /\ mode = "boot" /\ mode' = "user" /\ outcome' = "started"
      /\ UNCHANGED <<inbox, strayed, pressed>>
      /\ processes = {} /\ tasks.head = NULL /\ strayed = FALSE
      /\ tasks \in TaskList
  BY DEF BootShell, IInv, Empty, TypeOK, TaskList
<1>2. PICK left \in {NULL, Garbage}, right \in {NULL, Garbage} :
        Load(s, task_new(tasks, s, left, right))
  BY DEF BootShell
<1> DEFINE L == task_new(tasks, s, left, right)
<1>3. s = 0 /\ s \in Slots
  <2>1. processes = 0 .. 0 - 1 /\ processes \subseteq Slots
    BY <1>1
  <2> QED
    BY <1>1, <1>2, <2>1, FreeSlotIsNext DEF Load
<1> HIDE DEF s
<1>4. L \in TaskList /\ L.head = s /\ L.tail = s /\ L.current = s
  BY <1>1, <1>3, FirstTask
<1> HIDE DEF L
<1>5. processes' = {0} /\ tasks' = L /\ current_process' = 0
  BY <1>1, <1>2, <1>3 DEF Load, L
<1>6. Loaded' = 1
  BY <1>5, FS_Singleton DEF Loaded
<1>7. TypeOK'
  BY <1>1, <1>3, <1>4, <1>5 DEF IInv, TypeOK, TaskList
<1>8. ListMatchesTable'
  BY <1>3, <1>4, <1>5, <1>6 DEF ListMatchesTable
<1> QED
  BY <1>1, <1>3, <1>4, <1>5, <1>6, <1>7, <1>8 DEF IInv

\* Unlinking leaves a list of the same shape.
LEMMA UnlinkType ==
  ASSUME NEW L \in TaskList, NEW s \in Slots
  PROVE  Unlink(L, s) \in TaskList /\ Unlink(L, s).current = L.current
<1> DEFINE next == [t \in Slots |-> IF t = L.prev[s] THEN L.next[s] ELSE L.next[t]]
           prev == [t \in Slots |-> IF t = L.next[s] THEN L.prev[s] ELSE L.prev[t]]
           head == IF s = L.head THEN L.next[s] ELSE L.head
           tail == IF s = L.tail THEN L.prev[s] ELSE L.tail
<1>1. Unlink(L, s) = [L EXCEPT !.next = next, !.prev = prev, !.head = head, !.tail = tail]
  BY DEF Unlink
<1>2. /\ next \in [Slots -> Pointer] /\ prev \in [Slots -> Pointer]
      /\ head \in Pointer /\ tail \in Pointer
  BY DEF TaskList
<1> HIDE DEF next, prev, head, tail
<1> QED
  BY <1>1, <1>2 DEF TaskList

\* A load that fails at boot ends in panic, or somewhere the model does not follow.
LEMMA FailsKeeps ==
  ASSUME IInv, BootFails \/ StartFails
  PROVE  IInv'
<1> USE ProcessAssumption DEF ProcessAssumption
<1>1. /\ UNCHANGED <<processes, current_process, inbox, strayed, pressed>>
      /\ outcome' = "failed"
      /\ mode' \in {"panic", "wild", "user"}
  BY DEF BootFails, StartFails, LoadFails, Failed
<1>2. mode' = "user" => mode = "user" /\ StartFails
  BY DEF BootFails, StartFails, LoadFails
<1>3. CASE mode' = "user"
  <2>1. /\ tasks' \in TaskList /\ tasks'.current = tasks.current /\ ListMatchesTable'
        /\ mode = "user"
    BY <1>2, <1>3, FailureKeeps
  <2>2. Loaded' = Loaded
    BY <1>1 DEF Loaded
  <2>3. TypeOK'
    BY <1>1, <1>3, <2>1 DEF IInv, TypeOK, TaskList
  <2> QED
    BY <1>1, <1>3, <2>1, <2>2, <2>3 DEF IInv
<1>4. CASE mode' # "user"
  <2>1. tasks' \in TaskList
    <3>1. tasks \in TaskList /\ processes \subseteq Slots
      BY DEF IInv, TypeOK, TaskList
    <3>2. CASE UNCHANGED tasks
      BY <3>1, <3>2
    <3>3. CASE ~UNCHANGED tasks
      <4> DEFINE s == process_get_free_slot
      <4>1. mode = "boot" /\ BootFails
        BY <1>4, <3>3 DEF BootFails, StartFails, LoadFails
      <4>2. PICK left \in {NULL, Garbage}, right \in {NULL, Garbage} :
              LET L == task_new(tasks, s, left, right) IN
                /\ s \notin processes
                /\ Garbage \notin {L.prev[s], L.next[s]}
                /\ tasks' = task_list_remove(L, s)
        BY <3>3, <4>1 DEF BootFails, LoadFails
      <4>3. tasks.head = NULL /\ s \in Slots
        <5>1. processes = 0 .. 0 - 1
          BY <4>1 DEF IInv, Empty
        <5> QED
          BY <3>1, <4>1, <5>1, FreeSlotIsNext DEF IInv, Empty
      <4> HIDE DEF s
      <4>4. PICK L \in TaskList : L.current = s /\ tasks' = task_list_remove(L, s)
        BY <3>1, <4>2, <4>3, FirstTask
      <4> DEFINE U == Unlink(L, s)
      <4>5. U \in TaskList /\ U.current = s
        BY <4>3, <4>4, UnlinkType
      <4> HIDE DEF U
      <4>6. task_get_next(U) \in Pointer
        BY <4>3, <4>5 DEF task_get_next, TaskList
      <4>7. tasks' = [U EXCEPT !.current = task_get_next(U)]
        BY <4>4 DEF task_list_remove, U
      <4> QED
        BY <4>5, <4>6, <4>7 DEF TaskList
    <3> QED
      BY <3>2, <3>3
  <2>2. TypeOK'
    BY <1>1, <2>1 DEF IInv, TypeOK, TaskList
  <2> QED
    BY <1>1, <1>4, <2>2 DEF IInv, ListMatchesTable
<1> QED
  BY <1>3, <1>4

\* A key, a poll or no step at all leaves the table and the list alone.
LEMMA KeysKeep ==
  ASSUME IInv, inbox' \in [Slots -> Seq(Keys)], pressed' \in 0 .. MaxKeys,
         UNCHANGED <<processes, tasks, current_process, mode, outcome, strayed>>
  PROVE  IInv'
<1>1. Loaded' = Loaded
  BY DEF Loaded
<1>2. TypeOK'
  BY DEF IInv, TypeOK
<1>3. ListMatchesTable'
  BY <1>1 DEF IInv, ListMatchesTable
<1> QED
  BY <1>1, <1>2, <1>3 DEF IInv, Empty

\* Every step keeps the inductive invariant.
LEMMA StepPreserves == IInv /\ [Next]_vars => IInv'
<1> SUFFICES ASSUME IInv, [Next]_vars PROVE IInv'
  OBVIOUS
<1>1. inbox \in [Slots -> Seq(Keys)] /\ pressed \in 0 .. MaxKeys
  BY DEF IInv, TypeOK
<1>2. CASE BootShell
  BY <1>2, BootKeeps
<1>3. CASE BootFails \/ StartFails
  BY <1>3, FailsKeeps
<1>4. CASE StartProgram \/ StartWithoutArguments
  BY <1>4, StartKeeps
<1>5. ASSUME NEW c \in Keys, Key(c) PROVE IInv'
  <2>1. pressed' \in 0 .. MaxKeys
    BY <1>1, <1>5, ProcessAssumption DEF Key, ProcessAssumption
  <2>2. UNCHANGED <<processes, tasks, current_process, mode, outcome, strayed>>
    BY <1>5 DEF Key
  <2> QED
    BY <1>1, <1>5, <2>1, <2>2, InboxType, KeysKeep
<1>6. CASE Getkey
  <2>1. UNCHANGED <<processes, tasks, current_process, mode, outcome, strayed, pressed>>
    BY <1>6 DEF Getkey
  <2> QED
    BY <1>1, <1>6, <2>1, InboxType, KeysKeep
<1>7. CASE UNCHANGED vars
  BY <1>1, <1>7, KeysKeep DEF vars
<1> QED
  BY <1>2, <1>3, <1>4, <1>5, <1>6, <1>7 DEF Next, Stopped

\* In every reachable state list and table agree, and what a failed start changed
\* is as it was.
THEOREM InductiveInvariant == Spec => []IInv
BY InitEstablishes, StepPreserves, PTL DEF Spec

-----------------------------------------------------------------------------
(* What follows *)

\* Each variable keeps its type.
THEOREM TypeCorrect == Spec => []TypeOK
<1>1. IInv => TypeOK
  BY DEF IInv
<1> QED
  BY <1>1, InductiveInvariant, PTL

\* The task list holds the tasks of the loaded processes, each once and in
\* order, with links that agree, whatever loads failed in between, and the task
\* that runs and the process that gets the keys are among them.
THEOREM ListIsTable == Spec => []ListMatchesTable
<1>1. IInv => ListMatchesTable
  BY DEF IInv
<1> QED
  BY <1>1, InductiveInvariant, PTL

\* A key goes to the program that runs when it is pressed, unless the last start
\* failed between the two switches.
THEOREM KeysGoToRunner == Spec => KeyGoesToRunner
<1> DEFINE A == \A s \in Slots : Len(inbox'[s]) > Len(inbox[s]) => s = tasks.current \/ strayed
<1>1. IInv /\ [Next]_vars => [A]_vars
  <2> SUFFICES ASSUME IInv, Next, NEW s \in Slots, Len(inbox'[s]) > Len(inbox[s]), ~strayed
               PROVE  s = tasks.current
    BY DEF A
  <2>1. inbox \in [Slots -> Seq(Keys)]
    BY DEF IInv, TypeOK
  <2>2. inbox' # inbox
    BY <2>1
  <2>3. ASSUME NEW c \in Keys, Key(c) PROVE s = tasks.current
    <3>1. mode = "user" /\ inbox' = [inbox EXCEPT ![current_process] = Append(@, c)]
      BY <2>2, <2>3 DEF Key
    <3>2. s = current_process
      BY <2>1, <3>1
    <3> QED
      BY <3>1, <3>2 DEF IInv
  <2>4. CASE Getkey
    <3>1. inbox[tasks.current] # <<>> /\ inbox' = [inbox EXCEPT ![tasks.current] = Tail(@)]
      BY <2>2, <2>4 DEF Getkey
    <3>2. s = tasks.current
      BY <2>1, <3>1
    <3> QED
      BY <3>2
  <2> QED
    BY <2>2, <2>3, <2>4
    DEF Next, BootShell, BootFails, StartProgram, StartWithoutArguments, StartFails,
        LoadFails, Failed, Stopped, vars
<1> QED
  BY <1>1, InductiveInvariant, PTL DEF Spec, KeyGoesToRunner

\* After a start that fails the program that asked for it goes on, table and list
\* are as they were, even when a task had been linked before the failure, and only
\* arguments that cannot be injected leave a process behind.
THEOREM FailedStartLeavesAtMostAnOrphan == Spec => FailureLeavesAtMostAnOrphan
<1> DEFINE Same == UNCHANGED <<processes, current_process, tasks.tail, strayed>>
           Goes == UNCHANGED <<tasks.current, tasks.head>>
           A == outcome' \in {"failed", "no arguments"} /\ mode = "user" /\ mode' = "user"
                  => Goes /\ (Same \/ (outcome' = "no arguments" /\ LeavesOrphan))
<1>1. IInv /\ [Next]_vars => [A]_vars
  <2> SUFFICES ASSUME IInv, Next, mode = "user", mode' = "user",
                      outcome' \in {"failed", "no arguments"}
               PROVE  Goes /\ (Same \/ (outcome' = "no arguments" /\ LeavesOrphan))
    OBVIOUS
  <2>1. CASE StartFails
    BY <2>1, FailureKeeps
  <2>2. CASE UNCHANGED <<processes, current_process, tasks, strayed>>
    BY <2>2
  <2>3. CASE StartWithoutArguments
    BY <2>3, OrphanIsWhole
  <2> QED
    BY <2>1, <2>2, <2>3
    DEF Next, BootShell, BootFails, StartProgram, Load, Key, Getkey, LoadFails, Failed,
        Stopped, vars
<1> QED
  BY <1>1, InductiveInvariant, PTL DEF Spec, FailureLeavesAtMostAnOrphan
=============================================================================
