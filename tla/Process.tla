------------------------------- MODULE Process -------------------------------
(***************************************************************************)
(* Processes and tasks (src/task), how a program is started (system calls  *)
(* 6 and 7 of src/isr80h/process.c, and kernel_main for the shell), and    *)
(* which process the keys go to.                                           *)
(*                                                                         *)
(* There is no timer and no exit: a task runs until it starts another one, *)
(* and is never resumed.  The kernel runs with interrupts off, so a system *)
(* call and a key press are one step each, and they interleave.  The keys  *)
(* of a process wait in a queue: the KeyQueue that Keyboard implements.    *)
(*                                                                         *)
(* A process and its task go by their slot of the process table.           *)
(***************************************************************************)
EXTENDS Integers, Sequences, FiniteSets, FiniteSetsExt

CONSTANTS MaxProcesses,  \* PEACHOS_MAX_PROCESSES
          EISTKN,        \* the positive status code of status.h
          Keys,          \* the characters of the keyboard
          MaxKeys,       \* bound: the keys pressed
          NULL,
          Garbage        \* a pointer read from memory nobody has written

Slots   == 0 .. MaxProcesses - 1
Pointer == Slots \cup {NULL, Garbage}

ASSUME ProcessAssumption ==
  /\ MaxProcesses \in Nat \ {0} /\ EISTKN \in Slots \ {0}
  /\ MaxKeys \in Nat
  /\ NULL \notin Slots /\ Garbage \notin Slots /\ NULL # Garbage

VARIABLES
  processes,       \* the slots of the process table that are taken
  tasks,           \* the task list: links, task_head, task_tail, current_task
  current_process,
  inbox,           \* the keys that wait, for each process
  mode,            \* "boot", "user", "panic", or "wild" after a wild access
  outcome,         \* history: how the last start of a program ended
  strayed,         \* history: the newest process was loaded but not switched to
  pressed          \* history: the number of keys pressed

vars == <<processes, tasks, current_process, inbox, mode, outcome, strayed, pressed>>

Init == /\ processes = {}
        /\ tasks = [next |-> [s \in Slots |-> NULL],
                    prev |-> [s \in Slots |-> NULL],
                    head |-> NULL, tail |-> NULL, current |-> NULL]
        /\ current_process = NULL
        /\ inbox = [s \in Slots |-> <<>>]
        /\ mode = "boot"
        /\ outcome = "none" /\ strayed = FALSE /\ pressed = 0

-----------------------------------------------------------------------------
(* The task list *)

TaskNewKeepsTail(L, s, left, right) ==
  LET fresh == [L EXCEPT !.prev[s] = left, !.next[s] = right] IN
  IF L.head = NULL
    THEN [fresh EXCEPT !.head = s, !.tail = s, !.current = s]
    ELSE [fresh EXCEPT !.next[L.tail] = s, !.prev[s] = L.tail]

TaskNewTakesCurrent(L, s, left, right) ==
  LET fresh == [L EXCEPT !.prev[s] = left, !.next[s] = right, !.current = s] IN
  IF L.head = NULL
    THEN [fresh EXCEPT !.head = s, !.tail = s]
    ELSE [fresh EXCEPT !.next[L.tail] = s, !.prev[s] = L.tail, !.tail = s]

\* Only four bytes of the task are cleared: left and right are what its block
\* holds where the links are.
task_new(L, s, left, right) ==
  LET fresh == [L EXCEPT !.prev[s] = left, !.next[s] = right] IN
  IF L.head = NULL
    THEN [fresh EXCEPT !.head = s, !.tail = s, !.current = s]
    ELSE [fresh EXCEPT !.next[L.tail] = s, !.prev[s] = L.tail, !.tail = s]

task_get_next(L) ==
  IF L.next[L.current] = NULL THEN L.head ELSE L.next[L.current]

Unlink(L, s) ==
  [L EXCEPT
     !.next = [t \in Slots |-> IF t = L.prev[s] THEN L.next[s] ELSE L.next[t]],
     !.prev = [t \in Slots |-> IF t = L.next[s] THEN L.prev[s] ELSE L.prev[t]],
     !.head = IF s = L.head THEN L.next[s] ELSE L.head,
     !.tail = IF s = L.tail THEN L.prev[s] ELSE L.tail]

task_list_remove(L, s) ==
  IF s = L.current THEN [Unlink(L, s) EXCEPT !.current = task_get_next(Unlink(L, s))]
                   ELSE Unlink(L, s)

-----------------------------------------------------------------------------
(* Loading a process *)

\* A full table is reported with a positive number, which the caller takes for a
\* slot: slot EISTKN.
FreeSlotUnchecked == Cardinality(processes)
process_get_free_slot ==
  IF processes = Slots THEN EISTKN ELSE Min(Slots \ processes)

\* process_load_switch: the process is in the table and the current one; whether
\* its task is, too, is up to the caller.
Load(s, list) ==
  /\ s \notin processes
  /\ processes' = processes \cup {s}
  /\ tasks' = list
  /\ current_process' = s

Failed(s) ==
  /\ outcome' = "failed"
  /\ UNCHANGED <<processes, current_process, inbox, strayed, pressed>>

\* The ways process_load_for_slot fails: the slot is taken or memory or the file
\* is missing, before there is a task; proc is read uninitialised, or the error
\* of task_new is used as a task, and memory is written at random; the program
\* cannot be mapped, and its task is unlinked again.
LoadFails(s, after) ==
  /\ \/ mode' = after /\ UNCHANGED tasks
     \/ mode' = "wild" /\ UNCHANGED tasks
     \/ /\ s \notin processes
        /\ \E left, right \in {NULL, Garbage} :
             LET L == task_new(tasks, s, left, right) IN
             IF Garbage \in {L.prev[s], L.next[s]}
               THEN mode' = "wild" /\ UNCHANGED tasks
               ELSE mode' = after /\ tasks' = task_list_remove(L, s)
  /\ Failed(s)

\* kernel_main loads the shell and runs the head of the task list, or panics.
BootShell ==
  /\ mode = "boot"
  /\ LET s == process_get_free_slot IN
       \E left, right \in {NULL, Garbage} : Load(s, task_new(tasks, s, left, right))
  /\ mode' = "user" /\ outcome' = "started"
  /\ UNCHANGED <<inbox, strayed, pressed>>

BootFails == mode = "boot" /\ LoadFails(process_get_free_slot, "panic")

-----------------------------------------------------------------------------
(* System calls of the running task, and the keyboard interrupt *)

StartWithoutSwitch ==
  /\ mode = "user"
  /\ LET s == process_get_free_slot IN
       \E left, right \in {NULL, Garbage} : Load(s, task_new(tasks, s, left, right))
  /\ outcome' = "started" /\ strayed' = FALSE
  /\ UNCHANGED <<inbox, mode, pressed>>

\* System calls 6 and 7: load, switch to the new task and return into it.
StartProgram ==
  /\ mode = "user"
  /\ LET s == process_get_free_slot IN
       \E left, right \in {NULL, Garbage} :
         Load(s, [task_new(tasks, s, left, right) EXCEPT !.current = s])
  /\ outcome' = "started" /\ strayed' = FALSE
  /\ UNCHANGED <<inbox, mode, pressed>>

\* System call 7 when process_inject_arguments fails: the process is loaded and
\* is the current one, but the caller's task goes on.
StartWithoutArguments ==
  /\ mode = "user"
  /\ LET s == process_get_free_slot IN
       \E left, right \in {NULL, Garbage} : Load(s, task_new(tasks, s, left, right))
  /\ outcome' = "no arguments" /\ strayed' = TRUE
  /\ UNCHANGED <<inbox, mode, pressed>>

StartFails == mode = "user" /\ LoadFails(process_get_free_slot, "user")

\* keyboard_push, to the process that was switched to last.
Key(c) ==
  /\ mode = "user" /\ pressed < MaxKeys
  /\ pressed' = pressed + 1
  /\ inbox' = IF current_process = NULL THEN inbox
              ELSE [inbox EXCEPT ![current_process] = Append(@, c)]
  /\ UNCHANGED <<processes, tasks, current_process, mode, outcome, strayed>>

GetkeyOfHead ==
  /\ mode = "user"
  /\ LET s == tasks.head IN
       IF inbox[s] = <<>> THEN UNCHANGED inbox
                          ELSE inbox' = [inbox EXCEPT ![s] = Tail(@)]
  /\ UNCHANGED <<processes, tasks, current_process, mode, outcome, strayed, pressed>>

\* keyboard_pop, from the process of the task that runs.
Getkey ==
  /\ mode = "user"
  /\ LET s == tasks.current IN
       IF inbox[s] = <<>> THEN UNCHANGED inbox
                          ELSE inbox' = [inbox EXCEPT ![s] = Tail(@)]
  /\ UNCHANGED <<processes, tasks, current_process, mode, outcome, strayed, pressed>>

\* panic loops for ever; after a wild access the model says nothing.
Stopped == mode \in {"panic", "wild"} /\ UNCHANGED vars

Next == \/ BootShell \/ BootFails
        \/ StartProgram \/ StartWithoutArguments \/ StartFails
        \/ \E c \in Keys : Key(c)
        \/ Getkey \/ Stopped

Spec == Init /\ [][Next]_vars

\* The running program polls the keyboard: peachos_getkey_block repeats getkey.
FairSpec == Spec /\ WF_vars(Getkey)

-----------------------------------------------------------------------------

TypeOK ==
  /\ processes \subseteq Slots
  /\ tasks \in [next : [Slots -> Pointer], prev : [Slots -> Pointer],
                head : Pointer, tail : Pointer, current : Pointer]
  /\ current_process \in Slots \cup {NULL}
  /\ inbox \in [Slots -> Seq(Keys)]
  /\ mode \in {"boot", "user", "panic", "wild"}
  /\ outcome \in {"none", "started", "failed", "no arguments"}
  /\ strayed \in BOOLEAN
  /\ pressed \in 0 .. MaxKeys

Loaded == Cardinality(processes)

\* Whatever loads have failed in between, the task list holds the tasks of the
\* loaded processes, each once, oldest first, and its links agree in both
\* directions.  The task that runs and the process that gets the keys are loaded:
\* neither is left pointing to what a failed load has given up, and "NO current
\* task to save!" cannot happen.
ListMatchesTable ==
  mode = "user" =>
    /\ processes = 0 .. Loaded - 1
    /\ tasks.head = 0 /\ tasks.tail = Loaded - 1
    /\ \A s \in 0 .. Loaded - 2 : tasks.next[s] = s + 1 /\ tasks.prev[s + 1] = s
    /\ tasks.current \in processes /\ current_process \in processes

\* A key goes to the process that runs when it is pressed, except after a start
\* that failed between the switch of the process and the switch of the task.
KeyGoesToRunner ==
  [][\A s \in Slots : Len(inbox'[s]) > Len(inbox[s]) => s = tasks.current \/ strayed]_vars

\* The newest process is loaded for a program that never runs: it is in the table,
\* its task is the last of the list, and the keys are its own.
LeavesOrphan ==
  \E s \in Slots \ processes :
    /\ processes' = processes \cup {s} /\ tasks'.tail = s
    /\ tasks'.next[tasks.tail] = s /\ tasks'.prev[s] = tasks.tail
    /\ current_process' = s /\ strayed'

\* After every start that fails the program that asked goes on, and the shell is
\* still the head of the list.  Table, list and the owner of the keys are as they
\* were, whether or not a task had been linked before the failure; the one
\* exception is a program whose arguments could not be injected, which stays
\* behind, whole, as the newest process.
FailureLeavesAtMostAnOrphan ==
  [][outcome' \in {"failed", "no arguments"} /\ mode = "user" /\ mode' = "user" =>
       /\ UNCHANGED <<tasks.current, tasks.head>>
       /\ \/ UNCHANGED <<processes, current_process, tasks.tail, strayed>>
          \/ outcome' = "no arguments" /\ LeavesOrphan]_vars

\* A program that polls gets the keys in its queue, unless it starts another one
\* first: the keys left then are never read.
KeysAreRead ==
  \A s \in Slots : (mode = "user" /\ tasks.current = s /\ inbox[s] # <<>>)
                     ~> (inbox[s] = <<>> \/ tasks.current # s \/ mode # "user")
=============================================================================
