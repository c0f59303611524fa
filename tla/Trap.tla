-------------------------------- MODULE Trap --------------------------------
(***************************************************************************)
(* The ways into the kernel and out of it: idt.asm, idt.c, task.asm, and   *)
(* what the system calls of isr80h do to page directory and data segments  *)
(* on the way: they page to the task to read its stack and its strings,    *)
(* and back.                                                               *)
(*                                                                         *)
(* Every gate is an interrupt gate: nothing interrupts the kernel, and one *)
(* trap at a time is handled.  The user's registers are ip, sp and eax,    *)
(* which stands for the general ones; what they hold is in Values.  Left   *)
(* out are ebp, which task_return does not restore, and faults of the      *)
(* kernel itself.                                                          *)
(***************************************************************************)
EXTENDS Integers

CONSTANTS Tasks, First,      \* the tasks there can be; the shell's
          Values, Kernel     \* values of registers; the kernel's directory

\* The system calls, named for one of each kind; isr80h_commands has no unknown.
Reading    == {"putchar", "print", "load", "system"}   \* an argument on the stack
Copying    == {"print", "load"}                        \* a string of the task
Starting   == {"load", "system"}                       \* a program
Commands   == Reading \cup {"getkey", "unknown"}
Interrupts == {"keyboard", "timer"}     \* with a callback, without one
Faults     == {"invalid opcode", "page fault", "divide error"}

ASSUME TrapAssumption == First \in Tasks /\ Kernel \notin Tasks /\ Values # {}

Registers == [ip : Values, sp : Values, eax : Values]
Any  == CHOOSE v \in Values : TRUE      \* for what is not looked at
Void == [ip |-> Any, sp |-> Any, eax |-> Any]

VARIABLES
  ring, pc,
  cr3, segment,     \* whose directory is loaded; "user" or "kernel" in ds to gs
  regs,             \* the registers of the program, while it runs
  frame,            \* struct interupt_frame, as the handler reads the stack
  trap,             \* the system call or the vector that is handled
  saved,            \* task->registers of every task
  current_task, tasks,
  result,           \* what the command returns
  left              \* history: the registers when the program was left

mmu  == <<cr3, segment>>
vars == <<ring, pc, mmu, regs, frame, trap, saved, current_task, tasks, result, left>>

Goto(label) == pc' = label

\* kernel_page and task_page: the data segments and the directory.
Page(segments, directory) == segment' = segments /\ cr3' = directory

\* task_run_first_ever_task, after the shell was loaded; of its registers only
\* those are set that task_init sets.
Init == /\ ring = 0 /\ pc = "task_return" /\ cr3 = First /\ segment = "kernel"
        /\ current_task = First /\ tasks = {First}
        /\ \E v \in Values : saved = [t \in Tasks |-> [Void EXCEPT !.eax = v]]
        /\ regs = Void /\ frame = Void /\ trap = "boot" /\ result = Any /\ left = Void

-----------------------------------------------------------------------------
(* In user mode *)

Run == /\ ring = 3
       /\ regs' \in Registers
       /\ UNCHANGED <<ring, pc, mmu, frame, trap, saved, current_task, tasks, result, left>>

\* The processor changes to the kernel's stack, pushes ip, cs, flags, sp and ss,
\* and for some faults an error code; pushad follows.  Directory and data segments
\* stay.  struct interupt_frame has no error code: it is where ip is expected, and
\* the flags are where sp is.
Trapped(cause) ==
  /\ ring = 3
  /\ ring' = 0 /\ Goto("entry")
  /\ trap' = cause /\ left' = regs
  /\ frame' \in IF cause = "page fault" THEN [ip : Values, sp : Values, eax : {regs.eax}]
                                        ELSE {regs}
  /\ regs' = Void
  /\ UNCHANGED <<mmu, saved, current_task, tasks, result>>

-----------------------------------------------------------------------------
(* interrupt_handler and isr80h_handler *)

\* idt_zero is set as a gate, but it is a C function: after it has printed, it
\* returns to the program in ring 0.
IdtZero == /\ pc = "entry" /\ trap = "divide error"
           /\ Goto("lost")
           /\ UNCHANGED <<ring, mmu, regs, frame, trap, saved, current_task, tasks, result, left>>

KernelPage ==
  /\ pc = "entry" /\ trap # "divide error"
  /\ Page("kernel", Kernel)
  /\ IF trap \in Commands \cup {"keyboard"} THEN Goto("save") ELSE Goto("task_page")
  /\ UNCHANGED <<ring, regs, frame, trap, saved, current_task, tasks, result, left>>

SaveNothing ==
  /\ pc = "save" /\ Goto("body")
  /\ UNCHANGED <<ring, mmu, regs, frame, trap, saved, current_task, tasks, result, left>>

task_current_save_state ==
  /\ pc = "save" /\ Goto("body")
  /\ saved' = [saved EXCEPT ![current_task] = frame]
  /\ UNCHANGED <<ring, mmu, regs, frame, trap, current_task, tasks, result, left>>

\* classic_keyboard_handle_interupt: for a key that is released it returns early.
KeyHandled ==
  /\ pc = "body" /\ trap = "keyboard" /\ Goto("task_page")
  /\ Page("user", current_task) \/ UNCHANGED mmu
  /\ UNCHANGED <<ring, regs, frame, trap, saved, current_task, tasks, result, left>>

Returns(res) == Goto("task_page") /\ result' = res

TaskPageKeepsSegments ==
  /\ pc = "task_page" /\ Goto("return")
  /\ cr3' = current_task
  /\ UNCHANGED <<ring, segment, regs, frame, trap, saved, current_task, tasks, result, left>>

task_page ==
  /\ pc = "task_page" /\ Goto("return")
  /\ Page("user", current_task)
  /\ UNCHANGED <<ring, regs, frame, trap, saved, current_task, tasks, result, left>>

ReturnWithoutResult ==
  /\ pc = "return" /\ trap # "page fault"
  /\ ring' = 3 /\ Goto("user") /\ regs' = frame
  /\ frame' = Void /\ trap' = "none" /\ result' = Any
  /\ UNCHANGED <<mmu, saved, current_task, tasks, left>>

\* popad, eax from tmp_res after a system call, iret.
Return ==
  /\ pc = "return" /\ trap # "page fault"
  /\ ring' = 3 /\ Goto("user")
  /\ regs' = IF trap \in Commands THEN [frame EXCEPT !.eax = result] ELSE frame
  /\ frame' = Void /\ trap' = "none" /\ result' = Any
  /\ UNCHANGED <<mmu, saved, current_task, tasks, left>>

\* iret takes the error code for ip, and ip for cs.
ReturnToErrorCode ==
  /\ pc = "return" /\ trap = "page fault" /\ Goto("lost")
  /\ UNCHANGED <<ring, mmu, regs, frame, trap, saved, current_task, tasks, result, left>>

-----------------------------------------------------------------------------
(* isr80h_handle_command *)

Command ==
  /\ pc = "body" /\ trap \in Commands \ Reading
  /\ \E v \in Values : Returns(v)
  /\ UNCHANGED <<ring, mmu, regs, frame, trap, saved, current_task, tasks, left>>

\* task_get_stack_item pages to the task, reads at saved[current_task].sp, ...
task_page_task ==
  /\ pc = "body" /\ trap \in Reading /\ Goto("stack item")
  /\ Page("user", current_task)
  /\ UNCHANGED <<ring, regs, frame, trap, saved, current_task, tasks, result, left>>

\* ... and pages back.
StackItem ==
  /\ pc = "stack item"
  /\ Page("kernel", Kernel)
  /\ IF trap \in Copying THEN Goto("copy") /\ UNCHANGED result
     ELSE IF trap \in Starting THEN Goto("start") /\ UNCHANGED result
     ELSE \E v \in Values : Returns(v)
  /\ UNCHANGED <<ring, regs, frame, trap, saved, current_task, tasks, left>>

\* copy_string_from_task finds no memory, or loads the task's directory, ...
CopyFails ==
  /\ pc = "copy"
  /\ \E v \in Values : Returns(v)
  /\ UNCHANGED <<ring, mmu, regs, frame, trap, saved, current_task, tasks, left>>

CopyString ==
  /\ pc = "copy" /\ Goto("copying")
  /\ cr3' = current_task
  /\ UNCHANGED <<ring, segment, regs, frame, trap, saved, current_task, tasks, result, left>>

\* ... and the kernel's again.
Copied ==
  /\ pc = "copying"
  /\ Page("kernel", Kernel)
  /\ IF trap \in Starting THEN Goto("start") /\ UNCHANGED result ELSE Returns(Any)
  /\ UNCHANGED <<ring, regs, frame, trap, saved, current_task, tasks, left>>

StartRetries ==
  pc = "start" /\ UNCHANGED vars

\* process_load_switch or process_inject_arguments fails.
StartFails ==
  /\ pc = "start"
  /\ \E v \in Values : Returns(v)
  /\ UNCHANGED <<ring, mmu, regs, frame, trap, saved, current_task, tasks, left>>

StartUnlisted(t) ==
  /\ pc = "start" /\ t \notin tasks
  /\ \E v \in Values : saved' = [saved EXCEPT ![t] = [Void EXCEPT !.eax = v]]
  /\ current_task' = t /\ cr3' = t
  /\ Goto("task_return")
  /\ UNCHANGED <<ring, segment, regs, frame, trap, tasks, result, left>>

\* The program is loaded, and task_switch makes its task the current one.
Start(t) ==
  /\ pc = "start" /\ t \notin tasks
  /\ tasks' = tasks \cup {t}
  /\ \E v \in Values : saved' = [saved EXCEPT ![t] = [Void EXCEPT !.eax = v]]
  /\ current_task' = t /\ cr3' = t
  /\ Goto("task_return")
  /\ UNCHANGED <<ring, segment, regs, frame, trap, result, left>>

\* task_return: what was on the kernel's stack is given up.
task_return ==
  /\ pc = "task_return"
  /\ ring' = 3 /\ Goto("user")
  /\ segment' = "user" /\ regs' = saved[current_task]
  /\ frame' = Void /\ trap' = "none" /\ result' = Any
  /\ UNCHANGED <<cr3, saved, current_task, tasks, left>>

-----------------------------------------------------------------------------

\* A program that runs in the kernel's ring, or at an address that is none.
Lost == pc = "lost" /\ UNCHANGED vars

Handle == \/ IdtZero \/ KernelPage \/ task_current_save_state \/ KeyHandled
          \/ task_page \/ Return \/ ReturnToErrorCode
          \/ Command \/ task_page_task \/ StackItem \/ CopyFails \/ CopyString \/ Copied
          \/ StartFails \/ (\E t \in Tasks : Start(t)) \/ task_return

Next == \/ Run \/ \E cause \in Commands \cup Interrupts \cup Faults : Trapped(cause)
        \/ Handle \/ Lost

Spec == Init /\ [][Next]_vars

\* Nothing takes the processor from the kernel.
FairSpec == Spec /\ WF_vars(Handle)

-----------------------------------------------------------------------------
(* Correctness *)

TypeOK ==
  /\ ring \in {0, 3}
  /\ pc \in {"user", "entry", "save", "body", "stack item", "copy", "copying", "start",
             "task_page", "return", "task_return", "lost"}
  /\ tasks \subseteq Tasks /\ current_task \in tasks
  /\ cr3 \in tasks \cup {Kernel} /\ segment \in {"user", "kernel"}
  /\ regs \in Registers /\ frame \in Registers /\ left \in Registers
  /\ saved \in [Tasks -> Registers] /\ result \in Values
  /\ trap \in Commands \cup Interrupts \cup Faults \cup {"boot", "none"}

\* Along every way out of the kernel a program comes to run with its own
\* directory and with the user's segments.  The body of a system call or callback
\* runs with the kernel's directory and segments, and with the caller's directory
\* exactly while it reads from it.
AtHome ==
  /\ ring = 3 => cr3 = current_task /\ segment = "user"
  /\ pc \in {"save", "body", "copy", "start"} => cr3 = Kernel /\ segment = "kernel"
  /\ pc \in {"stack item", "copying"} => cr3 = current_task

\* A system call reads its arguments through the stack pointer the caller had when
\* it made this call, not an earlier one.
SavedIsCaller ==
  trap \in Commands /\ pc \in {"body", "stack item", "copy", "copying", "start"} =>
    saved[current_task] = left

\* A program goes on where it was interrupted, with all its registers, and after a
\* system call with the result in eax; unless another one was started.
ResumesExactly ==
  [][ring = 0 /\ ring' = 3 /\ trap # "boot" /\ pc # "task_return" =>
       regs' = IF trap \in Commands THEN [left EXCEPT !.eax = result] ELSE left]_vars

\* Every trap leads back to a program, except a divide error and the faults with
\* an error code.
EveryTrapEnds == ring = 0 ~> ring = 3 \/ pc = "lost"
=============================================================================
