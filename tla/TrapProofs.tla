----------------------------- MODULE TrapProofs -----------------------------
(***************************************************************************)
(* Proofs about the ways into the kernel and out of it, for any number of  *)
(* tasks and any values of registers.                                      *)
(***************************************************************************)
EXTENDS Trap, TLAPS

\* Between the entry and the way back by iret, what is on the kernel's stack is
\* what the processor pushed, unless it pushed an error code, too.
Handling == {"entry", "save", "body", "stack item", "copy", "copying", "start",
             "task_page", "return"}
FrameIsLeft == pc \in Handling /\ trap # "page fault" => frame = left

\* What is handled at each place, and whose directory is loaded on the ways back.
Places ==
  /\ ring = 3 <=> pc = "user"
  /\ trap = "boot" => pc = "task_return"
  /\ pc = "entry" => trap \in Commands \cup Interrupts \cup Faults
  /\ pc \in {"save", "body"} => trap \in Commands \cup {"keyboard"}
  /\ pc \in {"stack item", "copy", "copying", "start"} => trap \in Commands
  /\ pc = "return" => cr3 = current_task /\ segment = "user"
  /\ pc = "task_return" => cr3 = current_task

IInv == TypeOK /\ AtHome /\ SavedIsCaller /\ FrameIsLeft /\ Places

\* Registers that are not looked at hold some value.
LEMMA SomeRegisters ==
  /\ Void \in Registers
  /\ \A v \in Values : [Void EXCEPT !.eax = v] \in Registers
<1>1. Any \in Values
  BY TrapAssumption DEF Any
<1> QED
  BY <1>1 DEF Void, Registers

\* The first state satisfies the inductive invariant.
LEMMA InitEstablishes == Init => IInv
<1> SUFFICES ASSUME Init PROVE IInv
  OBVIOUS
<1> USE DEF Init
<1>1. TypeOK
  <2>1. Any \in Values
    BY TrapAssumption DEF Any
  <2>2. saved \in [Tasks -> Registers]
    BY SomeRegisters
  <2> QED
    BY <2>1, <2>2, SomeRegisters, TrapAssumption DEF TypeOK
<1>2. AtHome /\ SavedIsCaller
  BY DEF AtHome, SavedIsCaller, Commands, Reading
<1>3. FrameIsLeft /\ Places
  BY DEF FrameIsLeft, Places, Handling
<1> QED
  BY <1>1, <1>2, <1>3 DEF IInv

\* Whatever the cause, at the entry nothing is asked of directory and segments.
LEMMA AtEntry ==
  ASSUME NEW cause \in Commands \cup Interrupts \cup Faults,
         ring' = 0, pc' = "entry", trap' = cause
  PROVE  AtHome' /\ SavedIsCaller' /\ Places'
<1>1. AtHome' /\ SavedIsCaller'
  BY DEF AtHome, SavedIsCaller
<1>2. cause # "boot"
  BY DEF Commands, Reading, Interrupts, Faults
<1> QED
  BY <1>1, <1>2 DEF Places

\* A program that runs, or is trapped, has its own directory and segments; the
\* frame of a trap is what it was left with.
LEMMA InUserMode ==
  ASSUME IInv, Run \/ \E cause \in Commands \cup Interrupts \cup Faults : Trapped(cause)
  PROVE  IInv'
<1> USE DEF IInv
<1>1. CASE Run
  BY <1>1 DEF Run, mmu, TypeOK, AtHome, SavedIsCaller, FrameIsLeft, Places, Handling
<1>2. ASSUME NEW cause \in Commands \cup Interrupts \cup Faults, Trapped(cause)
      PROVE  IInv'
  <2>1. TypeOK'
    <3>1. regs \in Registers /\ regs.eax \in Values
      BY DEF TypeOK, Registers
    <3>2. frame' \in Registers
      BY <1>2, <3>1 DEF Trapped, Registers
    <3> QED
      BY <1>2, <3>2, SomeRegisters DEF Trapped, Goto, mmu, TypeOK
  <2>2. ring' = 0 /\ pc' = "entry" /\ trap' = cause
    BY <1>2 DEF Trapped, Goto
  <2>3. AtHome' /\ SavedIsCaller' /\ Places'
    BY <2>2, AtEntry
  <2>4. FrameIsLeft'
    BY <1>2 DEF Trapped, FrameIsLeft
  <2> QED
    BY <2>1, <2>3, <2>4
<1> QED
  BY <1>1, <1>2

\* The handlers before the body of a system call, and after it.
LEMMA InHandler ==
  ASSUME IInv,
         \/ IdtZero \/ KernelPage \/ task_current_save_state \/ KeyHandled
         \/ task_page \/ Return \/ ReturnToErrorCode
  PROVE  IInv'
<1> USE DEF IInv, Goto, Page, mmu
<1>1. CASE IdtZero
  BY <1>1 DEF IdtZero, TypeOK, AtHome, SavedIsCaller, FrameIsLeft, Places, Handling
<1>2. CASE KernelPage
  BY <1>2 DEF KernelPage, TypeOK, AtHome, SavedIsCaller, FrameIsLeft, Places, Handling
<1>3. CASE task_current_save_state
  <2> USE <1>3 DEF task_current_save_state
  <2>1. TypeOK' /\ AtHome' /\ Places'
    BY DEF TypeOK, AtHome, Places
  <2>2. SavedIsCaller' /\ FrameIsLeft'
    <3>1. frame = left
      BY DEF FrameIsLeft, Handling, Places, Commands, Reading
    <3>2. saved'[current_task] = left
      BY <3>1, TrapAssumption DEF TypeOK
    <3> QED
      BY <3>1, <3>2 DEF SavedIsCaller, FrameIsLeft
  <2> QED
    BY <2>1, <2>2
<1>4. CASE KeyHandled
  BY <1>4 DEF KeyHandled, TypeOK, AtHome, SavedIsCaller, FrameIsLeft, Places, Handling,
              Commands, Reading
<1>5. CASE task_page
  BY <1>5 DEF task_page, TypeOK, AtHome, SavedIsCaller, FrameIsLeft, Places, Handling
<1>6. CASE Return
  <2>1. regs' \in Registers
    BY <1>6 DEF Return, TypeOK, Registers
  <2>2. TypeOK'
    <3>1. Any \in Values
      BY TrapAssumption DEF Any
    <3> QED
      BY <1>6, <2>1, <3>1, SomeRegisters DEF Return, TypeOK
  <2> QED
    BY <1>6, <2>2 DEF Return, AtHome, SavedIsCaller, FrameIsLeft, Places, Handling
<1>7. CASE ReturnToErrorCode
  BY <1>7 DEF ReturnToErrorCode, TypeOK, AtHome, SavedIsCaller, FrameIsLeft, Places, Handling
<1> QED
  BY <1>1, <1>2, <1>3, <1>4, <1>5, <1>6, <1>7

\* The body of a system call, up to its result or the start of a program.
LEMMA InCommand ==
  ASSUME IInv,
         \/ Command \/ task_page_task \/ StackItem \/ CopyFails \/ CopyString \/ Copied
         \/ StartFails
  PROVE  IInv'
<1> USE DEF IInv, Goto, Page, mmu, Returns
<1>0. Any \in Values
  BY TrapAssumption DEF Any
<1>1. CASE Command
  BY <1>1 DEF Command, TypeOK, AtHome, SavedIsCaller, FrameIsLeft, Places, Handling,
              Commands, Reading
<1>2. CASE task_page_task
  BY <1>2 DEF task_page_task, TypeOK, AtHome, SavedIsCaller, FrameIsLeft, Places, Handling,
              Commands
<1>3. CASE StackItem
  BY <1>3 DEF StackItem, TypeOK, AtHome, SavedIsCaller, FrameIsLeft, Places, Handling
<1>4. CASE CopyFails
  BY <1>4 DEF CopyFails, TypeOK, AtHome, SavedIsCaller, FrameIsLeft, Places, Handling,
              Commands, Reading
<1>5. CASE CopyString
  BY <1>5 DEF CopyString, TypeOK, AtHome, SavedIsCaller, FrameIsLeft, Places, Handling
<1>6. CASE Copied
  BY <1>0, <1>6 DEF Copied, TypeOK, AtHome, SavedIsCaller, FrameIsLeft, Places, Handling,
                    Commands, Reading
<1>7. CASE StartFails
  BY <1>7 DEF StartFails, TypeOK, AtHome, SavedIsCaller, FrameIsLeft, Places, Handling,
              Commands, Reading
<1> QED
  BY <1>1, <1>2, <1>3, <1>4, <1>5, <1>6, <1>7

\* A program that is started, and the way to it or back to the shell's.
LEMMA InStart ==
  ASSUME IInv, task_return \/ \E t \in Tasks : Start(t)
  PROVE  IInv'
<1> USE DEF IInv, Goto
<1>1. CASE task_return
  <2>1. TypeOK'
    <3>1. Any \in Values
      BY TrapAssumption DEF Any
    <3> QED
      BY <1>1, <3>1, SomeRegisters DEF task_return, TypeOK
  <2> QED
    BY <1>1, <2>1 DEF task_return, AtHome, SavedIsCaller, FrameIsLeft, Places, Handling,
                      Commands, Reading
<1>2. ASSUME NEW t \in Tasks, Start(t) PROVE IInv'
  <2>1. saved' \in [Tasks -> Registers]
    BY <1>2, SomeRegisters DEF Start, TypeOK
  <2>2. TypeOK'
    BY <1>2, <2>1 DEF Start, TypeOK
  <2> QED
    BY <1>2, <2>2 DEF Start, AtHome, SavedIsCaller, FrameIsLeft, Places, Handling,
                      Commands, Reading
<1> QED
  BY <1>1, <1>2

\* Every step keeps the inductive invariant.
LEMMA StepPreserves == IInv /\ [Next]_vars => IInv'
<1> SUFFICES ASSUME IInv, [Next]_vars PROVE IInv'
  OBVIOUS
<1>1. CASE UNCHANGED vars
  <2>1. UNCHANGED <<ring, pc, cr3, segment, regs, frame, trap, saved, current_task, tasks, result, left>>
    BY <1>1 DEF vars, mmu
  <2>2. TypeOK' /\ AtHome'
    BY <2>1 DEF IInv, TypeOK, AtHome, Handling
  <2>3. SavedIsCaller' /\ FrameIsLeft' /\ Places'
    BY <2>1 DEF IInv, SavedIsCaller, FrameIsLeft, Places, Handling
  <2> QED
    BY <2>2, <2>3 DEF IInv
<1>2. CASE Run \/ \E cause \in Commands \cup Interrupts \cup Faults : Trapped(cause)
  BY <1>2, InUserMode
<1>3. CASE \/ IdtZero \/ KernelPage \/ task_current_save_state \/ KeyHandled
           \/ task_page \/ Return \/ ReturnToErrorCode
  BY <1>3, InHandler
<1>4. CASE \/ Command \/ task_page_task \/ StackItem \/ CopyFails \/ CopyString \/ Copied
           \/ StartFails
  BY <1>4, InCommand
<1>5. CASE task_return \/ \E t \in Tasks : Start(t)
  BY <1>5, InStart
<1>6. CASE Lost
  BY <1>1, <1>6 DEF Lost
<1> QED
  BY <1>1, <1>2, <1>3, <1>4, <1>5, <1>6 DEF Next, Handle

\* The invariant of the traps holds in every state, for every set of tasks and values.
THEOREM InductiveInvariant == Spec => []IInv
<1> QED
  BY InitEstablishes, StepPreserves, PTL DEF Spec

\* Every variable keeps its type, whichever way the kernel is entered and left.
THEOREM TypeCorrect == Spec => []TypeOK
<1>1. IInv => TypeOK
  BY DEF IInv
<1> QED
  BY <1>1, InductiveInvariant, PTL

\* A program runs with its own directory and the user's segments on every way out
\* of interrupt_handler, isr80h_handler and task_return, and the body of a system
\* call with the kernel's, but while it reads from its caller.
THEOREM AlwaysAtHome == Spec => []AtHome
<1>1. IInv => AtHome
  BY DEF IInv
<1> QED
  BY <1>1, InductiveInvariant, PTL

\* task_get_stack_item reads through the stack pointer of the call that is handled.
THEOREM ReadsItsCaller == Spec => []SavedIsCaller
<1>1. IInv => SavedIsCaller
  BY DEF IInv
<1> QED
  BY <1>1, InductiveInvariant, PTL

\* What iret goes back to, that which was interrupted, with all its registers and
\* the result of a system call.
THEOREM ResumesCaller == Spec => ResumesExactly
<1>1. IInv /\ [Next]_vars =>
        [ring = 0 /\ ring' = 3 /\ trap # "boot" /\ pc # "task_return" =>
           regs' = IF trap \in Commands THEN [left EXCEPT !.eax = result] ELSE left]_vars
  <2> SUFFICES ASSUME IInv, Next, ring = 0, ring' = 3, pc # "task_return"
               PROVE  regs' = IF trap \in Commands THEN [left EXCEPT !.eax = result] ELSE left
    OBVIOUS
  <2>1. Return
    BY DEF Next, Handle, Run, Trapped, Lost, IdtZero, KernelPage, task_current_save_state,
           KeyHandled, task_page, ReturnToErrorCode, Command, task_page_task, StackItem,
           CopyFails, CopyString, Copied, StartFails, Start, task_return, vars
  <2>2. frame = left
    BY <2>1 DEF Return, IInv, FrameIsLeft, Handling
  <2> QED
    BY <2>1, <2>2 DEF Return
<1> QED
  BY <1>1, InductiveInvariant, PTL DEF Spec, ResumesExactly
=============================================================================
