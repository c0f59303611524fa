---------------------------- MODULE CommandLine -----------------------------
(***************************************************************************)
(* The shell: it reads a line as in ReadLine and runs it.  From the line   *)
(* to the arguments of the program: strtok, peachos_parse_command and      *)
(* peachos_system_run in the shell, then in the kernel                     *)
(* isr80h_command7_invoke_system_command and process_inject_arguments.     *)
(*                                                                         *)
(* Each word becomes a node that the shell allocates and never frees, so   *)
(* used, the shell's allocation slots in use, only grows.  Memory may run  *)
(* out at any allocation.                                                  *)
(***************************************************************************)
EXTENDS ReadLine, FiniteSetsExt

CONSTANTS ArgumentSize,    \* sizeof(command_argument.argument)
          NameSize,        \* what of path is left for the name of the program
          Slots            \* PEACHOS_MAX_PROGRAM_ALLOCATIONS of the shell

ASSUME CommandLineAssumption ==
  /\ ArgumentSize \in Nat \ {0} /\ Slots \in Nat
  /\ NameSize \in 1 .. ArgumentSize

VARIABLES
  scommand, sp,    \* the copy, ended by Nul, and strtok's place in it; 0 is NULL
  token,           \* what strtok returned; empty is NULL
  args,            \* the list of nodes
  used,
  program,         \* the program that is loaded, by name
  argc, argv,      \* of the new process
  outOfMemory      \* history: an allocation failed for this line

parsed  == <<scommand, sp, token>>
process == <<program, argc, argv>>
vars    == <<readVars, parsed, args, used, process, outOfMemory>>

\* What running a line leaves alone: the reading of lines but for pc.
reading == <<i, out, screen, start, delivered>>

Delimiter == Space
Truncated(word, size) == SubSeq(word, 1, Min({Len(word), size - 1}))

Init == /\ ReadInit
        /\ scommand = <<Nul>> /\ sp = 0 /\ token = <<>> /\ args = <<>> /\ used = 0
        /\ program = <<>> /\ argc = 0 /\ argv = <<>> /\ outOfMemory = FALSE

Read == ReadNext /\ UNCHANGED <<parsed, args, used, process, outOfMemory>>

\* A new line is shown, and peachos_parse_command copies the line.
Run ==
  /\ pc = "run" /\ pc' = "token"
  /\ putchar(NewLine)
  /\ scommand' = Append(CString(out), Nul) /\ sp' = 1 /\ token' = <<>>
  /\ args' = <<>> /\ argc' = 0 /\ argv' = <<>> /\ program' = <<>> /\ outOfMemory' = FALSE
  /\ UNCHANGED <<i, out, start, delivered, used>>

-----------------------------------------------------------------------------
(* strtok *)

\* The first place from p on that holds one of cs, and the first that does not.
FirstOf(cs, p)    == CHOOSE q \in p .. Len(scommand) :
                       scommand[q] \in cs /\ \A r \in p .. q - 1 : scommand[r] \notin cs
FirstNotOf(cs, p) == CHOOSE q \in p .. Len(scommand) :
                       scommand[q] \notin cs /\ \A r \in p .. q - 1 : scommand[r] \in cs

SkipOne(p) == IF scommand[p] = Delimiter THEN p + 1 ELSE p
Skip(p)    == FirstNotOf({Delimiter}, p)

\* The delimiter behind a word is overwritten, and sp is behind that; at the end
\* of the string sp stays on the Nul.
Strtok ==
  /\ pc = "token"
  /\ LET from == Skip(sp)
         end  == FirstOf({Delimiter, Nul}, from)
     IN  IF sp = 0 \/ scommand[from] = Nul
         THEN /\ token' = <<>> /\ sp' = 0 /\ UNCHANGED scommand
              /\ pc' = IF args = <<>> THEN "prompt" ELSE "system"
         ELSE /\ token' = SubSeq(scommand, from, end - 1)
              /\ scommand' = [scommand EXCEPT ![end] = Nul]
              /\ sp' = IF scommand[end] = Nul THEN end ELSE end + 1
              /\ pc' = "node"
  /\ UNCHANGED <<reading, args, used, process, outOfMemory>>

-----------------------------------------------------------------------------
(* peachos_parse_command *)

Node ==
  /\ pc = "node" /\ used < Slots
  /\ used' = used + 1
  /\ args' = Append(args, Truncated(token, ArgumentSize))
  /\ pc' = "token"
  /\ UNCHANGED <<reading, parsed, process, outOfMemory>>

\* No slot or no memory: the words read so far are the command, and without any
\* there is none.
NoNode ==
  /\ pc = "node"
  /\ pc' = IF args = <<>> THEN "prompt" ELSE "system"
  /\ outOfMemory' = TRUE
  /\ UNCHANGED <<reading, parsed, args, used, process>>

-----------------------------------------------------------------------------
(* The system call *)

\* process_load_switch of "0:/" and the name.
Load ==
  /\ pc = "system"
  /\ program' = Truncated(Head(args), NameSize)
  /\ pc' = "inject"
  /\ UNCHANGED <<reading, parsed, args, used, argc, argv, outOfMemory>>

\* There is no such program, or no memory for it.
LoadFails ==
  /\ pc = "system" /\ pc' = "prompt"
  /\ UNCHANGED <<reading, parsed, args, used, process, outOfMemory>>

\* An argument of the program is put in its memory ...
InjectArgument ==
  /\ pc = "inject" /\ Len(argv) < Len(args)
  /\ argv' = Append(argv, Truncated(args[Len(argv) + 1], ArgumentSize))
  /\ UNCHANGED <<pc, reading, parsed, args, used, program, argc, outOfMemory>>

\* ... or this or the vector does not fit.
InjectFails ==
  /\ pc = "inject" /\ Len(argv) < Len(args) /\ pc' = "prompt"
  /\ UNCHANGED <<reading, parsed, args, used, process, outOfMemory>>

\* The program runs, and the shell never does again.
Start ==
  /\ pc = "inject" /\ Len(argv) = Len(args) /\ pc' = "runs"
  /\ argc' = Len(args)
  /\ UNCHANGED <<reading, parsed, args, used, program, argv, outOfMemory>>

\* The program runs, or the bound on lines is reached.
Ends == pc = "runs" \/ (pc = "prompt" /\ Len(delivered) = MaxLines)
End  == Ends /\ UNCHANGED vars

Next == \/ Read \/ Run \/ Strtok \/ Node \/ NoNode \/ Load \/ LoadFails
        \/ InjectArgument \/ InjectFails \/ Start \/ End

Spec == Init /\ [][Next]_vars

-----------------------------------------------------------------------------
(* Correctness *)

\* The words of a line: from each place where one begins to where it ends.
Begins(l) == {p \in DOMAIN l : l[p] # Delimiter /\ (p = 1 \/ l[p - 1] = Delimiter)}
WordAt(l, p) == SubSeq(l, p, Min({q \in p .. Len(l) : q = Len(l) \/ l[q + 1] = Delimiter}))

Before(l, p) == {q \in Begins(l) : q < p}
WordsOf(l) == [n \in 1 .. Cardinality(Begins(l)) |->
                 WordAt(l, CHOOSE p \in Begins(l) : Cardinality(Before(l, p)) = n - 1)]

\* The program that runs is the first word of the last line, cut at the size of a
\* path, and gets the words that were typed, in order and each once, however many
\* blanks are around them and whatever was typed before, cut at the size of a node;
\* if the shell ran out of memory or slots, a beginning of them.
ArgvIsTyped ==
  pc = "runs" =>
    LET words == WordsOf(Last(delivered))
        typed == [n \in 1 .. Len(words) |-> Truncated(words[n], ArgumentSize)]
    IN  /\ argv # <<>> /\ argc = Len(argv) /\ IsPrefix(argv, typed)
        /\ outOfMemory \/ argv = typed
        /\ program = Truncated(words[1], NameSize)
=============================================================================
