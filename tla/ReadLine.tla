------------------------------ MODULE ReadLine ------------------------------
(***************************************************************************)
(* The shell reads a line: its prompt, and peachos_terminal_readline, one  *)
(* action per key.  Each putchar is one system call, and runs              *)
(* terminal_write_char to its end.  The buffer is an array on the stack:   *)
(* it starts with anything, and later holds what earlier lines left there. *)
(***************************************************************************)
EXTENDS Terminal

CONSTANTS BufferSize,   \* the size of the buffer
          Prompt,       \* what the shell prints before a line
          MaxLines      \* bound: lines read

ASSUME ReadLineAssumption ==
  /\ BufferSize \in Nat \ {0, 1} /\ MaxLines \in Nat
  /\ Prompt \in Seq(Range(Prompt) \ {NewLine, BackSpace})

VARIABLES
  pc, i, out,
  screen,
  start,        \* history: where the line being read begins on the screen
  delivered     \* history: the lines read, as C strings

readVars == <<pc, i, out, screen, start, delivered>>

\* The characters before the first zero byte.
CString(s) == LET end == CHOOSE n \in DOMAIN s : s[n] = Nul /\ \A k \in 0 .. n - 1 : s[k] # Nul
              IN  [k \in 1 .. end |-> s[k - 1]]

\* The banner ends with a new line.
ReadInit == /\ pc = "prompt" /\ i = 0
            /\ \E c \in Chars \cup {Nul} : out = [n \in 0 .. BufferSize - 1 |-> c]
            /\ screen = terminal_write_char(terminal_intialize, NewLine)
            /\ start = 0 /\ delivered = <<>>

ShowPrompt == /\ pc = "prompt" /\ pc' = "read"
              /\ Len(delivered) < MaxLines
              /\ screen' = print(screen, Prompt)
              /\ start' = Position(screen') /\ i' = 0
              /\ UNCHANGED <<out, delivered>>

putchar(c) == screen' = terminal_write_char(screen, c)

Character(c) ==
  /\ pc = "read" /\ i < BufferSize - 1
  /\ out' = [out EXCEPT ![i] = c] /\ i' = i + 1
  /\ putchar(c)
  /\ UNCHANGED <<pc, start, delivered>>

\* One decrement of i too few: the loop counts the backspace.
EraseCounts ==
  /\ pc = "read" /\ i > 0 /\ i < BufferSize - 1
  /\ out' = [out EXCEPT ![i - 1] = Nul] /\ UNCHANGED i
  /\ putchar(BackSpace)
  /\ UNCHANGED <<pc, start, delivered>>

Erase ==
  /\ pc = "read" /\ i > 0 /\ i < BufferSize - 1
  /\ out' = [out EXCEPT ![i - 1] = Nul] /\ i' = i - 1
  /\ putchar(BackSpace)
  /\ UNCHANGED <<pc, start, delivered>>

EraseAtStart == pc = "read" /\ i = 0 /\ UNCHANGED readVars

\* Enter, or only one byte is left.
EndOfLine ==
  /\ pc = "read" /\ pc' = "run"
  /\ out' = [out EXCEPT ![i] = Nul]
  /\ delivered' = Append(delivered, CString(out'))
  /\ UNCHANGED <<i, screen, start>>

ReadNext == ShowPrompt \/ (\E c \in Chars : Character(c)) \/ Erase \/ EraseAtStart \/ EndOfLine

-----------------------------------------------------------------------------
(* Correctness *)

Written == [k \in 1 .. i |-> out[k - 1]]

\* What the shell is given is the line as it was edited: no backspace, refused or
\* not, and no byte of an earlier line changes it.
Editor == INSTANCE LineEditor WITH MaxLength <- BufferSize - 1,
            line <- IF pc = "read" THEN Written ELSE <<>>
ImplementsLineEditor == Editor!Spec

Shows(p, c) == p \in Cells => screen.cells[p] = c

\* The screen shows the prompt and the line that Enter would deliver, from there to
\* the cursor, over the ends of rows too, and nothing that was erased; as far as
\* they are on the screen, even if the cursor has left it and come back.
ScreenShowsLine ==
  pc = "read" =>
    /\ Position(screen) = start + i
    /\ \A k \in DOMAIN Prompt : Shows(start - Len(Prompt) + k - 1, Prompt[k])
    /\ \A k \in 0 .. i - 1 : Shows(start + k, out[k])
    /\ \A p \in Cells : p >= start + i => screen.cells[p] \in {Space, Nul}
=============================================================================
