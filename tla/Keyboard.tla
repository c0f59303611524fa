------------------------------ MODULE Keyboard ------------------------------
(***************************************************************************)
(* The classic keyboard driver and the ring buffer that each process has   *)
(* for its keys (src/keyboard, struct keyboard_buffer of task/process.h).  *)
(*                                                                         *)
(* Two actors share the buffer of the running process: the IRQ 1 handler   *)
(* pushes, the getkey system call pops.  Both run with interrupts off, so  *)
(* each is one step, and they interleave freely between them.  Neither     *)
(* looks at the other's index: the only sign that a cell is in use is that *)
(* it is not 0.                                                            *)
(***************************************************************************)
EXTENDS Integers, Sequences, FiniteSets, SequencesExt

CONSTANTS Size,       \* PEACHOS_KEYBOARD_BUFFER_SIZE, sizeof(keyboard.buf)
          Wrap,       \* 2^32: tail and head are ints that only count up
          Table,      \* keyboard_scan_set_one, as a sequence of characters
          Stray,      \* what the byte behind the table may hold instead of 0
          ScanCodes,  \* the bytes the PS/2 port can deliver
          MaxKeys     \* bound: the keys that reach the buffer

ASSUME KeyboardAssumption ==
  /\ Size \in Nat \ {0}
  /\ Wrap \in Nat \ {0} /\ Wrap % Size = 0 /\ Size < Wrap
  /\ MaxKeys \in Nat
  /\ ScanCodes \subseteq 0 .. 255
  /\ Table \in Seq(Nat) /\ Stray \in Nat

VARIABLES buf, tail, head,  \* struct keyboard_buffer
          past,             \* the byte the linker put behind the scan table
          ret,              \* what the last getkey returned
          typed, got,       \* history: characters pushed, characters popped
          overrun           \* history: a push has hit a cell still in use

vars == <<buf, tail, head, past, ret, typed, got, overrun>>

Cells == 0 .. Size - 1
Chars == (ToSet(Table) \cup {Stray}) \ {0}

Released(code) == code >= 128     \* code & CLASSIC_KEYBOARD_KEY_RELEASED

\* Entry i of the table is Table[i + 1].  The size check lets one code too many
\* through: the code that equals the size reads the byte behind the table.
classic_keyboard_scancode_to_char(code) ==
  IF code > Len(Table) THEN 0
  ELSE IF code = Len(Table) THEN past
  ELSE Table[code + 1]

Init == /\ buf = [k \in Cells |-> 0]
        /\ tail = 0 /\ head = 0
        /\ past \in {0, Stray}
        /\ ret = 0
        /\ typed = <<>> /\ got = <<>>
        /\ overrun = FALSE

PushStopsAtWrap(c) ==
  /\ buf' = [buf EXCEPT ![tail % Size] = c]
  /\ tail' = (IF tail = Wrap - 1 THEN tail ELSE tail + 1)
  /\ overrun' = (overrun \/ buf[tail % Size] # 0)
  /\ typed' = Append(typed, c)

PushNeverWraps(c) ==
  /\ buf' = [buf EXCEPT ![tail % Size] = c]
  /\ tail' = tail + 1
  /\ overrun' = (overrun \/ buf[tail % Size] # 0)
  /\ typed' = Append(typed, c)

keyboard_push(c) ==
  /\ buf' = [buf EXCEPT ![tail % Size] = c]
  /\ tail' = (tail + 1) % Wrap
  /\ overrun' = (overrun \/ buf[tail % Size] # 0)
  /\ typed' = Append(typed, c)

\* classic_keyboard_handle_interupt, for the byte read from the port.
Interrupt(code) ==
  LET c == classic_keyboard_scancode_to_char(code) IN
  /\ IF Released(code) \/ c = 0
       THEN UNCHANGED <<buf, tail, overrun, typed>>
       ELSE Len(typed) < MaxKeys /\ keyboard_push(c)
  /\ UNCHANGED <<head, past, ret, got>>

PopKeepsCell ==
  LET c == buf[head % Size] IN
  IF c = 0
    THEN UNCHANGED <<buf, head>>
    ELSE head' = (head + 1) % Wrap /\ UNCHANGED buf

PopMovesAlways ==
  LET c == buf[head % Size] IN
  /\ buf' = [buf EXCEPT ![head % Size] = 0]
  /\ head' = (head + 1) % Wrap

keyboard_pop ==
  LET c == buf[head % Size] IN
  IF c = 0
    THEN UNCHANGED <<buf, head>>
    ELSE /\ buf' = [buf EXCEPT ![head % Size] = 0]
         /\ head' = (head + 1) % Wrap

\* isr80h_command2_getkey.
Getkey ==
  /\ keyboard_pop
  /\ ret' = buf[head % Size]
  /\ got' = IF ret' = 0 THEN got ELSE Append(got, ret')
  /\ UNCHANGED <<tail, past, typed, overrun>>

Next == (\E code \in ScanCodes : Interrupt(code)) \/ Getkey

Spec == Init /\ [][Next]_vars

\* The reader polls: peachos_getkey_block of the user library repeats getkey
\* until it returns a key, and the shell reads line after line.
FairSpec == Spec /\ WF_vars(Getkey)

-----------------------------------------------------------------------------

TypeOK == /\ past \in {0, Stray}
          /\ buf \in [Cells -> Chars \cup {0}]
          /\ tail \in 0 .. Wrap - 1 /\ head \in 0 .. Wrap - 1
          /\ ret \in Chars \cup {0}
          /\ typed \in Seq(Chars) /\ Len(typed) <= MaxKeys
          /\ got \in Seq(Chars)
          /\ overrun \in BOOLEAN

\* The characters between head and tail, oldest first.
Waiting == (tail - head) % Wrap
Queue == IF overrun THEN <<>>
         ELSE [k \in 1 .. Waiting |-> buf[(head + k - 1) % Size]]

Abstract == INSTANCE KeyQueue WITH
              Capacity <- Size, queue <- Queue, broken <- overrun

\* Until more than Size keys wait, the handler and getkey are the two ends of a
\* queue: characters come out in the order they were typed, and getkey returns 0
\* only when none waits.  The indices may wrap around the int meanwhile.
ImplementsQueue == Abstract!Spec

Occurrences(s, c) == Cardinality({k \in DOMAIN s : s[k] = c})

\* Whatever is overwritten, no key is ever delivered twice and none is made up:
\* what was read and what is still in a cell was typed that many times.
NoKeyTwice ==
  \A c \in Chars :
    Occurrences(got, c) + Occurrences(buf, c) <= Occurrences(typed, c)

\* Every key that reaches the buffer is read, unless the reader was so slow that
\* the buffer was overrun.
EveryKeyRead == \A n \in 1 .. MaxKeys :
                  Len(typed) >= n ~> (overrun \/ Len(got) >= n)
=============================================================================
