------------------------------ MODULE KeyQueue ------------------------------
(***************************************************************************)
(* What the keyboard layer (src/keyboard) promises the process that reads  *)
(* it: a queue of characters, oldest first, and 0 from getkey when there   *)
(* is nothing to read.  The promise is void from the moment a key arrives  *)
(* while Capacity characters wait.                                         *)
(***************************************************************************)
EXTENDS Sequences, Naturals

CONSTANTS Chars,      \* the characters keys can stand for, none of them 0
          Capacity    \* PEACHOS_KEYBOARD_BUFFER_SIZE

VARIABLES queue,      \* the characters that wait
          ret,        \* what the last getkey returned
          broken      \* more keys came than the queue holds

vars == <<queue, ret, broken>>

Init == queue = <<>> /\ ret = 0 /\ broken = FALSE

Key(c) == /\ ~broken /\ Len(queue) < Capacity
          /\ queue' = Append(queue, c)
          /\ UNCHANGED <<ret, broken>>

KeyTooMany == /\ ~broken /\ Len(queue) = Capacity
              /\ broken' = TRUE
              /\ UNCHANGED ret

Getkey == /\ ~broken
          /\ IF queue = <<>>
               THEN ret' = 0 /\ UNCHANGED queue
               ELSE ret' = Head(queue) /\ queue' = Tail(queue)
          /\ UNCHANGED broken

Void == broken /\ broken'

Next == (\E c \in Chars : Key(c)) \/ KeyTooMany \/ Getkey \/ Void

Spec == Init /\ [][Next]_vars
=============================================================================
