----------------------------- MODULE LineEditor -----------------------------
(* What reading a line promises: a line of at most MaxLength characters is  *)
(* edited at its end; Enter delivers it, and so does its last character.    *)
EXTENDS Sequences, SequencesExt, Integers

CONSTANTS Chars, MaxLength

VARIABLES line, delivered    \* what is edited; the lines delivered so far

vars == <<line, delivered>>

Init == line = <<>> /\ delivered = <<>>

Type(c) == /\ Len(line) < MaxLength
           /\ line' = Append(line, c) /\ UNCHANGED delivered

Erase == line # <<>> /\ line' = Front(line) /\ UNCHANGED delivered

Deliver == delivered' = Append(delivered, line) /\ line' = <<>>

Next == (\E c \in Chars : Type(c)) \/ Erase \/ Deliver

Spec == Init /\ [][Next]_vars
=============================================================================
