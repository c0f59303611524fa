------------------------------ MODULE Terminal ------------------------------
(***************************************************************************)
(* The text terminal of kernel.c, as operators on a record of the cursor   *)
(* and the video memory.  Video memory is linear: what is written behind   *)
(* the last column of a row is at the start of the next one.  The model    *)
(* has the rows that are cleared at boot; nothing in the code scrolls, or  *)
(* keeps the cursor on them.                                               *)
(***************************************************************************)
EXTENDS Integers, SequencesExt

CONSTANTS Width, Rows,        \* VGA_WIDTH, VGA_HEIGHT
          Chars,              \* printable characters, with Space
          Space, Nul,         \* what an empty cell holds: ' ' or 0x00
          NewLine, BackSpace

ASSUME TerminalAssumption ==
  /\ Width \in Nat \ {0} /\ Rows \in Nat \ {0}
  /\ Space \in Chars /\ Chars \cap {Nul, NewLine, BackSpace} = {}
  /\ NewLine # BackSpace

Cells == 0 .. Width * Rows - 1

Position(t) == t.row * Width + t.col

terminal_put_char(t, x, y, c) == [t EXCEPT !.cells[y * Width + x] = c]

\* A backspace that stays in its row.
BackspaceInRow(t) ==
  IF t.col = 0 THEN t
  ELSE terminal_put_char([t EXCEPT !.col = @ - 1], t.col - 1, t.row, Nul)

terminal_backspace(t) ==
  IF t.row = 0 /\ t.col = 0 THEN t
  ELSE LET col == IF t.col > 0 THEN t.col - 1 ELSE Width - 1
           row == IF t.col > 0 THEN t.row ELSE t.row - 1
       IN  terminal_put_char([t EXCEPT !.row = row, !.col = col], col, row, Nul)

terminal_write_char(t, c) ==
  CASE c = NewLine   -> [t EXCEPT !.row = @ + 1, !.col = 0]
    [] c = BackSpace -> terminal_backspace(t)
    [] OTHER -> LET wraps == t.col + 1 >= Width
                    put   == terminal_put_char(t, t.col, t.row, c)
                IN  [put EXCEPT !.col = IF wraps THEN 0 ELSE @ + 1,
                                !.row = IF wraps THEN @ + 1 ELSE @]

terminal_intialize == [row |-> 0, col |-> 0, cells |-> [p \in Cells |-> Space]]

print(t, str) ==
  LET shown[n \in 0 .. Len(str)] ==
        IF n = 0 THEN t ELSE terminal_write_char(shown[n - 1], str[n])
  IN  shown[Len(str)]
=============================================================================
