--------------------------- MODULE MCCommandLine ---------------------------
(* A prompt of two cells in rows of three, and two lines of up to four      *)
(* characters: they end in the middle of a row, at its end or in the next   *)
(* one, and have up to two words, with blanks around them and cut or not.   *)
EXTENDS CommandLine
CONSTANTS Greater
MCPrompt == <<Greater, Space>>
=============================================================================
