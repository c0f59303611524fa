----------------------------- MODULE MCKeyboard -----------------------------
(* A buffer of three cells whose indices wrap at six.  The table has two keys *)
(* and a code without a character; code 3 is one past its end, code 4 beyond  *)
(* it, and 129 the release of key 1.                                          *)
EXTENDS Keyboard

SmallTable == <<0, 65, 66>>
SomeCodes  == {0, 1, 2, 3, 4, 129}
=============================================================================
