------------------------------- MODULE MCTrap -------------------------------
(* Two tasks: the shell starts one program, further starts fail. *)
EXTENDS Trap
=============================================================================
