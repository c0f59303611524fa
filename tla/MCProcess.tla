------------------------------ MODULE MCProcess ------------------------------
(* Four process slots, of which number 1 stands for EISTKN. *)
EXTENDS Process
=============================================================================
