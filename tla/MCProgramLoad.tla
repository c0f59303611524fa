--------------------------- MODULE MCProgramLoad ---------------------------
(* Two process slots, three descriptors, and a heap that fills up with what   *)
(* is lost after a few loads. *)
EXTENDS ProgramLoad
=============================================================================
