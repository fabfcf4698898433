-------------------------- MODULE MCCompletionPath --------------------------
(***************************************************************************)
(* CompletionPath for TLC: two sockets whose cqueues can be full, futexes  *)
(* that wrap around.                                                       *)
(***************************************************************************)
EXTENDS CompletionPath
=============================================================================
