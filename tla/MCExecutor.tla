----------------------------- MODULE MCExecutor -----------------------------
(* Executor for TLC: its parameters are numbers. *)
EXTENDS Executor
=============================================================================
