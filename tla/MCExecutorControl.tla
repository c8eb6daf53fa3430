-------------------------- MODULE MCExecutorControl --------------------------
(* ExecutorControl for TLC: the bounds are given by the cfg file. *)
EXTENDS ExecutorControl
=============================================================================
