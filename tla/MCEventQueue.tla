---------------------------- MODULE MCEventQueue ----------------------------
(* The event path for TLC: a small FMQ, batches that are longer than it and *)
(* a restart.                                                               *)
EXTENDS EventQueue
=============================================================================
