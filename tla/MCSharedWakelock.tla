-------------------------- MODULE MCSharedWakelock --------------------------
(* Two sub-HAL threads, so that one can be in the middle of a post while    *)
(* the other posts, and two calls of initialize(), so that one interrupts.  *)
EXTENDS SharedWakelock

CONSTANTS c1, c2

MCClients == {c1, c2}
=============================================================================
