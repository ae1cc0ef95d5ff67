--------------------------- MODULE MCHalLifecycle ---------------------------
(* The .cfg files choose one or two sub-HALs, and a restart in their posts. *)
EXTENDS HalLifecycle
=============================================================================
