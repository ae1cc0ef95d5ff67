--------------------------- MODULE MCEventDelivery ---------------------------
(* One sub-HAL thread is enough here: posts exclude each other by the mutex, *)
(* and their interleaving outside of it is what MCSharedWakelock covers.     *)
EXTENDS EventDelivery

CONSTANT c1

\* A batch with no reference, and one whose references are split between what is
\* written at once, what waits and what is dropped.
MCBatchKinds == {<<FALSE>>, <<TRUE, TRUE>>}

\* A batch that is written in part before its rest waits and is dropped.
MCLongBatch == {<<TRUE, TRUE, TRUE>>}
=============================================================================
