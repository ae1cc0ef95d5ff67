-------------------------- MODULE MCAlsCorrection --------------------------
(* Half a lux for each unit of the raw reading.  Readings in total darkness,*)
(* of half a lux, below 10 lux, between 10 and 71, above 71 where the gain  *)
(* can change, and in the full light where an estimate may not be believed; *)
(* the panel off, dim, and brighter than the readings; an estimate that     *)
(* leaves half a lux of a reading of 8.                                     *)
EXTENDS AlsCorrection
=============================================================================
