-------------------------- MODULE MCSensorRegistry --------------------------
(* Two sub-HALs that both have direct channels and wake-up sensors, with    *)
(* handles that coincide, a light sensor, and a dynamic wake-up sensor with *)
(* direct channels that two threads may report; and a handle of each kind   *)
(* whose index bits are already in use.                                     *)
EXTENDS SensorRegistry, TLC

MCStaticSensors ==
  0 :> (1 :> {"WISE_LIGHT"} @@ 2 :> {"DIRECT"}) @@
  1 :> (1 :> {"DIRECT", "WAKE_UP"} @@ 5 :> {"DIRECT"})

MCDynamicSensors ==
  0 :> (3 :> {"DIRECT", "WAKE_UP"} @@ 6 :> {}) @@
  1 :> <<>>

MCSymmetry == Permutations(Threads)
=============================================================================
