--------------------------- MODULE MCCameraMotor ---------------------------
(* The .cfg files choose how many events come from outside: any mix of      *)
(* camera, fall, screen, motor and user events, and crashes.                *)
EXTENDS CameraMotor
=============================================================================
