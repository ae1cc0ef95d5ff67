--------------------------- MODULE MCModemConfig ---------------------------
(* Two versions, to go forth and back, one without a ver_info, and two     *)
(* configs, so that a copy can be cut off in the middle.                   *)
EXTENDS ModemConfig

CONSTANTS v1, v2, v3, c1, c2

MCVersions    == {v1, v2, v3}
MCUnversioned == {v3}
MCConfigs     == {c1, c2}
=============================================================================
