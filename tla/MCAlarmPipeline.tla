--------------------------- MODULE MCAlarmPipeline ---------------------------
(***************************************************************************)
(* Concentrations: 0 is not forwarded, 1 is forwarded and normal, 2 to 4   *)
(* are alarms of level 1 to 3.                                             *)
(***************************************************************************)
EXTENDS AlarmPipeline

CONSTANTS d1, d2
===============================================================================
