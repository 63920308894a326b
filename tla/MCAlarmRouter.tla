---------------------------- MODULE MCAlarmRouter ----------------------------
(***************************************************************************)
(* Two devices whose readings fall below, on and above the thresholds.     *)
(***************************************************************************)
EXTENDS AlarmRouter, TLC

CONSTANTS d1, d2

DeviceSymmetry == Permutations({d1, d2})
===============================================================================
