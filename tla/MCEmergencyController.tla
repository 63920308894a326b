------------------------ MODULE MCEmergencyController ------------------------
(***************************************************************************)
(* A valve and a fan, in one zone (ZoneOf <- Together) or in a zone each   *)
(* (ZoneOf <- Apart).                                                      *)
(***************************************************************************)
EXTENDS EmergencyController, TLC

CONSTANTS z1, z2, v1, f1

Together == v1 :> z1 @@ f1 :> z1
Apart    == v1 :> z1 @@ f1 :> z2
===============================================================================
