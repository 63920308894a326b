---------------------------- MODULE MCLeakLocator ----------------------------
(* Two detectors and three places, the middle one near both others. *)
EXTENDS LeakLocator, TLC

Places == {0, 4, 8}
===============================================================================
