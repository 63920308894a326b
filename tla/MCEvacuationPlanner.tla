-------------------------- MODULE MCEvacuationPlanner --------------------------
(***************************************************************************)
(* Three corridor points, an exit at the last, where node and exit are     *)
(* equally near, and one beyond it.  The first door is at the middle point *)
(* and goes to either stretch, or to the exit that is as near; the second  *)
(* is on the second stretch.                                               *)
(***************************************************************************)
EXTENDS EvacuationPlanner, TLC

CONSTANTS x1, x2, d1, d2

Line   == <<0, 4, 8>>
Exits  == x1 :> 10 @@ x2 :> 8
Doors  == d1 :> 4 @@ d2 :> 5
Nearby == {8}
===============================================================================
