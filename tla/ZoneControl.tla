------------------------------ MODULE ZoneControl ------------------------------
(***************************************************************************)
(* EmergencyControlService of backend/services/emergency.go: for every     *)
(* alarm of level 2 or more one goroutine closes the valves of the zone    *)
(* and another one starts its fans. All of them use the map activeControls *)
(* and none takes a lock: the runtime may end the program when it notices, *)
(* and two goroutines may both find a device that has not been ordered.    *)
(***************************************************************************)
EXTENDS Integers, Sequences

CONSTANTS
  Alarm,
  Valves, Fans    \* sequences: the devices of the zone as the query returns them

ASSUME ZoneLists == Valves \in Seq(STRING) /\ Fans \in Seq(STRING)

VARIABLES
  loops,      \* [Alarm \X {"valves", "fans"}]: where the goroutine is, the
              \* devices it has still to do, and whether another one marked the
              \* device between its look and its mark
  marked,     \* devices whose activeControls entry is less than 5 minutes old
  crashed     \* the program ended with "concurrent map writes"

zoneVars == <<loops, marked, crashed>>

Loop == Alarm \X {"valves", "fans"}

ZoneInit ==
  /\ loops = [l \in Loop |-> [at |-> "none", todo |-> <<>>, raced |-> FALSE]]
  /\ marked = {} /\ crashed = FALSE

Devices(l) == IF l[2] = "valves" THEN Valves ELSE Fans

-------------------------------------------------------------------------------
\* HandleEmergency, and the query of either goroutine, which may fail.
HandleEmergency(a) ==
  /\ \A l \in Loop : l[1] = a => loops[l].at = "none"
  /\ \E failed \in SUBSET {"valves", "fans"} :
       loops' = [l \in Loop |->
         IF l[1] # a THEN loops[l]
         ELSE [at |-> IF l[2] \in failed THEN "done" ELSE "look",
               todo |-> Devices(l), raced |-> FALSE]]
  /\ UNCHANGED <<marked, crashed>>

\* Mutant of IsRecent: the map is not consulted.
NeverRecent(device) == device \in marked /\ crashed

IsRecent(device) == device \in marked

GoOn(l, rest) ==
  [loops[l] EXCEPT !.at = IF rest = <<>> THEN "done" ELSE "look", !.todo = rest, !.raced = FALSE]

LookUpControl(l) ==
  /\ loops[l].at = "look"
  /\ loops' = [loops EXCEPT ![l] =
       IF loops[l].todo = <<>> THEN [@ EXCEPT !.at = "done"]
       ELSE IF IsRecent(Head(loops[l].todo)) THEN GoOn(l, Tail(loops[l].todo))
       ELSE [@ EXCEPT !.at = "mark"]]
  /\ UNCHANGED <<marked, crashed>>

AtMark(device) == {l \in Loop : loops[l].at = "mark" /\ Head(loops[l].todo) = device}

\* The order itself, the row and the log are the business of a goroutine of the
\* device; nobody here reads what it does.
MarkControl(l) ==
  /\ loops[l].at = "mark"
  /\ LET device == Head(loops[l].todo)
     IN /\ marked' = marked \cup {device}
        /\ loops' = [k \in Loop |->
             IF k = l THEN GoOn(l, Tail(loops[l].todo))
             ELSE [loops[k] EXCEPT !.raced = @ \/ k \in AtMark(device)]]
  /\ UNCHANGED crashed

\* Two goroutines are at the map at once, one of them to write.
MapFault ==
  /\ \E k, l \in Loop : k # l /\ loops[k].at = "mark" /\ loops[l].at \in {"look", "mark"}
  /\ crashed' = TRUE
  /\ UNCHANGED <<loops, marked>>

FiveMinutesPass(device) ==
  /\ device \in marked
  /\ marked' = marked \ {device}
  /\ UNCHANGED <<loops, crashed>>

ControlZone == \E l \in Loop : LookUpControl(l) \/ MarkControl(l)

-------------------------------------------------------------------------------
(* Properties *)

ZoneTypeOK ==
  /\ \A l \in Loop : loops[l].at \in {"none", "look", "mark", "done"} /\ loops[l].raced \in BOOLEAN
  /\ crashed \in BOOLEAN

(* The map is read and written without a lock: a device is ordered again     *)
(* within five minutes only by a goroutine that another one overtook between *)
(* the two.                                                                  *)
SecondOrdersAreRaces ==
  [][\A l \in Loop : loops[l].at = "mark" /\ loops'[l].at # "mark" =>
       Head(loops[l].todo) \notin marked \/ loops[l].raced]_zoneVars
===============================================================================
