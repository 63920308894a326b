------------------------------ MODULE AlarmEngine ------------------------------
(***************************************************************************)
(* backend/services/alarm.go, the alarm engine used as long as no          *)
(* LaserReceiver runs. Unlike AlarmRouter it has no goroutine of its own:  *)
(* each reading is checked in a goroutine of its own, and the check, the   *)
(* creation and the row of an alarm are separate steps.                    *)
(***************************************************************************)
EXTENDS Integers

CONSTANTS
  Device,
  Check,            \* goroutines of CheckAlarm; the alarm one creates has its name
  Concentration,    \* readings, as they arrive
  Level1Threshold, Level2Threshold, Level3Threshold

ASSUME EngineNumbers ==
  /\ Device # {}
  /\ Concentration \subseteq Nat
  /\ {Level1Threshold, Level2Threshold, Level3Threshold} \subseteq Nat
  /\ Level1Threshold <= Level2Threshold /\ Level2Threshold <= Level3Threshold

VARIABLES
  checks,       \* per check: where it is, its device and level, the alarm it
                \* resolves, and whether another check of the device created
                \* an alarm between its look and its own creation
  activeAlarms, \* device -> alarm
  alarmRows,    \* alarms table: "none", "open" or "resolved"
  acknowledged  \* alarms acknowledged with success

engVars == <<checks, activeAlarms, alarmRows, acknowledged>>

EngInit ==
  /\ checks = [k \in Check |-> [at |-> "idle", device |-> CHOOSE d \in Device : TRUE,
                                level |-> 0, alarm |-> {}, raced |-> FALSE]]
  /\ activeAlarms = [d \in {} |-> 0]
  /\ alarmRows = [k \in Check |-> "none"]
  /\ acknowledged = {}

-------------------------------------------------------------------------------
(* CheckAlarm *)

GetAlarmLevel(c) ==
  CASE c >= Level3Threshold -> 3
    [] c >= Level2Threshold /\ c < Level3Threshold -> 2
    [] c >= Level1Threshold /\ c < Level2Threshold -> 1
    [] c < Level1Threshold -> 0

StartCheck(k, d, c) ==
  /\ checks[k].at = "idle"
  /\ checks' = [checks EXCEPT ![k].at = IF GetAlarmLevel(c) = 0 THEN "resolve" ELSE "look",
                              ![k].device = d, ![k].level = GetAlarmLevel(c)]
  /\ UNCHANGED <<activeAlarms, alarmRows, acknowledged>>

ResolveAlarm(k) ==
  /\ checks[k].at = "resolve"
  /\ LET d == checks[k].device
     IN IF d \in DOMAIN activeAlarms
          THEN /\ activeAlarms' = [e \in DOMAIN activeAlarms \ {d} |-> activeAlarms[e]]
               /\ checks' = [checks EXCEPT ![k].at = "update", ![k].alarm = {activeAlarms[d]}]
          ELSE /\ checks' = [checks EXCEPT ![k].at = "done"]
               /\ UNCHANGED activeAlarms
  /\ UNCHANGED <<alarmRows, acknowledged>>

\* The update changes nothing if the row is not there yet.
ResolveRow(k) ==
  /\ checks[k].at = "update"
  /\ alarmRows' = [a \in Check |-> IF a \in checks[k].alarm /\ alarmRows[a] = "open"
                                     THEN "resolved" ELSE alarmRows[a]]
  /\ checks' = [checks EXCEPT ![k].at = "done"]
  /\ UNCHANGED <<activeAlarms, acknowledged>>

\* Mutant of NeedsAlarm: a known level does not matter.
EveryTime(d, level) == d \in Device /\ level > 0

NeedsAlarm(d, level) ==
  d \notin DOMAIN activeAlarms \/ checks[activeAlarms[d]].level # level

LookUpAlarm(k) ==
  /\ checks[k].at = "look"
  /\ checks' = [checks EXCEPT
       ![k].at = IF NeedsAlarm(checks[k].device, checks[k].level) THEN "create" ELSE "done"]
  /\ UNCHANGED <<activeAlarms, alarmRows, acknowledged>>

\* An alarm that was active is replaced; its row stays open.
CreateAlarm(k) ==
  /\ checks[k].at = "create"
  /\ LET d == checks[k].device
     IN /\ activeAlarms' = [e \in DOMAIN activeAlarms \cup {d} |->
                              IF e = d THEN k ELSE activeAlarms[e]]
        /\ checks' = [j \in Check |->
             IF j = k THEN [checks[j] EXCEPT !.at = "save"]
             ELSE [checks[j] EXCEPT
                     !.raced = @ \/ (checks[j].at = "create" /\ checks[j].device = d)]]
  /\ UNCHANGED <<alarmRows, acknowledged>>

SaveAlarmToDB(k) ==
  /\ checks[k].at = "save"
  /\ \E saved \in {"open", "none"} : alarmRows' = [alarmRows EXCEPT ![k] = saved]
  /\ checks' = [checks EXCEPT ![k].at = "trigger"]
  /\ UNCHANGED <<activeAlarms, acknowledged>>

\* MQTT, SMS, emergency control and broadcast get goroutines of their own.
TriggerAlarm(k) ==
  /\ checks[k].at = "trigger"
  /\ checks' = [checks EXCEPT ![k].at = "done"]
  /\ UNCHANGED <<activeAlarms, alarmRows, acknowledged>>

CheckAlarm(k) ==
  \/ ResolveAlarm(k) \/ ResolveRow(k) \/ LookUpAlarm(k)
  \/ CreateAlarm(k) \/ SaveAlarmToDB(k)

\* The map and the row are updated under the lock; the row may be missing.
AcknowledgeAlarm(d) ==
  /\ d \in DOMAIN activeAlarms
  /\ acknowledged' = acknowledged \cup {activeAlarms[d]}
  /\ UNCHANGED <<checks, activeAlarms, alarmRows>>

-------------------------------------------------------------------------------
(* Properties *)

EngTypeOK ==
  /\ \A k \in Check :
       /\ checks[k].at \in {"idle", "resolve", "update", "look", "create", "save", "trigger", "done"}
       /\ checks[k].device \in Device /\ checks[k].level \in 0 .. 3
       /\ checks[k].alarm \subseteq Check /\ checks[k].raced \in BOOLEAN
  /\ DOMAIN activeAlarms \subseteq Device /\ \A d \in DOMAIN activeAlarms : activeAlarms[d] \in Check
  /\ alarmRows \in [Check -> {"none", "open", "resolved"}]
  /\ acknowledged \subseteq Check

(* The look and the creation are two critical sections: an alarm takes the   *)
(* place of an active one of the same level only if another check of the     *)
(* device created one in between.                                            *)
RepeatsAreRaces ==
  [][\A d \in DOMAIN activeAlarms \cap DOMAIN activeAlarms' :
       LET old == activeAlarms[d]
           new == activeAlarms'[d]
       IN old = new \/ checks[old].level # checks[new].level \/ checks[new].raced]_engVars
===============================================================================
