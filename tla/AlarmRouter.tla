------------------------------ MODULE AlarmRouter ------------------------------
(***************************************************************************)
(* backend/modules/alarm_router/alarm_router.go: one goroutine takes       *)
(* validated readings from dataChan, keeps at most one active alarm per    *)
(* device, writes alarms to PostgreSQL and offers them to alarmChan        *)
(* without blocking.  Operators acknowledge alarms at the same time.       *)
(*                                                                         *)
(* A concentration is a small number; only its order with respect to the   *)
(* three thresholds matters.  An alarm is an index of the sequence alarms, *)
(* the heap of models.Alarm objects; the table alarms of PostgreSQL is     *)
(* three sets of such indices.                                             *)
(***************************************************************************)
EXTENDS Naturals, Sequences

CONSTANTS
  Device, Concentration,
  Level1, Level2, Level3,   \* cfg.Level1Threshold ...
  DataCap, AlarmCap,        \* capacities of the two channels
  MaxReadings               \* bound: readings offered in a behaviour

ASSUME ThresholdsAscend ==
  /\ Concentration \subseteq Nat
  /\ {Level1, Level2, Level3} \subseteq Nat \ {0}
  /\ Level1 < Level2 /\ Level2 < Level3
ASSUME RouterBounds == {DataCap, AlarmCap, MaxReadings} \subseteq Nat

VARIABLES
  running,         \* AlarmRouter.running
  at,              \* where dataReceiver is
  reading,         \* the reading it holds
  hand,            \* the alarm it holds; 0 is nil
  dataChan, alarmChan,
  alarms,          \* every alarm created: [device, level, acked]
  active,          \* activeAlarms; 0 when the device has no entry
  saved, savedAcked, savedResolved,   \* rows, and rows with the flag set
  dbErrors,        \* alarms for which a statement to PostgreSQL failed
  lastLevel,       \* level of the last reading taken for a device
  offered          \* readings offered so far

routerVars == <<at, reading, hand, alarms, active, lastLevel>>
dbVars     == <<saved, savedAcked, savedResolved, dbErrors>>
vars == <<running, routerVars, dataChan, alarmChan, dbVars, offered>>

Reading == [device : Device, concentration : Concentration]
Alarm   == [device : Device, level : 1 .. 3, acked : BOOLEAN]
Place   == {"poll", "select", "judge", "create", "save", "trigger",
            "resolveRow", "gone"}

\* getAlarmLevel
Level(c) ==
  IF c >= Level3 THEN 3 ELSE IF c >= Level2 THEN 2 ELSE IF c >= Level1 THEN 1
  ELSE 0

\* Level of the active alarm of d, 0 when there is none.
ActiveLevel(d) == IF active[d] = 0 THEN 0 ELSE alarms[active[d]].level

\* A send that gives up when the channel is full.
Trying(q, cap, x) == IF Len(q) < cap THEN Append(q, x) ELSE q

\* Mutants of NeedsAlarm: only an escalation raises an alarm; every reading
\* does; only a device that has an alarm gets another.
OnlyEscalation(d, level) == ActiveLevel(d) < level
EveryReading(d, level)   == ActiveLevel(d) \in Nat /\ level # 0
OnlyKnownDevice(d, level) == ActiveLevel(d) \notin {0, level}

\* !exists || existingAlarm.Level != level
NeedsAlarm(d, level) == ActiveLevel(d) # level

\* Mutants of Follows: the alarm is routed before it is saved, or never.
RoutedFirst == [create |-> "trigger", trigger |-> "save", save |-> "poll"]
NeverRouted == [create |-> "save", save |-> "poll", trigger |-> "poll"]

\* createAlarm saves the alarm, triggerAlarm comes after it.
Follows == [create |-> "save", save |-> "trigger", trigger |-> "poll"]

\* Mutant of Resolution: the row is never updated.
ResolvesNone(d) == IF d \in Device THEN "poll" ELSE "resolveRow"

\* if exists, in resolveAlarm
Resolution(d) == IF active[d] = 0 THEN "poll" ELSE "resolveRow"

Init ==
  /\ running = TRUE
  /\ at = "poll" /\ hand = 0 /\ reading \in {r \in Reading : Level(r.concentration) = 0}
  /\ dataChan = <<>> /\ alarmChan = <<>> /\ alarms = <<>>
  /\ active = [d \in Device |-> 0] /\ lastLevel = [d \in Device |-> 0]
  /\ saved = {} /\ savedAcked = {} /\ savedResolved = {} /\ dbErrors = {}
  /\ offered = 0

-------------------------------------------------------------------------------
(* dataReceiver *)

\* The flag is read before the select, so one more reading may be taken
\* after Stop.
Poll ==
  /\ at = "poll"
  /\ at' = IF running THEN "select" ELSE "gone"
  /\ UNCHANGED <<running, reading, hand, alarms, active, lastLevel, dataChan,
                 alarmChan, dbVars, offered>>

Receive ==
  /\ at = "select" /\ dataChan # <<>>
  /\ reading' = Head(dataChan)
  /\ dataChan' = Tail(dataChan)
  /\ lastLevel' = [lastLevel EXCEPT ![Head(dataChan).device] =
                     Level(Head(dataChan).concentration)]
  /\ at' = "judge"
  /\ UNCHANGED <<running, hand, alarms, active, alarmChan, dbVars, offered>>

\* time.After(100 ms)
SelectTimeout ==
  /\ at = "select"
  /\ at' = "poll"
  /\ UNCHANGED <<running, reading, hand, alarms, active, lastLevel, dataChan,
                 alarmChan, dbVars, offered>>

JudgedLevel == Level(reading.concentration)

\* resolveAlarm takes the alarm out of the map under the lock ...
Resolve ==
  /\ at = "judge" /\ JudgedLevel = 0
  /\ hand' = active[reading.device]
  /\ active' = [active EXCEPT ![reading.device] = 0]
  /\ at' = Resolution(reading.device)
  /\ UNCHANGED <<running, reading, alarms, lastLevel, dataChan, alarmChan,
                 dbVars, offered>>

\* ... and updates the row after it; the result of the update is ignored.
ResolveRow ==
  /\ at = "resolveRow"
  /\ \/ /\ savedResolved' = savedResolved \cup ({hand} \cap saved)
        /\ UNCHANGED dbErrors
     \/ /\ dbErrors' = dbErrors \cup {hand}
        /\ UNCHANGED savedResolved
  /\ at' = "poll"
  /\ UNCHANGED <<running, reading, hand, alarms, active, lastLevel, dataChan,
                 alarmChan, saved, savedAcked, offered>>

\* An alarm of another level, or none, is in the map.
Rise ==
  /\ at = "judge" /\ JudgedLevel # 0
  /\ at' = IF NeedsAlarm(reading.device, JudgedLevel) THEN "create" ELSE "poll"
  /\ UNCHANGED <<running, reading, hand, alarms, active, lastLevel, dataChan,
                 alarmChan, dbVars, offered>>

\* createAlarm replaces the entry, whatever alarm was there.
Create ==
  /\ at = "create"
  /\ alarms' = Append(alarms, [device |-> reading.device,
                               level |-> JudgedLevel, acked |-> FALSE])
  /\ hand' = Len(alarms) + 1
  /\ active' = [active EXCEPT ![reading.device] = Len(alarms) + 1]
  /\ at' = Follows.create
  /\ UNCHANGED <<running, reading, lastLevel, dataChan, alarmChan, dbVars,
                 offered>>

\* saveAlarmToDB; an error is only logged.
Save ==
  /\ at = "save"
  /\ \/ saved' = saved \cup {hand} /\ UNCHANGED dbErrors
     \/ dbErrors' = dbErrors \cup {hand} /\ UNCHANGED saved
  /\ at' = Follows.save
  /\ UNCHANGED <<running, reading, hand, alarms, active, lastLevel, dataChan,
                 alarmChan, savedAcked, savedResolved, offered>>

\* triggerAlarm: a full alarmChan drops the alarm, which stays active.
Trigger ==
  /\ at = "trigger"
  /\ alarmChan' = Trying(alarmChan, AlarmCap, hand)
  /\ at' = Follows.trigger
  /\ UNCHANGED <<running, reading, hand, alarms, active, lastLevel, dataChan,
                 dbVars, offered>>

ReceiverStep ==
  \/ Poll \/ Receive \/ SelectTimeout \/ Resolve \/ ResolveRow \/ Rise
  \/ Create \/ Save \/ Trigger

\* AcknowledgeAlarm holds alarmsMu over the update of the row, which may not
\* have been inserted yet.
Acknowledge(d) ==
  /\ active[d] # 0
  /\ alarms' = [alarms EXCEPT ![active[d]].acked = TRUE]
  /\ \/ /\ savedAcked' = savedAcked \cup ({active[d]} \cap saved)
        /\ UNCHANGED dbErrors
     \/ /\ dbErrors' = dbErrors \cup {active[d]}
        /\ UNCHANGED savedAcked
  /\ UNCHANGED <<running, at, reading, hand, active, lastLevel, dataChan,
                 alarmChan, saved, savedResolved, offered>>

Stop ==
  /\ running
  /\ running' = FALSE
  /\ UNCHANGED <<routerVars, dataChan, alarmChan, dbVars, offered>>

-------------------------------------------------------------------------------
(* The neighbours: a producer that never blocks and a consumer of alarms *)

Offer(r) ==
  /\ offered < MaxReadings
  /\ offered' = offered + 1
  /\ dataChan' = Trying(dataChan, DataCap, r)
  /\ UNCHANGED <<running, routerVars, alarmChan, dbVars>>

Consume ==
  /\ alarmChan # <<>>
  /\ alarmChan' = Tail(alarmChan)
  /\ UNCHANGED <<running, routerVars, dataChan, dbVars, offered>>

RouterStep == ReceiverStep \/ Stop \/ \E d \in Device : Acknowledge(d)

Next == RouterStep \/ Consume \/ \E r \in Reading : Offer(r)

\* The receiver is a goroutine that is never blocked for good, and a select
\* with a value ready does not prefer its timer for ever.
Fairness == WF_vars(ReceiverStep) /\ SF_vars(Receive)

SafetySpec == Init /\ [][Next]_vars
Spec == SafetySpec /\ Fairness

-------------------------------------------------------------------------------
(* Properties *)

\* Type invariant.
TypeOK ==
  /\ running \in BOOLEAN
  /\ at \in Place
  /\ reading \in Reading
  /\ dataChan \in Seq(Reading)
  /\ alarms \in Seq(Alarm)
  /\ hand \in 0 .. Len(alarms)
  /\ alarmChan \in Seq(1 .. Len(alarms))
  /\ active \in [Device -> 0 .. Len(alarms)]
  /\ saved \subseteq 1 .. Len(alarms)
  /\ savedAcked \subseteq saved /\ savedResolved \subseteq saved
  /\ dbErrors \subseteq 1 .. Len(alarms)
  /\ lastLevel \in [Device -> 0 .. 3]
  /\ offered \in 0 .. MaxReadings

\* Between two readings the active alarm of a device is its own and has the
\* level of the last reading taken for the device: neither a de-escalation
\* nor a return to normal is missed, whatever acknowledgements come between.
ActiveMatchesReading ==
  /\ \A d \in Device : active[d] # 0 => alarms[active[d]].device = d
  /\ at \in {"poll", "select"} =>
       \A d \in Device : ActiveLevel(d) = lastLevel[d]

\* Alarm j is the next one of its device after alarm i.
Succeeds(j, i) ==
  /\ alarms[j].device = alarms[i].device
  /\ \A k \in i + 1 .. j - 1 : alarms[k].device # alarms[i].device

\* An alarm is raised on a change of level only: an alarm of the same level
\* as the one before it is raised only if that one was resolved in between.
RaisedOnChange ==
  \A j \in 1 .. Len(alarms) : \A i \in 1 .. j - 1 :
    Succeeds(j, i) /\ alarms[i].level = alarms[j].level =>
      i \in savedResolved \cup dbErrors

\* The alarms table agrees with the map: a row still open belongs to the
\* active alarm of its device, to one superseded by a later alarm, or to one
\* whose update is the next statement of the receiver.
OpenRowsExplained ==
  \A i \in saved \ (savedResolved \cup dbErrors) :
    \/ active[alarms[i].device] = i
    \/ \E j \in i + 1 .. Len(alarms) : alarms[j].device = alarms[i].device
    \/ at = "resolveRow" /\ hand = i

\* sms_logs.alarm_id references alarms(id): an alarm is handed to the other
\* modules only once its row exists (or could not be written).
SavedBeforeRouted ==
  \A i \in 1 .. Len(alarmChan) : alarmChan[i] \in saved \cup dbErrors

\* handlers.go:218 answers an acknowledgement with "success".  An alarm can
\* be acknowledged between createAlarm's map insert and its row insert; the
\* update then matches no row and the row says it never happened.
AckIsRecorded ==
  \A i \in saved \ dbErrors : alarms[i].acked => i \in savedAcked

\* Inductive strengthening; module AlarmRouterProofs.  The receiver knows
\* what it holds, and what it is about to do is what the reading asks for.
HandKnown ==
  /\ at \in {"judge", "create"} => lastLevel[reading.device] = JudgedLevel
  /\ at = "create" => JudgedLevel # 0 /\ ActiveLevel(reading.device) # JudgedLevel
  /\ at \in {"save", "trigger", "resolveRow"} => hand # 0
  /\ at = "trigger" => hand \in saved \cup dbErrors

\* Every alarm was written, or failed to be, except the one being saved.
Written ==
  \A i \in 1 .. Len(alarms) :
    i \in saved \cup dbErrors \/ (at = "save" /\ hand = i)

\* An alarm that is over and was not replaced has a row that says so, or
\* whose update is the receiver's next statement.
OverIsRecorded ==
  \A i \in 1 .. Len(alarms) :
    \/ i \in savedResolved \cup dbErrors
    \/ active[alarms[i].device] = i
    \/ \E j \in i + 1 .. Len(alarms) : alarms[j].device = alarms[i].device
    \/ at = "resolveRow" /\ hand = i

\* All devices but the one whose reading is in hand are up to date.
UpToDate ==
  \A d \in Device :
    /\ active[d] # 0 => alarms[active[d]].device = d
    /\ at \notin {"judge", "create"} \/ reading.device # d =>
         ActiveLevel(d) = lastLevel[d]

RouterInv ==
  /\ TypeOK /\ HandKnown /\ Written /\ OverIsRecorded /\ UpToDate
  /\ RaisedOnChange /\ SavedBeforeRouted
===============================================================================
