------------------------- MODULE EmergencyController -------------------------
(***************************************************************************)
(* backend/modules/emergency_controller/emergency_controller.go: the       *)
(* goroutine that takes alarms, the goroutine that executes commands, one  *)
(* goroutine per device it decides to control, and the HTTP handler that   *)
(* resets a zone, over a cooldown table with a lock and over the rows of   *)
(* valves and fans in PostgreSQL.  The handlers ControlValve and ControlFan *)
(* of backend/api/handlers.go write the same rows and order nothing.       *)
(*                                                                         *)
(* An order is what ControlValve or ControlFan publishes: "closed" or      *)
(* "open" for a valve, a speed or "stopped" for a fan.  The MQTT layer is  *)
(* external here: it accepts an order or reports an error.                 *)
(***************************************************************************)
EXTENDS Naturals, Sequences, FiniteSets

CONSTANTS
  Zone, Valve, Fan,
  ZoneOf,              \* fire_zone of every valve and fan
  AlarmCap, CommandCap,
  LongOutages,         \* may a publish wait longer than ControlCooldown?
  MaxAlarms,           \* bound: alarms raised in a behaviour
  MaxResets,           \* bound: resets of a zone
  MaxByHand            \* bound: rows written by hand

ASSUME DevicesAreDistinct == Valve \cap Fan = {}
ASSUME ZonesAreKnown == Zone # {} /\ ZoneOf \in [Valve \cup Fan -> Zone]
ASSUME OutageAssumption == LongOutages \in BOOLEAN
ASSUME ControllerBounds ==
  {AlarmCap, CommandCap, MaxAlarms, MaxResets, MaxByHand} \subseteq Nat

\* cfg.ValveControlLevel, cfg.EvacuationLevel, cfg.FanSpeedHighLevel
ValveControlLevel == 2
EvacuationLevel   == 3
FanSpeedHighLevel == 3

Dev         == Valve \cup Fan
Order       == {"open", "closed", "stopped", "normal", "high"}
Status      == Order \cup {"other speed"}
CommandType == {"close_valves", "start_fans", "evacuation"}

VARIABLES
  running,      \* EmergencyController.running
  chanOpen,     \* commandChan has not been closed
  panicked,     \* a goroutine sent on the closed channel: the process died
  alarms,       \* every alarm raised: [zone, level]
  alarmChan,    \* indices of alarms
  commandChan,  \* [type, alarm]; the zone is the alarm's
  rcvAt,        \* where alarmReceiver is
  rcvAlarm,     \* the alarm it handles; 0 is none
  proc,         \* commandProcessor: [alarm, todo], the devices left of a command
  hot,          \* devices controlled less than ControlCooldown ago
  jobs,         \* device goroutines: [device, alarm, order, at]
  reset,        \* the reset handler: [at, zone, todo]
  resets,       \* resets of each zone so far
  row,          \* status column of valves and fans
  rowErrors,    \* devices for which the update of the row failed
  byHand,       \* devices whose row an operator wrote last
  sent,         \* last order the MQTT layer accepted for a device
  handWrites,   \* rows written by hand so far
  crossed,      \* devices that had two goroutines at a time
  answers,      \* what became of a device for an alarm: [device, alarm, result]
  notified      \* alarms an evacuation notification was sent for

lifeVars == <<running, chanOpen, panicked>>
rcvVars  == <<rcvAt, rcvAlarm>>
rowVars  == <<row, rowErrors, byHand, handWrites>>
devVars  == <<rowVars, sent>>
vars == <<lifeVars, alarms, alarmChan, commandChan, rcvVars, proc, hot, jobs,
          reset, resets, devVars, crossed, answers, notified>>

\* Mutant of InZone: the query forgets its condition.
InAnyZone(S, z) == IF z \in Zone THEN S ELSE {}

\* SELECT ... WHERE fire_zone = $1
InZone(S, z) == {d \in S : ZoneOf[d] = z}
Rest(d)      == IF d \in Valve THEN "open" ELSE "stopped"
Alarm        == 1 .. Len(alarms)
Free         == [alarm |-> 0, todo |-> {}]
Alive        == ~panicked

\* "success" and "failure" go to the control logs; a device that is cooling
\* down, or that the query failed to list, leaves no trace.
Answer(S, a, r) == [device : S, alarm : {a}, result : {r}]

Init ==
  /\ running = TRUE /\ chanOpen = TRUE /\ panicked = FALSE
  /\ alarms = <<>> /\ alarmChan = <<>> /\ commandChan = <<>>
  /\ rcvAt = "poll" /\ rcvAlarm = 0
  /\ proc = Free
  /\ hot = {} /\ jobs = {} /\ resets = [z \in Zone |-> 0]
  /\ reset = [at |-> "idle", zone |-> CHOOSE z \in Zone : TRUE, todo |-> {}]
  /\ row = [d \in Dev |-> Rest(d)]
  /\ sent = [d \in Dev |-> Rest(d)]
  /\ rowErrors = {} /\ byHand = {} /\ handWrites = 0 /\ crossed = {}
  /\ answers = {} /\ notified = {}

-------------------------------------------------------------------------------
(* alarmReceiver and handleAlarm *)

RcvPoll ==
  /\ Alive /\ rcvAt = "poll"
  /\ rcvAt' = IF running THEN "select" ELSE "gone"
  /\ UNCHANGED <<lifeVars, alarms, alarmChan, commandChan, rcvAlarm, proc, hot,
                 jobs, reset, resets, devVars, answers, notified, crossed>>

\* time.After(100 ms)
RcvTimeout ==
  /\ Alive /\ rcvAt = "select"
  /\ rcvAt' = "poll"
  /\ UNCHANGED <<lifeVars, alarms, alarmChan, commandChan, rcvAlarm, proc, hot,
                 jobs, reset, resets, devVars, answers, notified, crossed>>

\* Mutant of FirstCommand: the level itself is not enough.
FirstCommandAbove(level) == IF level > ValveControlLevel THEN "close_valves" ELSE "poll"

\* The first command an alarm of this level asks for, if any.
FirstCommand(level) == IF level >= ValveControlLevel THEN "close_valves" ELSE "poll"

RcvAlarm ==
  /\ Alive /\ rcvAt = "select" /\ alarmChan # <<>>
  /\ rcvAlarm' = Head(alarmChan)
  /\ alarmChan' = Tail(alarmChan)
  /\ rcvAt' = FirstCommand(alarms[Head(alarmChan)].level)
  /\ UNCHANGED <<lifeVars, alarms, commandChan, proc, hot, jobs, reset, resets,
                 devVars, answers, notified, crossed>>

\* Mutant of NextCommand: people are warned before the fans are started.
WarnFirst(t, level) ==
  IF t = "close_valves" /\ level >= EvacuationLevel THEN "evacuation"
  ELSE IF t = "start_fans" THEN "poll" ELSE "start_fans"

\* What handleAlarm sends after a command of type t.
NextCommand(t, level) ==
  IF t = "close_valves" THEN "start_fans"
  ELSE IF t = "start_fans" /\ level >= EvacuationLevel THEN "evacuation"
  ELSE "poll"

HasRoom == Len(commandChan) < CommandCap

\* A blocking send: the receiver waits while commandChan is full.
RcvSend ==
  /\ Alive /\ rcvAt \in CommandType /\ chanOpen
  /\ HasRoom
  /\ commandChan' = Append(commandChan, [type |-> rcvAt, alarm |-> rcvAlarm])
  /\ rcvAt' = NextCommand(rcvAt, alarms[rcvAlarm].level)
  /\ UNCHANGED <<lifeVars, alarms, alarmChan, rcvAlarm, proc, hot, jobs, reset,
                 resets, devVars, answers, notified, crossed>>

\* Stop closed the channel under the receiver.
RcvPanic ==
  /\ Alive /\ rcvAt \in CommandType /\ ~chanOpen
  /\ panicked' = TRUE
  /\ UNCHANGED <<running, chanOpen, alarms, alarmChan, commandChan, rcvVars,
                 proc, hot, jobs, reset, resets, devVars, answers, notified, crossed>>

ReceiverStep == RcvPoll \/ RcvTimeout \/ RcvAlarm \/ RcvSend \/ RcvPanic

-------------------------------------------------------------------------------
(* commandProcessor; a closed channel is still drained *)

Take(type) ==
  /\ proc = Free
  /\ commandChan # <<>> /\ Head(commandChan).type = type
  /\ commandChan' = Tail(commandChan)

\* getValvesInZone or getFansInZone: the devices of the alarm's zone, or an
\* error, and then the command is given up.
TakeZone(type, S) ==
  /\ Alive /\ Take(type)
  /\ LET a == Head(commandChan).alarm
         devices == InZone(S, alarms[a].zone)
     IN  \/ /\ proc' = IF devices = {} THEN Free ELSE [alarm |-> a, todo |-> devices]
            /\ UNCHANGED answers
         \/ /\ answers' = answers \cup Answer(devices, a, "unlisted")
            /\ UNCHANGED proc
  /\ UNCHANGED <<lifeVars, alarms, alarmChan, rcvVars, hot, jobs, reset, resets,
                 devVars, notified, crossed>>

TakeCloseValves == TakeZone("close_valves", Valve)
TakeStartFans   == TakeZone("start_fans", Fan)

\* sendEvacuationNotification: MQTT and SMS; the message says that the
\* valves of the zone are closed and the fans running.
SendEvacuationNotification ==
  /\ Alive /\ Take("evacuation")
  /\ notified' = notified \cup {Head(commandChan).alarm}
  /\ UNCHANGED <<lifeVars, alarms, alarmChan, rcvVars, proc, hot, jobs, reset,
                 resets, devVars, answers, crossed>>

LoopOn(d) ==
  proc' = IF proc.todo = {d} THEN Free ELSE [proc EXCEPT !.todo = @ \ {d}]

ControlOrder(d, a) ==
  IF d \in Valve THEN "closed"
  ELSE IF alarms[a].level >= FanSpeedHighLevel THEN "high" ELSE "normal"

\* Mutant of Mark: the control is not recorded.
MarkNothing(d) == UNCHANGED hot

\* markControlled
Mark(d) == hot' = hot \cup {d}

\* canControl says no: the device is passed over.
PassOver(d) ==
  /\ Alive /\ d \in proc.todo /\ d \in hot
  /\ answers' = answers \cup Answer({d}, proc.alarm, "cooling")
  /\ LoopOn(d)
  /\ UNCHANGED <<lifeVars, alarms, alarmChan, commandChan, rcvVars, hot, jobs,
                 reset, resets, devVars, notified, crossed>>

\* canControl, markControlled and go func: the mark comes before the outcome.
StartJob(d) ==
  /\ Alive /\ d \in proc.todo /\ d \notin hot
  /\ Mark(d)
  /\ crossed' = IF \E j \in jobs : j.device = d THEN crossed \cup {d} ELSE crossed
  /\ jobs' = jobs \cup {[device |-> d, alarm |-> proc.alarm, at |-> "publish",
                         order |-> ControlOrder(d, proc.alarm)]}
  /\ LoopOn(d)
  /\ UNCHANGED <<lifeVars, alarms, alarmChan, commandChan, rcvVars, reset,
                 resets, devVars, answers, notified>>

ProcessorStep ==
  \/ TakeCloseValves \/ TakeStartFans \/ SendEvacuationNotification
  \/ \E d \in Dev : PassOver(d) \/ StartJob(d)

-------------------------------------------------------------------------------
(* The goroutine of one device *)

Moved(j, place) == (jobs \ {j}) \cup {[j EXCEPT !.at = place]}

\* Mutant of AfterFailure: the row is written whether or not the order went out.
WritesAnyway == "row"

\* if success && services.DB != nil
AfterFailure == "logFailure"

\* success := err == nil; nobody waits for the device.
JobPublish(j) ==
  /\ Alive /\ j.at = "publish"
  /\ \/ /\ sent' = [sent EXCEPT ![j.device] = j.order]
        /\ jobs' = Moved(j, "row")
     \/ /\ jobs' = Moved(j, AfterFailure)
        /\ UNCHANGED sent
  /\ UNCHANGED <<lifeVars, alarms, alarmChan, commandChan, rcvVars, proc, hot,
                 reset, resets, rowVars, answers, notified, crossed>>

\* UPDATE valves or fans; an error is ignored and the log says success.
JobRow(j) ==
  /\ Alive /\ j.at = "row"
  /\ \/ /\ row' = [row EXCEPT ![j.device] = j.order]
        /\ byHand' = byHand \ {j.device}
        /\ UNCHANGED rowErrors
     \/ /\ rowErrors' = rowErrors \cup {j.device}
        /\ UNCHANGED <<row, byHand>>
  /\ jobs' = Moved(j, "logSuccess")
  /\ UNCHANGED <<lifeVars, alarms, alarmChan, commandChan, rcvVars, proc, hot,
                 reset, resets, handWrites, sent, answers, notified, crossed>>

\* logValveControl, logFanControl
JobLog(j) ==
  /\ Alive /\ j.at \in {"logSuccess", "logFailure"}
  /\ answers' = answers \cup
       Answer({j.device}, j.alarm,
              IF j.at = "logSuccess" THEN "success" ELSE "failure")
  /\ jobs' = jobs \ {j}
  /\ UNCHANGED <<lifeVars, alarms, alarmChan, commandChan, rcvVars, proc, hot,
                 reset, resets, devVars, notified, crossed>>

JobStep == \E j \in jobs : JobPublish(j) \/ JobRow(j) \/ JobLog(j)

-------------------------------------------------------------------------------
(* ResetZone, in a goroutine of the HTTP server *)

\* One transaction opens and stops everything in the table; when it fails,
\* nothing happens.  The devices are listed afterwards with the errors
\* ignored, so some may be missing.  Bound: one reset at a time.
ResetCommit(z) ==
  /\ Alive /\ reset.at \in {"idle", "done"} /\ resets[z] < MaxResets
  /\ resets' = [resets EXCEPT ![z] = @ + 1]
  /\ row' = [d \in Dev |-> IF ZoneOf[d] = z THEN Rest(d) ELSE row[d]]
  /\ byHand' = byHand \ InZone(Dev, z)
  /\ \E listed \in SUBSET InZone(Dev, z) :
       reset' = [zone |-> z, todo |-> listed,
                 at |-> IF listed = {} THEN "done" ELSE "publish"]
  /\ UNCHANGED <<lifeVars, alarms, alarmChan, commandChan, rcvVars, proc, hot,
                 jobs, rowErrors, handWrites, sent, answers, notified, crossed>>

\* Every device is ordered back, valves first; an error is ignored here too.
ResetTurn(d) == d \in reset.todo /\ (d \in Fan => reset.todo \cap Valve = {})

ResetPublish(d) ==
  /\ Alive /\ reset.at = "publish" /\ ResetTurn(d)
  /\ \/ sent' = [sent EXCEPT ![d] = Rest(d)]
     \/ UNCHANGED sent
  /\ reset' = [reset EXCEPT !.at = "forget"]
  /\ UNCHANGED <<lifeVars, alarms, alarmChan, commandChan, rcvVars, proc, hot,
                 jobs, resets, rowVars, answers, notified, crossed>>

ResetForget(d) ==
  /\ Alive /\ reset.at = "forget" /\ ResetTurn(d)
  /\ hot' = hot \ {d}
  /\ reset' = [reset EXCEPT !.todo = @ \ {d},
                            !.at = IF reset.todo = {d} THEN "done" ELSE "publish"]
  /\ UNCHANGED <<lifeVars, alarms, alarmChan, commandChan, rcvVars, proc, jobs,
                 resets, devVars, answers, notified, crossed>>

ResetStep == \E d \in Dev : ResetPublish(d) \/ ResetForget(d)

-------------------------------------------------------------------------------
(* Manual control, in goroutines of the HTTP server *)

\* ControlValve and ControlFan write the status an operator asks for; the
\* speed of a fan that is started is any number, 75 if none is given.  No
\* order is sent to the device, and the answer is success.
ManualStatus(d) ==
  IF d \in Valve THEN {"open", "closed"} ELSE {"stopped", "normal", "high", "other speed"}

ControlByHand(d) ==
  /\ Alive /\ handWrites < MaxByHand /\ handWrites' = handWrites + 1
  /\ \E status \in ManualStatus(d) : row' = [row EXCEPT ![d] = status]
  /\ byHand' = byHand \cup {d}
  /\ UNCHANGED <<lifeVars, alarms, alarmChan, commandChan, rcvVars, proc, hot,
                 jobs, reset, resets, rowErrors, sent, answers, notified, crossed>>

-------------------------------------------------------------------------------
(* The alarm router, the clock and the main goroutine *)

\* triggerAlarm drops an alarm when alarmChan is full.
RaiseAlarm(z, level) ==
  /\ Alive /\ Len(alarms) < MaxAlarms
  /\ alarms' = Append(alarms, [zone |-> z, level |-> level])
  /\ alarmChan' = IF Len(alarmChan) < AlarmCap
                  THEN Append(alarmChan, Len(alarms) + 1) ELSE alarmChan
  /\ UNCHANGED <<lifeVars, commandChan, rcvVars, proc, hot, jobs, reset, resets,
                 devVars, answers, notified, crossed>>

\* ControlCooldown, five minutes, has passed.  It outlasts the publish and
\* the statements of a device goroutine unless the token waits for a broker
\* that is away longer than that.
Cool(d) ==
  /\ Alive /\ d \in hot
  /\ LongOutages \/ \A j \in jobs : j.device # d
  /\ hot' = hot \ {d}
  /\ UNCHANGED <<lifeVars, alarms, alarmChan, commandChan, rcvVars, proc, jobs,
                 reset, resets, devVars, answers, notified, crossed>>

\* main calls Stop once.
Stop ==
  /\ Alive /\ running
  /\ running' = FALSE /\ chanOpen' = FALSE
  /\ UNCHANGED <<panicked, alarms, alarmChan, commandChan, rcvVars, proc, hot,
                 jobs, reset, resets, devVars, answers, notified, crossed>>

Environment ==
  \/ \E z \in Zone, level \in 1 .. 3 : RaiseAlarm(z, level)
  \/ \E z \in Zone : ResetCommit(z)
  \/ \E d \in Dev : Cool(d) \/ ControlByHand(d)
  \/ Stop

Next == ReceiverStep \/ ProcessorStep \/ JobStep \/ ResetStep \/ Environment

\* Every goroutine is scheduled and a publish returns; a select with an
\* alarm ready does not prefer its timer for ever.
Fairness ==
  /\ WF_vars(ReceiverStep) /\ SF_vars(RcvAlarm)
  /\ WF_vars(ProcessorStep)
  /\ WF_vars(JobStep)

SafetySpec == Init /\ [][Next]_vars
Spec == SafetySpec /\ Fairness

-------------------------------------------------------------------------------
(* Properties *)

\* Type invariant.
TypeOK ==
  /\ {running, chanOpen, panicked} \subseteq BOOLEAN
  /\ alarms \in Seq([zone : Zone, level : 1 .. 3])
  /\ alarmChan \in Seq(Alarm) /\ Len(alarmChan) <= AlarmCap
  /\ commandChan \in Seq([type : CommandType, alarm : Alarm])
  /\ Len(commandChan) <= CommandCap
  /\ rcvAt \in CommandType \cup {"poll", "select", "gone"}
  /\ rcvAlarm \in 0 .. Len(alarms)
  /\ proc \in [alarm : 0 .. Len(alarms), todo : SUBSET Dev]
  /\ hot \subseteq Dev
  /\ jobs \subseteq [device : Dev, alarm : Alarm, order : Order,
                     at : {"publish", "row", "logSuccess", "logFailure"}]
  /\ reset \in [at : {"idle", "publish", "forget", "done"}, zone : Zone,
                todo : SUBSET Dev]
  /\ resets \in [Zone -> 0 .. MaxResets] /\ handWrites \in 0 .. MaxByHand
  /\ {rowErrors, byHand, crossed} \subseteq SUBSET Dev
  /\ row \in [Dev -> Status] /\ sent \in [Dev -> Order]
  /\ answers \subseteq [device : Dev, alarm : Alarm,
                        result : {"success", "failure", "cooling", "unlisted"}]
  /\ notified \subseteq Alarm

\* The row of a valve or fan is written by the goroutines that order it
\* about, by operators and by resets, and nothing but the cooldown keeps two
\* goroutines apart.  Where nobody reset the zone, the updates worked and the
\* last write was not by hand, the row of a device without a goroutine shows
\* the last order accepted, unless a publish outlasted the cooldown and two
\* goroutines of the device crossed.
RowFollowsOrders ==
  \A d \in Dev :
    /\ resets[ZoneOf[d]] = 0 /\ d \notin rowErrors \cup byHand
    /\ \A j \in jobs : j.device # d
    /\ row[d] # sent[d]
    => LongOutages /\ d \in crossed

\* What an alarm asked of a device is being done or was recorded.
Begun(d, a) ==
  \/ \E j \in jobs : j.device = d /\ j.alarm = a
  \/ \E x \in answers : x.device = d /\ x.alarm = a

\* People are told to leave only after every valve and fan of the zone had
\* its turn: begun, cooling down or given up for want of the list.
EvacuationComesLast ==
  \A a \in notified : \A d \in InZone(Dev, alarms[a].zone) : Begun(d, a)

\* An alarm changes its own zone only, and nothing below level 2 changes
\* anything: a device away from rest was ordered so by an alarm of its zone
\* grave enough for that order.
OrdersAreWarranted ==
  \A d \in Dev :
    sent[d] # Rest(d) =>
      \E a \in Alarm :
        /\ alarms[a].zone = ZoneOf[d] /\ alarms[a].level >= ValveControlLevel
        /\ sent[d] = "high" => alarms[a].level >= FanSpeedHighLevel
        /\ Begun(d, a)

\* An alarm of level 2 or 3 that got into alarmChan has every device of its
\* zone dealt with, unless the controller is stopped.
AlarmAnswered ==
  \A a \in 1 .. MaxAlarms, d \in Dev :
    (/\ \E i \in 1 .. Len(alarmChan) : alarmChan[i] = a
     /\ alarms[a].level >= ValveControlLevel
     /\ alarms[a].zone = ZoneOf[d])
      ~> ((\E x \in answers : x.device = d /\ x.alarm = a) \/ ~running)
===============================================================================
