----------------------------- MODULE LegacyServices -----------------------------
(***************************************************************************)
(* What main.go starts around the modules, from the first MQTT message to  *)
(* the end of the process: the legacy path of a sensor message, which is   *)
(* taken before LaserReceiver runs and again while the deferred calls of   *)
(* main stop everything, one after the other; the alarm engine with its    *)
(* zone control, the hub that broadcasts its alarms, and the batch of the  *)
(* points. Goroutines that are at work when main closes what they use go   *)
(* on until the process ends. Batch, zone control and hub share no state   *)
(* and none waits for another, so a behaviour follows one of the three:    *)
(* the points, the alarms with their orders, or the clients.               *)
(***************************************************************************)
EXTENDS AlarmEngine, ZoneControl, BatchWriter, WebSocketHub

\* A message gives its name to its point, its check, its alarm and the
\* broadcast of that alarm.
ASSUME OneName == Check = Message /\ Alarm = Message /\ Point = Message

VARIABLES
  followed,  \* "points", "alarms" or "clients"
  stage,     \* of main: "starting", "running", "stopped", "disconnected",
             \* "unhubbed", "exited"
  received,  \* message -> [device, concentration, legacy]
  handled    \* messages whose handler has written the point

mainVars == <<followed, stage, received, handled>>
vars == <<engVars, zoneVars, batchVars, hubVars, mainVars>>

Init ==
  /\ EngInit /\ ZoneInit /\ BatchInit /\ HubInit
  /\ followed \in {"points", "alarms", "clients"}
  /\ stage = "starting" /\ received = [k \in {} |-> 0] /\ handled = {}

Alive == stage # "exited" /\ ~panicked /\ ~crashed

-------------------------------------------------------------------------------
(* backend/mqtt/client.go *)

\* handleSensorData, and the choice of processSensorData.
Arrive(k, d, c) ==
  /\ Alive /\ stage \in {"starting", "running", "stopped"} /\ k \notin DOMAIN received
  /\ received' = [j \in DOMAIN received \cup {k} |->
       IF j = k THEN [device |-> d, concentration |-> c, legacy |-> stage # "running"]
       ELSE received[j]]
  /\ UNCHANGED <<engVars, zoneVars, batchVars, hubVars, followed, stage, handled>>

\* processSensorDataLegacy starts the check after the write; the alarms that
\* come of ProcessData are AlarmRouter's.
Process(k) ==
  /\ Alive /\ k \in DOMAIN received \ handled
  /\ IF followed = "points" THEN WriteSensorData(k) ELSE UNCHANGED batchVars
  /\ IF received[k].legacy /\ followed # "points"
       THEN StartCheck(k, received[k].device, received[k].concentration)
       ELSE UNCHANGED engVars
  /\ handled' = handled \cup {k}
  /\ UNCHANGED <<zoneVars, hubVars, followed, stage, received>>

-------------------------------------------------------------------------------
(* The services *)

Engine ==
  /\ Alive
  /\ \/ \E k \in Check : CheckAlarm(k)
     \/ followed = "alarms" /\ \E d \in Device : AcknowledgeAlarm(d)
  /\ UNCHANGED <<zoneVars, batchVars, hubVars, mainVars>>

Raise(k) ==
  /\ Alive
  /\ TriggerAlarm(k)
  /\ IF followed = "clients" THEN Broadcast(k) ELSE UNCHANGED hubVars
  /\ IF followed = "alarms" /\ checks[k].level >= 2 THEN HandleEmergency(k)
                                                   ELSE UNCHANGED zoneVars
  /\ UNCHANGED <<batchVars, mainVars>>

Zone ==
  /\ Alive
  /\ ControlZone \/ MapFault \/ \E device \in marked : FiveMinutesPass(device)
  /\ UNCHANGED <<engVars, batchVars, hubVars, mainVars>>

OfBatch(step) == Alive /\ followed = "points"  /\ step /\ UNCHANGED <<engVars, zoneVars, hubVars, mainVars>>
OfHub(step)   == Alive /\ followed = "clients" /\ step /\ UNCHANGED <<engVars, zoneVars, batchVars, mainVars>>

Batch == OfBatch(BatchStep)
Hub   == OfHub(HubStep)

-------------------------------------------------------------------------------
(* main.go: LaserReceiver starts last of what is modelled here, and the     *)
(* deferred calls run in reverse order.                                      *)

GoTo(from, to) == Alive /\ stage = from /\ stage' = to /\ UNCHANGED <<followed, received, handled>>

StartReceiver ==
  /\ GoTo("starting", "running")
  /\ UNCHANGED <<engVars, zoneVars, batchVars, hubVars>>

StopModules ==
  /\ GoTo("running", "stopped")
  /\ UNCHANGED <<engVars, zoneVars, batchVars, hubVars>>

CloseMQTT ==
  /\ GoTo("stopped", "disconnected")
  /\ UNCHANGED <<engVars, zoneVars, batchVars, hubVars>>

CloseWebSocket ==
  /\ GoTo("disconnected", "unhubbed")
  /\ CloseHub
  /\ UNCHANGED <<engVars, zoneVars, batchVars>>

CloseDatabase ==
  /\ Alive /\ stage = "unhubbed"
  /\ CloseBegins \/ CloseStep
  /\ UNCHANGED <<engVars, zoneVars, hubVars, mainVars>>

Exit ==
  /\ closing = "closed" /\ GoTo("unhubbed", "exited")
  /\ UNCHANGED <<engVars, zoneVars, batchVars, hubVars>>

Next ==
  \/ \E k \in Message, d \in Device, c \in Concentration : Arrive(k, d, c)
  \/ \E k \in Message : Process(k) \/ Raise(k)
  \/ Engine \/ Zone \/ Hub \/ Batch
  \/ StartReceiver \/ StopModules \/ CloseMQTT \/ CloseWebSocket \/ CloseDatabase \/ Exit

\* The runtime lets every goroutine go on that can: the timer and those of the
\* batch, a Close that has begun and the return of main, the hub, and whoever waits for room in the
\* channel, first come first served.
Fairness ==
  /\ WF_vars(OfBatch(TimerFires)) /\ WF_vars(OfBatch(TimerDone))
  /\ WF_vars(OfBatch(TakeBatch))  /\ WF_vars(OfBatch(GiveBatch))
  /\ WF_vars(OfBatch(CloseStep)) /\ WF_vars(Exit)
  /\ WF_vars(OfHub(Run))
  /\ \A m \in Message : SF_vars(OfHub(Send(m)))

Spec == Init /\ [][Next]_vars /\ Fairness

-------------------------------------------------------------------------------
(* Properties *)

(* Whatever main is doing, a point that got into the batch reaches the       *)
(* client: by the timer, a full batch or Close. Only the end of the process, *)
(* or a client that is closed already, can come in between.                  *)
PointsArrive ==
  \A p \in Point : (p \in batchPoints) ~> (p \in delivered \cup lost \/ ~Alive)

(* A client that is connected when an alarm is raised is sent the alarm.     *)
AlarmsReachClients == \A m \in Message, c \in Client : BroadcastArrives(m, c)
===============================================================================
