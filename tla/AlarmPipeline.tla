---------------------------- MODULE AlarmPipeline ----------------------------
(***************************************************************************)
(* From a sensor message to the modules that react to an alarm:            *)
(* handleSensorData of backend/mqtt/client.go starts one goroutine for     *)
(* each message, the goroutine runs ProcessData of                         *)
(* backend/modules/laser_receiver/laser_receiver.go, the alarm router      *)
(* (module AlarmRouter) takes what it forwards, and one or two modules     *)
(* receive from alarmChan.  backend/main.go gives alarmChan to the         *)
(* emergency controller; main.go gives the same channel to the evacuation  *)
(* planner as well.  Both end by stopping the modules in one order, that   *)
(* of the alarms reversed, and backend/main.go then closes the channels.   *)
(***************************************************************************)
EXTENDS AlarmRouter

CONSTANTS
  ForwardThreshold,   \* cfg.AlarmForwardThreshold
  Consumer,           \* modules SetChannels gave alarmChan to
  LeakCap,            \* capacity of leakDataChan
  ClosesChannels      \* is it backend/main.go, which closes the channels?

ASSUME PipelineParameters ==
  /\ {ForwardThreshold, LeakCap} \subseteq Nat /\ ForwardThreshold < Level1
  /\ "emergency" \in Consumer /\ Consumer \subseteq {"emergency", "planner"}
  /\ ClosesChannels \in BOOLEAN

\* cfg.ValveControlLevel of the emergency controller
ValveControlLevel == 2

VARIABLES
  messages,       \* sensor messages: [reading, valid, at]
  leakDataChan,   \* messages on their way to the leak locator
  listening,      \* modules whose receiving loop has not returned
  heard,          \* alarms each consumer received
  dropped,        \* alarms the router dropped on a full alarmChan
  ended,          \* how many statements of main's ending were executed
  panicked        \* a goroutine sent on a closed channel: the process died

receiverVars == <<messages, leakDataChan>>
hearVars     == <<listening, heard>>
mainVars     == <<ended, panicked>>
pipeVars == <<vars, receiverVars, hearVars, dropped, mainVars>>

\* What main does after the signal, as far as the pipeline is concerned.
Ending ==
  <<"EmergencyController", "LeakLocator", "AlarmRouter", "LaserReceiver">>
  \o IF ClosesChannels THEN <<"alarmDataChan", "leakDataChan", "alarmChan", "exit">>
     ELSE <<"cancel", "exit">>

Ended(s)   == \E n \in 1 .. ended : Ending[n] = s   \* main executed s
Stopped(s) == Ended(s)                              \* Stop() of module s
Closed(s)  == Ended(s)                              \* close(s)
Alive      == ~panicked /\ ended < Len(Ending)

\* What ends the receiving loop of a module: its Stop, but the planner's
\* listener looks at the context only.
Ends == [emergency |-> "EmergencyController", locator |-> "LeakLocator",
         planner |-> "cancel"]

PipeInit ==
  /\ Init
  /\ messages = <<>> /\ leakDataChan = <<>>
  /\ listening = Consumer \cup {"locator"}
  /\ heard = [k \in Consumer |-> {}] /\ dropped = {}
  /\ ended = 0 /\ panicked = FALSE

-------------------------------------------------------------------------------
(* handleSensorData and ProcessData *)

Message == 1 .. Len(messages)
At(i, place) == messages[i].at = place
GoTo(i, place) == messages' = [messages EXCEPT ![i].at = place]

Arrive(r, ok) ==
  /\ Alive /\ Len(messages) < MaxReadings
  /\ messages' = Append(messages, [reading |-> r, valid |-> ok, at |-> "begin"])
  /\ UNCHANGED <<vars, leakDataChan, hearVars, dropped, mainVars>>

\* Mutant of Passes: nothing is rejected.
AllPass(i) == messages[i].valid \in BOOLEAN

\* validate()
Passes(i) == messages[i].valid

\* A reading that meets a stopped receiver, or is invalid, goes no further;
\* validate() looks at nothing but the message and the clock.
Begin(i) ==
  /\ Alive /\ At(i, "begin")
  /\ GoTo(i, IF ~Stopped("LaserReceiver") /\ Passes(i) THEN "forward" ELSE "gone")
  /\ UNCHANGED <<vars, leakDataChan, hearVars, dropped, mainVars>>

\* Mutant of SendToRouter: it does not look whether there is room.
SendAnyway(r) == dataChan' = Append(dataChan, r)

SendToRouter(r) == dataChan' = Trying(dataChan, DataCap, r)

\* A reading above the threshold is offered to the router, which may have no
\* room; a reading below it never gets there.
IsOffered(i) == messages[i].reading.concentration > ForwardThreshold

Forward(i) ==
  /\ Alive /\ At(i, "forward")
  /\ \/ /\ IsOffered(i) /\ ~Closed("alarmDataChan")
        /\ SendToRouter(messages[i].reading) /\ offered' = offered + 1
     \/ ~IsOffered(i) /\ UNCHANGED <<dataChan, offered>>
  /\ GoTo(i, "forwardLeak")
  /\ UNCHANGED <<running, routerVars, alarmChan, dbVars, leakDataChan,
                 hearVars, dropped, mainVars>>

ForwardLeak(i) ==
  /\ Alive /\ At(i, "forwardLeak") /\ ~Closed("leakDataChan")
  /\ leakDataChan' = Trying(leakDataChan, LeakCap, i)
  /\ GoTo(i, "gone")
  /\ UNCHANGED <<vars, hearVars, dropped, mainVars>>

MessageStep ==
  \E i \in Message : Begin(i) \/ Forward(i) \/ ForwardLeak(i)

-------------------------------------------------------------------------------
(* The router, and the receiving loops behind it *)

\* dataReceiver of the router; its Stop is main's.
Route ==
  /\ Alive
  /\ ReceiverStep
  /\ at = "trigger" => ~Closed("alarmChan")
  /\ dropped' = IF at = "trigger" /\ alarmChan' = alarmChan
                THEN dropped \cup {hand} ELSE dropped
  /\ UNCHANGED <<receiverVars, hearVars, mainVars>>

OperatorAcknowledges(d) ==
  /\ Alive /\ Acknowledge(d)
  /\ UNCHANGED <<receiverVars, hearVars, dropped, mainVars>>

\* A loop that took something looks at its flag before it takes more, so a
\* stopped module takes at most one value.
Again(k) == listening' = IF Ended(Ends[k]) THEN listening \ {k} ELSE listening

\* handleAlarm sends commands for an alarm of this level, on a channel
\* that EmergencyController.Stop has closed.
CommandFails(k) ==
  /\ k = "emergency" /\ Stopped("EmergencyController")
  /\ alarms[Head(alarmChan)].level >= ValveControlLevel

\* A channel hands a value to one receiver.
Hear(k) ==
  /\ Alive /\ k \in listening
  /\ Consume /\ ~CommandFails(k)
  /\ heard' = [heard EXCEPT ![k] = @ \cup {Head(alarmChan)}]
  /\ Again(k)
  /\ UNCHANGED <<receiverVars, dropped, mainVars>>

LocatorTakes ==
  /\ Alive /\ "locator" \in listening
  /\ leakDataChan # <<>> /\ leakDataChan' = Tail(leakDataChan)
  /\ Again("locator")
  /\ UNCHANGED <<vars, messages, heard, dropped, mainVars>>

\* The poll of the flag, the context or the closed channel ends a loop.
Leave(k) ==
  /\ Alive /\ k \in listening /\ Ended(Ends[k])
  /\ listening' = listening \ {k}
  /\ UNCHANGED <<vars, receiverVars, heard, dropped, mainVars>>

-------------------------------------------------------------------------------
(* The end of main *)

\* After the signal main executes its statements one by one; the goroutines
\* run on until the process exits.
MainStep ==
  /\ Alive
  /\ ended' = ended + 1
  /\ IF Ending[ended + 1] = "AlarmRouter" THEN Stop ELSE UNCHANGED vars
  /\ UNCHANGED <<receiverVars, hearVars, dropped, panicked>>

\* A send on a closed channel ends the process, whether or not the select
\* has a default.
Panic ==
  /\ Alive
  /\ \/ Closed("alarmDataChan") /\ \E i \in Message : At(i, "forward") /\ IsOffered(i)
     \/ Closed("leakDataChan") /\ \E i \in Message : At(i, "forwardLeak")
     \/ Closed("alarmChan") /\ at = "trigger"
     \/ "emergency" \in listening /\ alarmChan # <<>> /\ CommandFails("emergency")
  /\ panicked' = TRUE
  /\ UNCHANGED <<vars, receiverVars, hearVars, dropped, ended>>

PipeNext ==
  \/ \E r \in Reading, ok \in BOOLEAN : Arrive(r, ok)
  \/ MessageStep \/ Route \/ LocatorTakes
  \/ \E d \in Device : OperatorAcknowledges(d)
  \/ \E k \in Consumer : Hear(k)
  \/ \E k \in Consumer \cup {"locator"} : Leave(k)
  \/ MainStep \/ Panic

\* Goroutines are scheduled, the router's included, and a module in its
\* receiving loop takes what is there; nothing makes a stopped module take
\* anything, a message arrive or the signal come.
PipeFairness ==
  /\ WF_pipeVars(MessageStep)
  /\ WF_pipeVars(Route) /\ SF_pipeVars(Receive /\ Route)
  /\ \A k \in Consumer :
       WF_pipeVars(~Ended(Ends[k]) /\ Hear(k))

PipeSafetySpec == PipeInit /\ [][PipeNext]_pipeVars
PipeSpec == PipeSafetySpec /\ PipeFairness

-------------------------------------------------------------------------------
(* Properties *)

\* The pipeline is an environment module AlarmRouter allows: what it checks
\* there of an arbitrary producer and consumer holds here.
RouterIsFaithful == SafetySpec

\* Every alarm goes back to a reading of its device that passed validation
\* and has the level of the alarm, through any interleaving of the goroutines.
NoFalseAlarm ==
  \A a \in 1 .. Len(alarms) :
    \E i \in Message :
      /\ messages[i].valid /\ messages[i].reading.device = alarms[a].device
      /\ Level(messages[i].reading.concentration) = alarms[a].level
      /\ messages[i].at \in {"forwardLeak", "gone"}

\* A device whose reading above the first threshold was accepted by the
\* router gets an alarm, through the channel, the polls of the flag and any
\* acknowledgements, unless the router is stopped or the process dies.
DangerNoticed ==
  \A d \in Device :
    (\E n \in 1 .. Len(dataChan) :
        dataChan[n].device = d /\ Level(dataChan[n].concentration) > 0)
      ~> (active[d] # 0 \/ ~running \/ panicked)

\* regression_test_report.md:172 sends every alarm to the emergency
\* controller.  An alarm that asks for valves reaches it, unless alarmChan
\* was full or main has begun to end: the controller is stopped first, and
\* what the router raises after that waits in alarmChan for nobody.
AlarmReachesController ==
  \A a \in 1 .. MaxReadings :
    (a \in 1 .. Len(alarms) /\ alarms[a].level >= ValveControlLevel)
      ~> (a \in heard["emergency"] \cup dropped \/ Stopped("EmergencyController"))
===============================================================================
