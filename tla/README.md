# Formal models of the gas monitoring backend

TLA+ models of the concurrent core of this repository, checked with TLC, and
theorems about them checked with TLAPS. Source paths are relative to `src/`.

## The system

Laser detectors in a utility tunnel report methane concentrations over MQTT. The
Go backend validates them, keeps alarms, closes valves and starts fans over MQTT,
plans escape routes and locates leaks. Beside that it watches fibers and pipes,
regulates the calorific value of the gas, and still carries the services its
modules have replaced.

    detectors --MQTT--> handleSensorData --go--> LaserReceiver.ProcessData
                                                   | > 1 %LEL      | all valid
                                            alarmDataChan       leakDataChan
                                                   v               v
                                            AlarmRouter        LeakLocator
                                       (map, PostgreSQL, SMS)      |
                                                   | alarmChan     | leakChan
                                                   v               v
                                EmergencyController (and EvacuationPlanner in main.go)
                                                   | commandChan, one goroutine per device
                                                   v
                          MQTTService.SendReliableCommand <--> valves and fans

    compositions, fiber data --MQTT--> CalorificController, StructureMonitor
    inspections --HTTP--> CorrosionPredictor
    readings before LaserReceiver runs --> AlarmEngine --> EmergencyControl, WebSocket hub
    all readings --> the batch of points --> InfluxDB

### Inventory

| part | state | operations | what is hard | what makes it correct |
|---|---|---|---|---|
| Reliable commands, `backend/mqtt/client.go` | `pendingCommands`, unlocked fields of a command | SendReliableCommand, sendCommand, retry loop, handleDeviceStatus | three goroutines on one record, late and repeated reports, retries | one true verdict, somebody is told, bounded retries, the table drains |
| Message dispatch, same file | none | one handler per topic | a goroutine per sensor message | no reading is invented |
| LaserReceiver | running flag, statistics | ProcessData, Start, Stop | offers that fail when a channel is full; the threshold | valid readings only |
| AlarmRouter | active alarm of each device, history, rows | checkAlarm, createAlarm, resolveAlarm, AcknowledgeAlarm, Stop | map and rows updated at different moments | map, rows and routed alarms agree |
| EmergencyController | cooldown table, command channel, rows | handleAlarm, processCommand, ResetZone, Stop | blocking sends, cooldown marked before the outcome, resets at any time | orders are warranted and recorded, evacuation comes last |
| EvacuationPlanner | graph, doors, people, routes, worker pool | zone blocking, planning, replanning, doors, Stop | worker pool under Stop and cancellation, doors in any order | searches are right, edges are blocked by doors only, nobody with a way is passed over |
| LeakLocator | last reading of a detector, leaks, rows | addReading, performDetection, ResolveLeak, Stop | count, search and report in three critical sections; merging | evidence for every leak, no unknown leak, leaks go away |
| CalorificController | cooldowns, openings, last adjustments | ReceiveGasComposition | five critical sections per message, concurrent messages | one adjustment per cooldown, orders that form a chain |
| StructureMonitor | window of readings of each fiber | ReceiveFiberData | check and store apart; missing data filled in from the window | breaks are seen, filling in does not feed on itself |
| CorrosionPredictor | history of each pipe | AddInspection, scheduledPrediction | history cut after a repair while others read it | rates compare neighbours |
| Legacy AlarmEngine | active alarms, rows | CheckAlarm, AcknowledgeAlarm | concurrent callers, look and creation apart | repetitions come of races only |
| Legacy EmergencyControl | map of controls, no lock | HandleEmergency | concurrent use of a map | second orders come of races only |
| WebSocket hub | clients, channel of broadcasts | register, broadcast, push, Close | stalled clients hold the lock, everybody waits | who is connected is sent the alarm |
| Database | batch of points, timer | WriteSensorData, flush, Close | timer, full batch and Close at once | every point once |
| main programs | channels | start, stop | order of stops and closes | no send on a closed channel |
| Legacy LeakDetector, API, grey model, plume searches, configuration, metrics, simulator, frontend | | | | see "Not modelled" |

`PROJECT.json` lists the hazards of each part at the line where they bite, with
the property that covers them or the reason why none does. Several races are of the
second kind: the code lets them happen, the model does too, and the properties say
what holds of everything that did not meet one.

## The modules

| module | models | source |
|---|---|---|
| `CommandOutcome` | what the command layer promises: issued, told, closed | abstract |
| `MqttCommands` | the command layer, statement by statement | `backend/mqtt/client.go` |
| `MqttCommandsProofs` | its theorems | |
| `AlarmRouter` | the router with an arbitrary producer and consumer | `backend/modules/alarm_router/alarm_router.go` |
| `AlarmRouterProofs` | its theorems | |
| `AlarmPipeline` | message goroutines + router + the consumers of alarmChan | `client.go`, `laser_receiver.go`, both `main.go` |
| `AlarmPipelineProofs` | its theorems | |
| `EmergencyController` | alarm receiver, command processor, device goroutines, reset | `backend/modules/emergency_controller/emergency_controller.go` |
| `EmergencyControllerProofs` | its theorems | |
| `EvacuationPlanner` | graph, doors, listener, worker pool, search, Stop | `backend/modules/evacuation_planner/evacuation_planner.go` |
| `EvacuationPlannerProofs` | its theorems | |
| `LeakLocator` | receiver, detection loop, inserts, resolution, Stop | `backend/modules/leak_locator/leak_locator.go` |
| `LeakLocatorProofs` | its theorems | |
| `CalorificController` | one handling of a gas composition, in five steps | `backend/modules/calorific_controller/calorific_controller.go` |
| `StructureMonitor` | one handling of a fiber reading | `backend/modules/structure_monitor/structure_monitor.go` |
| `CorrosionPredictor` | one handling of an inspection, and the schedule | `backend/modules/corrosion_predictor/corrosion_predictor.go` |
| `FieldMessages` | the three above with the handlers that feed them | `client.go`, `backend/api/handlers.go` |
| `FieldMessagesProofs` | theorems about compositions, inspections and fibers | |
| `AlarmEngine`, `ZoneControl`, `WebSocketHub`, `BatchWriter` | the services of those names | `backend/services/{alarm,emergency,websocket,database}.go` |
| `LegacyServices` | the four above, the messages that reach them, and `main` from start to exit | `client.go`, `main.go` |
| `LegacyServicesProofs` | theorems about batch, engine and zone control | |
| `MC*` | the instances TLC checks | |

**MqttCommands.** Every goroutine has a place (`callerAt`, `loopAt`, `handlerAt`),
and a step is what the code does between two points where another goroutine can
see the difference: a critical section of `commandsMutex`, the `Publish` call,
the end of `token.Wait()`. Time is abstracted to two sets: `overdue`
(`time.Since(LastSentAt) > Timeout`) and `due` (the same at the `now` of the
current scan, which is older than the scan). Callbacks are counters. The retry
loop handles one command at a time and waits for its token, as the code does; it
uses a copy of the table, and `OneStraggler` bounds what comes of that. The
handlers of paho run one at a time, its default. The broker may lose a publish
or, with `BrokerDuplicates`, deliver one any number of times; reports stay
available for ever, which covers repetition, delay and reordering.

**AlarmRouter.** The goroutine `dataReceiver` is a sequence of places: read the
flag, select, judge, create, save, trigger, or resolve in the map and then in
the table. PostgreSQL is three sets: rows, rows acknowledged, rows resolved.
Every statement may fail; failures are recorded in `dbErrors` because the code
only logs or ignores them. `Acknowledge` runs at any moment and holds
`alarmsMu` over its statement. `lastLevel` is a history variable.

**AlarmPipeline** extends `AlarmRouter`, replaces its producer by goroutines that
run `ProcessData`, and its consumer by the modules that hold `alarmChan`.
`validate` looks at the message and the clock only, so its verdict is part of
the message. The end of main is a list of statements, `Ending`: stop the controller,
the locator, the router and the receiver, in this order, then (`backend/main.go` only)
close the three channels, and exit. A stopped module leaves its loop when it next looks at its
flag; until then it takes at most one value. A send on a closed channel is `Panic`:
by a goroutine of `handleSensorData`, by the router, or by the controller on the
`commandChan` its own `Stop` closed. `RouterIsFaithful` says that the composition implements
`AlarmRouter!SafetySpec`: what was checked and proved there of any producer and
any consumer holds here.

**EmergencyController.** The blocking sends of `handleAlarm`, the loop of
`commandProcessor` over the devices of a zone, and the goroutine it starts for
each device are separate processes. A device goroutine publishes, updates the row
and logs; each of the three may be followed by anything else. `ResetZone` is the
transaction, then one order and one deletion of the cooldown entry for each
device. `ControlByHand` is what the handlers ControlValve and ControlFan do: write
the row, order nothing. MQTT is external: an order is accepted or refused. Closing
`commandChan` under a sender sets `panicked`, after which nothing happens. The
history variables `byHand` (rows an operator wrote last) and `crossed` (devices that
had two goroutines at a time) are for `RowFollowsOrders`.

**EvacuationPlanner.** The listener's loop over alarm, people and exits is a
record `lst` with a place; each turn of it that another goroutine can see is an
action. `dijkstraJobs` and the workers are explicit: a worker may take a job,
see the cancellation before or after the search, or be gone, and `StopCloses`
closes the channel under whoever sends. `Search` is Dijkstra's loop as a
recursive function: of equally near nodes it takes one, and a distance that is not
better changes nothing. A door has a history field `opened`: whether it was ever
reported open. What the code does differently from its names is in the
model as it is: `ZoneNumber` is what
`Sscanf` with `ZONE_%d` makes of `ZONE-01`, `PersonKey` is a key nobody has,
`Edges` has no edge to an exit.

**LeakLocator.** `det` is the place of the detection loop between its critical
sections, with the count it carries along. The search returns any position and
confidence. `root` is a history field: the announced leak a merged one goes back
to. Inserts are goroutines (`saving`) and may fail. `ResolveLeak` takes the leak off the
list first; its UPDATE may then fail, which is answered with an error and leaves the
row open. `resolved` is the history of resolutions that were answered with success.

**CalorificController, StructureMonitor, CorrosionPredictor.** One record per
message with a place; an action per critical section. The history variables `met`,
`crowded` and `overtaken` collect the handlings that another one met between two of
their critical sections: the properties say that what goes wrong is due to such a
meeting and to nothing else. `orders` keeps the orders of each valve in the order
they were given, and `filed` every inspection of a pipe, repairs or not; neither is
state of the code. A missing fiber reading is extrapolated from two stored
ones, or repeats the last valid one if they are too few, too far in time or filled
in themselves; too far in space, it stays missing. Missing is what the code calls
so: a reading whose status is not `valid` and whose strain and shift are zero; a valid
reading of zeros is one. `validate` looks at strain, position and temperature, and
`Finding` is the first of the four conditions of `detectAnomaly` that holds.
`FieldMessages` starts them as the MQTT and HTTP handlers do. They share no state,
so a behaviour follows one feed.

**LegacyServices.** `processSensorData` takes the legacy path while LaserReceiver
does not run: before `StartReceiver`, and again between `StopModules` and
`CloseMQTT`. `AlarmEngine` checks in a goroutine per message; an alarm of level 2
or more starts the two loops of `ZoneControl`, whose unlocked map can end the
program (`MapFault`). `BatchWriter` has timer, full batches and Close take points
out concurrently. `WebSocketHub` has clients that stop reading and hold the lock,
and broadcasters that wait behind a full channel. `main` stops, disconnects, closes
hub and database and exits, in the order of its deferred calls.

## The runs

All passing runs are exhaustive. Deadlock is not checked, because messages,
alarms and resets are bounded and the system is then at rest.

| run | question | bounds |
|---|---|---|
| `commands` | verdicts unique and true, nothing forgotten, payload writes alternate, retry budget, stragglers, inductive invariant, drain, refinement of `CommandOutcome` | 1 command, 3 retries (the configured number), 2 executions by the device |
| `router_safety` | map, rows, alarms and routed alarms agree; the invariant of the proofs | 2 devices, 3 readings of every level, channels of 1 |
| `router_ack` (violated) | an acknowledgement answered with success is recorded | 1 device, 1 reading |
| `pipeline_single` | no false alarm; the router's environment is respected; a queued dangerous reading raises an alarm; a grave alarm reaches the controller unless that is stopped: up to the end of `backend/main.go` | 1 device, 2 messages, channels of 1 |
| `pipeline_shared` (violated) | the same of the grave alarm, as in `main.go` | 2 consumers |
| `emergency_zones` | an alarm moves its own zone only; whose row differs from the last order | a valve and a fan of 2 zones, 2 alarms, a reset of each zone, a write by hand, long outages |
| `emergency_live` | rows follow orders, the evacuation comes last, an alarm that was queued is dealt with | a valve and a fan of a zone, 2 alarms, no reset, no publish longer than the cooldown |
| `evac_plan` | searches right on every graph the doors make, an edge is blocked by a closed door and by nothing else, a closed door alone on its stretch blocks it, only who is at no exit is passed over, listener and Stop end | 3 corridor points, 2 exits, 2 doors, 2 workers, an alarm, a person, 3 door reports |
| `evac_alarm` (violated) | an alarm blocks its zone, or finds everybody a route | an alarm, a person, 2 exits |
| `leaks` | leaks have evidence, go back to an announced one, are resolved for good under their own id, go away | 2 detectors, 3 readings, 3 places, 3 leaks |
| `field` | cooldown, chain of orders, filling in, breaks, rates | 3 compositions, 5 fiber readings or 3 inspections, 2 handlings at once |
| `services` | points once and all of them, broadcasts arrive, repeated alarms and second orders are races | 2 messages of a device, a batch of 2, a client, a channel of 1 |

Why these bounds are enough to mean something.

* Commands share the scan and the handler, which take one at a time, and nothing
  else: one shows the retries in full. `IndInv` speaks of one command at a time, and
  the proof covers any number of them.
* Two readings of one device already overtake each other or meet a full channel;
  three allow raise, change and resolve. Two alarms allow an escalation within
  and after the cooldown, and two goroutines on one device.
* The corridor of `evac_plan` has three points and two exits, one of them as near as
  a point. The door at the middle point goes to either stretch, or to that exit (Go's
  order of a map decides); the other is on the second stretch. A door that is known
  needs one report to be opened and one to be closed, so three reports allow
  a door to shut a stretch and open it again, or the other door to report on it
  while it is shut. Both stretches are never shut at once; the theorems cover any
  corridor, doors and number of reports. Two workers are at work, idle or gone in
  every combination.
* Two alarms and a write by hand allow a write before, between or after the orders,
  and one alarm's goroutine that outlasts the cooldown and meets the other's.
* Three leaks allow one that is found, merged and found again; the middle place
  is near both others, so that merging depends on the order.
* Two handlings interleave in every way; the third comes after the two and finds
  what they left. Filling in needs two stored readings, then a missing one, then
  another that could build on it: five samples, in a window of three. Among the readings
  are missing ones, near and far, a warm and a hot one that call for an anomaly by their
  temperature, a strained one, and one too hot to be accepted.
* Two points fill a batch; one is left for the timer or Close. Channels have
  capacity 1 so that full channels happen; the code's capacities (100, 1000) only
  postpone them.

`ExecCap`, `MaxReadings`, `MaxAlarms`, `MaxResets`, `MaxByHand`, `MaxReports`, `MaxDoorReports`,
`MaxFound`, `MaxInspections`, `MaxTogether` and `MaxSnapshots` bound the
behaviours; a reset is one at a time. The thresholds of the configurations keep
the order of the configured ones and are small numbers.

### What the violated runs show

| run | what happens | where |
|---|---|---|
| `router_ack` | acknowledged between map insert and row insert: the row never says so | `alarm_router.go:291` |
| `pipeline_shared` | the planner takes the alarm, no valve is closed | `main.go:117` |
| `evac_alarm` | `ZONE-01` parsed with `ZONE_%d`: no edge lies in any zone | `evacuation_planner.go:335` |
| | no edge leads to an exit node: only who starts at an exit, because it is nearer than every corridor point, gets a route | `evacuation_planner.go:124` |

### What the models show without a run

These follow from definitions of the models, read off the lines named.

* A reading up to the forward threshold never reaches the router
  (`laser_receiver.go:113`), and resolving an alarm is the router's answer to a
  reading below level 1 (`alarm_router.go:97`): the alarm of a device that falls to
  clean air at once stays active until some reading lies between 1 %LEL and
  level 1. `SendToRouter` of `AlarmPipeline`.
* Errors of the orders of a reset are dropped (`emergency_controller.go:412`) and
  the handler answers that the valves are open (`handlers.go:415`).
  `ResetPublish`.
* An escalation within the cooldown passes the fans over, which stay at normal
  speed although `config.yaml` gives level 3 the high one
  (`emergency_controller.go:234`). `PassOver`.
* After `EmergencyController.Stop`, which comes first, the router goes on raising alarms
  into `alarmChan` until it is stopped; they wait there for nobody (`backend/main.go:153`).
  `Ending`.
* The row of an alarm that another level replaced is never resolved
  (`alarm_router.go:152`). `Create`.
* A resolution whose UPDATE fails leaves the row open, and asking again finds no leak
  (`leak_locator.go:369`). `ResolveLeak`.
* The notification of an evacuation says that the valves are closed, and is sent
  when the goroutines that close them have been started (`EvacuationComesLast` is
  all that holds).
* A goroutine of `handleSensorData`, the router or the controller may send on a channel
  that `main` or `EmergencyController.Stop` has closed, which ends the process
  (`backend/main.go:159`, `emergency_controller.go:83`), though line 150 announces a
  graceful end. `Panic`, `RcvPanic`.
* Control by hand writes the row, answers success and orders nothing of the device
  (`handlers.go:314`, `handlers.go:381`). `ControlByHand`.
* Of two doors on one stretch the one that reports last decides
  (`evacuation_planner.go:982`), and a door nobody knows counts as closed, so that a
  first report of closed blocks nothing (`evacuation_planner.go:917`).
  `UpdateFireDoorStatus`, `ReportChanges`.
* A leak that is found again gets an id that is never saved, and resolving it under this
  id answers success and updates no row (`leak_locator.go:296`). `MergeLeak`.
* The second reading of a fiber is never a breakpoint, whatever the gap before it:
  nothing is compared while fewer than two are stored (`structure_monitor.go:143`;
  `structure_monitor_test.go:835` expects one). `DetectBreakpoint`.
* No route is ever replanned: the key made of a route is no person's
  (`evacuation_planner.go:754`). `PersonKey`, `Replan`.
* README.md:354 of the repository explains QoS 2, exactly once; commands go out with
  QoS 1 and are repeated by the retry loop, and the device must expect duplicates.
* The packages do not all build together: some import each other in a cycle, and
  the copies `calorific_control`, `corrosion_monitor` and `fiber_monitor` are started by
  no program. The models follow the modules `main.go` and `backend/main.go` start.

### Fairness

* Goroutines are scheduled: weak fairness of the retry loop, each caller and
  handler, the receivers, the command processor, the device goroutines, the
  planner's listener and each of its workers, the detection loop, the goroutines
  of the batch, the hub.
* A module hears an alarm that waits in `alarmChan` only until main has stopped it:
  weak fairness of `~Ended(..) /\ Hear`. Nothing is assumed of a stopped module, nor
  of main: the signal may never come, and after it main may rest between two
  statements. `DangerNoticed` says nothing once the router is stopped, and
  `AlarmReachesController` nothing once the controller is, which is earlier.
* Tickers tick and time passes: weak fairness of `Expire`, `Tick` and `TimerFires`.
* A publish token ends: paho completes it or fails it. With automatic
  reconnection that means that the broker comes back in the end.
* A `select` with a value ready does not choose its timer for ever: strong
  fairness of `Receive` and `RcvAlarm`. Go chooses at random among ready cases.
* Who waits to send on a channel is served in its turn: strong fairness of `Send`
  of each broadcaster. Go queues senders first come, first served.
* A Close that has begun goes on, and main returns after it (`CloseStep`, `Exit`);
  `StopReturns` is taken when no worker is left.
* Devices, operators, clients and producers owe nothing: a client may stall for
  ever, and the hub's property then says nothing.

### Assumptions about time

`Expire` assumes that a goroutine does not stall for 30 s between two statements
that do not block; `token.Wait()` may last longer. `Cool` assumes, when
`LongOutages` is FALSE, that no publish lasts longer than the five minutes of
the cooldown; liveness is checked so, safety without it. A broker that is away
longer lets two goroutines order one device about, and the row may then show the earlier
order; `RowFollowsOrders` says that this, a write by hand, a reset and a failing
update are the only ways, and `token.Wait()` without a limit is why the code can get there.

## The proofs

`MqttCommandsProofs`, for any set of commands, any `MaxRetries`, `ExecCap` and
either kind of broker:

| theorem | statement |
|---|---|
| `TypeCorrect` | `SafetySpec => []TypeOK` |
| `Inductive` | `SafetySpec => []IndInv` |
| `VerdictIsUnique` | `SafetySpec => []OneVerdict` |
| `ConfirmIsTrue` | `SafetySpec => []ConfirmIsBacked` |
| `NoneForgotten` | `SafetySpec => []NothingForgotten` |
| `BudgetIsKept` | `SafetySpec => []RetryBudget` |
| `PayloadIsSafe` | `SafetySpec => []PayloadWritesAlternate` |
| `OneLatePublish` | `SafetySpec => []OneStraggler` |
| `Implements` | `SafetySpec => ImplementsOutcome` |

None of the properties is inductive by itself. `IndInv` adds, for each command:
nothing is known of a command nobody issued (`Untouched`); a verdict in the
handler's hands, or in a report, was earned, and a command whose verdict is in
leaves the table with the handler's next step (`VerdictKept`); whoever is about
to remove a command has told somebody (`RemovalToldOf`); publishes are paid for
by the call and the retries, and a timed-out command has left the loop
(`BudgetKept`); and after one late publish the loop, though it may still hold the
command in its copy of the table, has no reason to publish it again
(`StragglerKept`). `IndInv` speaks about one command at a time, so the proof first
shows that a step leaves the other commands alone (`SparedStaysGood`) and then
treats the steps of caller, handler, loop and environment in a lemma each.
`Implements` maps each step to a step of `CommandOutcome` or a stutter; removals,
from three places, share the lemma `RemovalCloses`.

`AlarmRouterProofs`, for any devices, concentrations, ascending thresholds,
channel capacities and number of readings:

| theorem | statement |
|---|---|
| `RouterInvariant` | `SafetySpec => []RouterInv` |
| `TypesHold` | `SafetySpec => []TypeOK` |
| `ActiveHolds` | `SafetySpec => []ActiveMatchesReading` |
| `RaisedHolds` | `SafetySpec => []RaisedOnChange` |
| `OpenRowsHold` | `SafetySpec => []OpenRowsExplained` |
| `RoutedHolds` | `SafetySpec => []SavedBeforeRouted` |

`ActiveMatchesReading` speaks of the moments between two readings only. To be
inductive it must say what holds in the middle of one: every device but the one
in hand is up to date (`UpToDate`), and the receiver's place says how the
reading in hand compares with the active alarm (`HandKnown`). `RaisedOnChange`
rests on `OverIsRecorded`: an alarm that is neither active nor superseded has a
row that says it is resolved, or a statement about it failed, or the update is
next. That in turn needs `Written`, which is why `resolveAlarm` finds the row it
updates. An acknowledgement may come between any two of these steps; lemma
`AckSpares` shows that it changes neither the owner nor the level of an alarm,
and `SameHistory` that this is all the invariant looks at.

`EmergencyControllerProofs`, for any zones, valves, fans, capacities, alarms and
resets:

| theorem | statement |
|---|---|
| `TypesHold` | `SafetySpec => []TypeOK` |
| `OrdersHold` | `SafetySpec => []OrdersAreWarranted` |
| `EvacuationIsLast` | `SafetySpec => []EvacuationComesLast` |
| `RowsFollow` | `SafetySpec => []RowFollowsOrders` |

`OrdersAreWarranted` looks at an order that was accepted; `Warranted` follows it
back: every goroutine of a device and every device the processor still has to do
belong to an alarm of that zone and of sufficient level, and so do queued commands.
`EvacuationComesLast` needs to know where the devices of an alarm are before they
had their turn: in a command that is still queued or about to be queued before the
notification (`Last` orders receiver, channel and processor). `RowsFollow`
rests on `Following`: a device in a zone nobody has reset, whose goroutines have not
crossed, has at most one, and its row is the last order or will be when that
goroutine has written, unless somebody wrote it by hand since or an update failed.
Without long outages it is also cooling down as long as it has a goroutine, which is
why none can cross; with them the theorem says only that they did.

`EvacuationPlannerProofs`, for any corridor, exits, doors, workers and bounds:

| theorem | statement |
|---|---|
| `DoorsAloneBlock` | `SafetySpec => []BlockedHasClosedDoor` |
| `ClosedDoorsShut` | `SafetySpec => []ClosedDoorBlocks` |
| `ShortestToExit` | what `Shortest` answers when asked for an exit |
| `LostAloneAreSkipped` | `SafetySpec => []OnlyTheLostAreSkipped` |
| `SearchIsRight`, `SearchAlwaysRight` | `SafetySpec => []SearchFindsTheWay` |

The two theorems about doors share the invariant `DoorInv`, and `DoorReported` is its step: a
report sets the edges of its own stretch and leaves those of a door that has its stretch
to itself alone. `NoEdgeInZone` shows that an alarm blocks nothing: the proof
is about the code as it is, and `evac_alarm` shows what that means. So is `ShortestToExit`: from the exit itself the search
ends at once, and from anywhere else there is no way, since no edge leads there.
`PlanInv` follows the one job that is under way at a time (`OneJob`) from the
listener through the channel and a worker back to it: it starts where the person
does (`JobsStartHere`), and who is at an exit that was tried has a result or is about
to get one (`Served`). Cancelling is what breaks that, hence the exception in the
property; closing the channel in Stop does not.

That Dijkstra's loop finds what it should is proved for a corridor of any length.
`SearchInv` says of any number of turns: what was reached has its distance along the
corridor and was reached over an open stretch from the neighbour before it, and
what was visited has its open neighbours reached. `RelaxKeeps` is its step; on a
line no second way is shorter, so a turn reaches exactly the open neighbours nobody
reached (`RelaxIs`). `SearchEnds` counts: each turn visits a node, there are as many
turns as nodes, so the loop has ended by then. `ReachedOnTheWay` and `OpenIsReached`
compare what was reached with `WayOpen`, and `PathIs` the path read backwards with
the walk along the corridor. `Search` and the path are recursive functions. That they
exist has to be shown first: the turns can be unrolled one at a time (`TurnsExist`), and
the path is written down (`Steps`). What they compute is then proved by the least number
at which it would fail (`LeastNumber`, from the well-foundedness of the natural
numbers), which does the work of an induction.

`LeakLocatorProofs`, for any detectors, readings, thresholds and outcomes of a
search:

| theorem | statement |
|---|---|
| `LeakInvariant` | `SafetySpec => []LeakInv` |
| `EvidenceHolds` | `SafetySpec => []LeakHasEvidence` |
| `KnownHolds` | `SafetySpec => []ListedLeakIsKnown` |

`KnownHolds` covers updates and inserts that fail. A merged entry is never in
`announced`, so its id has no row and resolving it resolves none; the proof shows that,
and that a leak resolved under its own id stays resolved.

`LeakInv` adds to the two what the loop carries between its critical sections:
the count is enough once a search has begun, there is room for the leak it is
about to report, and ids are given in order, so that a new one is in no list.

`LegacyServicesProofs`, for any messages, devices, thresholds, lists and batch size:

| theorem | statement |
|---|---|
| `PointsOnce` | `Spec => []PointsTakenOnce` |
| `RepeatedAlarmsAreRaces` | `Spec => RepeatsAreRaces` |
| `SecondOrdersRace` | `Spec => SecondOrdersAreRaces` |

`BatchInv` adds that a point in the batch came with a message that was handled, and
is handled once, and that timer and Close hold points only between taking and
handing over. `EngInv` says that a check which is about to create an alarm still
needs it unless another one overtook it; `ZoneInv` says that of a device a
goroutine is about to order.

`FieldMessagesProofs`, for any compositions, inspections and samples, any number of
them handled at once, and any limits:

| theorem | statement |
|---|---|
| `CalInvariant` | `Spec => []CalInv` |
| `CooldownIsKept` | `Spec => CooldownHolds` |
| `OrdersFollow` | `Spec => []OrdersChain` |
| `CorInvariant`, `PredictorTyped` | `Spec => []CorInv`, `Spec => []CorTypeOK` |
| `RatesAreOfNeighbours` | `Spec => []RateIsOfNeighbours` |
| `StrInvariant`, `MonitorTyped` | `Spec => []StrInv`, `Spec => []StrTypeOK` |
| `BreakpointsAreReal` | `Spec => []BreaksAreSeen` |
| `FilledInStays` | `Spec => []InterpolationDoesNotDrift` |

`CalInv` says who has met whom: two handlings of one valve past the cooldown check
have met, and one that met nobody has not seen the cooldown begin. `ChainInv` adds
for every valve whose handlings have not met: an order starts where the last one
ended (`Chained`), a handling about to order holds the opening as it is (`InStep`), and
one about to record has made the last order.

The history of a pipe is cut after a repair and when it is full, between the steps of
other inspections. `CorInv` relates it to `filed`, which is never cut: both end
alike (`EndsAlike`), so that an inspection that nobody overtook and that is about to
be rated finds the one filed before it (`Rateable`), and one that was rated was rated
against that one (`RatedRight`).

`StrInv` says of a sample between check and store that the window is the one it was
compared with, unless it was crowded (`Compared`); then stored readings are breakpoints
if they break away from the one before (`SeenRight`). A made up strain leans on two
that were sent (`Leans`): only entries that are not marked as filled in are
extrapolated from, and what is not marked is what was sent (`StoredAs`, `Unfilled`).

`AlarmPipelineProofs`, for any devices, messages, thresholds, consumers and capacities:

| theorem | statement |
|---|---|
| `MessagesCounted` | `PipeSafetySpec => []CountInv` |
| `PipelineIsRouter` | `PipeSafetySpec => RouterIsFaithful` |
| `RouterInvInPipeline` | `PipeSafetySpec => []RouterInv` |
| `AlarmsAreTrue` | `PipeSafetySpec => []NoFalseAlarm` |

The router's own specification bounds how many readings it is offered; the pipeline
bounds messages. `CountInv` closes the gap: there are at most as many offers as messages
past that step. With it each step of the pipeline is one of the router or leaves the
router alone, and the router's invariant carries over without a second proof.
`NoFalseAlarm` follows a level back from the alarm over the reading in the router's
hands and the channel to a message that passed validation.

The assumptions are the named ones of the modules; TLC evaluates them on every
run of these modules. They say what the constructors and configurations of the code
see to: thresholds ascend, valves and fans are different devices of known zones, the
histories hold at least two entries (the code's hold 50 inspections and 100 readings),
there is a pipe and a fiber, the corridor is a line of at least two points in ascending
order, exits are finitely many.

Only model-checked is liveness: `TableDrains`, `DangerNoticed`,
`AlarmReachesController`, `AlarmAnswered`, `HandlersReturn`, `LeaksGoAway`, `PointsArrive`,
`AlarmsReachClients`. It rests on fairness and so on `ENABLED`, which is beyond what TLAPS
does here. `RaisedOnChange` is checked as a
part of `RouterInv`; `TypeOK` of the controller is proved only. Every invariant and every safety property of a step that a passing run
checks is proved; what a violated run refutes is not. No module uses `RECURSIVE` operators.

## Plan

1. Done: the path from a sensor message to a command on a device; leaks and
   evacuation; the monitors; the legacy services and `main.go`'s life.
2. Done: a theorem for every safety property the passing runs check.
3. Done: the end of `backend/main.go`; manual control; resolutions that fail.
4. Open: `SmsThrottle`; router and controller composed over a bounded `alarmChan`.

## Not modelled

* Legacy LeakDetector (`backend/services/leak_detector.go`): the window, count, search
  and merge of LeakLocator inside one critical section. Nothing in it interleaves
  that LeakLocator does not show.
* `calorific_control`, `fiber_monitor`, `corrosion_monitor`: copies no program starts.
* REST handlers: parsing and queries. Those that change state are modelled where
  they land: acknowledgement, zone reset, control of valves and fans by hand,
  inspections, fiber data, compositions, locations, leak resolution.
* The particle swarm, plume and grey models, the Wobbe formula and the PID term:
  floating point. What is done with their results is modelled for any result.
* SMS throttling, alarm history, lists of active alarms, evacuation messages, the
  notification topics: they feed nothing back, and no property is about their text.
* `leakReceiver` of EmergencyController, which logs what it takes.
* `leakChan`, which is only logged from; that `backend/main.go` closes it too.
* Statistics, logging, metrics, configuration and models: no control flow that a
  property depends on.
* The frontend, the simulator and deployment: display, a demonstration and
  configuration.
