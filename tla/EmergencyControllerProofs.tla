----------------------- MODULE EmergencyControllerProofs -----------------------
(***************************************************************************)
(* Theorems about module EmergencyController, for any zones, valves, fans, *)
(* alarms and resets.                                                      *)
(***************************************************************************)
EXTENDS EmergencyController, SequenceTheorems, TLAPS

-------------------------------------------------------------------------------
(* Types *)

Command == [type : CommandType, alarm : Alarm]
Job     == [device : Dev, alarm : Alarm, order : Order,
            at : {"publish", "row", "logSuccess", "logFailure"}]
Result  == [device : Dev, alarm : Alarm,
            result : {"success", "failure", "cooling", "unlisted"}]

\* What is sent or controlled is sent or controlled for an alarm.
Types ==
  /\ TypeOK
  /\ rcvAt \in CommandType => rcvAlarm \in Alarm
  /\ proc.todo # {} => proc.alarm \in Alarm

\* A longer list of alarms takes nothing away.
LEMMA WiderSeq ==
  ASSUME NEW S, NEW T, S \subseteq T, NEW list \in Seq(S)
  PROVE  list \in Seq(T)
OBVIOUS

\* The queues of alarms and commands.
LEMMA QueueSteps ==
  ASSUME NEW S, NEW list \in Seq(S)
  PROVE  /\ Len(list) \in Nat
         /\ \A x \in S : /\ Append(list, x) \in Seq(S) /\ Len(Append(list, x)) = Len(list) + 1
                         /\ Append(list, x)[Len(list) + 1] = x
                         /\ \A i \in 1 .. Len(list) : Append(list, x)[i] = list[i]
         /\ list # <<>> => /\ Head(list) \in S /\ Head(list) = list[1]
                           /\ Tail(list) \in Seq(S) /\ Len(Tail(list)) = Len(list) - 1
                           /\ \A i \in 1 .. Len(list) - 1 : Tail(list)[i] = list[i + 1]
OBVIOUS

\* All valves closed or fans stopped, nothing raised.
LEMMA InitTypes == Init => Types
<1> SUFFICES ASSUME Init PROVE Types
  OBVIOUS
<1>1. (CHOOSE z \in Zone : TRUE) \in Zone
  BY ZonesAreKnown
<1>2. \A d \in Dev : Rest(d) \in Order
  BY DEF Rest, Order
<1>3. Len(alarms) = 0 /\ Alarm = {} /\ alarmChan = <<>> /\ commandChan = <<>>
  BY DEF Init, Alarm
<1>4. reset \in [at : {"idle", "publish", "forget", "done"}, zone : Zone, todo : SUBSET Dev]
  <2> DEFINE some == CHOOSE z \in Zone : TRUE
  <2>1. some \in Zone /\ reset = [at |-> "idle", zone |-> some, todo |-> {}]
    BY <1>1 DEF Init
  <2> HIDE DEF some
  <2> QED BY <2>1
<1>5. /\ alarms \in Seq([zone : Zone, level : 1 .. 3])
      /\ alarmChan \in Seq(Alarm) /\ Len(alarmChan) <= AlarmCap
      /\ commandChan \in Seq([type : CommandType, alarm : Alarm])
      /\ Len(commandChan) <= CommandCap
  BY <1>3, ControllerBounds DEF Init
<1>6. resets \in [Zone -> 0 .. MaxResets]
  BY ControllerBounds DEF Init
<1>7. /\ row \in [Dev -> Status] /\ sent \in [Dev -> Order]
      /\ byHand = {} /\ crossed = {} /\ handWrites \in 0 .. MaxByHand
  BY <1>2, ControllerBounds DEF Init, Status, Order, Rest
<1>8. proc \in [alarm : 0 .. Len(alarms), todo : SUBSET Dev] /\ proc.todo = {}
  BY <1>3 DEF Init, Free
<1>9. /\ {running, chanOpen, panicked} \subseteq BOOLEAN
      /\ rcvAt = "poll" /\ rcvAlarm = 0 /\ hot = {} /\ jobs = {}
      /\ rowErrors = {} /\ answers = {} /\ notified = {}
  BY DEF Init
<1> QED BY <1>3, <1>4, <1>5, <1>6, <1>7, <1>8, <1>9 DEF Types, TypeOK, CommandType

\* The alarm receiver.
LEMMA ReceiverTyped == Types /\ ReceiverStep => Types'
<1> SUFFICES ASSUME Types, ReceiverStep PROVE Types'
  OBVIOUS
<1> USE DEF lifeVars, rcvVars, rowVars, devVars, Types, TypeOK
<1>1. CASE RcvPoll \/ RcvTimeout \/ RcvPanic
  BY <1>1 DEF RcvPoll, RcvTimeout, RcvPanic, Alarm, CommandType
<1>2. CASE RcvAlarm
  <2>1. Head(alarmChan) \in Alarm /\ alarmChan' \in Seq(Alarm) /\ Len(alarmChan') <= AlarmCap
    BY <1>2, QueueSteps, ControllerBounds DEF RcvAlarm
  <2>2. rcvAt' \in {"close_valves", "poll"} /\ rcvAlarm' \in Alarm
    BY <1>2, <2>1 DEF RcvAlarm, FirstCommand
  <2>3. UNCHANGED <<running, chanOpen, panicked, alarms, commandChan, proc, hot, jobs, reset,
                    resets, row, rowErrors, byHand, handWrites, crossed, sent, answers, notified>>
    BY <1>2 DEF RcvAlarm
  <2>4. Alarm' = Alarm /\ rcvAlarm' \in 0 .. Len(alarms)
    BY <2>2, <2>3 DEF Alarm
  <2> QED BY <2>1, <2>2, <2>3, <2>4 DEF CommandType
<1>3. CASE RcvSend
  <2>1. [type |-> rcvAt, alarm |-> rcvAlarm] \in Command
    BY <1>3 DEF RcvSend, Command
  <2>2. commandChan' \in Seq(Command) /\ Len(commandChan') <= CommandCap
    <3>1. commandChan \in Seq(Command) /\ Len(commandChan) < CommandCap /\ Len(commandChan) \in Nat
      BY <1>3 DEF RcvSend, HasRoom, Command
    <3>2. commandChan' = Append(commandChan, [type |-> rcvAt, alarm |-> rcvAlarm])
      BY <1>3 DEF RcvSend
    <3> QED BY <2>1, <3>1, <3>2, QueueSteps, ControllerBounds
  <2>3. rcvAt' \in CommandType \cup {"poll"}
    BY <1>3 DEF RcvSend, NextCommand, CommandType
  <2> QED BY <1>3, <2>2, <2>3 DEF RcvSend, Command, Alarm
<1> QED BY <1>1, <1>2, <1>3 DEF ReceiverStep

\* The command processor.
LEMMA ProcessorTyped == Types /\ ProcessorStep => Types'
<1> SUFFICES ASSUME Types, ProcessorStep PROVE Types'
  OBVIOUS
<1> USE DEF lifeVars, rcvVars, rowVars, devVars, Types, TypeOK
<1>1. ASSUME commandChan # <<>>
      PROVE  /\ Head(commandChan) \in Command /\ Tail(commandChan) \in Seq(Command)
             /\ Len(Tail(commandChan)) <= CommandCap
  <2>1. commandChan \in Seq(Command) /\ Len(commandChan) <= CommandCap /\ CommandCap \in Nat
    BY ControllerBounds DEF Command
  <2> QED BY <1>1, <2>1, QueueSteps
<1>2. ASSUME NEW type \in CommandType, NEW S \in SUBSET Dev, TakeZone(type, S) PROVE Types'
  <2> DEFINE a == Head(commandChan).alarm
             devices == InZone(S, alarms[a].zone)
  <2>1. a \in Alarm /\ commandChan' \in Seq(Command) /\ Len(commandChan') <= CommandCap
    BY <1>1, <1>2 DEF TakeZone, Take, Command
  <2>2. devices \in SUBSET Dev
    BY DEF InZone
  <2>3. \/ proc' \in {Free, [alarm |-> a, todo |-> devices]} /\ answers' = answers
        \/ proc' = proc /\ answers' = answers \cup Answer(devices, a, "unlisted")
    BY <1>2 DEF TakeZone
  <2>4. UNCHANGED <<running, chanOpen, panicked, alarms, alarmChan, rcvAt, rcvAlarm, hot, jobs,
                    reset, resets, row, rowErrors, byHand, handWrites, crossed, sent, notified>>
    BY <1>2 DEF TakeZone
  <2> HIDE DEF a, devices
  <2>5. /\ proc' \in [alarm : 0 .. Len(alarms), todo : SUBSET Dev]
        /\ proc'.todo # {} => proc'.alarm \in Alarm
        /\ answers' \subseteq Result
    BY <2>1, <2>2, <2>3, SMTT(30) DEF Free, Alarm, Answer, Result
  <2> QED BY <2>1, <2>4, <2>5 DEF Command, Result, Alarm
<1>3. CASE SendEvacuationNotification
  <2>1. /\ Head(commandChan).alarm \in Alarm /\ commandChan' \in Seq(Command)
        /\ Len(commandChan') <= CommandCap
    BY <1>1, <1>3 DEF SendEvacuationNotification, Take, Command
  <2> QED BY <1>3, <2>1 DEF SendEvacuationNotification, Command, Alarm
<1>4. ASSUME NEW d \in Dev, d \in proc.todo, LoopOn(d)
      PROVE  /\ proc' \in [alarm : 0 .. Len(alarms), todo : SUBSET Dev]
             /\ proc'.todo # {} => proc'.alarm \in Alarm
             /\ proc.alarm \in Alarm
  <2>1. proc \in [alarm : 0 .. Len(alarms), todo : SUBSET Dev] /\ proc.alarm \in Alarm
    BY <1>4
  <2>2. \/ proc' = [alarm |-> 0, todo |-> {}]
        \/ proc' = [proc EXCEPT !.todo = proc.todo \ {d}]
    BY <1>4 DEF LoopOn, Free
  <2>3. Len(alarms) \in Nat
    OBVIOUS
  <2> QED BY ONLY <2>1, <2>2, <2>3
<1>5. ASSUME NEW d \in Dev, PassOver(d) PROVE Types'
  <2>1. answers' \subseteq Result
    BY <1>4, <1>5 DEF PassOver, Answer, Result
  <2> QED BY <1>4, <1>5, <2>1 DEF PassOver, Result, Alarm
<1>6. ASSUME NEW d \in Dev, StartJob(d) PROVE Types'
  <2>1. jobs' \subseteq Job /\ hot' \subseteq Dev
    <3>1. ControlOrder(d, proc.alarm) \in Order
      BY DEF ControlOrder, Order
    <3> QED BY <1>4, <1>6, <3>1 DEF StartJob, Job, Mark
  <2> QED BY <1>4, <1>6, <2>1 DEF StartJob, Job, Alarm
<1> QED BY <1>2, <1>3, <1>5, <1>6
        DEF ProcessorStep, TakeCloseValves, TakeStartFans, CommandType, Dev

\* The goroutines of the devices.
LEMMA JobTyped == Types /\ JobStep => Types'
<1> SUFFICES ASSUME Types, NEW j \in jobs, JobPublish(j) \/ JobRow(j) \/ JobLog(j) PROVE Types'
  BY DEF JobStep
<1> USE DEF lifeVars, rcvVars, rowVars, devVars, Types, TypeOK
<1>1. j \in Job /\ j.device \in Dev /\ j.order \in Order /\ j.alarm \in Alarm
  BY DEF Job
<1>2. \A place \in {"row", "logSuccess", "logFailure"} : Moved(j, place) \subseteq Job
  <2>1. \A place \in {"row", "logSuccess", "logFailure"} : [j EXCEPT !.at = place] \in Job
    BY <1>1 DEF Job
  <2> QED BY <2>1 DEF Moved, Job
<1>3. CASE JobPublish(j)
  BY <1>1, <1>2, <1>3 DEF JobPublish, AfterFailure, Job, Alarm
<1>4. CASE JobRow(j)
  <2>1. j.order \in Status
    BY <1>1 DEF Status
  <2>2. row' \in [Dev -> Status] /\ byHand' \subseteq Dev /\ rowErrors' \subseteq Dev
    BY <1>1, <1>4, <2>1 DEF JobRow
  <2>3. jobs' \subseteq Job
    BY <1>2, <1>4 DEF JobRow
  <2> QED BY <1>4, <2>2, <2>3 DEF JobRow, Job, Alarm
<1>5. CASE JobLog(j)
  <2>1. answers' \subseteq Result
    BY <1>1, <1>5 DEF JobLog, Answer, Result
  <2> QED BY <1>5, <2>1 DEF JobLog, Result, Alarm
<1> QED BY <1>3, <1>4, <1>5

\* The reset handler.
LEMMA ResetTyped ==
  Types /\ (ResetStep \/ \E z \in Zone : ResetCommit(z)) => Types'
<1> SUFFICES ASSUME Types, ResetStep \/ \E z \in Zone : ResetCommit(z) PROVE Types'
  OBVIOUS
<1> USE DEF lifeVars, rcvVars, rowVars, devVars, Types, TypeOK
<1>1. \A d \in Dev : Rest(d) \in Order
  BY DEF Rest, Order
<1>2. ASSUME NEW d \in Dev, ResetPublish(d) PROVE Types'
  BY <1>1, <1>2 DEF ResetPublish, Alarm
<1>3. ASSUME NEW d \in Dev, ResetForget(d) PROVE Types'
  BY <1>3 DEF ResetForget, Alarm
<1>4. ASSUME NEW z \in Zone, ResetCommit(z) PROVE Types'
  <2>1. resets' \in [Zone -> 0 .. MaxResets]
    BY <1>4, ControllerBounds DEF ResetCommit
  <2>2. row' \in [Dev -> Status] /\ byHand' \subseteq Dev
    BY <1>1, <1>4 DEF ResetCommit, Status
  <2>3. reset' \in [at : {"idle", "publish", "forget", "done"}, zone : Zone, todo : SUBSET Dev]
    BY <1>4 DEF ResetCommit, InZone
  <2> QED BY <1>4, <2>1, <2>2, <2>3 DEF ResetCommit, Alarm
<1> QED BY <1>2, <1>3, <1>4 DEF ResetStep

\* Alarms, the clock and Stop.
LEMMA OthersTyped ==
  Types /\ (\/ \E z \in Zone, level \in 1 .. 3 : RaiseAlarm(z, level)
            \/ \E d \in Dev : Cool(d) \/ ControlByHand(d)
            \/ Stop \/ UNCHANGED vars) => Types'
<1> SUFFICES ASSUME Types, \/ \E z \in Zone, level \in 1 .. 3 : RaiseAlarm(z, level)
                           \/ \E d \in Dev : Cool(d) \/ ControlByHand(d)
                           \/ Stop \/ UNCHANGED vars
             PROVE  Types'
  OBVIOUS
<1> USE DEF lifeVars, rcvVars, rowVars, devVars, Types, TypeOK
<1>1. ASSUME NEW z \in Zone, NEW level \in 1 .. 3, RaiseAlarm(z, level) PROVE Types'
  <2> DEFINE raised == [zone |-> z, level |-> level]
             Raised == [zone : Zone, level : 1 .. 3]
  <2>1. alarms' = Append(alarms, raised) /\ raised \in Raised /\ alarms \in Seq(Raised)
    BY <1>1 DEF RaiseAlarm
  <2> HIDE DEF raised, Raised
  <2>2. alarms' \in Seq(Raised) /\ Len(alarms') = Len(alarms) + 1 /\ Len(alarms) \in Nat
    BY <2>1, QueueSteps
  <2>3. Alarm \subseteq Alarm' /\ Len(alarms) + 1 \in Alarm' /\ 0 .. Len(alarms) \subseteq 0 .. Len(alarms')
    BY <2>2 DEF Alarm
  <2>4. alarmChan' \in Seq(Alarm') /\ Len(alarmChan') <= AlarmCap
    <3>1. alarmChan \in Seq(Alarm') /\ Len(alarmChan) <= AlarmCap /\ Len(alarmChan) \in Nat
      BY <2>3, WiderSeq
    <3>2. alarmChan' = IF Len(alarmChan) < AlarmCap
                       THEN Append(alarmChan, Len(alarms) + 1) ELSE alarmChan
      BY <1>1 DEF RaiseAlarm
    <3> QED BY <2>3, <3>1, <3>2, QueueSteps, ControllerBounds
  <2>5. commandChan' \in Seq([type : CommandType, alarm : Alarm']) /\ Len(commandChan') <= CommandCap
    <3>1. [type : CommandType, alarm : Alarm] \subseteq [type : CommandType, alarm : Alarm']
      BY <2>3
    <3>2. commandChan' = commandChan
      BY <1>1 DEF RaiseAlarm
    <3> QED BY <3>1, <3>2, WiderSeq
  <2>6. UNCHANGED <<running, chanOpen, panicked, rcvAt, rcvAlarm, proc, hot, jobs, reset, resets,
                    row, rowErrors, byHand, handWrites, crossed, sent, answers, notified>>
    BY <1>1 DEF RaiseAlarm
  <2> QED BY <2>2, <2>3, <2>4, <2>5, <2>6 DEF Raised
<1>2. CASE \/ \E d \in Dev : Cool(d)
           \/ Stop \/ UNCHANGED vars
  BY <1>2 DEF Cool, Stop, vars, Alarm
<1>3. ASSUME NEW d \in Dev, ControlByHand(d) PROVE Types'
  <2>1. ManualStatus(d) \subseteq Status
    BY DEF ManualStatus, Status, Order
  <2>2. row' \in [Dev -> Status] /\ byHand' \subseteq Dev /\ handWrites' \in 0 .. MaxByHand
    BY <1>3, <2>1, ControllerBounds DEF ControlByHand
  <2> QED BY <1>3, <2>2 DEF ControlByHand, Alarm
<1> QED BY <1>1, <1>2, <1>3

\* Every step keeps the types.
LEMMA StepTyped == Types /\ [Next]_vars => Types'
BY ReceiverTyped, ProcessorTyped, JobTyped, ResetTyped, OthersTyped DEF Next, Environment

\* The type invariant.
THEOREM TypesHold == SafetySpec => []TypeOK
<1>1. Types => TypeOK
  BY DEF Types
<1> QED BY <1>1, InitTypes, StepTyped, PTL DEF SafetySpec

-------------------------------------------------------------------------------
(* What stays *)

\* Alarms are only added.
LEMMA AlarmsStay ==
  Types /\ [Next]_vars => \A a \in Alarm : a \in Alarm' /\ alarms'[a] = alarms[a]
<1> SUFFICES ASSUME Types, [Next]_vars, NEW a \in Alarm
             PROVE  a \in Alarm' /\ alarms'[a] = alarms[a]
  OBVIOUS
<1>1. ASSUME NEW z \in Zone, NEW level \in 1 .. 3, RaiseAlarm(z, level)
      PROVE  a \in Alarm' /\ alarms'[a] = alarms[a]
  <2> DEFINE raised == [zone |-> z, level |-> level]
             Raised == [zone : Zone, level : 1 .. 3]
  <2>1. alarms' = Append(alarms, raised) /\ raised \in Raised /\ alarms \in Seq(Raised)
    BY <1>1 DEF RaiseAlarm, Types, TypeOK
  <2> HIDE DEF raised, Raised
  <2> QED BY <2>1, QueueSteps DEF Alarm
<1>2. alarms' = alarms \/ \E z \in Zone, level \in 1 .. 3 : RaiseAlarm(z, level)
  BY DEF Next, ReceiverStep, RcvPoll, RcvTimeout, RcvAlarm, RcvSend, RcvPanic, ProcessorStep,
         TakeCloseValves, TakeStartFans, TakeZone, SendEvacuationNotification, PassOver, StartJob,
         JobStep, JobPublish, JobRow, JobLog, ResetStep, ResetPublish, ResetForget, Environment,
         ResetCommit, Cool, ControlByHand, Stop, vars
<1> QED BY <1>1, <1>2 DEF Alarm

\* What was begun for an alarm is being done until it is recorded.
LEMMA BegunStays ==
  Types /\ [Next]_vars => \A d \in Dev, a \in Alarm : Begun(d, a) => Begun(d, a)'
<1> SUFFICES ASSUME Types, [Next]_vars, NEW d \in Dev, NEW a \in Alarm, Begun(d, a)
             PROVE  Begun(d, a)'
  OBVIOUS
<1>1. CASE jobs \subseteq jobs' /\ answers \subseteq answers'
  BY <1>1 DEF Begun
<1>2. ASSUME NEW j \in jobs, JobPublish(j) \/ JobRow(j) PROVE Begun(d, a)'
  <2>1. answers' = answers
    BY <1>2 DEF JobPublish, JobRow
  <2>2. PICK place \in {"row", "logSuccess", "logFailure"} : jobs' = Moved(j, place)
    BY <1>2 DEF JobPublish, JobRow, AfterFailure
  <2>3. [j EXCEPT !.at = place].device = j.device /\ [j EXCEPT !.at = place].alarm = j.alarm
    BY DEF Types, TypeOK
  <2> QED BY <2>1, <2>2, <2>3 DEF Begun, Moved
<1>3. ASSUME NEW j \in jobs, JobLog(j) PROVE Begun(d, a)'
  <2> DEFINE r == IF j.at = "logSuccess" THEN "success" ELSE "failure"
  <2>1. jobs' = jobs \ {j} /\ answers' = answers \cup [device : {j.device}, alarm : {j.alarm}, result : {r}]
    BY <1>3 DEF JobLog, Answer
  <2> HIDE DEF r
  <2>2. [device |-> j.device, alarm |-> j.alarm, result |-> r] \in answers'
    BY <2>1
  <2> QED BY <2>1, <2>2 DEF Begun
<1>4. \/ jobs \subseteq jobs' /\ answers \subseteq answers'
      \/ \E j \in jobs : JobPublish(j) \/ JobRow(j) \/ JobLog(j)
  BY DEF Next, ReceiverStep, RcvPoll, RcvTimeout, RcvAlarm, RcvSend, RcvPanic, ProcessorStep,
         TakeCloseValves, TakeStartFans, TakeZone, SendEvacuationNotification, PassOver, StartJob,
         JobStep, ResetStep, ResetPublish, ResetForget, Environment,
         RaiseAlarm, ResetCommit, Cool, ControlByHand, Stop, vars, devVars
<1> QED BY <1>1, <1>2, <1>3, <1>4

-------------------------------------------------------------------------------
(* Orders are warranted *)

Grave(d, a) ==
  a \in Alarm /\ alarms[a].zone = ZoneOf[d] /\ alarms[a].level >= ValveControlLevel

\* From the receiver to the goroutine of a device, nothing is done but for an
\* alarm that is grave enough.
Warranted ==
  /\ rcvAt \in CommandType => alarms[rcvAlarm].level >= ValveControlLevel
  /\ \A i \in 1 .. Len(commandChan) : alarms[commandChan[i].alarm].level >= ValveControlLevel
  /\ \A d \in proc.todo : Grave(d, proc.alarm)
  /\ \A j \in jobs : /\ Grave(j.device, j.alarm)
                     /\ j.order = "high" => alarms[j.alarm].level >= FanSpeedHighLevel
  /\ OrdersAreWarranted

\* The commands that wait are for alarms that are known.
LEMMA CommandsTyped ==
  Types => /\ commandChan \in Seq(Command) /\ Len(commandChan) \in Nat
           /\ \A i \in 1 .. Len(commandChan) : commandChan[i] \in Command
                                               /\ commandChan[i].alarm \in Alarm
<1>1. Types => commandChan \in Seq(Command)
  BY DEF Types, TypeOK, Command
<1>2. \A c \in Command : c.alarm \in Alarm
  BY DEF Command
<1>3. commandChan \in Seq(Command) => /\ Len(commandChan) \in Nat
                                      /\ \A i \in 1 .. Len(commandChan) : commandChan[i] \in Command
  OBVIOUS
<1> QED BY <1>1, <1>2, <1>3

\* The first two parts of Warranted: what the receiver sends.
LEMMA ReceiverWarranted ==
  Types /\ Warranted /\ [Next]_vars =>
    /\ rcvAt' \in CommandType => alarms'[rcvAlarm'].level >= ValveControlLevel
    /\ \A i \in 1 .. Len(commandChan') : alarms'[commandChan'[i].alarm].level >= ValveControlLevel
<1> SUFFICES ASSUME Types, Warranted, [Next]_vars
             PROVE  /\ rcvAt' \in CommandType => alarms'[rcvAlarm'].level >= ValveControlLevel
                    /\ \A i \in 1 .. Len(commandChan') :
                         alarms'[commandChan'[i].alarm].level >= ValveControlLevel
  OBVIOUS
<1> USE DEF rcvVars
<1>0. \A a \in Alarm : alarms'[a] = alarms[a]
  BY AlarmsStay
<1>1. ASSUME UNCHANGED <<rcvAt, rcvAlarm>>
      PROVE  rcvAt' \in CommandType => alarms'[rcvAlarm'].level >= ValveControlLevel
  BY <1>0, <1>1 DEF Warranted, Types
<1>2. ASSUME commandChan' = commandChan
      PROVE  \A i \in 1 .. Len(commandChan') : alarms'[commandChan'[i].alarm].level >= ValveControlLevel
  BY <1>0, <1>2, CommandsTyped DEF Warranted
<1>3. CASE RcvPoll \/ RcvTimeout
  <2>1. rcvAt' \notin CommandType /\ commandChan' = commandChan
    BY <1>3 DEF RcvPoll, RcvTimeout, CommandType
  <2> QED BY <1>2, <2>1
<1>4. CASE RcvAlarm
  <2>1. rcvAt' = FirstCommand(alarms[rcvAlarm'].level) /\ commandChan' = commandChan
        /\ alarms' = alarms
    BY <1>4 DEF RcvAlarm
  <2>2. rcvAt' \in CommandType => alarms[rcvAlarm'].level >= ValveControlLevel
    BY <2>1 DEF FirstCommand, CommandType
  <2> QED BY <1>2, <2>1, <2>2
<1>5. CASE RcvSend
  <2>1. /\ commandChan' = Append(commandChan, [type |-> rcvAt, alarm |-> rcvAlarm])
        /\ alarms' = alarms /\ rcvAlarm' = rcvAlarm /\ rcvAlarm \in Alarm
        /\ alarms[rcvAlarm].level >= ValveControlLevel
        /\ [type |-> rcvAt, alarm |-> rcvAlarm] \in Command
    BY <1>5 DEF RcvSend, Warranted, Types, Command
  <2> QED BY <2>1, CommandsTyped, QueueSteps DEF Warranted
<1>6. ASSUME commandChan # <<>>, commandChan' = Tail(commandChan)
      PROVE  \A i \in 1 .. Len(commandChan') : alarms'[commandChan'[i].alarm].level >= ValveControlLevel
  <2>1. ASSUME NEW i \in 1 .. Len(commandChan')
        PROVE  i + 1 \in 1 .. Len(commandChan) /\ commandChan'[i] = commandChan[i + 1]
    BY <1>6, CommandsTyped, QueueSteps
  <2> QED BY <1>0, <2>1, CommandsTyped DEF Warranted
<1>7. CASE ProcessorStep
  <2>1. UNCHANGED <<rcvAt, rcvAlarm>>
        /\ (commandChan' = commandChan \/ (commandChan # <<>> /\ commandChan' = Tail(commandChan)))
    BY <1>7 DEF ProcessorStep, TakeCloseValves, TakeStartFans, TakeZone, Take,
                SendEvacuationNotification, PassOver, StartJob
  <2> QED BY <1>1, <1>2, <1>6, <2>1
<1>8. CASE RcvPanic \/ JobStep \/ ResetStep \/ Environment \/ UNCHANGED vars
  <2>1. UNCHANGED <<rcvAt, rcvAlarm>> /\ commandChan' = commandChan
    BY <1>8 DEF RcvPanic, JobStep, JobPublish, JobRow, JobLog, ResetStep, ResetPublish, ResetForget,
                Environment, RaiseAlarm, ResetCommit, Cool, ControlByHand, Stop, vars
  <2> QED BY <1>1, <1>2, <2>1
<1> QED BY <1>3, <1>4, <1>5, <1>7, <1>8 DEF Next, ReceiverStep

\* The next two: what the processor and its goroutines do.
LEMMA JobsWarranted ==
  Types /\ Warranted /\ [Next]_vars =>
    /\ \A d \in proc'.todo : Grave(d, proc.alarm)'
    /\ \A j \in jobs' : /\ Grave(j.device, j.alarm)'
                        /\ j.order = "high" => alarms'[j.alarm].level >= FanSpeedHighLevel
<1> SUFFICES ASSUME Types, Warranted, [Next]_vars
             PROVE  /\ \A d \in proc'.todo : Grave(d, proc.alarm)'
                    /\ \A j \in jobs' : /\ Grave(j.device, j.alarm)'
                                        /\ j.order = "high" =>
                                             alarms'[j.alarm].level >= FanSpeedHighLevel
  OBVIOUS
<1>1. \A d, a : Grave(d, a) => Grave(d, a)'
  BY AlarmsStay DEF Grave
<1>2. \A j \in jobs : /\ Grave(j.device, j.alarm)'
                      /\ j.order = "high" => alarms'[j.alarm].level >= FanSpeedHighLevel
  BY <1>1, AlarmsStay DEF Warranted, Types, TypeOK
<1>3. ASSUME NEW type, NEW S \in SUBSET Dev, TakeZone(type, S)
      PROVE  (\A d \in proc'.todo : Grave(d, proc.alarm)') /\ jobs' = jobs
  <2> DEFINE a == Head(commandChan).alarm
             devices == InZone(S, alarms[a].zone)
  <2>1. proc' \in {Free, [alarm |-> a, todo |-> devices], proc} /\ jobs' = jobs /\ proc = Free
    BY <1>3 DEF TakeZone, Take
  <2>2. a \in Alarm /\ alarms[a].level >= ValveControlLevel
    <3>1. commandChan # <<>>
      BY <1>3 DEF TakeZone, Take
    <3>2. Head(commandChan) = commandChan[1] /\ 1 \in 1 .. Len(commandChan)
      BY <3>1, CommandsTyped
    <3> QED BY <3>2, CommandsTyped DEF Warranted
  <2>3. \A d \in devices : Grave(d, a)
    BY <2>2 DEF InZone, Grave
  <2> HIDE DEF a, devices
  <2> QED BY <1>1, <2>1, <2>3 DEF Free
<1>4. ASSUME NEW d \in Dev, d \in proc.todo, LoopOn(d)
      PROVE  \A e \in proc'.todo : Grave(e, proc.alarm)'
  <2>1. proc'.todo \subseteq proc.todo /\ (proc'.todo # {} => proc'.alarm = proc.alarm)
    <3>1. proc \in [alarm : 0 .. Len(alarms), todo : SUBSET Dev]
      BY DEF Types, TypeOK
    <3>2. \/ proc' = [alarm |-> 0, todo |-> {}]
          \/ proc' = [proc EXCEPT !.todo = proc.todo \ {d}]
      BY <1>4 DEF LoopOn, Free
    <3> QED BY ONLY <3>1, <3>2
  <2> QED BY <1>1, <2>1 DEF Warranted
<1>5. ASSUME NEW d \in Dev, StartJob(d)
      PROVE  \A j \in jobs' : /\ Grave(j.device, j.alarm)'
                              /\ j.order = "high" => alarms'[j.alarm].level >= FanSpeedHighLevel
  <2> DEFINE order == ControlOrder(d, proc.alarm)
             new == [device |-> d, alarm |-> proc.alarm, at |-> "publish", order |-> order]
  <2>1. jobs' = jobs \cup {new} /\ alarms' = alarms /\ Grave(d, proc.alarm)
    BY <1>5 DEF StartJob, Warranted
  <2>2. order = "high" => alarms[proc.alarm].level >= FanSpeedHighLevel
    BY DEF ControlOrder
  <2> HIDE DEF order
  <2> QED BY <1>1, <1>2, <2>1, <2>2
<1>6. ASSUME NEW j \in jobs, NEW place, jobs' = Moved(j, place)
      PROVE  \A k \in jobs' : /\ Grave(k.device, k.alarm)'
                              /\ k.order = "high" => alarms'[k.alarm].level >= FanSpeedHighLevel
  <2>1. j \in [device : Dev, alarm : Alarm, order : Order,
               at : {"publish", "row", "logSuccess", "logFailure"}]
    BY DEF Types, TypeOK
  <2>2. /\ [j EXCEPT !.at = place].device = j.device /\ [j EXCEPT !.at = place].alarm = j.alarm
        /\ [j EXCEPT !.at = place].order = j.order
    BY <2>1
  <2> QED BY <1>2, <1>6, <2>2 DEF Moved
<1>7. CASE ProcessorStep
  <2>1. CASE TakeCloseValves \/ TakeStartFans
    BY <1>2, <1>3, <2>1 DEF TakeCloseValves, TakeStartFans, Dev
  <2>2. CASE SendEvacuationNotification
    <3>1. proc' = proc /\ jobs' = jobs
      BY <2>2 DEF SendEvacuationNotification
    <3> QED BY <1>1, <1>2, <3>1 DEF Warranted
  <2>3. ASSUME NEW d \in Dev, PassOver(d) \/ StartJob(d)
        PROVE  \A e \in proc'.todo : Grave(e, proc.alarm)'
    BY <1>4, <2>3 DEF PassOver, StartJob
  <2>4. ASSUME NEW d \in Dev, PassOver(d) PROVE jobs' = jobs
    BY <2>4 DEF PassOver
  <2> QED BY <1>2, <1>5, <1>7, <2>1, <2>2, <2>3, <2>4 DEF ProcessorStep
<1>8. CASE JobStep
  <2>1. proc' = proc
    BY <1>8 DEF JobStep, JobPublish, JobRow, JobLog, AfterFailure
  <2>2. (jobs' \subseteq jobs) \/ \E j \in jobs, place \in {"row", "logSuccess", "logFailure"} :
                                    jobs' = Moved(j, place)
    BY <1>8 DEF JobStep, JobPublish, JobRow, JobLog, AfterFailure
  <2> QED BY <1>1, <1>2, <1>6, <2>1, <2>2 DEF Warranted
<1>9. CASE ReceiverStep \/ ResetStep \/ Environment \/ UNCHANGED vars
  <2>1. proc' = proc /\ jobs' = jobs
    BY <1>9 DEF ReceiverStep, RcvPoll, RcvTimeout, RcvAlarm, RcvSend, RcvPanic, ResetStep,
                ResetPublish, ResetForget, Environment, RaiseAlarm, ResetCommit, Cool, ControlByHand, Stop, vars
  <2> QED BY <1>1, <1>2, <2>1 DEF Warranted
<1> QED BY <1>7, <1>8, <1>9 DEF Next

\* The last: only a goroutine of a device, or a reset, changes what was sent.
LEMMA SentWarranted == Types /\ Warranted /\ [Next]_vars => OrdersAreWarranted'
<1> SUFFICES ASSUME Types, Warranted, [Next]_vars, NEW d \in Dev, sent'[d] # Rest(d)
             PROVE  \E a \in Alarm' :
                      /\ alarms'[a].zone = ZoneOf[d] /\ alarms'[a].level >= ValveControlLevel
                      /\ sent'[d] = "high" => alarms'[a].level >= FanSpeedHighLevel
                      /\ Begun(d, a)'
  BY DEF OrdersAreWarranted
<1>0. sent \in [Dev -> Order]
  BY DEF Types, TypeOK
<1>1. CASE sent'[d] = sent[d]
  <2>1. PICK a \in Alarm :
          /\ alarms[a].zone = ZoneOf[d] /\ alarms[a].level >= ValveControlLevel
          /\ sent[d] = "high" => alarms[a].level >= FanSpeedHighLevel
          /\ Begun(d, a)
    BY <1>1 DEF Warranted, OrdersAreWarranted
  <2>2. a \in Alarm' /\ alarms'[a] = alarms[a] /\ Begun(d, a)'
    BY <2>1, AlarmsStay, BegunStays
  <2> QED BY <1>1, <2>1, <2>2
<1>2. ASSUME NEW j \in jobs, JobPublish(j), sent'[d] # sent[d]
      PROVE  /\ d = j.device /\ sent'[d] = j.order
  BY <1>0, <1>2 DEF JobPublish
<1>3. ASSUME NEW e \in Dev, ResetPublish(e) PROVE sent'[d] = sent[d]
  BY <1>0, <1>3 DEF ResetPublish
<1>4. \/ sent'[d] = sent[d]
      \/ \E j \in jobs : JobPublish(j) /\ sent'[d] # sent[d]
      \/ \E e \in Dev : ResetPublish(e)
  BY DEF Next, ReceiverStep, RcvPoll, RcvTimeout, RcvAlarm, RcvSend, RcvPanic, ProcessorStep,
         TakeCloseValves, TakeStartFans, TakeZone, SendEvacuationNotification, PassOver, StartJob,
         JobStep, JobRow, JobLog, ResetStep, ResetForget, Environment,
         RaiseAlarm, ResetCommit, Cool, ControlByHand, Stop, vars, devVars
<1>5. ASSUME NEW j \in jobs, JobPublish(j), sent'[d] # sent[d]
      PROVE  \E a \in Alarm' :
               /\ alarms'[a].zone = ZoneOf[d] /\ alarms'[a].level >= ValveControlLevel
               /\ sent'[d] = "high" => alarms'[a].level >= FanSpeedHighLevel
               /\ Begun(d, a)'
  <2>1. d = j.device /\ sent'[d] = j.order /\ Begun(d, j.alarm)
    BY <1>2, <1>5 DEF Begun
  <2>2. /\ Grave(d, j.alarm)
        /\ j.order = "high" => alarms[j.alarm].level >= FanSpeedHighLevel
    BY <2>1 DEF Warranted
  <2>3. j.alarm \in Alarm' /\ alarms'[j.alarm] = alarms[j.alarm] /\ Begun(d, j.alarm)'
    BY <2>1, <2>2, AlarmsStay, BegunStays DEF Grave
  <2> QED BY <2>1, <2>2, <2>3 DEF Grave
<1> QED BY <1>1, <1>3, <1>4, <1>5

\* handleAlarm, the command channel, the zone queries and the goroutines of
\* the devices pass an alarm on: whatever runs at the same time, a device is
\* away from rest only by order of an alarm of its zone, and of its level.
THEOREM OrdersHold == SafetySpec => []OrdersAreWarranted
<1>1. Init => Types /\ Warranted
  <2>1. Init => Warranted
    BY DEF Init, Warranted, OrdersAreWarranted, Free, CommandType
  <2> QED BY <2>1, InitTypes
<1>2. Types /\ Warranted /\ [Next]_vars => Types' /\ Warranted'
  <2> SUFFICES ASSUME Types, Warranted, [Next]_vars PROVE Types' /\ Warranted'
    OBVIOUS
  <2>1. Types'
    BY StepTyped
  <2>2. Warranted'
    BY ReceiverWarranted, JobsWarranted, SentWarranted DEF Warranted
  <2> QED BY <2>1, <2>2
<1>3. Warranted => OrdersAreWarranted
  BY DEF Warranted
<1> QED BY <1>1, <1>2, <1>3, PTL DEF SafetySpec

-------------------------------------------------------------------------------
(* Evacuation comes last *)

TypeOf(d) == IF d \in Valve THEN "close_valves" ELSE "start_fans"

\* A device has begun or is one the processor has still to come to, or its
\* command waits among the first n.
Turn(d, a)      == Begun(d, a) \/ (proc.alarm = a /\ d \in proc.todo)
Queued(d, a, n) == \E j \in 1 .. n : commandChan[j].type = TypeOf(d) /\ commandChan[j].alarm = a
Waits(d, a, n)  == Turn(d, a) \/ Queued(d, a, n)

\* Whoever is warned next is warned after the devices of the zone.
Last ==
  /\ EvacuationComesLast
  /\ \A i \in 1 .. Len(commandChan) : commandChan[i].type = "evacuation" =>
       \A d \in InZone(Dev, alarms[commandChan[i].alarm].zone) :
         Waits(d, commandChan[i].alarm, i - 1)
  /\ rcvAt = "start_fans" =>
       \A d \in InZone(Valve, alarms[rcvAlarm].zone) : Waits(d, rcvAlarm, Len(commandChan))
  /\ rcvAt = "evacuation" =>
       \A d \in InZone(Dev, alarms[rcvAlarm].zone) : Waits(d, rcvAlarm, Len(commandChan))

\* A device the processor has come to has begun.
LEMMA TurnStays ==
  Types /\ [Next]_vars => \A d \in Dev, a \in Alarm : Turn(d, a) => Turn(d, a)'
<1> SUFFICES ASSUME Types, [Next]_vars, NEW d \in Dev, NEW a \in Alarm, Turn(d, a)
             PROVE  Turn(d, a)'
  OBVIOUS
<1>1. CASE Begun(d, a)
  BY <1>1, BegunStays DEF Turn
<1>2. CASE proc.alarm = a /\ d \in proc.todo
  <2>1. CASE proc' = proc
    BY <1>2, <2>1 DEF Turn
  <2>2. ASSUME NEW type, NEW S, TakeZone(type, S) PROVE FALSE
    BY <1>2, <2>2 DEF TakeZone, Take, Free
  <2>3. ASSUME NEW e \in Dev, LoopOn(e), e # d PROVE Turn(d, a)'
    <3>1. proc \in [alarm : 0 .. Len(alarms), todo : SUBSET Dev]
      BY DEF Types, TypeOK
    <3>2. proc.todo # {e} /\ proc' = [proc EXCEPT !.todo = proc.todo \ {e}]
      BY <1>2, <2>3 DEF LoopOn
    <3>3. proc'.alarm = a /\ d \in proc'.todo
      BY <1>2, <2>3, <3>1, <3>2
    <3> QED BY <3>3 DEF Turn
  <2>4. CASE PassOver(d)
    <3>1. [device |-> d, alarm |-> a, result |-> "cooling"] \in answers'
      BY <1>2, <2>4 DEF PassOver, Answer
    <3> QED BY <3>1 DEF Turn, Begun
  <2>5. CASE StartJob(d)
    <3> DEFINE job(order) == [device |-> d, alarm |-> a, at |-> "publish", order |-> order]
    <3>1. job(ControlOrder(d, a)) \in jobs'
      BY <1>2, <2>5 DEF StartJob
    <3>2. \A order : job(order).device = d /\ job(order).alarm = a
      OBVIOUS
    <3> HIDE DEF job
    <3> QED BY <3>1, <3>2 DEF Turn, Begun
  <2>6. ASSUME NEW e \in Dev, PassOver(e) \/ StartJob(e), e # d PROVE Turn(d, a)'
    BY <2>3, <2>6 DEF PassOver, StartJob
  <2>7. \/ proc' = proc
        \/ TakeZone("close_valves", Valve) \/ TakeZone("start_fans", Fan)
        \/ \E e \in Dev : PassOver(e) \/ StartJob(e)
    BY DEF Next, ReceiverStep, RcvPoll, RcvTimeout, RcvAlarm, RcvSend, RcvPanic, ProcessorStep,
           TakeCloseValves, TakeStartFans, SendEvacuationNotification,
           JobStep, JobPublish, JobRow, JobLog, ResetStep, ResetPublish, ResetForget, Environment,
           RaiseAlarm, ResetCommit, Cool, ControlByHand, Stop, vars, devVars
  <2> QED BY <2>1, <2>2, <2>4, <2>5, <2>6, <2>7
<1> QED BY <1>1, <1>2 DEF Turn

\* The devices of the command the processor takes have their turn.
LEMMA TakenHasTurn ==
  ASSUME Types, [Next]_vars, NEW type \in {"close_valves", "start_fans"},
         NEW S \in {Valve, Fan}, (type = "close_valves") <=> (S = Valve), TakeZone(type, S),
         NEW d \in Dev, NEW a \in Alarm, ZoneOf[d] = alarms[a].zone,
         Head(commandChan).type = TypeOf(d), Head(commandChan).alarm = a
  PROVE  Turn(d, a)'
<1> DEFINE devices == InZone(S, alarms[a].zone)
<1>1. d \in devices
  BY DevicesAreDistinct DEF TakeZone, Take, TypeOf, InZone, Dev
<1>2. \/ proc' = [alarm |-> a, todo |-> devices]
      \/ answers' = answers \cup Answer(devices, a, "unlisted")
  BY <1>1 DEF TakeZone
<1> HIDE DEF devices
<1>3. CASE proc' = [alarm |-> a, todo |-> devices]
  BY <1>1, <1>3 DEF Turn
<1>4. CASE answers' = answers \cup Answer(devices, a, "unlisted")
  <2>1. [device |-> d, alarm |-> a, result |-> "unlisted"] \in answers'
    BY <1>1, <1>4 DEF Answer
  <2> QED BY <2>1 DEF Turn, Begun
<1> QED BY <1>2, <1>3, <1>4

\* Taking the first command moves the others up.
LEMMA TakeShifts ==
  ASSUME Types, [Next]_vars, TakeCloseValves \/ TakeStartFans \/ SendEvacuationNotification,
         NEW d \in Dev, NEW a \in Alarm, ZoneOf[d] = alarms[a].zone,
         NEW n \in 0 .. Len(commandChan), Waits(d, a, n)
  PROVE  Waits(d, a, n - 1)'
<1>0. commandChan # <<>> /\ commandChan' = Tail(commandChan)
  BY DEF TakeCloseValves, TakeStartFans, TakeZone, SendEvacuationNotification, Take
<1>1. CASE Turn(d, a)
  BY <1>1, TurnStays DEF Waits
<1>2. ASSUME NEW j \in 1 .. n, commandChan[j].type = TypeOf(d), commandChan[j].alarm = a
      PROVE  Waits(d, a, n - 1)'
  <2>1. CASE j = 1
    <3>1. Head(commandChan).type = TypeOf(d) /\ Head(commandChan).alarm = a
      BY <1>0, <1>2, <2>1, CommandsTyped
    <3>2. ~SendEvacuationNotification
      BY <3>1 DEF SendEvacuationNotification, Take, TypeOf
    <3>3. CASE TakeZone("close_valves", Valve)
      BY <3>1, <3>3, TakenHasTurn DEF Waits
    <3>4. CASE TakeZone("start_fans", Fan)
      <4>1. CASE Fan = Valve
        <5>1. Dev = {}
          BY <4>1, DevicesAreDistinct DEF Dev
        <5> QED BY <5>1
      <4>2. CASE Fan # Valve
        BY <3>1, <3>4, <4>2, TakenHasTurn DEF Waits
      <4> QED BY <4>1, <4>2
    <3> QED BY <3>2, <3>3, <3>4 DEF TakeCloseValves, TakeStartFans
  <2>2. CASE j # 1
    <3>1. j - 1 \in 1 .. n - 1 /\ commandChan'[j - 1] = commandChan[j]
      BY <1>0, <2>2, CommandsTyped
    <3> QED BY <1>2, <3>1 DEF Waits, Queued
  <2> QED BY <2>1, <2>2
<1> QED BY <1>1, <1>2 DEF Waits, Queued

\* Other steps at most add a command.
LEMMA WaitsStays ==
  ASSUME Types, [Next]_vars, NEW d \in Dev, NEW a \in Alarm,
         NEW n \in 0 .. Len(commandChan), Waits(d, a, n),
         \A j \in 1 .. Len(commandChan) : commandChan'[j] = commandChan[j]
  PROVE  Waits(d, a, n)'
<1>1. CASE Turn(d, a)
  BY <1>1, TurnStays DEF Waits
<1>2. ASSUME NEW j \in 1 .. n, commandChan[j].type = TypeOf(d), commandChan[j].alarm = a
      PROVE  commandChan'[j] = commandChan[j]
  BY CommandsTyped
<1> QED BY <1>1, <1>2 DEF Waits, Queued

\* The warnings sent so far.
LEMMA NotifiedKeeps == Types /\ Last /\ [Next]_vars => EvacuationComesLast'
<1> SUFFICES ASSUME Types, Last, [Next]_vars, NEW a \in notified',
                    NEW d \in InZone(Dev, alarms[a].zone)'
             PROVE  Begun(d, a)'
  BY DEF EvacuationComesLast
<1>1. CASE a \in notified
  <2>1. a \in Alarm /\ alarms'[a] = alarms[a]
    BY <1>1, AlarmsStay DEF Types, TypeOK
  <2>2. Begun(d, a) /\ d \in Dev
    BY <1>1, <2>1 DEF Last, EvacuationComesLast, InZone
  <2> QED BY <2>1, <2>2, BegunStays
<1>2. CASE a \notin notified
  <2>1. SendEvacuationNotification /\ a = Head(commandChan).alarm
    BY <1>2 DEF Next, ReceiverStep, RcvPoll, RcvTimeout, RcvAlarm, RcvSend, RcvPanic,
           ProcessorStep, TakeCloseValves, TakeStartFans, TakeZone, SendEvacuationNotification,
           PassOver, StartJob, JobStep, JobPublish, JobRow, JobLog, ResetStep, ResetPublish,
           ResetForget, Environment, RaiseAlarm, ResetCommit, Cool, ControlByHand, Stop, vars
  <2>2. /\ proc = Free /\ alarms' = alarms
        /\ commandChan # <<>> /\ Head(commandChan).type = "evacuation"
    BY <2>1 DEF SendEvacuationNotification, Take
  <2>3. /\ 1 \in 1 .. Len(commandChan) /\ Head(commandChan) = commandChan[1]
        /\ a \in Alarm
    BY <2>1, <2>2, CommandsTyped
  <2>4. Waits(d, a, 0) /\ d \in Dev
    BY <2>1, <2>2, <2>3 DEF Last, InZone
  <2>5. Begun(d, a)
    BY <2>2, <2>4 DEF Waits, Turn, Queued, Free
  <2> QED BY <2>3, <2>4, <2>5, BegunStays
<1> QED BY <1>1, <1>2

\* The processor takes a command.
LEMMA TakeKeepsLast ==
  ASSUME Types, Last, [Next]_vars, TakeCloseValves \/ TakeStartFans \/ SendEvacuationNotification
  PROVE  Last'
<1>1. /\ commandChan # <<>> /\ commandChan' = Tail(commandChan)
      /\ UNCHANGED <<alarms, rcvAt, rcvAlarm>>
  BY DEF TakeCloseValves, TakeStartFans, TakeZone, SendEvacuationNotification, Take, rcvVars
<1>2. /\ Len(commandChan) \in Nat /\ Len(commandChan') = Len(commandChan) - 1
      /\ \A i \in 1 .. Len(commandChan') : i + 1 \in 1 .. Len(commandChan)
                                           /\ commandChan'[i] = commandChan[i + 1]
  BY <1>1, CommandsTyped, QueueSteps
<1>3. ASSUME NEW i \in 1 .. Len(commandChan'), commandChan'[i].type = "evacuation",
             NEW a, a = commandChan'[i].alarm, NEW d \in InZone(Dev, alarms[a].zone)
      PROVE  Waits(d, a, i - 1)'
  <2>1. PICK k \in 1 .. Len(commandChan) :
          k - 1 = i /\ commandChan[k].type = "evacuation" /\ commandChan[k].alarm = a /\ a \in Alarm
    BY <1>2, <1>3, CommandsTyped
  <2>2. d \in Dev /\ ZoneOf[d] = alarms[a].zone
    BY <1>3 DEF InZone
  <2>3. i \in 0 .. Len(commandChan)
    BY <1>2
  <2>4. Waits(d, a, i)
    <3>1. Waits(d, commandChan[k].alarm, k - 1)
      BY <1>3, <2>1 DEF Last
    <3> QED BY <2>1, <3>1
  <2> QED BY <2>1, <2>2, <2>3, <2>4, TakeShifts
<1>4. PICK n, b : n \in Nat /\ n = Len(commandChan) /\ b = rcvAlarm
  BY <1>2
<1>5. ASSUME rcvAt \in {"start_fans", "evacuation"},
             NEW S \in SUBSET Dev, NEW d \in InZone(S, alarms[b].zone), Waits(d, b, n)
      PROVE  Waits(d, b, n - 1)'
  <2>1. d \in Dev /\ b \in Alarm /\ ZoneOf[d] = alarms[b].zone
    BY <1>4, <1>5 DEF InZone, Types, CommandType
  <2>2. n \in 0 .. Len(commandChan)
    BY <1>4
  <2> QED BY <1>5, <2>1, <2>2, TakeShifts
<1>6. Valve \in SUBSET Dev /\ Dev \in SUBSET Dev
  BY DEF Dev
<1>7. rcvAt = "start_fans" => \A d \in InZone(Valve, alarms[b].zone) : Waits(d, b, n - 1)'
  BY <1>4, <1>5, <1>6 DEF Last
<1>8. rcvAt = "evacuation" => \A d \in InZone(Dev, alarms[b].zone) : Waits(d, b, n - 1)'
  BY <1>4, <1>5, <1>6 DEF Last
<1> QED BY <1>1, <1>2, <1>3, <1>4, <1>7, <1>8, NotifiedKeeps DEF Last

\* The receiver sends the commands of an alarm one after the other.
LEMMA SendKeepsLast == ASSUME Types, Last, [Next]_vars, RcvSend PROVE Last'
<1>1. PICK n \in Nat, b \in Alarm : n = Len(commandChan) /\ b = rcvAlarm
  BY CommandsTyped DEF RcvSend, Types
<1> DEFINE c == [type |-> rcvAt, alarm |-> b]
<1>2. /\ commandChan' = Append(commandChan, c) /\ UNCHANGED <<alarms, rcvAlarm>>
      /\ rcvAt' = NextCommand(rcvAt, alarms[b].level)
      /\ rcvAt \in CommandType /\ c \in Command /\ c.type = rcvAt /\ c.alarm = b
  BY <1>1 DEF RcvSend, Types, Command
<1> HIDE DEF c
<1>3. /\ Len(commandChan') = n + 1 /\ commandChan'[n + 1] = c
      /\ \A j \in 1 .. n : commandChan'[j] = commandChan[j]
  BY <1>1, <1>2, CommandsTyped, QueueSteps
<1>4. ASSUME NEW d \in Dev, Waits(d, b, n)
      PROVE  Waits(d, b, n)' /\ Waits(d, b, n + 1)'
  <2>1. Turn(d, b)' \/ \E j \in 1 .. n : commandChan'[j].type = TypeOf(d)
                                         /\ commandChan'[j].alarm = b
    BY <1>3, <1>4, TurnStays DEF Waits, Queued
  <2>2. \A j \in 1 .. n : j \in 1 .. n + 1
    OBVIOUS
  <2> QED BY <2>1, <2>2 DEF Waits, Queued
<1>5. ASSUME NEW d \in Dev, TypeOf(d) = rcvAt PROVE Waits(d, b, n + 1)'
  <2>1. n + 1 \in 1 .. n + 1
    OBVIOUS
  <2> QED BY <1>2, <1>3, <1>5, <2>1 DEF Waits, Queued
<1>6. ASSUME NEW i \in 1 .. n + 1, commandChan'[i].type = "evacuation",
             NEW a, a = commandChan'[i].alarm, NEW d \in InZone(Dev, alarms[a].zone)
      PROVE  Waits(d, a, i - 1)'
  <2>1. CASE i = n + 1
    <3>1. rcvAt = "evacuation" /\ a = b /\ d \in Dev
      BY <1>2, <1>3, <1>6, <2>1 DEF InZone
    <3>2. Waits(d, b, n)'
      BY <1>1, <1>4, <1>6, <3>1 DEF Last
    <3>3. i - 1 = n
      BY <2>1
    <3> QED BY <3>1, <3>2, <3>3
  <2>2. CASE i # n + 1
    <3>1. i \in 1 .. n /\ commandChan'[i] = commandChan[i] /\ i - 1 \in 0 .. n
      BY <1>3, <2>2
    <3>2. Waits(d, a, i - 1) /\ d \in Dev /\ a \in Alarm
      BY <1>1, <1>6, <3>1, CommandsTyped DEF Last, InZone
    <3> QED BY <1>1, <1>3, <3>1, <3>2, WaitsStays
  <2> QED BY <2>1, <2>2
<1>7. ASSUME rcvAt' = "start_fans", NEW d \in InZone(Valve, alarms[b].zone)
      PROVE  Waits(d, b, n + 1)'
  <2>1. d \in Dev /\ TypeOf(d) = "close_valves"
    BY <1>7 DEF InZone, Dev, TypeOf
  <2>2. rcvAt = "close_valves"
    BY <1>2, <1>7 DEF NextCommand
  <2> QED BY <1>5, <2>1, <2>2
<1>8. ASSUME rcvAt' = "evacuation", NEW d \in InZone(Dev, alarms[b].zone)
      PROVE  Waits(d, b, n + 1)'
  <2>1. rcvAt = "start_fans" /\ d \in Dev
    BY <1>2, <1>8 DEF NextCommand, InZone
  <2>2. CASE d \in Valve
    <3>1. d \in InZone(Valve, alarms[b].zone)
      BY <1>8, <2>2 DEF InZone
    <3> QED BY <1>1, <1>4, <2>1, <3>1 DEF Last
  <2>3. CASE d \notin Valve
    BY <1>5, <2>1, <2>3 DEF TypeOf
  <2> QED BY <2>2, <2>3
<1> QED BY <1>1, <1>2, <1>3, <1>6, <1>7, <1>8, NotifiedKeeps DEF Last

\* The other steps leave the commands and the alarm of the receiver alone.
LEMMA OthersKeepLast ==
  ASSUME Types, Last, [Next]_vars, commandChan' = commandChan,
         \/ UNCHANGED <<rcvAt, rcvAlarm>>
         \/ rcvAt' \notin {"start_fans", "evacuation"}
  PROVE  Last'
<1>1. \A a \in Alarm : alarms'[a] = alarms[a]
  BY AlarmsStay
<1>2. PICK n, b : n \in Nat /\ n = Len(commandChan) /\ b = rcvAlarm
  BY CommandsTyped
<1>3. ASSUME NEW d \in Dev, NEW a \in Alarm, NEW m \in 0 .. n, Waits(d, a, m)
      PROVE  Waits(d, a, m)'
  BY <1>2, <1>3, WaitsStays
<1>4. ASSUME NEW i \in 1 .. n, commandChan[i].type = "evacuation",
             NEW a, a = commandChan[i].alarm, NEW d \in InZone(Dev, alarms'[a].zone)
      PROVE  Waits(d, a, i - 1)'
  <2>1. a \in Alarm
    BY <1>2, <1>4, CommandsTyped
  <2>2. d \in InZone(Dev, alarms[a].zone) /\ d \in Dev
    BY <1>1, <1>4, <2>1 DEF InZone
  <2>3. Waits(d, a, i - 1)
    BY <1>2, <1>4, <2>2 DEF Last
  <2>4. i - 1 \in 0 .. n
    BY <1>2
  <2> QED BY <1>3, <2>1, <2>2, <2>3, <2>4
<1>5. ASSUME rcvAt' \in {"start_fans", "evacuation"}
      PROVE  rcvAt' = rcvAt /\ rcvAlarm' = b /\ b \in Alarm
  BY <1>2, <1>5 DEF Types, CommandType
<1>6. n \in 0 .. n
  BY <1>2
<1>7. ASSUME rcvAt' = "start_fans", NEW d \in InZone(Valve, alarms'[b].zone)
      PROVE  Waits(d, b, n)'
  <2>1. d \in InZone(Valve, alarms[b].zone) /\ d \in Dev
    BY <1>1, <1>5, <1>7 DEF InZone, Dev
  <2>2. Waits(d, b, n)
    BY <1>2, <1>5, <1>7, <2>1 DEF Last
  <2> QED BY <1>3, <1>5, <1>6, <1>7, <2>1, <2>2
<1>8. ASSUME rcvAt' = "evacuation", NEW d \in InZone(Dev, alarms'[b].zone)
      PROVE  Waits(d, b, n)'
  <2>1. d \in InZone(Dev, alarms[b].zone) /\ d \in Dev
    BY <1>1, <1>5, <1>8 DEF InZone
  <2>2. Waits(d, b, n)
    BY <1>2, <1>5, <1>8, <2>1 DEF Last
  <2> QED BY <1>3, <1>5, <1>6, <1>8, <2>1, <2>2
<1> QED BY <1>2, <1>4, <1>5, <1>7, <1>8, NotifiedKeeps DEF Last

\* Every step keeps the order.
LEMMA StepLast == Types /\ Last /\ [Next]_vars => Last'
<1> SUFFICES ASSUME Types, Last, [Next]_vars PROVE Last'
  OBVIOUS
<1>1. CASE RcvPoll \/ RcvTimeout \/ RcvAlarm
  <2>1. commandChan' = commandChan /\ rcvAt' \notin {"start_fans", "evacuation"}
    BY <1>1 DEF RcvPoll, RcvTimeout, RcvAlarm, FirstCommand
  <2> QED BY <2>1, OthersKeepLast
<1>2. CASE \/ RcvPanic \/ JobStep \/ ResetStep \/ Environment \/ UNCHANGED vars
           \/ \E d \in Dev : PassOver(d) \/ StartJob(d)
  <2>1. commandChan' = commandChan /\ UNCHANGED <<rcvAt, rcvAlarm>>
    BY <1>2 DEF RcvPanic, JobStep, JobPublish, JobRow, JobLog, ResetStep, ResetPublish, ResetForget,
                Environment, RaiseAlarm, ResetCommit, Cool, ControlByHand, Stop, PassOver, StartJob, vars, rcvVars
  <2> QED BY <2>1, OthersKeepLast
<1>3. CASE TakeCloseValves \/ TakeStartFans \/ SendEvacuationNotification
  BY <1>3, TakeKeepsLast
<1>4. CASE RcvSend
  BY <1>4, SendKeepsLast
<1> QED BY <1>1, <1>2, <1>3, <1>4 DEF Next, ReceiverStep, ProcessorStep

\* The receiver queues the commands of an alarm in order and the processor
\* takes one at a time: when people are told to leave, every valve and fan of
\* the zone has had its turn.
THEOREM EvacuationIsLast == SafetySpec => []EvacuationComesLast
<1>1. Init => Last
  BY DEF Init, Last, EvacuationComesLast
<1>2. Last => EvacuationComesLast
  BY DEF Last
<1> QED BY <1>1, <1>2, InitTypes, StepTyped, StepLast, PTL DEF SafetySpec

-------------------------------------------------------------------------------
(* Rows follow orders *)

Untouched(d) == resets[ZoneOf[d]] = 0
Quiet(d)     == Untouched(d) /\ d \notin crossed

\* A device that had one goroutine at a time, in a zone nobody has reset, is
\* ordered and recorded by one goroutine; between the publish and the update
\* the row is behind the order, otherwise they agree.  If no publish outlasts
\* the cooldown, the device is cooling down as long as its goroutine is there.
Following ==
  /\ reset.at # "idle" => resets[reset.zone] > 0 /\ reset.todo \subseteq InZone(Dev, reset.zone)
  /\ reset.at = "idle" => reset.todo = {}
  /\ ~LongOutages => /\ \A d \in crossed : ~Untouched(d)
                     /\ \A j \in jobs : Untouched(j.device) => j.device \in hot
  /\ \A j \in jobs : Quiet(j.device) =>
       /\ \A k \in jobs : k.device = j.device => k = j
       /\ j.at = "row" => sent[j.device] = j.order
  /\ \A d \in Dev : Quiet(d) /\ d \notin rowErrors \cup byHand /\ row[d] # sent[d] =>
       \E j \in jobs : j.device = d /\ j.at = "row"

\* Steps that touch no device and no reset.
LEMMA FollowingStays ==
  ASSUME Following,
         UNCHANGED <<hot, jobs, reset, resets, row, rowErrors, byHand, sent, crossed>>
  PROVE  Following'
BY DEF Following, Quiet, Untouched

\* A device that cools down has no goroutine to wait for, or outages are long.
LEMMA CoolFollows == ASSUME Types, Following, NEW d \in Dev, Cool(d) PROVE Following'
<1>1. /\ hot' = hot \ {d} /\ (~LongOutages => \A j \in jobs : j.device # d)
      /\ UNCHANGED <<jobs, reset, resets, row, rowErrors, byHand, sent, crossed>>
  BY DEF Cool, devVars, rowVars
<1> QED BY <1>1 DEF Following, Quiet, Untouched

\* A row written by hand is excused until an order is recorded in it.
LEMMA HandFollows == ASSUME Types, Following, NEW d \in Dev, ControlByHand(d) PROVE Following'
<1>1. /\ byHand' = byHand \cup {d} /\ \A e \in Dev : e # d => row'[e] = row[e]
      /\ UNCHANGED <<hot, jobs, reset, resets, rowErrors, sent, crossed>>
  BY DEF ControlByHand, Types, TypeOK
<1> QED BY <1>1 DEF Following, Quiet, Untouched

\* A goroutine is started for a device that is not cooling down; if another
\* one of the device is still there, they have crossed.
LEMMA StartFollows == ASSUME Types, Following, NEW d \in Dev, StartJob(d) PROVE Following'
<1> DEFINE new == [device |-> d, alarm |-> proc.alarm, at |-> "publish",
                   order |-> ControlOrder(d, proc.alarm)]
<1>1. /\ jobs' = jobs \cup {new} /\ hot' = hot \cup {d} /\ d \notin hot
      /\ new.device = d /\ new.at = "publish"
      /\ crossed' = IF \E j \in jobs : j.device = d THEN crossed \cup {d} ELSE crossed
      /\ UNCHANGED <<reset, resets, row, rowErrors, byHand, sent>>
  BY DEF StartJob, Mark, devVars, rowVars
<1> HIDE DEF new
<1>2. ~LongOutages /\ Untouched(d) => \A j \in jobs : j.device # d
  BY <1>1 DEF Following
<1>3. ~LongOutages => /\ \A e \in crossed' : ~Untouched(e)
                      /\ \A j \in jobs' : Untouched(j.device) => j.device \in hot'
  BY <1>1, <1>2 DEF Following
<1>4. ASSUME NEW j \in jobs', Untouched(j.device), j.device \notin crossed'
      PROVE  /\ \A k \in jobs' : k.device = j.device => k = j
             /\ j.at = "row" => sent[j.device] = j.order
  <2>1. j.device \notin crossed
    BY <1>1, <1>4
  <2>2. j.device = d => \A k \in jobs : k.device # d
    BY <1>1, <1>4
  <2> QED BY <1>1, <1>4, <2>1, <2>2 DEF Following, Quiet
<1>5. crossed \subseteq crossed'
  BY <1>1
<1> QED BY <1>1, <1>3, <1>4, <1>5 DEF Following, Quiet, Untouched

\* A goroutine goes from place to place.
LEMMA MovedJob ==
  ASSUME Types, NEW j \in jobs, NEW place
  PROVE  /\ [j EXCEPT !.at = place].device = j.device
         /\ [j EXCEPT !.at = place].order = j.order
         /\ [j EXCEPT !.at = place].at = place
         /\ j.device \in Dev
BY DEF Types, TypeOK

\* The order that was accepted and the one that is written are the same.
LEMMA JobFollows ==
  ASSUME Types, Following, NEW j \in jobs, JobPublish(j) \/ JobRow(j) PROVE Following'
<1>1. PICK place \in {"row", "logFailure", "logSuccess"} :
        /\ jobs' = Moved(j, place)
        /\ \/ place = "row" /\ sent' = [sent EXCEPT ![j.device] = j.order] /\ j.at = "publish"
              /\ row' = row /\ rowErrors' = rowErrors /\ byHand' = byHand
           \/ place = "logFailure" /\ sent' = sent /\ row' = row /\ rowErrors' = rowErrors
              /\ j.at = "publish" /\ byHand' = byHand
           \/ place = "logSuccess" /\ sent' = sent /\ j.at = "row"
              /\ \/ /\ row' = [row EXCEPT ![j.device] = j.order] /\ rowErrors' = rowErrors
                    /\ byHand' = byHand \ {j.device}
                 \/ row' = row /\ rowErrors' = rowErrors \cup {j.device} /\ byHand' = byHand
  BY DEF JobPublish, JobRow, AfterFailure, rowVars
<1> DEFINE m == [j EXCEPT !.at = place]
<1>2. /\ m.device = j.device /\ m.order = j.order /\ m.at = place /\ j.device \in Dev
      /\ jobs' = (jobs \ {j}) \cup {m}
  BY <1>1, MovedJob DEF Moved
<1> HIDE DEF m
<1>3. /\ UNCHANGED <<hot, reset, resets, crossed>>
      /\ row \in [Dev -> Status] /\ sent \in [Dev -> Order]
  BY DEF JobPublish, JobRow, Types, TypeOK
<1>4. ASSUME NEW k \in jobs', Quiet(k.device)
      PROVE  /\ \A l \in jobs' : l.device = k.device => l = k
             /\ k.at = "row" => sent'[k.device] = k.order
  <2>1. CASE k = m
    <3>1. /\ \A l \in jobs : l.device = j.device => l = j
          /\ j.at = "row" => sent[j.device] = j.order
      BY <1>2, <1>4, <2>1 DEF Following
    <3>2. place = "row" => sent'[j.device] = j.order
      BY <1>1, <1>2, <1>3
    <3> QED BY <1>2, <2>1, <3>1, <3>2
  <2>2. CASE k # m
    <3>1. k \in jobs /\ k # j
      BY <1>2, <2>2
    <3>2. /\ \A l \in jobs : l.device = k.device => l = k
          /\ k.at = "row" => sent[k.device] = k.order
      BY <1>4, <3>1 DEF Following
    <3>3. k.device # j.device
      BY <3>1, <3>2
    <3>4. k.device \in Dev
      BY <3>1 DEF Types, TypeOK
    <3>5. sent' = sent \/ sent' = [sent EXCEPT ![j.device] = j.order]
      BY <1>1
    <3>6. sent'[k.device] = sent[k.device]
      BY <1>3, <3>3, <3>4, <3>5
    <3>7. k.at = "row" => sent'[k.device] = k.order
      BY <3>2, <3>6
    <3>8. \A l \in jobs' : l.device = k.device => l = k
      BY <1>2, <3>2, <3>3
    <3> QED BY <3>7, <3>8
  <2> QED BY <2>1, <2>2
<1>5. ASSUME NEW d \in Dev, Quiet(d), d \notin rowErrors' \cup byHand', row'[d] # sent'[d]
      PROVE  \E k \in jobs' : k.device = d /\ k.at = "row"
  <2>1. CASE d = j.device
    <3>1. CASE place = "row"
      BY <1>2, <2>1, <3>1
    <3>2. CASE place # "row"
      <4>1. /\ \A l \in jobs : l.device = j.device => l = j
            /\ j.at = "row" => sent[j.device] = j.order
        BY <1>5, <2>1 DEF Following
      <4>2. CASE place = "logFailure"
        <5>1. row[d] # sent[d] /\ d \notin rowErrors \cup byHand /\ j.at = "publish"
          BY <1>1, <1>5, <4>2
        <5>2. PICK l \in jobs : l.device = d /\ l.at = "row"
          BY <1>5, <5>1 DEF Following
        <5> QED BY <2>1, <4>1, <5>1, <5>2
      <4>3. CASE place = "logSuccess"
        <5>1. row'[d] = j.order /\ sent'[d] = sent[d] /\ sent[d] = j.order
          BY <1>1, <1>2, <1>3, <1>5, <2>1, <4>1, <4>3
        <5> QED BY <1>5, <5>1
      <4> QED BY <3>2, <4>2, <4>3
    <3> QED BY <3>1, <3>2
  <2>2. CASE d # j.device
    <3>1. d \notin rowErrors \cup byHand /\ row[d] # sent[d]
      BY <1>1, <1>3, <1>5, <2>2
    <3>2. PICK k \in jobs : k.device = d /\ k.at = "row"
      BY <1>5, <3>1 DEF Following
    <3> QED BY <1>2, <2>2, <3>2
  <2> QED BY <2>1, <2>2
<1>6. ~LongOutages => /\ \A d \in crossed : ~Untouched(d)
                      /\ \A k \in jobs' : Untouched(k.device) => k.device \in hot
  BY <1>2 DEF Following
<1> QED BY <1>3, <1>4, <1>5, <1>6 DEF Following, Quiet, Untouched

\* A goroutine that ends has left row and order alike, or an error.
LEMMA LogFollows == ASSUME Types, Following, NEW j \in jobs, JobLog(j) PROVE Following'
<1>1. /\ jobs' = jobs \ {j} /\ j.at # "row"
      /\ UNCHANGED <<hot, reset, resets, row, rowErrors, byHand, sent, crossed>>
  BY DEF JobLog, devVars, rowVars
<1>2. ASSUME NEW d \in Dev, Quiet(d), d \notin rowErrors \cup byHand, row[d] # sent[d]
      PROVE  \E k \in jobs' : k.device = d /\ k.at = "row"
  <2>1. PICK k \in jobs : k.device = d /\ k.at = "row"
    BY <1>2 DEF Following
  <2> QED BY <1>1, <2>1
<1> QED BY <1>1, <1>2 DEF Following, Quiet, Untouched

\* A reset touches the devices of its zone only.
LEMMA ResetFollows ==
  ASSUME Types, Following, ResetStep \/ \E z \in Zone : ResetCommit(z)
  PROVE  Following'
<1>0. /\ resets \in [Zone -> 0 .. MaxResets] /\ ControllerBounds
      /\ \A d \in Dev : ZoneOf[d] \in Zone
      /\ row \in [Dev -> Status] /\ sent \in [Dev -> Order]
      /\ reset \in [at : {"idle", "publish", "forget", "done"}, zone : Zone, todo : SUBSET Dev]
      /\ \A j \in jobs : j.device \in Dev
      /\ crossed \subseteq Dev
  BY ControllerBounds, ZonesAreKnown DEF Types, TypeOK, Dev
<1>1. ASSUME NEW d \in Dev, ResetPublish(d) \/ ResetForget(d) PROVE Following'
  <2>1. /\ resets[reset.zone] > 0 /\ ZoneOf[d] = reset.zone
        /\ reset.todo \subseteq InZone(Dev, reset.zone)
    BY <1>1 DEF Following, ResetPublish, ResetForget, ResetTurn, InZone
  <2>2. ~Untouched(d)
    BY <1>0, <2>1 DEF Untouched
  <2>3. /\ UNCHANGED <<jobs, resets, row, rowErrors, byHand, crossed>>
        /\ \A e \in Dev : e # d => sent'[e] = sent[e] /\ (e \in hot => e \in hot')
    BY <1>0, <1>1 DEF ResetPublish, ResetForget, devVars, rowVars
  <2>4. reset'.zone = reset.zone /\ reset'.todo \subseteq reset.todo /\ reset'.at # "idle"
    BY <1>0, <1>1 DEF ResetPublish, ResetForget
  <2> QED BY <1>0, <2>1, <2>2, <2>3, <2>4 DEF Following, Quiet, Untouched
<1>2. ASSUME NEW z \in Zone, ResetCommit(z) PROVE Following'
  <2>1. /\ resets' = [resets EXCEPT ![z] = @ + 1]
        /\ row' = [d \in Dev |-> IF ZoneOf[d] = z THEN Rest(d) ELSE row[d]]
        /\ byHand' = byHand \ InZone(Dev, z)
        /\ UNCHANGED <<hot, jobs, rowErrors, sent, crossed>>
    BY <1>2 DEF ResetCommit
  <2>2. reset'.at # "idle" /\ reset'.zone = z /\ reset'.todo \subseteq InZone(Dev, z)
    BY <1>2 DEF ResetCommit
  <2>3. resets'[z] > 0
    BY <1>0, <2>1, ControllerBounds
  <2>4. \A d \in Dev : Untouched(d)' => /\ Untouched(d) /\ row'[d] = row[d]
                                        /\ d \in byHand' <=> d \in byHand
    BY <1>0, <2>1, <2>3 DEF Untouched, InZone
  <2>5. ~LongOutages => /\ \A d \in crossed' : ~Untouched(d)'
                        /\ \A j \in jobs' : Untouched(j.device)' => j.device \in hot'
    BY <1>0, <2>1, <2>4 DEF Following
  <2>6. \A d \in Dev : Quiet(d)' => Quiet(d)
    BY <2>1, <2>4 DEF Quiet
  <2>7. ASSUME NEW j \in jobs', Quiet(j.device)'
        PROVE  /\ \A k \in jobs' : k.device = j.device => k = j
               /\ j.at = "row" => sent'[j.device] = j.order
    BY <1>0, <2>1, <2>6, <2>7 DEF Following
  <2>8. ASSUME NEW d \in Dev, Quiet(d)', d \notin rowErrors' \cup byHand', row'[d] # sent'[d]
        PROVE  \E j \in jobs' : j.device = d /\ j.at = "row"
    <3>1. Untouched(d)'
      BY <2>8 DEF Quiet
    <3>2. Quiet(d) /\ d \notin rowErrors \cup byHand /\ row[d] # sent[d]
      BY <2>1, <2>4, <2>6, <2>8, <3>1
    <3> QED BY <2>1, <3>2 DEF Following
  <2> QED BY <2>2, <2>3, <2>5, <2>7, <2>8 DEF Following
<1> QED BY <1>1, <1>2 DEF ResetStep

\* Every step keeps row and order together.
LEMMA StepFollows == Types /\ Following /\ [Next]_vars => Following'
<1> SUFFICES ASSUME Types, Following, [Next]_vars PROVE Following'
  OBVIOUS
<1>1. CASE \/ ReceiverStep \/ Stop \/ UNCHANGED vars
           \/ TakeCloseValves \/ TakeStartFans \/ SendEvacuationNotification
           \/ \E d \in Dev : PassOver(d)
           \/ \E z \in Zone, level \in 1 .. 3 : RaiseAlarm(z, level)
  <2>1. UNCHANGED <<hot, jobs, reset, resets, row, rowErrors, byHand, sent, crossed>>
    BY <1>1 DEF ReceiverStep, RcvPoll, RcvTimeout, RcvAlarm, RcvSend, RcvPanic, Stop, vars, devVars,
                rowVars, TakeCloseValves, TakeStartFans, TakeZone, SendEvacuationNotification,
                PassOver, RaiseAlarm
  <2> QED BY <2>1, FollowingStays
<1>2. CASE JobStep
  BY <1>2, JobFollows, LogFollows DEF JobStep
<1>3. CASE ResetStep \/ \E z \in Zone : ResetCommit(z)
  BY <1>3, ResetFollows
<1>4. CASE \E d \in Dev : Cool(d) \/ ControlByHand(d)
  BY <1>4, CoolFollows, HandFollows
<1> QED BY <1>1, <1>2, <1>3, <1>4, StartFollows DEF Next, ProcessorStep, Environment

\* Whether or not a publish may outlast the cooldown: a row that disagrees
\* with the last order accepted, at a device without a goroutine, was written
\* by hand, by a reset, failed to be written, or two goroutines crossed; and
\* they cross only if a publish outlasted the cooldown.
THEOREM RowsFollow == SafetySpec => []RowFollowsOrders
<1>1. Init => Following
  BY DEF Init, Following
<1>2. Following => RowFollowsOrders
  <2> SUFFICES ASSUME Following, NEW d \in Dev, Untouched(d), d \notin rowErrors \cup byHand,
                      \A j \in jobs : j.device # d, row[d] # sent[d]
               PROVE  LongOutages /\ d \in crossed
    BY DEF RowFollowsOrders, Untouched
  <2>1. d \in crossed
    BY DEF Following, Quiet
  <2> QED BY <2>1, OutageAssumption DEF Following
<1> QED BY <1>1, <1>2, InitTypes, StepTyped, StepFollows, PTL DEF SafetySpec
===============================================================================
