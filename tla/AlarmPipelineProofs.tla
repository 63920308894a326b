------------------------- MODULE AlarmPipelineProofs -------------------------
(***************************************************************************)
(* Theorems about module AlarmPipeline, for any devices, thresholds,       *)
(* consumers and channel capacities and any number of messages.            *)
(***************************************************************************)
EXTENDS AlarmPipeline, AlarmRouterProofs, FiniteSetTheorems

-------------------------------------------------------------------------------
(* Messages and their count *)

SensorMessage ==
  [reading : Reading, valid : BOOLEAN,
   at : {"begin", "forward", "forwardLeak", "gone"}]

\* The messages that will not be offered to the router any more.
Past == {i \in Message : messages[i].at \in {"forwardLeak", "gone"}}

\* The router was offered at most one reading for each message that is past
\* that step, so that one whose step is still to come finds room in the bound.
CountInv ==
  /\ messages \in Seq(SensorMessage) /\ Len(messages) <= MaxReadings
  /\ \A i \in Message : At(i, "forward") => messages[i].valid
  /\ offered \in Nat /\ offered <= Cardinality(Past)

\* The messages are finitely many.
LEMMA PastIsFinite ==
  ASSUME CountInv
  PROVE  /\ Len(messages) \in Nat /\ IsFiniteSet(Message) /\ Cardinality(Message) = Len(messages)
         /\ IsFiniteSet(Past) /\ Cardinality(Past) \in Nat
<1>1. Len(messages) \in Nat
  BY DEF CountInv
<1>2. IsFiniteSet(Message) /\ Cardinality(Message) = Len(messages)
  BY <1>1, FS_Interval, SMTT(30) DEF Message
<1>3. IsFiniteSet(Past)
  BY <1>2, FS_Subset DEF Past
<1> QED BY <1>1, <1>2, <1>3, FS_CardinalityType

\* A message carries a reading.
LEMMA MessageTyped ==
  ASSUME CountInv, NEW i \in Message
  PROVE  messages[i] \in SensorMessage /\ messages[i].reading \in Reading
<1>1. messages \in Seq(SensorMessage) /\ i \in 1 .. Len(messages)
  BY DEF CountInv, Message
<1>2. messages[i] \in SensorMessage
  BY <1>1
<1> QED BY <1>2 DEF SensorMessage

\* A goroutine moves its own message.
LEMMA Moves ==
  ASSUME CountInv, NEW i \in Message, NEW place \in {"forward", "forwardLeak", "gone"},
         GoTo(i, place)
  PROVE  /\ messages' \in Seq(SensorMessage) /\ Len(messages') = Len(messages)
         /\ \A j \in Message :
              /\ messages'[j].reading = messages[j].reading
              /\ messages'[j].valid = messages[j].valid
              /\ messages'[j].at = IF j = i THEN place ELSE messages[j].at
<1> DEFINE m == [messages[i] EXCEPT !.at = place]
<1>1. Len(messages) \in Nat /\ messages \in Seq(SensorMessage) /\ messages[i] \in SensorMessage
  BY DEF CountInv, Message
<1>2. m \in SensorMessage /\ m.at = place /\ m.reading = messages[i].reading
      /\ m.valid = messages[i].valid
  BY <1>1 DEF SensorMessage
<1> HIDE DEF m
<1>3. messages' = [messages EXCEPT ![i] = m]
  BY DEF GoTo, m
<1>4. /\ messages' \in Seq(SensorMessage) /\ Len(messages') = Len(messages)
      /\ \A j \in Message : messages'[j] = IF j = i THEN m ELSE messages[j]
  BY <1>1, <1>2, <1>3 DEF Message
<1> QED BY <1>2, <1>4

\* A step of a goroutine that is not past the offer: it may offer once.
LEMMA CountStep ==
  ASSUME CountInv, NEW i \in Message, NEW place \in {"forward", "forwardLeak", "gone"},
         GoTo(i, place), place = "forward" => messages[i].valid,
         \/ offered' = offered
         \/ i \notin Past /\ place # "forward" /\ offered' = offered + 1,
         i \in Past => place # "forward"
  PROVE  CountInv'
<1>1. /\ messages' \in Seq(SensorMessage) /\ Len(messages') = Len(messages)
      /\ \A j \in Message :
           /\ messages'[j].valid = messages[j].valid
           /\ messages'[j].at = IF j = i THEN place ELSE messages[j].at
  BY Moves
<1>2. Message' = Message
  BY <1>1 DEF Message
<1>3. Past' = IF place = "forward" THEN Past ELSE Past \cup {i}
  BY <1>1, <1>2 DEF Past
<1>4. /\ Cardinality(Past)' = IF i \in Past \/ place = "forward" THEN Cardinality(Past)
                              ELSE Cardinality(Past) + 1
      /\ Cardinality(Past) \in Nat
  BY <1>3, PastIsFinite, FS_AddElement
<1>5. offered' \in Nat /\ offered' <= Cardinality(Past)'
  BY <1>4 DEF CountInv
<1>6. \A j \in Message' : At(j, "forward")' => messages'[j].valid
  BY <1>1, <1>2 DEF CountInv, At
<1> QED BY <1>1, <1>5, <1>6 DEF CountInv

\* Everything starts empty.
LEMMA InitCount == PipeInit => CountInv
<1> SUFFICES ASSUME PipeInit PROVE CountInv
  OBVIOUS
<1>1. messages = <<>> /\ offered = 0 /\ Message = {} /\ Past = {}
  BY DEF PipeInit, Init, Message, Past
<1> QED BY <1>1, FS_EmptySet, RouterBounds DEF CountInv

\* The steps of a message's goroutine.
LEMMA MessageCounts == CountInv /\ MessageStep => CountInv'
<1> SUFFICES ASSUME CountInv, NEW i \in Message, Begin(i) \/ Forward(i) \/ ForwardLeak(i)
             PROVE  CountInv'
  BY DEF MessageStep
<1>1. CASE Begin(i)
  <2>1. offered' = offered /\ i \notin Past
    BY <1>1 DEF Begin, vars, Past, At
  <2>2. PICK place \in {"forward", "gone"} :
          GoTo(i, place) /\ (place = "forward" => messages[i].valid)
    BY <1>1 DEF Begin, Passes
  <2> QED BY <2>1, <2>2, CountStep
<1>2. CASE Forward(i)
  <2>1. GoTo(i, "forwardLeak") /\ i \notin Past
    BY <1>2 DEF Forward, Past, At
  <2>2. offered' = offered \/ offered' = offered + 1
    BY <1>2 DEF Forward
  <2> QED BY <2>1, <2>2, CountStep
<1>3. CASE ForwardLeak(i)
  BY <1>3, CountStep DEF ForwardLeak, vars
<1> QED BY <1>1, <1>2, <1>3

\* A message arrives.
LEMMA ArrivalCounts ==
  ASSUME CountInv, NEW r \in Reading, NEW ok \in BOOLEAN, Arrive(r, ok)
  PROVE  CountInv'
<1> DEFINE m == [reading |-> r, valid |-> ok, at |-> "begin"]
<1>1. m \in SensorMessage /\ m.at = "begin"
  BY DEF SensorMessage
<1> HIDE DEF m
<1>2. messages' = Append(messages, m) /\ Len(messages) < MaxReadings /\ offered' = offered
  BY DEF Arrive, m, vars
<1>3. /\ Len(messages) \in Nat /\ messages' \in Seq(SensorMessage)
      /\ Len(messages') = Len(messages) + 1 /\ messages'[Len(messages) + 1] = m
      /\ \A j \in Message : messages'[j] = messages[j]
  BY <1>1, <1>2 DEF CountInv, Message
<1>4. Message' = Message \cup {Len(messages) + 1}
  BY <1>3 DEF Message
<1>5. Past' = Past
  BY <1>1, <1>3, <1>4 DEF Past
<1>6. \A j \in Message' : At(j, "forward")' => messages'[j].valid
  BY <1>1, <1>3, <1>4 DEF CountInv, At
<1>7. Len(messages') <= MaxReadings
  BY <1>2, <1>3, RouterBounds
<1>8. offered' \in Nat /\ offered' <= Cardinality(Past)'
  BY <1>2, <1>5 DEF CountInv
<1> QED BY <1>3, <1>6, <1>7, <1>8 DEF CountInv

\* All the other steps leave the messages and the offers alone.
LEMMA CountKeeps == CountInv /\ [PipeNext]_pipeVars => CountInv'
<1> SUFFICES ASSUME CountInv, [PipeNext]_pipeVars PROVE CountInv'
  OBVIOUS
<1>0. ASSUME messages' = messages, offered' = offered PROVE CountInv'
  BY <1>0 DEF CountInv, Past, Message, At
<1>1. ASSUME RouterStep PROVE offered' = offered
  BY <1>1 DEF RouterStep, ReceiverStep, Stop, Acknowledge, Poll, Receive, SelectTimeout,
              Resolve, ResolveRow, Rise, Create, Save, Trigger
<1>2. CASE Route \/ (\E d \in Device : OperatorAcknowledges(d)) \/ MainStep
  BY <1>0, <1>1, <1>2 DEF Route, OperatorAcknowledges, MainStep, RouterStep, receiverVars, vars
<1>3. CASE LocatorTakes \/ (\E k \in Consumer : Hear(k))
           \/ (\E k \in Consumer \cup {"locator"} : Leave(k)) \/ Panic
  BY <1>0, <1>3 DEF LocatorTakes, Hear, Leave, Panic, Consume, vars, receiverVars
<1>4. CASE UNCHANGED pipeVars
  BY <1>0, <1>4 DEF pipeVars, vars, receiverVars
<1>5. CASE \E r \in Reading, ok \in BOOLEAN : Arrive(r, ok)
  BY <1>5, ArrivalCounts
<1>6. CASE MessageStep
  BY <1>6, MessageCounts
<1> QED BY <1>2, <1>3, <1>4, <1>5, <1>6 DEF PipeNext

-------------------------------------------------------------------------------
(* The refinement of AlarmRouter *)

\* Forward is the Offer of AlarmRouter, or nothing it sees.
LEMMA ForwardOffers ==
  ASSUME CountInv, NEW i \in Message, Forward(i)
  PROVE  [Next]_vars
<1>1. i \notin Past /\ i \in Message
  BY DEF Forward, Past, At
<1>2. Cardinality(Past) < Len(messages)
  <2>1. IsFiniteSet(Message) /\ Past \in SUBSET Message /\ Past # Message
    BY <1>1, PastIsFinite DEF Past
  <2> QED BY <2>1, PastIsFinite, FS_Subset
<1>3. offered < MaxReadings
  BY <1>2, PastIsFinite, RouterBounds DEF CountInv
<1>4. messages[i].reading \in Reading
  BY MessageTyped
<1>5. CASE IsOffered(i)
  <2>1. Offer(messages[i].reading)
    BY <1>3, <1>5 DEF Forward, Offer, SendToRouter
  <2> QED BY <1>4, <2>1 DEF Next
<1>6. CASE ~IsOffered(i)
  BY <1>6 DEF Forward, vars
<1> QED BY <1>5, <1>6

\* Every step of the pipeline is a step of the router, or changes nothing the
\* router knows.
LEMMA StepIsRouterStep == CountInv /\ [PipeNext]_pipeVars => [Next]_vars
<1> SUFFICES ASSUME CountInv, [PipeNext]_pipeVars PROVE [Next]_vars
  OBVIOUS
<1>1. CASE \E r \in Reading, ok \in BOOLEAN : Arrive(r, ok)
  BY <1>1 DEF Arrive
<1>2. ASSUME NEW i \in Message, Begin(i) \/ ForwardLeak(i) PROVE [Next]_vars
  BY <1>2 DEF Begin, ForwardLeak
<1>3. CASE MessageStep
  BY <1>2, <1>3, ForwardOffers DEF MessageStep
<1>4. CASE LocatorTakes \/ (\E k \in Consumer \cup {"locator"} : Leave(k)) \/ Panic
  BY <1>4 DEF LocatorTakes, Leave, Panic
<1>5. CASE Route \/ (\E d \in Device : OperatorAcknowledges(d)) \/ MainStep
  BY <1>5 DEF Route, OperatorAcknowledges, MainStep, RouterStep, Next
<1>6. CASE \E k \in Consumer : Hear(k)
  BY <1>6 DEF Hear, Next
<1>7. CASE UNCHANGED pipeVars
  BY <1>7 DEF pipeVars
<1> QED BY <1>1, <1>3, <1>4, <1>5, <1>6, <1>7 DEF PipeNext

\* The inductive invariant of the messages.
THEOREM MessagesCounted == PipeSafetySpec => []CountInv
BY InitCount, CountKeeps, PTL DEF PipeSafetySpec

\* Goroutines that run ProcessData and the modules that hold alarmChan are
\* together a producer and a consumer of the kind AlarmRouter allows.
THEOREM PipelineIsRouter == PipeSafetySpec => RouterIsFaithful
<1>1. PipeInit => Init
  BY DEF PipeInit
<1> QED BY <1>1, MessagesCounted, StepIsRouterStep, PTL
        DEF PipeSafetySpec, RouterIsFaithful, SafetySpec

\* What was proved of the router holds in the pipeline.
THEOREM RouterInvInPipeline == PipeSafetySpec => []RouterInv
BY PipelineIsRouter, RouterInvariant, PTL DEF RouterIsFaithful

-------------------------------------------------------------------------------
(* No false alarm *)

\* Device and level of every validated message that was offered.
Reported ==
  {<<messages[i].reading.device, Level(messages[i].reading.concentration)>> :
     i \in {j \in Past : messages[j].valid}}

Says(r) == <<r.device, Level(r.concentration)>>

\* What waits for the router, is in its hands or became an alarm was reported.
ReportedInv ==
  /\ \A n \in 1 .. Len(dataChan) : Says(dataChan[n]) \in Reported
  /\ at \in {"judge", "create"} => Says(reading) \in Reported
  /\ \A a \in 1 .. Len(alarms) : <<alarms[a].device, alarms[a].level>> \in Reported

\* What was reported stays reported: messages only move on.
LEMMA ReportsStay ==
  ASSUME CountInv, [PipeNext]_pipeVars
  PROVE  Reported \subseteq Reported'
<1> SUFFICES ASSUME NEW i \in Past, messages[i].valid
             PROVE  /\ i \in Past' /\ messages'[i].valid
                    /\ messages'[i].reading = messages[i].reading
  BY DEF Reported
<1>0. i \in Message /\ messages[i].at \in {"forwardLeak", "gone"}
  BY DEF Past
<1>1. ASSUME messages' = messages
      PROVE  i \in Past' /\ messages'[i].valid /\ messages'[i].reading = messages[i].reading
  BY <1>1 DEF Past, Message
<1>2. ASSUME NEW r \in Reading, NEW ok \in BOOLEAN, Arrive(r, ok)
      PROVE  i \in Past' /\ messages'[i].valid /\ messages'[i].reading = messages[i].reading
  <2> DEFINE m == [reading |-> r, valid |-> ok, at |-> "begin"]
  <2>1. messages' = Append(messages, m) /\ m \in SensorMessage
    BY <1>2 DEF Arrive, SensorMessage
  <2> HIDE DEF m
  <2>2. i \in Message' /\ messages'[i] = messages[i]
    BY <1>0, <2>1 DEF CountInv, Message
  <2> QED BY <1>0, <2>2 DEF Past
<1>3. ASSUME NEW j \in Message, Begin(j) \/ Forward(j) \/ ForwardLeak(j)
      PROVE  i \in Past' /\ messages'[i].valid /\ messages'[i].reading = messages[i].reading
  <2>1. PICK place \in {"forward", "forwardLeak", "gone"} :
          GoTo(j, place) /\ (j = i => place # "forward")
    BY <1>0, <1>3 DEF Begin, Forward, ForwardLeak, At
  <2>2. /\ Len(messages') = Len(messages)
        /\ messages'[i].reading = messages[i].reading /\ messages'[i].valid = messages[i].valid
        /\ messages'[i].at = IF i = j THEN place ELSE messages[i].at
    BY <1>0, <2>1, Moves
  <2> QED BY <1>0, <2>1, <2>2 DEF Message, Past
<1>4. CASE Route \/ (\E d \in Device : OperatorAcknowledges(d)) \/ LocatorTakes
           \/ (\E k \in Consumer : Hear(k))
  BY <1>1, <1>4 DEF Route, OperatorAcknowledges, LocatorTakes, Hear, receiverVars
<1>6. CASE (\E k \in Consumer \cup {"locator"} : Leave(k)) \/ MainStep \/ Panic
  BY <1>1, <1>6 DEF Leave, MainStep, Panic, receiverVars
<1>5. CASE UNCHANGED pipeVars
  BY <1>1, <1>5 DEF pipeVars, receiverVars
<1> QED BY <1>2, <1>3, <1>4, <1>5, <1>6 DEF PipeNext, MessageStep

\* Initially nothing waits and there is no alarm.
LEMMA InitReported == PipeInit => ReportedInv
BY DEF PipeInit, Init, ReportedInv

\* A step that leaves the router alone.
LEMMA RouterUntouched ==
  ASSUME ReportedInv, CountInv, [PipeNext]_pipeVars,
         UNCHANGED <<dataChan, at, reading, alarms>>
  PROVE  ReportedInv'
<1>1. Reported \subseteq Reported'
  BY ReportsStay
<1>2. ReportedInv
  OBVIOUS
<1> QED BY <1>1, <1>2 DEF ReportedInv, Says

\* A reading that is offered passed validation.
LEMMA ForwardReports ==
  ASSUME ReportedInv, CountInv, RouterInv, [PipeNext]_pipeVars, NEW i \in Message, Forward(i)
  PROVE  ReportedInv'
<1>1. messages[i].reading \in Reading /\ dataChan \in Seq(Reading)
  BY MessageTyped DEF RouterInv, TypeOK
<1>2. messages[i].valid /\ GoTo(i, "forwardLeak")
  BY DEF Forward, CountInv
<1>3. /\ messages'[i].valid /\ messages'[i].reading = messages[i].reading
      /\ i \in Past'
  <2>1. /\ Len(messages') = Len(messages) /\ messages'[i].valid = messages[i].valid
        /\ messages'[i].reading = messages[i].reading /\ messages'[i].at = "forwardLeak"
    BY <1>2, Moves
  <2> QED BY <1>2, <2>1 DEF Message, Past
<1>4. Says(messages[i].reading) \in Reported'
  BY <1>3 DEF Reported, Says
<1>5. UNCHANGED <<at, reading, alarms>>
  BY DEF Forward, routerVars
<1>6. dataChan' = dataChan \/ dataChan' = Append(dataChan, messages[i].reading)
  BY DEF Forward, SendToRouter, Trying
<1>7. \A n \in 1 .. Len(dataChan') :
        \/ n \in 1 .. Len(dataChan) /\ dataChan'[n] = dataChan[n]
        \/ dataChan'[n] = messages[i].reading
  BY <1>1, <1>6
<1>8. \A n \in 1 .. Len(dataChan') : Says(dataChan'[n]) \in Reported'
  BY <1>4, <1>7, ReportsStay DEF ReportedInv, Says
<1> QED BY <1>5, <1>8, ReportsStay DEF ReportedInv, Says

\* The router takes a reading, judges it and raises an alarm of its level.
LEMMA RouteReports ==
  ASSUME ReportedInv, CountInv, RouterInv, [PipeNext]_pipeVars,
         Route \/ (\E d \in Device : OperatorAcknowledges(d)) \/ MainStep
  PROVE  ReportedInv'
<1>0. Len(alarms) \in Nat /\ alarms \in Seq(Alarm) /\ dataChan \in Seq(Reading)
      /\ \A d \in Device : active[d] \in 0 .. Len(alarms)
  BY DEF RouterInv, TypeOK
<1>1. CASE Receive
  <2>1. /\ dataChan # <<>> /\ dataChan' = Tail(dataChan) /\ reading' = Head(dataChan)
        /\ alarms' = alarms
    BY <1>1 DEF Receive
  <2>2. /\ Head(dataChan) = dataChan[1] /\ 1 \in 1 .. Len(dataChan)
        /\ \A n \in 1 .. Len(dataChan') :
             n + 1 \in 1 .. Len(dataChan) /\ dataChan'[n] = dataChan[n + 1]
    BY <1>0, <2>1
  <2>3. Says(reading') \in Reported'
    BY <2>1, <2>2, ReportsStay DEF ReportedInv, Says
  <2>4. \A n \in 1 .. Len(dataChan') : Says(dataChan'[n]) \in Reported'
    BY <2>2, ReportsStay DEF ReportedInv, Says
  <2> QED BY <2>1, <2>3, <2>4, ReportsStay DEF ReportedInv, Says
<1>2. CASE Create
  <2> DEFINE a == [device |-> reading.device, level |-> JudgedLevel, acked |-> FALSE]
  <2>1. at = "create" /\ alarms' = Append(alarms, a) /\ at' = "save" /\ dataChan' = dataChan
    BY <1>2 DEF Create, Follows
  <2>2. <<a.device, a.level>> \in Reported'
    BY <2>1, ReportsStay DEF ReportedInv, Says, JudgedLevel
  <2> HIDE DEF a
  <2>3. \A n \in 1 .. Len(alarms') : \/ n \in 1 .. Len(alarms) /\ alarms'[n] = alarms[n]
                                     \/ alarms'[n] = a
    BY <1>0, <2>1
  <2> QED BY <2>1, <2>2, <2>3, ReportsStay DEF ReportedInv, Says
<1>3. ASSUME NEW d \in Device, Acknowledge(d) PROVE ReportedInv'
  <2>1. active[d] \in 1 .. Len(alarms)
    BY <1>0, <1>3 DEF Acknowledge
  <2>2. /\ Len(alarms') = Len(alarms)
        /\ \A n \in 1 .. Len(alarms) :
             alarms'[n].device = alarms[n].device /\ alarms'[n].level = alarms[n].level
    BY <1>0, <1>3, <2>1, AckSpares DEF Acknowledge
  <2>3. UNCHANGED <<dataChan, at, reading>>
    BY <1>3 DEF Acknowledge
  <2> QED BY <2>2, <2>3, ReportsStay DEF ReportedInv, Says
<1>4. CASE Rise
  <2>1. at = "judge" /\ UNCHANGED <<dataChan, reading, alarms>>
    BY <1>4 DEF Rise
  <2> QED BY <2>1, ReportsStay DEF ReportedInv, Says
<1>5. CASE Poll \/ SelectTimeout \/ Resolve \/ ResolveRow \/ Save \/ Trigger
  <2>1. UNCHANGED <<dataChan, reading, alarms>> /\ at' \notin {"judge", "create"}
    BY <1>5 DEF Poll, SelectTimeout, Resolve, ResolveRow, Save, Trigger, Resolution, Follows
  <2> QED BY <2>1, ReportsStay DEF ReportedInv, Says
<1>6. CASE MainStep
  BY <1>6, RouterUntouched DEF MainStep, Stop, vars, routerVars
<1> QED BY <1>1, <1>2, <1>3, <1>4, <1>5, <1>6 DEF Route, OperatorAcknowledges, ReceiverStep

\* Every step keeps what the router works on reported.
LEMMA ReportedKeeps ==
  ReportedInv /\ CountInv /\ RouterInv /\ [PipeNext]_pipeVars => ReportedInv'
<1> SUFFICES ASSUME ReportedInv, CountInv, RouterInv, [PipeNext]_pipeVars PROVE ReportedInv'
  OBVIOUS
<1>1. CASE \E r \in Reading, ok \in BOOLEAN : Arrive(r, ok)
  BY <1>1, RouterUntouched DEF Arrive, vars, routerVars
<1>2. ASSUME NEW i \in Message, Begin(i) \/ ForwardLeak(i) PROVE ReportedInv'
  BY <1>2, RouterUntouched DEF Begin, ForwardLeak, vars, routerVars
<1>3. CASE MessageStep
  BY <1>2, <1>3, ForwardReports DEF MessageStep
<1>4. CASE LocatorTakes \/ (\E k \in Consumer : Hear(k))
           \/ (\E k \in Consumer \cup {"locator"} : Leave(k)) \/ Panic
  BY <1>4, RouterUntouched DEF LocatorTakes, Hear, Leave, Panic, Consume, vars, routerVars
<1>5. CASE UNCHANGED pipeVars
  BY <1>5, RouterUntouched DEF pipeVars, vars, routerVars
<1> QED BY <1>1, <1>3, <1>4, <1>5, RouteReports DEF PipeNext

\* validate, the concurrent offers of the goroutines, the channel and the
\* router's judgement: an alarm never says more than some device reported.
THEOREM AlarmsAreTrue == PipeSafetySpec => []NoFalseAlarm
<1>1. PipeSafetySpec => []ReportedInv
  BY InitReported, ReportedKeeps, MessagesCounted, RouterInvInPipeline, PTL DEF PipeSafetySpec
<1>2. ReportedInv => NoFalseAlarm
  BY DEF ReportedInv, Reported, Past, NoFalseAlarm
<1> QED BY <1>1, <1>2, PTL
===============================================================================
