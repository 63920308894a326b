------------------------- MODULE LegacyServicesProofs -------------------------
(***************************************************************************)
(* Theorems about the legacy path: points, alarms and zone orders, for any *)
(* messages, devices, thresholds, lists of devices and batch size.         *)
(***************************************************************************)
EXTENDS LegacyServices, TLAPS

-------------------------------------------------------------------------------
(* The batch *)

\* Every point came with a message that was handled, a hand is full only
\* between its two critical sections, and no point is in two places.
BatchInv ==
  /\ batchPoints \cup InHand \cup delivered \cup lost \subseteq handled
  /\ timer # "busy" => timerHand = {}
  /\ closing # "hand" => closeHand = {}
  /\ PointsTakenOnce

\* A point is written by the message that brings it, which is handled once.
LEMMA WriteKeeps ==
  ASSUME BatchInv, NEW p, p \notin handled, handled' = handled \cup {p}, WriteSensorData(p)
  PROVE  BatchInv'
<1>1. batchPoints' = batchPoints \cup {p}
      /\ UNCHANGED <<hands, timer, timerHand, closing, closeHand, delivered, lost>>
  BY DEF WriteSensorData
<1>2. InHand' = InHand
  BY <1>1 DEF InHand
<1> QED BY <1>1, <1>2 DEF BatchInv, PointsTakenOnce, InHand

\* Taking a batch out moves it to hands.
LEMMA TakeKeeps == ASSUME BatchInv, TakeBatch, handled' = handled PROVE BatchInv'
<1>1. /\ batchPoints' = {}
      /\ hands' = IF batchPoints = {} THEN hands ELSE hands \cup {batchPoints}
      /\ UNCHANGED <<timer, timerHand, closing, closeHand, delivered, lost>>
  BY DEF TakeBatch, Emptied
<1>2. (UNION hands') = (UNION hands) \cup batchPoints
  BY <1>1
<1>3. InHand' = InHand \cup batchPoints
  BY <1>1, <1>2 DEF InHand
<1>4. ASSUME NEW h \in hands'
      PROVE  h \cap ((UNION (hands' \ {h})) \cup timerHand \cup closeHand) = {}
  <2>1. CASE h \in hands
    <3>1. h \cap ((UNION (hands \ {h})) \cup timerHand \cup closeHand) = {}
      BY <2>1 DEF BatchInv, PointsTakenOnce
    <3>2. h \cap batchPoints = {}
      BY <2>1 DEF BatchInv, PointsTakenOnce, InHand
    <3>3. (UNION (hands' \ {h})) \subseteq (UNION (hands \ {h})) \cup batchPoints
      BY <1>1
    <3> QED BY <3>1, <3>2, <3>3
  <2>2. CASE h \notin hands
    <3>1. h = batchPoints /\ (UNION (hands' \ {h})) \subseteq (UNION hands)
      BY <1>1, <1>4, <2>2
    <3> QED BY <3>1 DEF BatchInv, PointsTakenOnce, InHand
  <2> QED BY <2>1, <2>2
<1> QED BY <1>1, <1>3, <1>4 DEF BatchInv, PointsTakenOnce

\* The client takes a batch out of a hand, or it is lost to a closed client.
LEMMA GiveKeeps == ASSUME BatchInv, GiveBatch, handled' = handled PROVE BatchInv'
<1>1. PICK h \in hands : HandOver(h) /\ hands' = hands \ {h}
  BY DEF GiveBatch
<1>2. UNCHANGED <<batchPoints, timer, timerHand, closing, closeHand>>
  BY DEF GiveBatch
<1>3. h \cap InHand' = {} /\ InHand' \subseteq InHand /\ h \subseteq InHand
  BY <1>1, <1>2 DEF InHand, BatchInv, PointsTakenOnce
<1>4. /\ delivered' \cup lost' = delivered \cup lost \cup h
      /\ delivered \subseteq delivered' /\ lost \subseteq lost'
      /\ delivered' \cap lost' = {}
      /\ lost' # {} => closing = "closed"
  BY <1>1, <1>3 DEF HandOver, BatchInv, PointsTakenOnce
<1>5. ASSUME NEW g \in hands'
      PROVE  g \cap ((UNION (hands' \ {g})) \cup timerHand \cup closeHand) = {}
  BY <1>1, <1>5 DEF BatchInv, PointsTakenOnce
<1> QED BY <1>2, <1>3, <1>4, <1>5 DEF BatchInv, PointsTakenOnce

\* The timer takes out what is there, with an empty hand.
LEMMA TimerTakes == ASSUME BatchInv, TimerFires, handled' = handled PROVE BatchInv'
<1>1. /\ batchPoints' = {} /\ timerHand' = batchPoints /\ timerHand = {} /\ timer' = "busy"
      /\ UNCHANGED <<hands, closing, closeHand, delivered, lost>>
  BY DEF TimerFires, Emptied, BatchInv
<1>2. InHand' = InHand \cup batchPoints
  BY <1>1 DEF InHand
<1>3. ASSUME NEW h \in hands
      PROVE  h \cap ((UNION (hands \ {h})) \cup batchPoints \cup closeHand) = {}
  BY <1>3 DEF BatchInv, PointsTakenOnce, InHand
<1>4. batchPoints \cap closeHand = {}
  BY DEF BatchInv, PointsTakenOnce, InHand
<1> QED BY <1>1, <1>2, <1>3, <1>4 DEF BatchInv, PointsTakenOnce

\* So does Close.
LEMMA CloseTakesKeeps == ASSUME BatchInv, CloseTakes, handled' = handled PROVE BatchInv'
<1>1. /\ batchPoints' = {} /\ closeHand' = batchPoints /\ closeHand = {} /\ closing' = "hand"
      /\ lost = {} /\ UNCHANGED <<hands, timer, timerHand, delivered, lost>>
  BY DEF CloseTakes, Emptied, BatchInv, PointsTakenOnce
<1>2. InHand' = InHand \cup batchPoints
  BY <1>1 DEF InHand
<1>3. ASSUME NEW h \in hands
      PROVE  h \cap ((UNION (hands \ {h})) \cup timerHand \cup batchPoints) = {}
  BY <1>3 DEF BatchInv, PointsTakenOnce, InHand
<1>4. batchPoints \cap timerHand = {}
  BY DEF BatchInv, PointsTakenOnce, InHand
<1> QED BY <1>1, <1>2, <1>3, <1>4 DEF BatchInv, PointsTakenOnce

\* The timer hands over what it holds.
LEMMA TimerGives == ASSUME BatchInv, TimerDone, handled' = handled PROVE BatchInv'
<1>1. /\ HandOver(timerHand) /\ timerHand' = {}
      /\ UNCHANGED <<batchPoints, hands, closing, closeHand>>
  BY DEF TimerDone
<1>2. timerHand \cap InHand' = {} /\ InHand' \subseteq InHand /\ timerHand \subseteq InHand
  BY <1>1 DEF InHand, BatchInv, PointsTakenOnce
<1>3. /\ delivered' \cup lost' = delivered \cup lost \cup timerHand
      /\ delivered' \cap lost' = {} /\ (lost' # {} => closing = "closed")
  BY <1>1, <1>2 DEF HandOver, BatchInv, PointsTakenOnce
<1> QED BY <1>1, <1>2, <1>3 DEF BatchInv, PointsTakenOnce

\* So does Close.
LEMMA CloseGives == ASSUME BatchInv, CloseHandsOver, handled' = handled PROVE BatchInv'
<1>1. /\ HandOver(closeHand) /\ closeHand' = {} /\ closing = "hand" /\ closing' = "shut"
      /\ UNCHANGED <<batchPoints, hands, timer, timerHand>>
  BY DEF CloseHandsOver
<1>2. closeHand \cap InHand' = {} /\ InHand' \subseteq InHand /\ closeHand \subseteq InHand
  BY <1>1 DEF InHand, BatchInv, PointsTakenOnce
<1>3. lost = {} /\ lost' = lost /\ delivered' = delivered \cup closeHand
  BY <1>1 DEF HandOver, BatchInv, PointsTakenOnce
<1> QED BY <1>1, <1>2, <1>3 DEF BatchInv, PointsTakenOnce

\* Nothing of the batch changes, or only a state of the timer or of Close.
LEMMA BatchStays ==
  /\ BatchInv
  /\ UNCHANGED <<batchPoints, hands, timerHand, closeHand, delivered, lost>>
  /\ handled \subseteq handled'
  /\ timer' = timer \/ (timer' = "stopped" /\ timer # "busy")
  /\ \/ closing' = closing
     \/ closing' = "flush" /\ closing = "no"
     \/ closing' = "closed" /\ closing = "shut"
  => BatchInv'
<1> SUFFICES ASSUME BatchInv,
                    UNCHANGED <<batchPoints, hands, timerHand, closeHand, delivered, lost>>,
                    handled \subseteq handled',
                    timer' = timer \/ (timer' = "stopped" /\ timer # "busy"),
                    \/ closing' = closing
                    \/ closing' = "flush" /\ closing = "no"
                    \/ closing' = "closed" /\ closing = "shut"
             PROVE  BatchInv'
  OBVIOUS
<1>1. InHand' = InHand
  BY DEF InHand
<1> QED BY <1>1 DEF BatchInv, PointsTakenOnce

\* Process and the services keep the invariant of the batch.
LEMMA StepBatch == BatchInv /\ [Next]_vars => BatchInv'
<1> SUFFICES ASSUME BatchInv, [Next]_vars PROVE BatchInv'
  OBVIOUS
<1> USE DEF batchVars, mainVars
<1>1. ASSUME NEW k \in Message, Process(k) PROVE BatchInv'
  <2>1. k \notin handled /\ handled' = handled \cup {k}
        /\ (WriteSensorData(k) \/ UNCHANGED batchVars)
    BY <1>1 DEF Process
  <2> QED BY <2>1, WriteKeeps, BatchStays
<1>2. CASE Batch
  <2>1. handled' = handled /\ (TakeBatch \/ GiveBatch \/ TimerFires \/ TimerDone)
    BY <1>2 DEF Batch, OfBatch, BatchStep
  <2> QED BY <2>1, TakeKeeps, GiveKeeps, TimerTakes, TimerGives
<1>3. CASE CloseDatabase
  <2>1. handled' = handled /\ (CloseBegins \/ CloseTakes \/ CloseHandsOver \/ ClientCloses)
    BY <1>3 DEF CloseDatabase, CloseStep
  <2>2. CASE CloseBegins
    BY <2>1, <2>2, BatchStays DEF CloseBegins
  <2>3. CASE ClientCloses
    BY <2>1, <2>3, BatchStays DEF ClientCloses
  <2> QED BY <2>1, <2>2, <2>3, CloseTakesKeeps, CloseGives
<1>4. CASE \/ \E k \in Message, d \in Device, c \in Concentration : Arrive(k, d, c)
           \/ \E k \in Message : Raise(k)
           \/ Engine \/ Zone \/ Hub
           \/ StartReceiver \/ StopModules \/ CloseMQTT \/ CloseWebSocket \/ Exit
           \/ UNCHANGED vars
  <2>1. UNCHANGED batchVars /\ handled' = handled
    BY <1>4 DEF Arrive, Raise, Engine, Zone, Hub, OfHub, StartReceiver, StopModules, CloseMQTT,
                CloseWebSocket, Exit, GoTo, vars
  <2> QED BY <2>1, BatchStays
<1> QED BY <1>1, <1>2, <1>3, <1>4 DEF Next

\* Whatever the timer, full batches and Close do at once, no point is in two
\* hands or handed over twice.
THEOREM PointsOnce == Spec => []PointsTakenOnce
<1>1. Init => BatchInv
  BY DEF Init, BatchInit, BatchInv, PointsTakenOnce, InHand
<1>2. BatchInv => PointsTakenOnce
  BY DEF BatchInv
<1> QED BY <1>1, <1>2, StepBatch, PTL DEF Spec

-------------------------------------------------------------------------------
(* The alarm engine *)

CheckPlaces == {"idle", "resolve", "update", "look", "create", "save", "trigger", "done"}

\* What the proof needs to know of the types: checks are records.
CheckRecord ==
  [at : CheckPlaces, device : Device, level : 0 .. 3, alarm : SUBSET Check, raced : BOOLEAN]

EngTypes == checks \in [Check -> CheckRecord]

\* An active alarm was created by a check that has begun, and a check that is
\* to create one still needs it, unless another one overtook it.
EngInv ==
  /\ EngTypes
  /\ \A d \in DOMAIN activeAlarms :
       activeAlarms[d] \in Check /\ checks[activeAlarms[d]].at # "idle"
  /\ \A k \in Check : checks[k].at = "create" =>
       checks[k].raced \/ NeedsAlarm(checks[k].device, checks[k].level)

\* A level is one of the four.
LEMMA LevelTyped == \A c \in Concentration : GetAlarmLevel(c) \in 0 .. 3
BY EngineNumbers DEF GetAlarmLevel

\* A check begins, and no active alarm is its own yet.
LEMMA StartKeeps ==
  ASSUME EngInv, NEW k \in Check, NEW d \in Device, NEW c \in Concentration, StartCheck(k, d, c)
  PROVE  EngInv'
<1>1. /\ checks[k].at = "idle" /\ activeAlarms' = activeAlarms
      /\ checks' = [checks EXCEPT ![k].at = IF GetAlarmLevel(c) = 0 THEN "resolve" ELSE "look",
                                  ![k].device = d, ![k].level = GetAlarmLevel(c)]
  BY DEF StartCheck
<1>2. GetAlarmLevel(c) \in 0 .. 3
  BY LevelTyped
<1>3. EngTypes'
  <2> DEFINE begun == [checks[k] EXCEPT !.at = IF GetAlarmLevel(c) = 0 THEN "resolve" ELSE "look",
                                        !.device = d, !.level = GetAlarmLevel(c)]
  <2>1. checks[k] \in CheckRecord /\ checks \in [Check -> CheckRecord]
    BY DEF EngInv, EngTypes
  <2>2. checks' = [checks EXCEPT ![k] = begun]
    BY <1>1, <2>1
  <2>3. begun \in CheckRecord
    BY <1>2, <2>1 DEF CheckRecord, CheckPlaces
  <2> HIDE DEF begun
  <2> QED BY <2>1, <2>2, <2>3 DEF EngTypes
<1>4. \A j \in Check : j # k => checks'[j] = checks[j]
  BY <1>1 DEF EngInv, EngTypes, CheckRecord
<1>5. checks'[k].at \in {"resolve", "look"}
  BY <1>1 DEF EngInv, EngTypes, CheckRecord
<1>6. \A e \in DOMAIN activeAlarms : activeAlarms[e] \in Check \ {k}
  BY <1>1 DEF EngInv
<1>7. ASSUME NEW j \in Check, checks'[j].at = "create"
      PROVE  checks'[j].raced \/ NeedsAlarm(checks[j].device, checks[j].level)'
  <2>1. j # k
    BY <1>5, <1>7
  <2>2. checks'[j] = checks[j] /\ (checks[j].raced \/ NeedsAlarm(checks[j].device, checks[j].level))
    BY <1>4, <1>7, <2>1 DEF EngInv
  <2> QED BY <1>1, <1>4, <1>6, <2>2 DEF NeedsAlarm
<1> QED BY <1>1, <1>3, <1>4, <1>6, <1>7 DEF EngInv

\* An alarm that is taken out leaves every creation needed.
LEMMA ResolveKeeps == ASSUME EngInv, NEW k \in Check, ResolveAlarm(k) PROVE EngInv'
<1> DEFINE d == checks[k].device
<1>1. CASE d \in DOMAIN activeAlarms
  <2>1. /\ activeAlarms' = [e \in DOMAIN activeAlarms \ {d} |-> activeAlarms[e]]
        /\ checks' = [checks EXCEPT ![k].at = "update", ![k].alarm = {activeAlarms[d]}]
    BY <1>1 DEF ResolveAlarm
  <2>2. EngTypes'
    <3>1. {activeAlarms[d]} \in SUBSET Check
      BY <1>1 DEF EngInv
    <3>2. checks[k] \in CheckRecord /\ checks \in [Check -> CheckRecord]
      BY DEF EngInv, EngTypes
    <3>3. checks' = [checks EXCEPT
                       ![k] = [checks[k] EXCEPT !.at = "update", !.alarm = {activeAlarms[d]}]]
      BY <2>1, <3>2
    <3>4. [checks[k] EXCEPT !.at = "update", !.alarm = {activeAlarms[d]}] \in CheckRecord
      BY <3>1, <3>2 DEF CheckRecord, CheckPlaces
    <3> HIDE DEF d
    <3> QED BY <3>2, <3>3, <3>4 DEF EngTypes
  <2>3. /\ \A j \in Check : checks'[j].level = checks[j].level /\ checks'[j].raced = checks[j].raced
                            /\ checks'[j].device = checks[j].device
        /\ \A j \in Check \ {k} : checks'[j].at = checks[j].at
        /\ checks'[k].at = "update"
    BY <2>1 DEF EngInv, EngTypes, CheckRecord
  <2>4. ASSUME NEW e \in DOMAIN activeAlarms'
        PROVE  e \in DOMAIN activeAlarms /\ activeAlarms'[e] = activeAlarms[e]
               /\ activeAlarms[e] \in Check
    BY <2>1, <2>4 DEF EngInv
  <2> HIDE DEF d
  <2> QED BY <2>2, <2>3, <2>4 DEF EngInv, NeedsAlarm
<1>2. CASE d \notin DOMAIN activeAlarms
  <2>1. activeAlarms' = activeAlarms /\ checks' = [checks EXCEPT ![k].at = "done"]
    BY <1>2 DEF ResolveAlarm
  <2>2. EngTypes'
    BY <2>1 DEF EngInv, EngTypes, CheckRecord, CheckPlaces
  <2>3. /\ \A j \in Check : checks'[j].level = checks[j].level /\ checks'[j].raced = checks[j].raced
                            /\ checks'[j].device = checks[j].device
        /\ \A j \in Check \ {k} : checks'[j].at = checks[j].at
        /\ checks'[k].at = "done"
    BY <2>1 DEF EngInv, EngTypes, CheckRecord
  <2> HIDE DEF d
  <2> QED BY <2>1, <2>2, <2>3 DEF EngInv, NeedsAlarm
<1> QED BY <1>1, <1>2

\* A check goes on to create only if that is needed.
LEMMA LookKeeps == ASSUME EngInv, NEW k \in Check, LookUpAlarm(k) PROVE EngInv'
<1>1. /\ activeAlarms' = activeAlarms
      /\ checks' = [checks EXCEPT
           ![k].at = IF NeedsAlarm(checks[k].device, checks[k].level) THEN "create" ELSE "done"]
  BY DEF LookUpAlarm
<1>2. EngTypes'
  BY <1>1 DEF EngInv, EngTypes, CheckRecord, CheckPlaces
<1>3. /\ \A j \in Check : checks'[j].level = checks[j].level /\ checks'[j].raced = checks[j].raced
                          /\ checks'[j].device = checks[j].device
      /\ \A j \in Check \ {k} : checks'[j].at = checks[j].at
      /\ checks'[k].at \in {"create", "done"}
      /\ checks'[k].at = "create" => NeedsAlarm(checks[k].device, checks[k].level)
  BY <1>1 DEF EngInv, EngTypes, CheckRecord
<1>4. ASSUME NEW j \in Check, checks'[j].at = "create"
      PROVE  checks[j].raced \/ NeedsAlarm(checks[j].device, checks[j].level)
  BY <1>3, <1>4 DEF EngInv
<1> QED BY <1>1, <1>2, <1>3, <1>4 DEF EngInv, NeedsAlarm

\* The other checks of the device that are about to create are overtaken.
LEMMA CreateKeeps == ASSUME EngInv, NEW k \in Check, CreateAlarm(k) PROVE EngInv'
<1> DEFINE d == checks[k].device
<1>1. /\ activeAlarms' = [e \in DOMAIN activeAlarms \cup {d} |->
                            IF e = d THEN k ELSE activeAlarms[e]]
      /\ checks' = [j \in Check |->
           IF j = k THEN [checks[j] EXCEPT !.at = "save"]
           ELSE [checks[j] EXCEPT
                   !.raced = @ \/ (checks[j].at = "create" /\ checks[j].device = d)]]
  BY DEF CreateAlarm
<1>2. EngTypes'
  <2>1. ASSUME NEW j \in Check
        PROVE  checks'[j] \in CheckRecord
    <3>1. checks[j] \in CheckRecord
      BY DEF EngInv, EngTypes, CheckRecord
    <3>2. (checks[j].raced \/ (checks[j].at = "create" /\ checks[j].device = d)) \in BOOLEAN
      OBVIOUS
    <3> HIDE DEF d
    <3>3. CASE j = k
      BY <1>1, <3>1, <3>3 DEF CheckRecord, CheckPlaces
    <3>4. CASE j # k
      <4> DEFINE now == checks[j].raced \/ (checks[j].at = "create" /\ checks[j].device = d)
      <4>1. checks'[j] = [checks[j] EXCEPT !.raced = now]
        BY <1>1, <3>4
      <4>2. now \in BOOLEAN
        BY <3>2
      <4> HIDE DEF now
      <4> QED BY <3>1, <4>1, <4>2 DEF CheckRecord
    <3> QED BY <3>3, <3>4
  <2> HIDE DEF d
  <2> QED BY <1>1, <2>1 DEF EngTypes
<1>3. /\ \A j \in Check : checks'[j].level = checks[j].level /\ checks'[j].device = checks[j].device
      /\ \A j \in Check \ {k} : checks'[j].at = checks[j].at
      /\ checks'[k].at = "save"
      /\ \A j \in Check \ {k} :
           checks[j].raced \/ (checks[j].at = "create" /\ checks[j].device = d) => checks'[j].raced
  BY <1>1, ZenonT(40) DEF EngInv, EngTypes, CheckRecord
<1>4. ASSUME NEW j \in Check, checks'[j].at = "create"
      PROVE  checks'[j].raced \/ NeedsAlarm(checks[j].device, checks[j].level)'
  <2>1. j # k /\ checks[j].at = "create"
    BY <1>3, <1>4
  <2>2. CASE checks[j].raced \/ checks[j].device = d
    BY <1>3, <2>1, <2>2
  <2>3. CASE ~checks[j].raced /\ checks[j].device # d
    <3>1. NeedsAlarm(checks[j].device, checks[j].level)
      BY <2>1, <2>3 DEF EngInv
    <3>2. PICK e : e = checks[j].device
      OBVIOUS
    <3>3. e # d /\ checks'[j].device = e /\ checks'[j].level = checks[j].level
      BY <1>3, <2>3, <3>2
    <3>4. e \in DOMAIN activeAlarms' <=> e \in DOMAIN activeAlarms
      BY <1>1, <3>3
    <3>5. e \in DOMAIN activeAlarms => /\ activeAlarms'[e] = activeAlarms[e]
                                       /\ activeAlarms[e] \in Check
      BY <1>1, <3>3 DEF EngInv
    <3>6. NeedsAlarm(e, checks[j].level)'
      BY <1>3, <3>1, <3>2, <3>3, <3>4, <3>5 DEF NeedsAlarm
    <3> QED BY <3>3, <3>6
  <2> QED BY <2>2, <2>3
<1>5. ASSUME NEW e \in DOMAIN activeAlarms'
      PROVE  activeAlarms'[e] \in Check /\ checks'[activeAlarms'[e]].at # "idle"
  BY <1>1, <1>3, <1>5 DEF EngInv
<1> QED BY <1>2, <1>4, <1>5 DEF EngInv

\* Steps of a check that touch neither the map nor what NeedsAlarm reads.
LEMMA GoesOnKeeps ==
  ASSUME EngInv, NEW k \in Check, checks[k].at # "idle", activeAlarms' = activeAlarms,
         NEW place \in {"trigger", "done"}, checks' = [checks EXCEPT ![k].at = place]
  PROVE  EngInv'
<1>1. EngTypes'
  BY DEF EngInv, EngTypes, CheckRecord, CheckPlaces
<1>2. /\ \A j \in Check : checks'[j].level = checks[j].level /\ checks'[j].raced = checks[j].raced
                          /\ checks'[j].device = checks[j].device
      /\ \A j \in Check \ {k} : checks'[j].at = checks[j].at
      /\ checks'[k].at = place
  BY DEF EngInv, EngTypes, CheckRecord
<1> QED BY <1>1, <1>2 DEF EngInv, NeedsAlarm

\* The steps of the engine inside the composition.
EngStep ==
  \/ \E k \in Check, d \in Device, c \in Concentration : StartCheck(k, d, c)
  \/ \E k \in Check : ResolveAlarm(k) \/ LookUpAlarm(k) \/ CreateAlarm(k)
  \/ \E k \in Check : ResolveRow(k) \/ SaveAlarmToDB(k) \/ TriggerAlarm(k)
  \/ UNCHANGED <<checks, activeAlarms>>

\* Every step of the engine keeps its invariant.
LEMMA EngStepKeeps == EngInv /\ EngStep => EngInv'
<1> SUFFICES ASSUME EngInv, EngStep PROVE EngInv'
  OBVIOUS
<1>1. ASSUME NEW k \in Check, ResolveRow(k) \/ SaveAlarmToDB(k) \/ TriggerAlarm(k)
      PROVE  EngInv'
  <2>1. /\ checks[k].at # "idle" /\ activeAlarms' = activeAlarms
        /\ \E place \in {"trigger", "done"} : checks' = [checks EXCEPT ![k].at = place]
    BY <1>1 DEF ResolveRow, SaveAlarmToDB, TriggerAlarm
  <2> QED BY <2>1, GoesOnKeeps
<1>2. CASE UNCHANGED <<checks, activeAlarms>>
  BY <1>2 DEF EngInv, EngTypes, NeedsAlarm
<1> QED BY <1>1, <1>2, StartKeeps, ResolveKeeps, LookKeeps, CreateKeeps DEF EngStep

\* Readings are of the constants, and so is what a message received brings.
ReceivedTyped ==
  \A k \in DOMAIN received : k \in Message /\ received[k].device \in Device
                             /\ received[k].concentration \in Concentration

\* Nothing changes a message that was received.
LEMMA StepReceived == ReceivedTyped /\ [Next]_vars => ReceivedTyped'
<1> SUFFICES ASSUME ReceivedTyped, [Next]_vars PROVE ReceivedTyped'
  OBVIOUS
<1>1. ASSUME NEW k \in Message, NEW d \in Device, NEW c \in Concentration, Arrive(k, d, c)
      PROVE  ReceivedTyped'
  BY <1>1 DEF Arrive, ReceivedTyped
<1>2. CASE \/ \E k \in Message : Process(k) \/ Raise(k)
           \/ Engine \/ Zone \/ Hub \/ Batch
           \/ StartReceiver \/ StopModules \/ CloseMQTT \/ CloseWebSocket \/ CloseDatabase \/ Exit
           \/ UNCHANGED vars
  <2>1. received' = received
    BY <1>2 DEF Process, Raise, Engine, Zone, Hub, OfHub, Batch, OfBatch, StartReceiver,
                StopModules, CloseMQTT, CloseWebSocket, CloseDatabase, Exit, GoTo, vars, mainVars
  <2> QED BY <2>1 DEF ReceivedTyped
<1> QED BY <1>1, <1>2 DEF Next

\* What the composition does to the engine.
LEMMA NextIsEngStep == ReceivedTyped /\ [Next]_vars => EngStep
<1> SUFFICES ASSUME ReceivedTyped, [Next]_vars PROVE EngStep
  OBVIOUS
<1> USE DEF engVars
<1>1. ASSUME NEW k \in Message, Process(k) PROVE EngStep
  <2>1. k \in DOMAIN received /\ k \in Check
    BY <1>1, OneName DEF Process
  <2>2. StartCheck(k, received[k].device, received[k].concentration) \/ UNCHANGED engVars
    BY <1>1 DEF Process
  <2> QED BY <2>1, <2>2 DEF EngStep, ReceivedTyped
<1>2. ASSUME NEW k \in Message, Raise(k) PROVE EngStep
  <2>1. k \in Check /\ TriggerAlarm(k)
    BY <1>2, OneName DEF Raise
  <2> QED BY <2>1 DEF EngStep
<1>3. CASE Engine
  BY <1>3 DEF Engine, EngStep, CheckAlarm, AcknowledgeAlarm
<1>4. CASE \/ \E k \in Message, d \in Device, c \in Concentration : Arrive(k, d, c)
           \/ Zone \/ Hub \/ Batch
           \/ StartReceiver \/ StopModules \/ CloseMQTT \/ CloseWebSocket \/ CloseDatabase \/ Exit
           \/ UNCHANGED vars
  <2>1. UNCHANGED engVars
    BY <1>4 DEF Arrive, Zone, Hub, OfHub, Batch, OfBatch, StartReceiver, StopModules, CloseMQTT,
                CloseWebSocket, CloseDatabase, Exit, vars
  <2> QED BY <2>1 DEF EngStep
<1> QED BY <1>1, <1>2, <1>3, <1>4 DEF Next

\* An alarm takes the place of another one in CreateAlarm only.
LEMMA ReplacedByCreation ==
  EngInv /\ EngStep =>
    \A d \in DOMAIN activeAlarms \cap DOMAIN activeAlarms' :
      LET old == activeAlarms[d]
          new == activeAlarms'[d]
      IN old = new \/ checks[old].level # checks[new].level \/ checks[new].raced
<1> SUFFICES ASSUME EngInv, EngStep, NEW d \in DOMAIN activeAlarms \cap DOMAIN activeAlarms'
             PROVE  \/ activeAlarms[d] = activeAlarms'[d]
                    \/ checks[activeAlarms[d]].level # checks[activeAlarms'[d]].level
                    \/ checks[activeAlarms'[d]].raced
  OBVIOUS
<1>1. ASSUME NEW k \in Check, CreateAlarm(k), activeAlarms'[d] # activeAlarms[d]
      PROVE  checks[activeAlarms[d]].level # checks[k].level \/ checks[k].raced
  <2>1. checks[k].at = "create" /\ checks[k].device = d
    BY <1>1 DEF CreateAlarm
  <2> QED BY <2>1 DEF EngInv, NeedsAlarm
<1>2. ASSUME NEW k \in Check, CreateAlarm(k)
      PROVE  activeAlarms'[d] = activeAlarms[d] \/ activeAlarms'[d] = k
  BY <1>2 DEF CreateAlarm
<1>3. ASSUME NEW k \in Check, ResolveAlarm(k) PROVE activeAlarms'[d] = activeAlarms[d]
  BY <1>3 DEF ResolveAlarm
<1> QED BY <1>1, <1>2, <1>3
        DEF EngStep, StartCheck, LookUpAlarm, ResolveRow, SaveAlarmToDB, TriggerAlarm

\* CheckAlarm looks at the active alarm in one critical section and creates
\* in another: an alarm takes the place of one of the same level only if a
\* check of the device created one in between.
THEOREM RepeatedAlarmsAreRaces == Spec => RepeatsAreRaces
<1> DEFINE Replaced ==
      \A d \in DOMAIN activeAlarms \cap DOMAIN activeAlarms' :
        LET old == activeAlarms[d]
            new == activeAlarms'[d]
        IN old = new \/ checks[old].level # checks[new].level \/ checks[new].raced
<1>1. Init => EngInv /\ ReceivedTyped
  <2> SUFFICES ASSUME Init PROVE EngInv /\ ReceivedTyped
    OBVIOUS
  <2>1. EngTypes
    <3> DEFINE some == CHOOSE d \in Device : TRUE
               idle == [at |-> "idle", device |-> some, level |-> 0, alarm |-> {}, raced |-> FALSE]
    <3>1. some \in Device
      BY EngineNumbers
    <3>2. checks = [k \in Check |-> idle]
      BY DEF Init, EngInit
    <3> HIDE DEF some
    <3>3. idle \in CheckRecord
      BY <3>1 DEF CheckRecord, CheckPlaces
    <3> HIDE DEF idle
    <3> QED BY <3>2, <3>3 DEF EngTypes
  <2> QED BY <2>1 DEF Init, EngInit, EngInv, ReceivedTyped
<1>2. EngInv /\ ReceivedTyped /\ [Next]_vars => EngInv' /\ ReceivedTyped'
  BY EngStepKeeps, NextIsEngStep, StepReceived
<1>3. EngInv /\ ReceivedTyped /\ [Next]_vars => [Replaced]_engVars
  BY ReplacedByCreation, NextIsEngStep
<1> QED BY <1>1, <1>2, <1>3, PTL DEF Spec, RepeatsAreRaces

-------------------------------------------------------------------------------
(* Zone orders *)

LoopRecord == [at : {"none", "look", "mark", "done"}, todo : Seq(STRING), raced : BOOLEAN]

\* A goroutine that is about to order has a device to order, one that nobody
\* has ordered lately unless another goroutine overtook this one.
ZoneInv ==
  /\ loops \in [Loop -> LoopRecord]
  /\ \A l \in Loop : loops[l].at = "mark" =>
       /\ loops[l].todo # <<>>
       /\ Head(loops[l].todo) \notin marked \/ loops[l].raced

\* The devices a goroutine has still to do.
LEMMA RestTyped ==
  ASSUME NEW S, NEW list \in Seq(S), list # <<>>
  PROVE  Tail(list) \in Seq(S)
OBVIOUS

\* What is left of the devices, and where the goroutine is then.
LEMMA GoOnTyped ==
  ASSUME NEW l \in Loop, loops[l] \in LoopRecord, NEW rest \in Seq(STRING)
  PROVE  /\ GoOn(l, rest) \in LoopRecord
         /\ GoOn(l, rest).at \in {"look", "done"}
<1> DEFINE place == IF rest = <<>> THEN "done" ELSE "look"
<1>1. place \in {"look", "done"}
  OBVIOUS
<1>2. GoOn(l, rest) = [loops[l] EXCEPT !.at = place, !.todo = rest, !.raced = FALSE]
  BY DEF GoOn
<1> HIDE DEF place
<1> QED BY <1>1, <1>2 DEF LoopRecord

\* The goroutines of an alarm begin with all the devices of the zone.
LEMMA HandleKeeps == ASSUME ZoneInv, NEW a \in Alarm, HandleEmergency(a) PROVE ZoneInv'
<1>1. marked' = marked
  BY DEF HandleEmergency
<1>2. PICK failed \in SUBSET {"valves", "fans"} :
        loops' = [l \in Loop |->
          IF l[1] # a THEN loops[l]
          ELSE [at |-> IF l[2] \in failed THEN "done" ELSE "look",
                todo |-> Devices(l), raced |-> FALSE]]
  BY DEF HandleEmergency
<1>3. \A l \in Loop : Devices(l) \in Seq(STRING)
  BY ZoneLists DEF Devices
<1>4. ASSUME NEW l \in Loop
      PROVE  loops'[l] \in LoopRecord /\ (loops'[l].at = "mark" => loops'[l] = loops[l])
  <2>1. CASE l[1] # a
    BY <1>2, <2>1 DEF ZoneInv
  <2>2. CASE l[1] = a
    <3> DEFINE begun == [at |-> IF l[2] \in failed THEN "done" ELSE "look",
                         todo |-> Devices(l), raced |-> FALSE]
    <3>1. loops'[l] = begun
      BY <1>2, <2>2
    <3> QED BY <1>3, <3>1 DEF LoopRecord
  <2> QED BY <2>1, <2>2
<1>5. loops' \in [Loop -> LoopRecord]
  BY <1>2, <1>4
<1> QED BY <1>1, <1>4, <1>5 DEF ZoneInv

\* A goroutine goes on to order only what nobody has ordered lately.
LEMMA LookUpKeeps == ASSUME ZoneInv, NEW l \in Loop, LookUpControl(l) PROVE ZoneInv'
<1>1. loops[l] \in LoopRecord /\ loops \in [Loop -> LoopRecord] /\ marked' = marked
  BY DEF ZoneInv, LookUpControl
<1>2. \A k \in Loop \ {l} : loops'[k] = loops[k]
  BY <1>1 DEF LookUpControl
<1>3. CASE loops[l].todo = <<>>
  <2>1. loops' = [loops EXCEPT ![l] = [loops[l] EXCEPT !.at = "done"]]
    BY <1>1, <1>3 DEF LookUpControl
  <2>2. [loops[l] EXCEPT !.at = "done"] \in LoopRecord
    BY <1>1 DEF LoopRecord
  <2>3. loops' \in [Loop -> LoopRecord] /\ loops'[l].at = "done"
    BY <1>1, <2>1, <2>2 DEF LoopRecord
  <2> QED BY <1>1, <1>2, <2>3 DEF ZoneInv
<1>4. CASE loops[l].todo # <<>> /\ IsRecent(Head(loops[l].todo))
  <2>1. loops' = [loops EXCEPT ![l] = GoOn(l, Tail(loops[l].todo))]
    BY <1>1, <1>4 DEF LookUpControl
  <2>2. Tail(loops[l].todo) \in Seq(STRING)
    BY <1>1, <1>4 DEF LoopRecord
  <2>3. GoOn(l, Tail(loops[l].todo)) \in LoopRecord /\ GoOn(l, Tail(loops[l].todo)).at # "mark"
    BY <1>1, <2>2, GoOnTyped
  <2>4. loops' \in [Loop -> LoopRecord] /\ loops'[l].at # "mark"
    BY <1>1, <2>1, <2>3
  <2> QED BY <1>1, <1>2, <2>4 DEF ZoneInv
<1>5. CASE loops[l].todo # <<>> /\ ~IsRecent(Head(loops[l].todo))
  <2>1. loops' = [loops EXCEPT ![l] = [loops[l] EXCEPT !.at = "mark"]]
    BY <1>1, <1>5 DEF LookUpControl
  <2>2. [loops[l] EXCEPT !.at = "mark"] \in LoopRecord
    BY <1>1 DEF LoopRecord
  <2>3. loops' \in [Loop -> LoopRecord] /\ loops'[l].todo = loops[l].todo
    BY <1>1, <2>1, <2>2 DEF LoopRecord
  <2> QED BY <1>1, <1>2, <1>5, <2>3 DEF ZoneInv, IsRecent
<1> QED BY <1>3, <1>4, <1>5

\* The goroutines that were about to order the same device are overtaken.
LEMMA MarkKeeps == ASSUME ZoneInv, NEW l \in Loop, MarkControl(l) PROVE ZoneInv'
<1> DEFINE device == Head(loops[l].todo)
           after(k) == IF k = l THEN GoOn(l, Tail(loops[l].todo))
                       ELSE [loops[k] EXCEPT !.raced = @ \/ k \in AtMark(device)]
<1>0. loops[l] \in LoopRecord /\ loops[l].todo # <<>>
  BY DEF MarkControl, ZoneInv
<1>1. marked' = marked \cup {device} /\ loops' = [k \in Loop |-> after(k)]
  BY DEF MarkControl
<1>2. after(l) \in LoopRecord /\ after(l).at # "mark"
  <2>1. Tail(loops[l].todo) \in Seq(STRING)
    <3>1. loops[l].todo \in Seq(STRING) /\ loops[l].todo # <<>>
      BY <1>0 DEF LoopRecord
    <3> QED BY <3>1, RestTyped
  <2> QED BY <1>0, <2>1, GoOnTyped
<1>3. ASSUME NEW k \in Loop, k # l
      PROVE  /\ after(k) \in LoopRecord
             /\ after(k).at = loops[k].at /\ after(k).todo = loops[k].todo
             /\ loops[k].raced \/ k \in AtMark(device) => after(k).raced
  <2> DEFINE now == loops[k].raced \/ k \in AtMark(device)
  <2>1. after(k) = [loops[k] EXCEPT !.raced = now]
    BY <1>3
  <2>2. loops[k] \in LoopRecord
    BY DEF ZoneInv
  <2>3. now \in BOOLEAN
    OBVIOUS
  <2> HIDE DEF now, after
  <2>4. after(k).raced = now /\ after(k).at = loops[k].at /\ after(k).todo = loops[k].todo
    BY <2>1, <2>2 DEF LoopRecord
  <2>5. after(k) \in LoopRecord
    BY <2>1, <2>2, <2>3 DEF LoopRecord
  <2> QED BY <2>4, <2>5 DEF now
<1>4. ASSUME NEW k \in Loop, after(k).at = "mark"
      PROVE  after(k).todo # <<>> /\ (Head(after(k).todo) \notin marked' \/ after(k).raced)
  <2>1. k # l /\ loops[k].at = "mark" /\ after(k).todo = loops[k].todo
    BY <1>2, <1>3, <1>4
  <2>2. /\ loops[k].todo # <<>>
        /\ Head(loops[k].todo) \notin marked \/ loops[k].raced
    BY <2>1 DEF ZoneInv
  <2>3. Head(loops[k].todo) = device => k \in AtMark(device)
    BY <2>1 DEF AtMark
  <2> HIDE DEF device, after
  <2> QED BY <1>1, <1>3, <2>1, <2>2, <2>3
<1> HIDE DEF after, device
<1> QED BY <1>1, <1>2, <1>3, <1>4 DEF ZoneInv

\* What the composition does to zone control.
ZoneStep ==
  \/ \E a \in Alarm : HandleEmergency(a)
  \/ \E l \in Loop : LookUpControl(l) \/ MarkControl(l)
  \/ \E device \in marked : FiveMinutesPass(device)
  \/ UNCHANGED <<loops, marked>>

\* Every step of zone control keeps its invariant.
LEMMA ZoneStepKeeps == ZoneInv /\ ZoneStep => ZoneInv'
<1> SUFFICES ASSUME ZoneInv, ZoneStep PROVE ZoneInv'
  OBVIOUS
<1>1. CASE UNCHANGED <<loops, marked>>
  BY <1>1 DEF ZoneInv
<1>2. ASSUME NEW device \in marked, FiveMinutesPass(device) PROVE ZoneInv'
  <2>1. loops' = loops /\ marked' \subseteq marked
    BY <1>2 DEF FiveMinutesPass
  <2> QED BY <2>1 DEF ZoneInv
<1> QED BY <1>1, <1>2, HandleKeeps, LookUpKeeps, MarkKeeps DEF ZoneStep

\* Only alarms that are raised, the goroutines and time touch zone control.
LEMMA NextIsZoneStep == [Next]_vars => ZoneStep
<1> SUFFICES ASSUME [Next]_vars PROVE ZoneStep
  OBVIOUS
<1> USE DEF zoneVars
<1>1. ASSUME NEW k \in Message, Raise(k) PROVE ZoneStep
  BY <1>1, OneName DEF Raise, ZoneStep
<1>2. CASE Zone
  BY <1>2 DEF Zone, ControlZone, MapFault, ZoneStep
<1>3. CASE \/ \E k \in Message, d \in Device, c \in Concentration : Arrive(k, d, c)
           \/ \E k \in Message : Process(k)
           \/ Engine \/ Hub \/ Batch
           \/ StartReceiver \/ StopModules \/ CloseMQTT \/ CloseWebSocket \/ CloseDatabase \/ Exit
           \/ UNCHANGED vars
  <2>1. UNCHANGED zoneVars
    BY <1>3 DEF Arrive, Process, Engine, Hub, OfHub, Batch, OfBatch, StartReceiver, StopModules,
                CloseMQTT, CloseWebSocket, CloseDatabase, Exit, vars
  <2> QED BY <2>1 DEF ZoneStep
<1> QED BY <1>1, <1>2, <1>3 DEF Next

\* controlZoneValves and controlZoneFans use activeControls without a lock: a
\* device is ordered twice within five minutes only by goroutines one of which
\* overtook the other between its look and its mark.
THEOREM SecondOrdersRace == Spec => SecondOrdersAreRaces
<1> DEFINE Ordered ==
      \A l \in Loop : loops[l].at = "mark" /\ loops'[l].at # "mark" =>
        Head(loops[l].todo) \notin marked \/ loops[l].raced
<1>1. Init => ZoneInv
  <2>1. \A l \in Loop : [at |-> "none", todo |-> <<>>, raced |-> FALSE] \in LoopRecord
    BY DEF LoopRecord
  <2> QED BY <2>1 DEF Init, ZoneInit, ZoneInv
<1>2. ZoneInv /\ [Next]_vars => ZoneInv'
  BY NextIsZoneStep, ZoneStepKeeps
<1>3. ZoneInv => [Ordered]_zoneVars
  BY DEF ZoneInv
<1> QED BY <1>1, <1>2, <1>3, PTL DEF Spec, SecondOrdersAreRaces
===============================================================================
