-------------------------- MODULE AlarmRouterProofs --------------------------
(***************************************************************************)
(* Theorems about module AlarmRouter, for any devices, thresholds and      *)
(* channel capacities and any number of readings.                          *)
(***************************************************************************)
EXTENDS AlarmRouter, SequenceTheorems, TLAPS

-------------------------------------------------------------------------------
(* Helpers *)

\* getAlarmLevel returns one of four levels.
LEMMA LevelTyped == ASSUME NEW c PROVE Level(c) \in 0 .. 3
BY DEF Level

\* A sequence over a set is one over any larger set.
LEMMA SeqWidens ==
  ASSUME NEW S, NEW T, S \subseteq T, NEW q \in Seq(S)
  PROVE  q \in Seq(T)
BY SMT

\* A send that may give up keeps the type of the channel.
LEMMA TryingTyped ==
  ASSUME NEW S, NEW q \in Seq(S), NEW x \in S, NEW cap
  PROVE  Trying(q, cap, x) \in Seq(S)
BY DEF Trying

\* An acknowledgement changes nothing of an alarm but its flag.
LEMMA AckSpares ==
  ASSUME NEW q \in Seq(Alarm), NEW k \in 1 .. Len(q)
  PROVE  LET p == [q EXCEPT ![k].acked = TRUE]
         IN  /\ p \in Seq(Alarm)
             /\ Len(p) = Len(q)
             /\ \A i \in 1 .. Len(q) :
                  p[i].device = q[i].device /\ p[i].level = q[i].level
<1> DEFINE r == [q[k] EXCEPT !.acked = TRUE]
           p == [q EXCEPT ![k] = r]
<1>1. q[k] \in Alarm
  OBVIOUS
<1>2. r \in Alarm /\ r.device = q[k].device /\ r.level = q[k].level
  BY <1>1 DEF Alarm
<1> HIDE DEF r
<1>3. /\ p \in Seq(Alarm) /\ Len(p) = Len(q)
      /\ \A i \in 1 .. Len(q) : p[i] = IF i = k THEN r ELSE q[i]
  BY <1>2
<1>4. \A i \in 1 .. Len(q) : p[i].device = q[i].device /\ p[i].level = q[i].level
  BY <1>2, <1>3
<1> QED BY <1>3, <1>4 DEF r

-------------------------------------------------------------------------------
(* Types *)

\* Everything starts empty and on its type.
LEMMA InitTyped == Init => TypeOK
  BY RouterBounds DEF Init, TypeOK, Reading, Place

\* No step of the receiver, an operator or a neighbour leaves the types.
LEMMA StepTyped == TypeOK /\ HandKnown /\ [Next]_vars => TypeOK'
<1> SUFFICES ASSUME TypeOK, HandKnown, [Next]_vars PROVE TypeOK'
  OBVIOUS
<1> USE DEF TypeOK
<1>0. Len(alarms) \in Nat
  BY LenProperties
<1>1. CASE ReceiverStep
  <2>1. CASE Poll
    BY <2>1 DEF Poll, Place, dbVars
  <2>2. CASE Receive
    <3>1. Head(dataChan) \in Reading /\ dataChan' \in Seq(Reading)
      BY <2>2 DEF Receive
    <3>2. Level(Head(dataChan).concentration) \in 0 .. 3
      BY LevelTyped
    <3> QED BY <2>2, <3>1, <3>2 DEF Receive, Place, dbVars
  <2>3. CASE SelectTimeout
    BY <2>3 DEF SelectTimeout, Place, dbVars
  <2>4. CASE Resolve
    BY <2>4 DEF Resolve, Resolution, Place, dbVars, Reading
  <2>5. CASE ResolveRow
    <3>1. hand \in 1 .. Len(alarms)
      BY <1>0, <2>5 DEF ResolveRow, HandKnown
    <3> QED BY <2>5, <3>1 DEF ResolveRow, Place
  <2>6. CASE Rise
    BY <2>6 DEF Rise, Place, dbVars
  <2>7. CASE Create
    <3> DEFINE a == [device |-> reading.device, level |-> JudgedLevel, acked |-> FALSE]
    <3>1. a \in Alarm
      BY <2>7, LevelTyped DEF Create, HandKnown, JudgedLevel, Reading, Alarm
    <3>2. /\ alarms' \in Seq(Alarm)
          /\ Len(alarms') = Len(alarms) + 1
      BY <2>7, <3>1 DEF Create
    <3>3. 1 .. Len(alarms) \subseteq 1 .. Len(alarms')
      BY <1>0, <3>2
    <3>4. alarmChan' \in Seq(1 .. Len(alarms'))
      BY <2>7, <3>3, SeqWidens DEF Create
    <3>5. hand' \in 0 .. Len(alarms')
      BY <1>0, <2>7, <3>2 DEF Create
    <3>6. active' \in [Device -> 0 .. Len(alarms')]
      <4>1. active \in [Device -> 0 .. Len(alarms')]
        BY <1>0, <3>2
      <4>2. Len(alarms) + 1 \in 0 .. Len(alarms')
        BY <1>0, <3>2
      <4> QED BY <2>7, <4>1, <4>2 DEF Create
    <3>7. at' \in Place
      BY <2>7 DEF Create, Follows, Place
    <3> QED BY <2>7, <3>2, <3>3, <3>4, <3>5, <3>6, <3>7 DEF Create, dbVars
  <2>8. CASE Save
    <3>1. hand \in 1 .. Len(alarms)
      BY <1>0, <2>8 DEF Save, HandKnown
    <3> QED BY <2>8, <3>1 DEF Save, Follows, Place
  <2>9. CASE Trigger
    <3>1. hand \in 1 .. Len(alarms)
      BY <1>0, <2>9 DEF Trigger, HandKnown
    <3>2. alarmChan' \in Seq(1 .. Len(alarms))
      BY <2>9, <3>1, TryingTyped DEF Trigger
    <3> QED BY <2>9, <3>2 DEF Trigger, Follows, Place, dbVars
  <2> QED
    BY <1>1, <2>1, <2>2, <2>3, <2>4, <2>5, <2>6, <2>7, <2>8, <2>9 DEF ReceiverStep
<1>2. ASSUME NEW d \in Device, Acknowledge(d) PROVE TypeOK'
  <2>1. active[d] \in 1 .. Len(alarms)
    BY <1>2 DEF Acknowledge
  <2>2. /\ alarms' \in Seq(Alarm)
        /\ Len(alarms') = Len(alarms)
    BY <1>2, <2>1, AckSpares DEF Acknowledge
  <2> QED BY <1>2, <2>1, <2>2 DEF Acknowledge
<1>3. CASE Stop
  BY <1>3 DEF Stop, routerVars, dbVars
<1>4. ASSUME NEW r \in Reading, Offer(r) PROVE TypeOK'
  <2>1. dataChan' \in Seq(Reading)
    BY <1>4, TryingTyped DEF Offer
  <2> QED BY <1>4, <2>1, RouterBounds DEF Offer, routerVars, dbVars
<1>5. CASE Consume
  BY <1>5 DEF Consume, routerVars, dbVars
<1>6. CASE UNCHANGED vars
  BY <1>6 DEF vars, routerVars, dbVars
<1> QED
  BY <1>1, <1>2, <1>3, <1>4, <1>5, <1>6 DEF Next, RouterStep

-------------------------------------------------------------------------------
(* The inductive invariant *)

\* What a step preserves that leaves the table and the map as they are, and
\* of the alarms no more than their acknowledgement: no alarm becomes
\* unexplained, and the level of the active alarms stays.
LEMMA SameHistory ==
  ASSUME RouterInv, TypeOK',
         Len(alarms') = Len(alarms),
         \A i \in 1 .. Len(alarms) : /\ alarms'[i].device = alarms[i].device
                                     /\ alarms'[i].level = alarms[i].level,
         savedResolved \cup dbErrors \subseteq savedResolved' \cup dbErrors'
  PROVE  /\ RaisedOnChange'
         /\ active' = active =>
              \A d \in Device :
                /\ ActiveLevel(d)' = ActiveLevel(d)
                /\ active'[d] # 0 => alarms'[active'[d]].device = d
         /\ active' = active =>
              \A i \in 1 .. Len(alarms') :
                \/ i \in savedResolved' \cup dbErrors'
                \/ active'[alarms'[i].device] = i
                \/ \E j \in i + 1 .. Len(alarms') :
                     alarms'[j].device = alarms'[i].device
                \/ at = "resolveRow" /\ hand = i
<1>0. Len(alarms) \in Nat /\ \A d \in Device : active[d] \in 0 .. Len(alarms)
  BY LenProperties DEF RouterInv, TypeOK
<1>1. RaisedOnChange'
  <2> SUFFICES ASSUME NEW j \in 1 .. Len(alarms'), NEW i \in 1 .. j - 1,
                      Succeeds(j, i)', alarms'[i].level = alarms'[j].level
               PROVE  i \in savedResolved' \cup dbErrors'
    BY DEF RaisedOnChange
  <2>1. i \in 1 .. Len(alarms) /\ j \in 1 .. Len(alarms)
    BY <1>0
  <2>2. Succeeds(j, i)
    BY <1>0, <2>1 DEF Succeeds
  <2> QED BY <2>1, <2>2 DEF RouterInv, RaisedOnChange
<1>2. ASSUME active' = active, NEW d \in Device
      PROVE  /\ ActiveLevel(d)' = ActiveLevel(d)
             /\ active'[d] # 0 => alarms'[active'[d]].device = d
  BY <1>0, <1>2 DEF RouterInv, UpToDate, ActiveLevel
<1>3. ASSUME active' = active, NEW i \in 1 .. Len(alarms')
      PROVE  \/ i \in savedResolved' \cup dbErrors'
             \/ active'[alarms'[i].device] = i
             \/ \E j \in i + 1 .. Len(alarms') : alarms'[j].device = alarms'[i].device
             \/ at = "resolveRow" /\ hand = i
  BY <1>0, <1>3 DEF RouterInv, OverIsRecorded
<1> QED BY <1>1, <1>2, <1>3

\* Initially there is no alarm and no reading in hand.
LEMMA InitInv == Init => RouterInv
<1> SUFFICES ASSUME Init PROVE RouterInv
  OBVIOUS
<1>1. TypeOK
  BY InitTyped
<1>2. HandKnown /\ Written /\ OverIsRecorded /\ RaisedOnChange /\ SavedBeforeRouted
  BY DEF Init, HandKnown, Written, OverIsRecorded, RaisedOnChange, SavedBeforeRouted
<1>3. UpToDate
  BY DEF Init, UpToDate, ActiveLevel
<1> QED BY <1>1, <1>2, <1>3 DEF RouterInv

\* Every alarm is an alarm of some device, of one of the three levels.
LEMMA AlarmsTyped ==
  ASSUME TypeOK
  PROVE  /\ Len(alarms) \in Nat
         /\ \A i \in 1 .. Len(alarms) :
              alarms[i].device \in Device /\ alarms[i].level \in 1 .. 3
<1>1. \A i \in 1 .. Len(alarms) : alarms[i] \in Alarm
  BY DEF TypeOK
<1> QED BY <1>1, LenProperties DEF TypeOK, Alarm

\* Steps that touch neither the alarms nor the map nor the table, and do not
\* move the receiver from or to a place the invariant speaks of.
LEMMA QuietStep ==
  ASSUME RouterInv, TypeOK',
         UNCHANGED <<hand, alarms, active, lastLevel, dbVars>>,
         \/ UNCHANGED <<at, reading>>
         \/ {at, at'} \subseteq {"poll", "select", "gone"},
         \A i \in 1 .. Len(alarmChan') : alarmChan'[i] \in saved \cup dbErrors
  PROVE  RouterInv'
<1>1. HandKnown'
  BY DEF RouterInv, HandKnown, JudgedLevel, ActiveLevel, dbVars
<1>2. Written' /\ OverIsRecorded'
  BY DEF RouterInv, Written, OverIsRecorded, dbVars
<1>3. UpToDate'
  BY DEF RouterInv, UpToDate, ActiveLevel, dbVars
<1>4. RaisedOnChange' /\ SavedBeforeRouted'
  BY DEF RouterInv, RaisedOnChange, SavedBeforeRouted, Succeeds, dbVars
<1> QED BY <1>1, <1>2, <1>3, <1>4 DEF RouterInv

\* A reading in hand excuses its own device only.
LEMMA ReceiveKeeps == ASSUME RouterInv, TypeOK', Receive PROVE RouterInv'
<1>0. reading' \in Reading /\ lastLevel \in [Device -> 0 .. 3]
  BY DEF TypeOK, RouterInv
<1> USE DEF Receive, dbVars
<1>1. HandKnown'
  BY <1>0 DEF HandKnown, JudgedLevel, Reading
<1>2. Written' /\ OverIsRecorded'
  BY DEF RouterInv, Written, OverIsRecorded
<1>3. UpToDate'
  BY <1>0 DEF RouterInv, UpToDate, ActiveLevel, Reading
<1>4. RaisedOnChange' /\ SavedBeforeRouted'
  BY DEF RouterInv, RaisedOnChange, SavedBeforeRouted, Succeeds
<1> QED BY <1>1, <1>2, <1>3, <1>4 DEF RouterInv

\* The alarm taken out of the map is in hand, its row comes next.
LEMMA ResolveKeeps == ASSUME RouterInv, TypeOK', Resolve PROVE RouterInv'
<1>0. /\ reading.device \in Device /\ active \in [Device -> 0 .. Len(alarms)]
      /\ at = "judge" /\ lastLevel[reading.device] = 0
  BY DEF TypeOK, RouterInv, Reading, HandKnown, Resolve
<1>a. \A i \in 1 .. Len(alarms) : alarms[i].device \in Device
  BY AlarmsTyped DEF RouterInv
<1> USE DEF Resolve, Resolution, dbVars
<1>1. HandKnown'
  BY DEF HandKnown
<1>2. Written'
  BY DEF RouterInv, Written
<1>3. OverIsRecorded'
  <2> SUFFICES ASSUME NEW i \in 1 .. Len(alarms), active[alarms[i].device] = i
               PROVE  active'[alarms[i].device] = i \/ (at' = "resolveRow" /\ hand' = i)
    BY <1>0 DEF RouterInv, OverIsRecorded
  <2>1. CASE alarms[i].device = reading.device
    BY <2>1
  <2>2. CASE alarms[i].device # reading.device
    BY <1>0, <1>a, <2>2
  <2> QED BY <2>1, <2>2
<1>4. UpToDate'
  BY <1>0 DEF RouterInv, UpToDate, ActiveLevel
<1>5. RaisedOnChange' /\ SavedBeforeRouted'
  BY DEF RouterInv, RaisedOnChange, SavedBeforeRouted, Succeeds
<1> QED BY <1>1, <1>2, <1>3, <1>4, <1>5 DEF RouterInv

\* The update finds the row, because the insert was tried before.
LEMMA ResolveRowKeeps == ASSUME RouterInv, TypeOK', ResolveRow PROVE RouterInv'
<1>0. hand \in 1 .. Len(alarms) /\ hand \in saved \cup dbErrors
  BY LenProperties DEF RouterInv, TypeOK, HandKnown, Written, ResolveRow
<1>1. /\ hand \in savedResolved' \cup dbErrors'
      /\ savedResolved \cup dbErrors \subseteq savedResolved' \cup dbErrors'
      /\ dbErrors \subseteq dbErrors'
  BY <1>0 DEF ResolveRow
<1> USE DEF ResolveRow
<1>2. HandKnown'
  BY DEF HandKnown
<1>3. Written' /\ SavedBeforeRouted'
  BY <1>1 DEF RouterInv, Written, SavedBeforeRouted
<1>4. OverIsRecorded'
  BY <1>1 DEF RouterInv, OverIsRecorded
<1>5. UpToDate'
  BY DEF RouterInv, UpToDate, ActiveLevel
<1>6. RaisedOnChange'
  BY <1>1 DEF RouterInv, RaisedOnChange, Succeeds
<1> QED BY <1>2, <1>3, <1>4, <1>5, <1>6 DEF RouterInv

\* A reading of the level of the active alarm leaves the device up to date.
LEMMA RiseKeeps == ASSUME RouterInv, TypeOK', Rise PROVE RouterInv'
<1> USE DEF Rise, dbVars
<1>1. HandKnown'
  BY DEF RouterInv, HandKnown, NeedsAlarm, ActiveLevel, JudgedLevel
<1>2. Written' /\ OverIsRecorded'
  BY DEF RouterInv, Written, OverIsRecorded
<1>3. UpToDate'
  BY DEF RouterInv, UpToDate, ActiveLevel, HandKnown, NeedsAlarm
<1>4. RaisedOnChange' /\ SavedBeforeRouted'
  BY DEF RouterInv, RaisedOnChange, SavedBeforeRouted, Succeeds
<1> QED BY <1>1, <1>2, <1>3, <1>4 DEF RouterInv

\* The new alarm takes the place of an alarm of another level, which its
\* successor accounts for from now on.
LEMMA CreateKeeps == ASSUME RouterInv, TypeOK', Create PROVE RouterInv'
<1> DEFINE n == Len(alarms) + 1
           rd == reading.device
<1>0. /\ rd \in Device /\ active \in [Device -> 0 .. Len(alarms)]
      /\ Len(alarms) \in Nat /\ at = "create"
  BY AlarmsTyped DEF TypeOK, RouterInv, Reading, Create
<1>1. /\ Len(alarms') = n
      /\ \A i \in 1 .. Len(alarms) : alarms'[i] = alarms[i]
      /\ alarms'[n].device = rd /\ alarms'[n].level = JudgedLevel
  BY <1>0 DEF Create, RouterInv, TypeOK
<1>2. /\ active'[rd] = n
      /\ \A d \in Device \ {rd} : active'[d] = active[d]
      /\ hand' = n /\ at' = "save"
      /\ UNCHANGED <<reading, lastLevel, alarmChan, saved, savedResolved, dbErrors>>
  BY <1>0 DEF Create, Follows, dbVars
<1>3. /\ lastLevel[rd] = JudgedLevel
      /\ ActiveLevel(rd) # JudgedLevel
      /\ \A i \in 1 .. Len(alarms) : i \in saved \cup dbErrors
  BY <1>0 DEF RouterInv, HandKnown, Written
<1>4. HandKnown'
  BY <1>0, <1>2 DEF HandKnown
<1>5. Written'
  BY <1>0, <1>1, <1>2, <1>3 DEF Written
<1>6. OverIsRecorded'
  <2> SUFFICES ASSUME NEW i \in 1 .. n
               PROVE  \/ i \in savedResolved \cup dbErrors
                      \/ active'[alarms'[i].device] = i
                      \/ \E j \in i + 1 .. n : alarms'[j].device = alarms'[i].device
    BY <1>1, <1>2 DEF OverIsRecorded
  <2>1. CASE i = n
    BY <1>1, <1>2, <2>1
  <2>2. CASE i # n
    <3>1. i \in 1 .. Len(alarms) /\ alarms[i].device \in Device
      BY <1>0, <2>2, AlarmsTyped DEF RouterInv
    <3>2. CASE alarms[i].device = rd
      BY <1>0, <1>1, <3>1, <3>2
    <3>3. CASE alarms[i].device # rd
      <4>1. \/ i \in savedResolved \cup dbErrors
            \/ active[alarms[i].device] = i
            \/ \E j \in i + 1 .. Len(alarms) : alarms[j].device = alarms[i].device
        BY <1>0, <3>1 DEF RouterInv, OverIsRecorded
      <4> QED BY <1>0, <1>1, <1>2, <3>1, <3>3, <4>1
    <3> QED BY <3>2, <3>3
  <2> QED BY <2>1, <2>2
<1>7. UpToDate'
  <2> SUFFICES ASSUME NEW d \in Device
               PROVE  /\ active'[d] # 0 => alarms'[active'[d]].device = d
                      /\ ActiveLevel(d)' = lastLevel[d]
    BY <1>2 DEF UpToDate
  <2>1. CASE d = rd
    BY <1>0, <1>1, <1>2, <1>3, <2>1 DEF ActiveLevel
  <2>2. CASE d # rd
    <3>1. /\ active[d] # 0 => alarms[active[d]].device = d
          /\ ActiveLevel(d) = lastLevel[d]
      BY <1>0, <2>2 DEF RouterInv, UpToDate
    <3>2. active[d] \in 0 .. Len(alarms) /\ active'[d] = active[d]
      BY <1>0, <1>2, <2>2
    <3> QED BY <1>0, <1>1, <3>1, <3>2 DEF ActiveLevel
  <2> QED BY <2>1, <2>2
<1>8. RaisedOnChange'
  <2> SUFFICES ASSUME NEW j \in 1 .. n, NEW i \in 1 .. j - 1,
                      Succeeds(j, i)', alarms'[i].level = alarms'[j].level
               PROVE  i \in savedResolved \cup dbErrors
    BY <1>1, <1>2 DEF RaisedOnChange
  <2>1. i \in 1 .. Len(alarms)
    BY <1>0
  <2>2. CASE j # n
    <3>1. j \in 1 .. Len(alarms)
      BY <1>0, <2>2
    <3>2. \A k \in i .. j : alarms'[k] = alarms[k]
      BY <1>0, <1>1, <2>1, <3>1
    <3>3. i \in i .. j /\ j \in i .. j /\ \A k \in i + 1 .. j - 1 : k \in i .. j
      BY <1>0, <2>1, <3>1
    <3>4. Succeeds(j, i) /\ alarms[i].level = alarms[j].level
      BY <3>2, <3>3 DEF Succeeds
    <3> QED BY <3>1, <3>4 DEF RouterInv, RaisedOnChange
  <2>3. CASE j = n
    <3>1. alarms[i].device = rd /\ alarms[i].level = JudgedLevel
      BY <1>1, <2>1, <2>3 DEF Succeeds
    <3>2. \A k \in i + 1 .. Len(alarms) : alarms[k].device # alarms[i].device
      BY <1>0, <1>1, <2>1, <2>3 DEF Succeeds
    <3>3. active[rd] # i
      BY <1>3, <2>1, <3>1 DEF ActiveLevel
    <3> QED BY <1>0, <2>1, <3>1, <3>2, <3>3 DEF RouterInv, OverIsRecorded
  <2> QED BY <2>2, <2>3
<1>9. SavedBeforeRouted'
  BY <1>2 DEF RouterInv, SavedBeforeRouted
<1> QED BY <1>4, <1>5, <1>6, <1>7, <1>8, <1>9 DEF RouterInv

\* The alarm in hand is written or its failure is known before it is routed.
LEMMA SaveKeeps == ASSUME RouterInv, TypeOK', Save PROVE RouterInv'
<1>1. /\ at' = "trigger" /\ at = "save" /\ hand \in saved' \cup dbErrors'
      /\ saved \cup dbErrors \subseteq saved' \cup dbErrors'
      /\ dbErrors \subseteq dbErrors'
      /\ UNCHANGED <<hand, alarms, active, lastLevel, alarmChan, savedResolved>>
  BY DEF Save, Follows
<1>2. HandKnown'
  BY <1>1 DEF RouterInv, HandKnown
<1>3. Written' /\ SavedBeforeRouted'
  BY <1>1 DEF RouterInv, Written, SavedBeforeRouted
<1>4. OverIsRecorded'
  BY <1>1 DEF RouterInv, OverIsRecorded
<1>5. UpToDate'
  BY <1>1 DEF RouterInv, UpToDate, ActiveLevel
<1>6. RaisedOnChange'
  BY <1>1 DEF RouterInv, RaisedOnChange, Succeeds
<1> QED BY <1>2, <1>3, <1>4, <1>5, <1>6 DEF RouterInv

\* Only the alarm in hand enters alarmChan.
LEMMA TriggerKeeps == ASSUME RouterInv, TypeOK', Trigger PROVE RouterInv'
<1>0. /\ hand \in 1 .. Len(alarms) /\ hand \in saved \cup dbErrors
      /\ alarmChan \in Seq(1 .. Len(alarms))
  BY LenProperties DEF RouterInv, TypeOK, HandKnown, Trigger
<1>1. ASSUME NEW i \in 1 .. Len(alarmChan')
      PROVE  alarmChan'[i] \in saved \cup dbErrors
  <2>1. \/ i \in 1 .. Len(alarmChan) /\ alarmChan'[i] = alarmChan[i]
        \/ alarmChan'[i] = hand
    <3>1. \/ alarmChan' = alarmChan
          \/ alarmChan' = Append(alarmChan, hand)
      BY DEF Trigger, Trying
    <3> QED BY <1>0, <3>1
  <2> QED BY <1>0, <2>1 DEF RouterInv, SavedBeforeRouted
<1> USE DEF Trigger, Follows, dbVars
<1>2. HandKnown' /\ Written'
  BY DEF RouterInv, HandKnown, Written
<1>3. OverIsRecorded' /\ UpToDate'
  BY DEF RouterInv, OverIsRecorded, UpToDate, ActiveLevel
<1>4. RaisedOnChange' /\ SavedBeforeRouted'
  BY <1>1 DEF RouterInv, RaisedOnChange, SavedBeforeRouted, Succeeds
<1> QED BY <1>2, <1>3, <1>4 DEF RouterInv

\* An acknowledgement, at any time, changes neither level nor owner.
LEMMA AcknowledgeKeeps ==
  ASSUME RouterInv, TypeOK', NEW d \in Device, Acknowledge(d) PROVE RouterInv'
<1>0. active[d] \in 1 .. Len(alarms) /\ alarms \in Seq(Alarm)
  BY AlarmsTyped DEF RouterInv, TypeOK, Acknowledge
<1>1. /\ Len(alarms') = Len(alarms)
      /\ \A i \in 1 .. Len(alarms) : /\ alarms'[i].device = alarms[i].device
                                     /\ alarms'[i].level = alarms[i].level
  BY <1>0, AckSpares DEF Acknowledge
<1>2. /\ dbErrors \subseteq dbErrors'
      /\ UNCHANGED <<at, reading, hand, active, lastLevel, alarmChan, saved,
                     savedResolved>>
  BY DEF Acknowledge
<1>3. /\ RaisedOnChange'
      /\ \A e \in Device : /\ ActiveLevel(e)' = ActiveLevel(e)
                           /\ active'[e] # 0 => alarms'[active'[e]].device = e
      /\ \A i \in 1 .. Len(alarms') :
           \/ i \in savedResolved' \cup dbErrors'
           \/ active'[alarms'[i].device] = i
           \/ \E j \in i + 1 .. Len(alarms') : alarms'[j].device = alarms'[i].device
           \/ at = "resolveRow" /\ hand = i
  <2>1. savedResolved \cup dbErrors \subseteq savedResolved' \cup dbErrors'
    BY <1>2
  <2>2. active' = active
    BY <1>2
  <2> QED BY <1>1, <2>1, <2>2, SameHistory
<1>4. HandKnown'
  BY <1>2, <1>3 DEF RouterInv, TypeOK, HandKnown, JudgedLevel, Reading
<1>5. Written' /\ SavedBeforeRouted'
  BY <1>1, <1>2 DEF RouterInv, Written, SavedBeforeRouted
<1>6. OverIsRecorded'
  BY <1>2, <1>3 DEF OverIsRecorded
<1>7. UpToDate'
  BY <1>2, <1>3 DEF RouterInv, UpToDate
<1> QED BY <1>3, <1>4, <1>5, <1>6, <1>7 DEF RouterInv

\* Stop, Offer and Consume touch nothing the receiver knows.
LEMMA NeighboursKeep ==
  ASSUME RouterInv, TypeOK', Stop \/ Consume \/ \E r \in Reading : Offer(r)
  PROVE  RouterInv'
<1>1. UNCHANGED <<hand, alarms, active, lastLevel, dbVars, at, reading>>
  BY DEF Stop, Consume, Offer, routerVars
<1>2. \A i \in 1 .. Len(alarmChan') : alarmChan'[i] \in saved \cup dbErrors
  <2>1. CASE alarmChan' = alarmChan
    BY <2>1 DEF RouterInv, SavedBeforeRouted
  <2>2. CASE Consume
    <3>1. alarmChan # <<>> /\ alarmChan' = Tail(alarmChan)
      BY <2>2 DEF Consume
    <3>2. alarmChan \in Seq(1 .. Len(alarms))
      BY DEF RouterInv, TypeOK
    <3>3. \A i \in 1 .. Len(alarmChan') :
            i + 1 \in 1 .. Len(alarmChan) /\ alarmChan'[i] = alarmChan[i + 1]
      BY <3>1, <3>2
    <3> QED BY <3>3 DEF RouterInv, SavedBeforeRouted
  <2> QED BY <2>1, <2>2 DEF Stop, Offer
<1> QED BY <1>1, <1>2, QuietStep

\* Every step of the router and of its neighbours keeps the invariant.
LEMMA StepInv == RouterInv /\ [Next]_vars => RouterInv'
<1> SUFFICES ASSUME RouterInv, [Next]_vars PROVE RouterInv'
  OBVIOUS
<1>0. TypeOK'
  BY StepTyped DEF RouterInv
<1>a. \A i \in 1 .. Len(alarmChan) : alarmChan[i] \in saved \cup dbErrors
  BY DEF RouterInv, SavedBeforeRouted
<1>1. CASE ReceiverStep
  <2>1. CASE Poll \/ SelectTimeout
    BY <1>0, <1>a, <2>1, QuietStep DEF Poll, SelectTimeout
  <2> QED
    BY <1>0, <1>1, <2>1, ReceiveKeeps, ResolveKeeps, ResolveRowKeeps,
       RiseKeeps, CreateKeeps, SaveKeeps, TriggerKeeps
    DEF ReceiverStep
<1>2. CASE UNCHANGED vars
  BY <1>0, <1>a, <1>2, QuietStep DEF vars, routerVars
<1> QED
  BY <1>0, <1>1, <1>2, AcknowledgeKeeps, NeighboursKeep DEF Next, RouterStep

\* Of module AlarmRouter: the invariant of the receiver loop holds whatever
\* the readings, the acknowledgements and the failures of the database.
THEOREM RouterInvariant == SafetySpec => []RouterInv
<1> QED BY InitInv, StepInv, PTL DEF SafetySpec

-------------------------------------------------------------------------------
(* What follows from it *)

\* The variables of the router keep their types, channel capacities of any
\* size included.
THEOREM TypesHold == SafetySpec => []TypeOK
<1>1. RouterInv => TypeOK
  BY DEF RouterInv
<1> QED BY <1>1, RouterInvariant, PTL

\* checkAlarm misses neither an escalation nor a de-escalation nor a return
\* to normal: between two readings each device has the alarm of the level of
\* its last reading, or none.
THEOREM ActiveHolds == SafetySpec => []ActiveMatchesReading
<1>1. RouterInv => ActiveMatchesReading
  BY DEF RouterInv, UpToDate, ActiveMatchesReading
<1> QED BY <1>1, RouterInvariant, PTL

\* checkAlarm repeats an alarm only after its level changed or it was
\* resolved.
THEOREM RaisedHolds == SafetySpec => []RaisedOnChange
<1>1. RouterInv => RaisedOnChange
  BY DEF RouterInv
<1> QED BY <1>1, RouterInvariant, PTL

\* Every open row of the alarms table is that of an active alarm, of one
\* that a later alarm of its device superseded, or of the one resolveAlarm is
\* about to update.
THEOREM OpenRowsHold == SafetySpec => []OpenRowsExplained
<1>1. RouterInv => OpenRowsExplained
  BY DEF RouterInv, TypeOK, OverIsRecorded, OpenRowsExplained
<1> QED BY <1>1, RouterInvariant, PTL

\* No alarm reaches another module before its row was written or its
\* insertion failed.
THEOREM RoutedHolds == SafetySpec => []SavedBeforeRouted
<1>1. RouterInv => SavedBeforeRouted
  BY DEF RouterInv
<1> QED BY <1>1, RouterInvariant, PTL
===============================================================================
