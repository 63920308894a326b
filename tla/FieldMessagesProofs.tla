-------------------------- MODULE FieldMessagesProofs --------------------------
(***************************************************************************)
(* Theorems about the gas compositions, the inspections and the fiber      *)
(* readings of FieldMessages, for any number of handlers at work at once,  *)
(* any messages and any limits.                                            *)
(***************************************************************************)
EXTENDS FieldMessages, TLAPS

-------------------------------------------------------------------------------
(* The inductive invariant *)

Places == {"idle", "check", "limit", "read", "order", "record", "done"}

Handling ==
  [at : Places, valve : Valve, adjustment : -MaxValveAdjustment .. MaxValveAdjustment,
   from : 0 .. 100, to : 0 .. 100]

Order == [from : 0 .. 100, to : 0 .. 100, by : Composition]

\* Past the cooldown check; RecordControl is the last step there.
Inside == {"limit", "read", "order", "record"}

\* Two handlings that are past the cooldown check of one valve have met, and
\* one that met nobody has not seen the valve begin to cool down.
CalInv ==
  /\ CalTypeOK
  /\ \A c, d \in Composition :
       /\ c # d /\ handling[c].valve = handling[d].valve
       /\ handling[c].at \in Inside /\ handling[d].at \in Inside
       => c \in met
  /\ \A c \in Composition :
       handling[c].at \in {"limit", "read", "order"} /\ c \notin met =>
         handling[c].valve \notin cooling

\* The bounds of the opening and of the adjustment.
LEMMA Clamped ==
  ASSUME NEW low \in Int, NEW high \in Int, low <= high, NEW n \in Int
  PROVE  Between(low, high, n) \in low .. high
BY DEF Between

\* The opening that is ordered.
LEMMA OpeningTyped ==
  ASSUME NEW opening \in Int, NEW adjustment \in Int
  PROVE  TargetOpening(opening, adjustment) \in 0 .. 100
BY DEF TargetOpening, Between

\* What the proofs need of the constants.
LEMMA Numbers ==
  /\ MaxValveAdjustment \in Nat /\ MaxChange \in Nat
  /\ -MaxValveAdjustment .. MaxValveAdjustment \subseteq Int
  /\ Valve = {"methane", "hydrogen", "natural_gas"}
BY CalorificNumbers DEF Valve

\* No handling has begun.
LEMMA InitCal == Init => CalInv
<1> SUFFICES ASSUME Init PROVE CalInv
  OBVIOUS
<1>1. Idle \in Handling
  BY Numbers DEF Idle, Handling, Places
<1>2. handling = [c \in Composition |-> Idle]
  BY DEF Init, CalInit
<1>3. handling \in [Composition -> Handling]
  BY <1>1, <1>2
<1>4. valveStates \in [Valve -> 0 .. 100]
  BY CalorificNumbers DEF Init, CalInit, Valve
<1>5. CalTypeOK
  BY <1>3, <1>4 DEF Init, CalInit, CalTypeOK, Handling, Places
<1> QED BY <1>2, <1>5 DEF CalInv, Init, CalInit, Idle, Inside

-------------------------------------------------------------------------------
(* The steps of a handling *)

\* A handling moves on, and does not pass the cooldown check by that.
LEMMA MovesOn ==
  ASSUME CalInv, NEW c \in Composition, NEW h \in Handling, handling' = [handling EXCEPT ![c] = h],
         h.at \in Inside => handling[c].at \in Inside /\ h.valve = handling[c].valve,
         h.at \in {"limit", "read", "order"} => handling[c].at \in {"limit", "read", "order"},
         orders' \in [Valve -> Seq(Order)],
         UNCHANGED <<regulating, valveStates, cooling, lastAdjustments, met>>
  PROVE  CalInv'
<1>1. handling \in [Composition -> Handling]
  BY DEF CalInv, CalTypeOK, Handling, Places
<1>2. CalTypeOK'
  <2>1. handling' \in [Composition -> Handling]
    BY <1>1
  <2> QED BY <2>1 DEF CalInv, CalTypeOK, Handling, Places, Order
<1>3. \A d \in Composition : handling'[d] = IF d = c THEN h ELSE handling[d]
  BY <1>1
<1>4. ASSUME NEW d \in Composition, NEW e \in Composition, d # e,
             handling'[d].valve = handling'[e].valve,
             handling'[d].at \in Inside, handling'[e].at \in Inside
      PROVE  d \in met
  <2>1. /\ handling[d].valve = handling[e].valve
        /\ handling[d].at \in Inside /\ handling[e].at \in Inside
    BY <1>3, <1>4
  <2> QED BY <1>4, <2>1 DEF CalInv
<1>5. ASSUME NEW d \in Composition, handling'[d].at \in {"limit", "read", "order"}, d \notin met
      PROVE  handling'[d].valve \notin cooling
  <2>1. handling[d].at \in {"limit", "read", "order"} /\ handling'[d].valve = handling[d].valve
    BY <1>3, <1>5 DEF Inside
  <2> QED BY <1>5, <2>1 DEF CalInv
<1> QED BY <1>2, <1>4, <1>5 DEF CalInv

\* What the types say, in the terms of these proofs.
LEMMA CalTyped ==
  CalInv => /\ handling \in [Composition -> Handling] /\ orders \in [Valve -> Seq(Order)]
            /\ \A c \in Composition :
                 /\ handling[c] \in Handling /\ handling[c].valve \in Valve
                 /\ handling[c].adjustment \in -MaxValveAdjustment .. MaxValveAdjustment
                 /\ handling[c].from \in 0 .. 100 /\ handling[c].to \in 0 .. 100
            /\ \A v \in Valve : valveStates[v] \in 0 .. 100
            /\ \A v \in DOMAIN lastAdjustments :
                 lastAdjustments[v] \in -MaxValveAdjustment .. MaxValveAdjustment
<1> SUFFICES ASSUME CalInv
             PROVE  /\ handling \in [Composition -> Handling] /\ orders \in [Valve -> Seq(Order)]
                    /\ \A v \in Valve : valveStates[v] \in 0 .. 100
                    /\ \A v \in DOMAIN lastAdjustments :
                         lastAdjustments[v] \in -MaxValveAdjustment .. MaxValveAdjustment
  BY DEF Handling
<1> QED BY DEF CalInv, CalTypeOK, Handling, Places, Order

\* A message that is dismissed or regulated.
LEMMA BeginKeeps ==
  ASSUME CalInv, NEW c \in Composition, Dismiss(c) \/ \E w \in Wobbe : Regulate(c, w)
  PROVE  CalInv'
<1>1. UNCHANGED <<regulating, valveStates, cooling, lastAdjustments, met>> /\ orders' = orders
  BY DEF Dismiss, Regulate
<1>2. handling \in [Composition -> Handling] /\ handling[c] \in Handling /\ orders \in [Valve -> Seq(Order)]
  BY CalTyped
<1>3. CASE handling' = [handling EXCEPT ![c].at = "done"]
  <2> DEFINE h == [handling[c] EXCEPT !.at = "done"]
  <2>1. h \in Handling /\ h.at = "done" /\ handling' = [handling EXCEPT ![c] = h]
    BY <1>2, <1>3 DEF Handling, Places
  <2> HIDE DEF h
  <2> QED BY <1>1, <1>2, <2>1, MovesOn DEF Inside
<1>4. ASSUME NEW w \in Wobbe, NEW pid \in PIDAdjustment,
             LET adjustment == Between(-MaxValveAdjustment, MaxValveAdjustment, pid)
             IN handling' =
                  [handling EXCEPT
                     ![c].at = IF Magnitude(pid) < LeastAdjustment THEN "done" ELSE "check",
                     ![c].valve = SelectSourceValve(w, adjustment),
                     ![c].adjustment = adjustment]
      PROVE  CalInv'
  <2> DEFINE adjustment == Between(-MaxValveAdjustment, MaxValveAdjustment, pid)
             valve == SelectSourceValve(w, adjustment)
             place == IF Magnitude(pid) < LeastAdjustment THEN "done" ELSE "check"
             h == [handling[c] EXCEPT !.at = place, !.valve = valve, !.adjustment = adjustment]
  <2>1. adjustment \in -MaxValveAdjustment .. MaxValveAdjustment
    <3>1. pid \in Int
      BY CalorificNumbers DEF PIDAdjustment
    <3>2. /\ -MaxValveAdjustment \in Int /\ MaxValveAdjustment \in Int
          /\ -MaxValveAdjustment <= MaxValveAdjustment
      BY Numbers
    <3> QED BY <3>1, <3>2, Clamped
  <2>2. valve \in Valve
    BY Numbers DEF SelectSourceValve
  <2>3. place \in {"done", "check"}
    OBVIOUS
  <2>4. handling' = [handling EXCEPT ![c] = h]
    BY <1>2, <1>4
  <2> HIDE DEF adjustment, valve, place
  <2>5. h \in Handling /\ h.at \in {"done", "check"}
    BY <1>2, <2>1, <2>2, <2>3 DEF Handling, Places
  <2> HIDE DEF h
  <2> QED BY <1>1, <1>2, <2>4, <2>5, MovesOn DEF Inside
<1> QED BY <1>3, <1>4 DEF Dismiss, Regulate

\* The check of the cooldown: who passes it meets those that are inside.
LEMMA CheckKeeps == ASSUME CalInv, NEW c \in Composition, CheckCooldown(c) PROVE CalInv'
<1> DEFINE v == handling[c].valve
<1>1. /\ UNCHANGED <<regulating, valveStates, cooling, lastAdjustments>> /\ orders' = orders
      /\ handling[c].at = "check"
  BY DEF CheckCooldown
<1>2. handling \in [Composition -> Handling] /\ handling[c] \in Handling /\ orders \in [Valve -> Seq(Order)]
  BY CalTyped
<1>3. CASE v \in cooling
  <2> DEFINE h == [handling[c] EXCEPT !.at = "done"]
  <2>1. handling' = [handling EXCEPT ![c] = h] /\ met' = met
    BY <1>2, <1>3 DEF CheckCooldown, CanControl
  <2>2. h \in Handling /\ h.at = "done"
    BY <1>2 DEF Handling, Places
  <2> HIDE DEF h
  <2> QED BY <1>1, <1>2, <2>1, <2>2, MovesOn DEF Inside
<1>4. CASE v \notin cooling
  <2> DEFINE h == [handling[c] EXCEPT !.at = "limit"]
  <2>1. /\ handling' = [handling EXCEPT ![c] = h]
        /\ met' = IF InSection(v) = {} THEN met ELSE met \cup InSection(v) \cup {c}
    BY <1>2, <1>4 DEF CheckCooldown, CanControl
  <2>2. h \in Handling /\ h.at = "limit" /\ h.valve = v
    BY <1>2 DEF Handling, Places
  <2> HIDE DEF h, v
  <2>3. \A d \in Composition : handling'[d] = IF d = c THEN h ELSE handling[d]
    BY <1>2, <2>1
  <2>4. InSection(v) = {d \in Composition : handling[d].valve = v /\ handling[d].at \in Inside}
    BY DEF InSection, Inside
  <2>5. c \notin InSection(v)
    BY <1>1, <2>4 DEF Inside
  <2>6. ASSUME NEW d \in Composition, NEW e \in Composition, d # e,
               handling'[d].valve = handling'[e].valve,
               handling'[d].at \in Inside, handling'[e].at \in Inside
        PROVE  d \in met'
    <3>1. CASE d # c /\ e # c
      <4>1. d \in met
        BY <2>3, <2>6, <3>1 DEF CalInv
      <4> QED BY <2>1, <4>1
    <3>2. CASE d = c
      <4>1. e \in InSection(v)
        BY <2>2, <2>3, <2>4, <2>6, <3>2
      <4> QED BY <2>1, <3>2, <4>1
    <3>3. CASE e = c
      <4>1. d \in InSection(v)
        BY <2>2, <2>3, <2>4, <2>6, <3>3
      <4> QED BY <2>1, <4>1
    <3> QED BY <3>1, <3>2, <3>3
  <2>7. ASSUME NEW d \in Composition, handling'[d].at \in {"limit", "read", "order"}, d \notin met'
        PROVE  handling'[d].valve \notin cooling
    <3>1. CASE d = c
      BY <1>4, <2>2, <2>3, <3>1
    <3>2. CASE d # c
      <4>1. d \notin met
        BY <2>1, <2>7
      <4> QED BY <2>3, <2>7, <3>2, <4>1 DEF CalInv
    <3> QED BY <3>1, <3>2
  <2>8. met' \subseteq Composition
    BY <2>1, <2>4 DEF CalInv, CalTypeOK
  <2>9. handling' \in [Composition -> Handling]
    BY <1>2, <2>1, <2>2
  <2>10. CalTypeOK'
    BY <1>1, <2>8, <2>9 DEF CalInv, CalTypeOK, Handling, Places
  <2> QED BY <1>1, <2>6, <2>7, <2>10 DEF CalInv
<1> QED BY <1>3, <1>4

\* The steps that only read what is shared, or add an order.
LEMMA InsideKeeps ==
  ASSUME CalInv, NEW c \in Composition,
         LimitRateOfChange(c) \/ ReadOpening(c) \/ ExecuteValveControl(c)
  PROVE  CalInv'
<1>1. UNCHANGED <<regulating, valveStates, cooling, lastAdjustments, met>>
  BY DEF LimitRateOfChange, ReadOpening, ExecuteValveControl
<1>2. handling \in [Composition -> Handling] /\ handling[c] \in Handling /\ orders \in [Valve -> Seq(Order)]
  BY CalTyped
<1>3. CASE LimitRateOfChange(c)
  <2> DEFINE v == handling[c].valve
             limited == IF v \in DOMAIN lastAdjustments
                          THEN Between(lastAdjustments[v] - MaxChange,
                                       lastAdjustments[v] + MaxChange, handling[c].adjustment)
                          ELSE handling[c].adjustment
             h == [handling[c] EXCEPT !.at = "read", !.adjustment = limited]
  <2>1. limited \in -MaxValveAdjustment .. MaxValveAdjustment
    BY Numbers, CalTyped DEF Between
  <2>2. handling' = [handling EXCEPT ![c] = h] /\ orders' = orders /\ handling[c].at = "limit"
    BY <1>2, <1>3 DEF LimitRateOfChange
  <2> HIDE DEF limited
  <2>3. h \in Handling /\ h.at = "read" /\ h.valve = handling[c].valve
    BY <1>2, <2>1 DEF Handling, Places
  <2> HIDE DEF h
  <2> QED BY <1>1, <1>2, <2>2, <2>3, MovesOn DEF Inside
<1>4. CASE ReadOpening(c)
  <2> DEFINE opening == valveStates[handling[c].valve]
             target == TargetOpening(opening, handling[c].adjustment)
             place == IF target = opening THEN "done" ELSE "order"
             h == [handling[c] EXCEPT !.at = place, !.from = opening, !.to = target]
  <2>1. opening \in 0 .. 100
    BY CalTyped
  <2>2. target \in 0 .. 100
    <3>1. handling[c].adjustment \in Int
      BY CalTyped, Numbers
    <3> HIDE DEF opening
    <3>2. opening \in Int
      BY <2>1
    <3> QED BY <3>1, <3>2, OpeningTyped
  <2>3. handling' = [handling EXCEPT ![c] = h] /\ orders' = orders /\ handling[c].at = "read"
    BY <1>2, <1>4 DEF ReadOpening
  <2>4. place \in {"done", "order"}
    OBVIOUS
  <2> HIDE DEF opening, target, place
  <2>5. h \in Handling /\ h.at \in {"done", "order"} /\ h.valve = handling[c].valve
    BY <1>2, <2>1, <2>2, <2>4 DEF Handling, Places
  <2> HIDE DEF h
  <2> QED BY <1>1, <1>2, <2>3, <2>5, MovesOn DEF Inside
<1>5. CASE ExecuteValveControl(c)
  <2> DEFINE h == [handling[c] EXCEPT !.at = "record"]
             v == handling[c].valve
             o == [from |-> handling[c].from, to |-> handling[c].to, by |-> c]
  <2>1. /\ handling' = [handling EXCEPT ![c] = h] /\ handling[c].at = "order"
        /\ orders' = [orders EXCEPT ![v] = Append(@, o)]
    BY <1>2, <1>5 DEF ExecuteValveControl
  <2>2. o \in Order /\ v \in Valve
    BY CalTyped DEF Order
  <2>3. h \in Handling /\ h.at = "record" /\ h.valve = v
    BY <1>2 DEF Handling, Places
  <2> HIDE DEF h, o
  <2>4. orders' \in [Valve -> Seq(Order)]
    <3>1. Append(orders[v], o) \in Seq(Order)
      BY <1>2, <2>2
    <3> QED BY <1>2, <2>1, <2>2, <3>1
  <2> QED BY <1>1, <2>1, <2>3, <2>4, MovesOn DEF Inside
<1> QED BY <1>3, <1>4, <1>5

\* The valve begins to cool down; whoever is inside by then has met this one.
LEMMA RecordKeeps == ASSUME CalInv, NEW c \in Composition, RecordControl(c) PROVE CalInv'
<1> DEFINE v == handling[c].valve
           h == [handling[c] EXCEPT !.at = "done"]
<1>1. /\ UNCHANGED <<regulating, orders, met>> /\ handling[c].at = "record"
      /\ cooling' = cooling \cup {v}
      /\ valveStates' = [valveStates EXCEPT ![v] = handling[c].to]
      /\ lastAdjustments' = [u \in DOMAIN lastAdjustments \cup {v} |->
                               IF u = v THEN handling[c].adjustment ELSE lastAdjustments[u]]
  BY DEF RecordControl
<1>2. handling \in [Composition -> Handling] /\ handling[c] \in Handling
  BY CalTyped
<1>3. handling' = [handling EXCEPT ![c] = h]
  BY <1>2 DEF RecordControl
<1>4. h \in Handling /\ h.at = "done"
  BY <1>2 DEF Handling, Places
<1>5. /\ v \in Valve /\ handling[c].to \in 0 .. 100
      /\ handling[c].adjustment \in -MaxValveAdjustment .. MaxValveAdjustment
  BY CalTyped
<1> HIDE DEF h, v
<1>6. \A d \in Composition : handling'[d] = IF d = c THEN h ELSE handling[d]
  BY <1>2, <1>3
<1>7. CalTypeOK'
  <2>1. handling' \in [Composition -> Handling]
    BY <1>2, <1>3, <1>4
  <2>2. valveStates' \in [Valve -> 0 .. 100] /\ cooling' \subseteq Valve
    BY <1>1, <1>5 DEF CalInv, CalTypeOK
  <2>3. /\ DOMAIN lastAdjustments' \subseteq Valve
        /\ \A u \in DOMAIN lastAdjustments' :
             lastAdjustments'[u] \in -MaxValveAdjustment .. MaxValveAdjustment
    BY <1>1, <1>5 DEF CalInv, CalTypeOK
  <2> QED BY <1>1, <2>1, <2>2, <2>3 DEF CalInv, CalTypeOK, Handling, Places
<1>8. ASSUME NEW d \in Composition, NEW e \in Composition, d # e,
             handling'[d].valve = handling'[e].valve,
             handling'[d].at \in Inside, handling'[e].at \in Inside
      PROVE  d \in met
  <2>1. d # c /\ e # c
    BY <1>4, <1>6, <1>8 DEF Inside
  <2> QED BY <1>6, <1>8, <2>1 DEF CalInv
<1>9. ASSUME NEW d \in Composition, handling'[d].at \in {"limit", "read", "order"}, d \notin met
      PROVE  handling'[d].valve \notin cooling \cup {v}
  <2>1. d # c /\ handling'[d] = handling[d]
    BY <1>4, <1>6, <1>9
  <2>2. handling[d].valve \notin cooling
    BY <1>9, <2>1 DEF CalInv
  <2>3. handling[d].valve # v
    <3>1. handling[d].at \in Inside /\ handling[c].at \in Inside
      BY <1>1, <1>9, <2>1 DEF Inside
    <3> QED BY <1>9, <2>1, <3>1 DEF CalInv, v
  <2> QED BY <2>1, <2>2, <2>3
<1> QED BY <1>1, <1>7, <1>8, <1>9 DEF CalInv

\* The steps of the controller inside the composition.
CalNext ==
  \/ \E c \in Composition : Dismiss(c) \/ \E w \in Wobbe : Regulate(c, w)
  \/ CalStep
  \/ UNCHANGED calVars

\* Every step of the controller keeps the invariant.
LEMMA CalNextKeeps == CalInv /\ CalNext => CalInv'
<1> SUFFICES ASSUME CalInv, CalNext PROVE CalInv'
  OBVIOUS
<1>1. CASE \E c \in Composition : AdjustValves(c)
  BY <1>1, CheckKeeps, InsideKeeps, RecordKeeps DEF AdjustValves
<1>2. ASSUME NEW v \in Valve, CoolOff(v) PROVE CalInv'
  <2>1. /\ cooling' = cooling \ {v}
        /\ UNCHANGED <<regulating, handling, valveStates, lastAdjustments, orders, met>>
    BY <1>2 DEF CoolOff
  <2>2. CalTypeOK'
    BY <2>1 DEF CalInv, CalTypeOK
  <2> QED BY <2>1, <2>2 DEF CalInv
<1>3. CASE StopRegulating \/ UNCHANGED calVars
  <2>1. /\ regulating' \in BOOLEAN
        /\ UNCHANGED <<handling, valveStates, cooling, lastAdjustments, orders, met>>
    BY <1>3 DEF StopRegulating, calVars, CalInv, CalTypeOK
  <2>2. CalTypeOK'
    BY <2>1 DEF CalInv, CalTypeOK
  <2> QED BY <2>1, <2>2 DEF CalInv
<1> QED BY <1>1, <1>2, <1>3, BeginKeeps DEF CalNext, CalStep

\* The other monitors leave the controller alone.
LEMMA NextIsCalNext == [Next]_vars => CalNext
<1> SUFFICES ASSUME [Next]_vars PROVE CalNext
  OBVIOUS
<1>1. CASE Calorific \/ \E c \in Composition : HandleComposition(c)
  BY <1>1 DEF Calorific, HandleComposition, CalNext
<1>2. CASE \/ Structural \/ \E s \in Sample : HandleFiberData(s)
           \/ Corroding
           \/ \E i \in Inspection : AddCorrosionInspection(i) \/ SimulateInspection(i)
           \/ UNCHANGED vars
  BY <1>2 DEF Structural, HandleFiberData, Corroding, AddCorrosionInspection,
              SimulateInspection, vars, CalNext
<1> QED BY <1>1, <1>2 DEF Next

-------------------------------------------------------------------------------
(* Theorems *)

\* The inductive invariant: the types of the controller's state, and who has
\* met whom between the cooldown check and the record.
THEOREM CalInvariant == Spec => []CalInv
<1>1. CalInv /\ [Next]_vars => CalInv'
  BY NextIsCalNext, CalNextKeeps
<1> QED BY <1>1, InitCal, PTL DEF Spec

\* Only ExecuteValveControl orders, and it comes after the cooldown check in
\* a critical section of its own.
LEMMA OrderIsAllowed ==
  ASSUME CalInv, CalNext, NEW v \in cooling, orders'[v] # orders[v]
  PROVE  orders'[v][Len(orders'[v])].by \in met
<1>1. PICK c \in Composition : ExecuteValveControl(c)
  BY DEF CalNext, CalStep, AdjustValves, Dismiss, Regulate, CheckCooldown, LimitRateOfChange,
         ReadOpening, RecordControl, CoolOff, StopRegulating, calVars
<1> DEFINE u == handling[c].valve
           o == [from |-> handling[c].from, to |-> handling[c].to, by |-> c]
<1>2. orders' = [orders EXCEPT ![u] = Append(@, o)] /\ handling[c].at = "order"
  BY <1>1 DEF ExecuteValveControl
<1>3. u \notin cooling \/ c \in met
  BY <1>2 DEF CalInv
<1>4. u \in Valve /\ o \in Order /\ o.by = c /\ orders \in [Valve -> Seq(Order)]
  BY CalTyped DEF Order
<1>5. v \in Valve
  BY DEF CalInv, CalTypeOK
<1> HIDE DEF o, u
<1>6. v = u
  BY <1>2, <1>4, <1>5
<1>7. orders'[v] = Append(orders[v], o) /\ orders[v] \in Seq(Order)
  BY <1>2, <1>4, <1>6
<1>8. orders'[v][Len(orders'[v])] = o
  BY <1>4, <1>7
<1> QED BY <1>3, <1>4, <1>6, <1>8

\* adjustValves checks the cooldown in one critical section and starts it in
\* another one, after the order: a valve that is cooling down is ordered only
\* by a handling that another one of that valve met on the way.
THEOREM CooldownIsKept == Spec => CooldownHolds
<1> DEFINE Allowed ==
      \A v \in cooling :
        orders'[v] # orders[v] => orders'[v][Len(orders'[v])].by \in met
<1>1. CalInv /\ [Next]_vars => [Allowed]_calVars
  BY NextIsCalNext, OrderIsAllowed
<1> QED BY <1>1, CalInvariant, PTL DEF Spec, CooldownHolds

-------------------------------------------------------------------------------
(* The orders of a valve form a chain *)

\* A handling about to order holds the opening it read and one within reach,
\* and one about to record has made the last order of its valve.
InStep(c) ==
  LET v == handling[c].valve
  IN /\ handling[c].at = "order" =>
          /\ Magnitude(handling[c].to - handling[c].from) <= MaxValveAdjustment
          /\ c \notin met => handling[c].from = valveStates[v]
     /\ handling[c].at = "record" /\ Undisturbed(v) =>
          /\ orders[v] # <<>>
          /\ LastOrder(v) = [from |-> handling[c].from, to |-> handling[c].to, by |-> c]

\* What OrdersChain says of a valve.
Chained(v) ==
  Undisturbed(v) =>
    /\ \A i \in DOMAIN orders[v] :
         /\ orders[v][i].from = IF i = 1 THEN StartOpening[v] ELSE orders[v][i - 1].to
         /\ Magnitude(orders[v][i].to - orders[v][i].from) <= MaxValveAdjustment
    /\ orders[v] # <<>> =>
         valveStates[v] = IF handling[LastOrder(v).by].at = "record"
                          THEN LastOrder(v).from ELSE LastOrder(v).to

\* Who ordered a valve is past its order for good.
Ordered(v) ==
  /\ orders[v] = <<>> => valveStates[v] = StartOpening[v]
  /\ \A i \in DOMAIN orders[v] :
       LET by == orders[v][i].by
       IN by \in Composition /\ handling[by].valve = v /\ handling[by].at \in {"record", "done"}

ChainInv ==
  /\ \A v \in Valve : Chained(v) /\ Ordered(v)
  /\ \A c \in Composition : InStep(c)

\* The target is within reach of the opening.
LEMMA TargetInReach ==
  ASSUME NEW opening \in 0 .. 100, NEW adjustment \in -MaxValveAdjustment .. MaxValveAdjustment
  PROVE  Magnitude(TargetOpening(opening, adjustment) - opening) <= MaxValveAdjustment
BY Numbers DEF TargetOpening, Between, Magnitude

\* The sequences of orders.
LEMMA OrdersTyped ==
  ASSUME CalInv, NEW v \in Valve
  PROVE  /\ orders[v] \in Seq(Order) /\ Len(orders[v]) \in Nat
         /\ DOMAIN orders[v] = 1 .. Len(orders[v])
         /\ orders[v] # <<>> => Len(orders[v]) \in DOMAIN orders[v]
<1>1. orders[v] \in Seq(Order)
  BY CalTyped
<1> QED BY <1>1

\* Nothing is ordered yet.
LEMMA InitChain == Init => ChainInv
BY DEF Init, CalInit, Idle, ChainInv, Chained, Ordered, InStep, Undisturbed

\* A handling that has not ordered yet moves on.
LEMMA EarlyChains ==
  ASSUME CalInv, ChainInv, NEW c \in Composition, NEW h \in Handling,
         handling' = [handling EXCEPT ![c] = h],
         handling[c].at \notin {"record", "done"}, h.at # "record",
         h.at = "order" => /\ Magnitude(h.to - h.from) <= MaxValveAdjustment
                           /\ h.from = valveStates[h.valve],
         met \subseteq met', UNCHANGED <<valveStates, orders>>
  PROVE  ChainInv'
<1>1. \A d \in Composition : handling'[d] = IF d = c THEN h ELSE handling[d]
  BY CalTyped
<1>2. ASSUME NEW v \in Valve PROVE Chained(v)' /\ Ordered(v)'
  <2>1. Undisturbed(v)' => Undisturbed(v)
    BY DEF Undisturbed
  <2>2. \A i \in DOMAIN orders[v] :
          LET by == orders[v][i].by IN by \in Composition /\ handling'[by] = handling[by]
    BY <1>1 DEF ChainInv, Ordered
  <2>3. orders[v] # <<>> => handling'[LastOrder(v).by] = handling[LastOrder(v).by]
    BY <2>2, OrdersTyped DEF LastOrder
  <2>4. Chained(v) /\ Ordered(v)
    BY DEF ChainInv
  <2>5. Chained(v)'
    BY <2>1, <2>3, <2>4 DEF Chained, LastOrder
  <2>6. Ordered(v)'
    BY <2>2, <2>4 DEF Ordered
  <2> QED BY <2>5, <2>6
<1>3. ASSUME NEW d \in Composition PROVE InStep(d)'
  <2>1. PICK v : v = handling[d].valve
    OBVIOUS
  <2>2. CASE d = c
    BY <1>1, <2>2 DEF InStep
  <2>3. CASE d # c
    <3>1. handling'[d] = handling[d] /\ InStep(d)
      BY <1>1, <2>3 DEF ChainInv
    <3>2. Undisturbed(v)' => Undisturbed(v)
      BY DEF Undisturbed
    <3> QED BY <2>1, <3>1, <3>2 DEF InStep, LastOrder, Undisturbed
  <2> QED BY <2>2, <2>3
<1> QED BY <1>2, <1>3 DEF ChainInv

\* executeValveControl: the order follows from the one before it, or the
\* handling met another one.
LEMMA OrderChains ==
  ASSUME CalInv, ChainInv, NEW c \in Composition, ExecuteValveControl(c)
  PROVE  ChainInv'
<1>0. PICK v \in Valve : v = handling[c].valve
  BY CalTyped
<1>15. PICK n : n = Len(orders[v])
  OBVIOUS
<1>16. PICK h : h = [handling[c] EXCEPT !.at = "record"]
  OBVIOUS
<1>17. PICK o : o = [from |-> handling[c].from, to |-> handling[c].to, by |-> c]
  OBVIOUS
<1>1. /\ handling[c].at = "order" /\ orders' = [orders EXCEPT ![v] = Append(@, o)]
      /\ handling' = [handling EXCEPT ![c] = h] /\ UNCHANGED <<valveStates, met>>
  BY <1>0, <1>16, <1>17, CalTyped DEF ExecuteValveControl
<1>2. /\ v \in Valve /\ o \in Order /\ orders[v] \in Seq(Order) /\ n \in Nat
      /\ orders \in [Valve -> Seq(Order)]
  <2>1. o \in Order
    BY <1>17, CalTyped DEF Order
  <2> QED BY <1>0, <1>15, <2>1, OrdersTyped, CalTyped
<1>18. met' = met /\ valveStates' = valveStates
  BY <1>1
<1>3. /\ h.at = "record" /\ h.valve = v /\ o = [from |-> h.from, to |-> h.to, by |-> c]
      /\ o.by = c /\ o.from = handling[c].from /\ o.to = handling[c].to
  BY <1>0, <1>16, <1>17, CalTyped DEF Handling
<1>4. \A d \in Composition : handling'[d] = IF d = c THEN h ELSE handling[d]
  BY <1>1, CalTyped
<1>5. \A d \in Composition :
        handling[d].valve = v /\ handling[d].at = "record" => c \in met
  BY <1>0, <1>1 DEF CalInv, Inside
<1>6. InStep(c) /\ Chained(v) /\ Ordered(v)
  BY <1>2 DEF ChainInv
<1>7. /\ orders'[v] = Append(orders[v], o)
      /\ \A u \in Valve : u # v => orders'[u] = orders[u]
  BY <1>1, <1>2
<1>8. /\ DOMAIN orders'[v] = 1 .. n + 1 /\ Len(orders'[v]) = n + 1
      /\ orders'[v][n + 1] = o /\ orders'[v] # <<>>
      /\ \A i \in 1 .. n : orders'[v][i] = orders[v][i] /\ i \in DOMAIN orders[v]
  BY <1>2, <1>7, <1>15
<1>9. Undisturbed(v)' => c \notin met /\ Undisturbed(v)
  BY <1>1, <1>2, <1>3, <1>8 DEF Undisturbed
<1>10. ASSUME NEW u \in Valve, u # v PROVE Chained(u)' /\ Ordered(u)'
  <2>1. orders'[u] = orders[u] /\ Chained(u) /\ Ordered(u)
    BY <1>7, <1>10 DEF ChainInv
  <2>2. \A i \in DOMAIN orders[u] :
          LET by == orders[u][i].by IN by \in Composition /\ handling'[by] = handling[by]
    BY <1>1, <1>4, <2>1 DEF Ordered
  <2>3. orders[u] # <<>> => handling'[LastOrder(u).by] = handling[LastOrder(u).by]
    BY <2>2, OrdersTyped DEF LastOrder
  <2>4. Undisturbed(u)' <=> Undisturbed(u)
    BY <1>18, <2>1 DEF Undisturbed
  <2>5. Chained(u)'
    BY <1>1, <2>1, <2>3, <2>4 DEF Chained, LastOrder
  <2>6. Ordered(u)'
    BY <1>1, <2>1, <2>2, ZenonT(40) DEF Ordered
  <2> QED BY <2>5, <2>6
<1>11. Ordered(v)'
  <2>1. ASSUME NEW i \in 1 .. n + 1
        PROVE  LET by == orders'[v][i].by
               IN /\ by \in Composition /\ handling'[by].valve = v
                  /\ handling'[by].at \in {"record", "done"}
    <3>1. CASE i = n + 1
      BY <1>3, <1>4, <1>8, <3>1
    <3>2. CASE i \in 1 .. n
      BY <1>3, <1>4, <1>6, <1>8, <3>2 DEF Ordered
    <3> QED BY <1>2, <2>1, <3>1, <3>2
  <2> QED BY <1>8, <2>1 DEF Ordered
<1>12. ASSUME Undisturbed(v)'
       PROVE  o.from = IF n = 0 THEN StartOpening[v] ELSE orders[v][n].to
  <2>1. c \notin met /\ Undisturbed(v) /\ o.from = valveStates[v]
    <3>1. c \notin met /\ Undisturbed(v)
      BY <1>9, <1>12
    <3>2. handling[c].from = valveStates[v]
      BY <1>0, <1>1, <1>6, <3>1 DEF InStep
    <3> QED BY <1>3, <3>1, <3>2
  <2>2. CASE n = 0
    <3>1. orders[v] = <<>>
      <4>1. orders[v] # <<>> => Len(orders[v]) \in 1 .. Len(orders[v])
        BY <1>2, OrdersTyped
      <4>2. Len(orders[v]) = 0
        BY <1>15, <2>2
      <4> QED BY <4>1, <4>2
    <3> QED BY <1>6, <2>1, <2>2, <3>1 DEF Ordered
  <2>3. CASE n # 0
    <3>1. orders[v] # <<>> /\ n \in DOMAIN orders[v]
      BY <1>2, <1>15, <2>3
    <3>2. handling[orders[v][n].by].at # "record"
      BY <1>5, <1>6, <2>1, <3>1 DEF Ordered
    <3> QED BY <1>6, <1>15, <2>1, <2>3, <3>1, <3>2 DEF Chained, LastOrder
  <2> QED BY <2>2, <2>3
<1>13. Chained(v)'
  <2> SUFFICES ASSUME Undisturbed(v)' PROVE Chained(v)'
    BY DEF Chained
  <2>1. Undisturbed(v)
    BY <1>9
  <2>2. ASSUME NEW i \in 1 .. n + 1
        PROVE  /\ orders'[v][i].from = IF i = 1 THEN StartOpening[v] ELSE orders'[v][i - 1].to
               /\ Magnitude(orders'[v][i].to - orders'[v][i].from) <= MaxValveAdjustment
    <3>1. CASE i = n + 1
      <4>1. orders'[v][i] = o /\ (n # 0 => orders'[v][i - 1] = orders[v][n])
        BY <1>2, <1>8, <3>1
      <4>2. Magnitude(o.to - o.from) <= MaxValveAdjustment
        BY <1>1, <1>3, <1>6 DEF InStep
      <4> QED BY <1>2, <1>12, <3>1, <4>1, <4>2
    <3>2. CASE i \in 1 .. n
      <4>1. orders'[v][i] = orders[v][i] /\ (i # 1 => orders'[v][i - 1] = orders[v][i - 1])
        BY <1>2, <1>8, <3>2
      <4>2. i \in DOMAIN orders[v]
        BY <1>8, <3>2
      <4> QED BY <1>6, <2>1, <4>1, <4>2 DEF Chained
    <3> QED BY <1>2, <2>2, <3>1, <3>2
  <2>3. valveStates'[v] = o.from
    <3>1. c \notin met
      BY <1>9
    <3>2. handling[c].from = valveStates[v]
      BY <1>0, <1>1, <1>6, <3>1 DEF InStep
    <3> QED BY <1>3, <1>18, <3>2
  <2>4. orders'[v][Len(orders'[v])] = o /\ handling'[o.by].at = "record"
    BY <1>3, <1>4, <1>8
  <2> QED BY <1>8, <2>2, <2>3, <2>4 DEF Chained, LastOrder
<1>14. ASSUME NEW d \in Composition PROVE InStep(d)'
  <2>1. CASE d = c
    BY <1>3, <1>4, <1>8, <2>1 DEF InStep, LastOrder
  <2>2. CASE d # c
    <3>1. handling'[d] = handling[d] /\ InStep(d) /\ handling[d].valve \in Valve
      BY <1>4, <2>2, CalTyped DEF ChainInv
    <3>2. CASE handling[d].valve = v
      <4>1. Undisturbed(v)' => handling[d].at # "record"
        BY <1>5, <1>9, <3>2
      <4> QED BY <1>1, <3>1, <3>2, <4>1 DEF InStep, Undisturbed
    <3>3. CASE handling[d].valve # v
      <4>1. PICK u : u = handling[d].valve
        OBVIOUS
      <4>2. orders'[u] = orders[u] /\ handling'[d].valve = u
        BY <1>7, <3>1, <3>3, <4>1
      <4> QED BY <1>18, <3>1, <4>1, <4>2 DEF InStep, LastOrder, Undisturbed
    <3> QED BY <3>2, <3>3
  <2> QED BY <2>1, <2>2
<1> QED BY <1>10, <1>11, <1>13, <1>14 DEF ChainInv

\* The opening of the last order is remembered.
LEMMA RecordChains ==
  ASSUME CalInv, ChainInv, NEW c \in Composition, RecordControl(c)
  PROVE  ChainInv'
<1>11. PICK v \in Valve : v = handling[c].valve
  BY CalTyped
<1>12. PICK h : h = [handling[c] EXCEPT !.at = "done"]
  OBVIOUS
<1>1. /\ handling[c].at = "record" /\ UNCHANGED <<orders, met>>
      /\ valveStates' = [valveStates EXCEPT ![v] = handling[c].to]
      /\ handling' = [handling EXCEPT ![c] = h]
  BY <1>11, <1>12, CalTyped DEF RecordControl
<1>2. v \in Valve /\ h.at = "done" /\ h.valve = v
  BY <1>11, <1>12, CalTyped DEF Handling
<1>3. \A d \in Composition : handling'[d] = IF d = c THEN h ELSE handling[d]
  BY <1>1, CalTyped
<1>4. \A u \in Valve : valveStates'[u] = IF u = v THEN handling[c].to ELSE valveStates[u]
  BY <1>1 DEF CalInv, CalTypeOK
<1>5. InStep(c) /\ (\A u \in Valve : Chained(u) /\ Ordered(u))
  BY DEF ChainInv
<1>6. \A u \in Valve : Undisturbed(u)' <=> Undisturbed(u)
  BY <1>1 DEF Undisturbed
<1>7. ASSUME NEW u \in Valve PROVE Ordered(u)'
  <2>1. \A i \in DOMAIN orders[u] :
          LET by == orders[u][i].by
          IN by \in Composition /\ handling'[by].valve = u /\ handling'[by].at \in {"record", "done"}
    <3> SUFFICES ASSUME NEW i \in DOMAIN orders[u]
                 PROVE  LET by == orders[u][i].by
                        IN /\ by \in Composition /\ handling'[by].valve = u
                           /\ handling'[by].at \in {"record", "done"}
      OBVIOUS
    <3>1. PICK by : by = orders[u][i].by
      OBVIOUS
    <3>2. by \in Composition /\ handling[by].valve = u /\ handling[by].at \in {"record", "done"}
      BY <1>5, <3>1 DEF Ordered
    <3> QED BY <1>2, <1>3, <1>11, <3>1, <3>2
  <2>2. orders[u] = <<>> => u # v
    BY <1>1, <1>5, <1>11 DEF InStep, Undisturbed
  <2> QED BY <1>1, <1>4, <1>5, <2>1, <2>2 DEF Ordered
<1>8. ASSUME NEW u \in Valve, u # v PROVE Chained(u)'
  <2>1. orders[u] # <<>> => handling'[LastOrder(u).by] = handling[LastOrder(u).by]
    <3> SUFFICES ASSUME orders[u] # <<>>
                 PROVE  handling'[LastOrder(u).by] = handling[LastOrder(u).by]
      OBVIOUS
    <3>1. Len(orders[u]) \in DOMAIN orders[u]
      BY OrdersTyped
    <3>2. LastOrder(u).by \in Composition /\ handling[LastOrder(u).by].valve = u
      BY <1>5, <3>1 DEF Ordered, LastOrder
    <3> QED BY <1>3, <1>8, <1>11, <3>2
  <2>2. Chained(u) /\ (Undisturbed(u)' <=> Undisturbed(u)) /\ valveStates'[u] = valveStates[u]
    BY <1>4, <1>5, <1>6, <1>8
  <2> QED BY <1>1, <2>1, <2>2 DEF Chained, LastOrder
<1>9. Chained(v)'
  <2> SUFFICES ASSUME Undisturbed(v)' PROVE Chained(v)'
    BY DEF Chained
  <2>1. Chained(v) /\ Undisturbed(v)
    BY <1>2, <1>5, <1>6
  <2>2. LastOrder(v) = [from |-> handling[c].from, to |-> handling[c].to, by |-> c]
    BY <1>1, <1>5, <1>11, <2>1 DEF InStep
  <2>3. valveStates'[v] = LastOrder(v).to /\ handling'[LastOrder(v).by].at = "done"
    BY <1>2, <1>3, <1>4, <2>2
  <2> QED BY <1>1, <2>1, <2>3 DEF Chained, LastOrder
<1>10. ASSUME NEW d \in Composition PROVE InStep(d)'
  <2>1. CASE d = c
    BY <1>2, <1>3, <2>1 DEF InStep
  <2>2. CASE d # c
    <3>1. handling'[d] = handling[d] /\ InStep(d) /\ handling[d].valve \in Valve
      BY <1>3, <2>2, CalTyped DEF ChainInv
    <3>2. handling[d].at = "order" /\ d \notin met => handling[d].valve # v
      BY <1>1, <1>11, <2>2 DEF CalInv, Inside
    <3>3. handling[d].at = "order" /\ d \notin met =>
            valveStates'[handling[d].valve] = valveStates[handling[d].valve]
      BY <1>4, <3>1, <3>2
    <3> QED BY <1>1, <3>1, <3>3 DEF InStep, LastOrder, Undisturbed
  <2> QED BY <2>1, <2>2
<1> QED BY <1>7, <1>8, <1>9, <1>10 DEF ChainInv

\* Every step of the controller keeps the chain.
LEMMA ChainKeeps == CalInv /\ ChainInv /\ CalNext => ChainInv'
<1> SUFFICES ASSUME CalInv, ChainInv, CalNext PROVE ChainInv'
  OBVIOUS
<1>1. ASSUME UNCHANGED <<handling, valveStates, orders, met>> PROVE ChainInv'
  BY <1>1 DEF ChainInv, Chained, Ordered, InStep, Undisturbed, LastOrder
<1>2. ASSUME NEW c \in Composition, Dismiss(c) PROVE ChainInv'
  <2> DEFINE h == [handling[c] EXCEPT !.at = "done"]
  <2>1. /\ handling' = [handling EXCEPT ![c] = h] /\ handling[c].at = "idle"
        /\ UNCHANGED <<valveStates, orders, met>>
    BY <1>2, CalTyped DEF Dismiss
  <2>2. h \in Handling /\ h.at = "done"
    BY CalTyped, ZenonT(60) DEF Handling, Places
  <2> HIDE DEF h
  <2> QED BY <2>1, <2>2, EarlyChains
<1>3. ASSUME NEW c \in Composition, NEW w \in Wobbe, Regulate(c, w) PROVE ChainInv'
  <2>1. CalInv'
    BY <1>3, BeginKeeps
  <2> DEFINE h == handling'[c]
  <2>2. h \in Handling
    BY <2>1 DEF CalInv, CalTypeOK, Handling, Places
  <2>3. handling[c].at = "idle" /\ h.at \in {"done", "check"} /\ UNCHANGED <<valveStates, orders, met>>
    <3>1. handling[c] \in Handling /\ c \in DOMAIN handling
      BY CalTyped
    <3>2. CASE handling' = [handling EXCEPT ![c].at = "done"]
      BY <1>3, <3>1, <3>2 DEF Regulate, Handling
    <3>3. CASE \E place \in {"done", "check"} : \E valve, adjustment :
                 handling' = [handling EXCEPT ![c].at = place, ![c].valve = valve,
                                              ![c].adjustment = adjustment]
      BY <1>3, <3>1, <3>3, ZenonT(40) DEF Regulate, Handling
    <3> QED BY <1>3, <3>2, <3>3 DEF Regulate
  <2>4. handling' = [handling EXCEPT ![c] = h]
    BY <1>3, CalTyped DEF Regulate
  <2> HIDE DEF h
  <2> QED BY <2>2, <2>3, <2>4, EarlyChains
<1>4. ASSUME NEW c \in Composition, CheckCooldown(c) PROVE ChainInv'
  <2> DEFINE h == [handling[c] EXCEPT !.at = IF CanControl(handling[c].valve) THEN "limit" ELSE "done"]
  <2>1. /\ handling' = [handling EXCEPT ![c] = h] /\ handling[c].at = "check"
        /\ met \subseteq met' /\ UNCHANGED <<valveStates, orders>>
    BY <1>4, CalTyped DEF CheckCooldown
  <2>2. h \in Handling /\ h.at \in {"limit", "done"}
    BY CalTyped, ZenonT(60) DEF Handling, Places
  <2> HIDE DEF h
  <2> QED BY <2>1, <2>2, EarlyChains
<1>5. ASSUME NEW c \in Composition, LimitRateOfChange(c) PROVE ChainInv'
  <2>1. CalInv'
    BY <1>5, InsideKeeps
  <2> DEFINE h == handling'[c]
  <2>2. h \in Handling
    BY <2>1 DEF CalInv, CalTypeOK, Handling, Places
  <2>3. handling[c].at = "limit" /\ h.at = "read" /\ UNCHANGED <<valveStates, orders, met>>
    BY <1>5, CalTyped DEF LimitRateOfChange, Handling
  <2>4. handling' = [handling EXCEPT ![c] = h]
    BY <1>5, CalTyped DEF LimitRateOfChange
  <2> HIDE DEF h
  <2> QED BY <2>2, <2>3, <2>4, EarlyChains
<1>6. ASSUME NEW c \in Composition, ReadOpening(c) PROVE ChainInv'
  <2> DEFINE opening == valveStates[handling[c].valve]
             target == TargetOpening(opening, handling[c].adjustment)
             place == IF target = opening THEN "done" ELSE "order"
             h == [handling[c] EXCEPT !.at = place, !.from = opening, !.to = target]
  <2>1. /\ opening \in 0 .. 100 /\ target \in 0 .. 100
        /\ Magnitude(target - opening) <= MaxValveAdjustment
    <3>1. /\ handling[c].adjustment \in -MaxValveAdjustment .. MaxValveAdjustment
          /\ handling[c].adjustment \in Int /\ opening \in 0 .. 100
      BY CalTyped, Numbers
    <3> HIDE DEF opening
    <3>2. opening \in Int
      BY <3>1
    <3> QED BY <3>1, <3>2, OpeningTyped, TargetInReach
  <2>2. /\ handling' = [handling EXCEPT ![c] = h] /\ handling[c].at = "read"
        /\ UNCHANGED <<valveStates, orders, met>>
    BY <1>6, CalTyped DEF ReadOpening
  <2>3. place \in {"done", "order"}
    OBVIOUS
  <2> HIDE DEF target, place
  <2>4. /\ h \in Handling /\ h.at = place /\ h.from = opening /\ h.to = target
        /\ h.valve = handling[c].valve
    BY <2>1, <2>3, CalTyped, ZenonT(40) DEF Handling, Places
  <2>5. h.from = valveStates[h.valve]
    BY <2>4
  <2> HIDE DEF h, opening
  <2> QED BY <2>1, <2>2, <2>3, <2>4, <2>5, EarlyChains
<1>7. CASE \/ \E v \in Valve : CoolOff(v)
           \/ StopRegulating \/ UNCHANGED calVars
  BY <1>1, <1>7 DEF CoolOff, StopRegulating, calVars
<1> QED BY <1>2, <1>3, <1>4, <1>5, <1>6, <1>7, OrderChains, RecordChains
        DEF CalNext, CalStep, AdjustValves

\* adjustValves reads the opening, orders and records in three critical
\* sections; as long as the handlings of a valve met no other one, its orders
\* follow from one another and the opening remembered is the last one.
THEOREM OrdersFollow == Spec => []OrdersChain
<1>1. CalInv /\ ChainInv /\ [Next]_vars => ChainInv'
  BY NextIsCalNext, ChainKeeps
<1>2. ChainInv => OrdersChain
  BY DEF ChainInv, Chained, OrdersChain
<1> QED BY <1>1, <1>2, InitChain, CalInvariant, PTL DEF Spec

-------------------------------------------------------------------------------
(* Corrosion: the inductive invariant *)

CorPlaces == {"idle", "detect", "reset", "store", "rate", "predict", "done"}

Record ==
  [at : CorPlaces, pipe : Pipe, thickness : Int, date : Nat, rate : Nat, predicted : Nat,
   priority : {"none", "low", "medium", "high"}]

\* Places of an inspection whose thickness passed validation.
Accepted == {"detect", "reset", "store", "rate", "predict"}

\* Places of an inspection that was stored; the others are not in a history.
Filed == {"rate", "predict", "done"}

CorTyped ==
  /\ predicting \in BOOLEAN /\ inspecting \in [Inspection -> Record]
  /\ \A i \in Inspection : inspecting[i].at \in Accepted => IsValidThickness(Inspected(i))
  /\ pipeData \in [Pipe -> Seq(Inspection)] /\ filed \in [Pipe -> Seq(Inspection)]
  /\ \A p \in Pipe : Len(pipeData[p]) <= MaxInspections
  /\ resting \subseteq Pipe /\ repairs \subseteq Inspection /\ schedule \subseteq Pipe
  /\ scheduled \subseteq Inspection /\ overtaken \subseteq Inspection

\* What is left of a history after cuts ends with the latest inspection.
EndsAlike(p) ==
  /\ pipeData[p] = <<>> <=> filed[p] = <<>>
  /\ filed[p] # <<>> => Last(pipeData[p]) = Last(filed[p])

FiledThere(p) ==
  \A k \in DOMAIN filed[p] :
    PipeOf(filed[p][k]) = p /\ inspecting[filed[p][k]].at \in Filed

\* An inspection about to be rated that nobody overtook is the last one, and
\* finds the one filed before it in the last place but one.
Rateable(i) ==
  inspecting[i].at = "rate" /\ i \notin overtaken =>
    LET all  == filed[PipeOf(i)]
        kept == pipeData[PipeOf(i)]
    IN /\ all # <<>>
       /\ \A k \in DOMAIN all : all[k] = i <=> k = Len(all)
       /\ Len(all) = 1 => Len(kept) = 1
       /\ Len(all) >= 2 => Len(kept) >= 2 /\ kept[Len(kept) - 1] = all[Len(all) - 1]

\* What RateIsOfNeighbours says of one place of the history.
RatedRight(p, k) ==
  LET i == filed[p][k]
  IN inspecting[i].at \in {"predict", "done"} /\ i \notin overtaken =>
       inspecting[i].rate = IF k = 1 THEN OriginalWallThickness - Inspected(i)
                            ELSE LossPerYear(i, filed[p][k - 1])

CorInv ==
  /\ CorTyped
  /\ \A p \in Pipe : EndsAlike(p) /\ FiledThere(p) /\ \A k \in DOMAIN filed[p] : RatedRight(p, k)
  /\ \A i \in Inspection :
       /\ Rateable(i)
       /\ inspecting[i].at = "reset" => pipeData[PipeOf(i)] # <<>>
  /\ \A p \in schedule : pipeData[p] # <<>>

\* storeInspectionData keeps the latest MaxInspections; what was last becomes
\* the last but one.
LEMMA LatestAppend ==
  ASSUME NEW h \in Seq(Inspection), Len(h) <= MaxInspections, NEW i \in Inspection
  PROVE  LET g == LatestInspections(Append(h, i))
         IN  /\ g \in Seq(Inspection) /\ Len(g) <= MaxInspections /\ g # <<>>
             /\ Last(g) = i
             /\ h # <<>> => Len(g) >= 2 /\ g[Len(g) - 1] = Last(h)
             /\ h = <<>> => Len(g) = 1
BY CorrosionNumbers DEF LatestInspections, Last

\* A cut leaves the latest inspection.
LEMMA BaselineOf ==
  ASSUME NEW h \in Seq(Inspection), h # <<>>
  PROVE  /\ Baseline(h) \in Seq(Inspection) /\ Len(Baseline(h)) = 1 /\ Baseline(h) # <<>>
         /\ Last(Baseline(h)) = Last(h)
BY DEF Baseline, Last

\* The record of an inspection.
LEMMA RecordTyped ==
  ASSUME CorTyped, NEW i \in Inspection
  PROVE  /\ inspecting[i] \in Record /\ inspecting[i].pipe \in Pipe
         /\ inspecting[i].thickness \in Int /\ inspecting[i].date \in Nat
         /\ inspecting[i].rate \in Nat /\ inspecting[i].predicted \in Nat
<1>1. inspecting[i] \in Record
  BY DEF CorTyped
<1> QED BY <1>1 DEF Record

\* What is in a history is an inspection.
LEMMA HistoryTyped ==
  ASSUME CorTyped, NEW p \in Pipe
  PROVE  /\ filed[p] \in Seq(Inspection) /\ Len(filed[p]) \in Nat
         /\ pipeData[p] \in Seq(Inspection) /\ Len(pipeData[p]) \in Nat
         /\ Len(pipeData[p]) <= MaxInspections
         /\ \A k \in DOMAIN filed[p] : filed[p][k] \in Inspection
         /\ filed[p] # <<>> => Last(filed[p]) \in Inspection
         /\ pipeData[p] # <<>> => Last(pipeData[p]) \in Inspection
<1>1. filed[p] \in Seq(Inspection) /\ pipeData[p] \in Seq(Inspection)
  BY DEF CorTyped
<1>2. Len(pipeData[p]) <= MaxInspections
  BY DEF CorTyped
<1> QED BY <1>1, <1>2 DEF Last

\* Nothing is filed, nothing is rated.
LEMMA InitCor == Init => CorInv
<1> SUFFICES ASSUME Init PROVE CorInv
  OBVIOUS
<1>1. PICK q \in Pipe :
        inspecting = [i \in Inspection |->
                        [at |-> "idle", pipe |-> q, thickness |-> 0, date |-> 0, rate |-> 0,
                         predicted |-> 0, priority |-> "none"]]
  <2>1. (CHOOSE p \in Pipe : TRUE) \in Pipe
    BY CorrosionNumbers
  <2> QED BY <2>1 DEF Init, CorInit
<1>2. /\ [at |-> "idle", pipe |-> q, thickness |-> 0, date |-> 0, rate |-> 0, predicted |-> 0,
          priority |-> "none"] \in Record
      /\ \A i \in Inspection : inspecting[i].at = "idle"
  BY <1>1 DEF Record, CorPlaces
<1>3. CorTyped
  <2>1. inspecting \in [Inspection -> Record]
    BY <1>1, <1>2
  <2>2. /\ pipeData \in [Pipe -> Seq(Inspection)] /\ filed \in [Pipe -> Seq(Inspection)]
        /\ \A p \in Pipe : Len(pipeData[p]) <= MaxInspections
    BY CorrosionNumbers DEF Init, CorInit
  <2> QED BY <1>2, <2>1, <2>2 DEF Init, CorInit, CorTyped, Nobody, Accepted
<1> QED BY <1>2, <1>3 DEF CorInv, EndsAlike, FiledThere, Rateable, Init, CorInit

-------------------------------------------------------------------------------
(* The steps of an inspection *)

\* A step of an inspection that is not filed yet, or was rated: the histories
\* stay as they are.
LEMMA RecordMoves ==
  ASSUME CorInv, NEW i \in Inspection, NEW r \in Record,
         inspecting' = [inspecting EXCEPT ![i] = r],
         r.at \in {"detect", "reset", "store", "done"},
         r.at \in Accepted => IsValidThickness(r.thickness),
         r.at = "reset" => pipeData[r.pipe] # <<>>,
         \/ inspecting[i].at \in {"idle", "detect"}
         \/ /\ inspecting[i].at = "predict" /\ r.at = "done"
            /\ r.pipe = inspecting[i].pipe /\ r.thickness = inspecting[i].thickness
            /\ r.date = inspecting[i].date /\ r.rate = inspecting[i].rate,
         predicting' \in BOOLEAN, repairs' \subseteq Inspection, schedule' \subseteq schedule,
         scheduled' \subseteq Inspection,
         UNCHANGED <<pipeData, resting, filed, overtaken>>
  PROVE  CorInv'
<1>1. \A j \in Inspection : inspecting'[j] = IF j = i THEN r ELSE inspecting[j]
  BY DEF CorInv, CorTyped
<1>2. CorTyped'
  <2>1. inspecting' \in [Inspection -> Record]
    BY DEF CorInv, CorTyped
  <2>2. \A j \in Inspection :
          inspecting'[j].at \in Accepted => IsValidThickness(inspecting'[j].thickness)
    BY <1>1 DEF CorInv, CorTyped, Inspected
  <2>3. /\ schedule' \subseteq Pipe /\ resting' \subseteq Pipe /\ overtaken' \subseteq Inspection
        /\ pipeData' \in [Pipe -> Seq(Inspection)] /\ filed' \in [Pipe -> Seq(Inspection)]
        /\ \A p \in Pipe : Len(pipeData'[p]) <= MaxInspections
    BY DEF CorInv, CorTyped
  <2> QED BY <2>1, <2>2, <2>3 DEF CorTyped, Inspected
<1>3. ASSUME NEW p \in Pipe, NEW k \in DOMAIN filed[p], NEW j, j = filed[p][k]
      PROVE  /\ inspecting'[j].pipe = p /\ inspecting'[j].at \in Filed
             /\ inspecting'[j].thickness = inspecting[j].thickness
             /\ inspecting'[j].date = inspecting[j].date
             /\ inspecting'[j].at \in {"predict", "done"} =>
                  /\ inspecting[j].at \in {"predict", "done"}
                  /\ inspecting'[j].rate = inspecting[j].rate
  <2>1. j \in Inspection /\ inspecting[j].pipe = p /\ inspecting[j].at \in Filed
    BY <1>3, HistoryTyped DEF CorInv, FiledThere, PipeOf
  <2>2. CASE j # i
    BY <1>1, <2>1, <2>2
  <2>3. CASE j = i
    BY <1>1, <2>1, <2>3 DEF Filed
  <2> QED BY <2>2, <2>3
<1>4. ASSUME NEW p \in Pipe PROVE EndsAlike(p)' /\ FiledThere(p)'
  <2>1. EndsAlike(p)'
    BY DEF CorInv, EndsAlike
  <2>2. FiledThere(p)'
    BY <1>3 DEF FiledThere, PipeOf
  <2> QED BY <2>1, <2>2
<1>5. ASSUME NEW p \in Pipe, NEW k \in DOMAIN filed[p] PROVE RatedRight(p, k)'
  <2>1. PICK j : j = filed[p][k]
    OBVIOUS
  <2>2. PICK prev : prev = filed[p][k - 1]
    OBVIOUS
  <2>3. RatedRight(p, k)
    BY DEF CorInv
  <2>4. k # 1 => LossPerYear(j, prev)' = LossPerYear(j, prev)
    <3> SUFFICES ASSUME k # 1 PROVE LossPerYear(j, prev)' = LossPerYear(j, prev)
      OBVIOUS
    <3>1. k - 1 \in DOMAIN filed[p]
      BY HistoryTyped DEF CorInv
    <3>2. /\ inspecting'[j].date = inspecting[j].date
          /\ inspecting'[j].thickness = inspecting[j].thickness
          /\ inspecting'[prev].date = inspecting[prev].date
          /\ inspecting'[prev].thickness = inspecting[prev].thickness
      BY <1>3, <2>1, <2>2, <3>1
    <3> QED BY <3>2 DEF LossPerYear, Inspected
  <2> QED BY <1>3, <2>1, <2>2, <2>3, <2>4 DEF RatedRight, Inspected
<1>6. ASSUME NEW j \in Inspection
      PROVE  Rateable(j)' /\ (inspecting'[j].at = "reset" => pipeData'[inspecting'[j].pipe] # <<>>)
  <2>1. PICK p : p = inspecting[j].pipe
    OBVIOUS
  <2>2. CASE j = i
    BY <1>1, <2>2 DEF Rateable
  <2>3. CASE j # i
    <3>1. /\ inspecting'[j] = inspecting[j] /\ Rateable(j)
          /\ inspecting[j].at = "reset" => pipeData[p] # <<>>
      BY <1>1, <2>1, <2>3 DEF CorInv, PipeOf
    <3> QED BY <2>1, <3>1 DEF Rateable, PipeOf
  <2> QED BY <2>2, <2>3
<1>7. \A p \in schedule' : pipeData'[p] # <<>>
  BY DEF CorInv
<1> QED BY <1>2, <1>4, <1>5, <1>6, <1>7 DEF CorInv, PipeOf

\* An inspection enters, measured or predicted.
LEMMA EnterMoves ==
  ASSUME CorInv, NEW i \in Inspection, NEW p \in Pipe, NEW t \in Int, NEW y \in Nat,
         Enter(i, p, t, y), schedule' \subseteq schedule, scheduled' \subseteq Inspection,
         UNCHANGED <<predicting, pipeData, resting, repairs, filed, overtaken>>
  PROVE  CorInv'
<1> DEFINE place == IF IsValidThickness(t) THEN "detect" ELSE "done"
           r == [inspecting[i] EXCEPT !.at = place, !.pipe = p, !.thickness = t, !.date = y]
<1>1. /\ inspecting[i].at = "idle"
      /\ inspecting' = [inspecting EXCEPT ![i] = r]
  BY DEF Enter, CorInv, CorTyped
<1>2. place \in {"detect", "done"} /\ (place = "detect" => IsValidThickness(t))
  OBVIOUS
<1>3. inspecting[i] \in Record
  BY RecordTyped DEF CorInv
<1> HIDE DEF place
<1>4. r \in Record /\ r.at = place /\ r.thickness = t
  BY <1>2, <1>3 DEF Record, CorPlaces
<1> HIDE DEF r
<1> QED BY <1>1, <1>2, <1>4, RecordMoves DEF Accepted, CorInv, CorTyped

\* AddCorrosionInspection.
LEMMA InspectKeeps ==
  ASSUME CorInv, NEW i \in Inspection, AddCorrosionInspection(i)
  PROVE  CorInv'
<1>1. ASSUME NEW p \in Pipe, NEW t \in Thickness, NEW y \in Years, Inspect(i, p, t, y)
      PROVE  CorInv'
  <2>1. t \in Int /\ y \in Nat
    BY CorrosionNumbers
  <2>2. schedule' \subseteq schedule /\ scheduled' \subseteq Inspection
    BY <1>1 DEF Inspect, CorInv, CorTyped
  <2> QED BY <1>1, <2>1, <2>2, EnterMoves DEF Inspect
<1>2. CASE DismissInspection(i)
  <2> DEFINE r == [inspecting[i] EXCEPT !.at = "done"]
  <2>1. inspecting[i] \in Record
    BY RecordTyped DEF CorInv
  <2>2. r \in Record /\ r.at = "done"
    BY <2>1 DEF Record, CorPlaces
  <2>3. inspecting' = [inspecting EXCEPT ![i] = r] /\ inspecting[i].at = "idle"
    BY <1>2 DEF DismissInspection
  <2> HIDE DEF r
  <2> QED BY <1>2, <2>2, <2>3, RecordMoves DEF DismissInspection, Accepted, CorInv, CorTyped
<1> QED BY <1>1, <1>2 DEF AddCorrosionInspection

\* The loop simulates an inspection from the latest one of a pipe.
LEMMA SimulateKeeps ==
  ASSUME CorInv, NEW i \in Inspection, SimulateInspection(i)
  PROVE  CorInv'
<1>1. PICK p \in Pipe : \E y \in Years : Simulate(i, p, y)
  BY DEF SimulateInspection
<1>2. PICK y \in Years : Simulate(i, p, y)
  BY <1>1
<1>3. PICK t : t = Inspected(Last(pipeData[p])) - (inspecting[Last(pipeData[p])].predicted + 3) \div 4
  OBVIOUS
<1>4. pipeData[p] # <<>>
  BY <1>2 DEF Simulate, CorInv
<1>5. CorInv'
  <2>1. Last(pipeData[p]) \in Inspection
    BY <1>4, HistoryTyped DEF CorInv
  <2>2. inspecting[Last(pipeData[p])].thickness \in Int /\ inspecting[Last(pipeData[p])].predicted \in Nat
    BY <2>1, RecordTyped DEF CorInv
  <2>3. t \in Int /\ y \in Nat
    BY <1>3, <2>2, CorrosionNumbers DEF Inspected
  <2>4. Enter(i, p, t, y) /\ UNCHANGED <<predicting, pipeData, resting, repairs, filed, overtaken>>
    BY <1>2, <1>3 DEF Simulate
  <2>5. schedule' \subseteq schedule /\ scheduled' \subseteq Inspection
    BY <1>2 DEF Simulate, Nobody, CorInv, CorTyped
  <2> QED BY <2>3, <2>4, <2>5, EnterMoves
<1> QED BY <1>5

\* detectRepairEvent: a cut is only decided on a history that has a baseline.
LEMMA DetectKeeps ==
  ASSUME CorInv, NEW i \in Inspection, DetectRepairEvent(i)
  PROVE  CorInv'
<1> DEFINE history == pipeData[PipeOf(i)]
           gain == Inspected(i) - Inspected(Last(history))
           repair == history # <<>> /\ PipeOf(i) \notin resting /\ IsRepair(gain)
           place == IF repair /\ IsSure(gain) THEN "reset" ELSE "store"
           r == [inspecting[i] EXCEPT !.at = place]
<1>1. /\ inspecting[i].at = "detect" /\ inspecting' = [inspecting EXCEPT ![i] = r]
      /\ repairs' = IF repair THEN repairs \cup {i} ELSE repairs
      /\ UNCHANGED <<predicting, pipeData, resting, schedule, scheduled, filed, overtaken>>
  BY DEF DetectRepairEvent
<1>2. place \in {"reset", "store"} /\ (place = "reset" => pipeData[inspecting[i].pipe] # <<>>)
  BY DEF PipeOf
<1>3. inspecting[i] \in Record /\ repairs' \subseteq Inspection
      /\ IsValidThickness(inspecting[i].thickness)
  BY <1>1, RecordTyped DEF CorInv, CorTyped, Accepted, Inspected
<1> HIDE DEF place
<1>4. /\ r \in Record /\ r.at = place /\ r.thickness = inspecting[i].thickness
      /\ r.pipe = inspecting[i].pipe
  BY <1>2, <1>3 DEF Record, CorPlaces
<1> HIDE DEF r, repair
<1> QED BY <1>1, <1>2, <1>3, <1>4, RecordMoves DEF CorInv, CorTyped

\* runPrediction fills in the record of an inspection that was rated.
LEMMA PredictKeeps ==
  ASSUME CorInv, NEW i \in Inspection, RunPrediction(i)
  PROVE  CorInv'
<1>1. PICK rate \in Rate :
        inspecting' = [inspecting EXCEPT ![i].at = "done", ![i].predicted = rate,
                                         ![i].priority = Priority(i, RemainingLife(i, rate))]
  BY DEF RunPrediction
<1>2. Priority(i, RemainingLife(i, rate)) \in {"low", "medium", "high"}
  BY DEF Priority, ByRate
<1>3. inspecting[i] \in Record /\ rate \in Nat
  BY RecordTyped, CorrosionNumbers DEF CorInv
<1> DEFINE level == Priority(i, RemainingLife(i, rate))
           r == [inspecting[i] EXCEPT !.at = "done", !.predicted = rate, !.priority = level]
<1>4. inspecting' = [inspecting EXCEPT ![i] = r]
  BY <1>1
<1> HIDE DEF level
<1>5. level \in {"low", "medium", "high"}
  BY <1>2 DEF level
<1>6. /\ r \in Record /\ r.at = "done" /\ r.thickness = inspecting[i].thickness
      /\ r.pipe = inspecting[i].pipe /\ r.date = inspecting[i].date
      /\ r.rate = inspecting[i].rate
  BY <1>3, <1>5 DEF Record, CorPlaces
<1> HIDE DEF r
<1>7. /\ inspecting[i].at = "predict" /\ scheduled' \subseteq Inspection
      /\ UNCHANGED <<predicting, pipeData, resting, repairs, schedule, filed, overtaken>>
  BY DEF RunPrediction, CorInv, CorTyped
<1> QED BY <1>4, <1>6, <1>7, RecordMoves DEF Accepted, CorInv, CorTyped

\* A rate is a number of units a year.
LEMMA LossTyped ==
  ASSUME CorTyped, NEW i \in Inspection, NEW j \in Inspection
  PROVE  LossPerYear(i, j) \in Nat
<1> DEFINE years == inspecting[i].date - inspecting[j].date
           loss == inspecting[j].thickness - inspecting[i].thickness
<1>1. years \in Int /\ loss \in Int
  BY RecordTyped
<1>2. LossPerYear(i, j) = IF years <= 0 \/ loss <= 0 THEN 0 ELSE loss \div years
  BY DEF LossPerYear, Inspected
<1> HIDE DEF years, loss
<1> QED BY <1>1, <1>2

\* calculateCorrosionRate: nobody overtook it, so that it compares the
\* inspection with the one filed before it.
LEMMA RateKeeps ==
  ASSUME CorInv, NEW i \in Inspection, CalculateCorrosionRate(i)
  PROVE  CorInv'
<1>1. PICK p \in Pipe : p = PipeOf(i)
  BY RecordTyped DEF CorInv, PipeOf
<1>2. PICK rate : rate = RateBy(i, pipeData[p])
  OBVIOUS
<1>3. PICK r : r = [inspecting[i] EXCEPT !.at = "predict", !.rate = rate]
  OBVIOUS
<1>4. /\ inspecting[i].at = "rate" /\ inspecting' = [inspecting EXCEPT ![i] = r]
      /\ UNCHANGED <<predicting, pipeData, resting, repairs, schedule, scheduled, filed, overtaken>>
  BY <1>1, <1>2, <1>3 DEF CalculateCorrosionRate
<1>5. rate \in Nat
  <2>1. Inspected(i) \in Int /\ IsValidThickness(Inspected(i)) /\ OriginalWallThickness \in Nat
    BY <1>4, RecordTyped, CorrosionNumbers DEF CorInv, CorTyped, Accepted, Inspected
  <2>2. CASE Len(pipeData[p]) < 2
    BY <1>2, <2>1, <2>2 DEF RateBy, IsValidThickness
  <2>3. CASE ~(Len(pipeData[p]) < 2)
    <3>1. pipeData[p][Len(pipeData[p]) - 1] \in Inspection
      BY <2>3, HistoryTyped DEF CorInv
    <3> QED BY <1>2, <2>3, <3>1, LossTyped DEF RateBy, CorInv
  <2> QED BY <2>2, <2>3
<1>6. inspecting[i] \in Record
  BY RecordTyped DEF CorInv
<1>7. /\ r \in Record /\ r.at = "predict" /\ r.thickness = inspecting[i].thickness
      /\ r.pipe = inspecting[i].pipe /\ r.date = inspecting[i].date /\ r.rate = rate
  BY <1>3, <1>5, <1>6 DEF Record, CorPlaces
<1>8. \A j \in Inspection : inspecting'[j] = IF j = i THEN r ELSE inspecting[j]
  BY <1>4 DEF CorInv, CorTyped
<1>9. \A j \in Inspection : /\ inspecting'[j].pipe = inspecting[j].pipe
                            /\ inspecting'[j].thickness = inspecting[j].thickness
                            /\ inspecting'[j].date = inspecting[j].date
  BY <1>7, <1>8
<1>10. CorTyped'
  <2>1. inspecting' \in [Inspection -> Record]
    BY <1>4, <1>7 DEF CorInv, CorTyped
  <2>2. \A j \in Inspection :
          inspecting'[j].at \in Accepted => IsValidThickness(inspecting'[j].thickness)
    BY <1>4, <1>7, <1>8, <1>9 DEF CorInv, CorTyped, Inspected, Accepted
  <2>3. /\ schedule' \subseteq Pipe /\ resting' \subseteq Pipe /\ overtaken' \subseteq Inspection
        /\ pipeData' \in [Pipe -> Seq(Inspection)] /\ filed' \in [Pipe -> Seq(Inspection)]
        /\ \A q \in Pipe : Len(pipeData'[q]) <= MaxInspections
        /\ predicting' \in BOOLEAN /\ repairs' \subseteq Inspection /\ scheduled' \subseteq Inspection
    BY <1>4 DEF CorInv, CorTyped
  <2> QED BY <2>1, <2>2, <2>3 DEF CorTyped, Inspected
<1>11. ASSUME NEW q \in Pipe PROVE EndsAlike(q)' /\ FiledThere(q)'
  <2>1. EndsAlike(q)'
    BY <1>4 DEF CorInv, EndsAlike
  <2>2. ASSUME NEW k \in DOMAIN filed[q]
        PROVE  inspecting'[filed[q][k]].pipe = q /\ inspecting'[filed[q][k]].at \in Filed
    <3>1. /\ filed[q][k] \in Inspection /\ inspecting[filed[q][k]].pipe = q
          /\ inspecting[filed[q][k]].at \in Filed
      BY HistoryTyped DEF CorInv, FiledThere, PipeOf
    <3> QED BY <1>7, <1>8, <1>9, <3>1 DEF Filed
  <2> QED BY <1>4, <2>1, <2>2 DEF FiledThere, PipeOf
<1>12. \A j \in Inspection, l \in Inspection : LossPerYear(j, l)' = LossPerYear(j, l)
  BY <1>9 DEF LossPerYear, Inspected
<1>13. ASSUME NEW q \in Pipe, NEW k \in DOMAIN filed[q] PROVE RatedRight(q, k)'
  <2>1. PICK j \in Inspection : j = filed[q][k]
    BY HistoryTyped DEF CorInv
  <2>2. PICK prev : prev = filed[q][k - 1]
    OBVIOUS
  <2>3. k # 1 => k - 1 \in DOMAIN filed[q] /\ prev \in Inspection
    BY <2>2, HistoryTyped DEF CorInv
  <2>4. k # 1 => LossPerYear(j, prev)' = LossPerYear(j, prev)
    BY <1>12, <2>3
  <2>5. CASE j # i
    <3>1. RatedRight(q, k) /\ inspecting'[j] = inspecting[j]
      BY <1>8, <2>5 DEF CorInv
    <3> QED BY <1>4, <1>9, <2>1, <2>2, <2>4, <3>1 DEF RatedRight, Inspected
  <2>6. CASE j = i
    <3> SUFFICES ASSUME i \notin overtaken
                 PROVE  rate = IF k = 1 THEN OriginalWallThickness - Inspected(i)
                               ELSE LossPerYear(i, prev)
      BY <1>4, <1>7, <1>8, <1>9, <2>1, <2>2, <2>4, <2>6 DEF RatedRight, Inspected
    <3>1. q = p
      BY <1>1, <2>1, <2>6 DEF CorInv, FiledThere
    <3>2. /\ k = Len(filed[p]) /\ (Len(filed[p]) = 1 => Len(pipeData[p]) = 1)
          /\ Len(filed[p]) >= 2 =>
               /\ Len(pipeData[p]) >= 2
               /\ pipeData[p][Len(pipeData[p]) - 1] = filed[p][Len(filed[p]) - 1]
      <4>1. Rateable(i)
        BY DEF CorInv
      <4>2. k \in DOMAIN filed[p] /\ filed[p][k] = i
        BY <2>1, <2>6, <3>1
      <4> QED BY <1>1, <1>4, <4>1, <4>2 DEF Rateable
    <3>3. Len(filed[p]) \in Nat /\ Len(pipeData[p]) \in Nat /\ k \in 1 .. Len(filed[p])
      BY <3>1, HistoryTyped DEF CorInv
    <3>4. CASE k = 1
      <4>1. Len(pipeData[p]) < 2
        <5>1. Len(filed[p]) = 1
          BY <3>2, <3>4
        <5>2. Len(pipeData[p]) = 1
          BY <3>2, <5>1
        <5> QED BY <5>2
      <4> QED BY <1>2, <3>4, <4>1 DEF RateBy
    <3>5. CASE k # 1
      <4>1. Len(filed[p]) >= 2 /\ ~(Len(pipeData[p]) < 2)
        <5>1. Len(filed[p]) # 1
          BY <3>2, <3>5
        <5>2. Len(filed[p]) >= 2
          <6>1. PICK n \in Nat : n = Len(filed[p])
            BY <3>3
          <6>2. PICK m \in Nat : m \in 1 .. n /\ n # 1
            BY <3>3, <5>1, <6>1
          <6>3. n >= 2
            BY <6>2
          <6> QED BY <6>1, <6>3
        <5>3. Len(pipeData[p]) >= 2
          BY <3>2, <5>2
        <5> QED BY <3>3, <5>2, <5>3
      <4>2. pipeData[p][Len(pipeData[p]) - 1] = prev
        BY <2>2, <3>1, <3>2, <4>1
      <4> QED BY <1>2, <3>5, <4>1, <4>2 DEF RateBy
    <3> QED BY <3>4, <3>5
  <2> QED BY <2>5, <2>6
<1>14. ASSUME NEW j \in Inspection
       PROVE  Rateable(j)' /\ (inspecting'[j].at = "reset" => pipeData'[inspecting'[j].pipe] # <<>>)
  <2>1. PICK q : q = inspecting[j].pipe
    OBVIOUS
  <2>2. CASE j = i
    BY <1>7, <1>8, <2>2 DEF Rateable
  <2>3. CASE j # i
    <3>1. /\ inspecting'[j] = inspecting[j] /\ Rateable(j)
          /\ inspecting[j].at = "reset" => pipeData[q] # <<>>
      BY <1>8, <2>1, <2>3 DEF CorInv, PipeOf
    <3> QED BY <1>4, <2>1, <3>1 DEF Rateable, PipeOf
  <2> QED BY <2>2, <2>3
<1>15. \A q \in schedule' : pipeData'[q] # <<>>
  BY <1>4 DEF CorInv
<1> QED BY <1>4, <1>10, <1>11, <1>13, <1>14, <1>15 DEF CorInv, PipeOf

\* An inspection goes on to r.at; other than that no record changes.
MovesTo(i, place) == inspecting' = [inspecting EXCEPT ![i].at = place]

\* What that says of the records.
LEMMA RecordsMove ==
  ASSUME CorTyped, NEW i \in Inspection, NEW place \in {"store", "rate"}, MovesTo(i, place),
         inspecting[i].at \in Accepted
  PROVE  /\ inspecting' \in [Inspection -> Record]
         /\ \A j \in Inspection :
              /\ inspecting'[j].at = IF j = i THEN place ELSE inspecting[j].at
              /\ inspecting'[j].pipe = inspecting[j].pipe
              /\ inspecting'[j].thickness = inspecting[j].thickness
              /\ inspecting'[j].date = inspecting[j].date
              /\ inspecting'[j].rate = inspecting[j].rate
              /\ inspecting'[j].at \in Accepted => IsValidThickness(inspecting'[j].thickness)
         /\ \A j \in Inspection, l \in Inspection : LossPerYear(j, l)' = LossPerYear(j, l)
<1> DEFINE r == [inspecting[i] EXCEPT !.at = place]
<1>1. inspecting[i] \in Record /\ inspecting \in [Inspection -> Record]
  BY DEF CorTyped
<1>2. /\ r \in Record /\ r.at = place /\ r.pipe = inspecting[i].pipe
      /\ r.thickness = inspecting[i].thickness /\ r.date = inspecting[i].date
      /\ r.rate = inspecting[i].rate
  BY <1>1 DEF Record, CorPlaces
<1>3. inspecting' = [inspecting EXCEPT ![i] = r]
  BY DEF MovesTo
<1> HIDE DEF r
<1>4. inspecting' \in [Inspection -> Record]
      /\ \A j \in Inspection : inspecting'[j] = IF j = i THEN r ELSE inspecting[j]
  BY <1>1, <1>2, <1>3
<1>5. \A j \in Inspection :
        /\ inspecting'[j].at = IF j = i THEN place ELSE inspecting[j].at
        /\ inspecting'[j].pipe = inspecting[j].pipe
        /\ inspecting'[j].thickness = inspecting[j].thickness
        /\ inspecting'[j].date = inspecting[j].date
        /\ inspecting'[j].rate = inspecting[j].rate
  BY <1>2, <1>4
<1>6. \A j \in Inspection :
        inspecting'[j].at \in Accepted => IsValidThickness(inspecting'[j].thickness)
  BY <1>5 DEF CorTyped, Inspected
<1>7. \A j \in Inspection, l \in Inspection : LossPerYear(j, l)' = LossPerYear(j, l)
  BY <1>5 DEF LossPerYear, Inspected
<1> QED BY <1>4, <1>5, <1>6, <1>7

\* The places of a history that were rated stay so, as long as their records do.
LEMMA RatedStays ==
  ASSUME CorInv, NEW i \in Inspection, NEW place \in {"store", "rate"}, MovesTo(i, place),
         inspecting[i].at \in {"reset", "store"}, overtaken \subseteq overtaken',
         NEW q \in Pipe, NEW k \in DOMAIN filed[q],
         filed'[q][k] = filed[q][k], k # 1 => filed'[q][k - 1] = filed[q][k - 1]
  PROVE  /\ RatedRight(q, k)'
         /\ filed[q][k] # i /\ inspecting'[filed[q][k]].pipe = q
         /\ inspecting'[filed[q][k]].at \in Filed
<1>1. PICK j \in Inspection : j = filed[q][k]
  BY HistoryTyped DEF CorInv
<1>2. PICK prev : prev = filed[q][k - 1]
  OBVIOUS
<1>3. k # 1 => prev \in Inspection
  <2> SUFFICES ASSUME k # 1 PROVE prev \in Inspection
    OBVIOUS
  <2>1. k - 1 \in DOMAIN filed[q]
    BY HistoryTyped DEF CorInv
  <2> QED BY <1>2, <2>1, HistoryTyped DEF CorInv
<1>4. j # i /\ inspecting[j].pipe = q /\ inspecting[j].at \in Filed
  BY <1>1 DEF CorInv, FiledThere, Filed, PipeOf
<1>5. /\ inspecting'[j].at = inspecting[j].at /\ inspecting'[j].pipe = inspecting[j].pipe
      /\ inspecting'[j].thickness = inspecting[j].thickness
      /\ inspecting'[j].rate = inspecting[j].rate
      /\ k # 1 => LossPerYear(j, prev)' = LossPerYear(j, prev)
  BY <1>3, <1>4, RecordsMove DEF CorInv, Accepted
<1>6. RatedRight(q, k)
  BY DEF CorInv
<1>7. RatedRight(q, k)'
  BY <1>1, <1>2, <1>5, <1>6 DEF RatedRight, Inspected
<1> QED BY <1>1, <1>4, <1>5, <1>7

\* resetModelForPipe: the history of the pipe keeps its end, and whoever was
\* about to be rated has been overtaken.
LEMMA ResetKeeps ==
  ASSUME CorInv, NEW i \in Inspection, ResetModelForPipe(i)
  PROVE  CorInv'
<1>1. PICK p \in Pipe : p = PipeOf(i)
  BY RecordTyped DEF CorInv, PipeOf
<1>2. PICK g : g = Baseline(pipeData[p])
  OBVIOUS
<1>3. /\ inspecting[i].at = "reset" /\ MovesTo(i, "store")
      /\ pipeData' = [pipeData EXCEPT ![p] = g] /\ resting' = resting \cup {p}
      /\ overtaken' = overtaken \cup AboutToRate(p)
      /\ UNCHANGED <<predicting, repairs, schedule, scheduled, filed>>
  BY <1>1, <1>2 DEF ResetModelForPipe, MovesTo
<1>4. pipeData[p] # <<>> /\ pipeData \in [Pipe -> Seq(Inspection)] /\ pipeData[p] \in Seq(Inspection)
  BY <1>1, <1>3 DEF CorInv, CorTyped
<1>5. g \in Seq(Inspection) /\ Len(g) = 1 /\ g # <<>> /\ Last(g) = Last(pipeData[p])
  BY <1>2, <1>4, BaselineOf
<1>6. \A q \in Pipe : pipeData'[q] = IF q = p THEN g ELSE pipeData[q]
  BY <1>3, <1>4
<1>7. \A q \in Pipe : pipeData[q] # <<>> => pipeData'[q] # <<>>
  BY <1>5, <1>6
<1>8. /\ inspecting' \in [Inspection -> Record]
      /\ \A j \in Inspection :
           /\ inspecting'[j].at = IF j = i THEN "store" ELSE inspecting[j].at
           /\ inspecting'[j].pipe = inspecting[j].pipe
           /\ inspecting'[j].at \in Accepted => IsValidThickness(inspecting'[j].thickness)
  BY <1>3, RecordsMove DEF CorInv, Accepted
<1>9. CorTyped'
  <2>1. /\ overtaken' \subseteq Inspection /\ resting' \subseteq Pipe
        /\ predicting' \in BOOLEAN /\ repairs' \subseteq Inspection /\ schedule' \subseteq Pipe
        /\ scheduled' \subseteq Inspection /\ filed' \in [Pipe -> Seq(Inspection)]
    BY <1>3 DEF CorInv, CorTyped, AboutToRate
  <2>2. pipeData' \in [Pipe -> Seq(Inspection)]
    BY <1>3, <1>4, <1>5
  <2>3. \A q \in Pipe : Len(pipeData'[q]) <= MaxInspections
    <3> SUFFICES ASSUME NEW q \in Pipe PROVE Len(pipeData'[q]) <= MaxInspections
      OBVIOUS
    <3>1. CASE q = p
      <4>1. Len(pipeData'[q]) = 1
        BY <1>5, <1>6, <3>1
      <4>2. 1 <= MaxInspections
        BY CorrosionNumbers
      <4> QED BY <4>1, <4>2
    <3>2. CASE q # p
      BY <1>6, <3>2 DEF CorInv, CorTyped
    <3> QED BY <3>1, <3>2
  <2> QED BY <1>8, <2>1, <2>2, <2>3 DEF CorTyped, Inspected
<1>10. ASSUME NEW q \in Pipe
       PROVE  EndsAlike(q)' /\ FiledThere(q)' /\ \A k \in DOMAIN filed'[q] : RatedRight(q, k)'
  <2>1. EndsAlike(q)
    BY DEF CorInv
  <2>2. EndsAlike(q)'
    <3>1. CASE q = p
      BY <1>3, <1>4, <1>5, <1>6, <2>1, <3>1 DEF EndsAlike
    <3>2. CASE q # p
      BY <1>3, <1>6, <2>1, <3>2 DEF EndsAlike
    <3> QED BY <3>1, <3>2
  <2>3. ASSUME NEW k \in DOMAIN filed[q]
        PROVE  /\ RatedRight(q, k)' /\ inspecting'[filed[q][k]].pipe = q
               /\ inspecting'[filed[q][k]].at \in Filed
    BY <1>3, RatedStays
  <2> QED BY <1>3, <2>2, <2>3 DEF FiledThere, PipeOf
<1>11. ASSUME NEW j \in Inspection
       PROVE  Rateable(j)' /\ (inspecting'[j].at = "reset" => pipeData'[inspecting'[j].pipe] # <<>>)
  <2>1. PICK q \in Pipe : q = inspecting[j].pipe
    BY RecordTyped DEF CorInv
  <2>2. inspecting'[j].pipe = q /\ (inspecting'[j].at = "reset" => inspecting[j].at = "reset")
    BY <1>8, <2>1
  <2>3. inspecting[j].at = "reset" => pipeData[q] # <<>>
    BY <2>1 DEF CorInv, PipeOf
  <2>4. Rateable(j)'
    <3> SUFFICES ASSUME inspecting'[j].at = "rate", j \notin overtaken' PROVE Rateable(j)'
      BY DEF Rateable
    <3>1. inspecting[j].at = "rate" /\ j \notin overtaken /\ j \notin AboutToRate(p)
      BY <1>3, <1>8
    <3>2. q # p
      BY <2>1, <3>1 DEF AboutToRate, PipeOf
    <3>3. pipeData'[q] = pipeData[q] /\ filed' = filed /\ Rateable(j)
      BY <1>3, <1>6, <3>2 DEF CorInv
    <3> QED BY <2>1, <2>2, <3>1, <3>3 DEF Rateable, PipeOf
  <2> QED BY <1>7, <2>2, <2>3, <2>4
<1>12. \A q \in schedule' : pipeData'[q] # <<>>
  BY <1>3, <1>7 DEF CorInv, CorTyped
<1> QED BY <1>9, <1>10, <1>11, <1>12 DEF CorInv, PipeOf

\* storeInspectionData: the inspection comes after the one that was last.
LEMMA StoreKeeps ==
  ASSUME CorInv, NEW i \in Inspection, StoreInspectionData(i)
  PROVE  CorInv'
<1>1. PICK p \in Pipe : p = PipeOf(i)
  BY RecordTyped DEF CorInv, PipeOf
<1>2. PICK g : g = LatestInspections(Append(pipeData[p], i))
  OBVIOUS
<1>3. /\ inspecting[i].at = "store" /\ MovesTo(i, "rate")
      /\ pipeData' = [pipeData EXCEPT ![p] = g] /\ filed' = [filed EXCEPT ![p] = Append(@, i)]
      /\ overtaken' = overtaken \cup AboutToRate(p)
      /\ UNCHANGED <<predicting, resting, repairs, schedule, scheduled>>
  BY <1>1, <1>2 DEF StoreInspectionData, MovesTo
<1>4. /\ pipeData \in [Pipe -> Seq(Inspection)] /\ filed \in [Pipe -> Seq(Inspection)]
      /\ pipeData[p] \in Seq(Inspection) /\ Len(pipeData[p]) <= MaxInspections
      /\ filed[p] \in Seq(Inspection)
  BY DEF CorInv, CorTyped
<1>5. /\ g \in Seq(Inspection) /\ Len(g) <= MaxInspections /\ g # <<>> /\ Last(g) = i
      /\ pipeData[p] # <<>> => Len(g) >= 2 /\ g[Len(g) - 1] = Last(pipeData[p])
      /\ pipeData[p] = <<>> => Len(g) = 1
  BY <1>2, <1>4, LatestAppend
<1>6. \A q \in Pipe : /\ pipeData'[q] = IF q = p THEN g ELSE pipeData[q]
                      /\ filed'[q] = IF q = p THEN Append(filed[p], i) ELSE filed[q]
  BY <1>3, <1>4
<1>7. \A q \in Pipe : pipeData[q] # <<>> => pipeData'[q] # <<>>
  BY <1>5, <1>6
<1>8. /\ inspecting' \in [Inspection -> Record]
      /\ \A j \in Inspection :
           /\ inspecting'[j].at = IF j = i THEN "rate" ELSE inspecting[j].at
           /\ inspecting'[j].pipe = inspecting[j].pipe
           /\ inspecting'[j].at \in Accepted => IsValidThickness(inspecting'[j].thickness)
  BY <1>3, RecordsMove DEF CorInv, Accepted
<1>9. PICK n \in Nat : n = Len(filed[p])
  BY <1>4
<1>10. /\ filed'[p] \in Seq(Inspection) /\ Len(filed'[p]) = n + 1 /\ DOMAIN filed'[p] = 1 .. n + 1
       /\ DOMAIN filed[p] = 1 .. n /\ filed'[p][n + 1] = i /\ filed'[p] # <<>>
       /\ \A k \in 1 .. n : filed'[p][k] = filed[p][k]
       /\ (n = 0) <=> (filed[p] = <<>>)
  <2>1. filed'[p] = Append(filed[p], i)
    BY <1>6
  <2>2. PICK f \in Seq(Inspection) : f = filed[p]
    BY <1>4
  <2>3. Len(f) = n
    BY <1>9, <2>2
  <2>4. /\ Append(f, i) \in Seq(Inspection) /\ Len(Append(f, i)) = n + 1
        /\ DOMAIN Append(f, i) = 1 .. n + 1 /\ DOMAIN f = 1 .. n
        /\ Append(f, i)[n + 1] = i /\ Append(f, i) # <<>>
    BY <2>3, SMTT(30)
  <2>5. \A k \in 1 .. n : Append(f, i)[k] = f[k]
    BY <2>3
  <2>6. (n = 0) <=> (f = <<>>)
    BY <2>3
  <2> QED BY <2>1, <2>2, <2>4, <2>5, <2>6
<1>11. CorTyped'
  <2>1. /\ overtaken' \subseteq Inspection /\ resting' \subseteq Pipe
        /\ predicting' \in BOOLEAN /\ repairs' \subseteq Inspection /\ schedule' \subseteq Pipe
        /\ scheduled' \subseteq Inspection
    BY <1>3 DEF CorInv, CorTyped, AboutToRate
  <2>2. pipeData' \in [Pipe -> Seq(Inspection)] /\ filed' \in [Pipe -> Seq(Inspection)]
    <3>1. Append(filed[p], i) \in Seq(Inspection)
      BY <1>4
    <3> QED BY <1>3, <1>4, <1>5, <3>1
  <2>3. \A q \in Pipe : Len(pipeData'[q]) <= MaxInspections
    BY <1>5, <1>6 DEF CorInv, CorTyped
  <2> QED BY <1>8, <2>1, <2>2, <2>3 DEF CorTyped, Inspected
<1>12. ASSUME NEW q \in Pipe, NEW k \in DOMAIN filed'[q], q # p \/ k # n + 1
       PROVE  /\ k \in DOMAIN filed[q] /\ filed'[q][k] = filed[q][k]
              /\ k # 1 => filed'[q][k - 1] = filed[q][k - 1]
  <2>1. CASE q # p
    BY <1>6, <2>1
  <2>2. CASE q = p
    <3>1. k \in 1 .. n
      BY <1>10, <1>12, <2>2
    <3>2. k # 1 => k - 1 \in 1 .. n
      BY <3>1
    <3> QED BY <1>10, <2>2, <3>1, <3>2
  <2> QED BY <2>1, <2>2
<1>13. ASSUME NEW q \in Pipe, NEW k \in DOMAIN filed'[q], q # p \/ k # n + 1
       PROVE  /\ RatedRight(q, k)' /\ filed'[q][k] # i /\ inspecting'[filed'[q][k]].pipe = q
              /\ inspecting'[filed'[q][k]].at \in Filed
  BY <1>3, <1>12, <1>13, RatedStays
<1>14. ASSUME NEW q \in Pipe PROVE EndsAlike(q)'
  <2>1. CASE q = p
    <3>1. Last(filed'[p]) = i
      BY <1>10 DEF Last
    <3> QED BY <1>5, <1>6, <1>10, <2>1, <3>1 DEF EndsAlike
  <2>2. CASE q # p
    BY <1>6, <2>2 DEF CorInv, EndsAlike
  <2> QED BY <2>1, <2>2
<1>15. ASSUME NEW q \in Pipe, NEW k \in DOMAIN filed'[q]
       PROVE  /\ RatedRight(q, k)' /\ inspecting'[filed'[q][k]].pipe = q
              /\ inspecting'[filed'[q][k]].at \in Filed
  <2>1. CASE q = p /\ k = n + 1
    <3>1. filed'[q][k] = i /\ inspecting'[i].at = "rate" /\ inspecting'[i].pipe = q
      BY <1>1, <1>8, <1>10, <2>1 DEF PipeOf
    <3> QED BY <3>1 DEF RatedRight, Filed
  <2>2. CASE q # p \/ k # n + 1
    BY <1>13, <2>2
  <2> QED BY <2>1, <2>2
<1>16. Rateable(i)'
  <2>1. inspecting'[i].pipe = p
    BY <1>1, <1>8 DEF PipeOf
  <2>2. \A k \in DOMAIN filed'[p] : filed'[p][k] = i <=> k = n + 1
    BY <1>10, <1>13
  <2>3. n = 0 => Len(g) = 1
    BY <1>5, <1>10 DEF CorInv, EndsAlike
  <2>4. n # 0 => Len(g) >= 2 /\ g[Len(g) - 1] = filed'[p][n]
    <3> SUFFICES ASSUME n # 0 PROVE Len(g) >= 2 /\ g[Len(g) - 1] = filed'[p][n]
      OBVIOUS
    <3>1. pipeData[p] # <<>> /\ Last(pipeData[p]) = Last(filed[p])
      BY <1>10 DEF CorInv, EndsAlike
    <3>2. Last(filed[p]) = filed[p][n] /\ n \in 1 .. n
      BY <1>9 DEF Last
    <3> QED BY <1>5, <1>10, <3>1, <3>2
  <2>5. pipeData'[p] = g
    BY <1>6
  <2>6. n + 1 = 1 => n = 0
    OBVIOUS
  <2>7. n + 1 >= 2 => n # 0
    OBVIOUS
  <2>8. n + 1 - 1 = n
    OBVIOUS
  <2> QED BY <1>10, <2>1, <2>2, <2>3, <2>4, <2>5, <2>6, <2>7, <2>8 DEF Rateable, PipeOf
<1>17. ASSUME NEW j \in Inspection, j # i PROVE Rateable(j)'
  <2>1. PICK q \in Pipe : q = inspecting[j].pipe
    BY RecordTyped DEF CorInv
  <2> SUFFICES ASSUME inspecting'[j].at = "rate", j \notin overtaken' PROVE Rateable(j)'
    BY DEF Rateable
  <2>2. inspecting[j].at = "rate" /\ j \notin overtaken /\ j \notin AboutToRate(p)
    BY <1>3, <1>8, <1>17
  <2>3. q # p
    BY <2>1, <2>2 DEF AboutToRate, PipeOf
  <2>4. /\ pipeData'[q] = pipeData[q] /\ filed'[q] = filed[q] /\ Rateable(j)
        /\ inspecting'[j].pipe = q
    BY <1>6, <1>8, <2>1, <2>3 DEF CorInv
  <2> QED BY <2>1, <2>2, <2>4 DEF Rateable, PipeOf
<1>18. ASSUME NEW j \in Inspection, inspecting'[j].at = "reset"
       PROVE  pipeData'[inspecting'[j].pipe] # <<>>
  <2>1. PICK q \in Pipe : q = inspecting[j].pipe
    BY RecordTyped DEF CorInv
  <2>2. inspecting[j].at = "reset" /\ inspecting'[j].pipe = q
    BY <1>8, <1>18, <2>1
  <2>3. pipeData[q] # <<>>
    BY <2>1, <2>2 DEF CorInv, PipeOf
  <2> QED BY <1>7, <2>2, <2>3
<1>19. \A q \in schedule' : pipeData'[q] # <<>>
  BY <1>3, <1>7 DEF CorInv, CorTyped
<1> QED BY <1>11, <1>14, <1>15, <1>16, <1>17, <1>18, <1>19 DEF CorInv, FiledThere, PipeOf

\* The steps of the predictor inside the composition.
CorNext ==
  \/ \E i \in Inspection : AddCorrosionInspection(i) \/ SimulateInspection(i)
  \/ CorStep
  \/ UNCHANGED corVars

\* Every step of the predictor keeps the invariant.
LEMMA CorNextKeeps == CorInv /\ CorNext => CorInv'
<1> SUFFICES ASSUME CorInv, CorNext PROVE CorInv'
  OBVIOUS
<1>1. ASSUME predicting' \in BOOLEAN, schedule' \subseteq Pipe, resting' \subseteq Pipe,
             \A p \in schedule' : pipeData[p] # <<>>,
             UNCHANGED <<inspecting, pipeData, repairs, scheduled, filed, overtaken>>
      PROVE  CorInv'
  <2>1. CorTyped'
    BY <1>1 DEF CorInv, CorTyped, Inspected
  <2> QED BY <1>1, <2>1 DEF CorInv, EndsAlike, FiledThere, RatedRight, Rateable, PipeOf,
                            LossPerYear, Inspected
<1>2. CASE \E i \in Inspection : Process(i)
  BY <1>2, DetectKeeps, ResetKeeps, StoreKeeps, RateKeeps, PredictKeeps DEF Process
<1>3. CASE BeginRound
  BY <1>1, <1>3 DEF BeginRound, CorInv, CorTyped
<1>4. CASE \E p \in Pipe : PassOver(p) \/ Rested(p)
  BY <1>1, <1>4 DEF PassOver, Rested, CorInv, CorTyped
<1>5. CASE StopPredicting \/ UNCHANGED corVars
  BY <1>1, <1>5 DEF StopPredicting, corVars, CorInv, CorTyped
<1> QED BY <1>2, <1>3, <1>4, <1>5, InspectKeeps, SimulateKeeps DEF CorNext, CorStep

\* The other monitors leave the predictor alone.
LEMMA NextIsCorNext == [Next]_vars => CorNext
<1> SUFFICES ASSUME [Next]_vars PROVE CorNext
  OBVIOUS
<1>1. CASE Corroding \/ \E i \in Inspection : AddCorrosionInspection(i) \/ SimulateInspection(i)
  BY <1>1 DEF Corroding, CorNext
<1>2. CASE \/ Structural \/ \E s \in Sample : HandleFiberData(s)
           \/ Calorific \/ \E c \in Composition : HandleComposition(c)
           \/ UNCHANGED vars
  BY <1>2 DEF Structural, HandleFiberData, Calorific, HandleComposition, vars, CorNext
<1> QED BY <1>1, <1>2 DEF Next

\* The inductive invariant of the predictor, its types included.
THEOREM CorInvariant == Spec => []CorInv
<1>1. CorInv /\ [Next]_vars => CorInv'
  BY NextIsCorNext, CorNextKeeps
<1> QED BY <1>1, InitCor, PTL DEF Spec

\* Histories stay within MaxInspections, and only valid places, rates and
\* priorities are ever recorded.
THEOREM PredictorTyped == Spec => []CorTypeOK
<1>1. CorInv => CorTypeOK
  <2> SUFFICES ASSUME CorInv PROVE CorTypeOK
    OBVIOUS
  <2>1. \A i \in Inspection : inspecting[i] \in Record
    BY DEF CorInv, CorTyped
  <2> QED BY <2>1 DEF CorInv, CorTyped, CorTypeOK, Record, CorPlaces
<1> QED BY <1>1, CorInvariant, PTL

\* The history is read, cut, extended and read again in four critical
\* sections; the rate of an inspection that nobody overtook compares it with
\* the one filed before it, whatever cuts and predictions came in between.
THEOREM RatesAreOfNeighbours == Spec => []RateIsOfNeighbours
<1>1. CorInv => RateIsOfNeighbours
  BY DEF CorInv, RatedRight, RateIsOfNeighbours
<1> QED BY <1>1, CorInvariant, PTL

-------------------------------------------------------------------------------
(* Fiber readings: the inductive invariant *)

SamplePlaces == {"idle", "compare", "fill", "store", "done"}

Sampling ==
  [at : SamplePlaces, fiber : Fiber, raw : SensedReading, reading : SensedReading,
   filled : BOOLEAN]

Anomaly == [by : Sample, kind : {"crack", "water_leak"}, severity : {"warning", "critical"}]

Entry == [reading : SensedReading, filled : BOOLEAN, by : Sample]

StrTyped ==
  /\ sensing \in BOOLEAN /\ sampling \in [Sample -> Sampling]
  /\ fiberData \in [Fiber -> Seq(Entry)]
  /\ \A f \in Fiber : Len(fiberData[f]) <= MaxStored
  /\ breakpoints \subseteq [by : Sample, confidence : {30, 40, 70, 95}]
  /\ anomalies \subseteq Anomaly
  /\ crowded \subseteq Sample

Seen(s) == \E b \in breakpoints : b.by = s

\* Between the check and the store the history is the one that was looked at,
\* unless another reading of the device was stored.
Compared(s) ==
  /\ sampling[s].at \in {"idle", "compare"} => ~Seen(s)
  /\ sampling[s].at \in {"fill", "store"} /\ s \notin crowded =>
       LET history == fiberData[sampling[s].fiber]
       IN Seen(s) <=> Len(history) >= 2 /\ Breaks(sampling[s].raw, Preceding(history))

\* What BreaksAreSeen says of one place of the history.
SeenRight(f, i) ==
  LET s == fiberData[f][i].by
  IN s \notin crowded => (Seen(s) <=> Breaks(sampling[s].raw, fiberData[f][i - 1].reading))

\* A stored reading is the one its goroutine held, and that one sent if it
\* was not filled in.
StoredAs(f, i) ==
  LET entry == fiberData[f][i]
  IN /\ sampling[entry.by].at = "done" /\ sampling[entry.by].fiber = f
     /\ sampling[entry.by].filled = entry.filled
     /\ ~entry.filled => entry.reading = sampling[entry.by].raw

\* Readings of a device that were sent, not filled in, and are stored.
Sent(f) ==
  {t \in Sample : sampling[t].at = "done" /\ sampling[t].fiber = f /\ ~sampling[t].filled}

\* A strain that was filled in leans on two that were sent.
Leans(s) ==
  sampling[s].filled =>
    \E u, w \in Sent(sampling[s].fiber) :
      LET a == sampling[u].raw.strain
          b == sampling[w].raw.strain
      IN /\ a # 0
         /\ Gap(sampling[s].reading.strain, a) <= MaxRatio * Gap(a, b)

Unfilled(s) ==
  /\ sampling[s].at \in {"idle", "compare", "fill"} => ~sampling[s].filled
  /\ ~sampling[s].filled => sampling[s].reading = sampling[s].raw

StrInv ==
  /\ StrTyped
  /\ \A s \in Sample : Compared(s) /\ Leans(s) /\ Unfilled(s)
  /\ \A f \in Fiber : /\ \A i \in DOMAIN fiberData[f] : StoredAs(f, i)
                      /\ \A i \in 3 .. Len(fiberData[f]) : SeenRight(f, i)

\* The record of a message, and the stored readings.
LEMMA SamplingTyped ==
  ASSUME StrTyped, NEW s \in Sample
  PROVE  /\ sampling[s] \in Sampling /\ sampling[s].fiber \in Fiber
         /\ sampling[s].raw \in SensedReading /\ sampling[s].reading \in SensedReading
         /\ sampling[s].filled \in BOOLEAN /\ sampling[s].at \in SamplePlaces
<1>1. sampling[s] \in Sampling
  BY DEF StrTyped
<1> QED BY <1>1 DEF Sampling

\* An entry of a history.
LEMMA EntryTyped ==
  ASSUME StrTyped, NEW f \in Fiber, NEW i \in DOMAIN fiberData[f]
  PROVE  /\ fiberData[f][i] \in Entry /\ fiberData[f][i].by \in Sample
         /\ fiberData[f][i].reading \in SensedReading /\ fiberData[f][i].filled \in BOOLEAN
<1>1. fiberData[f] \in Seq(Entry)
  BY DEF StrTyped
<1>2. fiberData[f][i] \in Entry
  BY <1>1
<1> QED BY <1>2 DEF Entry

\* Nothing is sensed, nothing is stored.
LEMMA InitStr == Init => StrInv
<1> SUFFICES ASSUME Init PROVE StrInv
  OBVIOUS
<1>1. PICK g \in Fiber :
        sampling = [s \in Sample |-> [at |-> "idle", fiber |-> g, raw |-> Empty,
                                      reading |-> Empty, filled |-> FALSE]]
  <2>1. (CHOOSE f \in Fiber : TRUE) \in Fiber
    BY StructureNumbers
  <2> QED BY <2>1 DEF Init, StrInit
<1>2. /\ Empty \in SensedReading
      /\ \A s \in Sample : /\ sampling[s].at = "idle" /\ ~sampling[s].filled
                           /\ sampling[s].reading = sampling[s].raw
  BY <1>1 DEF Empty, SensedReading
<1>3. sampling \in [Sample -> Sampling]
  BY <1>1, <1>2 DEF Sampling, SamplePlaces
<1>4. /\ fiberData \in [Fiber -> Seq(Entry)]
      /\ \A f \in Fiber : fiberData[f] = <<>> /\ Len(fiberData[f]) = 0
  BY DEF Init, StrInit
<1>5. StrTyped
  <2>1. 0 <= MaxStored
    BY StructureNumbers
  <2> QED BY <1>3, <1>4, <2>1 DEF Init, StrInit, StrTyped
<1>6. \A s \in Sample : ~Seen(s)
  BY DEF Init, StrInit, Seen
<1>7. ASSUME NEW f \in Fiber
      PROVE  /\ \A i \in DOMAIN fiberData[f] : FALSE
             /\ \A i \in 3 .. Len(fiberData[f]) : FALSE
  BY <1>4
<1> QED BY <1>2, <1>5, <1>6, <1>7 DEF StrInv, Compared, Leans, Unfilled

-------------------------------------------------------------------------------
(* The numbers of a reading that is filled in *)

\* A product grows with its first factor.
LEMMA Multiply ==
  ASSUME NEW m \in Int, NEW n \in Int, NEW k \in Nat, m <= n
  PROVE  m * k <= n * k
<1>1. PICK d \in Nat : n = m + d
  <2>1. n - m \in Nat /\ n = m + (n - m)
    OBVIOUS
  <2> QED BY <2>1
<1>2. d * k >= 0
  OBVIOUS
<1>3. n * k = m * k + d * k
  BY <1>1
<1> QED BY <1>2, <1>3

\* What a quotient is.
LEMMA Quotient ==
  ASSUME NEW m \in Int, NEW n \in Int, n > 0
  PROVE  /\ m \div n \in Int
         /\ (m \div n) * n <= m
         /\ m < ((m \div n) + 1) * n
OBVIOUS

\* A quotient lies between the whole numbers its dividend lies between.
LEMMA QuotientBetween ==
  ASSUME NEW m \in Int, NEW n \in Int, n > 0, NEW k \in Nat,
         m <= k * n, -(k * n) <= m
  PROVE  m \div n <= k /\ -k <= m \div n
<1>1. PICK q \in Int : q = m \div n
  BY Quotient
<1>2. q * n <= m /\ m < (q + 1) * n
  BY <1>1, Quotient
<1>3. q <= k
  <2> SUFFICES ASSUME k + 1 <= q PROVE FALSE
    OBVIOUS
  <2>1. (k + 1) * n <= q * n
    BY Multiply
  <2>2. (k + 1) * n = k * n + n
    OBVIOUS
  <2> QED BY <1>2, <2>1, <2>2
<1>4. -k <= q
  <2> SUFFICES ASSUME q + 1 <= -k PROVE FALSE
    OBVIOUS
  <2>1. (q + 1) * n <= (-k) * n
    BY Multiply
  <2>2. (-k) * n = -(k * n)
    OBVIOUS
  <2> QED BY <1>2, <2>1, <2>2
<1> QED BY <1>1, <1>3, <1>4

\* A line that is followed less than MaxRatio steps ahead stays within
\* MaxRatio times the difference of the two points it goes through.
LEMMA LineStays ==
  ASSUME NEW x \in Int, NEW y \in Int, NEW ahead \in Int, NEW step \in Int, step > 0,
         Gap(ahead, 0) < MaxRatio * step
  PROVE  /\ Line(x, x - y, ahead, step) \in Int
         /\ Gap(Line(x, x - y, ahead, step), x) <= MaxRatio * Gap(x, y)
<1>1. PICK d \in Nat : d = Gap(x, y) /\ (x - y = d \/ x - y = -d)
  <2>1. Gap(x, y) \in Nat /\ (x - y = Gap(x, y) \/ x - y = -Gap(x, y))
    BY DEF Gap
  <2> QED BY <2>1
<1>2. PICK p \in Int : p = (x - y) * ahead
  OBVIOUS
<1>3. PICK c \in Nat : c = MaxRatio
  BY StructureNumbers
<1>4. PICK t \in Nat : t = c * step
  BY <1>3
<1>5. ahead <= t /\ -t <= ahead
  BY <1>3, <1>4 DEF Gap
<1>6. t * d = (c * d) * step
  BY <1>4
<1>7. ahead * d <= t * d /\ (-t) * d <= ahead * d
  BY <1>5, Multiply
<1>8. (-t) * d = -(t * d) /\ (p = ahead * d \/ p = -(ahead * d))
  BY <1>1, <1>2
<1>9. p <= (c * d) * step /\ -((c * d) * step) <= p
  BY <1>6, <1>7, <1>8
<1>10. PICK q \in Int : q = p \div step
  BY Quotient
<1>11. PICK k \in Nat : k = c * d
  OBVIOUS
<1>12. q <= k /\ -k <= q
  BY <1>9, <1>10, <1>11, QuotientBetween
<1>13. Line(x, x - y, ahead, step) = x + q
  BY <1>2, <1>10 DEF Line
<1>14. Gap(x + q, x) <= k
  BY <1>12 DEF Gap
<1> QED BY <1>1, <1>3, <1>11, <1>13, <1>14

\* The line through two readings, both ways in time.
LEMMA ExtrapolatedStays ==
  ASSUME NEW x \in Int, NEW y \in Int, NEW ahead \in Int, NEW step \in Int,
         ahead * step > 0, Gap(ahead, 0) < MaxRatio * Gap(step, 0)
  PROVE  LET on == IF step > 0 THEN Line(x, x - y, ahead, step)
                               ELSE Line(x, x - y, -ahead, -step)
         IN on \in Int /\ Gap(on, x) <= MaxRatio * Gap(x, y)
<1>1. CASE step > 0
  <2>1. Gap(step, 0) = step
    BY <1>1 DEF Gap
  <2> QED BY <1>1, <2>1, LineStays
<1>2. CASE step < 0
  <2>1. PICK a \in Int, s \in Int : a = -ahead /\ s = -step
    OBVIOUS
  <2>2. s > 0 /\ Gap(step, 0) = s /\ Gap(ahead, 0) = Gap(a, 0) /\ ~(step > 0)
    BY <1>2, <2>1 DEF Gap
  <2> QED BY <2>1, <2>2, LineStays
<1>3. step # 0
  OBVIOUS
<1> QED BY <1>1, <1>2, <1>3

\* What interpolateMissingData makes up is the strain of the reading it starts
\* from, or lies in reach of it on the line through the older one.
LEMMA FilledInReach ==
  ASSUME NEW r \in SensedReading, NEW prev \in SensedReading, NEW h \in Seq(Entry)
  PROVE  LET g     == FilledIn(r, h, prev)
             older == h[Len(h) - 1]
         IN  /\ g \in SensedReading
             /\ \/ g.strain = prev.strain
                \/ /\ Len(h) >= 3 /\ ~older.filled
                   /\ Gap(g.strain, prev.strain)
                        <= MaxRatio * Gap(prev.strain, older.reading.strain)
<1>1. PICK older : older = h[Len(h) - 1]
  OBVIOUS
<1>2. CASE ~(Len(h) >= 3 /\ ~older.filled /\ Extrapolates(r, prev, older.reading))
  <2>1. FilledIn(r, h, prev) =
          [r EXCEPT !.strain = prev.strain, !.temperature = prev.temperature,
                    !.shift = prev.shift]
    BY <1>1, <1>2 DEF FilledIn
  <2> QED BY <2>1 DEF SensedReading
<1>3. CASE Len(h) >= 3 /\ ~older.filled /\ Extrapolates(r, prev, older.reading)
  <2>1. older \in Entry
    BY <1>1, <1>3
  <2>2. PICK o \in SensedReading : o = older.reading
    BY <2>1 DEF Entry
  <2>3. PICK ahead \in Int, step \in Int : ahead = r.time - prev.time /\ step = prev.time - o.time
    <3>1. r.time \in Int /\ prev.time \in Int /\ o.time \in Int
      BY DEF SensedReading
    <3>2. r.time - prev.time \in Int /\ prev.time - o.time \in Int
      BY <3>1
    <3> QED BY <3>2, Zenon
  <2>4. ahead * step > 0 /\ Gap(ahead, 0) < MaxRatio * Gap(step, 0)
    BY <1>3, <2>2, <2>3 DEF Extrapolates
  <2> DEFINE on(x, y) == IF step > 0 THEN Line(x, x - y, ahead, step)
                                     ELSE Line(x, x - y, -ahead, -step)
  <2>5. /\ on(prev.strain, o.strain) \in Int /\ on(prev.shift, o.shift) \in Int
        /\ on(prev.temperature, o.temperature) \in Int
        /\ Gap(on(prev.strain, o.strain), prev.strain) <= MaxRatio * Gap(prev.strain, o.strain)
    <3>1. /\ prev.strain \in Int /\ o.strain \in Int /\ prev.shift \in Int /\ o.shift \in Int
          /\ prev.temperature \in Int /\ o.temperature \in Int
      BY DEF SensedReading
    <3> HIDE DEF on
    <3>2. \A x, y \in Int : on(x, y) \in Int /\ Gap(on(x, y), x) <= MaxRatio * Gap(x, y)
      BY <2>4, ExtrapolatedStays DEF on
    <3> QED BY <3>1, <3>2
  <2>6. FilledIn(r, h, prev) =
          [r EXCEPT !.strain = on(prev.strain, o.strain),
                    !.temperature = on(prev.temperature, o.temperature),
                    !.shift = on(prev.shift, o.shift)]
    BY <1>1, <1>3, <2>2, <2>3 DEF FilledIn, Extrapolated
  <2> HIDE DEF on
  <2>7. PICK a \in Int, b \in Int, c \in Int :
          /\ a = on(prev.strain, o.strain) /\ b = on(prev.shift, o.shift)
          /\ c = on(prev.temperature, o.temperature)
    BY <2>5
  <2>8. [r EXCEPT !.strain = a, !.temperature = c, !.shift = b] \in SensedReading
        /\ [r EXCEPT !.strain = a, !.temperature = c, !.shift = b].strain = a
    BY DEF SensedReading
  <2> QED BY <1>1, <1>3, <2>2, <2>5, <2>6, <2>7, <2>8
<1> QED BY <1>2, <1>3

-------------------------------------------------------------------------------
(* The steps of a reading *)

\* A step of a message before its store: the histories stay as they are.
LEMMA SampleMoves ==
  ASSUME StrInv, NEW s \in Sample, NEW r \in Sampling,
         sampling' = [sampling EXCEPT ![s] = r],
         sampling[s].at \in {"idle", "compare", "fill"},
         breakpoints' \subseteq [by : Sample, confidence : {30, 40, 70, 95}],
         breakpoints \subseteq breakpoints',
         \A b \in breakpoints' : b \in breakpoints \/ b.by = s,
         UNCHANGED <<sensing, fiberData, anomalies, crowded>>,
         Compared(s)', Leans(s)', Unfilled(s)'
  PROVE  StrInv'
<1>1. \A t \in Sample : sampling'[t] = IF t = s THEN r ELSE sampling[t]
  BY DEF StrInv, StrTyped
<1>2. StrTyped'
  <2>1. sampling' \in [Sample -> Sampling]
    BY DEF StrInv, StrTyped
  <2> QED BY <2>1 DEF StrInv, StrTyped
<1>3. \A t \in Sample : t # s => (Seen(t)' <=> Seen(t))
  BY DEF Seen
<1>4. ASSUME NEW t \in Sample, t # s PROVE Compared(t)' /\ Leans(t)' /\ Unfilled(t)'
  <2>1. sampling'[t] = sampling[t] /\ (Seen(t)' <=> Seen(t))
        /\ Compared(t) /\ Leans(t) /\ Unfilled(t)
    BY <1>1, <1>3, <1>4 DEF StrInv
  <2>2. Compared(t)'
    BY <2>1 DEF Compared
  <2>3. Unfilled(t)'
    BY <2>1 DEF Unfilled
  <2>4. Leans(t)'
    <3>1. PICK f : f = sampling[t].fiber
      OBVIOUS
    <3>2. \A u \in Sent(f) : u \in Sent(f)' /\ sampling'[u] = sampling[u]
      BY <1>1 DEF Sent
    <3> QED BY <2>1, <3>1, <3>2 DEF Leans
  <2> QED BY <2>2, <2>3, <2>4
<1>5. ASSUME NEW f \in Fiber, NEW i \in DOMAIN fiberData[f]
      PROVE  StoredAs(f, i)' /\ fiberData[f][i].by # s
  <2>1. PICK u \in Sample : u = fiberData[f][i].by
    BY EntryTyped DEF StrInv
  <2>2. StoredAs(f, i) /\ sampling[u].at = "done"
    BY <2>1 DEF StrInv, StoredAs
  <2>3. u # s /\ sampling'[u] = sampling[u]
    BY <1>1, <2>2
  <2> QED BY <2>1, <2>2, <2>3 DEF StoredAs
<1>6. ASSUME NEW f \in Fiber, NEW i \in 3 .. Len(fiberData[f])
      PROVE  SeenRight(f, i)'
  <2>1. i \in DOMAIN fiberData[f]
    BY DEF StrInv, StrTyped
  <2>2. PICK u \in Sample : u = fiberData[f][i].by
    BY <2>1, EntryTyped DEF StrInv
  <2>3. u # s /\ sampling'[u] = sampling[u] /\ (Seen(u)' <=> Seen(u)) /\ SeenRight(f, i)
    BY <1>1, <1>3, <1>5, <2>1, <2>2 DEF StrInv
  <2> QED BY <2>2, <2>3 DEF SeenRight
<1> QED BY <1>2, <1>4, <1>5, <1>6 DEF StrInv

\* handleFiberData: a message is taken, or let go after the stop.
LEMMA SenseKeeps ==
  ASSUME StrInv, NEW s \in Sample, HandleFiberData(s)
  PROVE  StrInv'
<1>1. sampling[s].at = "idle" /\ ~Seen(s) /\ sampling[s] \in Sampling /\ Unfilled(s)
  <2>1. sampling[s].at = "idle"
    BY DEF HandleFiberData, DismissSample, Sense
  <2> QED BY <2>1, SamplingTyped DEF StrInv, Compared
<1>2. /\ breakpoints' = breakpoints
      /\ UNCHANGED <<sensing, fiberData, anomalies, crowded>>
  BY DEF HandleFiberData, DismissSample, Sense
<1>3. breakpoints \subseteq [by : Sample, confidence : {30, 40, 70, 95}]
  BY DEF StrInv, StrTyped
<1>4. ~Seen(s)'
  BY <1>1, <1>2 DEF Seen
<1>5. ASSUME NEW r \in Sampling, sampling' = [sampling EXCEPT ![s] = r], ~r.filled,
             r.at \in {"compare", "done"}, r.reading = r.raw
      PROVE  StrInv'
  <2>1. sampling'[s] = r
    BY <1>5 DEF StrInv, StrTyped
  <2>2. Compared(s)' /\ Leans(s)' /\ Unfilled(s)'
    BY <1>4, <1>5, <2>1 DEF Compared, Leans, Unfilled
  <2> QED BY <1>1, <1>2, <1>3, <1>5, <2>2, SampleMoves
<1>6. CASE DismissSample(s)
  <2> DEFINE r == [sampling[s] EXCEPT !.at = "done"]
  <2>1. r \in Sampling /\ r.at = "done" /\ ~r.filled /\ r.reading = r.raw
    BY <1>1 DEF Sampling, SamplePlaces, Unfilled
  <2>2. sampling' = [sampling EXCEPT ![s] = r]
    BY <1>6 DEF DismissSample
  <2> HIDE DEF r
  <2> QED BY <1>5, <2>1, <2>2
<1>7. ASSUME NEW f \in Fiber, NEW q \in Reading, Sense(s, f, q) PROVE StrInv'
  <2>1. q \in SensedReading
    BY StructureNumbers DEF SensedReading
  <2>2. PICK r : r = [at |-> "compare", fiber |-> f, raw |-> q, reading |-> q, filled |-> FALSE]
    OBVIOUS
  <2>3. /\ r \in Sampling /\ r.at = "compare" /\ ~r.filled /\ r.reading = r.raw
    BY <2>1, <2>2 DEF Sampling, SamplePlaces
  <2>4. sampling' = [sampling EXCEPT ![s] = r]
    BY <1>7, <2>2 DEF Sense
  <2> QED BY <1>5, <2>3, <2>4
<1> QED BY <1>6, <1>7 DEF HandleFiberData

\* detectBreakpoint: what is recorded is what the comparison says.
LEMMA DetectBreakpointKeeps ==
  ASSUME StrInv, NEW s \in Sample, DetectBreakpoint(s)
  PROVE  StrInv'
<1>1. PICK f \in Fiber : f = sampling[s].fiber
  BY SamplingTyped DEF StrInv
<1>2. PICK q : q = sampling[s].raw
  OBVIOUS
<1>3. PICK b : b = [by |-> s, confidence |-> BreakConfidence(q, Preceding(fiberData[f]))]
  OBVIOUS
<1> DEFINE breaks == Len(fiberData[f]) >= 2 /\ Breaks(q, Preceding(fiberData[f]))
           r == [sampling[s] EXCEPT !.at = "fill"]
<1>4. /\ sampling[s].at = "compare" /\ sampling' = [sampling EXCEPT ![s] = r]
      /\ breakpoints' = IF breaks THEN breakpoints \cup {b} ELSE breakpoints
      /\ UNCHANGED <<sensing, fiberData, anomalies, crowded>>
  BY <1>1, <1>2, <1>3 DEF DetectBreakpoint
<1>5. /\ r \in Sampling /\ r.at = "fill" /\ r.fiber = f /\ r.raw = q
      /\ ~r.filled /\ r.reading = r.raw
  <2>1. sampling[s] \in Sampling /\ ~sampling[s].filled /\ sampling[s].reading = sampling[s].raw
    BY <1>4, SamplingTyped DEF StrInv, Unfilled
  <2> QED BY <1>1, <1>2, <2>1 DEF Sampling, SamplePlaces
<1> HIDE DEF r
<1>6. breaks => b.by = s /\ b.confidence \in {30, 40, 70, 95}
  BY <1>3 DEF Breaks, BreakConfidence
<1>7. /\ breakpoints' \subseteq [by : Sample, confidence : {30, 40, 70, 95}]
      /\ breakpoints \subseteq breakpoints'
      /\ \A c \in breakpoints' : c \in breakpoints \/ c.by = s
  <2>1. breaks => b \in [by : Sample, confidence : {30, 40, 70, 95}]
    BY <1>3, <1>6
  <2> QED BY <1>4, <1>6, <2>1 DEF StrInv, StrTyped
<1>8. ~Seen(s)
  BY <1>4 DEF StrInv, Compared
<1>9. Seen(s)' <=> breaks
  BY <1>4, <1>6, <1>8 DEF Seen
<1>10. sampling'[s] = r
  BY <1>4 DEF StrInv, StrTyped
<1>11. Compared(s)'
  BY <1>4, <1>5, <1>9, <1>10 DEF Compared
<1>12. Leans(s)' /\ Unfilled(s)'
  BY <1>5, <1>10 DEF Leans, Unfilled
<1> QED BY <1>4, <1>5, <1>7, <1>11, <1>12, SampleMoves

\* interpolateMissingData: what is filled in leans on stored readings that
\* were sent.
LEMMA InterpolateKeeps ==
  ASSUME StrInv, NEW s \in Sample, InterpolateMissingData(s)
  PROVE  StrInv'
<1>1. PICK f \in Fiber : f = sampling[s].fiber
  BY SamplingTyped DEF StrInv
<1>2. PICK q \in SensedReading : q = sampling[s].raw
  BY SamplingTyped DEF StrInv
<1>3. PICK h \in Seq(Entry) : h = fiberData[f]
  BY DEF StrInv, StrTyped
<1>4. PICK base : base = {i \in PrevValid(h) : /\ IsMissing(q) /\ Len(h) >= 2
                                              /\ InReach(q, h[i].reading)}
  OBVIOUS
<1>5. PICK i : i = CHOOSE j \in base : TRUE
  OBVIOUS
<1>6. PICK g : g = IF base = {} THEN q ELSE FilledIn(q, h, h[i].reading)
  OBVIOUS
<1>7. base # {} => /\ i \in DOMAIN h /\ ~h[i].filled /\ h[i].reading.strain # 0
                   /\ h[i].reading \in SensedReading /\ h[i] \in Entry
  <2> SUFFICES ASSUME base # {}
               PROVE  /\ i \in DOMAIN h /\ ~h[i].filled /\ h[i].reading.strain # 0
                      /\ h[i].reading \in SensedReading /\ h[i] \in Entry
    OBVIOUS
  <2>1. i \in base
    BY <1>5
  <2>2. i \in DOMAIN h /\ IsMeasured(h[i])
    BY <1>4, <2>1 DEF PrevValid
  <2>3. h[i] \in Entry
    BY <2>2
  <2> QED BY <2>2, <2>3 DEF IsMeasured, Entry
<1>8. g \in SensedReading
  BY <1>6, <1>7, FilledInReach
<1> DEFINE r == [sampling[s] EXCEPT !.at = "store", !.reading = g, !.filled = base # {}]
<1>9. /\ sampling[s].at = "fill" /\ sampling' = [sampling EXCEPT ![s] = r]
      /\ UNCHANGED <<sensing, fiberData, breakpoints, anomalies, crowded>>
  BY <1>1, <1>2, <1>3, <1>4, <1>5, <1>6 DEF InterpolateMissingData
<1>10. /\ r \in Sampling /\ r.at = "store" /\ r.fiber = f /\ r.raw = q /\ r.reading = g
       /\ r.filled <=> base # {}
  <2>1. sampling[s] \in Sampling
    BY SamplingTyped DEF StrInv
  <2> QED BY <1>1, <1>2, <1>8, <2>1 DEF Sampling, SamplePlaces
<1> HIDE DEF r
<1>11. \A t \in Sample : sampling'[t] = IF t = s THEN r ELSE sampling[t]
  BY <1>9 DEF StrInv, StrTyped
<1>12. Compared(s)'
  <2>1. Seen(s)' <=> Seen(s)
    BY <1>9 DEF Seen
  <2> QED BY <1>1, <1>2, <1>9, <1>10, <1>11, <2>1 DEF StrInv, Compared
<1>13. Unfilled(s)'
  BY <1>6, <1>10, <1>11 DEF Unfilled
<1>14. Leans(s)'
  <2> SUFFICES ASSUME base # {}
               PROVE  \E u, w \in Sent(f)' :
                        /\ sampling'[u].raw.strain # 0
                        /\ Gap(g.strain, sampling'[u].raw.strain)
                             <= MaxRatio * Gap(sampling'[u].raw.strain, sampling'[w].raw.strain)
    BY <1>10, <1>11 DEF Leans
  <2>1. ASSUME NEW j \in DOMAIN h, ~h[j].filled
        PROVE  h[j].by \in Sent(f)' /\ h[j].reading = sampling'[h[j].by].raw
    <3>1. PICK t \in Sample : t = h[j].by
      BY <1>3, EntryTyped DEF StrInv
    <3>2. StoredAs(f, j)
      BY <1>3 DEF StrInv
    <3>3. /\ sampling[t].at = "done" /\ sampling[t].fiber = f /\ ~sampling[t].filled
          /\ h[j].reading = sampling[t].raw
      BY <1>3, <2>1, <3>1, <3>2 DEF StoredAs
    <3>4. sampling'[t] = sampling[t]
      BY <1>9, <1>11, <3>3
    <3> QED BY <3>1, <3>3, <3>4 DEF Sent
  <2>2. PICK u \in Sent(f)' : h[i].reading = sampling'[u].raw
    BY <1>7, <2>1
  <2>3. PICK x \in Int : x = h[i].reading.strain /\ x # 0
    BY <1>7 DEF SensedReading
  <2>4. CASE g.strain = x
    <3>1. Gap(g.strain, x) = 0 /\ Gap(x, x) = 0 /\ MaxRatio * 0 = 0
      BY <2>4, StructureNumbers DEF Gap
    <3> QED BY <2>2, <2>3, <3>1
  <2>5. CASE /\ Len(h) >= 3 /\ ~h[Len(h) - 1].filled
             /\ Gap(g.strain, x) <= MaxRatio * Gap(x, h[Len(h) - 1].reading.strain)
    <3>1. Len(h) - 1 \in DOMAIN h
      BY <2>5
    <3>2. PICK w \in Sent(f)' : h[Len(h) - 1].reading = sampling'[w].raw
      BY <2>1, <2>5, <3>1
    <3> QED BY <2>2, <2>3, <2>5, <3>2
  <2> QED BY <1>6, <1>7, <2>3, <2>4, <2>5, FilledInReach
<1>15. /\ breakpoints' \subseteq [by : Sample, confidence : {30, 40, 70, 95}]
       /\ breakpoints \subseteq breakpoints'
       /\ \A c \in breakpoints' : c \in breakpoints \/ c.by = s
  BY <1>9 DEF StrInv, StrTyped
<1> QED BY <1>9, <1>10, <1>12, <1>13, <1>14, <1>15, SampleMoves

\* storeFiberData keeps the latest MaxStored readings in their order.
LEMMA LatestReading ==
  ASSUME NEW h \in Seq(Entry), Len(h) <= MaxStored, NEW e \in Entry
  PROVE  LET g == LatestReadings(Append(h, e))
         IN  /\ g \in Seq(Entry) /\ Len(g) <= MaxStored
             /\ \E d \in {0, 1} :
                  /\ Len(g) = Len(h) + 1 - d
                  /\ \A i \in 1 .. Len(g) :
                       g[i] = IF i + d = Len(h) + 1 THEN e ELSE h[i + d]
<1>1. PICK m \in Nat : m = Len(h)
  OBVIOUS
<1>2. PICK a \in Seq(Entry) :
        a = Append(h, e) /\ Len(a) = m + 1 /\ a[m + 1] = e /\ \A i \in 1 .. m : a[i] = h[i]
  <2>1. PICK a : a = Append(h, e)
    OBVIOUS
  <2>2. a \in Seq(Entry) /\ Len(a) = m + 1 /\ a[m + 1] = e /\ \A i \in 1 .. m : a[i] = h[i]
    BY <1>1, <2>1
  <2> QED BY <2>1, <2>2
<1>3. CASE m + 1 <= MaxStored
  <2>1. LatestReadings(a) = a
    BY <1>2, <1>3, StructureNumbers DEF LatestReadings
  <2>2. \A i \in 1 .. m + 1 : a[i] = IF i + 0 = m + 1 THEN e ELSE h[i + 0]
    BY <1>2
  <2>3. Len(a) = m + 1 - 0
    BY <1>2
  <2> QED BY <1>1, <1>2, <1>3, <2>1, <2>2, <2>3
<1>4. CASE m = MaxStored
  <2>1. LatestReadings(a) = Tail(a)
    BY <1>2, <1>4, StructureNumbers DEF LatestReadings
  <2>2. PICK g : g = Tail(a)
    OBVIOUS
  <2>3. g \in Seq(Entry) /\ Len(g) = m + 1 - 1 /\ \A i \in 1 .. m : g[i] = a[i + 1]
    BY <1>2, <2>2
  <2>4. \A i \in 1 .. m : g[i] = IF i + 1 = m + 1 THEN e ELSE h[i + 1]
    BY <1>2, <2>3
  <2>5. Len(g) = m
    BY <2>3
  <2> QED BY <1>1, <1>2, <1>4, <2>1, <2>2, <2>3, <2>4, <2>5
<1>5. m <= MaxStored /\ MaxStored \in Nat
  BY <1>1, StructureNumbers
<1> QED BY <1>3, <1>4, <1>5

\* storeFiberData: whoever is between check and store is crowded from now on,
\* and the one that is stored was compared with the one before it.
LEMMA StoreFiberKeeps ==
  ASSUME StrInv, NEW s \in Sample, StoreFiberData(s)
  PROVE  StrInv'
<1>1. PICK f \in Fiber : f = sampling[s].fiber
  BY SamplingTyped DEF StrInv
<1>2. PICK h \in Seq(Entry) : h = fiberData[f]
  BY DEF StrInv, StrTyped
<1>3. PICK e : e = [reading |-> sampling[s].reading, filled |-> sampling[s].filled, by |-> s]
  OBVIOUS
<1>4. e \in Entry /\ e.by = s /\ e.filled = sampling[s].filled /\ e.reading = sampling[s].reading
  BY <1>3, SamplingTyped DEF StrInv, Entry
<1>5. PICK g : g = LatestReadings(Append(h, e))
  OBVIOUS
<1>6. /\ sampling[s].at = "store" /\ sampling' = [sampling EXCEPT ![s].at = "done"]
      /\ UNCHANGED <<sensing, breakpoints>>
      /\ anomalies' \subseteq Anomaly
      /\ \/ fiberData' = [fiberData EXCEPT ![f] = g] /\ crowded' = crowded \cup (Comparing(f) \ {s})
         \/ UNCHANGED <<fiberData, crowded>>
  <2>1. /\ sampling[s].at = "store" /\ sampling' = [sampling EXCEPT ![s].at = "done"]
        /\ UNCHANGED <<sensing, breakpoints>>
        /\ \/ /\ fiberData' = [fiberData EXCEPT ![f] = g]
              /\ crowded' = crowded \cup (Comparing(f) \ {s})
              /\ DetectAnomaly(s)
           \/ UNCHANGED <<fiberData, crowded, anomalies>>
    BY <1>1, <1>2, <1>3, <1>5 DEF StoreFiberData
  <2>2. anomalies \subseteq Anomaly
    BY DEF StrInv, StrTyped
  <2>3. DetectAnomaly(s) => anomalies' \subseteq Anomaly
    <3>1. PICK x : x = Finding(sampling[s].reading)
      OBVIOUS
    <3>2. x[1] # "none" => x[1] \in {"crack", "water_leak"} /\ x[2] \in {"warning", "critical"}
      BY <3>1 DEF Finding
    <3>3. DetectAnomaly(s) =>
            anomalies' = IF x[1] = "none" THEN anomalies
                         ELSE anomalies \cup {[by |-> s, kind |-> x[1], severity |-> x[2]]}
      BY <3>1 DEF DetectAnomaly
    <3> QED BY <2>2, <3>2, <3>3 DEF Anomaly
  <2> QED BY <2>1, <2>2, <2>3
<1>7. /\ sampling' \in [Sample -> Sampling]
      /\ \A t \in Sample :
           /\ sampling'[t].at = IF t = s THEN "done" ELSE sampling[t].at
           /\ sampling'[t].fiber = sampling[t].fiber /\ sampling'[t].raw = sampling[t].raw
           /\ sampling'[t].reading = sampling[t].reading
           /\ sampling'[t].filled = sampling[t].filled
  <2> DEFINE r == [sampling[s] EXCEPT !.at = "done"]
  <2>1. sampling[s] \in Sampling
    BY SamplingTyped DEF StrInv
  <2>2. /\ r \in Sampling /\ r.at = "done" /\ r.fiber = sampling[s].fiber
        /\ r.raw = sampling[s].raw /\ r.reading = sampling[s].reading
        /\ r.filled = sampling[s].filled
    BY <2>1 DEF Sampling, SamplePlaces
  <2>3. sampling' = [sampling EXCEPT ![s] = r]
    BY <1>6
  <2> HIDE DEF r
  <2>4. \A t \in Sample : sampling'[t] = IF t = s THEN r ELSE sampling[t]
    BY <2>3 DEF StrInv, StrTyped
  <2> QED BY <2>2, <2>3, <2>4 DEF StrInv, StrTyped
<1>8. PICK d \in {0, 1} :
        /\ g \in Seq(Entry) /\ Len(g) <= MaxStored /\ Len(g) = Len(h) + 1 - d
        /\ \A i \in 1 .. Len(g) : g[i] = IF i + d = Len(h) + 1 THEN e ELSE h[i + d]
  <2>1. Len(h) <= MaxStored
    BY <1>2 DEF StrInv, StrTyped
  <2> QED BY <1>4, <1>5, <2>1, LatestReading
<1>9. \A t \in Sample : Seen(t)' <=> Seen(t)
  BY <1>6 DEF Seen
<1>10. StrTyped'
  <2>1. crowded' \subseteq Sample
    BY <1>6 DEF StrInv, StrTyped, Comparing
  <2>2. fiberData' \in [Fiber -> Seq(Entry)] /\ \A q \in Fiber : Len(fiberData'[q]) <= MaxStored
    BY <1>6, <1>8 DEF StrInv, StrTyped
  <2> QED BY <1>6, <1>7, <2>1, <2>2 DEF StrInv, StrTyped
<1>11. \A q \in Fiber : q # f => fiberData'[q] = fiberData[q]
  BY <1>6 DEF StrInv, StrTyped
<1>12. ASSUME NEW t \in Sample PROVE Compared(t)'
  <2>1. CASE t = s
    BY <1>7, <2>1 DEF Compared
  <2>2. CASE t # s /\ sampling[t].at \in {"idle", "compare"}
    BY <1>7, <1>9, <2>2 DEF StrInv, Compared
  <2>3. CASE t # s /\ sampling[t].at \in {"fill", "store"} /\ t \notin crowded'
    <3>1. t \notin crowded /\ Compared(t)
      BY <1>6, <2>3 DEF StrInv
    <3>2. fiberData'[sampling[t].fiber] = fiberData[sampling[t].fiber]
      <4>1. CASE sampling[t].fiber = f
        BY <1>6, <2>3, <4>1 DEF Comparing
      <4>2. CASE sampling[t].fiber # f
        BY <1>11, <4>2, SamplingTyped DEF StrInv
      <4> QED BY <4>1, <4>2
    <3> QED BY <1>7, <1>9, <2>3, <3>1, <3>2 DEF Compared
  <2>4. CASE t # s /\ sampling[t].at \in {"fill", "store"} /\ t \in crowded'
    BY <1>7, <2>4 DEF Compared
  <2>5. CASE t # s /\ sampling[t].at = "done"
    BY <1>7, <2>5 DEF Compared
  <2> QED BY <2>1, <2>2, <2>3, <2>4, <2>5, SamplingTyped DEF StrInv, SamplePlaces
<1>13. ASSUME NEW t \in Sample PROVE Unfilled(t)'
  BY <1>7 DEF StrInv, Unfilled
<1>14. ASSUME NEW t \in Sample PROVE Leans(t)'
  <2>1. PICK q : q = sampling[t].fiber
    OBVIOUS
  <2>2. Leans(t) /\ \A u \in Sent(q) : u \in Sent(q)' /\ sampling'[u].raw = sampling[u].raw
    BY <1>7 DEF StrInv, Sent
  <2> QED BY <1>7, <2>1, <2>2 DEF Leans
<1>15. ASSUME NEW q \in Fiber, NEW i \in DOMAIN fiberData[q], NEW j,
              fiberData'[q][j] = fiberData[q][i]
       PROVE  StoredAs(q, j)' /\ fiberData[q][i].by # s /\ fiberData[q][i].by \notin Comparing(f)
  <2>1. PICK t \in Sample : t = fiberData[q][i].by
    BY EntryTyped DEF StrInv
  <2>2. StoredAs(q, i)
    BY DEF StrInv
  <2>3. sampling[t].at = "done"
    BY <2>1, <2>2 DEF StoredAs
  <2>4. t # s /\ t \notin Comparing(f)
    BY <1>6, <2>3 DEF Comparing
  <2> QED BY <1>7, <1>15, <2>1, <2>2, <2>4 DEF StoredAs
<1>16. ASSUME NEW q \in Fiber, NEW i \in 3 .. Len(fiberData[q]), NEW j,
              fiberData'[q][j] = fiberData[q][i], fiberData'[q][j - 1] = fiberData[q][i - 1]
       PROVE  SeenRight(q, j)'
  <2>1. i \in DOMAIN fiberData[q]
    BY DEF StrInv, StrTyped
  <2>2. PICK t \in Sample : t = fiberData[q][i].by
    BY <2>1, EntryTyped DEF StrInv
  <2>3. t \in crowded' <=> t \in crowded
    BY <1>6, <1>15, <1>16, <2>1, <2>2
  <2>4. SeenRight(q, i)
    BY DEF StrInv
  <2> QED BY <1>7, <1>9, <1>16, <2>2, <2>3, <2>4 DEF SeenRight
<1>17. ASSUME UNCHANGED fiberData PROVE StrInv'
  <2>1. ASSUME NEW q \in Fiber, NEW i \in DOMAIN fiberData'[q] PROVE StoredAs(q, i)'
    BY <1>15, <1>17
  <2>2. ASSUME NEW q \in Fiber, NEW i \in 3 .. Len(fiberData'[q]) PROVE SeenRight(q, i)'
    BY <1>16, <1>17
  <2> QED BY <1>10, <1>12, <1>13, <1>14, <2>1, <2>2 DEF StrInv
<1>18. ASSUME fiberData' = [fiberData EXCEPT ![f] = g],
              crowded' = crowded \cup (Comparing(f) \ {s})
       PROVE  StrInv'
  <2>1. fiberData'[f] = g
    BY <1>18 DEF StrInv, StrTyped
  <2>2. PICK m \in Nat : m = Len(h)
    OBVIOUS
  <2>3. DOMAIN h = 1 .. m /\ DOMAIN g = 1 .. m + 1 - d /\ Len(g) = m + 1 - d
    BY <1>8, <2>2
  <2>4. \A i \in 1 .. m + 1 - d :
          /\ i + d \in 1 .. m + 1
          /\ i + d = m + 1 => g[i] = e
          /\ i + d # m + 1 => i + d \in 1 .. m /\ g[i] = h[i + d]
    BY <1>8, <2>2, <2>3
  <2>5. ASSUME NEW j, fiberData'[f][j] = e PROVE StoredAs(f, j)'
    <3>1. sampling'[s].at = "done" /\ sampling'[s].fiber = f /\ sampling'[s].filled = e.filled
      BY <1>1, <1>4, <1>7
    <3>2. ~e.filled => e.reading = sampling'[s].raw
      BY <1>4, <1>7 DEF StrInv, Unfilled
    <3> QED BY <1>4, <2>5, <3>1, <3>2 DEF StoredAs
  <2>6. ASSUME NEW i \in 1 .. m + 1 - d PROVE StoredAs(f, i)'
    <3>1. CASE i + d = m + 1
      BY <2>1, <2>4, <2>5, <3>1
    <3>2. CASE i + d # m + 1
      BY <1>2, <1>15, <2>1, <2>3, <2>4, <3>2
    <3> QED BY <3>1, <3>2
  <2>7. ASSUME NEW i \in 3 .. m + 1 - d PROVE SeenRight(f, i)'
    <3>1. i \in 1 .. m + 1 - d /\ i - 1 \in 1 .. m + 1 - d
      OBVIOUS
    <3>2. (i - 1) + d # m + 1 /\ (i - 1) + d = (i + d) - 1
      OBVIOUS
    <3>3. g[i - 1] = h[(i + d) - 1]
      BY <2>4, <3>1, <3>2
    <3>4. CASE i + d = m + 1
      <4>1. m >= 2 /\ (i + d) - 1 = m
        BY <3>4
      <4>2. g[i] = e /\ g[i - 1] = Last(h)
        BY <2>2, <2>4, <3>1, <3>3, <3>4, <4>1 DEF Last
      <4>3. s \notin crowded => (Seen(s) <=> Breaks(sampling[s].raw, Preceding(h)))
        BY <1>1, <1>2, <1>6, <2>2, <4>1 DEF StrInv, Compared
      <4>4. s \notin crowded' => s \notin crowded
        BY <1>18
      <4> QED BY <1>4, <1>7, <1>9, <2>1, <4>2, <4>3, <4>4 DEF SeenRight, Preceding
    <3>5. CASE i + d # m + 1
      <4>1. g[i] = h[i + d] /\ i + d \in 3 .. m
        BY <2>4, <3>1, <3>5
      <4> QED BY <1>2, <1>16, <2>1, <2>2, <3>3, <4>1
    <3> QED BY <3>4, <3>5
  <2>8. ASSUME NEW q \in Fiber, NEW i \in DOMAIN fiberData'[q] PROVE StoredAs(q, i)'
    <3>1. CASE q = f
      BY <2>1, <2>3, <2>6, <3>1
    <3>2. CASE q # f
      BY <1>11, <1>15, <3>2
    <3> QED BY <3>1, <3>2
  <2>9. ASSUME NEW q \in Fiber, NEW i \in 3 .. Len(fiberData'[q]) PROVE SeenRight(q, i)'
    <3>1. CASE q = f
      BY <2>1, <2>3, <2>7, <3>1
    <3>2. CASE q # f
      BY <1>11, <1>16, <3>2
    <3> QED BY <3>1, <3>2
  <2> QED BY <1>10, <1>12, <1>13, <1>14, <2>8, <2>9 DEF StrInv
<1> QED BY <1>6, <1>17, <1>18

\* The steps of the monitor inside the composition.
StrNext ==
  \/ \E s \in Sample : HandleFiberData(s)
  \/ StrStep
  \/ UNCHANGED strVars

\* Every step of the monitor keeps the invariant.
LEMMA StrNextKeeps == StrInv /\ StrNext => StrInv'
<1> SUFFICES ASSUME StrInv, StrNext PROVE StrInv'
  OBVIOUS
<1>1. CASE StopSensing \/ UNCHANGED strVars
  <2>1. sensing' \in BOOLEAN /\ UNCHANGED <<sampling, fiberData, breakpoints, anomalies, crowded>>
    BY <1>1 DEF StopSensing, strVars, StrInv, StrTyped
  <2>2. StrTyped'
    BY <2>1 DEF StrInv, StrTyped
  <2> QED BY <2>1, <2>2 DEF StrInv, Compared, Leans, Unfilled, Seen, Sent, StoredAs, SeenRight
<1> QED BY <1>1, SenseKeeps, DetectBreakpointKeeps, InterpolateKeeps, StoreFiberKeeps
        DEF StrNext, StrStep

\* The other monitors leave the fiber readings alone.
LEMMA NextIsStrNext == [Next]_vars => StrNext
<1> SUFFICES ASSUME [Next]_vars PROVE StrNext
  OBVIOUS
<1>1. CASE Structural \/ \E s \in Sample : HandleFiberData(s)
  BY <1>1 DEF Structural, StrNext
<1>2. CASE \/ Corroding
           \/ \E i \in Inspection : AddCorrosionInspection(i) \/ SimulateInspection(i)
           \/ Calorific \/ \E c \in Composition : HandleComposition(c)
           \/ UNCHANGED vars
  BY <1>2 DEF Corroding, AddCorrosionInspection, SimulateInspection, Calorific,
              HandleComposition, vars, StrNext
<1> QED BY <1>1, <1>2 DEF Next

\* The inductive invariant of the fiber monitor, its types included: the
\* history of a device stays within MaxStored and holds what goroutines
\* stored.
THEOREM StrInvariant == Spec => []StrInv
<1>1. StrInv /\ [Next]_vars => StrInv'
  BY NextIsStrNext, StrNextKeeps
<1> QED BY <1>1, InitStr, PTL DEF Spec

\* The check for a breakpoint and the store are two critical sections; a
\* reading that had them to itself is a breakpoint exactly if it breaks away
\* from the one before it in the history, whatever is filled in or dropped.
THEOREM BreakpointsAreReal == Spec => []BreaksAreSeen
<1>1. StrInv => BreaksAreSeen
  BY DEF StrInv, SeenRight, Seen, BreaksAreSeen
<1> QED BY <1>1, StrInvariant, PTL

\* However many readings are missing in a row, a strain that was made up lies
\* within MaxRatio times the step between two strains that devices sent.
THEOREM FilledInStays == Spec => []InterpolationDoesNotDrift
<1>1. StrInv => InterpolationDoesNotDrift
  <2> SUFFICES ASSUME StrInv, NEW s \in Sample, sampling[s].filled
               PROVE  \E u, w \in {t \in Sample : ~sampling[t].filled
                                       /\ sampling[t].fiber = sampling[s].fiber} :
                        /\ sampling[u].raw.strain # 0
                        /\ Gap(sampling[s].reading.strain, sampling[u].raw.strain)
                             <= MaxRatio * Gap(sampling[u].raw.strain, sampling[w].raw.strain)
    BY DEF InterpolationDoesNotDrift
  <2>1. Leans(s)
    BY DEF StrInv
  <2> QED BY <2>1 DEF Leans, Sent
<1> QED BY <1>1, StrInvariant, PTL

\* Only known places and confidences, and the four kinds and severities of
\* anomaly that detectAnomaly tells apart, are recorded, whatever is sent or
\* filled in, and what is stored stays within MaxStored.
THEOREM MonitorTyped == Spec => []StrTypeOK
<1>1. StrInv => StrTypeOK
  <2> SUFFICES ASSUME StrInv PROVE StrTypeOK
    OBVIOUS
  <2>1. \A s \in Sample : sampling[s].at \in SamplePlaces /\ sampling[s].fiber \in Fiber
    BY SamplingTyped DEF StrInv
  <2>2. \A f \in Fiber : \A i \in DOMAIN fiberData[f] : fiberData[f][i].by \in Sample
    BY EntryTyped DEF StrInv
  <2> QED BY <2>1, <2>2 DEF StrInv, StrTyped, StrTypeOK, SamplePlaces, Anomaly
<1> QED BY <1>1, StrInvariant, PTL
===============================================================================
