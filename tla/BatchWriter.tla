------------------------------ MODULE BatchWriter ------------------------------
(***************************************************************************)
(* The batch of sensor data in backend/services/database.go: writers add   *)
(* points under batchMutex, a timer and, when the batch is full, a         *)
(* goroutine take them out under it and hand them to the InfluxDB client   *)
(* after releasing it. Close flushes what is left and closes the client.   *)
(***************************************************************************)
EXTENDS Integers, FiniteSets

CONSTANTS
  Point,
  BatchSize

ASSUME BatchNumbers == BatchSize \in Nat \ {0}

VARIABLES
  batchPoints,  \* points added and not taken out
  due,          \* goroutines of flushBatch that have not taken the mutex
  hands,        \* batches taken out and not yet handed over
  timer,        \* "set", "busy" while its function runs, "stopped"
  timerHand,    \* the batch the timer has taken out
  closing,      \* Close: "no", "flush", "hand", "shut", "closed"
  closeHand,    \* the batch Close has taken out
  delivered,    \* points the client has taken
  lost          \* points handed to the client after it was closed

batchVars == <<batchPoints, due, hands, timer, timerHand, closing, closeHand, delivered, lost>>

BatchInit ==
  /\ batchPoints = {} /\ due = 0 /\ hands = {}
  /\ timer = "set" /\ timerHand = {}
  /\ closing = "no" /\ closeHand = {}
  /\ delivered = {} /\ lost = {}

-------------------------------------------------------------------------------
WriteSensorData(p) ==
  /\ batchPoints' = batchPoints \cup {p}
  /\ due' = due + (IF Cardinality(batchPoints') >= BatchSize THEN 1 ELSE 0)
  /\ UNCHANGED <<hands, timer, timerHand, closing, closeHand, delivered, lost>>

\* Mutant of Emptied: the slice is handed over and kept.
KeptAfterFlush(points) == points

Emptied(points) == points \ points

\* flushBatch up to the unlock, in a goroutine of its own.
TakeBatch ==
  /\ due > 0
  /\ due' = due - 1
  /\ hands' = IF batchPoints = {} THEN hands ELSE hands \cup {batchPoints}
  /\ batchPoints' = Emptied(batchPoints)
  /\ UNCHANGED <<timer, timerHand, closing, closeHand, delivered, lost>>

\* WritePoint: what a closed client is given is gone.
HandOver(points) ==
  IF closing = "closed"
    THEN lost' = lost \cup points /\ UNCHANGED delivered
    ELSE delivered' = delivered \cup points /\ UNCHANGED lost

GiveBatch ==
  /\ \E h \in hands : HandOver(h) /\ hands' = hands \ {h}
  /\ UNCHANGED <<batchPoints, due, timer, timerHand, closing, closeHand>>

TimerFires ==
  /\ timer = "set"
  /\ timer' = "busy"
  /\ timerHand' = batchPoints
  /\ batchPoints' = Emptied(batchPoints)
  /\ UNCHANGED <<due, hands, closing, closeHand, delivered, lost>>

\* Mutant of Reset: the timer fires once.
NoReset(t) == "stopped"

Reset(t) == "set"

\* Reset starts the timer again, even one that Close has stopped meanwhile.
TimerDone ==
  /\ timer = "busy"
  /\ HandOver(timerHand)
  /\ timer' = Reset(timer)
  /\ timerHand' = {}
  /\ UNCHANGED <<batchPoints, due, hands, closing, closeHand>>

-------------------------------------------------------------------------------
(* Close *)

CloseBegins ==
  /\ closing = "no"
  /\ closing' = "flush"
  /\ timer' = IF timer = "set" THEN "stopped" ELSE timer
  /\ UNCHANGED <<batchPoints, due, hands, timerHand, closeHand, delivered, lost>>

CloseTakes ==
  /\ closing = "flush"
  /\ closing' = "hand"
  /\ closeHand' = batchPoints
  /\ batchPoints' = Emptied(batchPoints)
  /\ UNCHANGED <<due, hands, timer, timerHand, delivered, lost>>

CloseHandsOver ==
  /\ closing = "hand"
  /\ HandOver(closeHand)
  /\ closing' = "shut" /\ closeHand' = {}
  /\ UNCHANGED <<batchPoints, due, hands, timer, timerHand>>

\* The PostgreSQL pool is closed, the client flushed and closed.
ClientCloses ==
  /\ closing = "shut"
  /\ closing' = "closed"
  /\ UNCHANGED <<batchPoints, due, hands, timer, timerHand, closeHand, delivered, lost>>

CloseStep == CloseTakes \/ CloseHandsOver \/ ClientCloses
BatchStep == TakeBatch \/ GiveBatch \/ TimerFires \/ TimerDone

-------------------------------------------------------------------------------
(* Properties *)

BatchTypeOK ==
  /\ batchPoints \subseteq Point /\ due \in Nat
  /\ hands \subseteq SUBSET Point
  /\ timer \in {"set", "busy", "stopped"} /\ timerHand \subseteq Point
  /\ closing \in {"no", "flush", "hand", "shut", "closed"} /\ closeHand \subseteq Point
  /\ delivered \subseteq Point /\ lost \subseteq Point

InHand == (UNION hands) \cup timerHand \cup closeHand

(* Timer, full batches and Close take points out concurrently: no point is in *)
(* two hands or handed over twice, and a point is lost only once the client   *)
(* is closed.                                                                 *)
PointsTakenOnce ==
  /\ batchPoints \cap (InHand \cup delivered \cup lost) = {}
  /\ InHand \cap (delivered \cup lost) = {} /\ delivered \cap lost = {}
  /\ \A h \in hands : h \cap ((UNION (hands \ {h})) \cup timerHand \cup closeHand) = {}
  /\ timerHand \cap closeHand = {}
  /\ lost # {} => closing = "closed"
===============================================================================
