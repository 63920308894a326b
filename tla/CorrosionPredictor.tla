--------------------------- MODULE CorrosionPredictor ---------------------------
(***************************************************************************)
(* backend/modules/corrosion_predictor/corrosion_predictor.go: inspections *)
(* arrive in concurrent HTTP requests, and the loop of scheduledPrediction *)
(* adds predicted ones.  The history of a pipe is read, cut after a        *)
(* repair, extended and read again in separate critical sections.          *)
(*                                                                         *)
(* Thickness and time are whole numbers, a year is one unit.  The grey     *)
(* model and the exponential fit may predict any rate; what follows from   *)
(* the rate (remaining life, priority) is then arithmetic on one record.   *)
(***************************************************************************)
EXTENDS Integers, Sequences, SequencesExt

CONSTANTS
  Pipe,
  Inspection,            \* inspections and predictions; each is handled once
  Thickness,             \* current wall thickness an inspection may report
  OriginalWallThickness,
  Rate,                  \* rates the prediction models may return
  RepairRatio,           \* percent of the original wall (10 by default)
  MinRepairThickness,
  HighPriorityRate, MediumPriorityRate, MinWallThickness, ReplacementRatio,
  Years,                 \* bound: inspection dates
  MaxInspections         \* kept per pipe (50 in the code)

ASSUME CorrosionNumbers ==
  /\ Thickness \subseteq Int /\ OriginalWallThickness \in Nat \ {0}
  /\ Rate \subseteq Nat /\ Years \subseteq Nat
  /\ {RepairRatio, MinRepairThickness, HighPriorityRate, MediumPriorityRate,
      MinWallThickness, ReplacementRatio} \subseteq Nat
  /\ MaxInspections \in Nat /\ MaxInspections >= 2
  /\ Pipe # {}

VARIABLES
  predicting,   \* CorrosionPredictor.running
  inspecting,   \* per inspection: where its handler is, and the data it fills in
  pipeData,     \* pipe -> the inspections its history consists of
  resting,      \* pipes whose lastResetTime is within ModelResetCoolDown
  repairs,      \* inspections taken for a repair
  schedule,     \* scheduledPrediction: pipes its round has still to look at
  scheduled,    \* and the inspection it is handling, if any
  filed,        \* pipe -> every inspection stored so far, in order
  overtaken     \* inspections with another one filed, or the history cut,
                \* between their store and the reading for the rate

corVars == <<predicting, inspecting, pipeData, resting, repairs, schedule, scheduled,
             filed, overtaken>>

Nobody == {}

CorInit ==
  /\ predicting = TRUE
  /\ inspecting = [i \in Inspection |->
                     [at |-> "idle", pipe |-> CHOOSE p \in Pipe : TRUE, thickness |-> 0,
                      date |-> 0, rate |-> 0, predicted |-> 0, priority |-> "none"]]
  /\ pipeData = [p \in Pipe |-> <<>>]
  /\ resting = {} /\ repairs = {} /\ schedule = {} /\ scheduled = Nobody
  /\ filed = [p \in Pipe |-> <<>>] /\ overtaken = {}

Inspected(i) == inspecting[i].thickness
PipeOf(i)    == inspecting[i].pipe

IsValidThickness(t) == t > 0 /\ t <= OriginalWallThickness

Enter(i, p, t, year) ==
  /\ inspecting[i].at = "idle" /\ predicting
  /\ inspecting' = [inspecting EXCEPT
       ![i].at = IF IsValidThickness(t) THEN "detect" ELSE "done",
       ![i].pipe = p, ![i].thickness = t, ![i].date = year]

-------------------------------------------------------------------------------
(* ProcessInspectionData *)

Inspect(i, p, t, year) ==
  /\ Enter(i, p, t, year)
  /\ UNCHANGED <<predicting, pipeData, resting, repairs, schedule, scheduled, filed, overtaken>>

DismissInspection(i) ==
  /\ inspecting[i].at = "idle" /\ ~predicting
  /\ inspecting' = [inspecting EXCEPT ![i].at = "done"]
  /\ UNCHANGED <<predicting, pipeData, resting, repairs, schedule, scheduled, filed, overtaken>>

\* Shares of the original wall are compared in percent.
IsRepair(gain) ==
  gain > 0 /\ (100 * gain >= RepairRatio * OriginalWallThickness \/ gain >= MinRepairThickness)

\* The confidence of the repair is 0.8 or more.
IsSure(gain) == 200 * gain >= 3 * RepairRatio * OriginalWallThickness

DetectRepairEvent(i) ==
  /\ inspecting[i].at = "detect"
  /\ LET history == pipeData[PipeOf(i)]
         gain    == Inspected(i) - Inspected(Last(history))
         repair  == history # <<>> /\ PipeOf(i) \notin resting /\ IsRepair(gain)
     IN /\ repairs' = IF repair THEN repairs \cup {i} ELSE repairs
        /\ inspecting' = [inspecting EXCEPT
                            ![i].at = IF repair /\ IsSure(gain) THEN "reset" ELSE "store"]
  /\ UNCHANGED <<predicting, pipeData, resting, schedule, scheduled, filed, overtaken>>

\* Mutant of Baseline: nothing is kept.
NoBaseline(history) == SubSeq(history, 1, 0)

\* The latest inspection, the one before the repair, is the new baseline.
Baseline(history) == SubSeq(history, Len(history), Len(history))

AboutToRate(p) == {j \in Inspection : PipeOf(j) = p /\ inspecting[j].at = "rate"}

ResetModelForPipe(i) ==
  /\ inspecting[i].at = "reset"
  /\ pipeData' = [pipeData EXCEPT ![PipeOf(i)] = Baseline(@)]
  /\ resting' = resting \cup {PipeOf(i)}
  /\ overtaken' = overtaken \cup AboutToRate(PipeOf(i))
  /\ inspecting' = [inspecting EXCEPT ![i].at = "store"]
  /\ UNCHANGED <<predicting, repairs, schedule, scheduled, filed>>

LatestInspections(history) == IF Len(history) > MaxInspections THEN Tail(history) ELSE history

StoreInspectionData(i) ==
  /\ inspecting[i].at = "store"
  /\ LET p == PipeOf(i)
     IN /\ pipeData' = [pipeData EXCEPT ![p] = LatestInspections(Append(@, i))]
        /\ filed' = [filed EXCEPT ![p] = Append(@, i)]
        /\ overtaken' = overtaken \cup AboutToRate(p)
  /\ inspecting' = [inspecting EXCEPT ![i].at = "rate"]
  /\ UNCHANGED <<predicting, resting, repairs, schedule, scheduled>>

LossPerYear(i, previous) ==
  LET years == inspecting[i].date - inspecting[previous].date
      loss  == Inspected(previous) - Inspected(i)
  IN IF years <= 0 \/ loss <= 0 THEN 0 ELSE loss \div years

\* The previous inspection is whichever is in the last place but one by now.
RateBy(i, history) ==
  IF Len(history) < 2 THEN OriginalWallThickness - Inspected(i)
  ELSE LossPerYear(i, history[Len(history) - 1])

CalculateCorrosionRate(i) ==
  /\ inspecting[i].at = "rate"
  /\ inspecting' = [inspecting EXCEPT ![i].at = "predict",
                                      ![i].rate = RateBy(i, pipeData[PipeOf(i)])]
  /\ UNCHANGED <<predicting, pipeData, resting, repairs, schedule, scheduled, filed, overtaken>>

\* In years; 50 if nothing is lost.
RemainingLife(i, rate) ==
  IF rate = 0 THEN 50
  ELSE IF Inspected(i) > MinWallThickness THEN (Inspected(i) - MinWallThickness) \div rate ELSE 0

RatioAtMost(i, percent) == 100 * Inspected(i) <= percent * OriginalWallThickness

ByRate(i) ==
  IF inspecting[i].rate >= HighPriorityRate \/ RatioAtMost(i, ReplacementRatio) THEN "high"
  ELSE IF inspecting[i].rate >= MediumPriorityRate \/ RatioAtMost(i, ReplacementRatio + 15)
    THEN "medium" ELSE "low"

\* determineReplacementPriority
Priority(i, life) ==
  IF life < 2 THEN "high"
  ELSE IF life < 5 /\ ByRate(i) = "low" THEN "medium" ELSE ByRate(i)

\* runPrediction sends the prediction and writes the record in place, the
\* priority follows, and the row is saved with both.
RunPrediction(i) ==
  /\ inspecting[i].at = "predict"
  /\ \E rate \in Rate :
       inspecting' = [inspecting EXCEPT ![i].at = "done", ![i].predicted = rate,
                                        ![i].priority = Priority(i, RemainingLife(i, rate))]
  /\ scheduled' = scheduled \ {i}
  /\ UNCHANGED <<predicting, pipeData, resting, repairs, schedule, filed, overtaken>>

Process(i) ==
  \/ DetectRepairEvent(i) \/ ResetModelForPipe(i)
  \/ StoreInspectionData(i) \/ CalculateCorrosionRate(i) \/ RunPrediction(i)

-------------------------------------------------------------------------------
(* scheduledPrediction *)

BeginRound ==
  /\ predicting /\ schedule = {} /\ scheduled = Nobody
  /\ schedule' = {p \in Pipe : pipeData[p] # <<>>}
  /\ schedule' # {}
  /\ UNCHANGED <<predicting, inspecting, pipeData, resting, repairs, scheduled, filed, overtaken>>

\* A quarter of a year at the predicted rate is taken off.  The prediction
\* is handled as if it had been measured, before the next pipe is looked at.
Simulate(i, p, year) ==
  /\ p \in schedule /\ scheduled = Nobody
  /\ schedule' = schedule \ {p}
  /\ LET latest == Last(pipeData[p])
     IN /\ year > inspecting[latest].date
        /\ Enter(i, p, Inspected(latest) - (inspecting[latest].predicted + 3) \div 4, year)
  /\ scheduled' = IF inspecting'[i].at = "done" THEN Nobody ELSE {i}
  /\ UNCHANGED <<predicting, pipeData, resting, repairs, filed, overtaken>>

\* The latest inspection is recent, or the module has stopped.
PassOver(p) ==
  /\ p \in schedule /\ scheduled = Nobody
  /\ schedule' = schedule \ {p}
  /\ UNCHANGED <<predicting, inspecting, pipeData, resting, repairs, scheduled, filed, overtaken>>

-------------------------------------------------------------------------------
\* ModelResetCoolDown passes; with the default of 0 it does so at once.
Rested(p) ==
  /\ p \in resting
  /\ resting' = resting \ {p}
  /\ UNCHANGED <<predicting, inspecting, pipeData, repairs, schedule, scheduled, filed, overtaken>>

StopPredicting ==
  /\ predicting
  /\ predicting' = FALSE
  /\ UNCHANGED <<inspecting, pipeData, resting, repairs, schedule, scheduled, filed, overtaken>>

CorStep ==
  \/ \E i \in Inspection : Process(i)
  \/ BeginRound
  \/ \E p \in Pipe : PassOver(p) \/ Rested(p)
  \/ StopPredicting

-------------------------------------------------------------------------------
(* Properties *)

CorTypeOK ==
  /\ predicting \in BOOLEAN
  /\ \A i \in Inspection :
       /\ inspecting[i].at \in {"idle", "detect", "reset", "store", "rate", "predict", "done"}
       /\ inspecting[i].pipe \in Pipe /\ inspecting[i].rate \in Nat
       /\ inspecting[i].priority \in {"none", "low", "medium", "high"}
  /\ \A p \in Pipe : pipeData[p] \in Seq(Inspection) /\ Len(pipeData[p]) <= MaxInspections
  /\ resting \subseteq Pipe /\ repairs \subseteq Inspection /\ schedule \subseteq Pipe
  /\ scheduled \subseteq Inspection /\ overtaken \subseteq Inspection

(* Whatever resets, predictions and other inspections come in between, the  *)
(* rate of an inspection compares it with the one filed just before it, and *)
(* with the original wall only if it is the first of its pipe, unless       *)
(* another one of the pipe was filed, or cut the history, in between.       *)
RateIsOfNeighbours ==
  \A p \in Pipe : \A k \in DOMAIN filed[p] :
    LET i == filed[p][k]
    IN inspecting[i].at \in {"predict", "done"} /\ i \notin overtaken =>
         inspecting[i].rate = IF k = 1 THEN OriginalWallThickness - Inspected(i)
                              ELSE LossPerYear(i, filed[p][k - 1])
===============================================================================
