---------------------------- MODULE StructureMonitor ----------------------------
(***************************************************************************)
(* backend/modules/structure_monitor/structure_monitor.go: every fiber     *)
(* reading is handled in a goroutine of its own, which compares it with    *)
(* the stored ones, fills it in if it is empty and stores it in three      *)
(* separate critical sections, and then looks for an anomaly.              *)
(*                                                                         *)
(* Strain, Brillouin shift, temperature and time are whole numbers here;   *)
(* an extrapolated value is rounded down.  No device calls a reading it    *)
(* sends "interpolated": that is what filled stands for.                   *)
(***************************************************************************)
EXTENDS Integers, Sequences, SequencesExt

CONSTANTS
  Fiber,            \* devices
  Reading,          \* what a device may send: a subset of SensedReading
  Sample,           \* messages; each is handled once
  StrainJumpThreshold, BrillouinJumpThreshold, DataGapTimeout,
  MaxInterpolationDistance,     \* these four are off if 0
  StrainWarningThreshold, StrainAlarmThreshold,
  TemperatureWarningThreshold, TemperatureAlarmThreshold,
  MaxStrain, MaxPosition,   \* validate refuses more (10000, 30000 in the code)
  MinTemperature, MaxTemperature,   \* and what lies outside (-50, 200)
  MaxRatio,         \* an extrapolation reaches less far (5 in the code)
  MaxStored         \* readings kept per device (100 in the code)

\* A position may be negative: validate refuses it.
SensedReading ==
  [strain : Int, shift : Int, temperature : Int, status : {"valid", "unknown"},
   time : Nat, position : Int]

ASSUME StructureNumbers ==
  /\ Reading \subseteq SensedReading
  /\ {StrainJumpThreshold, BrillouinJumpThreshold, DataGapTimeout,
      MaxInterpolationDistance, MaxStrain, MaxRatio} \subseteq Nat
  /\ {StrainWarningThreshold, StrainAlarmThreshold, MaxPosition} \subseteq Nat
  /\ {TemperatureWarningThreshold, TemperatureAlarmThreshold, MinTemperature,
      MaxTemperature} \subseteq Int
  /\ MaxStored \in Nat /\ MaxStored >= 2
  /\ Fiber # {}

VARIABLES
  sensing,      \* StructureMonitor.running
  sampling,     \* per message: where its goroutine is and what it holds
  fiberData,    \* stored readings, [reading, filled, by]
  breakpoints,  \* breakpoints recorded: [by, confidence], in percent
  anomalies,    \* anomalies raised: [by, kind, severity]
  crowded       \* messages that saw another one of their device stored
                \* between their breakpoint check and their own store

strVars == <<sensing, sampling, fiberData, breakpoints, anomalies, crowded>>

Empty == [strain |-> 0, shift |-> 0, temperature |-> 0, status |-> "unknown",
          time |-> 0, position |-> 0]

StrInit ==
  /\ sensing = TRUE
  /\ sampling = [s \in Sample |-> [at |-> "idle", fiber |-> CHOOSE f \in Fiber : TRUE,
                                   raw |-> Empty, reading |-> Empty, filled |-> FALSE]]
  /\ fiberData = [f \in Fiber |-> <<>>]
  /\ breakpoints = {} /\ anomalies = {} /\ crowded = {}

Gap(m, n) == IF m < n THEN n - m ELSE m - n

-------------------------------------------------------------------------------
(* ProcessFiberData *)

DismissSample(s) ==
  /\ sampling[s].at = "idle" /\ ~sensing
  /\ sampling' = [sampling EXCEPT ![s].at = "done"]
  /\ UNCHANGED <<sensing, fiberData, breakpoints, anomalies, crowded>>

Sense(s, f, r) ==
  /\ sampling[s].at = "idle" /\ sensing
  /\ sampling' = [sampling EXCEPT ![s] = [at |-> "compare", fiber |-> f, raw |-> r,
                                          reading |-> r, filled |-> FALSE]]
  /\ UNCHANGED <<sensing, fiberData, breakpoints, anomalies, crowded>>

Exceeds(n, threshold) == threshold > 0 /\ n > threshold

StrainJumps(r, last) == Exceeds(Gap(r.strain, last.strain), StrainJumpThreshold)
ShiftJumps(r, last)  == Exceeds(Gap(r.shift, last.shift), BrillouinJumpThreshold)
Interrupted(r, last) == Exceeds(r.time - last.time, DataGapTimeout)

Jumps(r, last)  == StrainJumps(r, last) \/ ShiftJumps(r, last)
Breaks(r, last) == Jumps(r, last) \/ Interrupted(r, last)

BreakConfidence(r, last) ==
  IF StrainJumps(r, last) /\ ShiftJumps(r, last) THEN 95
  ELSE (IF Jumps(r, last) THEN 40 ELSE 0) + (IF Interrupted(r, last) THEN 30 ELSE 0)

\* Mutant of Preceding: the other reading the code looks up, prevData.
LastButOne(history) == history[Len(history) - 1].reading

Preceding(history) == Last(history).reading

DetectBreakpoint(s) ==
  /\ sampling[s].at = "compare"
  /\ LET history == fiberData[sampling[s].fiber]
         r       == sampling[s].raw
     IN breakpoints' =
          IF Len(history) >= 2 /\ Breaks(r, Preceding(history))
            THEN breakpoints \cup
                   {[by |-> s, confidence |-> BreakConfidence(r, Preceding(history))]}
            ELSE breakpoints
  /\ sampling' = [sampling EXCEPT ![s].at = "fill"]
  /\ UNCHANGED <<sensing, fiberData, anomalies, crowded>>

-------------------------------------------------------------------------------
(* interpolateMissingData *)

\* Zeros that the device calls valid are taken as they are.
IsMissing(r) == r.status # "valid" /\ r.strain = 0 /\ r.shift = 0

\* Mutant of IsMeasured: a reading that was filled in counts as well.
AnyStrain(entry) == entry.reading.strain # 0

IsMeasured(entry) == ~entry.filled /\ entry.reading.strain # 0

\* The latest of the measured readings, as a set of at most one index.
PrevValid(history) ==
  {i \in DOMAIN history : /\ IsMeasured(history[i])
                          /\ \A j \in i + 1 .. Len(history) : ~IsMeasured(history[j])}

InReach(r, prev) ==
  MaxInterpolationDistance = 0 \/ Gap(r.position, prev.position) <= MaxInterpolationDistance

\* timeRatio is positive and below MaxRatio.
Extrapolates(r, prev, older) ==
  LET ahead == r.time - prev.time
      step  == prev.time - older.time
  IN ahead * step > 0 /\ Gap(ahead, 0) < MaxRatio * Gap(step, 0)

Line(from, slope, ahead, step) == from + (slope * ahead) \div step

Extrapolated(r, prev, older) ==
  LET ahead == r.time - prev.time
      step  == prev.time - older.time
      on(x, y) == IF step > 0 THEN Line(x, x - y, ahead, step) ELSE Line(x, x - y, -ahead, -step)
  IN [r EXCEPT !.strain = on(prev.strain, older.strain),
               !.temperature = on(prev.temperature, older.temperature),
               !.shift = on(prev.shift, older.shift)]

\* The reading in the last place but one is the older one wherever prev is.
FilledIn(r, history, prev) ==
  LET older == history[Len(history) - 1]
  IN IF Len(history) >= 3 /\ ~older.filled /\ Extrapolates(r, prev, older.reading)
       THEN Extrapolated(r, prev, older.reading)
       ELSE [r EXCEPT !.strain = prev.strain, !.temperature = prev.temperature,
                      !.shift = prev.shift]

InterpolateMissingData(s) ==
  /\ sampling[s].at = "fill"
  /\ LET history == fiberData[sampling[s].fiber]
         r       == sampling[s].raw
         base    == {i \in PrevValid(history) : /\ IsMissing(r) /\ Len(history) >= 2
                                                /\ InReach(r, history[i].reading)}
     IN sampling' = [sampling EXCEPT
          ![s].at      = "store",
          ![s].reading = IF base = {} THEN r
                         ELSE FilledIn(r, history, history[CHOOSE i \in base : TRUE].reading),
          ![s].filled  = base # {}]
  /\ UNCHANGED <<sensing, fiberData, breakpoints, anomalies, crowded>>

-------------------------------------------------------------------------------
(* validate, storeFiberData, detectAnomaly *)

IsValid(r) ==
  /\ r.position \in 0 .. MaxPosition
  /\ Gap(r.strain, 0) <= MaxStrain
  /\ r.temperature \in MinTemperature .. MaxTemperature

Comparing(f) == {s \in Sample : sampling[s].fiber = f /\ sampling[s].at \in {"fill", "store"}}

LatestReadings(history) == IF Len(history) > MaxStored THEN Tail(history) ELSE history

\* The first of the four conditions that holds counts.
Finding(r) ==
  IF r.strain > StrainAlarmThreshold THEN <<"crack", "critical">>
  ELSE IF r.strain > StrainWarningThreshold THEN <<"crack", "warning">>
  ELSE IF r.temperature > TemperatureAlarmThreshold THEN <<"water_leak", "critical">>
  ELSE IF r.temperature > TemperatureWarningThreshold THEN <<"water_leak", "warning">>
  ELSE <<"none", "none">>

\* What comes after the store works on the reading itself; the mean and the
\* confidence, read in critical sections of their own, only adorn the anomaly.
DetectAnomaly(s) ==
  LET finding == Finding(sampling[s].reading)
  IN anomalies' = IF finding[1] = "none" THEN anomalies
                  ELSE anomalies \cup {[by |-> s, kind |-> finding[1], severity |-> finding[2]]}

StoreFiberData(s) ==
  /\ sampling[s].at = "store"
  /\ LET f == sampling[s].fiber
     IN IF IsValid(sampling[s].reading)
          THEN /\ fiberData' = [fiberData EXCEPT ![f] = LatestReadings(Append(@,
                     [reading |-> sampling[s].reading, filled |-> sampling[s].filled, by |-> s]))]
               /\ crowded' = crowded \cup (Comparing(f) \ {s})
               /\ DetectAnomaly(s)
          ELSE UNCHANGED <<fiberData, crowded, anomalies>>
  /\ sampling' = [sampling EXCEPT ![s].at = "done"]
  /\ UNCHANGED <<sensing, breakpoints>>

StopSensing ==
  /\ sensing
  /\ sensing' = FALSE
  /\ UNCHANGED <<sampling, fiberData, breakpoints, anomalies, crowded>>

StrStep ==
  \/ \E s \in Sample : DetectBreakpoint(s) \/ InterpolateMissingData(s) \/ StoreFiberData(s)
  \/ StopSensing

-------------------------------------------------------------------------------
(* Properties *)

StrTypeOK ==
  /\ sensing \in BOOLEAN
  /\ \A s \in Sample :
       /\ sampling[s].at \in {"idle", "compare", "fill", "store", "done"}
       /\ sampling[s].fiber \in Fiber
  /\ \A f \in Fiber : /\ Len(fiberData[f]) <= MaxStored
                      /\ \A i \in DOMAIN fiberData[f] : fiberData[f][i].by \in Sample
  /\ breakpoints \subseteq [by : Sample, confidence : {30, 40, 70, 95}]
  /\ anomalies \subseteq [by : Sample, kind : {"crack", "water_leak"},
                         severity : {"warning", "critical"}]
  /\ crowded \subseteq Sample

(* Filling in does not feed on itself: however many readings are missing in *)
(* a row, and in whatever order their goroutines run, a strain that was     *)
(* made up lies within MaxRatio times the step between two strains that     *)
(* devices sent, from one of them.                                         *)
InterpolationDoesNotDrift ==
  \A s \in Sample :
    sampling[s].filled =>
      \E u, w \in {t \in Sample : ~sampling[t].filled /\ sampling[t].fiber = sampling[s].fiber} :
        LET a == sampling[u].raw.strain
            b == sampling[w].raw.strain
        IN /\ a # 0
           /\ Gap(sampling[s].reading.strain, a) <= MaxRatio * Gap(a, b)

(* The check for a breakpoint and the store are two critical sections.  For *)
(* a reading that had them to itself, a breakpoint is recorded exactly if   *)
(* it breaks away from the reading that precedes it in the stored history.  *)
BreaksAreSeen ==
  \A f \in Fiber : \A i \in 3 .. Len(fiberData[f]) :
    LET s == fiberData[f][i].by
    IN s \notin crowded =>
         ((\E b \in breakpoints : b.by = s)
            <=> Breaks(sampling[s].raw, fiberData[f][i - 1].reading))
===============================================================================
