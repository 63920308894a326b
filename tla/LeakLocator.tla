------------------------------ MODULE LeakLocator ------------------------------
(***************************************************************************)
(* backend/modules/leak_locator/leak_locator.go: the goroutine that takes  *)
(* readings, the detection loop, which counts under the lock, searches     *)
(* without it and reports under it again, the goroutines that insert rows, *)
(* and the operator who resolves a leak.                                   *)
(*                                                                         *)
(* The searches of algorithms/leak_detection.go are floating-point         *)
(* optimisations: any position, confidence or error may come out of them.  *)
(* Only the latest reading of a detector is ever looked at, so the window  *)
(* of MaxReadingsPerDetector readings is that reading.                     *)
(***************************************************************************)
EXTENDS Integers, Sequences, FiniteSets

CONSTANTS
  Detector,
  Concentration,         \* readings that pass LaserReceiver
  Position,              \* positions a search may return
  HighConcentrationThreshold, MinHighConcReadings, LeakMergeDistance,
  EnoughReadings,        \* fewer valid readings are degraded (5 in the code)
  Gradient,              \* so is a smaller range of them (5.0 in the code)
  MaxReadings, MaxFound  \* bounds: readings taken, leaks found

ASSUME LocatorNumbers ==
  /\ Concentration \subseteq Nat /\ Position \subseteq Int
  /\ {HighConcentrationThreshold, MinHighConcReadings, LeakMergeDistance,
      EnoughReadings, Gradient, MaxReadings, MaxFound} \subseteq Nat

VARIABLES
  running,    \* LeakLocator.running; the ticker is live as long
  receiver,   \* "poll", "select" or "gone"
  latest,     \* the latest reading of every detector heard of
  windValid,  \* the wind that was set last passes AssessDataQuality
  taken,      \* readings taken so far
  det,        \* detectionLoop: where it is, readings above the threshold and
              \* degraded mode as of its count, and the position found
  leaks,      \* currentLeaks: [id, at, root], root being the leak merged into
  found,      \* leaks found so far; their ids
  announced,  \* leaks saved, broadcast and offered to leakChan
  saving,     \* announced leaks whose insert has not run
  rows,       \* leak_sources: "none", "open" or "resolved"
  resolved    \* what operators were told is resolved: [id, root, before],
              \* before being the row of the root as it was then

inputVars == <<receiver, latest, windValid, taken>>
leakVars  == <<leaks, found, announced>>
rowVars   == <<saving, rows, resolved>>
vars == <<running, inputVars, det, leakVars, rowVars>>

LeakId == 1 .. MaxFound

RowStatus == {"none", "open", "resolved"}

Init ==
  /\ running = TRUE
  /\ receiver = "poll" /\ latest = [d \in {} |-> 0] /\ windValid = TRUE /\ taken = 0
  /\ det = [at |-> "tick", high |-> 0, degraded |-> FALSE, position |-> 0]
  /\ leaks = <<>> /\ found = 0 /\ announced = {}
  /\ saving = {} /\ rows = [i \in LeakId |-> "none"] /\ resolved = {}

-------------------------------------------------------------------------------
(* dataReceiver *)

RcvPoll ==
  /\ receiver = "poll"
  /\ receiver' = IF running THEN "select" ELSE "gone"
  /\ UNCHANGED <<running, latest, windValid, taken, det, leakVars, rowVars>>

RcvTimeout ==
  /\ receiver = "select"
  /\ receiver' = "poll"
  /\ UNCHANGED <<running, latest, windValid, taken, det, leakVars, rowVars>>

\* addReading: a detector that is not known is given a position of its own;
\* wind values that are not positive leave the last ones.
AddReading(d, c, wind) ==
  /\ taken < MaxReadings
  /\ taken' = taken + 1
  /\ latest' = [e \in DOMAIN latest \cup {d} |-> IF e = d THEN c ELSE latest[e]]
  /\ windValid' = IF wind = "kept" THEN windValid ELSE wind = "valid"
  /\ UNCHANGED <<running, det, leakVars, rowVars>>

Receive(d, c, wind) ==
  /\ receiver = "select" /\ receiver' = "poll"
  /\ AddReading(d, c, wind)

-------------------------------------------------------------------------------
(* detectionLoop and performDetection *)

Tick ==
  /\ det.at = "tick" /\ running
  /\ det' = [det EXCEPT !.at = "check"]
  /\ UNCHANGED <<running, inputVars, leakVars, rowVars>>

\* Stop leaves the channel of the ticker open: the loop goes on only if a
\* tick is already in it.
LastTick ==
  /\ det.at = "tick" /\ ~running
  /\ det' = [det EXCEPT !.at = "check"]
  /\ UNCHANGED <<running, inputVars, leakVars, rowVars>>

CheckRunning ==
  /\ det.at = "check"
  /\ det' = [det EXCEPT !.at = IF running THEN "count" ELSE "gone"]
  /\ UNCHANGED <<running, inputVars, leakVars, rowVars>>

IsHigh(c) == c > HighConcentrationThreshold

HighReadings == Cardinality({d \in DOMAIN latest : IsHigh(latest[d])})

\* AssessDataQuality
Degraded ==
  \/ ~windValid
  \/ Cardinality(DOMAIN latest) < EnoughReadings
  \/ \A d, e \in DOMAIN latest : latest[d] - latest[e] < Gradient

\* Mutant of EnoughHigh: one detector will do.
OneIsEnough(n) == n > 0

EnoughHigh(n) == n >= MinHighConcReadings

Count ==
  /\ det.at = "count"
  /\ det' = [det EXCEPT !.at = IF EnoughHigh(HighReadings) THEN "search" ELSE "clear",
                        !.high = HighReadings, !.degraded = Degraded]
  /\ UNCHANGED <<running, inputVars, leakVars, rowVars>>

\* MinConfidence, or MinConfidenceDegraded in degraded mode.
Confident(confidence) ==
  confidence = "high" \/ (det.degraded /\ confidence = "middle")

\* What the particle swarm or, in degraded mode, BayesInference may come to.
Outcome == Position \X {"low", "middle", "high"}

\* LocalizeLeakSourceWithQualityCheck, without the lock.
Search ==
  /\ det.at = "search" /\ found < MaxFound
  /\ \E outcome \in Outcome :
       det' = [det EXCEPT !.at = IF Confident(outcome[2]) THEN "report" ELSE "clear",
                          !.position = outcome[1]]
  /\ UNCHANGED <<running, inputVars, leakVars, rowVars>>

SearchFails ==
  /\ det.at = "search"
  /\ det' = [det EXCEPT !.at = "tick"]
  /\ UNCHANGED <<running, inputVars, leakVars, rowVars>>

\* Mutant of Cleared: the list is kept.
KeptAsIs(list) == SubSeq(list, 1, Len(list))

Cleared(list) == SubSeq(list, 1, 0)

\* The list is emptied; the rows stay as they are.
Clear ==
  /\ det.at = "clear"
  /\ leaks' = Cleared(leaks)
  /\ det' = [det EXCEPT !.at = "tick"]
  /\ UNCHANGED <<running, inputVars, found, announced, rowVars>>

Near(p, q) == p - q < LeakMergeDistance /\ q - p < LeakMergeDistance

\* The entry the loop over currentLeaks stops at.
Existing(p) ==
  {i \in DOMAIN leaks : Near(leaks[i].at, p) /\ \A j \in 1 .. i - 1 : ~Near(leaks[j].at, p)}

\* A leak near a listed one takes its place under an id of its own.
MergeLeak ==
  /\ det.at = "report"
  /\ \E i \in Existing(det.position) :
       leaks' = [leaks EXCEPT ![i] = [id |-> found + 1, at |-> det.position, root |-> @.root]]
  /\ found' = found + 1
  /\ det' = [det EXCEPT !.at = "tick"]
  /\ UNCHANGED <<running, inputVars, announced, rowVars>>

\* Mutant of Announced: the new leak is listed and nobody is told.
NobodyTold(id) == announced \ {id}

Announced(id) == announced \cup {id}

NewLeak ==
  /\ det.at = "report" /\ Existing(det.position) = {}
  /\ leaks' = Append(leaks, [id |-> found + 1, at |-> det.position, root |-> found + 1])
  /\ found' = found + 1
  /\ announced' = Announced(found + 1)
  /\ saving' = saving \cup {found + 1}
  /\ det' = [det EXCEPT !.at = "tick"]
  /\ UNCHANGED <<running, inputVars, rows, resolved>>

Detection == CheckRunning \/ Count \/ Search \/ SearchFails \/ Clear \/ MergeLeak \/ NewLeak

-------------------------------------------------------------------------------
(* saveLeakSource, ResolveLeak, Stop *)

SaveLeakSource(id) ==
  /\ id \in saving
  /\ saving' = saving \ {id}
  /\ \E saved \in BOOLEAN : rows' = IF saved THEN [rows EXCEPT ![id] = "open"] ELSE rows
  /\ UNCHANGED <<running, inputVars, det, leakVars, resolved>>

\* UPDATE ... WHERE id = $1 changes nothing if there is no such row.
Updated(id) == IF rows[id] = "none" THEN rows ELSE [rows EXCEPT ![id] = "resolved"]

\* The leak leaves the list first: an update that fails is answered with an
\* error, and the row stays as it is for good.  An id that is not listed
\* changes nothing, and the operator is told of success.
ResolveLeak(id) ==
  /\ \E i \in DOMAIN leaks :
       /\ leaks[i].id = id
       /\ leaks' = SubSeq(leaks, 1, i - 1) \o SubSeq(leaks, i + 1, Len(leaks))
       /\ \/ /\ rows' = Updated(id)
             /\ resolved' = resolved \cup
                              {[id |-> id, root |-> leaks[i].root, before |-> rows[leaks[i].root]]}
          \/ UNCHANGED <<rows, resolved>>
  /\ UNCHANGED <<running, inputVars, det, found, announced, saving>>

Stop ==
  /\ running
  /\ running' = FALSE
  /\ UNCHANGED <<inputVars, det, leakVars, rowVars>>

Next ==
  \/ RcvPoll \/ RcvTimeout
  \/ \E d \in Detector, c \in Concentration, wind \in {"kept", "valid", "storm"} :
       Receive(d, c, wind)
  \/ Tick \/ LastTick \/ Detection
  \/ \E id \in LeakId : SaveLeakSource(id) \/ ResolveLeak(id)
  \/ Stop

\* The ticker fires and the detection goes on once it has begun.
Fairness == WF_vars(Tick) /\ WF_vars(Detection)

SafetySpec == Init /\ [][Next]_vars
Spec       == SafetySpec /\ Fairness

-------------------------------------------------------------------------------
(* Properties *)

LeakTypeOK ==
  /\ running \in BOOLEAN /\ receiver \in {"poll", "select", "gone"}
  /\ DOMAIN latest \subseteq Detector /\ windValid \in BOOLEAN /\ taken \in 0 .. MaxReadings
  /\ det.at \in {"tick", "check", "count", "search", "report", "clear", "gone"}
  /\ leaks \in Seq([id : LeakId, at : Position, root : LeakId])
  /\ found \in 0 .. MaxFound /\ announced \subseteq LeakId /\ saving \subseteq LeakId
  /\ rows \in [LeakId -> RowStatus]
  /\ resolved \subseteq [id : LeakId, root : LeakId, before : RowStatus]

(* A listed leak rests on what the detectors said: at the last count at     *)
(* least MinHighConcReadings of them were above the threshold, unless the   *)
(* list is just about to be emptied.  Readings, resolutions and Stop may    *)
(* come between the count, the search and the report.                      *)
LeakHasEvidence ==
  leaks # <<>> \/ det.at = "report" =>
    det.high >= MinHighConcReadings \/ det.at = "clear"

(* However often a leak is merged, found again or resolved, what is listed   *)
(* goes back to a leak that was announced, and only an entry that was never *)
(* merged has an id that was announced and may have a row; the row of a     *)
(* listed leak is not resolved, and no leak is in the list twice.  A leak   *)
(* that was resolved under the id it was saved with is resolved in          *)
(* leak_sources from then on, if its row was there and the update did not   *)
(* fail.                                                                    *)
ListedLeakIsKnown ==
  /\ \A i \in DOMAIN leaks :
       /\ leaks[i].root \in announced
       /\ leaks[i].id \in announced <=> leaks[i].id = leaks[i].root
       /\ rows[leaks[i].id] # "resolved"
       /\ \A j \in DOMAIN leaks : leaks[i].id = leaks[j].id => i = j
  /\ saving \subseteq announced
  /\ \A id \in LeakId : rows[id] # "none" => id \in announced
  /\ \A leak \in resolved :
       leak.before = "open" /\ leak.id = leak.root => rows[leak.id] = "resolved"

(* A leak does not outlive its evidence: if from some moment on too few      *)
(* detectors are above the threshold, the list gets empty, unless the        *)
(* module is stopped or the leaks that may be found are used up.             *)
LeaksGoAway ==
  \/ []<>(HighReadings >= MinHighConcReadings)
  \/ []<>(leaks = <<>>)
  \/ <>(~running)
===============================================================================
