-------------------------- MODULE LeakLocatorProofs --------------------------
(***************************************************************************)
(* Theorems about module LeakLocator, for any detectors, readings,         *)
(* thresholds and outcomes of the searches.                                *)
(***************************************************************************)
EXTENDS LeakLocator, SequenceTheorems, FiniteSetTheorems, TLAPS

Leak == [id : LeakId, at : Position, root : LeakId]

-------------------------------------------------------------------------------
(* Helpers *)

\* ResolveLeak takes one entry out and moves the later ones up.
LEMMA RemoveAt ==
  ASSUME NEW S, NEW list \in Seq(S), NEW i \in 1 .. Len(list)
  PROVE  LET short == SubSeq(list, 1, i - 1) \o SubSeq(list, i + 1, Len(list))
         IN /\ short \in Seq(S) /\ Len(short) = Len(list) - 1
            /\ \A j \in 1 .. Len(short) : short[j] = list[IF j < i THEN j ELSE j + 1]
<1> DEFINE a == SubSeq(list, 1, i - 1)
           b == SubSeq(list, i + 1, Len(list))
<1>0. Len(list) \in Nat /\ \A j \in 1 .. Len(list) : list[j] \in S
  OBVIOUS
<1>1. /\ a \in Seq(S) /\ Len(a) = i - 1
      /\ \A j \in 1 .. i - 1 : a[j] = list[j]
  <2>1. /\ a \in Seq(S)
        /\ Len(a) = IF 1 <= i - 1 THEN i - 1 - 1 + 1 ELSE 0
        /\ \A j \in 1 .. i - 1 - 1 + 1 : a[j] = list[1 + j - 1]
    BY <1>0, SubSeqProperties, 1 \in Int, i - 1 \in Int, \A j \in 1 .. i - 1 : list[j] \in S
  <2> QED BY <2>1, <1>0
<1>2. /\ b \in Seq(S) /\ Len(b) = Len(list) - i
      /\ \A j \in 1 .. Len(list) - i : b[j] = list[i + j]
  <2>1. /\ b \in Seq(S)
        /\ Len(b) = IF i + 1 <= Len(list) THEN Len(list) - (i + 1) + 1 ELSE 0
        /\ \A j \in 1 .. Len(list) - (i + 1) + 1 : b[j] = list[(i + 1) + j - 1]
    BY <1>0, SubSeqProperties, i + 1 \in Int, Len(list) \in Int,
       \A j \in i + 1 .. Len(list) : list[j] \in S
  <2> QED BY <2>1, <1>0
<1> HIDE DEF a, b
<1>3. /\ a \o b \in Seq(S) /\ Len(a \o b) = Len(a) + Len(b)
      /\ \A j \in 1 .. Len(a) + Len(b) :
           (a \o b)[j] = IF j <= Len(a) THEN a[j] ELSE b[j - Len(a)]
  BY <1>1, <1>2, ConcatProperties
<1>4. ASSUME NEW j \in 1 .. Len(list) - 1
      PROVE  (a \o b)[j] = list[IF j < i THEN j ELSE j + 1]
  <2>1. CASE j < i
    BY <1>0, <1>1, <1>2, <1>3, <2>1
  <2>2. CASE ~(j < i)
    <3>1. j - (i - 1) \in 1 .. Len(list) - i /\ i + (j - (i - 1)) = j + 1
      BY <1>0, <2>2
    <3>2. (a \o b)[j] = b[j - (i - 1)]
      BY <1>0, <1>1, <1>2, <1>3, <2>2
    <3> QED BY <1>2, <2>2, <3>1, <3>2
  <2> QED BY <2>1, <2>2
<1>5. /\ a \o b \in Seq(S) /\ Len(a \o b) = Len(list) - 1
      /\ \A j \in 1 .. Len(a \o b) : (a \o b)[j] = list[IF j < i THEN j ELSE j + 1]
  BY <1>0, <1>1, <1>2, <1>3, <1>4
<1> QED BY <1>5 DEF a, b

\* What the steps do to the list, over any set of entries.
LEMMA ListSteps ==
  ASSUME NEW S, NEW list \in Seq(S), NEW x \in S
  PROVE  /\ <<>> \in Seq(S) /\ Append(list, x) \in Seq(S)
         /\ \A i \in 1 .. Len(list) : [list EXCEPT ![i] = x] \in Seq(S)
OBVIOUS

\* The list is emptied.
LEMMA ClearedIsEmpty == ASSUME NEW list PROVE Cleared(list) = <<>>
BY SubSeqEmpty, 1 \in Int, 0 \in Int, 0 < 1 DEF Cleared

-------------------------------------------------------------------------------
(* The inductive invariant, in parts *)

Places == {"tick", "check", "count", "search", "report", "clear", "gone"}

\* Types, what is known of the detection loop, and room for a leak to report.
Types ==
  /\ LeakTypeOK
  /\ det \in [at : Places, high : Nat, degraded : BOOLEAN, position : Int]
  /\ IsFiniteSet(DOMAIN latest)
  /\ det.at = "report" => found < MaxFound /\ det.position \in Position

\* A search and a report rest on a count that was high enough.
Evidence ==
  /\ det.at \in {"search", "report"} => det.high >= MinHighConcReadings
  /\ LeakHasEvidence

\* Ids are given in order, and an insert runs once.
Known ==
  /\ ListedLeakIsKnown
  /\ \A i \in 1 .. Len(leaks) : leaks[i].id <= found
  /\ announced \subseteq 1 .. found
  /\ \A id \in saving : rows[id] = "none"

LeakInv == Types /\ Evidence /\ Known

\* Everything starts empty.
LEMMA InitLeak == Init => LeakInv
<1> SUFFICES ASSUME Init PROVE LeakInv
  OBVIOUS
<1>1. DOMAIN latest = {} /\ Len(leaks) = 0 /\ leaks \in Seq(Leak)
  BY DEF Init
<1>2. Types
  BY <1>1, LocatorNumbers, FS_EmptySet DEF Init, Types, LeakTypeOK, Places, LeakId, Leak, RowStatus
<1>3. Evidence
  BY DEF Init, Evidence, LeakHasEvidence
<1>4. Known
  BY <1>1 DEF Init, Known, ListedLeakIsKnown, LeakId
<1> QED BY <1>2, <1>3, <1>4 DEF LeakInv

-------------------------------------------------------------------------------
(* Types *)

\* The list and its entries.
LEMMA ListTyped ==
  Types => /\ leaks \in Seq(Leak) /\ Len(leaks) \in Nat /\ DOMAIN leaks = 1 .. Len(leaks)
           /\ \A i \in DOMAIN leaks : leaks[i] \in Leak
<1>1. Types => leaks \in Seq(Leak)
  BY DEF Types, LeakTypeOK, Leak
<1> QED BY <1>1

\* The detectors heard of are finitely many, and so are those above the
\* threshold.
LEMMA HighCount == Types => HighReadings \in Nat
<1> SUFFICES ASSUME Types PROVE HighReadings \in Nat
  OBVIOUS
<1>1. {d \in DOMAIN latest : IsHigh(latest[d])} \subseteq DOMAIN latest
  OBVIOUS
<1> QED BY <1>1, FS_Subset, FS_CardinalityType DEF Types, HighReadings

\* The receiver.
LEMMA ReceiveTyped ==
  ASSUME Types, RcvPoll \/ RcvTimeout \/ \E d \in Detector, c \in Concentration,
                                              wind \in {"kept", "valid", "storm"} :
                                              Receive(d, c, wind)
  PROVE  Types'
<1> USE DEF Types, LeakTypeOK
<1>1. CASE RcvPoll \/ RcvTimeout
  BY <1>1 DEF RcvPoll, RcvTimeout, leakVars, rowVars
<1>2. ASSUME NEW d \in Detector, NEW c \in Concentration,
             NEW wind \in {"kept", "valid", "storm"}, Receive(d, c, wind)
      PROVE  Types'
  <2>1. DOMAIN latest' = DOMAIN latest \cup {d}
    BY <1>2 DEF Receive, AddReading
  <2>2. IsFiniteSet(DOMAIN latest')
    BY <2>1, FS_AddElement
  <2>3. taken' \in 0 .. MaxReadings
    BY <1>2, LocatorNumbers DEF Receive, AddReading
  <2>4. windValid' \in BOOLEAN
    <3>1. windValid' = IF wind = "kept" THEN windValid ELSE wind = "valid"
      BY <1>2 DEF Receive, AddReading
    <3>2. (wind = "valid") \in BOOLEAN
      OBVIOUS
    <3> QED BY <3>1, <3>2
  <2> QED BY <1>2, <2>1, <2>2, <2>3, <2>4 DEF Receive, AddReading, leakVars, rowVars
<1> QED BY <1>1, <1>2

\* The detection loop.
LEMMA DetectionTyped ==
  ASSUME Types, Tick \/ LastTick \/ Detection
  PROVE  Types'
<1> USE DEF Types, LeakTypeOK, Places
<1>0. Degraded \in BOOLEAN /\ Len(leaks) \in Nat
  BY DEF Degraded
<1>1. CASE Tick \/ LastTick \/ CheckRunning
  BY <1>1 DEF Tick, LastTick, CheckRunning, inputVars, leakVars, rowVars
<1>2. CASE Count
  <2>1. det' \in [at : {"search", "clear"}, high : Nat, degraded : BOOLEAN, position : Int]
    BY <1>0, <1>2, HighCount DEF Count
  <2> QED BY <1>2, <2>1 DEF Count, inputVars, leakVars, rowVars
<1>3. CASE Search
  <2>1. PICK outcome \in Outcome :
          det' = [det EXCEPT !.at = IF Confident(outcome[2]) THEN "report" ELSE "clear",
                             !.position = outcome[1]]
    BY <1>3 DEF Search
  <2>2. outcome[1] \in Position /\ outcome[1] \in Int
    BY LocatorNumbers DEF Outcome
  <2>3. /\ det' \in [at : Places, high : Nat, degraded : BOOLEAN, position : Int]
        /\ det'.position = outcome[1] /\ found < MaxFound
    BY <1>3, <2>1, <2>2 DEF Search
  <2> QED BY <1>3, <2>2, <2>3 DEF Search, inputVars, leakVars, rowVars
<1>4. CASE SearchFails
  BY <1>4 DEF SearchFails, inputVars, leakVars, rowVars
<1>5. CASE Clear
  <2>1. leaks' \in Seq(Leak)
    <3>1. leaks' = <<>>
      BY <1>5, ClearedIsEmpty DEF Clear
    <3> QED BY <3>1
  <2> QED BY <1>5, <2>1 DEF Clear, inputVars, rowVars, Leak
<1>6. CASE MergeLeak
  <2>1. PICK i \in Existing(det.position) :
          leaks' = [leaks EXCEPT ![i] = [id |-> found + 1, at |-> det.position, root |-> @.root]]
    BY <1>6 DEF MergeLeak
  <2> DEFINE new == [id |-> found + 1, at |-> det.position, root |-> leaks[i].root]
  <2>2. i \in DOMAIN leaks
    BY <2>1 DEF Existing
  <2>3. found + 1 \in LeakId
    BY <1>6, LocatorNumbers DEF MergeLeak, LeakId
  <2>4. new \in Leak
    <3>1. leaks[i].root \in LeakId
      BY <2>2, ListTyped DEF Leak
    <3> QED BY <1>6, <2>3, <3>1 DEF MergeLeak, Leak
  <2>5. leaks' \in Seq(Leak)
    <3>1. leaks' = [leaks EXCEPT ![i] = new]
      BY <2>1
    <3> HIDE DEF new
    <3> QED BY <2>2, <2>4, <3>1, ListSteps, ListTyped
  <2>6. found' \in 0 .. MaxFound
    BY <1>6, LocatorNumbers DEF MergeLeak
  <2> QED BY <1>6, <2>5, <2>6 DEF MergeLeak, inputVars, rowVars, Leak
<1>7. CASE NewLeak
  <2>1. found + 1 \in LeakId
    BY <1>7, LocatorNumbers DEF NewLeak, LeakId
  <2>2. leaks' \in Seq(Leak)
    <3> DEFINE new == [id |-> found + 1, at |-> det.position, root |-> found + 1]
    <3>1. new \in Leak /\ leaks' = Append(leaks, new)
      BY <1>7, <2>1 DEF NewLeak, Leak
    <3> HIDE DEF new
    <3> QED BY <3>1, ListSteps, ListTyped
  <2>3. found' \in 0 .. MaxFound
    BY <1>7, LocatorNumbers DEF NewLeak
  <2>4. announced' \subseteq LeakId /\ saving' \subseteq LeakId
    BY <1>7, <2>1 DEF NewLeak, Announced
  <2>5. det' \in [at : {"tick"}, high : Nat, degraded : BOOLEAN, position : Int]
    BY <1>7 DEF NewLeak
  <2> QED BY <1>7, <2>2, <2>3, <2>4, <2>5 DEF NewLeak, inputVars, Leak
<1> QED BY <1>1, <1>2, <1>3, <1>4, <1>5, <1>6, <1>7 DEF Detection

\* What ResolveLeak does to the entry it finds.
Taken(id, i) ==
  /\ leaks[i].id = id
  /\ leaks' = SubSeq(leaks, 1, i - 1) \o SubSeq(leaks, i + 1, Len(leaks))
  /\ \/ /\ rows' = Updated(id)
        /\ resolved' = resolved \cup
                         {[id |-> id, root |-> leaks[i].root, before |-> rows[leaks[i].root]]}
     \/ UNCHANGED <<rows, resolved>>

\* An entry with the id is found.
LEMMA ResolveTakes ==
  ASSUME NEW id, ResolveLeak(id)
  PROVE  \E i \in DOMAIN leaks : Taken(id, i)
BY DEF ResolveLeak, Taken

\* Rows, operators and Stop.
LEMMA OthersTyped ==
  ASSUME Types, Stop \/ \E id \in LeakId : SaveLeakSource(id) \/ ResolveLeak(id)
  PROVE  Types'
<1> USE DEF Types, LeakTypeOK
<1>1. CASE Stop
  BY <1>1 DEF Stop, inputVars, leakVars, rowVars
<1>2. ASSUME NEW id \in LeakId, SaveLeakSource(id) PROVE Types'
  BY <1>2 DEF SaveLeakSource, inputVars, leakVars, RowStatus
<1>3. ASSUME NEW id \in LeakId, ResolveLeak(id) PROVE Types'
  <2>1. PICK i \in DOMAIN leaks : Taken(id, i)
    BY <1>3, ResolveTakes
  <2>2. leaks' \in Seq(Leak)
    BY <2>1, RemoveAt, ListTyped DEF Taken
  <2>3. Updated(id) \in [LeakId -> RowStatus]
    BY DEF Updated, RowStatus
  <2>4. leaks[i].root \in LeakId
    BY ListTyped DEF Leak
  <2>5. rows' \in [LeakId -> RowStatus]
    BY <2>1, <2>3 DEF Taken
  <2>6. resolved' \subseteq [id : LeakId, root : LeakId, before : RowStatus]
    BY <2>1, <2>4 DEF Taken
  <2> QED BY <1>3, <2>2, <2>5, <2>6 DEF ResolveLeak, inputVars, Leak
<1> QED BY <1>1, <1>2, <1>3

\* No step leaves the types.
LEMMA StepTyped == Types /\ [Next]_vars => Types'
<1>1. ASSUME Types, UNCHANGED vars PROVE Types'
  BY <1>1 DEF Types, LeakTypeOK, vars, inputVars, leakVars, rowVars
<1> QED BY <1>1, ReceiveTyped, DetectionTyped, OthersTyped DEF Next

-------------------------------------------------------------------------------
(* Evidence *)

\* Steps that leave the list and the loop alone, or take entries out.
LEMMA EvidenceStays ==
  ASSUME Evidence, det' = det, leaks' # <<>> => leaks # <<>>
  PROVE  Evidence'
BY DEF Evidence, LeakHasEvidence

\* The count decides, and what follows it keeps the count.
LEMMA StepEvidence == Types /\ Evidence /\ [Next]_vars => Evidence'
<1> SUFFICES ASSUME Types, Evidence, [Next]_vars PROVE Evidence'
  OBVIOUS
<1> USE DEF inputVars, leakVars, rowVars
<1>0. det \in [at : Places, high : Nat, degraded : BOOLEAN, position : Int]
  BY DEF Types
<1>1. CASE RcvPoll \/ RcvTimeout \/ \E d \in Detector, c \in Concentration,
                                      wind \in {"kept", "valid", "storm"} : Receive(d, c, wind)
  BY <1>1, EvidenceStays DEF RcvPoll, RcvTimeout, Receive, AddReading
<1>2. CASE Tick \/ LastTick \/ CheckRunning
  BY <1>0, <1>2 DEF Tick, LastTick, CheckRunning, Evidence, LeakHasEvidence, Places
<1>3. CASE Count
  <2>1. /\ det'.high = HighReadings
        /\ det'.at = IF EnoughHigh(HighReadings) THEN "search" ELSE "clear"
    BY <1>0, <1>3 DEF Count
  <2> QED BY <2>1 DEF EnoughHigh, Evidence, LeakHasEvidence
<1>4. CASE Search \/ SearchFails
  <2>1. /\ det'.high = det.high /\ leaks' = leaks /\ det.at = "search"
        /\ det'.at \in {"report", "clear", "tick"}
    BY <1>0, <1>4 DEF Search, SearchFails
  <2> QED BY <2>1 DEF Evidence, LeakHasEvidence
<1>5. CASE Clear
  BY <1>0, <1>5, ClearedIsEmpty DEF Clear, Evidence, LeakHasEvidence
<1>6. CASE MergeLeak \/ NewLeak
  <2>1. det'.high = det.high /\ det.at = "report" /\ det'.at = "tick"
    BY <1>0, <1>6 DEF MergeLeak, NewLeak
  <2> QED BY <2>1 DEF Evidence, LeakHasEvidence
<1>7. CASE Stop \/ \E id \in LeakId : SaveLeakSource(id)
  BY <1>7, EvidenceStays DEF Stop, SaveLeakSource
<1>8. ASSUME NEW id \in LeakId, ResolveLeak(id) PROVE Evidence'
  <2>1. leaks # <<>>
    BY <1>8, ListTyped DEF ResolveLeak
  <2> QED BY <1>8, <2>1, EvidenceStays DEF ResolveLeak
<1>9. CASE UNCHANGED vars
  BY <1>9, EvidenceStays DEF vars
<1> QED BY <1>1, <1>2, <1>3, <1>4, <1>5, <1>6, <1>7, <1>8, <1>9 DEF Next, Detection

-------------------------------------------------------------------------------
(* Leaks that are known *)

\* Steps of the receiver, and of the detection loop before its report.
LEMMA KnownStays ==
  ASSUME Known, leaks' = leaks, found' = found, announced' = announced,
         saving' = saving, rows' = rows, resolved' = resolved
  PROVE  Known'
BY DEF Known, ListedLeakIsKnown

\* A leak that is not announced has no row, nor is one on its way.
LEMMA Unheard ==
  ASSUME Types, Known, NEW id \in LeakId, id > found
  PROVE  rows[id] = "none" /\ id \notin announced /\ id \notin saving
BY DEF Types, Known, ListedLeakIsKnown, LeakTypeOK, LeakId

\* The merged leak takes over the root of the listed one.
LEMMA MergeKnown == ASSUME Types, Known, MergeLeak PROVE Known'
<1>1. PICK i \in DOMAIN leaks :
        leaks' = [leaks EXCEPT ![i] = [id |-> found + 1, at |-> det.position, root |-> @.root]]
  BY DEF MergeLeak, Existing
<1>2. found' = found + 1 /\ found \in Nat /\ found + 1 \in LeakId /\ found + 1 > found
  <2>1. found' = found + 1 /\ det.at = "report"
    BY DEF MergeLeak
  <2>2. found \in 0 .. MaxFound /\ found < MaxFound /\ MaxFound \in Nat
    BY <2>1, LocatorNumbers DEF Types, LeakTypeOK
  <2> QED BY <2>1, <2>2 DEF LeakId
<1>3. UNCHANGED <<announced, saving, rows, resolved>>
  BY DEF MergeLeak, rowVars
<1>4. /\ leaks'[i].id = found + 1 /\ leaks'[i].root = leaks[i].root
      /\ DOMAIN leaks' = DOMAIN leaks
      /\ \A j \in DOMAIN leaks \ {i} : leaks'[j] = leaks[j]
  BY <1>1, ListTyped
<1>5. rows[found + 1] = "none" /\ found + 1 \notin announced
  BY <1>2, Unheard
<1>6. DOMAIN leaks = 1 .. Len(leaks) /\ DOMAIN leaks' = 1 .. Len(leaks')
      /\ \A j \in DOMAIN leaks : leaks[j].id \in Int /\ leaks[j].id <= found
  <2>1. leaks' \in Seq(Leak)
    BY StepTyped, ListTyped DEF Next, Detection, Types, LeakTypeOK, Leak
  <2>2. \A j \in DOMAIN leaks : leaks[j].id \in Int
    BY ListTyped DEF Leak, LeakId
  <2> QED BY <2>1, <2>2, ListTyped DEF Known
<1>7. announced \subseteq 1 .. found + 1
  BY <1>2 DEF Known
<1>8. ASSUME NEW j \in DOMAIN leaks, NEW k \in DOMAIN leaks
      PROVE  /\ leaks'[j].root \in announced /\ rows[leaks'[j].id] # "resolved"
             /\ leaks'[j].id \in announced <=> leaks'[j].id = leaks'[j].root
             /\ leaks'[j].id <= found + 1 /\ (leaks'[j].id = leaks'[k].id => j = k)
  <2>1. leaks'[j].root = leaks[j].root
    BY <1>4
  <2>2. leaks'[j].id = IF j = i THEN found + 1 ELSE leaks[j].id
    BY <1>4
  <2>3. leaks'[k].id = IF k = i THEN found + 1 ELSE leaks[k].id
    BY <1>4
  <2>4. leaks[j].id = leaks[k].id => j = k
    BY DEF Known, ListedLeakIsKnown
  <2>5. /\ leaks[j].root \in announced /\ rows[leaks[j].id] # "resolved"
        /\ leaks[j].id \in announced <=> leaks[j].id = leaks[j].root
        /\ leaks[j].id \in Int /\ leaks[k].id \in Int
        /\ leaks[j].id <= found /\ leaks[k].id <= found
    BY <1>6 DEF Known, ListedLeakIsKnown
  <2> QED BY <1>2, <1>5, <2>1, <2>2, <2>3, <2>4, <2>5
<1>9. /\ saving \subseteq announced
      /\ \A id \in LeakId : rows[id] # "none" => id \in announced
      /\ \A id \in saving : rows[id] = "none"
      /\ \A leak \in resolved :
           leak.before = "open" /\ leak.id = leak.root => rows[leak.id] = "resolved"
  BY DEF Known, ListedLeakIsKnown
<1> QED BY <1>2, <1>3, <1>4, <1>6, <1>7, <1>8, <1>9 DEF Known, ListedLeakIsKnown

\* A new leak is its own root, announced and about to be inserted.
LEMMA NewKnown == ASSUME Types, Known, NewLeak PROVE Known'
<1> DEFINE new == [id |-> found + 1, at |-> det.position, root |-> found + 1]
<1>1. leaks' = Append(leaks, new)
  BY DEF NewLeak
<1>2. found' = found + 1 /\ found \in Nat /\ found + 1 \in LeakId /\ found + 1 > found
  BY LocatorNumbers DEF NewLeak, Types, LeakTypeOK, LeakId
<1>3. /\ announced' = announced \cup {found + 1}
      /\ saving' = saving \cup {found + 1} /\ UNCHANGED <<rows, resolved>>
  BY DEF NewLeak, Announced
<1>4. new \in Leak
  BY <1>2 DEF NewLeak, Types, Leak
<1>5. /\ DOMAIN leaks' = 1 .. Len(leaks) + 1 /\ Len(leaks') = Len(leaks) + 1
      /\ leaks'[Len(leaks) + 1] = new
      /\ \A j \in 1 .. Len(leaks) : leaks'[j] = leaks[j]
  <2> HIDE DEF new
  <2> QED BY <1>1, <1>4, ListTyped
<1>6. rows[found + 1] = "none"
  BY <1>2, Unheard
<1>7. \A j \in 1 .. Len(leaks) : leaks[j].id \in Int /\ leaks[j].id <= found
  BY ListTyped DEF Leak, LeakId, Known
<1>8. announced' \subseteq 1 .. found'
  BY <1>2, <1>3 DEF Known
<1>9. ASSUME NEW j \in 1 .. Len(leaks) + 1, NEW k \in 1 .. Len(leaks) + 1
      PROVE  /\ leaks'[j].root \in announced' /\ rows'[leaks'[j].id] # "resolved"
             /\ leaks'[j].id \in announced' <=> leaks'[j].id = leaks'[j].root
             /\ leaks'[j].id <= found' /\ (leaks'[j].id = leaks'[k].id => j = k)
  BY <1>2, <1>3, <1>5, <1>6, <1>7, <1>9, ListTyped, SMTT(30) DEF Known, ListedLeakIsKnown
<1>10. /\ saving' \subseteq announced'
       /\ \A id \in LeakId : rows'[id] # "none" => id \in announced'
       /\ \A id \in saving' : rows'[id] = "none"
       /\ \A leak \in resolved' :
            leak.before = "open" /\ leak.id = leak.root => rows'[leak.id] = "resolved"
  BY <1>3, <1>6 DEF Known, ListedLeakIsKnown
<1> QED BY <1>5, <1>8, <1>9, <1>10 DEF Known, ListedLeakIsKnown

\* The insert of a row that was announced.
LEMMA SaveKnown ==
  ASSUME Types, Known, NEW id \in LeakId, SaveLeakSource(id)
  PROVE  Known'
<1>1. id \in announced /\ UNCHANGED <<leaks, found, announced>> /\ saving' \subseteq saving
  BY DEF SaveLeakSource, leakVars, Known, ListedLeakIsKnown
<1>2. \A k \in LeakId : rows'[k] = rows[k] \/ (k = id /\ rows'[k] = "open" /\ rows[k] = "none")
  BY DEF SaveLeakSource, Types, LeakTypeOK, Known
<1>3. \A i \in DOMAIN leaks : leaks[i].id \in LeakId
  BY ListTyped DEF Leak
<1>4. \A k \in saving' : rows'[k] = "none"
  BY <1>2 DEF SaveLeakSource, Types, LeakTypeOK, Known
<1>5. ASSUME NEW leak \in resolved', leak.before = "open", leak.id = leak.root
      PROVE  rows'[leak.id] = "resolved"
  <2>1. leak \in resolved /\ leak.id \in LeakId
    BY DEF SaveLeakSource, Types, LeakTypeOK
  <2>2. rows[leak.id] = "resolved"
    BY <1>5, <2>1 DEF Known, ListedLeakIsKnown
  <2> QED BY <1>2, <2>1, <2>2
<1>6. \A i \in DOMAIN leaks : rows'[leaks[i].id] # "resolved"
  BY <1>2, <1>3 DEF Known, ListedLeakIsKnown
<1>7. \A k \in LeakId : rows'[k] # "none" => k \in announced
  BY <1>1, <1>2 DEF Known, ListedLeakIsKnown
<1>8. ListedLeakIsKnown'
  BY <1>1, <1>5, <1>6, <1>7 DEF Known, ListedLeakIsKnown
<1> QED BY <1>1, <1>4, <1>8 DEF Known

\* The resolved leak leaves the list, and no other entry has its id.
LEMMA ResolveKnown ==
  ASSUME Types, Known, NEW id \in LeakId, ResolveLeak(id)
  PROVE  Known'
<1>1. PICK i \in DOMAIN leaks : Taken(id, i)
  BY ResolveTakes
<1> DEFINE from(j) == IF j < i THEN j ELSE j + 1
<1>2. /\ leaks' \in Seq(Leak) /\ Len(leaks') = Len(leaks) - 1
      /\ \A j \in 1 .. Len(leaks') : leaks'[j] = leaks[from(j)]
  BY <1>1, RemoveAt, ListTyped DEF Taken
<1>3. \A j \in 1 .. Len(leaks') : from(j) \in DOMAIN leaks /\ from(j) # i
  BY <1>2, ListTyped
<1>4. \A j, k \in 1 .. Len(leaks') : from(j) = from(k) => j = k
  BY <1>2, ListTyped
<1> HIDE DEF from
<1>5. /\ UNCHANGED <<found, announced, saving>>
      /\ \A k \in LeakId : k # id => rows'[k] = rows[k]
      /\ \A k \in LeakId : rows[k] = "none" => rows'[k] = "none"
      /\ \A k \in LeakId : rows[k] = "resolved" => rows'[k] = "resolved"
  BY <1>1 DEF ResolveLeak, Taken, Updated, Types, LeakTypeOK
<1>6. \A j \in DOMAIN leaks : leaks[j].id \in LeakId
  BY ListTyped DEF Leak
<1>7. DOMAIN leaks' = 1 .. Len(leaks') /\ DOMAIN leaks = 1 .. Len(leaks)
  BY <1>2, ListTyped
<1>8. ASSUME NEW j \in 1 .. Len(leaks'), NEW k \in 1 .. Len(leaks')
      PROVE  /\ leaks'[j].root \in announced /\ rows'[leaks'[j].id] # "resolved"
             /\ leaks'[j].id \in announced <=> leaks'[j].id = leaks'[j].root
             /\ leaks'[j].id <= found /\ (leaks'[j].id = leaks'[k].id => j = k)
  <2>1. leaks[from(j)].id # id
    BY <1>1, <1>3 DEF Taken, Known, ListedLeakIsKnown
  <2> QED BY <1>2, <1>3, <1>4, <1>5, <1>6, <1>7, <2>1, SMTT(30) DEF Known, ListedLeakIsKnown
<1>9. /\ saving \subseteq announced /\ announced \subseteq 1 .. found
      /\ \A k \in LeakId : rows'[k] # "none" => k \in announced
      /\ \A k \in saving : rows'[k] = "none"
  BY <1>5 DEF Known, ListedLeakIsKnown, Types, LeakTypeOK
<1>10. ASSUME NEW leak \in resolved', leak.before = "open", leak.id = leak.root
       PROVE  rows'[leak.id] = "resolved"
  <2>1. CASE leak \in resolved
    <3>1. leak.id \in LeakId
      BY <2>1 DEF Types, LeakTypeOK
    <3> QED BY <1>5, <1>10, <2>1, <3>1 DEF Known, ListedLeakIsKnown
  <2>2. CASE leak \notin resolved
    <3>1. /\ rows' = Updated(id)
          /\ leak = [id |-> id, root |-> leaks[i].root, before |-> rows[leaks[i].root]]
      BY <1>1, <2>2 DEF Taken
    <3>2. rows[id] = "open" /\ leak.id = id
      BY <1>10, <3>1
    <3> QED BY <3>1, <3>2 DEF Updated, Types, LeakTypeOK
  <2> QED BY <2>1, <2>2
<1> QED BY <1>5, <1>7, <1>8, <1>9, <1>10 DEF Known, ListedLeakIsKnown

\* Only reports, inserts and operators touch what Known speaks of.
LEMMA StepKnown == Types /\ Known /\ [Next]_vars => Known'
<1> SUFFICES ASSUME Types, Known, [Next]_vars PROVE Known'
  OBVIOUS
<1> USE DEF inputVars, leakVars, rowVars
<1>1. CASE RcvPoll \/ RcvTimeout \/ \E d \in Detector, c \in Concentration,
                                      wind \in {"kept", "valid", "storm"} : Receive(d, c, wind)
  BY <1>1, KnownStays DEF RcvPoll, RcvTimeout, Receive, AddReading
<1>2. CASE Tick \/ LastTick \/ CheckRunning \/ Count \/ Search \/ SearchFails \/ Stop
  BY <1>2, KnownStays DEF Tick, LastTick, CheckRunning, Count, Search, SearchFails, Stop
<1>3. CASE Clear
  <2>1. leaks' = <<>> /\ UNCHANGED <<found, announced, saving, rows, resolved>>
    BY <1>3, ClearedIsEmpty DEF Clear
  <2> QED BY <2>1 DEF Known, ListedLeakIsKnown
<1>4. CASE UNCHANGED vars
  BY <1>4, KnownStays DEF vars
<1> QED BY <1>1, <1>2, <1>3, <1>4, MergeKnown, NewKnown, SaveKnown, ResolveKnown
        DEF Next, Detection

-------------------------------------------------------------------------------
(* Theorems *)

\* The inductive invariant of LeakLocator: types, evidence and known leaks.
THEOREM LeakInvariant == SafetySpec => []LeakInv
<1>1. LeakInv /\ [Next]_vars => LeakInv'
  BY StepTyped, StepEvidence, StepKnown DEF LeakInv
<1> QED BY <1>1, InitLeak, PTL DEF SafetySpec

\* performDetection counts, searches and reports in critical sections of
\* their own: whatever comes in between, a leak in the list rests on a last
\* count of at least MinHighConcReadings detectors, or is about to go.
THEOREM EvidenceHolds == SafetySpec => []LeakHasEvidence
<1>1. LeakInv => LeakHasEvidence
  BY DEF LeakInv, Evidence
<1> QED BY <1>1, LeakInvariant, PTL

\* Merging, resolving and inserting in any order, with updates and inserts
\* that may fail: every listed leak goes back to an announced one and only an
\* entry that was never merged may have a row; none is listed twice; the row
\* of a listed leak is not resolved, and a row once resolved under the id it
\* was saved with stays resolved.
THEOREM KnownHolds == SafetySpec => []ListedLeakIsKnown
<1>1. LeakInv => ListedLeakIsKnown
  BY DEF LeakInv, Known
<1> QED BY <1>1, LeakInvariant, PTL
===============================================================================
