----------------------- MODULE EvacuationPlannerProofs -----------------------
(***************************************************************************)
(* Theorems about module EvacuationPlanner, for any corridor, exits,       *)
(* doors, workers and bounds.                                              *)
(***************************************************************************)
EXTENDS EvacuationPlanner, FiniteSetTheorems, SequenceTheorems, WellFoundedInduction, TLAPS

\* Doors are open or not, only closed ones block, and a closed one blocks if
\* it was open once and has its stretch to itself.
DoorInv ==
  /\ \A d \in DOMAIN doors : doors[d].open \in BOOLEAN /\ doors[d].opened \in BOOLEAN
  /\ BlockedHasClosedDoor
  /\ ClosedDoorBlocks

\* The zone of an alarm has no number the planner understands.
LEMMA NoEdgeInZone == \A e, z : ~EdgeInZone(e, z)
BY DEF EdgeInZone, ZoneNumber

\* In the beginning nothing is blocked.
LEMMA InitDoors == Init => DoorInv
BY DEF Init, DoorInv, BlockedHasClosedDoor, ClosedDoorBlocks

\* A step that neither blocks an edge nor touches a door.
LEMMA DoorsUntouched ==
  ASSUME DoorInv, doors' = doors, blocked' = blocked
  PROVE  DoorInv'
BY DEF DoorInv, BlockedHasClosedDoor, ClosedDoorBlocks, ShutBy, Between

\* handleLevel3Alarm blocks a zone, and with it nothing.
LEMMA BlockZoneSpares == BlockZone => doors' = doors /\ blocked' = blocked
BY NoEdgeInZone DEF BlockZone, doorVars

\* A report of a door, the first one or a later one, of a change or of none.
LEMMA DoorReported ==
  ASSUME DoorInv, NEW d \in Door, NEW open \in BOOLEAN, UpdateFireDoorStatus(d, open)
  PROVE  DoorInv'
<1> DEFINE known == d \in DOMAIN doors
           was   == known /\ doors[d].open
<1>1. PICK ends \in IF d \in DOMAIN doors THEN {doors[d].ends} ELSE DoorEnds(d) :
        /\ doors' = [c \in DOMAIN doors \cup {d} |->
                       IF c # d THEN doors[c]
                       ELSE [open |-> open, ends |-> ends,
                             opened |-> open \/ (known /\ doors[d].opened)]]
        /\ IF was # open
           THEN blocked' = IF ~open THEN blocked \cup Between(ends[1], ends[2])
                           ELSE blocked \ Between(ends[1], ends[2])
           ELSE blocked' = blocked
  <2>1. PICK ends \in IF d \in DOMAIN doors THEN {doors[d].ends} ELSE DoorEnds(d) :
          /\ doors' = [c \in DOMAIN doors \cup {d} |->
                         IF c # d THEN doors[c]
                         ELSE [open |-> open, ends |-> ends,
                               opened |-> open \/ (d \in DOMAIN doors /\ doors[d].opened)]]
          /\ ReportChanges(d, open) =>
                blocked' = IF Shut(doors'[d]) THEN blocked \cup Between(ends[1], ends[2])
                           ELSE blocked \ Between(ends[1], ends[2])
          /\ ~ReportChanges(d, open) => blocked' = blocked
    BY Zenon DEF UpdateFireDoorStatus
  <2>2. Shut(doors'[d]) = ~open
    BY <2>1 DEF Shut
  <2>3. ReportChanges(d, open) = (was # open)
    BY DEF ReportChanges
  <2>4. IF was # open
        THEN blocked' = IF ~open THEN blocked \cup Between(ends[1], ends[2])
                        ELSE blocked \ Between(ends[1], ends[2])
        ELSE blocked' = blocked
    <3> HIDE DEF was
    <3> QED BY <2>1, <2>2, <2>3
  <2> QED BY <2>1, <2>4
<1>2. /\ DOMAIN doors' = DOMAIN doors \cup {d}
      /\ doors'[d].open = open /\ doors'[d].ends = ends
      /\ doors'[d].opened = (open \/ (known /\ doors[d].opened))
      /\ \A c \in DOMAIN doors \ {d} : doors'[c] = doors[c]
      /\ d \in DOMAIN doors => ends = doors[d].ends
  BY <1>1
<1>3. \A c \in DOMAIN doors' : doors'[c].open \in BOOLEAN /\ doors'[c].opened \in BOOLEAN
  <2>1. (open \/ (known /\ doors[d].opened)) \in BOOLEAN
    BY DEF DoorInv
  <2> QED BY <1>2, <2>1 DEF DoorInv
<1>4. was \in BOOLEAN
  BY DEF DoorInv
<1>5. ASSUME NEW e \in blocked'
      PROVE  \E c \in DOMAIN doors' :
               /\ ~doors'[c].open
               /\ e \in Between(doors'[c].ends[1], doors'[c].ends[2])
  <2>1. CASE e \in Between(ends[1], ends[2]) /\ ~open
    BY <1>2, <2>1
  <2>2. CASE e \in blocked /\ (open => was \/ e \notin Between(ends[1], ends[2]))
    <3>1. PICK c \in DOMAIN doors :
            ~doors[c].open /\ e \in Between(doors[c].ends[1], doors[c].ends[2])
      BY <2>2 DEF DoorInv, BlockedHasClosedDoor
    <3>2. CASE c # d
      BY <1>2, <3>1, <3>2
    <3>3. CASE c = d
      BY <1>2, <2>2, <3>1, <3>3
    <3> QED BY <3>2, <3>3
  <2> QED BY <1>1, <1>4, <1>5, <2>1, <2>2
<1>6. BlockedHasClosedDoor'
  BY <1>5 DEF BlockedHasClosedDoor, Between
<1> DEFINE Stretch(c) == Between(doors'[c].ends[1], doors'[c].ends[2])
<1>7. \A c \in DOMAIN doors : Stretch(c) = ShutBy(c)
  BY <1>2 DEF ShutBy
<1>8. ASSUME NEW k \in DOMAIN doors', ~doors'[k].open, doors'[k].opened,
             \A c \in DOMAIN doors' \ {k} : Stretch(c) \cap Stretch(k) = {}
      PROVE  Stretch(k) \subseteq blocked'
  <2>1. CASE k = d
    <3>1. ~open /\ known /\ doors[d].opened
      BY <1>2, <1>8, <2>1
    <3>2. CASE was
      BY <1>1, <1>2, <2>1, <3>1, <3>2
    <3>3. CASE ~was
      <4>1. ShutBy(d) \subseteq blocked
        <5>1. ~doors[d].open /\ \A c \in DOMAIN doors \ {d} : ShutBy(c) \cap ShutBy(d) = {}
          BY <1>2, <1>7, <1>8, <2>1, <3>1, <3>3
        <5> QED BY <3>1, <5>1 DEF DoorInv, ClosedDoorBlocks
      <4> QED BY <1>1, <1>4, <1>7, <2>1, <3>1, <3>3, <4>1
    <3> QED BY <3>2, <3>3
  <2>2. CASE k # d
    <3>1. k \in DOMAIN doors /\ ~doors[k].open /\ doors[k].opened
      BY <1>2, <1>8, <2>2
    <3>2. \A c \in DOMAIN doors \ {k} : ShutBy(c) \cap ShutBy(k) = {}
      BY <1>2, <1>7, <1>8, <3>1
    <3>3. ShutBy(k) \subseteq blocked
      BY <3>1, <3>2 DEF DoorInv, ClosedDoorBlocks
    <3>4. Stretch(d) \cap Stretch(k) = {} /\ Stretch(d) = Between(ends[1], ends[2])
      BY <1>2, <1>8, <2>2
    <3> QED BY <1>1, <1>4, <1>7, <3>1, <3>3, <3>4
  <2> QED BY <2>1, <2>2
<1>9. ClosedDoorBlocks'
  <2>1. \A c \in DOMAIN doors' : ShutBy(c)' = Stretch(c)
    BY DEF ShutBy, Between
  <2> HIDE DEF Stretch
  <2> QED BY <1>3, <1>8, <2>1 DEF ClosedDoorBlocks
<1> QED BY <1>3, <1>6, <1>9 DEF DoorInv

\* Only a door report touches doors or edges.
LEMMA StepDoors == DoorInv /\ [Next]_vars => DoorInv'
<1> SUFFICES ASSUME DoorInv, [Next]_vars PROVE DoorInv'
  OBVIOUS
<1> USE DEF doorVars
<1>1. CASE \E z \in Zone \cup {NoZone} : TakeAlarm(z)
  BY <1>1, DoorsUntouched DEF TakeAlarm
<1>2. CASE ListenerStep
  <2>1. CASE BlockZone
    BY <2>1, BlockZoneSpares, DoorsUntouched
  <2>2. CASE ListenerEnds \/ ListPeople \/ NextPerson \/ AlarmDone \/ Submit \/ SubmitPanics
    BY <2>2, DoorsUntouched
    DEF ListenerEnds, ListPeople, NextPerson, AlarmDone, Submit, SubmitPanics
  <2>3. CASE Collect \/ SkipPerson \/ SaveRoute \/ AssignRoute
    BY <2>3, DoorsUntouched DEF Collect, SkipPerson, SaveRoute, AssignRoute
  <2> QED BY <1>2, <2>1, <2>2, <2>3 DEF ListenerStep
<1>3. CASE \E w \in Worker : WorkerStep(w)
  BY <1>3, DoorsUntouched
  DEF WorkerStep, WorkerTakes, WorkerDeclines, WorkerAnswers, WorkerDrops, WorkerReturns
<1>4. CASE StopCloses \/ StopReturns \/ Cancel
  BY <1>4, DoorsUntouched DEF StopCloses, StopReturns, Cancel
<1>5. CASE \E p \in Person, at \in PersonAt, z \in Zone : UpdatePersonLocation(p, at, z)
  BY <1>5, DoorsUntouched DEF UpdatePersonLocation
<1>6. CASE \E d \in Door, open \in BOOLEAN : UpdateFireDoorStatus(d, open)
  BY <1>6, DoorReported
<1>7. CASE ChangeAges \/ Replan \/ ExpireRoutes
  BY <1>7, DoorsUntouched DEF ChangeAges, Replan, ExpireRoutes
<1>8. CASE UNCHANGED vars
  BY <1>8, DoorsUntouched DEF vars
<1> QED BY <1>1, <1>2, <1>3, <1>4, <1>5, <1>6, <1>7, <1>8 DEF Next

\* An edge of the corridor is blocked only while a door on it is closed,
\* whatever alarms block zones and in whatever order doors are reported:
\* updateEdgeBlockedStatus leaves no edge shut that no closed door shuts.
THEOREM DoorsAloneBlock == SafetySpec => []BlockedHasClosedDoor
<1>1. DoorInv => BlockedHasClosedDoor
  BY DEF DoorInv
<1> QED BY <1>1, InitDoors, StepDoors, PTL DEF SafetySpec

\* A door that was open once and is closed now blocks its stretch unless
\* another door was attached to the same stretch, however often doors open and
\* close: what updateEdgeBlockedStatus gets right, and where it stops.
THEOREM ClosedDoorsShut == SafetySpec => []ClosedDoorBlocks
<1>1. DoorInv => ClosedDoorBlocks
  BY DEF DoorInv
<1> QED BY <1>1, InitDoors, StepDoors, PTL DEF SafetySpec

-------------------------------------------------------------------------------
(* Numbers and finite sets *)

\* A set of natural numbers has a least one.
LEMMA LeastNumber ==
  ASSUME NEW T, T \subseteq Nat, T # {}
  PROVE  \E m \in T : \A k \in T : m <= k
<1>1. PICK m \in T : \A k \in T : ~ (<<k, m>> \in OpToRel(<, Nat))
  BY WFMin, NatLessThanWellFounded
<1>2. ASSUME NEW k \in T PROVE m <= k
  <2>1. OpToRel(<, Nat) = {ss \in Nat \X Nat : ss[1] < ss[2]}
    BY DEF OpToRel
  <2>2. <<k, m>> \in {ss \in Nat \X Nat : ss[1] < ss[2]} <=> k < m
    OBVIOUS
  <2>3. ~ (k < m)
    BY <1>1, <2>1, <2>2, Zenon
  <2> QED BY <2>3
<1> QED BY <1>2

\* The graph has finitely many nodes.
LEMMA NodesAreFinite == IsFiniteSet(Node) /\ Cardinality(Node) \in Nat
<1>1. IsFiniteSet(Points)
  <2>1. IsFiniteSet(DOMAIN Corridor)
    BY CorridorIsALine, FS_Interval
  <2>2. [i \in DOMAIN Corridor |-> Point(i)] \in Surjection(DOMAIN Corridor, Points)
    BY DEF Surjection, Points
  <2> QED BY <2>1, <2>2, FS_Surjection
<1>2. IsFiniteSet({ExitNode(x) : x \in Exit})
  <2>1. [x \in Exit |-> ExitNode(x)] \in Surjection(Exit, {ExitNode(x) : x \in Exit})
    BY DEF Surjection
  <2> QED BY <2>1, FS_Surjection, ExitsAreKnown
<1>3. IsFiniteSet(Node)
  BY <1>1, <1>2, FS_Union DEF Node
<1> QED BY <1>3, FS_CardinalityType

-------------------------------------------------------------------------------
(* The search *)

\* What executeDijkstra starts from.
Begin(start) ==
  [distances |-> [n \in {start} |-> 0], previous |-> [n \in {} |-> start], visited |-> {}]

\* The turns of the search, from the first to the last one.
Turns(after, m, start, end, shut) ==
  after = [i \in 0 .. m |->
             IF i = 0 THEN Begin(start)
             ELSE CHOOSE t \in {Turn(s, end, shut) : s \in {after[i - 1]}} : TRUE]

\* A turn at a time: the main loop can be unrolled as often as one likes.
LEMMA TurnsExist ==
  ASSUME NEW start, NEW end, NEW shut, NEW n \in Nat
  PROVE  \E after : Turns(after, n, start, end, shut)
<1> DEFINE Missing == {m \in Nat : ~ \E after : Turns(after, m, start, end, shut)}
<1> SUFFICES ASSUME Missing # {} PROVE FALSE
  OBVIOUS
<1>1. PICK m \in Missing : \A k \in Missing : m <= k
  BY LeastNumber
<1>2. CASE m = 0
  <2>1. PICK g : g = [i \in 0 .. 0 |-> Begin(start)]
    OBVIOUS
  <2>2. Turns(g, 0, start, end, shut)
    BY <2>1 DEF Turns
  <2> QED BY <1>1, <1>2, <2>2
<1>3. CASE m # 0
  <2>1. m - 1 \in Nat /\ m - 1 \notin Missing
    BY <1>1, <1>3
  <2>2. PICK f : Turns(f, m - 1, start, end, shut)
    BY <2>1
  <2>3. PICK last : last = CHOOSE t \in {Turn(s, end, shut) : s \in {f[m - 1]}} : TRUE
    OBVIOUS
  <2>4. PICK g : g = [i \in 0 .. m |-> IF i = m THEN last ELSE f[i]]
    OBVIOUS
  <2>5. \A i \in 0 .. m - 1 : g[i] = f[i]
    BY <2>4
  <2>6. ASSUME NEW i \in 0 .. m
        PROVE  g[i] = IF i = 0 THEN Begin(start)
                      ELSE CHOOSE t \in {Turn(s, end, shut) : s \in {g[i - 1]}} : TRUE
    <3>1. CASE i = m
      <4>1. g[m] = last /\ g[m - 1] = f[m - 1]
        BY <1>3, <2>1, <2>4, <2>5
      <4> QED BY <1>3, <2>3, <3>1, <4>1
    <3>2. CASE i # m
      <4>1. i \in 0 .. m - 1 /\ (i # 0 => i - 1 \in 0 .. m - 1)
        BY <3>2
      <4>2. g[i] = f[i] /\ (i # 0 => g[i - 1] = f[i - 1])
        BY <2>5, <4>1
      <4>3. f[i] = IF i = 0 THEN Begin(start)
                   ELSE CHOOSE t \in {Turn(s, end, shut) : s \in {f[i - 1]}} : TRUE
        BY <2>2, <4>1 DEF Turns
      <4> QED BY <4>2, <4>3
    <3> QED BY <3>1, <3>2
  <2>7. Turns(g, m, start, end, shut)
    BY <2>4, <2>6 DEF Turns
  <2> QED BY <1>1, <2>7
<1> QED BY <1>2, <1>3

\* Search is what the turns come to.
LEMMA SearchTurns ==
  ASSUME NEW start, NEW end, NEW shut
  PROVE  \E after : /\ Search(start, end, shut) = after[Cardinality(Node)]
                    /\ after[0] = Begin(start)
                    /\ \A i \in 1 .. Cardinality(Node) :
                         after[i] = Turn(after[i - 1], end, shut)
<1>1. PICK n \in Nat : n = Cardinality(Node)
  BY NodesAreFinite
<1>2. PICK f : f = CHOOSE after : Turns(after, n, start, end, shut)
  OBVIOUS
<1>3. Turns(f, n, start, end, shut)
  BY <1>2, TurnsExist
<1>4. Search(start, end, shut) = f[n]
  BY <1>1, <1>2 DEF Search, Turns, Begin
<1>5. f[0] = Begin(start)
  BY <1>3 DEF Turns
<1>6. ASSUME NEW i \in 1 .. n PROVE f[i] = Turn(f[i - 1], end, shut)
  <2>1. f[i] = CHOOSE t \in {Turn(s, end, shut) : s \in {f[i - 1]}} : TRUE
    BY <1>3 DEF Turns
  <2> QED BY <2>1
<1> QED BY <1>1, <1>4, <1>5, <1>6

\* Edges join corridor points only.
LEMMA EdgesJoinPoints ==
  ASSUME NEW e \in Edges
  PROVE  e[1] \in Points /\ e[2] \in Points /\ e = <<e[1], e[2]>>
BY DEF Edges

\* No exit is a corridor point.
LEMMA ExitIsNoPoint == \A x : ExitNode(x) \notin Points
BY DEF ExitNode, Points, Point

\* A turn that was not the last one visits one node and reaches points only.
LEMMA TurnReaches ==
  ASSUME NEW s, NEW end, NEW shut
  PROVE  DOMAIN Turn(s, end, shut).distances \subseteq DOMAIN s.distances \cup Points
<1>1. CASE Closest(s) = {} \/ end \in Closest(s)
  BY <1>1 DEF Turn
<1>2. CASE ~(Closest(s) = {} \/ end \in Closest(s))
  <2>1. PICK n : n = CHOOSE k \in Closest(s) : TRUE
    OBVIOUS
  <2>2. Turn(s, end, shut) = Relax(s, n, shut)
    BY <1>2, <2>1 DEF Turn
  <2>3. PICK improved :
          /\ DOMAIN Relax(s, n, shut).distances = DOMAIN s.distances \cup improved
          /\ improved \subseteq {e[2] : e \in Passable(n, shut)}
    BY DEF Relax
  <2>4. improved \subseteq Points
    BY <2>3, EdgesJoinPoints DEF Passable
  <2> QED BY <2>2, <2>3, <2>4
<1> QED BY <1>1, <1>2

\* However a search turns out, an exit is reached only from that exit.
LEMMA SearchReaches ==
  ASSUME NEW start, NEW end, NEW shut
  PROVE  DOMAIN Search(start, end, shut).distances \subseteq {start} \cup Points
<1>1. PICK n \in Nat : n = Cardinality(Node)
  BY NodesAreFinite
<1>2. PICK f : /\ Search(start, end, shut) = f[n] /\ f[0] = Begin(start)
               /\ \A i \in 1 .. n : f[i] = Turn(f[i - 1], end, shut)
  BY <1>1, SearchTurns
<1> DEFINE Beyond == {i \in 0 .. n : ~(DOMAIN f[i].distances \subseteq {start} \cup Points)}
<1>3. Beyond = {}
  <2> SUFFICES ASSUME Beyond # {} PROVE FALSE
    OBVIOUS
  <2>1. PICK i \in Beyond : \A k \in Beyond : i <= k
    <3>1. Beyond \subseteq Nat
      OBVIOUS
    <3> HIDE DEF Beyond
    <3> QED BY <3>1, LeastNumber
  <2>2. i # 0
    BY <1>2, <2>1 DEF Begin
  <2>3. i \in 1 .. n /\ i - 1 \in 0 .. n /\ i - 1 \notin Beyond
    BY <2>1, <2>2
  <2>4. DOMAIN f[i - 1].distances \subseteq {start} \cup Points
    BY <2>3
  <2>5. DOMAIN f[i].distances \subseteq DOMAIN f[i - 1].distances \cup Points
    BY <1>2, <2>3, TurnReaches
  <2> QED BY <2>1, <2>4, <2>5
<1> QED BY <1>2, <1>3

\* A search that starts where it ends takes no turn.
LEMMA SearchAtEnd ==
  ASSUME NEW start, NEW shut
  PROVE  Search(start, start, shut) = Begin(start)
<1>1. PICK n \in Nat : n = Cardinality(Node)
  BY NodesAreFinite
<1>2. PICK f : /\ Search(start, start, shut) = f[n] /\ f[0] = Begin(start)
               /\ \A i \in 1 .. n : f[i] = Turn(f[i - 1], start, shut)
  BY <1>1, SearchTurns
<1>3. Turn(Begin(start), start, shut) = Begin(start)
  <2>1. start \in Closest(Begin(start))
    BY DEF Closest, Begin
  <2> QED BY <2>1 DEF Turn
<1> DEFINE Moved == {i \in 0 .. n : f[i] # Begin(start)}
<1>4. Moved = {}
  <2> SUFFICES ASSUME Moved # {} PROVE FALSE
    OBVIOUS
  <2>1. PICK i \in Moved : \A k \in Moved : i <= k
    <3>1. Moved \subseteq Nat
      OBVIOUS
    <3> HIDE DEF Moved
    <3> QED BY <3>1, LeastNumber
  <2>2. i \in 1 .. n /\ i - 1 \in 0 .. n /\ i - 1 \notin Moved
    BY <1>2, <2>1
  <2> QED BY <1>2, <1>3, <2>1, <2>2
<1> QED BY <1>2, <1>4

\* What the workers answer to a job of the planner, whatever is shut: from the
\* exit itself executeDijkstra finds the way at once, and from anywhere else
\* there is none, because AddExitPoint adds no edge.
THEOREM ShortestToExit ==
  ASSUME NEW start, NEW x \in Exit, NEW shut
  PROVE  Shortest(start, ExitNode(x), shut) =
           IF start = ExitNode(x) THEN [path |-> <<start>>, distance |-> 0] ELSE NoPath
<1>1. PICK end : end = ExitNode(x)
  OBVIOUS
<1>2. PICK s : s = CHOOSE t \in {Search(start, end, shut)} : TRUE
  OBVIOUS
<1>3. s = Search(start, end, shut)
  BY <1>2
<1>4. CASE start = end
  <2>1. s = Begin(start)
    BY <1>3, <1>4, SearchAtEnd
  <2>2. DOMAIN s.distances = {start} /\ s.distances[start] = 0
    BY <2>1 DEF Begin
  <2>3. PICK path : path = CHOOSE p : p = [n \in DOMAIN s.distances |->
                      IF n = start THEN <<n>> ELSE Append(p[s.previous[n]], n)]
    OBVIOUS
  <2>4. PICK g : g = [n \in {start} |-> <<n>>]
    OBVIOUS
  <2>5. g = [n \in DOMAIN s.distances |->
               IF n = start THEN <<n>> ELSE Append(g[s.previous[n]], n)]
    BY <2>2, <2>4
  <2>6. path = [n \in DOMAIN s.distances |->
                  IF n = start THEN <<n>> ELSE Append(path[s.previous[n]], n)]
    BY <2>3, <2>5
  <2>7. path[end] = <<start>>
    BY <1>4, <2>2, <2>6
  <2>8. Shortest(start, end, shut) = [path |-> path[end], distance |-> s.distances[end]]
    BY <1>2, <1>4, <2>2, <2>3 DEF Shortest
  <2> QED BY <1>1, <1>4, <2>2, <2>7, <2>8
<1>5. CASE start # end
  <2>1. end \notin DOMAIN s.distances
    BY <1>1, <1>3, <1>5, SearchReaches, ExitIsNoPoint
  <2> QED BY <1>1, <1>2, <1>5, <2>1 DEF Shortest
<1> QED BY <1>4, <1>5

-------------------------------------------------------------------------------
(* Plans: the inductive invariant *)

ExitJob == [start : Node, exit : {ExitNode(x) : x \in Available}]

PlanTyped ==
  /\ DOMAIN lst = {"at", "zone", "todo", "who", "start", "left", "best"}
  /\ lst.start \in Node /\ lst.left \subseteq Available
  /\ jobs \in Seq(ExitJob) /\ busy \in [Worker -> SUBSET ExitJob]

\* The planner waits for one answer at a time: whatever is under way is the
\* job it waits for.
OneJob ==
  /\ lst.at # "wait" => jobs = <<>> /\ reply = {} /\ \A w \in Worker : busy[w] = {}
  /\ Len(jobs) <= 1
  /\ jobs # <<>> => reply = {} /\ \A w \in Worker : busy[w] = {}
  /\ \A w \in Worker : busy[w] # {} => reply = {} /\ \A v \in Worker : busy[v] # {} => v = w

\* And it starts where the person does.
JobsStartHere ==
  /\ \A i \in DOMAIN jobs : jobs[i].start = lst.start
  /\ \A w \in Worker : \A j \in busy[w] : j.start = lst.start

LeadsOut(path) == \E x \in Available : path[Len(path)] = ExitNode(x)

\* Who is at an exit that was tried has a result, or is about to have it.
Served(x) ==
  lst.at \in {"submit", "wait"} /\ lst.start = ExitNode(x) /\ ~cancelled /\ lst.best = {} =>
    /\ lst.at = "wait"
    /\ \A i \in DOMAIN jobs : jobs[i].exit = ExitNode(x)
    /\ \A w \in Worker : \A j \in busy[w] : j.exit = ExitNode(x)
    /\ \A r \in reply : r.path # <<>>

PlanInv ==
  /\ PlanTyped /\ OneJob /\ JobsStartHere
  /\ \A x \in Available \ lst.left : Served(x)
  /\ \A r \in reply : r.path # <<>> => LeadsOut(r.path)
  /\ \A b \in lst.best : b.path # <<>> /\ LeadsOut(b.path)
  /\ OnlyTheLostAreSkipped

\* Nobody is planned for.
LEMMA InitPlan == Init => PlanInv
<1> SUFFICES ASSUME Init PROVE PlanInv
  OBVIOUS
<1>1. lst = [at |-> "idle", zone |-> NoZone, todo |-> {}, who |-> NoZone,
             start |-> Point(1), left |-> {}, best |-> {}]
  BY DEF Init
<1>2. Point(1) \in Node
  BY CorridorIsALine DEF Node, Points
<1>3. jobs = <<>> /\ reply = {} /\ busy = [w \in Worker |-> {}] /\ routes = {} /\ skipped = {}
  BY DEF Init
<1>4. /\ DOMAIN lst = {"at", "zone", "todo", "who", "start", "left", "best"}
      /\ lst.at = "idle" /\ lst.start \in Node /\ lst.left = {} /\ lst.best = {}
  BY <1>1, <1>2
<1>5. jobs \in Seq(ExitJob) /\ Len(jobs) = 0 /\ DOMAIN jobs = {}
  BY <1>3
<1> QED BY <1>3, <1>4, <1>5
        DEF PlanInv, PlanTyped, OneJob, JobsStartHere, Served, OnlyTheLostAreSkipped

\* A step of the listener between two searches, with no answer to come.
LEMMA BetweenSearches ==
  ASSUME PlanInv, lst.at # "wait", lst'.at \notin {"submit", "wait"},
         DOMAIN lst' = DOMAIN lst, lst'.start = lst.start, lst'.left = lst.left,
         lst'.best = lst.best, UNCHANGED <<poolVars, cancelled>>, OnlyTheLostAreSkipped'
  PROVE  PlanInv'
BY DEF PlanInv, PlanTyped, OneJob, JobsStartHere, Served, LeadsOut, poolVars

\* A step that leaves the listener alone and has no part in the search.
LEMMA Elsewhere ==
  ASSUME PlanInv, lst' = lst, UNCHANGED <<jobs, busy, reply>>, cancelled => cancelled',
         routes' \subseteq routes, skipped' = skipped
  PROVE  PlanInv'
<1>1. OnlyTheLostAreSkipped'
  BY DEF PlanInv, OnlyTheLostAreSkipped
<1> QED BY <1>1 DEF PlanInv, PlanTyped, OneJob, JobsStartHere, Served, LeadsOut

\* calculateEvacuationRoute begins: nothing was tried, nothing is under way.
LEMMA NextPersonKeeps == PlanInv /\ NextPerson => PlanInv'
<1> SUFFICES ASSUME PlanInv, NextPerson PROVE PlanInv'
  OBVIOUS
<1>1. PICK p \in lst.todo, s \in Node :
        lst' = [lst EXCEPT !.at = "submit", !.todo = @ \ {p}, !.who = p.id,
                           !.start = s, !.left = Available, !.best = {}]
  BY DEF NextPerson, Nearest
<1>2. lst.at = "next" /\ UNCHANGED <<poolVars, routeVars, cancelled>>
  BY DEF NextPerson, lifeVars
<1>3. /\ DOMAIN lst' = DOMAIN lst /\ lst'.at = "submit" /\ lst'.start = s
      /\ lst'.left = Available /\ lst'.best = {}
  BY <1>1 DEF PlanInv, PlanTyped
<1>4. jobs = <<>> /\ reply = {} /\ \A w \in Worker : busy[w] = {}
  BY <1>2 DEF PlanInv, OneJob
<1>5. OnlyTheLostAreSkipped'
  BY <1>2 DEF PlanInv, OnlyTheLostAreSkipped, routeVars
<1> QED BY <1>2, <1>3, <1>4, <1>5
        DEF PlanInv, PlanTyped, OneJob, JobsStartHere, Served, poolVars

\* submitDijkstraJob: the one job that is under way.
LEMMA SubmitKeeps == PlanInv /\ Submit => PlanInv'
<1> SUFFICES ASSUME PlanInv, Submit PROVE PlanInv'
  OBVIOUS
<1>1. PICK x \in lst.left :
        /\ jobs' = Append(jobs, [start |-> lst.start, exit |-> ExitNode(x)])
        /\ lst' = [lst EXCEPT !.at = "wait", !.left = @ \ {x}]
  BY DEF Submit
<1>2. PICK j : j = [start |-> lst.start, exit |-> ExitNode(x)]
  OBVIOUS
<1>3. lst.at = "submit" /\ UNCHANGED <<busy, reply, routeVars, cancelled>>
  BY DEF Submit, lifeVars
<1>4. jobs = <<>> /\ reply = {} /\ \A w \in Worker : busy[w] = {}
  BY <1>3 DEF PlanInv, OneJob
<1>5. /\ DOMAIN lst' = DOMAIN lst /\ lst'.at = "wait" /\ lst'.start = lst.start
      /\ lst'.left = lst.left \ {x} /\ lst'.best = lst.best
  BY <1>1 DEF PlanInv, PlanTyped
<1>6. j \in ExitJob /\ j.start = lst.start /\ j.exit = ExitNode(x)
  BY <1>2 DEF PlanInv, PlanTyped, ExitJob
<1>7. jobs' = <<j>>
  BY <1>1, <1>2, <1>4
<1>8. jobs' \in Seq(ExitJob) /\ Len(jobs') = 1 /\ DOMAIN jobs' = {1} /\ jobs'[1] = j
  BY <1>6, <1>7
<1>9. PlanTyped' /\ OneJob' /\ JobsStartHere'
  BY <1>3, <1>4, <1>5, <1>6, <1>8 DEF PlanInv, PlanTyped, OneJob, JobsStartHere
<1>10. ASSUME NEW y \in Available \ lst'.left PROVE Served(y)'
  <2>1. CASE y = x
    BY <1>3, <1>4, <1>5, <1>6, <1>8, <2>1 DEF Served
  <2>2. CASE y # x
    <3>1. y \in Available \ lst.left
      BY <1>5, <2>2
    <3> QED BY <1>3, <1>5, <3>1 DEF PlanInv, Served
  <2> QED BY <2>1, <2>2
<1>11. OnlyTheLostAreSkipped'
  BY <1>3 DEF PlanInv, OnlyTheLostAreSkipped, routeVars
<1> QED BY <1>3, <1>5, <1>9, <1>10, <1>11 DEF PlanInv, LeadsOut

\* The answer is taken: the better of two is kept, and the only one.
LEMMA CollectKeeps == PlanInv /\ Collect => PlanInv'
<1> SUFFICES ASSUME PlanInv, Collect PROVE PlanInv'
  OBVIOUS
<1>1. PICK r \in reply : lst' = [lst EXCEPT !.at = "submit",
                                            !.best = IF Better(r, @) THEN {r} ELSE @]
  BY DEF Collect
<1>2. lst.at = "wait" /\ reply' = {} /\ UNCHANGED <<jobs, busy, routeVars, cancelled>>
  BY DEF Collect, lifeVars
<1>3. jobs = <<>> /\ \A w \in Worker : busy[w] = {}
  BY <1>1 DEF PlanInv, OneJob
<1>4. /\ DOMAIN lst' = DOMAIN lst /\ lst'.at = "submit" /\ lst'.start = lst.start
      /\ lst'.left = lst.left /\ lst'.best = IF Better(r, lst.best) THEN {r} ELSE lst.best
  BY <1>1 DEF PlanInv, PlanTyped
<1>5. PlanTyped' /\ OneJob' /\ JobsStartHere'
  BY <1>2, <1>3, <1>4 DEF PlanInv, PlanTyped, OneJob, JobsStartHere
<1>6. ASSUME NEW x \in Available \ lst'.left PROVE Served(x)'
  <2> SUFFICES ASSUME lst.start = ExitNode(x), ~cancelled PROVE lst'.best # {}
    BY <1>2, <1>4 DEF Served
  <2>1. CASE lst.best # {}
    BY <1>4, <2>1
  <2>2. CASE lst.best = {}
    <3>1. Served(x)
      BY <1>4 DEF PlanInv
    <3>2. r.path # <<>>
      BY <1>1, <1>2, <2>2, <3>1 DEF Served
    <3> QED BY <1>4, <2>2, <3>2 DEF Better
  <2> QED BY <2>1, <2>2
<1>7. \A b \in lst'.best : b.path # <<>> /\ LeadsOut(b.path)
  BY <1>1, <1>4 DEF PlanInv, Better
<1>8. OnlyTheLostAreSkipped'
  BY <1>2 DEF PlanInv, OnlyTheLostAreSkipped, routeVars
<1> QED BY <1>2, <1>5, <1>6, <1>7, <1>8 DEF PlanInv, LeadsOut

\* A person is passed over: no exit is where the person starts, or its search
\* was cancelled.
LEMMA SkipKeeps == PlanInv /\ SkipPerson => PlanInv'
<1> SUFFICES ASSUME PlanInv, SkipPerson PROVE PlanInv'
  OBVIOUS
<1>1. /\ lst.at = "submit" /\ lst.left = {} /\ lst.best = {}
      /\ lst' = [lst EXCEPT !.at = "next"]
      /\ skipped' = skipped \cup {[id |-> lst.who, start |-> lst.start]}
      /\ UNCHANGED <<poolVars, routes, cancelled>>
  BY DEF SkipPerson, lifeVars
<1>2. /\ DOMAIN lst' = DOMAIN lst /\ lst'.at = "next" /\ lst'.start = lst.start
      /\ lst'.left = lst.left /\ lst'.best = lst.best
  BY <1>1 DEF PlanInv, PlanTyped
<1>3. cancelled \/ \A x \in Available : lst.start # ExitNode(x)
  BY <1>1 DEF PlanInv, Served
<1>4. OnlyTheLostAreSkipped'
  BY <1>1, <1>3 DEF PlanInv, OnlyTheLostAreSkipped
<1> QED BY <1>1, <1>2, <1>4, BetweenSearches

\* saveRoute: the best result leads out.
LEMMA SaveKeeps == PlanInv /\ SaveRoute => PlanInv'
<1> SUFFICES ASSUME PlanInv, SaveRoute PROVE PlanInv'
  OBVIOUS
<1>1. PICK b \in lst.best :
        routes' = routes \cup {[id |-> issued + 1, person |-> lst.who, path |-> b.path]}
  BY DEF SaveRoute
<1>2. /\ lst.at = "submit" /\ lst' = [lst EXCEPT !.at = "assign"]
      /\ UNCHANGED <<poolVars, skipped, cancelled>>
  BY DEF SaveRoute, lifeVars
<1>3. /\ DOMAIN lst' = DOMAIN lst /\ lst'.at = "assign" /\ lst'.start = lst.start
      /\ lst'.left = lst.left /\ lst'.best = lst.best
  BY <1>2 DEF PlanInv, PlanTyped
<1>4. LeadsOut(b.path)
  BY <1>1 DEF PlanInv
<1>5. OnlyTheLostAreSkipped'
  BY <1>1, <1>2, <1>4 DEF PlanInv, OnlyTheLostAreSkipped, LeadsOut
<1> QED BY <1>2, <1>3, <1>5, BetweenSearches

\* The other steps of the listener.
LEMMA RoutineKeeps ==
  ASSUME PlanInv,
         ListenerEnds \/ BlockZone \/ ListPeople \/ AlarmDone \/ AssignRoute
           \/ \E z \in Zone \cup {NoZone} : TakeAlarm(z)
  PROVE  PlanInv'
<1>1. /\ lst.at \in {"idle", "block", "list", "next", "assign"}
      /\ UNCHANGED <<poolVars, routeVars, cancelled>>
  BY DEF ListenerEnds, BlockZone, ListPeople, AlarmDone, AssignRoute, TakeAlarm, lifeVars
<1>2. /\ DOMAIN lst' = DOMAIN lst /\ lst'.at \in {"idle", "gone", "block", "list", "next"}
      /\ lst'.start = lst.start /\ lst'.left = lst.left /\ lst'.best = lst.best
  <2>1. DOMAIN lst = {"at", "zone", "todo", "who", "start", "left", "best"}
    BY DEF PlanInv, PlanTyped
  <2>2. CASE ListenerEnds
    BY <2>1, <2>2 DEF ListenerEnds
  <2>3. CASE BlockZone
    BY <2>1, <2>3 DEF BlockZone
  <2>4. CASE ListPeople
    <3>1. PICK people2 : lst' = [lst EXCEPT !.at = "next", !.todo = people2]
      BY <2>4 DEF ListPeople
    <3> QED BY <2>1, <3>1
  <2>5. CASE AlarmDone
    BY <2>1, <2>5 DEF AlarmDone
  <2>6. CASE AssignRoute
    BY <2>1, <2>6 DEF AssignRoute
  <2>7. ASSUME NEW z, TakeAlarm(z)
        PROVE  /\ DOMAIN lst' = DOMAIN lst /\ lst'.at = "block"
               /\ lst'.start = lst.start /\ lst'.left = lst.left /\ lst'.best = lst.best
    BY <2>1, <2>7 DEF TakeAlarm
  <2> QED BY <2>2, <2>3, <2>4, <2>5, <2>6, <2>7
<1>3. OnlyTheLostAreSkipped'
  BY <1>1 DEF PlanInv, OnlyTheLostAreSkipped, routeVars
<1> QED BY <1>1, <1>2, <1>3, BetweenSearches

-------------------------------------------------------------------------------
(* The workers *)

\* A queue of one job.
LEMMA OneInQueue ==
  ASSUME NEW S, NEW queue \in Seq(S), queue # <<>>, Len(queue) <= 1
  PROVE  Len(queue) = 1 /\ Tail(queue) = <<>>
<1>1. PICK n \in Nat : n = Len(queue)
  OBVIOUS
<1>2. n # 0
  BY <1>1, EmptySeq
<1>3. n = 1
  BY <1>1, <1>2
<1>4. Tail(queue) \in Seq(S) /\ Len(Tail(queue)) = n - 1
  BY <1>1, HeadTailProperties
<1>5. Tail(queue) = <<>>
  BY <1>3, <1>4, EmptySeq
<1> QED BY <1>1, <1>3, <1>5

\* The queue when the one job is in it.
LEMMA OnlyJob ==
  ASSUME PlanInv, jobs # <<>>
  PROVE  jobs \in Seq(ExitJob) /\ Len(jobs) = 1 /\ Tail(jobs) = <<>>
<1>1. jobs \in Seq(ExitJob) /\ Len(jobs) <= 1
  BY DEF PlanInv, PlanTyped, OneJob
<1> QED BY <1>1, OneInQueue

\* A job passes from the queue to a worker.
LEMMA TakesKeeps == ASSUME PlanInv, NEW w \in Worker, WorkerTakes(w) PROVE PlanInv'
<1>1. /\ jobs # <<>> /\ jobs' = Tail(jobs) /\ busy' = [busy EXCEPT ![w] = {Head(jobs)}]
      /\ UNCHANGED <<reply, lst, routeVars, cancelled>>
  BY DEF WorkerTakes, lifeVars
<1>2. jobs \in Seq(ExitJob) /\ Len(jobs) = 1 /\ Tail(jobs) = <<>>
  BY <1>1, OnlyJob
<1>3. PICK j \in ExitJob : j = Head(jobs) /\ j = jobs[1]
  BY <1>2
<1>4. jobs' = <<>> /\ 1 \in DOMAIN jobs
  BY <1>1, <1>2
<1>5. reply = {} /\ \A v \in Worker : busy[v] = {}
  BY <1>1 DEF PlanInv, OneJob
<1>6. \A v \in Worker : busy'[v] = IF v = w THEN {j} ELSE {}
  BY <1>1, <1>3, <1>5 DEF PlanInv, PlanTyped
<1>7. lst.at = "wait"
  BY <1>1 DEF PlanInv, OneJob
<1>8. j.start = lst.start
  BY <1>3, <1>4 DEF PlanInv, JobsStartHere
<1>9. jobs' \in Seq(ExitJob) /\ Len(jobs') = 0 /\ DOMAIN jobs' = {}
  BY <1>4
<1>10. PlanTyped' /\ OneJob' /\ JobsStartHere'
  <2>1. busy' \in [Worker -> SUBSET ExitJob]
    BY <1>1, <1>3 DEF PlanInv, PlanTyped
  <2> QED BY <1>1, <1>4, <1>5, <1>6, <1>7, <1>8, <1>9, <2>1
          DEF PlanInv, PlanTyped, OneJob, JobsStartHere
<1>11. ASSUME NEW x \in Available \ lst'.left PROVE Served(x)'
  <2>1. Served(x)
    BY <1>1 DEF PlanInv
  <2> QED BY <1>1, <1>3, <1>4, <1>5, <1>6, <1>9, <2>1 DEF Served
<1>12. OnlyTheLostAreSkipped'
  BY <1>1 DEF PlanInv, OnlyTheLostAreSkipped, routeVars
<1> QED BY <1>1, <1>10, <1>11, <1>12 DEF PlanInv, LeadsOut

\* The answer of a worker: the person is at the exit, or there is no path.
LEMMA AnswersKeeps == ASSUME PlanInv, NEW w \in Worker, WorkerAnswers(w) PROVE PlanInv'
<1>1. PICK j \in busy[w] : reply' = {Shortest(j.start, j.exit, blocked)}
  BY DEF WorkerAnswers
<1>2. busy' = [busy EXCEPT ![w] = {}] /\ UNCHANGED <<jobs, lst, routeVars, cancelled>>
  BY DEF WorkerAnswers, lifeVars
<1>3. jobs = <<>> /\ lst.at = "wait" /\ \A v \in Worker : v # w => busy[v] = {}
  BY <1>1 DEF PlanInv, OneJob
<1>4. \A v \in Worker : busy'[v] = {}
  BY <1>2, <1>3 DEF PlanInv, PlanTyped
<1>5. j \in ExitJob /\ j.start = lst.start
  BY <1>1 DEF PlanInv, PlanTyped, JobsStartHere
<1>6. PICK y \in Available : j.exit = ExitNode(y)
  BY <1>5 DEF ExitJob
<1>7. PICK r : r = Shortest(j.start, j.exit, blocked)
  OBVIOUS
<1>8. r = IF lst.start = ExitNode(y) THEN [path |-> <<lst.start>>, distance |-> 0] ELSE NoPath
  BY <1>5, <1>6, <1>7, ShortestToExit, ExitsAreKnown
<1>9. /\ r.path # <<>> => LeadsOut(r.path)
      /\ lst.start = ExitNode(y) => r.path # <<>>
  <2>1. CASE lst.start = ExitNode(y)
    <3>1. r.path = <<ExitNode(y)>>
      BY <1>8, <2>1
    <3>2. r.path # <<>> /\ r.path[Len(r.path)] = ExitNode(y)
      BY <3>1
    <3> QED BY <3>2 DEF LeadsOut
  <2>2. CASE lst.start # ExitNode(y)
    BY <1>8, <2>2 DEF NoPath
  <2> QED BY <2>1, <2>2
<1>10. PlanTyped' /\ OneJob' /\ JobsStartHere'
  <2>1. busy' \in [Worker -> SUBSET ExitJob]
    BY <1>2 DEF PlanInv, PlanTyped
  <2> QED BY <1>2, <1>3, <1>4, <2>1 DEF PlanInv, PlanTyped, OneJob, JobsStartHere
<1>11. ASSUME NEW x \in Available \ lst'.left PROVE Served(x)'
  <2>1. Served(x)
    BY <1>2 DEF PlanInv
  <2>2. lst.start = ExitNode(x) /\ ~cancelled /\ lst.best = {} => j.exit = ExitNode(x)
    BY <1>1, <1>3, <2>1 DEF Served
  <2>3. lst.start = ExitNode(x) /\ ~cancelled /\ lst.best = {} => \A q \in reply' : q.path # <<>>
    BY <1>1, <1>6, <1>7, <1>9, <2>2
  <2> QED BY <1>2, <1>3, <1>4, <2>1, <2>3 DEF Served
<1>12. OnlyTheLostAreSkipped'
  BY <1>2 DEF PlanInv, OnlyTheLostAreSkipped, routeVars
<1> QED BY <1>1, <1>2, <1>7, <1>9, <1>10, <1>11, <1>12 DEF PlanInv, LeadsOut

\* A job that is declined or dropped: the context was cancelled.
LEMMA CancelledKeeps ==
  ASSUME PlanInv, NEW w \in Worker, WorkerDeclines(w) \/ WorkerDrops(w)
  PROVE  PlanInv'
<1>1. /\ cancelled /\ cancelled' /\ UNCHANGED <<lst, routeVars>>
      /\ \/ /\ jobs # <<>> /\ jobs' = Tail(jobs) /\ reply' = {NoPath} /\ busy' = busy
         \/ /\ busy[w] # {} /\ busy' = [busy EXCEPT ![w] = {}] /\ UNCHANGED <<jobs, reply>>
  BY DEF WorkerDeclines, WorkerDrops, lifeVars
<1>2. OnlyTheLostAreSkipped' /\ \A x : Served(x)'
  BY <1>1 DEF PlanInv, OnlyTheLostAreSkipped, Served, routeVars
<1>3. CASE jobs # <<>> /\ jobs' = Tail(jobs) /\ reply' = {NoPath} /\ busy' = busy
  <2>1. jobs' = <<>>
    BY <1>3, OnlyJob
  <2>2. jobs' \in Seq(ExitJob) /\ Len(jobs') = 0 /\ DOMAIN jobs' = {}
    BY <2>1
  <2>3. lst.at = "wait" /\ \A v \in Worker : busy[v] = {}
    BY <1>3 DEF PlanInv, OneJob
  <2>4. PlanTyped' /\ OneJob' /\ JobsStartHere'
    BY <1>1, <1>3, <2>1, <2>2, <2>3 DEF PlanInv, PlanTyped, OneJob, JobsStartHere
  <2> QED BY <1>1, <1>2, <1>3, <2>4 DEF PlanInv, NoPath, LeadsOut
<1>4. CASE busy[w] # {} /\ busy' = [busy EXCEPT ![w] = {}] /\ UNCHANGED <<jobs, reply>>
  <2>1. busy' \in [Worker -> SUBSET ExitJob] /\ \A v \in Worker : busy'[v] \subseteq busy[v]
    BY <1>4 DEF PlanInv, PlanTyped
  <2>2. PlanTyped' /\ OneJob' /\ JobsStartHere'
    BY <1>1, <1>4, <2>1 DEF PlanInv, PlanTyped, OneJob, JobsStartHere
  <2> QED BY <1>1, <1>2, <1>4, <2>2 DEF PlanInv, LeadsOut
<1> QED BY <1>1, <1>3, <1>4

\* Stop returns with an empty channel in place of the closed one.
LEMMA StopReturnsKeeps == PlanInv /\ StopReturns => PlanInv'
<1> SUFFICES ASSUME PlanInv, StopReturns PROVE PlanInv'
  OBVIOUS
<1>1. jobs' = <<>> /\ UNCHANGED <<busy, reply, lst, routeVars, cancelled>>
  BY DEF StopReturns
<1>2. jobs' \in Seq(ExitJob) /\ Len(jobs') = 0 /\ DOMAIN jobs' = {}
  BY <1>1
<1>3. OnlyTheLostAreSkipped'
  BY <1>1 DEF PlanInv, OnlyTheLostAreSkipped, routeVars
<1>4. \A x \in Available \ lst'.left : Served(x)'
  BY <1>1, <1>2 DEF PlanInv, Served
<1> QED BY <1>1, <1>2, <1>3, <1>4 DEF PlanInv, PlanTyped, OneJob, JobsStartHere, LeadsOut

\* Every step of the planner keeps the invariant.
LEMMA StepPlan == PlanInv /\ [Next]_vars => PlanInv'
<1> SUFFICES ASSUME PlanInv, [Next]_vars PROVE PlanInv'
  OBVIOUS
<1> USE DEF lifeVars, poolVars, routeVars
<1>1. CASE \E z \in Zone \cup {NoZone} : TakeAlarm(z)
  BY <1>1, RoutineKeeps
<1>2. CASE ListenerStep
  <2>1. CASE SubmitPanics
    BY <2>1, Elsewhere DEF SubmitPanics
  <2> QED BY <1>2, <2>1, RoutineKeeps, NextPersonKeeps, SubmitKeeps, CollectKeeps, SkipKeeps,
             SaveKeeps DEF ListenerStep
<1>3. CASE \E w \in Worker : WorkerStep(w)
  <2>1. ASSUME NEW w \in Worker, WorkerReturns(w) PROVE PlanInv'
    BY <2>1, Elsewhere DEF WorkerReturns
  <2> QED BY <1>3, <2>1, TakesKeeps, AnswersKeeps, CancelledKeeps DEF WorkerStep
<1>4. CASE StopCloses \/ Cancel
  BY <1>4, Elsewhere DEF StopCloses, Cancel
<1>5. CASE \E p \in Person, at \in PersonAt, z \in Zone : UpdatePersonLocation(p, at, z)
  BY <1>5, Elsewhere DEF UpdatePersonLocation
<1>6. CASE \E d \in Door, open \in BOOLEAN : UpdateFireDoorStatus(d, open)
  BY <1>6, Elsewhere DEF UpdateFireDoorStatus
<1>7. CASE ChangeAges \/ Replan \/ ExpireRoutes
  BY <1>7, Elsewhere DEF ChangeAges, Replan, ExpireRoutes
<1>8. CASE UNCHANGED vars
  BY <1>8, Elsewhere DEF vars
<1> QED BY <1>1, <1>2, <1>3, <1>4, <1>5, <1>6, <1>7, <1>8, StopReturnsKeeps DEF Next

\* Whatever doors, workers, Stop and reports do: a route leads to an available
\* exit, and while the context lives nobody who is at one is passed over.
THEOREM LostAloneAreSkipped == SafetySpec => []OnlyTheLostAreSkipped
<1>1. PlanInv => OnlyTheLostAreSkipped
  BY DEF PlanInv
<1> QED BY <1>1, InitPlan, StepPlan, PTL DEF SafetySpec

-------------------------------------------------------------------------------
(* Dijkstra on the corridor: points and edges by their numbers *)

Index == DOMAIN Corridor

\* How far a point is from another one, and the neighbour on the way to it.
Far(i, n)    == Abs(Corridor[n] - Corridor[i])
Toward(i, n) == IF n > i THEN n - 1 ELSE n + 1

\* The k-th point on the way from one point to another.
Walk(i, j, k) == IF i < j THEN i + k ELSE i - k

\* The numbers of the points.
LEMMA IndexIs ==
  /\ Len(Corridor) \in Nat /\ Len(Corridor) >= 2 /\ Index = 1 .. Len(Corridor)
  /\ \A i \in Index : Corridor[i] \in Int
  /\ \A i, j \in Index : i < j => Corridor[i] < Corridor[j]
BY CorridorIsALine DEF Index

\* A point and its number are the same thing.
LEMMA PointIs ==
  /\ \A i, j : Point(i) = Point(j) => i = j
  /\ \A i : Point(i)[2] = i
  /\ \A i \in Index : Point(i) \in Points /\ Point(i) \in Node /\ At[Point(i)] = Corridor[i]
  /\ \A n \in Points : \E i \in Index : n = Point(i)
<1>1. \A i, j : Point(i) = Point(j) => i = j
  BY DEF Point
<1>2. \A i : Point(i)[2] = i
  BY DEF Point
<1>3. \A i \in Index : Point(i) \in Points /\ Point(i) \in Node
  BY DEF Points, Index, Node
<1>4. \A n \in Points : \E i \in Index : n = Point(i)
  BY DEF Points, Index
<1>5. \A i \in Index : At[Point(i)] = Corridor[i]
  BY <1>2, <1>3 DEF At
<1> QED BY <1>1, <1>2, <1>3, <1>4, <1>5

\* An edge joins neighbours.
LEMMA EdgeIs ==
  /\ \A m, n \in Index : <<Point(m), Point(n)>> \in Edges <=> m - n \in {1, -1}
  /\ \A e \in Edges : \E m, n \in Index :
       e = <<Point(m), Point(n)>> /\ m - n \in {1, -1}
<1>1. ASSUME NEW m \in Index, NEW n \in Index
      PROVE  <<Point(m), Point(n)>> \in Edges <=> m - n \in {1, -1}
  BY PointIs DEF Edges
<1>2. ASSUME NEW e \in Edges
      PROVE  \E m, n \in Index : e = <<Point(m), Point(n)>> /\ m - n \in {1, -1}
  <2>1. e[1] \in Points /\ e[2] \in Points /\ e = <<e[1], e[2]>>
    BY EdgesJoinPoints
  <2>2. PICK m \in Index, n \in Index : e[1] = Point(m) /\ e[2] = Point(n)
    BY <2>1, PointIs
  <2>3. e = <<Point(m), Point(n)>>
    BY <2>1, <2>2
  <2> QED BY <1>1, <2>3
<1> QED BY <1>1, <1>2

\* The length of a stretch.
LEMMA WeightIs ==
  ASSUME NEW m \in Index, NEW n \in Index
  PROVE  Weight(<<Point(m), Point(n)>>) = Abs(Corridor[m] - Corridor[n])
BY PointIs DEF Weight, Distance

\* Distances along a line: no detour is shorter, and none is longer than the
\* way itself if it lies on it.
LEMMA LineDistances ==
  ASSUME NEW i \in Index, NEW k \in Index, NEW n \in Index
  PROVE  /\ Far(i, n) \in Nat /\ Far(i, i) = 0
         /\ ~ (Far(i, k) + Abs(Corridor[k] - Corridor[n]) < Far(i, n))
         /\ n # i /\ k = Toward(i, n) =>
              Far(i, k) + Abs(Corridor[k] - Corridor[n]) = Far(i, n)
<1>1. PICK x \in Int, y \in Int, z \in Int :
        x = Corridor[i] /\ y = Corridor[k] /\ z = Corridor[n]
  BY IndexIs
<1>2. i \in Int /\ k \in Int /\ n \in Int
  BY IndexIs
<1>3. Far(i, n) \in Nat /\ Far(i, i) = 0
  BY <1>1 DEF Far, Abs
<1>4. ~ (Far(i, k) + Abs(y - z) < Far(i, n))
  BY <1>1 DEF Far, Abs
<1>5. ASSUME n # i, k = Toward(i, n)
      PROVE  Far(i, k) + Abs(y - z) = Far(i, n)
  <2>1. (i <= k /\ k < n) \/ (n < k /\ k <= i)
    BY <1>2, <1>5 DEF Toward
  <2>2. (x <= y /\ y < z) \/ (z < y /\ y <= x)
    <3>1. i = k => x = y
      BY <1>1
    <3>2. i < k => x < y
      BY <1>1, IndexIs
    <3>3. k < i => y < x
      BY <1>1, IndexIs
    <3>4. k < n => y < z
      BY <1>1, IndexIs
    <3>5. n < k => z < y
      BY <1>1, IndexIs
    <3> QED BY <1>1, <1>2, <2>1, <3>1, <3>2, <3>3, <3>4, <3>5
  <2> QED BY <1>1, <2>2 DEF Far, Abs
<1> QED BY <1>1, <1>3, <1>4, <1>5

\* The walk from one point to another.
LEMMA WalkIs ==
  ASSUME NEW i \in Index, NEW j \in Index
  PROVE  /\ Abs(j - i) \in Nat /\ Walk(i, j, 0) = i /\ Walk(i, j, Abs(j - i)) = j
         /\ \A k \in 0 .. Abs(j - i) : Walk(i, j, k) \in Index
         /\ \A k \in 1 .. Abs(j - i) :
              /\ k - 1 \in 0 .. Abs(j - i) /\ Walk(i, j, k) # i
              /\ Toward(i, Walk(i, j, k)) = Walk(i, j, k - 1)
              /\ Walk(i, j, k - 1) - Walk(i, j, k) \in {1, -1}
<1>1. PICK n \in Nat : Index = 1 .. n
  BY IndexIs
<1> QED BY <1>1 DEF Abs, Walk, Toward

-------------------------------------------------------------------------------
(* What the search has found after any number of turns *)

\* Whatever was reached has its distance and was reached over an open edge
\* from the neighbour before it; whoever was visited has its neighbours reached.
Right(s, i, n, shut) ==
  Point(n) \in DOMAIN s.distances =>
    /\ s.distances[Point(n)] = Far(i, n)
    /\ n # i => /\ Point(n) \in DOMAIN s.previous
                /\ s.previous[Point(n)] = Point(Toward(i, n))
                /\ Point(Toward(i, n)) \in DOMAIN s.distances
                /\ <<Point(Toward(i, n)), Point(n)>> \notin shut

SearchInv(s, i, shut) ==
  /\ DOMAIN s.distances \subseteq Points /\ Point(i) \in DOMAIN s.distances
  /\ s.visited \subseteq DOMAIN s.distances
  /\ \A n \in Index : Right(s, i, n, shut)
  /\ \A m, n \in Index :
       Point(m) \in s.visited /\ m - n \in {1, -1} /\ <<Point(m), Point(n)>> \notin shut
         => Point(n) \in DOMAIN s.distances

\* The search begins at its start.
LEMMA BeginRight ==
  ASSUME NEW i \in Index, NEW shut
  PROVE  SearchInv(Begin(Point(i)), i, shut)
<1>1. PICK s : s = Begin(Point(i))
  OBVIOUS
<1>2. DOMAIN s.distances = {Point(i)} /\ s.distances[Point(i)] = 0 /\ s.visited = {}
  BY <1>1 DEF Begin
<1>3. ASSUME NEW n \in Index, Point(n) \in DOMAIN s.distances
      PROVE  n = i /\ s.distances[Point(n)] = Far(i, n)
  BY <1>2, <1>3, PointIs, LineDistances
<1> QED BY <1>1, <1>2, <1>3, PointIs DEF SearchInv, Right

\* A turn reaches exactly the neighbours that no earlier one reached: on a
\* line no second way is shorter than the first.
LEMMA RelaxIs ==
  ASSUME NEW s, NEW i \in Index, NEW shut, SearchInv(s, i, shut),
         NEW k \in Index, Point(k) \in DOMAIN s.distances
  PROVE  LET t == Relax(s, Point(k), shut)
             I == {Point(n) : n \in {m \in Index : /\ k - m \in {1, -1}
                                                  /\ <<Point(k), Point(m)>> \notin shut
                                                  /\ Point(m) \notin DOMAIN s.distances}}
         IN  /\ DOMAIN t.distances = DOMAIN s.distances \cup I
             /\ DOMAIN t.previous = DOMAIN s.previous \cup I
             /\ \A n \in DOMAIN t.distances :
                  t.distances[n] = IF n \in I THEN s.distances[Point(k)] + Weight(<<Point(k), n>>)
                                   ELSE s.distances[n]
             /\ \A n \in DOMAIN t.previous :
                  t.previous[n] = IF n \in I THEN Point(k) ELSE s.previous[n]
             /\ t.visited = s.visited \cup {Point(k)}
<1> DEFINE base == s.distances[Point(k)]
           better == {e \in Passable(Point(k), shut) :
                        /\ e[2] \notin s.visited
                        /\ e[2] \in DOMAIN s.distances => base + Weight(e) < s.distances[e[2]]}
           improved == {e[2] : e \in better}
           I == {Point(n) : n \in {m \in Index : /\ k - m \in {1, -1}
                                                /\ <<Point(k), Point(m)>> \notin shut
                                                /\ Point(m) \notin DOMAIN s.distances}}
<1>1. I \subseteq improved
  <2> SUFFICES ASSUME NEW m \in Index, k - m \in {1, -1}, <<Point(k), Point(m)>> \notin shut,
                      Point(m) \notin DOMAIN s.distances
               PROVE  Point(m) \in improved
    OBVIOUS
  <2>1. PICK e : e = <<Point(k), Point(m)>>
    OBVIOUS
  <2>2. e[1] = Point(k) /\ e[2] = Point(m)
    BY <2>1
  <2>3. e \in Passable(Point(k), shut)
    BY <2>1, <2>2, EdgeIs DEF Passable
  <2>4. e[2] \notin s.visited /\ e[2] \notin DOMAIN s.distances
    BY <2>2 DEF SearchInv
  <2> QED BY <2>2, <2>3, <2>4
<1>2. improved \subseteq I
  <2> SUFFICES ASSUME NEW e \in better PROVE e[2] \in I
    OBVIOUS
  <2>1. e \in Edges /\ e \notin shut /\ e[1] = Point(k)
    BY DEF Passable
  <2>2. PICK q \in Index, m \in Index : e = <<Point(q), Point(m)>> /\ q - m \in {1, -1}
    BY <2>1, EdgeIs
  <2>3. q = k /\ e[2] = Point(m)
    BY <2>1, <2>2, PointIs
  <2>4. Point(m) \notin DOMAIN s.distances
    <3> SUFFICES ASSUME Point(m) \in DOMAIN s.distances PROVE FALSE
      OBVIOUS
    <3>1. base + Weight(e) < s.distances[Point(m)]
      BY <2>3
    <3>2. base = Far(i, k) /\ s.distances[Point(m)] = Far(i, m)
      BY DEF SearchInv, Right
    <3>3. Weight(e) = Abs(Corridor[k] - Corridor[m])
      BY <2>2, <2>3, WeightIs
    <3> QED BY <3>1, <3>2, <3>3, LineDistances
  <2> QED BY <2>1, <2>2, <2>3, <2>4
<1>3. improved = I
  BY <1>1, <1>2
<1>4. Relax(s, Point(k), shut) =
        [distances |-> [n \in DOMAIN s.distances \cup improved |->
                          IF n \in improved THEN base + Weight(<<Point(k), n>>)
                          ELSE s.distances[n]],
         previous  |-> [n \in DOMAIN s.previous \cup improved |->
                          IF n \in improved THEN Point(k) ELSE s.previous[n]],
         visited   |-> s.visited \cup {Point(k)}]
  BY DEF Relax
<1> HIDE DEF improved, better, base, I
<1>5. PICK t : t = Relax(s, Point(k), shut)
  OBVIOUS
<1>6. /\ DOMAIN t.distances = DOMAIN s.distances \cup I
      /\ DOMAIN t.previous = DOMAIN s.previous \cup I
      /\ \A n \in DOMAIN t.distances :
           t.distances[n] = IF n \in I THEN base + Weight(<<Point(k), n>>) ELSE s.distances[n]
      /\ \A n \in DOMAIN t.previous :
           t.previous[n] = IF n \in I THEN Point(k) ELSE s.previous[n]
      /\ t.visited = s.visited \cup {Point(k)}
  BY <1>3, <1>4, <1>5
<1> QED BY <1>5, <1>6 DEF I, base

\* A turn over a reached node keeps the search right.
LEMMA RelaxKeeps ==
  ASSUME NEW s, NEW i \in Index, NEW shut, SearchInv(s, i, shut),
         NEW k \in Index, Point(k) \in DOMAIN s.distances
  PROVE  SearchInv(Relax(s, Point(k), shut), i, shut)
<1> DEFINE New == {m \in Index : /\ k - m \in {1, -1}
                                 /\ <<Point(k), Point(m)>> \notin shut
                                 /\ Point(m) \notin DOMAIN s.distances}
           I == {Point(n) : n \in New}
<1>1. PICK t : t = Relax(s, Point(k), shut)
  OBVIOUS
<1>2. /\ DOMAIN t.distances = DOMAIN s.distances \cup I
      /\ DOMAIN t.previous = DOMAIN s.previous \cup I
      /\ \A n \in DOMAIN t.distances :
           t.distances[n] = IF n \in I THEN s.distances[Point(k)] + Weight(<<Point(k), n>>)
                            ELSE s.distances[n]
      /\ \A n \in DOMAIN t.previous :
           t.previous[n] = IF n \in I THEN Point(k) ELSE s.previous[n]
      /\ t.visited = s.visited \cup {Point(k)}
  BY <1>1, RelaxIs
<1>3. \A n : Point(n) \in I <=> n \in New
  <2>1. \A a, b : Point(a) = Point(b) => a = b
    BY PointIs
  <2> HIDE DEF New
  <2> QED BY <2>1
<1>4. \A n \in New : n \in Index /\ k - n \in {1, -1} /\ <<Point(k), Point(n)>> \notin shut
                     /\ Point(n) \notin DOMAIN s.distances
  OBVIOUS
<1>5. I \subseteq Points
  BY <1>4, PointIs
<1>6. \A n \in Index : k - n \in {1, -1} /\ <<Point(k), Point(n)>> \notin shut
                       => n \in New \/ Point(n) \in DOMAIN s.distances
  OBVIOUS
<1> HIDE DEF New, I
<1>7. ASSUME NEW n \in New PROVE n # i /\ k = Toward(i, n)
  <2>1. Index \subseteq Int
    BY IndexIs
  <2>2. n # i
    BY <1>4, <1>7 DEF SearchInv
  <2>3. n \in Index /\ k - n \in {1, -1}
    BY <1>4, <1>7
  <2>4. i \in Int /\ k \in Int /\ n \in Int
    BY <2>1, <2>3
  <2>5. k = n - 1 \/ k = n + 1
    BY <2>3, <2>4
  <2>6. k # i => Toward(i, k) # n
    BY <1>4, <1>7 DEF SearchInv, Right
  <2> QED BY <2>2, <2>6, <2>4, <2>5 DEF Toward
<1>8. ASSUME NEW n \in Index PROVE Right(t, i, n, shut)
  <2>1. CASE n \in New
    <3>1. t.distances[Point(n)] = Far(i, k) + Abs(Corridor[k] - Corridor[n])
      <4>1. s.distances[Point(k)] = Far(i, k)
        BY DEF SearchInv, Right
      <4>2. t.distances[Point(n)] = s.distances[Point(k)] + Weight(<<Point(k), Point(n)>>)
        BY <1>2, <1>3, <2>1
      <4> QED BY <4>1, <4>2, WeightIs
    <3>2. t.distances[Point(n)] = Far(i, n)
      BY <1>7, <2>1, <3>1, LineDistances
    <3>3. Point(n) \in DOMAIN t.previous /\ t.previous[Point(n)] = Point(k)
      BY <1>2, <1>3, <2>1
    <3>4. <<Point(k), Point(n)>> \notin shut
      BY <1>4, <2>1
    <3> QED BY <1>2, <1>7, <2>1, <3>2, <3>3, <3>4 DEF Right
  <2>2. CASE n \notin New
    <3>1. Point(n) \notin I
      BY <1>3, <2>2
    <3>2. Right(s, i, n, shut)
      BY DEF SearchInv
    <3> QED BY <1>2, <3>1, <3>2 DEF Right
  <2> QED BY <2>1, <2>2
<1>9. ASSUME NEW m \in Index, NEW n \in Index, Point(m) \in t.visited, m - n \in {1, -1},
             <<Point(m), Point(n)>> \notin shut
      PROVE  Point(n) \in DOMAIN t.distances
  <2>1. CASE Point(m) \in s.visited
    BY <1>2, <1>9, <2>1 DEF SearchInv
  <2>2. CASE m = k
    BY <1>2, <1>3, <1>6, <1>9, <2>2
  <2> QED BY <1>2, <1>9, <2>1, <2>2, PointIs
<1>10. DOMAIN t.distances \subseteq Points /\ Point(i) \in DOMAIN t.distances
       /\ t.visited \subseteq DOMAIN t.distances
  BY <1>2, <1>5 DEF SearchInv
<1> QED BY <1>1, <1>8, <1>9, <1>10 DEF SearchInv

\* And so does every turn of the main loop.
LEMMA TurnKeeps ==
  ASSUME NEW s, NEW i \in Index, NEW end, NEW shut, SearchInv(s, i, shut)
  PROVE  SearchInv(Turn(s, end, shut), i, shut)
<1>1. CASE Closest(s) = {} \/ end \in Closest(s)
  BY <1>1 DEF Turn
<1>2. CASE ~(Closest(s) = {} \/ end \in Closest(s))
  <2>1. PICK n : n = CHOOSE c \in Closest(s) : TRUE
    OBVIOUS
  <2>2. n \in DOMAIN s.distances
    BY <1>2, <2>1 DEF Closest
  <2>3. PICK k \in Index : n = Point(k)
    BY <2>2, PointIs DEF SearchInv
  <2> QED BY <1>2, <2>1, <2>2, <2>3, RelaxKeeps DEF Turn
<1> QED BY <1>1, <1>2

\* The main loop has nothing left to do.
Stopped(s, end) == Closest(s) = {} \/ end \in Closest(s)

\* A turn that is not the last one visits a node it has not visited.
LEMMA TurnVisits ==
  ASSUME NEW s, NEW i \in Index, NEW end, NEW shut, SearchInv(s, i, shut), ~Stopped(s, end)
  PROVE  \E n : n \notin s.visited /\ Turn(s, end, shut).visited = s.visited \cup {n}
<1>1. PICK n : n = CHOOSE c \in Closest(s) : TRUE
  OBVIOUS
<1>2. n \in Closest(s)
  BY <1>1 DEF Stopped
<1>3. n \in DOMAIN s.distances /\ n \notin s.visited
  BY <1>2 DEF Closest
<1>4. PICK k \in Index : n = Point(k)
  BY <1>3, PointIs DEF SearchInv
<1>5. Turn(s, end, shut) = Relax(s, n, shut)
  BY <1>1 DEF Turn, Stopped
<1>6. Relax(s, n, shut).visited = s.visited \cup {n}
  BY DEF Relax
<1> QED BY <1>3, <1>5, <1>6

\* A search over the corridor is right when it ends, and it does not end
\* before the loop has nothing left to do: there are as many turns as nodes.
LEMMA SearchEnds ==
  ASSUME NEW i \in Index, NEW end, NEW shut
  PROVE  /\ SearchInv(Search(Point(i), end, shut), i, shut)
         /\ Stopped(Search(Point(i), end, shut), end)
<1>1. PICK n \in Nat : n = Cardinality(Node)
  BY NodesAreFinite
<1>2. PICK f : /\ Search(Point(i), end, shut) = f[n] /\ f[0] = Begin(Point(i))
               /\ \A k \in 1 .. n : f[k] = Turn(f[k - 1], end, shut)
  BY <1>1, SearchTurns
<1> DEFINE Good(k) == /\ SearchInv(f[k], i, shut)
                      /\ IsFiniteSet(f[k].visited)
                      /\ Stopped(f[k], end) \/ Cardinality(f[k].visited) = k
           Wrong == {k \in 0 .. n : ~Good(k)}
<1>3. Good(0)
  <2>1. f[0].visited = {}
    BY <1>2 DEF Begin
  <2> QED BY <1>2, <2>1, BeginRight, FS_EmptySet
<1>4. ASSUME NEW k \in 1 .. n, Good(k - 1) PROVE Good(k)
  <2>1. PICK s : s = f[k - 1]
    OBVIOUS
  <2>2. f[k] = Turn(s, end, shut) /\ SearchInv(s, i, shut) /\ IsFiniteSet(s.visited)
        /\ (Stopped(s, end) \/ Cardinality(s.visited) = k - 1)
    BY <1>2, <1>4, <2>1
  <2>3. SearchInv(f[k], i, shut)
    BY <2>2, TurnKeeps
  <2>4. CASE Stopped(s, end)
    BY <2>2, <2>4 DEF Stopped, Turn
  <2>5. CASE ~Stopped(s, end)
    <3>1. PICK m : m \notin s.visited /\ f[k].visited = s.visited \cup {m}
      BY <2>2, <2>5, TurnVisits
    <3>2. IsFiniteSet(f[k].visited) /\ Cardinality(f[k].visited) = Cardinality(s.visited) + 1
      BY <2>2, <3>1, FS_AddElement
    <3>3. Cardinality(f[k].visited) = k
      BY <2>2, <2>5, <3>2
    <3> QED BY <2>3, <3>2, <3>3
  <2> QED BY <2>4, <2>5
<1>5. Wrong = {}
  <2> SUFFICES ASSUME Wrong # {} PROVE FALSE
    OBVIOUS
  <2>1. PICK k \in Wrong : \A j \in Wrong : k <= j
    <3>1. Wrong \subseteq Nat
      OBVIOUS
    <3> HIDE DEF Wrong
    <3> QED BY <3>1, LeastNumber
  <2>2. k \in 0 .. n /\ ~Good(k)
    OBVIOUS
  <2>3. k # 0
    BY <1>3, <2>2
  <2>4. k \in 1 .. n /\ k - 1 \in 0 .. n /\ ~(k <= k - 1)
    BY <2>2, <2>3
  <2>5. k - 1 \notin Wrong
    BY <2>1, <2>4
  <2>6. Good(k - 1)
    BY <2>4, <2>5
  <2> HIDE DEF Good, Wrong
  <2> QED BY <1>4, <2>2, <2>4, <2>6
<1>6. Good(n)
  BY <1>5
<1>7. Stopped(f[n], end)
  <2> SUFFICES ASSUME Cardinality(f[n].visited) = n PROVE Stopped(f[n], end)
    BY <1>6
  <2>1. f[n].visited \subseteq DOMAIN f[n].distances /\ DOMAIN f[n].distances \subseteq Node
    BY <1>6 DEF SearchInv, Node
  <2>2. f[n].visited = Node
    BY <1>1, <2>1, NodesAreFinite, FS_Subset
  <2>3. Closest(f[n]) = {}
    BY <2>1, <2>2 DEF Closest
  <2> QED BY <2>3 DEF Stopped
<1> QED BY <1>2, <1>6, <1>7

-------------------------------------------------------------------------------
(* The way and the path *)

\* Where every reached node was visited, nothing reached is left to take.
LEMMA NothingLeft ==
  ASSUME NEW s, NEW i \in Index, NEW shut, SearchInv(s, i, shut), Closest(s) = {}
  PROVE  DOMAIN s.distances \subseteq s.visited
<1> DEFINE Open == DOMAIN s.distances \ s.visited
           Lengths == {s.distances[n] : n \in Open}
<1> SUFFICES ASSUME Open # {} PROVE FALSE
  OBVIOUS
<1>1. ASSUME NEW n \in Open PROVE s.distances[n] \in Nat
  <2>1. PICK k \in Index : n = Point(k)
    BY PointIs DEF SearchInv
  <2>2. s.distances[n] = Far(i, k)
    BY <2>1 DEF SearchInv, Right
  <2> QED BY <2>2, LineDistances
<1>2. Lengths \subseteq Nat /\ Lengths # {}
  BY <1>1
<1>3. PICK l \in Lengths : \A k \in Lengths : l <= k
  <2> HIDE DEF Lengths
  <2> QED BY <1>2, LeastNumber
<1>4. PICK n \in Open : s.distances[n] = l
  OBVIOUS
<1>5. \A k \in Open : s.distances[n] <= s.distances[k]
  BY <1>3, <1>4
<1>6. n \in Closest(s)
  BY <1>5 DEF Closest
<1> QED BY <1>6

\* What was reached was reached over the way to it, all of it open.
LEMMA ReachedOnTheWay ==
  ASSUME NEW s, NEW i \in Index, NEW shut, SearchInv(s, i, shut),
         NEW j \in Index, Point(j) \in DOMAIN s.distances
  PROVE  /\ \A k \in 0 .. Abs(j - i) : Point(Walk(i, j, k)) \in DOMAIN s.distances
         /\ \A k \in 1 .. Abs(j - i) :
              /\ s.previous[Point(Walk(i, j, k))] = Point(Walk(i, j, k - 1))
              /\ <<Point(Walk(i, j, k - 1)), Point(Walk(i, j, k))>> \notin shut
<1>1. PICK d \in Nat : d = Abs(j - i)
  BY WalkIs
<1>2. /\ Walk(i, j, d) = j
      /\ \A k \in 0 .. d : Walk(i, j, k) \in Index
      /\ \A k \in 1 .. d : /\ Walk(i, j, k) # i
                           /\ Toward(i, Walk(i, j, k)) = Walk(i, j, k - 1)
  BY <1>1, WalkIs
<1>3. ASSUME NEW k \in 1 .. d, Point(Walk(i, j, k)) \in DOMAIN s.distances
      PROVE  /\ Point(Walk(i, j, k - 1)) \in DOMAIN s.distances
             /\ s.previous[Point(Walk(i, j, k))] = Point(Walk(i, j, k - 1))
             /\ <<Point(Walk(i, j, k - 1)), Point(Walk(i, j, k))>> \notin shut
  <2>1. PICK n \in Index : n = Walk(i, j, k)
    BY <1>2
  <2>2. n # i /\ Toward(i, n) = Walk(i, j, k - 1)
    BY <1>2, <2>1
  <2>3. Right(s, i, n, shut)
    BY DEF SearchInv
  <2> QED BY <1>3, <2>1, <2>2, <2>3 DEF Right
<1> DEFINE Missed == {m \in 0 .. d : Point(Walk(i, j, d - m)) \notin DOMAIN s.distances}
<1>4. Missed = {}
  <2> SUFFICES ASSUME Missed # {} PROVE FALSE
    OBVIOUS
  <2>1. PICK m \in Missed : \A k \in Missed : m <= k
    <3>1. Missed \subseteq Nat
      OBVIOUS
    <3> HIDE DEF Missed
    <3> QED BY <3>1, LeastNumber
  <2>2. m \in 0 .. d /\ Point(Walk(i, j, d - m)) \notin DOMAIN s.distances
    OBVIOUS
  <2>3. m # 0
    <3>1. m = 0 => d - m = d
      OBVIOUS
    <3> QED BY <1>2, <2>2, <3>1
  <2>4. m - 1 \in 0 .. d /\ ~(m <= m - 1)
    BY <2>2, <2>3
  <2>5. m - 1 \notin Missed
    BY <2>1, <2>4
  <2>6. PICK k \in 1 .. d : k = d - (m - 1)
    BY <2>2, <2>3
  <2>7. k - 1 = d - m
    BY <2>2, <2>6
  <2>8. Point(Walk(i, j, k)) \in DOMAIN s.distances
    BY <2>4, <2>5, <2>6
  <2> QED BY <1>3, <2>2, <2>7, <2>8
<1>5. ASSUME NEW k \in 0 .. d PROVE Point(Walk(i, j, k)) \in DOMAIN s.distances
  <2>1. PICK m \in 0 .. d : m = d - k
    OBVIOUS
  <2>2. d - m = k
    BY <2>1
  <2>3. m \notin Missed
    BY <1>4
  <2> QED BY <2>2, <2>3
<1>6. \A k \in 1 .. d : k \in 0 .. d
  OBVIOUS
<1> HIDE DEF Missed
<1> QED BY <1>1, <1>3, <1>5, <1>6

\* Where all the way is open and all that was reached was visited, its end
\* was reached.
LEMMA OpenIsReached ==
  ASSUME NEW s, NEW i \in Index, NEW shut, SearchInv(s, i, shut),
         DOMAIN s.distances \subseteq s.visited, NEW j \in Index,
         \A k \in 1 .. Abs(j - i) :
           <<Point(Walk(i, j, k - 1)), Point(Walk(i, j, k))>> \notin shut
  PROVE  Point(j) \in DOMAIN s.distances
<1>1. PICK d \in Nat : d = Abs(j - i)
  BY WalkIs
<1>2. /\ Walk(i, j, d) = j /\ Walk(i, j, 0) = i
      /\ \A k \in 0 .. d : Walk(i, j, k) \in Index
      /\ \A k \in 1 .. d : Walk(i, j, k - 1) - Walk(i, j, k) \in {1, -1}
  BY <1>1, WalkIs
<1> DEFINE Missed == {k \in 0 .. d : Point(Walk(i, j, k)) \notin DOMAIN s.distances}
<1>3. Missed = {}
  <2> SUFFICES ASSUME Missed # {} PROVE FALSE
    OBVIOUS
  <2>1. PICK k \in Missed : \A h \in Missed : k <= h
    <3>1. Missed \subseteq Nat
      OBVIOUS
    <3> HIDE DEF Missed
    <3> QED BY <3>1, LeastNumber
  <2>2. k \in 0 .. d /\ Point(Walk(i, j, k)) \notin DOMAIN s.distances
    OBVIOUS
  <2>3. k # 0
    BY <1>2, <2>2 DEF SearchInv
  <2>4. k \in 1 .. d /\ k - 1 \in 0 .. d /\ ~(k <= k - 1)
    BY <2>2, <2>3
  <2>5. k - 1 \notin Missed
    BY <2>1, <2>4
  <2>6. Point(Walk(i, j, k - 1)) \in s.visited
    BY <2>4, <2>5
  <2>7. PICK m \in Index, n \in Index : m = Walk(i, j, k - 1) /\ n = Walk(i, j, k)
    BY <1>2, <2>2, <2>4
  <2>8. m - n \in {1, -1} /\ <<Point(m), Point(n)>> \notin shut /\ Point(m) \in s.visited
    BY <1>1, <1>2, <2>4, <2>6, <2>7
  <2>9. Point(n) \in DOMAIN s.distances
    BY <2>8 DEF SearchInv
  <2> QED BY <2>2, <2>7, <2>9
<1>4. d \in 0 .. d /\ d \notin Missed
  BY <1>3
<1> QED BY <1>2, <1>4

\* Open is what the search has to find open: every edge on the way.
LEMMA WayOpenIs ==
  ASSUME NEW i \in Index, NEW j \in Index
  PROVE  WayOpen(Point(i), Point(j)) <=>
           \A k \in 1 .. Abs(j - i) :
             <<Point(Walk(i, j, k - 1)), Point(Walk(i, j, k))>> \notin blocked
<1>1. Index \subseteq Int
  BY IndexIs
<1>2. ASSUME WayOpen(Point(i), Point(j)), NEW k \in 1 .. Abs(j - i)
      PROVE  <<Point(Walk(i, j, k - 1)), Point(Walk(i, j, k))>> \notin blocked
  <2> SUFFICES ASSUME <<Point(Walk(i, j, k - 1)), Point(Walk(i, j, k))>> \in blocked
               PROVE  FALSE
    OBVIOUS
  <2>1. PICK m \in Index, n \in Index : m = Walk(i, j, k - 1) /\ n = Walk(i, j, k)
    BY WalkIs
  <2>2. PICK e : e = <<Point(m), Point(n)>>
    OBVIOUS
  <2>3. e \in Edges \cap blocked /\ e[1][2] = m /\ e[2][2] = n
    BY <2>1, <2>2, WalkIs, EdgeIs, PointIs
  <2>4. i # j
    BY <1>1, <1>2 DEF Abs
  <2>5. Point(i) # Point(j) /\ Point(i)[2] = i /\ Point(j)[2] = j
    BY <2>4, PointIs
  <2>6. \/ (m < n) # (i < j)
        \/ m < i /\ m < j
        \/ n < i /\ n < j
        \/ m > i /\ m > j
        \/ n > i /\ n > j
    BY <1>2, <2>3, <2>5 DEF WayOpen
  <2>7. i \in Int /\ j \in Int /\ k \in Int
    BY <1>1
  <2> QED BY <1>2, <2>1, <2>6, <2>7 DEF Walk, Abs
<1>3. ASSUME ~WayOpen(Point(i), Point(j))
      PROVE  \E k \in 1 .. Abs(j - i) :
               <<Point(Walk(i, j, k - 1)), Point(Walk(i, j, k))>> \in blocked
  <2>1. Point(i) \in Points /\ Point(j) \in Points
    BY PointIs
  <2>2. PICK e \in Edges \cap blocked :
          /\ (e[1][2] < e[2][2]) = (Point(i)[2] < Point(j)[2])
          /\ ~(e[1][2] < Point(i)[2] /\ e[1][2] < Point(j)[2])
          /\ ~(e[2][2] < Point(i)[2] /\ e[2][2] < Point(j)[2])
          /\ ~(e[1][2] > Point(i)[2] /\ e[1][2] > Point(j)[2])
          /\ ~(e[2][2] > Point(i)[2] /\ e[2][2] > Point(j)[2])
    BY <1>3, <2>1 DEF WayOpen
  <2>3. PICK m \in Index, n \in Index : e = <<Point(m), Point(n)>> /\ m - n \in {1, -1}
    BY EdgeIs
  <2>4. e[1][2] = m /\ e[2][2] = n /\ Point(i)[2] = i /\ Point(j)[2] = j
    BY <2>3, PointIs
  <2>5. /\ (m < n) = (i < j)
        /\ ~(m < i /\ m < j) /\ ~(n < i /\ n < j)
        /\ ~(m > i /\ m > j) /\ ~(n > i /\ n > j)
    BY <2>2, <2>4
  <2>6. i \in Int /\ j \in Int /\ m \in Int /\ n \in Int
    BY <1>1
  <2>7. i # j
    BY <1>3 DEF WayOpen
  <2>8. PICK k \in 1 .. Abs(j - i) : k = Abs(n - i)
    <3>1. \/ i < j /\ n = m + 1 /\ i <= m /\ n <= j
          \/ j < i /\ n = m - 1 /\ m <= i /\ j <= n
      BY <2>3, <2>5, <2>6, <2>7
    <3>2. Abs(n - i) \in 1 .. Abs(j - i)
      BY <2>6, <3>1 DEF Abs
    <3> QED BY <3>2
  <2>9. Walk(i, j, k - 1) = m /\ Walk(i, j, k) = n
    BY <2>3, <2>5, <2>6, <2>7, <2>8 DEF Abs, Walk
  <2> QED BY <2>3, <2>8, <2>9
<1> QED BY <1>2, <1>3

\* All the points on the way, from the first to the last.
Steps(i, j) == [k \in 1 .. Abs(j - i) + 1 |-> Point(Walk(i, j, k - 1))]

\* The way to a point is the way to the one before it, and that point.
LEMMA StepsGrow ==
  ASSUME NEW i \in Index, NEW j \in Index, j # i
  PROVE  Steps(i, j) = Append(Steps(i, Toward(i, j)), Point(j))
<1>1. i \in Int /\ j \in Int
  BY IndexIs
<1>2. PICK h \in Int : h = Toward(i, j)
  BY <1>1 DEF Toward
<1>3. PICK d \in Nat : d = Abs(j - i)
  BY WalkIs
<1>4. d >= 1 /\ Abs(h - i) + 1 = d
  BY <1>1, <1>2, <1>3 DEF Toward, Abs
<1>5. PICK q, e : q = Steps(i, h) /\ e = Point(j)
  OBVIOUS
<1>6. q = [k \in 1 .. d |-> Point(Walk(i, h, k - 1))]
  BY <1>4, <1>5 DEF Steps
<1>7. \A k \in 1 .. d : Walk(i, h, k - 1) = Walk(i, j, k - 1)
  BY <1>1, <1>2, <1>3, <1>4 DEF Walk, Toward, Abs
<1>8. \A k \in 0 .. d : Point(Walk(i, j, k)) \in Points
  BY <1>3, WalkIs, PointIs
<1>9. ASSUME NEW k \in 1 .. d
      PROVE  q[k] = Point(Walk(i, j, k - 1)) /\ q[k] \in Points
  <2>1. k - 1 \in 0 .. d
    OBVIOUS
  <2> QED BY <1>6, <1>7, <1>8, <2>1
<1>10. q \in Seq(Points) /\ Len(q) = d /\ e \in Points
  <2>1. q \in [1 .. d -> Points]
    BY <1>6, <1>9
  <2> QED BY <1>5, <1>6, <2>1, PointIs
<1>11. /\ Append(q, e) \in Seq(Points) /\ Len(Append(q, e)) = d + 1
       /\ \A k \in 1 .. d : Append(q, e)[k] = q[k]
       /\ Append(q, e)[d + 1] = e
  BY <1>10, AppendProperties
<1>12. PICK w : w = Steps(i, j)
  OBVIOUS
<1>13. w = [k \in 1 .. d + 1 |-> Point(Walk(i, j, k - 1))]
  BY <1>3, <1>12 DEF Steps
<1>14. \A k \in 1 .. d + 1 : k - 1 \in 0 .. d
  OBVIOUS
<1>15. w \in Seq(Points) /\ Len(w) = d + 1
  <2>1. w \in [1 .. d + 1 -> Points]
    BY <1>8, <1>13, <1>14
  <2> QED BY <1>13, <2>1
<1>16. ASSUME NEW k \in 1 .. d + 1 PROVE Append(q, e)[k] = w[k]
  <2>1. w[k] = Point(Walk(i, j, k - 1))
    BY <1>13
  <2>2. CASE k \in 1 .. d
    BY <1>9, <1>11, <2>1, <2>2
  <2>3. CASE k = d + 1
    <3>1. Walk(i, j, k - 1) = j
      BY <1>1, <1>3, <2>3 DEF Walk, Abs
    <3> QED BY <1>5, <1>11, <2>1, <2>3, <3>1, Zenon
  <2>4. k \in 1 .. d \/ k = d + 1
    BY <1>16
  <2> QED BY <2>2, <2>3, <2>4, Zenon
<1>17. Append(q, e) = w
  BY <1>11, <1>15, <1>16, SeqEqual
<1> QED BY <1>2, <1>5, <1>12, <1>17

\* The way begins at its beginning and ends at its end.
LEMMA StepsEnds ==
  ASSUME NEW i \in Index, NEW j \in Index
  PROVE  /\ Steps(i, i) = <<Point(i)>>
         /\ Steps(i, j)[1] = Point(i) /\ Steps(i, j)[Len(Steps(i, j))] = Point(j)
<1>1. i \in Int /\ j \in Int
  BY IndexIs
<1>2. PICK d \in Nat : d = Abs(j - i)
  BY WalkIs
<1>3. Steps(i, j) = [k \in 1 .. d + 1 |-> Point(Walk(i, j, k - 1))]
  BY <1>2 DEF Steps
<1>4. Len(Steps(i, j)) = d + 1
  BY <1>3
<1>5. Walk(i, j, 0) = i /\ Walk(i, j, d) = j
  BY <1>2, WalkIs
<1>6. Steps(i, j)[1] = Point(Walk(i, j, 0)) /\ Steps(i, j)[d + 1] = Point(Walk(i, j, d))
  <2>1. 1 \in 1 .. d + 1 /\ d + 1 \in 1 .. d + 1 /\ 1 - 1 = 0 /\ (d + 1) - 1 = d
    OBVIOUS
  <2> QED BY <1>3, <2>1
<1>7. Steps(i, i) = <<Point(i)>>
  <2>1. Abs(i - i) + 1 = 1
    BY <1>1 DEF Abs
  <2>2. Steps(i, i) = [k \in 1 .. 1 |-> Point(Walk(i, i, k - 1))]
    BY <2>1 DEF Steps
  <2>3. \A k \in 1 .. 1 : Walk(i, i, k - 1) = i
    BY <1>1 DEF Walk
  <2>4. Steps(i, i) = [k \in 1 .. 1 |-> Point(i)]
    BY <2>2, <2>3
  <2> QED BY <2>4
<1> QED BY <1>4, <1>5, <1>6, <1>7

\* The paths executeDijkstra reads backwards through previous.
Paths(s, start) ==
  CHOOSE p : p = [n \in DOMAIN s.distances |->
                    IF n = start THEN <<n>> ELSE Append(p[s.previous[n]], n)]

\* Read backwards, the path of a reached node is the way.
LEMMA PathIs ==
  ASSUME NEW s, NEW i \in Index, NEW shut, SearchInv(s, i, shut),
         NEW j \in Index, Point(j) \in DOMAIN s.distances
  PROVE  Paths(s, Point(i))[Point(j)] = Steps(i, j)
<1>1. PICK path : path = Paths(s, Point(i))
  OBVIOUS
<1>2. PICK q : q = [n \in DOMAIN s.distances |-> Steps(i, n[2])]
  OBVIOUS
<1>3. \A n \in Index : Point(n) \in DOMAIN s.distances => q[Point(n)] = Steps(i, n)
  BY <1>2, PointIs
<1>4. ASSUME NEW n \in DOMAIN s.distances
      PROVE  q[n] = IF n = Point(i) THEN <<n>> ELSE Append(q[s.previous[n]], n)
  <2>1. PICK m \in Index : n = Point(m)
    BY PointIs DEF SearchInv
  <2>2. CASE m = i
    BY <1>3, <2>1, <2>2, StepsEnds
  <2>3. CASE m # i
    <3>1. n # Point(i)
      BY <2>1, <2>3, PointIs
    <3>2. s.previous[n] = Point(Toward(i, m)) /\ s.previous[n] \in DOMAIN s.distances
      BY <2>1, <2>3 DEF SearchInv, Right
    <3>3. PICK h \in Index : s.previous[n] = Point(h)
      BY <3>2, PointIs DEF SearchInv
    <3>4. h = Toward(i, m)
      BY <3>2, <3>3, PointIs
    <3>5. q[s.previous[n]] = Steps(i, Toward(i, m)) /\ q[n] = Steps(i, m)
      BY <1>3, <2>1, <3>2, <3>3, <3>4
    <3> QED BY <2>1, <2>3, <3>1, <3>5, StepsGrow
  <2> QED BY <2>2, <2>3
<1>5. q = [n \in DOMAIN s.distances |->
             IF n = Point(i) THEN <<n>> ELSE Append(q[s.previous[n]], n)]
  BY <1>2, <1>4
<1>6. path = [n \in DOMAIN s.distances |->
                IF n = Point(i) THEN <<n>> ELSE Append(path[s.previous[n]], n)]
  BY <1>5, <1>1 DEF Paths
<1>7. \A n \in Index : Point(n) \in DOMAIN s.distances =>
        path[Point(n)] = IF n = i THEN <<Point(i)>>
                         ELSE Append(path[s.previous[Point(n)]], Point(n))
  <2> SUFFICES ASSUME NEW n \in Index, Point(n) \in DOMAIN s.distances
               PROVE  path[Point(n)] = IF n = i THEN <<Point(i)>>
                                       ELSE Append(path[s.previous[Point(n)]], Point(n))
    OBVIOUS
  <2>1. PICK a : a = Point(n)
    OBVIOUS
  <2>2. path[a] = IF a = Point(i) THEN <<a>> ELSE Append(path[s.previous[a]], a)
    BY <1>6, <2>1, Zenon
  <2>3. a = Point(i) <=> n = i
    BY <2>1, PointIs
  <2>4. CASE n = i
    BY <2>1, <2>2, <2>3, <2>4
  <2>5. CASE n # i
    <3>1. path[a] = Append(path[s.previous[a]], a)
      BY <2>2, <2>3, <2>5
    <3> QED BY <2>1, <2>5, <3>1
  <2> QED BY <2>4, <2>5
<1>8. PICK d \in Nat : d = Abs(j - i)
  BY WalkIs
<1>9. /\ Walk(i, j, 0) = i /\ Walk(i, j, d) = j
      /\ \A k \in 0 .. d : Walk(i, j, k) \in Index
      /\ \A k \in 1 .. d : /\ Walk(i, j, k) # i
                           /\ Toward(i, Walk(i, j, k)) = Walk(i, j, k - 1)
  BY <1>8, WalkIs
<1>10. /\ \A k \in 0 .. d : Point(Walk(i, j, k)) \in DOMAIN s.distances
       /\ \A k \in 1 .. d : s.previous[Point(Walk(i, j, k))] = Point(Walk(i, j, k - 1))
  <2>1. \A k \in 0 .. Abs(j - i) : Point(Walk(i, j, k)) \in DOMAIN s.distances
    BY ReachedOnTheWay
  <2>2. \A k \in 1 .. Abs(j - i) :
          /\ s.previous[Point(Walk(i, j, k))] = Point(Walk(i, j, k - 1))
          /\ <<Point(Walk(i, j, k - 1)), Point(Walk(i, j, k))>> \notin shut
    BY ReachedOnTheWay
  <2> QED BY <1>8, <2>1, <2>2
<1>11. /\ Walk(i, j, 0) = i /\ Walk(i, j, d) = j
       /\ \A k \in 0 .. d : Walk(i, j, k) \in Index /\ Point(Walk(i, j, k)) \in DOMAIN s.distances
       /\ \A k \in 1 .. d : /\ Walk(i, j, k) # i
                            /\ Toward(i, Walk(i, j, k)) = Walk(i, j, k - 1)
                            /\ s.previous[Point(Walk(i, j, k))] = Point(Walk(i, j, k - 1))
  BY <1>9, <1>10
<1> DEFINE Off == {k \in 0 .. d : path[Point(Walk(i, j, k))] # Steps(i, Walk(i, j, k))}
<1>12. Off = {}
  <2> SUFFICES ASSUME Off # {} PROVE FALSE
    OBVIOUS
  <2>1. PICK k \in Off : \A h \in Off : k <= h
    <3>1. Off \subseteq Nat
      OBVIOUS
    <3> HIDE DEF Off
    <3> QED BY <3>1, LeastNumber
  <2>2. k \in 0 .. d /\ path[Point(Walk(i, j, k))] # Steps(i, Walk(i, j, k))
    OBVIOUS
  <2>3. k # 0
    BY <1>7, <1>11, <2>2, StepsEnds
  <2>4. k \in 1 .. d /\ k - 1 \in 0 .. d /\ ~(k <= k - 1)
    BY <2>2, <2>3
  <2>5. k - 1 \notin Off
    BY <2>1, <2>4
  <2>6. PICK m \in Index, n \in Index : m = Walk(i, j, k - 1) /\ n = Walk(i, j, k)
    BY <1>11, <2>2, <2>4
  <2>7. path[Point(m)] = Steps(i, m)
    BY <2>4, <2>5, <2>6
  <2>8. n # i /\ Toward(i, n) = m /\ s.previous[Point(n)] = Point(m)
        /\ Point(n) \in DOMAIN s.distances
    BY <1>11, <2>2, <2>4, <2>6
  <2>9. path[Point(n)] = Append(Steps(i, m), Point(n))
    BY <1>7, <2>7, <2>8
  <2> QED BY <2>2, <2>6, <2>8, <2>9, StepsGrow
<1>13. d \in 0 .. d /\ d \notin Off
  BY <1>12
<1> QED BY <1>11, <1>13, <1>1

-------------------------------------------------------------------------------
(* What the search answers *)

\* Shortest in terms of the search and the path read from it.
LEMMA ShortestIs ==
  ASSUME NEW start, NEW end, NEW shut, NEW s, s = Search(start, end, shut)
  PROVE  Shortest(start, end, shut) =
           IF end \in DOMAIN s.distances
           THEN [path |-> Paths(s, start)[end], distance |-> s.distances[end]] ELSE NoPath
<1>1. s = CHOOSE t \in {Search(start, end, shut)} : TRUE
  OBVIOUS
<1> QED BY <1>1 DEF Shortest, Paths

\* From a point to a point: the way if it is open, and nothing otherwise.
LEMMA BetweenPoints ==
  ASSUME NEW i \in Index, NEW j \in Index
  PROVE  LET found == Shortest(Point(i), Point(j), blocked) IN
         IF WayOpen(Point(i), Point(j))
         THEN found = [path |-> Steps(i, j), distance |-> Far(i, j)]
         ELSE found = NoPath
<1>1. PICK s : s = Search(Point(i), Point(j), blocked)
  OBVIOUS
<1>3. SearchInv(s, i, blocked) /\ Stopped(s, Point(j))
  BY <1>1, SearchEnds
<1>4. Shortest(Point(i), Point(j), blocked) =
        IF Point(j) \in DOMAIN s.distances
        THEN [path |-> Paths(s, Point(i))[Point(j)], distance |-> s.distances[Point(j)]] ELSE NoPath
  BY <1>1, ShortestIs
<1>5. CASE Point(j) \in DOMAIN s.distances
  <2>1. \A k \in 1 .. Abs(j - i) :
          /\ s.previous[Point(Walk(i, j, k))] = Point(Walk(i, j, k - 1))
          /\ <<Point(Walk(i, j, k - 1)), Point(Walk(i, j, k))>> \notin blocked
    BY <1>3, <1>5, ReachedOnTheWay
  <2>2. WayOpen(Point(i), Point(j))
    BY <2>1, WayOpenIs
  <2>3. s.distances[Point(j)] = Far(i, j)
    BY <1>3, <1>5 DEF SearchInv, Right
  <2>4. Paths(s, Point(i))[Point(j)] = Steps(i, j)
    BY <1>3, <1>5, PathIs
  <2> QED BY <1>4, <1>5, <2>2, <2>3, <2>4
<1>6. CASE Point(j) \notin DOMAIN s.distances
  <2>1. Closest(s) = {}
    BY <1>3, <1>6 DEF Stopped, Closest
  <2>2. DOMAIN s.distances \subseteq s.visited
    BY <1>3, <2>1, NothingLeft
  <2>3. ~WayOpen(Point(i), Point(j))
    <3> SUFFICES ASSUME WayOpen(Point(i), Point(j)) PROVE FALSE
      OBVIOUS
    <3>1. \A k \in 1 .. Abs(j - i) :
            <<Point(Walk(i, j, k - 1)), Point(Walk(i, j, k))>> \notin blocked
      BY WayOpenIs
    <3> QED BY <1>3, <1>6, <2>2, <3>1, OpenIsReached
  <2> QED BY <1>4, <1>6, <2>3
<1> QED BY <1>5, <1>6

\* executeDijkstra between two points of the corridor, whatever doors are
\* closed: the way along it, in order and with its length, if it is open in
\* that direction; no way if it is not.
THEOREM SearchIsRight == SearchFindsTheWay
<1> SUFFICES ASSUME NEW a \in Points, NEW b \in Points
             PROVE  LET found == Shortest(a, b, blocked) IN
                    IF WayOpen(a, b)
                    THEN /\ found.distance = Abs(At[a] - At[b])
                         /\ found.path[1] = a /\ found.path[Len(found.path)] = b
                    ELSE found = NoPath
  BY DEF SearchFindsTheWay
<1>1. PICK found : found = Shortest(a, b, blocked)
  OBVIOUS
<1>2. PICK i \in Index, j \in Index : a = Point(i) /\ b = Point(j)
  BY PointIs
<1>3. CASE WayOpen(a, b)
  <2>1. found = [path |-> Steps(i, j), distance |-> Far(i, j)]
    BY <1>1, <1>2, <1>3, BetweenPoints
  <2>2. found.distance = Far(i, j) /\ found.path = Steps(i, j)
    BY <2>1
  <2>3. Far(i, j) = Abs(At[a] - At[b])
    <3>1. /\ At[a] = Corridor[i] /\ At[b] = Corridor[j]
          /\ Corridor[i] \in Int /\ Corridor[j] \in Int
      BY <1>2, PointIs, IndexIs
    <3>2. PICK x \in Int, y \in Int : x = Corridor[i] /\ y = Corridor[j]
      BY <3>1
    <3>3. Abs(y - x) = Abs(x - y)
      BY DEF Abs
    <3> QED BY <3>1, <3>2, <3>3 DEF Far
  <2>4. Steps(i, j)[1] = a /\ Steps(i, j)[Len(Steps(i, j))] = b
    BY <1>2, StepsEnds
  <2> QED BY <1>1, <1>3, <2>2, <2>3, <2>4
<1>4. CASE ~WayOpen(a, b)
  <2>1. found = NoPath
    BY <1>1, <1>2, <1>4, BetweenPoints
  <2> QED BY <1>1, <1>4, <2>1
<1> QED BY <1>3, <1>4

\* And so in every state of the planner.
THEOREM SearchAlwaysRight == SafetySpec => []SearchFindsTheWay
BY SearchIsRight, PTL
===============================================================================
