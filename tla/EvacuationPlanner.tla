--------------------------- MODULE EvacuationPlanner ---------------------------
(***************************************************************************)
(* backend/modules/evacuation_planner/evacuation_planner.go: the graph of  *)
(* the corridor and its fire doors, the goroutine that plans a route for   *)
(* everybody in the zone of a level 3 alarm, the pool of Dijkstra workers  *)
(* it hands the searches to, and Stop.                                     *)
(*                                                                         *)
(* Positions are whole numbers.  Messages, statistics and the rows in the  *)
(* database are left out.  A search is one step: the workers read Blocked  *)
(* without the lock, but no edge leads to an exit (see Edges), so the      *)
(* answer to a job of the planner does not depend on a door.               *)
(***************************************************************************)
EXTENDS Integers, Sequences, FiniteSets

CONSTANTS
  Corridor,       \* positions of the corridor points, in order
  ExitAt,         \* position of every exit point
  Available,      \* the exits whose status is "available"
  DoorAt,         \* position of every fire door
  Zone,           \* names of fire zones, as the database has them
  Person,         \* people whose location is reported
  PersonAt,       \* positions they are reported at
  Worker,         \* the Dijkstra workers
  MaxAlarms, MaxReports, MaxDoorReports   \* bounds

Exit == DOMAIN ExitAt
Door == DOMAIN DoorAt

ASSUME CorridorIsALine ==
  /\ Corridor \in Seq(Int) /\ Len(Corridor) >= 2
  /\ \A i, j \in DOMAIN Corridor : i < j => Corridor[i] < Corridor[j]
ASSUME ExitsAreKnown ==
  ExitAt \in [Exit -> Int] /\ Available \subseteq Exit /\ IsFiniteSet(Exit)
ASSUME DoorsAreKnown == DoorAt \in [Door -> Int]
ASSUME PlannerBounds == {MaxAlarms, MaxReports, MaxDoorReports} \subseteq Nat

-------------------------------------------------------------------------------
(* The graph: SetCorridorPoints first, then AddExitPoint for every exit. *)

Point(i)    == <<"node", i>>
ExitNode(x) == <<"exit", x>>
Points      == {Point(i) : i \in DOMAIN Corridor}
Node        == Points \cup {ExitNode(x) : x \in Exit}
At          == [n \in Node |-> IF n \in Points THEN Corridor[n[2]] ELSE ExitAt[n[2]]]

\* buildGraph links neighbouring points both ways; AddExitPoint adds no edge.
Edges == {e \in Points \X Points : e[1][2] - e[2][2] \in {1, -1}}

Abs(k)       == IF k < 0 THEN -k ELSE k
Distance(n, at) == Abs(At[n] - at)
Weight(e)    == Distance(e[1], At[e[2]])

\* findNearestNode goes through a map in any order: of equals, any may win.
Nearest(N, at) == {n \in N : \A k \in N : Distance(n, at) <= Distance(k, at)}

\* attachDoorToEdges: the two nearest nodes, exits included, in order.
DoorEnds(d) ==
  LET first(n, k) == n \in Nearest(Node, DoorAt[d]) /\ k \in Nearest(Node \ {n}, DoorAt[d])
  IN {ends \in Node \X Node : /\ ends[1] # ends[2] /\ At[ends[1]] <= At[ends[2]]
                              /\ first(ends[1], ends[2]) \/ first(ends[2], ends[1])}

Between(from, to) == Edges \cap {<<from, to>>, <<to, from>>}

\* Sscanf(fireZone, "ZONE_%d"): the names in the database are "ZONE-01", ...
ZoneNumber(z) == 0
ZoneLength    == 600

\* isEdgeInZone
EdgeInZone(e, z) ==
  /\ ZoneNumber(z) # 0
  /\ \E n \in {e[1], e[2]} :
       At[n] \in (ZoneNumber(z) - 1) * ZoneLength .. ZoneNumber(z) * ZoneLength

-------------------------------------------------------------------------------
(* executeDijkstra: distances of the nodes reached so far, the node each    *)
(* was reached from, and the nodes visited.                                *)

\* Mutant of Passable: the search does not look at Blocked.
AnyEdge(from, shut) == {e \in Edges : e[1] = from /\ shut \subseteq Edges}

Passable(from, shut) == {e \in Edges \ shut : e[1] = from}

Relax(s, current, shut) ==
  LET base == s.distances[current]
      better == {e \in Passable(current, shut) :
                   /\ e[2] \notin s.visited
                   /\ e[2] \in DOMAIN s.distances =>
                        base + Weight(e) < s.distances[e[2]]}
      improved == {e[2] : e \in better}
  IN [distances |-> [n \in DOMAIN s.distances \cup improved |->
                       IF n \in improved
                       THEN base + Weight(<<current, n>>)
                       ELSE s.distances[n]],
      previous  |-> [n \in DOMAIN s.previous \cup improved |->
                       IF n \in improved THEN current ELSE s.previous[n]],
      visited   |-> s.visited \cup {current}]

\* The unvisited nodes with the least distance.
Closest(s) == {n \in DOMAIN s.distances \ s.visited :
                 \A k \in DOMAIN s.distances \ s.visited : s.distances[n] <= s.distances[k]}

\* One turn of the main loop.  Of equals, any node may be taken.
Turn(s, end, shut) ==
  LET closest == Closest(s) IN
  IF closest = {} \/ end \in closest THEN s
  ELSE Relax(s, CHOOSE n \in closest : TRUE, shut)

Search(start, end, shut) ==
  LET after[i \in 0 .. Cardinality(Node)] ==
        IF i = 0
        THEN [distances |-> [n \in {start} |-> 0], previous |-> [n \in {} |-> start],
              visited |-> {}]
        ELSE CHOOSE t \in {Turn(s, end, shut) : s \in {after[i - 1]}} : TRUE
  IN after[Cardinality(Node)]

NoPath == [path |-> <<>>, distance |-> 0]

\* The path is read backwards through previous.
Shortest(start, end, shut) ==
  LET s == CHOOSE t \in {Search(start, end, shut)} : TRUE
      path[n \in DOMAIN s.distances] ==
        IF n = start THEN <<n>> ELSE Append(path[s.previous[n]], n)
  IN IF end \in DOMAIN s.distances
     THEN [path |-> path[end], distance |-> s.distances[end]]
     ELSE NoPath

-------------------------------------------------------------------------------
VARIABLES
  running,      \* EvacuationPlanner.running
  stopAt,       \* "up", "waiting" for the workers in Stop, "stopped"
  cancelled,    \* the context of Start was cancelled
  crashed,      \* a goroutine sent on a closed channel
  jobs,         \* dijkstraJobs: [start, exit]
  busy,         \* the job every worker is at: a set of at most one
  gone,         \* workers that have returned
  reply,        \* the result channel of the last job: a set of at most one
  lst,          \* alarmListener: where it is, the zone, the people left, the one
                \* it plans for, the exits left and the best result, as sets
  alarms,       \* level 3 alarms taken so far
  people,       \* personLocations
  reports,      \* location reports so far
  routes,       \* activeRoutes: [id, person, path]
  issued,       \* routes planned so far
  skipped,      \* people for whom no route was planned: [id, start]
  segments,     \* blockedSegments
  doors,        \* fireDoors: [open, ends], and opened: it was reported open
  doorReports,  \* door reports so far
  blocked,      \* the edges with Blocked set
  changed,      \* an entry of dynamicEdges is recent
  passedOver    \* routes triggerRouteReplan found nobody for

poolVars   == <<jobs, busy, gone, reply>>
lifeVars   == <<running, stopAt, cancelled>>
peopleVars == <<people, reports>>
routeVars  == <<routes, issued, skipped>>
doorVars   == <<doors, doorReports, changed>>
vars == <<lifeVars, crashed, poolVars, lst, alarms, peopleVars, routeVars,
          segments, doorVars, blocked, passedOver>>

NoZone  == "none"      \* the detector is unknown: fireZone stays empty
NoRoute == 0
Alive   == ~crashed

\* getPeopleInZone makes people up; their position is below every point
\* because ZoneNumber is 0.  Five in the code, one here.
Invented(z) == [id |-> <<"P", z>>, at |-> -1]

Init ==
  /\ running = TRUE /\ stopAt = "up" /\ cancelled = FALSE /\ crashed = FALSE
  /\ jobs = <<>> /\ busy = [w \in Worker |-> {}] /\ gone = {} /\ reply = {}
  /\ lst = [at |-> "idle", zone |-> NoZone, todo |-> {}, who |-> NoZone,
            start |-> Point(1), left |-> {}, best |-> {}]
  /\ alarms = 0
  /\ people = [p \in {} |-> {}] /\ reports = 0
  /\ routes = {} /\ issued = 0 /\ skipped = {}
  /\ segments = {}
  /\ doors = [d \in {} |-> {}] /\ doorReports = 0
  /\ blocked = {} /\ changed = FALSE /\ passedOver = {}

-------------------------------------------------------------------------------
(* alarmListener and handleLevel3Alarm.  It looks at the context, never at  *)
(* running; lower alarms are taken and dropped.                            *)

ListenerEnds ==
  /\ Alive /\ lst.at = "idle" /\ cancelled
  /\ lst' = [lst EXCEPT !.at = "gone"]
  /\ UNCHANGED <<lifeVars, crashed, poolVars, alarms, peopleVars, routeVars,
                 segments, doorVars, blocked, passedOver>>

TakeAlarm(z) ==
  /\ Alive /\ lst.at = "idle" /\ alarms < MaxAlarms
  /\ alarms' = alarms + 1
  /\ lst' = [lst EXCEPT !.at = "block", !.zone = z]
  /\ UNCHANGED <<lifeVars, crashed, poolVars, peopleVars, routeVars, segments,
                 doorVars, blocked, passedOver>>

BlockZone ==
  /\ Alive /\ lst.at = "block"
  /\ segments' = segments \cup {lst.zone}
  /\ blocked' = blocked \cup {e \in Edges : EdgeInZone(e, lst.zone)}
  /\ lst' = [lst EXCEPT !.at = "list"]
  /\ UNCHANGED <<lifeVars, crashed, poolVars, alarms, peopleVars, routeVars,
                 doorVars, passedOver>>

ActiveIn(z) == {p \in DOMAIN people : people[p].zone = z /\ people[p].status = "active"}

ListPeople ==
  LET z == lst.zone
      made == Invented(z)
  IN
  /\ Alive /\ lst.at = "list"
  /\ IF ActiveIn(z) # {}
     THEN /\ lst' = [lst EXCEPT !.at = "next",
                       !.todo = {[id |-> p, at |-> people[p].at] : p \in ActiveIn(z)}]
          /\ people' = people
     ELSE /\ lst' = [lst EXCEPT !.at = "next", !.todo = {made}]
          /\ people' = [p \in DOMAIN people \cup {made.id} |->
                          IF p = made.id
                          THEN [at |-> made.at, zone |-> z, status |-> "active", route |-> NoRoute]
                          ELSE people[p]]
  /\ UNCHANGED <<lifeVars, crashed, poolVars, alarms, reports, routeVars,
                 segments, doorVars, blocked, passedOver>>

\* calculateEvacuationRoute: where the person starts and which exits to try.
NextPerson ==
  /\ Alive /\ lst.at = "next"
  /\ \E p \in lst.todo : \E s \in Nearest(Node, p.at) :
       lst' = [lst EXCEPT !.at = "submit", !.todo = @ \ {p}, !.who = p.id,
                          !.start = s, !.left = Available, !.best = {}]
  /\ UNCHANGED <<lifeVars, crashed, poolVars, alarms, peopleVars, routeVars,
                 segments, doorVars, blocked, passedOver>>

AlarmDone ==
  /\ Alive /\ lst.at = "next" /\ lst.todo = {}
  /\ lst' = [lst EXCEPT !.at = "idle"]
  /\ UNCHANGED <<lifeVars, crashed, poolVars, alarms, peopleVars, routeVars,
                 segments, doorVars, blocked, passedOver>>

\* submitDijkstraJob, whose context is never cancelled.  After Stop there is
\* a new channel that nobody reads.
Submit ==
  /\ Alive /\ lst.at = "submit" /\ stopAt # "waiting"
  /\ \E x \in lst.left :
       /\ jobs' = Append(jobs, [start |-> lst.start, exit |-> ExitNode(x)])
       /\ lst' = [lst EXCEPT !.at = "wait", !.left = @ \ {x}]
  /\ UNCHANGED <<lifeVars, crashed, busy, gone, reply, alarms, peopleVars, routeVars,
                 segments, doorVars, blocked, passedOver>>

\* The channel is closed while Stop waits for the workers.
SubmitPanics ==
  /\ Alive /\ lst.at = "submit" /\ lst.left # {} /\ stopAt = "waiting"
  /\ crashed' = TRUE
  /\ UNCHANGED <<lifeVars, poolVars, lst, alarms, peopleVars, routeVars, segments,
                 doorVars, blocked, passedOver>>

\* Mutant of Better: a result has to be shorter than an infinitely short one.
NeverBetter(r, best) == r.path # <<>> /\ r.distance < 0 /\ best = {}

Better(r, best) == r.path # <<>> /\ \A b \in best : r.distance < b.distance

Collect ==
  /\ Alive /\ lst.at = "wait"
  /\ \E r \in reply :
       lst' = [lst EXCEPT !.at = "submit",
                          !.best = IF Better(r, @) THEN {r} ELSE @]
  /\ reply' = {}
  /\ UNCHANGED <<lifeVars, crashed, jobs, busy, gone, alarms, peopleVars, routeVars,
                 segments, doorVars, blocked, passedOver>>

\* No exit: the next person.
SkipPerson ==
  /\ Alive /\ lst.at = "submit" /\ lst.left = {} /\ lst.best = {}
  /\ lst' = [lst EXCEPT !.at = "next"]
  /\ skipped' = skipped \cup {[id |-> lst.who, start |-> lst.start]}
  /\ UNCHANGED <<lifeVars, crashed, poolVars, alarms, peopleVars, routes, issued,
                 segments, doorVars, blocked, passedOver>>

\* saveRoute
SaveRoute ==
  /\ Alive /\ lst.at = "submit" /\ lst.left = {}
  /\ \E b \in lst.best :
       routes' = routes \cup {[id |-> issued + 1, person |-> lst.who, path |-> b.path]}
  /\ issued' = issued + 1
  /\ lst' = [lst EXCEPT !.at = "assign"]
  /\ UNCHANGED <<lifeVars, crashed, poolVars, alarms, peopleVars, skipped, segments,
                 doorVars, blocked, passedOver>>

\* assignRoute looks the person up again: a report may have replaced the entry.
AssignRoute ==
  /\ Alive /\ lst.at = "assign"
  /\ people' = [people EXCEPT ![lst.who] =
                  [@ EXCEPT !.route = issued, !.status = "evacuating"]]
  /\ lst' = [lst EXCEPT !.at = "next"]
  /\ UNCHANGED <<lifeVars, crashed, poolVars, alarms, reports, routeVars, segments,
                 doorVars, blocked, passedOver>>

ListenerStep ==
  \/ ListenerEnds \/ BlockZone \/ ListPeople \/ NextPerson \/ AlarmDone
  \/ Submit \/ SubmitPanics \/ Collect \/ SkipPerson \/ SaveRoute \/ AssignRoute

-------------------------------------------------------------------------------
(* dijkstraWorker *)

Idle(w) == busy[w] = {} /\ w \notin gone

\* Mutant of Done: wg.Done is not called.
NotDone(w) == gone \ {w}

\* The worker returns and its deferred wg.Done runs.
Done(w) == gone \cup {w}

WorkerTakes(w) ==
  /\ Alive /\ Idle(w) /\ jobs # <<>> /\ ~cancelled
  /\ jobs' = Tail(jobs)
  /\ busy' = [busy EXCEPT ![w] = {Head(jobs)}]
  /\ UNCHANGED <<lifeVars, crashed, gone, reply, lst, alarms, peopleVars, routeVars,
                 segments, doorVars, blocked, passedOver>>

\* A job taken after the context was cancelled is answered with its error,
\* and the worker returns.
WorkerDeclines(w) ==
  /\ Alive /\ Idle(w) /\ jobs # <<>> /\ cancelled
  /\ jobs' = Tail(jobs)
  /\ gone' = Done(w)
  /\ reply' = {NoPath}
  /\ UNCHANGED <<lifeVars, crashed, busy, lst, alarms, peopleVars, routeVars,
                 segments, doorVars, blocked, passedOver>>

WorkerAnswers(w) ==
  /\ Alive
  /\ \E j \in busy[w] : reply' = {Shortest(j.start, j.exit, blocked)}
  /\ busy' = [busy EXCEPT ![w] = {}]
  /\ UNCHANGED <<lifeVars, crashed, jobs, gone, lst, alarms, peopleVars, routeVars,
                 segments, doorVars, blocked, passedOver>>

\* Both cases of the second select are ready: the result may be dropped.
WorkerDrops(w) ==
  /\ Alive /\ busy[w] # {} /\ cancelled
  /\ busy' = [busy EXCEPT ![w] = {}]
  /\ gone' = Done(w)
  /\ UNCHANGED <<lifeVars, crashed, jobs, reply, lst, alarms, peopleVars, routeVars,
                 segments, doorVars, blocked, passedOver>>

\* range over the closed and empty channel ends.
WorkerReturns(w) ==
  /\ Alive /\ Idle(w) /\ jobs = <<>> /\ stopAt = "waiting"
  /\ gone' = Done(w)
  /\ UNCHANGED <<lifeVars, crashed, jobs, busy, reply, lst, alarms, peopleVars,
                 routeVars, segments, doorVars, blocked, passedOver>>

WorkerStep(w) ==
  WorkerTakes(w) \/ WorkerDeclines(w) \/ WorkerAnswers(w) \/ WorkerDrops(w) \/ WorkerReturns(w)

-------------------------------------------------------------------------------
(* Stop, and the cancellation of the context by its owner *)

StopCloses ==
  /\ Alive /\ running
  /\ running' = FALSE /\ stopAt' = "waiting"
  /\ UNCHANGED <<cancelled, crashed, poolVars, lst, alarms, peopleVars, routeVars,
                 segments, doorVars, blocked, passedOver>>

StopReturns ==
  /\ Alive /\ stopAt = "waiting" /\ gone = Worker
  /\ stopAt' = "stopped"
  /\ jobs' = <<>>
  /\ UNCHANGED <<running, cancelled, crashed, busy, gone, reply, lst, alarms,
                 peopleVars, routeVars, segments, doorVars, blocked, passedOver>>

Cancel ==
  /\ Alive /\ ~cancelled
  /\ cancelled' = TRUE
  /\ UNCHANGED <<running, stopAt, crashed, poolVars, lst, alarms, peopleVars,
                 routeVars, segments, doorVars, blocked, passedOver>>

-------------------------------------------------------------------------------
(* Reports, one goroutine each, and graphUpdater *)

\* UpdatePersonLocation replaces the whole entry, the assigned route included.
UpdatePersonLocation(p, at, z) ==
  /\ Alive /\ reports < MaxReports
  /\ reports' = reports + 1
  /\ people' = [q \in DOMAIN people \cup {p} |->
                  IF q = p
                  THEN [at |-> at, zone |-> z, status |-> "active", route |-> NoRoute]
                  ELSE people[q]]
  /\ UNCHANGED <<lifeVars, crashed, poolVars, lst, alarms, routeVars, segments,
                 doorVars, blocked, passedOver>>

\* Mutant of Shut: the sign is lost.
ShutWhenOpen(door) == door.open

\* updateEdgeBlockedStatus
Shut(door) == ~door.open

\* Mutant of ReportChanges: a door that closes is not a change.
Opens(d, open) == open /\ ~(d \in DOMAIN doors /\ doors[d].open)

\* A door that is not known yet starts as closed.
ReportChanges(d, open) == (d \in DOMAIN doors /\ doors[d].open) # open

\* The first report attaches the door to two nodes.
UpdateFireDoorStatus(d, open) ==
  /\ Alive /\ doorReports < MaxDoorReports
  /\ doorReports' = doorReports + 1
  /\ \E ends \in IF d \in DOMAIN doors THEN {doors[d].ends} ELSE DoorEnds(d) :
       /\ doors' = [c \in DOMAIN doors \cup {d} |->
                      IF c # d THEN doors[c]
                      ELSE [open |-> open, ends |-> ends,
                            opened |-> open \/ (d \in DOMAIN doors /\ doors[d].opened)]]
       /\ IF ReportChanges(d, open)
          THEN /\ changed' = TRUE
               /\ blocked' = IF Shut(doors'[d])
                             THEN blocked \cup Between(ends[1], ends[2])
                             ELSE blocked \ Between(ends[1], ends[2])
          ELSE UNCHANGED <<blocked, changed>>
  /\ UNCHANGED <<lifeVars, crashed, poolVars, lst, alarms, peopleVars, routeVars,
                 segments, passedOver>>

\* Twice the interval of the topology check has gone by since the last change.
ChangeAges ==
  /\ Alive /\ changed
  /\ changed' = FALSE
  /\ UNCHANGED <<lifeVars, crashed, poolVars, lst, alarms, peopleVars, routeVars,
                 segments, doors, doorReports, blocked, passedOver>>

\* getPersonIDFromRoute makes the key of a person out of the id of the route.
PersonKey(r) == <<"route", r.id>>

\* checkTopologyChanges and triggerRouteReplan: a route whose person is not
\* found is passed over, and no person has such a key.
Replan ==
  /\ Alive /\ running /\ routes # {} /\ changed
  /\ passedOver' = passedOver \cup {r.id : r \in {q \in routes : PersonKey(q) \notin DOMAIN people}}
  /\ UNCHANGED <<lifeVars, crashed, poolVars, lst, alarms, peopleVars, routeVars,
                 segments, doorVars, blocked>>

\* cleanupExpiredRoutes: the routes planned before some moment go.
ExpireRoutes ==
  /\ Alive /\ running
  /\ \E r \in routes : routes' = {q \in routes : q.id > r.id}
  /\ UNCHANGED <<lifeVars, crashed, poolVars, lst, alarms, peopleVars, issued, skipped,
                 segments, doorVars, blocked, passedOver>>

Next ==
  \/ \E z \in Zone \cup {NoZone} : TakeAlarm(z)
  \/ ListenerStep
  \/ \E w \in Worker : WorkerStep(w)
  \/ StopCloses \/ StopReturns \/ Cancel
  \/ \E p \in Person, at \in PersonAt, z \in Zone : UpdatePersonLocation(p, at, z)
  \/ \E d \in Door, open \in BOOLEAN : UpdateFireDoorStatus(d, open)
  \/ ChangeAges \/ Replan \/ ExpireRoutes

\* A goroutine that can run is scheduled; alarms, reports, Stop, the
\* cancellation and the tickers may never come.
Fairness ==
  /\ WF_vars(ListenerStep)
  /\ \A w \in Worker : WF_vars(WorkerStep(w))
  /\ WF_vars(StopReturns)

SafetySpec == Init /\ [][Next]_vars
Spec       == SafetySpec /\ Fairness

-------------------------------------------------------------------------------
(* Properties *)

(* executeDijkstra against what it should find between two points of the    *)
(* corridor: the way is as long as the distance when every stretch in       *)
(* between is open in that direction, and there is none otherwise; whatever *)
(* doors have done to the graph by now.                                     *)
WayOpen(a, b) ==
  \/ a = b
  \/ \A e \in Edges \cap blocked :
       \/ (e[1][2] < e[2][2]) # (a[2] < b[2])
       \/ e[1][2] < a[2] /\ e[1][2] < b[2]
       \/ e[2][2] < a[2] /\ e[2][2] < b[2]
       \/ e[1][2] > a[2] /\ e[1][2] > b[2]
       \/ e[2][2] > a[2] /\ e[2][2] > b[2]

SearchFindsTheWay ==
  \A a, b \in Points :
    LET found == Shortest(a, b, blocked) IN
    IF WayOpen(a, b)
    THEN /\ found.distance = Abs(At[a] - At[b])
         /\ found.path[1] = a /\ found.path[Len(found.path)] = b
    ELSE found = NoPath

(* An edge is blocked only while a door on it is closed: reports of several *)
(* doors, in whatever order they come and go, leave no stretch of the       *)
(* corridor shut that no door shuts.                                        *)
BlockedHasClosedDoor ==
  \A e \in blocked : \E d \in DOMAIN doors :
    ~doors[d].open /\ e \in Between(doors[d].ends[1], doors[d].ends[2])

ShutBy(d) == Between(doors[d].ends[1], doors[d].ends[2])

(* And the other way round: however often doors open and close, one that    *)
(* was open once and is closed now blocks its stretch both ways, unless     *)
(* another door was attached to the same stretch.                           *)
ClosedDoorBlocks ==
  \A d \in DOMAIN doors :
    \/ doors[d].open \/ ~doors[d].opened
    \/ \E c \in DOMAIN doors \ {d} : ShutBy(c) \cap ShutBy(d) # {}
    \/ ShutBy(d) \subseteq blocked

(* What an alarm is said to do for somebody who was reported in the         *)
(* corridor: "the stretches that belong to the fire zone are blocked"       *)
(* (evacuation_planner.go:319), and a route is computed                     *)
(* (evacuation_planner_test.go:383, "cannot compute an evacuation route").  *)
(* It does neither: the name of the zone has no number for isEdgeInZone,    *)
(* and AddExitPoint joins an exit to nothing.  (The corridors that are      *)
(* checked lie within the zones, and before any report of a door no stretch *)
(* is shut for another reason.)                                             *)
AlarmHelps ==
  /\ segments \ {NoZone} # {} /\ doorReports = 0
  /\ Available # {} /\ ~cancelled
  => blocked # {} \/ \A s \in skipped : s.id \notin Person

(* Who gets no route had none: unless the context was cancelled, somebody   *)
(* who starts at an available exit is never passed over, and a route leads  *)
(* from where the person starts to an available exit.                       *)
OnlyTheLostAreSkipped ==
  /\ \A r \in routes : \E x \in Available : r.path[Len(r.path)] = ExitNode(x)
  /\ cancelled \/ \A s \in skipped : s.start \notin {ExitNode(x) : x \in Available}

(* The planner comes to an end: an alarm it took is worked off unless Stop  *)
(* or the cancellation gets in between, and Stop returns however jobs and   *)
(* cancellation are ordered, unless a late job brings the process down.     *)
HandlersReturn ==
  /\ lst.at = "block" ~> lst.at = "idle" \/ ~running \/ cancelled
  /\ stopAt = "waiting" ~> stopAt = "stopped" \/ crashed
===============================================================================
