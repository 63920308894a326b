------------------------------ MODULE FieldMessages ------------------------------
(***************************************************************************)
(* The three monitors that main.go starts beside the alarm pipeline and    *)
(* what feeds them: the MQTT handlers of backend/mqtt/client.go, which     *)
(* start a goroutine per message, and the HTTP handlers of                 *)
(* backend/api/handlers.go, which call the module in the request.          *)
(*                                                                         *)
(* The monitors share no state, so that nothing can be learnt from their   *)
(* interleavings with one another: in a behaviour one of the feeds is      *)
(* live, and the handlers of that feed interleave in every way.            *)
(***************************************************************************)
EXTENDS CalorificController, StructureMonitor, CorrosionPredictor, FiniteSets

CONSTANT
  MaxTogether   \* bound: handlers of one feed at work at the same time

ASSUME TogetherBound == MaxTogether \in Nat

VARIABLE
  feed          \* the feed that is live: "composition", "fiber" or "inspection"

vars == <<calVars, strVars, corVars, feed>>

Init ==
  /\ CalInit /\ StrInit /\ CorInit
  /\ feed \in {"composition", "fiber", "inspection"}

\* Goroutines are alike: the next message takes a certain one of the idle.
\* The function at gives the place of every handling of the feed.
IsNext(h, at) ==
  /\ at[h] = "idle" /\ h = CHOOSE g \in DOMAIN at : at[g] = "idle"
  /\ Cardinality({k \in DOMAIN at : at[k] \notin {"idle", "done"}}) < MaxTogether

NextComposition(c) == IsNext(c, [k \in Composition |-> handling[k].at])
NextSample(s)      == IsNext(s, [k \in Sample |-> sampling[k].at])
NextInspection(i)  == IsNext(i, [k \in Inspection |-> inspecting[k].at])

-------------------------------------------------------------------------------
\* handleCompositionData, ReceiveGasComposition
HandleComposition(c) ==
  /\ NextComposition(c)
  /\ Dismiss(c) \/ \E w \in Wobbe : Regulate(c, w)
  /\ UNCHANGED <<strVars, corVars>>

\* handleFiberData, ReceiveFiberData
HandleFiberData(s) ==
  /\ NextSample(s)
  /\ \/ DismissSample(s)
     \/ \E f \in Fiber, r \in Reading : Sense(s, f, r)
  /\ UNCHANGED <<calVars, corVars>>

\* AddCorrosionInspection
AddCorrosionInspection(i) ==
  /\ NextInspection(i)
  /\ \/ DismissInspection(i)
     \/ \E p \in Pipe, t \in Thickness, y \in Years : Inspect(i, p, t, y)
  /\ UNCHANGED <<calVars, strVars>>

\* The loop of scheduledPrediction.
SimulateInspection(i) ==
  /\ NextInspection(i)
  /\ \E p \in Pipe, y \in Years : Simulate(i, p, y)
  /\ UNCHANGED <<calVars, strVars>>

Calorific  == CalStep /\ UNCHANGED <<strVars, corVars>>
Structural == StrStep /\ UNCHANGED <<calVars, corVars>>
Corroding  == CorStep /\ UNCHANGED <<calVars, strVars>>

Next ==
  /\ UNCHANGED feed
  /\ \/ feed = "composition" /\ (Calorific \/ \E c \in Composition : HandleComposition(c))
     \/ feed = "fiber" /\ (Structural \/ \E s \in Sample : HandleFiberData(s))
     \/ feed = "inspection" /\ \/ Corroding
                               \/ \E i \in Inspection : \/ AddCorrosionInspection(i)
                                                        \/ SimulateInspection(i)

Spec == Init /\ [][Next]_vars
===============================================================================
