-------------------------- MODULE CalorificController --------------------------
(***************************************************************************)
(* backend/modules/calorific_controller/calorific_controller.go: every     *)
(* gas composition is handled in a goroutine of its own, which checks the  *)
(* cooldown, limits the adjustment, reads the opening, orders and records  *)
(* the new one in five separate critical sections.                         *)
(*                                                                         *)
(* The Wobbe index of a composition is a floating-point formula, and the   *)
(* PID term divides by the time between two messages, which may be as      *)
(* short as one likes: a handling may come to any adjustment.  The         *)
(* windows it is computed from are left out with it.                       *)
(***************************************************************************)
EXTENDS Integers, Sequences

CONSTANTS
  Composition,          \* messages; each is handled once
  Wobbe,                \* Wobbe indices of valid compositions
  Adjustment,           \* values of the PID term with feed-forward
  TargetWobbeIndex, WobbeTolerance, MaxValveAdjustment,
  LeastAdjustment,      \* smaller ones are dropped (0.5 in the code)
  MaxChange,            \* of an adjustment from the last one of the valve
  StartOpening          \* the openings main sets before Start

ASSUME CalorificNumbers ==
  /\ Wobbe \subseteq Int /\ Adjustment \subseteq Int /\ TargetWobbeIndex \in Int
  /\ {WobbeTolerance, MaxValveAdjustment, MaxChange} \subseteq Nat
  /\ LeastAdjustment \in 1 .. MaxValveAdjustment
  /\ StartOpening \in [{"methane", "hydrogen", "natural_gas"} -> 0 .. 100]

VARIABLES
  regulating,   \* CalorificController.running
  handling,     \* per composition: where its goroutine is, and its locals
  valveStates,  \* the opening the controller remembers
  cooling,      \* valves whose lastControlTime is within ValveCooldown
  lastAdjustments,
  orders,       \* valve -> the openings published on its topic: [from, to, by]
  met           \* handlings of a valve that another one of that valve met
                \* between its cooldown check and its last critical section

calVars == <<regulating, handling, valveStates, cooling, lastAdjustments, orders, met>>

Valve == DOMAIN StartOpening

Idle == [at |-> "idle", valve |-> "methane", adjustment |-> 0, from |-> 0, to |-> 0]

CalInit ==
  /\ regulating = TRUE
  /\ handling = [c \in Composition |-> Idle]
  /\ valveStates = StartOpening
  /\ cooling = {} /\ lastAdjustments = [v \in {} |-> 0]
  /\ orders = [v \in Valve |-> <<>>] /\ met = {}

Between(low, high, n) == IF n < low THEN low ELSE IF n > high THEN high ELSE n

Magnitude(n) == IF n < 0 THEN -n ELSE n

-------------------------------------------------------------------------------
(* ProcessCompositionData *)

\* calculateWobbeIndex: the status is normal.
WithinTolerance(w) == Magnitude(w - TargetWobbeIndex) <= WobbeTolerance

\* The valve does not depend on the size of the adjustment.
SelectSourceValve(w, adjustment) ==
  CASE adjustment > 0 /\ w >= TargetWobbeIndex -> "methane"
    [] adjustment < 0 /\ w > TargetWobbeIndex -> "natural_gas"
    [] OTHER -> "hydrogen"

\* A composition that validate refuses, or that arrives after Stop.
Dismiss(c) ==
  /\ handling[c].at = "idle"
  /\ handling' = [handling EXCEPT ![c].at = "done"]
  /\ UNCHANGED <<regulating, valveStates, cooling, lastAdjustments, orders, met>>

\* calculatePIDAdjustment over the window of Wobbe indices, feed-forward
\* added: any value, see above.
PIDAdjustment == Adjustment

\* Windows stored, the row and the broadcast on their way.
Regulate(c, w) ==
  /\ handling[c].at = "idle" /\ regulating
  /\ IF WithinTolerance(w)
       THEN handling' = [handling EXCEPT ![c].at = "done"]
       ELSE \E pid \in PIDAdjustment :
              LET adjustment == Between(-MaxValveAdjustment, MaxValveAdjustment, pid)
              IN handling' =
                   [handling EXCEPT
                      ![c].at = IF Magnitude(pid) < LeastAdjustment THEN "done" ELSE "check",
                      ![c].valve = SelectSourceValve(w, adjustment),
                      ![c].adjustment = adjustment]
  /\ UNCHANGED <<regulating, valveStates, cooling, lastAdjustments, orders, met>>

InSection(v) ==
  {c \in Composition : /\ handling[c].valve = v
                       /\ handling[c].at \in {"limit", "read", "order", "record"}}

\* Mutant of CanControl: the cooldown is not looked at.
AlwaysControl(v) == v \in Valve

CanControl(v) == v \notin cooling

CheckCooldown(c) ==
  /\ handling[c].at = "check"
  /\ LET v == handling[c].valve
     IN IF CanControl(v)
          THEN /\ handling' = [handling EXCEPT ![c].at = "limit"]
               /\ met' = IF InSection(v) = {} THEN met ELSE met \cup InSection(v) \cup {c}
          ELSE /\ handling' = [handling EXCEPT ![c].at = "done"]
               /\ met' = met
  /\ UNCHANGED <<regulating, valveStates, cooling, lastAdjustments, orders>>

LimitRateOfChange(c) ==
  /\ handling[c].at = "limit"
  /\ LET v == handling[c].valve
         limited == IF v \in DOMAIN lastAdjustments
                      THEN Between(lastAdjustments[v] - MaxChange,
                                   lastAdjustments[v] + MaxChange, handling[c].adjustment)
                      ELSE handling[c].adjustment
     IN handling' = [handling EXCEPT ![c].at = "read", ![c].adjustment = limited]
  /\ UNCHANGED <<regulating, valveStates, cooling, lastAdjustments, orders, met>>

\* Mutant of TargetOpening: the adjustment counts twice.
Overshoot(opening, adjustment) == Between(0, 100, opening + 2 * adjustment)

TargetOpening(opening, adjustment) == Between(0, 100, opening + adjustment)

ReadOpening(c) ==
  /\ handling[c].at = "read"
  /\ LET opening == valveStates[handling[c].valve]
         target  == TargetOpening(opening, handling[c].adjustment)
     IN handling' = [handling EXCEPT ![c].at = IF target = opening THEN "done" ELSE "order",
                                     ![c].from = opening, ![c].to = target]
  /\ UNCHANGED <<regulating, valveStates, cooling, lastAdjustments, orders, met>>

\* executeValveControl hands the row and the publish to goroutines.
ExecuteValveControl(c) ==
  /\ handling[c].at = "order"
  /\ orders' = [orders EXCEPT ![handling[c].valve] =
                  Append(@, [from |-> handling[c].from, to |-> handling[c].to, by |-> c])]
  /\ handling' = [handling EXCEPT ![c].at = "record"]
  /\ UNCHANGED <<regulating, valveStates, cooling, lastAdjustments, met>>

RecordControl(c) ==
  /\ handling[c].at = "record"
  /\ LET v == handling[c].valve
     IN /\ valveStates' = [valveStates EXCEPT ![v] = handling[c].to]
        /\ cooling' = cooling \cup {v}
        /\ lastAdjustments' = [u \in DOMAIN lastAdjustments \cup {v} |->
                                 IF u = v THEN handling[c].adjustment ELSE lastAdjustments[u]]
  /\ handling' = [handling EXCEPT ![c].at = "done"]
  /\ UNCHANGED <<regulating, orders, met>>

AdjustValves(c) ==
  \/ CheckCooldown(c) \/ LimitRateOfChange(c) \/ ReadOpening(c)
  \/ ExecuteValveControl(c) \/ RecordControl(c)

-------------------------------------------------------------------------------
\* ValveCooldown passes.
CoolOff(v) ==
  /\ v \in cooling
  /\ cooling' = cooling \ {v}
  /\ UNCHANGED <<regulating, handling, valveStates, lastAdjustments, orders, met>>

StopRegulating ==
  /\ regulating
  /\ regulating' = FALSE
  /\ UNCHANGED <<handling, valveStates, cooling, lastAdjustments, orders, met>>

\* What the controller does without a new message.
CalStep ==
  \/ \E c \in Composition : AdjustValves(c)
  \/ \E v \in Valve : CoolOff(v)
  \/ StopRegulating

-------------------------------------------------------------------------------
(* Properties *)

CalTypeOK ==
  /\ regulating \in BOOLEAN
  /\ handling \in [Composition ->
       [at : {"idle", "check", "limit", "read", "order", "record", "done"}, valve : Valve,
        adjustment : -MaxValveAdjustment .. MaxValveAdjustment, from : 0 .. 100, to : 0 .. 100]]
  /\ valveStates \in [Valve -> 0 .. 100]
  /\ cooling \subseteq Valve
  /\ DOMAIN lastAdjustments \subseteq Valve
  /\ \A v \in DOMAIN lastAdjustments :
       lastAdjustments[v] \in -MaxValveAdjustment .. MaxValveAdjustment
  /\ orders \in [Valve -> Seq([from : 0 .. 100, to : 0 .. 100, by : Composition])]
  /\ met \subseteq Composition

(* The cooldown is checked in one critical section and started in another,  *)
(* after the order: an order of a valve that is cooling down can only come  *)
(* from a handling that another handling of that valve met on the way.      *)
CooldownHolds ==
  [][\A v \in cooling :
       orders'[v] # orders[v] => orders'[v][Len(orders'[v])].by \in met]_calVars

\* The handlings that ordered v met no other one.
Undisturbed(v) == \A i \in DOMAIN orders[v] : orders[v][i].by \notin met

LastOrder(v) == orders[v][Len(orders[v])]

(* As long as the handlings that ordered a valve met no other, its orders   *)
(* form a chain: each starts where the one before ended (the first at the   *)
(* opening main set), moves the valve by at most MaxValveAdjustment however *)
(* the rate was limited, and the opening remembered is the last one ordered *)
(* unless that order is just to be recorded.                                *)
OrdersChain ==
  \A v \in Valve :
    Undisturbed(v) =>
      /\ \A i \in DOMAIN orders[v] :
           /\ orders[v][i].from = IF i = 1 THEN StartOpening[v] ELSE orders[v][i - 1].to
           /\ Magnitude(orders[v][i].to - orders[v][i].from) <= MaxValveAdjustment
      /\ orders[v] # <<>> =>
           valveStates[v] = IF handling[LastOrder(v).by].at = "record"
                            THEN LastOrder(v).from ELSE LastOrder(v).to
===============================================================================
