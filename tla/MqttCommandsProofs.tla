-------------------------- MODULE MqttCommandsProofs --------------------------
(***************************************************************************)
(* Proofs about MqttCommands, for any set of commands and any number of    *)
(* retries.  IndInv is inductive; the safety properties follow from it.    *)
(***************************************************************************)
EXTENDS MqttCommands, TLAPS

\* One-line helpers of the actions are always expanded.
USE DEF Forget, IsDue, RetriesLeft, TimesOut, Verdict, Answerable

\* The initial table, locations and counters are of their types.
LEMMA InitTyped == Init => TypeOK
  BY MaxRetriesAssumption, ExecCapAssumption
  DEF Init, TypeOK, Status, CallerLoc, LoopLoc, HandlerLoc, Sending, Report

\* No step of a goroutine, of the network or of the clock leaves the types.
LEMMA StepTyped == TypeOK /\ [Next]_vars => TypeOK'
<1> SUFFICES ASSUME TypeOK, [Next]_vars PROVE TypeOK'
  OBVIOUS
<1> USE MaxRetriesAssumption, ExecCapAssumption DEF TypeOK
<1>1. ASSUME NEW c \in Command, Register(c) PROVE TypeOK'
  BY <1>1 DEF Register, CallerLoc, Sending, clockVars, netVars, countVars, callbackVars
<1>2. ASSUME NEW c \in Command, CallerStep(c) PROVE TypeOK'
  <2>1. CASE CallerPublish(c)
    BY <2>1 DEF CallerPublish, Handover, Waiting, CallerLoc, Sending, tableVars,
      clockVars, callbackVars
  <2>2. CASE CallerAcked(c)
    BY <2>2 DEF CallerAcked, MarkSent, Status, CallerLoc, netVars, countVars,
      callbackVars
  <2>3. CASE CallerFailed(c)
    BY <2>3 DEF CallerFailed, CallerLoc, tableVars, clockVars, netVars, countVars,
      callbackVars
  <2>4. CASE CallerCleanup(c)
    BY <2>4 DEF CallerCleanup, CallerLoc, clockVars, netVars, countVars,
      callbackVars
  <2> QED BY <1>2, <2>1, <2>2, <2>3, <2>4 DEF CallerStep
<1>3. ASSUME NEW c \in Command, HandlerStep(c) PROVE TypeOK'
  <2>1. CASE HandlerConfirms(c)
    BY <2>1 DEF HandlerConfirms, HandlerLoc, Status, clockVars, netVars, countVars
  <2>2. CASE HandlerFails(c)
    BY <2>2 DEF HandlerFails, HandlerLoc, Status, clockVars, netVars, countVars
  <2>3. CASE HandlerRemove(c)
    BY <2>3 DEF HandlerRemove, HandlerLoc, clockVars, netVars, countVars, callbackVars
  <2> QED BY <1>3, <2>1, <2>2, <2>3 DEF HandlerStep
<1>4. ASSUME NEW c \in Command, NEW r \in Report, HandlerLookup(c, r) PROVE TypeOK'
  BY <1>4 DEF HandlerLookup, HandlerLoc, tableVars, clockVars, netVars,
    countVars, callbackVars
<1>5. CASE LoopStep
  <2>1. CASE Tick
    BY <2>1 DEF Tick, LoopLoc, tableVars, netVars, countVars, callbackVars
  <2>2. ASSUME NEW c \in Command, LoopLookup(c) \/ LoopAnswered(c) \/ LoopWaits(c)
        PROVE TypeOK'
    BY <2>2 DEF LoopLookup, LoopAnswered, LoopWaits, LoopLoc, tableVars, clockVars,
      netVars, countVars, callbackVars
  <2>3. ASSUME NEW c \in Command, LoopRetry(c) PROVE TypeOK'
    BY <2>3 DEF LoopRetry, LoopLoc, Sending, clockVars, netVars, countVars,
      callbackVars
  <2>4. ASSUME NEW c \in Command, LoopGivesUp(c) PROVE TypeOK'
    BY <2>4 DEF LoopGivesUp, LoopLoc, Status, clockVars, netVars, countVars
  <2>5. ASSUME NEW c \in Command, LoopPublish(c) PROVE TypeOK'
    BY <2>5 DEF LoopPublish, Handover, Waiting, LoopLoc, Sending, tableVars,
      clockVars, callbackVars
  <2>6. ASSUME NEW c \in Command, LoopAcked(c) PROVE TypeOK'
    BY <2>6 DEF LoopAcked, MarkSent, LoopLoc, Status, netVars, countVars,
      callbackVars
  <2>7. ASSUME NEW c \in Command, LoopFailed(c) \/ LoopRemove(c) PROVE TypeOK'
    BY <2>7 DEF LoopFailed, LoopRemove, LoopLoc, tableVars, clockVars, netVars,
      countVars, callbackVars
  <2> QED BY <1>5, <2>1, <2>2, <2>3, <2>4, <2>5, <2>6, <2>7 DEF LoopStep
<1>6. CASE Environment
  <2>1. ASSUME NEW c \in Command, DeviceActs(c) PROVE TypeOK'
    BY <2>1 DEF DeviceActs, Deliver, Report, tableVars, clockVars, countVars,
      callbackVars
  <2>2. ASSUME NEW c \in Command, DeviceRefuses(c) PROVE TypeOK'
    BY <2>2 DEF DeviceRefuses, Deliver, Report, tableVars, clockVars, countVars,
      callbackVars
  <2>3. ASSUME NEW c \in Command, Expire(c) PROVE TypeOK'
    BY <2>3 DEF Expire, tableVars, netVars, countVars, callbackVars
  <2> QED BY <1>6, <2>1, <2>2, <2>3 DEF Environment
<1>7. CASE UNCHANGED vars
  BY <1>7 DEF vars, tableVars, clockVars, netVars, countVars, callbackVars
<1> QED BY <1>1, <1>2, <1>3, <1>4, <1>5, <1>6, <1>7 DEF Next

\* Every variable keeps its type: in particular the retry counter of client.go
\* never exceeds maxRetries, wherever the loop and the handler interleave.
THEOREM TypeCorrect == SafetySpec => []TypeOK
  BY InitTyped, StepTyped, PTL DEF SafetySpec

-------------------------------------------------------------------------------
(* The inductive invariant, command by command *)

\* What IndInv says of one command.
Good(c) ==
  /\ callerAt[c] = "idle" => Untouched(c)
  /\ VerdictKept(c) /\ RemovalToldOf(c) /\ BudgetKept(c) /\ StragglerKept(c)
  /\ confirms[c] > 0 => executed[c] > 0
  /\ confirms[c] + errors[c] <= 1
  /\ c \notin pending /\ callerAt[c] # "idle" => Told(c) \/ callerAt[c] = "err"

\* A step that leaves everything recorded of d alone.
Spares(d) ==
  /\ d \in pending' <=> d \in pending
  /\ d \in overdue' <=> d \in overdue
  /\ d \in due' <=> d \in due
  /\ status'[d] = status[d] /\ retries'[d] = retries[d]
  /\ callerAt'[d] = callerAt[d] /\ loopAt'[d] = loopAt[d]
  /\ handlerAt'[d] = handlerAt[d] /\ copies'[d] = copies[d]
  /\ reports'[d] = reports[d] /\ executed'[d] = executed[d]
  /\ published'[d] = published[d] /\ late'[d] = late[d]
  /\ confirms'[d] = confirms[d]
  /\ errors'[d] = errors[d] /\ timeouts'[d] = timeouts[d]

\* The invariant of a command survives such a step.
LEMMA SparedStaysGood ==
  ASSUME NEW d \in Command, Good(d), Spares(d) PROVE Good(d)'
  BY DEF Good, Spares, Untouched, VerdictKept, RemovalToldOf, BudgetKept, StragglerKept,
    Settled, Told, Begun

\* IndInv is the types and Good of every command.
LEMMA IndInvIsGood == IndInv <=> TypeOK /\ \A c \in Command : Good(c)
  BY DEF IndInv, Good, ConfirmIsBacked, OneVerdict, NothingForgotten

USE MaxRetriesAssumption, ExecCapAssumption

\* A step of the goroutine in SendReliableCommand.
LEMMA CallerKeepsGood ==
  ASSUME IndInv, NEW c \in Command, Register(c) \/ CallerStep(c),
         NEW d \in Command
  PROVE  Good(d)'
<1>1. TypeOK /\ Good(d)
  BY IndInvIsGood
<1>2. CASE d # c
  <2>1. Spares(d)
    BY <1>1, <1>2 DEF Spares, TypeOK, Register, CallerStep, CallerPublish, CallerAcked,
      CallerFailed, CallerCleanup, Handover, MarkSent, clockVars, netVars, countVars,
      callbackVars, tableVars
  <2> QED BY <1>1, <2>1, SparedStaysGood
<1>3. CASE d = c
  <2> USE <1>1, <1>3 DEF TypeOK, Good, Untouched, VerdictKept, RemovalToldOf, BudgetKept,
    StragglerKept, Settled, Told, Begun
  <2>1. CASE Register(c)
    BY <2>1 DEF Register, clockVars, netVars, countVars, callbackVars
  <2>2. CASE CallerPublish(c)
    BY <2>2 DEF CallerPublish, Handover, Waiting, tableVars, clockVars, callbackVars
  <2>3. CASE CallerAcked(c)
    BY <2>3 DEF CallerAcked, MarkSent, netVars, countVars, callbackVars
  <2>4. CASE CallerFailed(c)
    BY <2>4 DEF CallerFailed, tableVars, clockVars, netVars, countVars, callbackVars
  <2>5. CASE CallerCleanup(c)
    BY <2>5 DEF CallerCleanup, clockVars, netVars, countVars, callbackVars
  <2> QED BY <2>1, <2>2, <2>3, <2>4, <2>5 DEF CallerStep
<1> QED BY <1>2, <1>3

\* A step of handleDeviceStatus.
LEMMA HandlerKeepsGood ==
  ASSUME IndInv, NEW c \in Command,
         HandlerStep(c) \/ \E r \in Report : HandlerLookup(c, r),
         NEW d \in Command
  PROVE  Good(d)'
<1>1. TypeOK /\ Good(d)
  BY IndInvIsGood
<1>2. CASE d # c
  <2>1. Spares(d)
    BY <1>1, <1>2 DEF Spares, TypeOK, HandlerStep, HandlerLookup, HandlerConfirms,
      HandlerFails, HandlerRemove, clockVars, netVars, countVars, callbackVars, tableVars
  <2> QED BY <1>1, <2>1, SparedStaysGood
<1>3. CASE d = c
  <2> USE <1>1, <1>3 DEF TypeOK, Good, Untouched, VerdictKept, RemovalToldOf, BudgetKept,
    StragglerKept, Settled, Told, Begun
  <2>1. ASSUME NEW r \in Report, HandlerLookup(c, r) PROVE Good(d)'
    BY <2>1 DEF HandlerLookup, HandlerFree, Report, tableVars, clockVars, netVars,
      countVars, callbackVars
  <2>2. CASE HandlerConfirms(c)
    BY <2>2 DEF HandlerConfirms, clockVars, netVars, countVars
  <2>3. CASE HandlerFails(c)
    BY <2>3 DEF HandlerFails, clockVars, netVars, countVars
  <2>4. CASE HandlerRemove(c)
    BY <2>4 DEF HandlerRemove, clockVars, netVars, countVars, callbackVars
  <2> QED BY <2>1, <2>2, <2>3, <2>4 DEF HandlerStep
<1> QED BY <1>2, <1>3

\* A step of checkPendingCommands; the tick touches every command.
LEMMA LoopKeepsGood ==
  ASSUME IndInv, LoopStep, NEW d \in Command
  PROVE  Good(d)'
<1>1. TypeOK /\ Good(d)
  BY IndInvIsGood
<1>2. CASE Tick
  BY <1>1, <1>2 DEF Tick, TypeOK, Good, Untouched, VerdictKept, RemovalToldOf, BudgetKept,
    StragglerKept, Settled, Told, Begun, tableVars, netVars, countVars, callbackVars
<1>3. ASSUME NEW c \in Command, c # d,
             \/ LoopLookup(c) \/ LoopAnswered(c) \/ LoopWaits(c) \/ LoopRetry(c)
             \/ LoopGivesUp(c) \/ LoopPublish(c) \/ LoopAcked(c) \/ LoopFailed(c)
             \/ LoopRemove(c)
      PROVE  Good(d)'
  <2>1. Spares(d)
    BY <1>1, <1>3 DEF Spares, TypeOK, LoopLookup, LoopAnswered, LoopWaits, LoopRetry,
      LoopGivesUp, LoopPublish, LoopAcked, LoopFailed, LoopRemove, Handover, MarkSent,
      clockVars, netVars, countVars, callbackVars, tableVars
  <2> QED BY <1>1, <2>1, SparedStaysGood
<1>4. CASE \/ LoopLookup(d) \/ LoopAnswered(d) \/ LoopWaits(d) \/ LoopRetry(d)
           \/ LoopGivesUp(d) \/ LoopPublish(d) \/ LoopAcked(d) \/ LoopFailed(d)
           \/ LoopRemove(d)
  <2> USE <1>1 DEF TypeOK, Good, Untouched, VerdictKept, RemovalToldOf, BudgetKept,
    StragglerKept, Settled, Told, Begun
  <2>1. CASE LoopLookup(d)
    BY <2>1 DEF LoopLookup, tableVars, clockVars, netVars, countVars, callbackVars
  <2>9. CASE LoopWaits(d)
    BY <2>9 DEF LoopWaits, tableVars, clockVars, netVars, countVars, callbackVars
  <2>2. CASE LoopAnswered(d)
    BY <2>2 DEF LoopAnswered, tableVars, clockVars, netVars, countVars, callbackVars
  <2>3. CASE LoopRetry(d)
    BY <2>3 DEF LoopRetry, clockVars, netVars, countVars, callbackVars
  <2>4. CASE LoopGivesUp(d)
    BY <2>4 DEF LoopGivesUp, clockVars, netVars, countVars
  <2>5. CASE LoopPublish(d)
    BY <2>5 DEF LoopPublish, Handover, Waiting, tableVars, clockVars, callbackVars
  <2>6. CASE LoopAcked(d)
    BY <2>6 DEF LoopAcked, MarkSent, netVars, countVars, callbackVars
  <2>7. CASE LoopFailed(d)
    BY <2>7 DEF LoopFailed, tableVars, clockVars, netVars, countVars, callbackVars
  <2>8. CASE LoopRemove(d)
    BY <2>8 DEF LoopRemove, clockVars, netVars, countVars, callbackVars
  <2> QED BY <1>4, <2>1, <2>2, <2>3, <2>4, <2>5, <2>6, <2>7, <2>8, <2>9
<1> QED BY <1>2, <1>3, <1>4 DEF LoopStep

\* A delivery, a device or the clock.
LEMMA EnvironmentKeepsGood ==
  ASSUME IndInv, Environment, NEW d \in Command
  PROVE  Good(d)'
<1>1. TypeOK /\ Good(d)
  BY IndInvIsGood
<1>2. PICK c \in Command : DeviceActs(c) \/ DeviceRefuses(c) \/ Expire(c)
  BY DEF Environment
<1>3. CASE d # c
  <2>1. Spares(d)
    BY <1>1, <1>2, <1>3 DEF Spares, TypeOK, DeviceActs, DeviceRefuses, Expire, Deliver,
      netVars, countVars, callbackVars, tableVars, clockVars
  <2> QED BY <1>1, <2>1, SparedStaysGood
<1>4. CASE d = c
  <2> USE <1>1, <1>4 DEF TypeOK, Good, Untouched, VerdictKept, RemovalToldOf, BudgetKept,
    StragglerKept, Settled, Told, Begun
  <2>1. CASE DeviceActs(c)
    BY <2>1 DEF DeviceActs, Deliver, tableVars, clockVars, countVars, callbackVars
  <2>2. CASE DeviceRefuses(c)
    BY <2>2 DEF DeviceRefuses, Deliver, tableVars, clockVars, countVars, callbackVars
  <2>3. CASE Expire(c)
    BY <2>3 DEF Expire, tableVars, netVars, countVars, callbackVars
  <2> QED BY <1>2, <2>1, <2>2, <2>3
<1> QED BY <1>3, <1>4

\* IndInv holds throughout: no interleaving of the senders, the retry loop and
\* the status handler breaks it, however many commands and retries there are.
THEOREM Inductive == SafetySpec => []IndInv
<1>1. Init => IndInv
  <2> SUFFICES ASSUME Init PROVE TypeOK /\ \A c \in Command : Good(c)
    BY IndInvIsGood
  <2>1. TypeOK
    BY InitTyped
  <2>2. \A c \in Command : Good(c)
    BY DEF Init, Good, Untouched, VerdictKept, RemovalToldOf, BudgetKept, StragglerKept,
    Settled, Told, Begun
  <2> QED BY <2>1, <2>2
<1>2. IndInv /\ [Next]_vars => IndInv'
  <2> SUFFICES ASSUME IndInv, [Next]_vars PROVE (TypeOK /\ \A c \in Command : Good(c))'
    BY DEF IndInv, Good, ConfirmIsBacked, OneVerdict, NothingForgotten
  <2>1. TypeOK'
    BY StepTyped DEF IndInv
  <2>2. ASSUME NEW d \in Command PROVE Good(d)'
    <3>1. CASE UNCHANGED vars
      <4>1. Good(d) /\ Spares(d)
        BY <3>1, IndInvIsGood DEF Spares, vars, tableVars, clockVars, netVars,
          countVars, callbackVars
      <4> QED BY <4>1, SparedStaysGood
    <3>2. CASE Next
      BY <3>2, CallerKeepsGood, HandlerKeepsGood, LoopKeepsGood, EnvironmentKeepsGood
      DEF Next
    <3> QED BY <3>1, <3>2
  <2> QED BY <2>1, <2>2
<1> QED BY <1>1, <1>2, PTL DEF SafetySpec

\* handleDeviceStatus runs OnConfirm or OnError at most once for a command,
\* however often its status is reported and whatever the retry loop does.
THEOREM VerdictIsUnique == SafetySpec => []OneVerdict
  BY Inductive, PTL DEF IndInv

\* OnConfirm is never run for a command no device carried out.
THEOREM ConfirmIsTrue == SafetySpec => []ConfirmIsBacked
  BY Inductive, PTL DEF IndInv

\* A command leaves pendingCommands only when a callback has run for it or
\* its sender is about to get an error: none is silently forgotten.
THEOREM NoneForgotten == SafetySpec => []NothingForgotten
  BY Inductive, PTL DEF IndInv

\* One command is published at most 1 + maxRetries times and times out at
\* most once, after the last of them.
THEOREM BudgetIsKept == SafetySpec => []RetryBudget
<1>1. IndInv => RetryBudget
  BY DEF IndInv, TypeOK, BudgetKept, RetryBudget, Begun
<1> QED BY <1>1, Inductive, PTL

\* The loop publishes a command whose end was already told at most once.
THEOREM OneLatePublish == SafetySpec => []OneStraggler
<1>1. IndInv => OneStraggler
  BY DEF IndInv, TypeOK, StragglerKept, OneStraggler
<1> QED BY <1>1, Inductive, PTL

\* Payload is never written by the sender and the retry loop at once.
THEOREM PayloadIsSafe == SafetySpec => []PayloadWritesAlternate
<1>1. IndInv => PayloadWritesAlternate
  BY DEF IndInv, BudgetKept, PayloadWritesAlternate, Begun
<1> QED BY <1>1, Inductive, PTL

-------------------------------------------------------------------------------
(* The command layer implements CommandOutcome *)

\* What a step may not touch if it is to be a stutter of CommandOutcome.
OutcomeVars == <<callerAt, pending, executed, confirms, errors, timeouts>>

\* A command that is taken out of the table, after somebody was told.
LEMMA RemovalCloses ==
  ASSUME IndInv, NEW c \in Command, pending' = pending \ {c},
         callerAt[c] # "idle", Told(c) \/ callerAt[c] \in {"cleanup", "err"},
         UNCHANGED <<executed, confirms, errors, timeouts>>,
         callerAt' = callerAt \/ (/\ callerAt[c] = "cleanup"
                                  /\ callerAt' = [callerAt EXCEPT ![c] = "err"])
  PROVE  [Outcome!Next]_(Outcome!vars)
<1>1. TypeOK
  BY DEF IndInv
<1>2. CASE c \in pending
  <2>1. PhaseOf[c] = "open"
    BY <1>2 DEF PhaseOf
  <2>2. PhaseOf' = [PhaseOf EXCEPT ![c] = "closed"]
    BY <1>1, <1>2 DEF PhaseOf, TypeOK
  <2>3. VerdictOf[c] # "none" \/ timeouts[c] > 0 \/ c \in SendErrors
    BY <1>1 DEF VerdictOf, SendErrors, TypeOK, Told
  <2>4. UNCHANGED <<executed, timeouts, VerdictOf, SendErrors>>
    BY <1>1 DEF VerdictOf, SendErrors, TypeOK
  <2>5. Outcome!Close(c)
    BY <2>1, <2>2, <2>3, <2>4 DEF Outcome!Close
  <2> QED BY <2>5 DEF Outcome!Next
<1>3. CASE c \notin pending
  BY <1>1, <1>3 DEF Outcome!vars, TypeOK, PhaseOf, VerdictOf, SendErrors
<1> QED BY <1>2, <1>3

\* Every step of the command layer is a step of CommandOutcome or a stutter.
LEMMA StepRefines == IndInv /\ [Next]_vars => [Outcome!Next]_(Outcome!vars)
<1> SUFFICES ASSUME IndInv, [Next]_vars PROVE [Outcome!Next]_(Outcome!vars)
  OBVIOUS
<1>0. TypeOK /\ \A c \in Command : Good(c)
  BY IndInvIsGood
<1> USE <1>0
<1>1. ASSUME UNCHANGED OutcomeVars PROVE [Outcome!Next]_(Outcome!vars)
  BY <1>1 DEF OutcomeVars, Outcome!vars, PhaseOf, VerdictOf, SendErrors
<1>2. ASSUME NEW c \in Command, Register(c) PROVE [Outcome!Next]_(Outcome!vars)
  <2>1. Outcome!Issue(c)
    BY <1>2 DEF Register, Outcome!Issue, Good, Untouched, TypeOK, netVars, callbackVars,
      PhaseOf, VerdictOf, SendErrors
  <2> QED BY <2>1 DEF Outcome!Next
<1>3. ASSUME NEW c \in Command, CallerStep(c) PROVE [Outcome!Next]_(Outcome!vars)
  <2>1. CASE CallerPublish(c) \/ CallerAcked(c)
    BY <2>1 DEF CallerPublish, CallerAcked, MarkSent, Waiting, Outcome!vars, TypeOK,
      tableVars, netVars, callbackVars, PhaseOf, VerdictOf, SendErrors
  <2>2. CASE CallerFailed(c)
    <3>1. Outcome!SendFails(c)
      BY <2>2 DEF CallerFailed, Outcome!SendFails, TypeOK, tableVars, netVars,
        callbackVars, PhaseOf, VerdictOf, SendErrors
    <3> QED BY <3>1 DEF Outcome!Next
  <2>3. CASE CallerCleanup(c)
    BY <2>3, RemovalCloses DEF CallerCleanup, netVars, callbackVars
  <2> QED BY <1>3, <2>1, <2>2, <2>3 DEF CallerStep
<1>4. ASSUME NEW c \in Command, HandlerStep(c) PROVE [Outcome!Next]_(Outcome!vars)
  <2>1. CASE HandlerConfirms(c)
    <3>1. /\ confirms[c] = 0 /\ errors[c] = 0 /\ callerAt[c] # "idle"
          /\ executed[c] > 0
      BY <2>1 DEF HandlerConfirms, Good, Untouched, VerdictKept, TypeOK
    <3>2. VerdictOf[c] = "none" /\ PhaseOf[c] # "new"
      BY <3>1 DEF VerdictOf, PhaseOf
    <3>3. VerdictOf' = [VerdictOf EXCEPT ![c] = "confirmed"]
      <4>1. errors' = errors /\ confirms'[c] > 0
        BY <2>1, <3>1 DEF HandlerConfirms, TypeOK
      <4>2. ASSUME NEW d \in Command, d # c PROVE confirms'[d] = confirms[d]
        BY <2>1, <4>2 DEF HandlerConfirms, TypeOK
      <4>3. ASSUME NEW d \in Command
            PROVE  VerdictOf'[d] = IF d = c THEN "confirmed" ELSE VerdictOf[d]
        BY <4>1, <4>2, <3>1 DEF VerdictOf
      <4> QED BY <4>3 DEF VerdictOf
    <3>4. UNCHANGED <<executed, timeouts, PhaseOf, SendErrors>>
      BY <2>1 DEF HandlerConfirms, PhaseOf, SendErrors, netVars
    <3>5. Outcome!DeviceSays(c, "confirmed")
      BY <3>1, <3>2, <3>3, <3>4 DEF Outcome!DeviceSays
    <3> QED BY <3>5 DEF Outcome!Next, Outcome!Verdict
  <2>2. CASE HandlerFails(c)
    <3>1. /\ confirms[c] = 0 /\ errors[c] = 0 /\ callerAt[c] # "idle"
          /\ c \in Command
      BY <2>2 DEF HandlerFails, Good, Untouched, VerdictKept, TypeOK
    <3>2. VerdictOf[c] = "none" /\ PhaseOf[c] # "new"
      BY <3>1 DEF VerdictOf, PhaseOf
    <3>3. VerdictOf' = [VerdictOf EXCEPT ![c] = "failed"]
      <4>1. confirms' = confirms /\ errors'[c] > 0
        BY <2>2, <3>1 DEF HandlerFails, TypeOK
      <4>2. ASSUME NEW d \in Command, d # c PROVE errors'[d] = errors[d]
        BY <2>2, <4>2 DEF HandlerFails, TypeOK
      <4>3. ASSUME NEW d \in Command
            PROVE  VerdictOf'[d] = IF d = c THEN "failed" ELSE VerdictOf[d]
        BY <4>1, <4>2, <3>1 DEF VerdictOf
      <4> QED BY <4>3 DEF VerdictOf
    <3>4. UNCHANGED <<executed, timeouts, PhaseOf, SendErrors>>
      BY <2>2 DEF HandlerFails, PhaseOf, SendErrors, netVars
    <3>5. Outcome!DeviceSays(c, "failed")
      BY <3>1, <3>2, <3>3, <3>4 DEF Outcome!DeviceSays
    <3> QED BY <3>5 DEF Outcome!Next, Outcome!Verdict
  <2>3. CASE HandlerRemove(c)
    <3>1. Told(c) /\ callerAt[c] # "idle"
      BY <2>3 DEF HandlerRemove, Good, Untouched, RemovalToldOf
    <3> QED BY <2>3, <3>1, RemovalCloses DEF HandlerRemove, netVars, callbackVars
  <2> QED BY <1>4, <2>1, <2>2, <2>3 DEF HandlerStep
<1>5. ASSUME NEW c \in Command, LoopGivesUp(c) PROVE [Outcome!Next]_(Outcome!vars)
  <2>1. Outcome!GiveUp(c)
    BY <1>5 DEF LoopGivesUp, Outcome!GiveUp, Good, Untouched, BudgetKept, TypeOK, netVars,
      PhaseOf, VerdictOf, SendErrors
  <2> QED BY <2>1 DEF Outcome!Next
<1>6. ASSUME NEW c \in Command, LoopRemove(c) PROVE [Outcome!Next]_(Outcome!vars)
  <2>1. Told(c) /\ callerAt[c] # "idle"
    BY <1>6 DEF LoopRemove, Good, Untouched, RemovalToldOf
  <2> QED BY <1>6, <2>1, RemovalCloses DEF LoopRemove, netVars, callbackVars
<1>7. ASSUME NEW c \in Command, DeviceActs(c) PROVE [Outcome!Next]_(Outcome!vars)
  <2>1. CASE executed[c] = 0
    <3>1. Outcome!Act(c)
      BY <1>7, <2>1 DEF DeviceActs, Deliver, Outcome!Act, Good, Untouched, TypeOK,
        tableVars, callbackVars, PhaseOf, VerdictOf, SendErrors
    <3> QED BY <3>1 DEF Outcome!Next
  <2>2. CASE executed[c] # 0
    BY <1>7, <2>2 DEF DeviceActs, Outcome!vars, TypeOK, tableVars, callbackVars,
      PhaseOf, VerdictOf, SendErrors
  <2> QED BY <2>1, <2>2
<1>8. ASSUME \/ Tick
             \/ \E c \in Command :
                  \/ LoopLookup(c) \/ LoopAnswered(c) \/ LoopWaits(c) \/ LoopRetry(c)
                  \/ LoopPublish(c) \/ LoopAcked(c) \/ LoopFailed(c)
                  \/ DeviceRefuses(c) \/ Expire(c)
             \/ \E c \in Command, r \in Report : HandlerLookup(c, r)
             \/ UNCHANGED vars
      PROVE  UNCHANGED OutcomeVars
  BY <1>8 DEF Tick, LoopLookup, LoopAnswered, LoopWaits, LoopRetry, LoopPublish,
    LoopAcked, MarkSent, LoopFailed, DeviceRefuses, Expire, HandlerLookup, OutcomeVars,
    vars, tableVars, netVars, callbackVars
<1> QED
  BY <1>1, <1>2, <1>3, <1>4, <1>5, <1>6, <1>7, <1>8 DEF Next, LoopStep, Environment

\* The retry loop, the table and the network of client.go keep the promise
\* of CommandOutcome: one verdict, only from a device that acted, and no
\* command closed before somebody has been told.
THEOREM Implements == SafetySpec => ImplementsOutcome
<1>1. Init => Outcome!Init
  BY DEF Init, Outcome!Init, PhaseOf, VerdictOf, SendErrors
<1>2. IndInv /\ [Next]_vars => [Outcome!Next]_(Outcome!vars)
  BY StepRefines
<1>3. SafetySpec => Outcome!Spec
  BY <1>1, <1>2, Inductive, PTL DEF SafetySpec, Outcome!Spec
<1> QED BY <1>3, PTL DEF ImplementsOutcome
===============================================================================
