----------------------------- MODULE MqttCommands -----------------------------
(***************************************************************************)
(* The reliable command layer of backend/mqtt/client.go: the table of      *)
(* pending commands, the goroutine of each SendReliableCommand call, the   *)
(* retry loop that scans the table every five seconds, and the handler of  *)
(* devices/+/status.  The table has a lock; the fields of a command have   *)
(* none, so the three kinds of process interleave at every statement that  *)
(* reads or writes them.                                                   *)
(*                                                                         *)
(* External parts, modelled from their use: the paho client (Publish and   *)
(* its token; handlers run one at a time), the broker and the devices.  A  *)
(* publish may reach the broker or not, its token may be acknowledged or   *)
(* fail, and a status report once sent may be delivered late, repeatedly   *)
(* or never.                                                               *)
(***************************************************************************)
EXTENDS Naturals, FiniteSets

CONSTANTS
  Command,            \* command ids; uuid.New() never repeats one
  MaxRetries,         \* MQTTService.maxRetries
  BrokerDuplicates,   \* may the broker deliver one publish twice (QoS 1)?
  ExecCap             \* bound: executions of a command are counted up to this

ASSUME MaxRetriesAssumption == MaxRetries \in Nat
ASSUME BrokerAssumption == BrokerDuplicates \in BOOLEAN
ASSUME ExecCapAssumption == ExecCap \in Nat \ {0}

VARIABLES
  pending,     \* keys of pendingCommands
  status,      \* PendingCommand.Status
  retries,     \* PendingCommand.Retries
  overdue,     \* commands with time.Since(LastSentAt) > Timeout
  due,         \* those that were overdue at the retry loop's `now`
  callerAt,    \* where the goroutine in SendReliableCommand(c) is
  loopAt,      \* where the retry loop is with its copy of c
  handlerAt,   \* where handleDeviceStatus is with c
  copies,      \* publishes of c the broker still has to deliver
  reports,     \* status messages the devices have sent about c
  executed,    \* times a device carried c out, counted up to ExecCap
  published,   \* Publish calls made for c
  late,        \* Publish calls of the retry loop for a settled c
  confirms, errors, timeouts   \* callbacks started for c

tableVars    == <<pending, status, retries>>
clockVars    == <<overdue, due>>
netVars      == <<copies, reports, executed>>
countVars    == <<published, late>>
callbackVars == <<confirms, errors, timeouts>>
vars == <<tableVars, clockVars, callerAt, loopAt, handlerAt, netVars,
          countVars, callbackVars>>

Status == {"pending", "sent", "confirmed", "failed", "timeout"}

\* Inside sendCommand: before Publish, or waiting for the token of a publish
\* that did ("waitSent") or did not ("waitLost") reach the broker.
Sending == {"publish", "waitSent", "waitLost"}

CallerLoc  == Sending \cup {"idle", "cleanup", "ok", "err"}
LoopLoc    == Sending \cup {"out", "todo", "found", "remove"}
LoopBusy   == Sending \cup {"found", "remove"}
HandlerLoc == {"idle", "foundOk", "foundFail", "remove"}
Report     == {"confirmed", "failed"}

LoopFree    == \A c \in Command : loopAt[c] \notin LoopBusy
HandlerFree == \A c \in Command : handlerAt[c] = "idle"

\* Somebody has been told how c ended.
Told(c) == confirms[c] + errors[c] + timeouts[c] > 0

Settled(c) == Told(c) \/ callerAt[c] = "err"

Init ==
  /\ pending = {} /\ overdue = {} /\ due = {}
  /\ status = [c \in Command |-> "pending"]
  /\ callerAt = [c \in Command |-> "idle"]
  /\ loopAt = [c \in Command |-> "out"]
  /\ handlerAt = [c \in Command |-> "idle"]
  /\ reports = [c \in Command |-> {}]
  /\ retries = [c \in Command |-> 0] /\ copies = [c \in Command |-> 0]
  /\ executed = [c \in Command |-> 0]
  /\ published = [c \in Command |-> 0] /\ late = [c \in Command |-> 0]
  /\ confirms = [c \in Command |-> 0]
  /\ errors = [c \in Command |-> 0]
  /\ timeouts = [c \in Command |-> 0]

\* Mutant of Forget: the command is never deleted.
ForgetNothing(c) == UNCHANGED pending

\* removePendingCommand
Forget(c) == pending' = pending \ {c}

-------------------------------------------------------------------------------
(* SendReliableCommand *)

\* The command enters the table before anything is sent.
Register(c) ==
  /\ callerAt[c] = "idle"
  /\ pending' = pending \cup {c}
  /\ callerAt' = [callerAt EXCEPT ![c] = "publish"]
  /\ UNCHANGED <<status, retries, clockVars, loopAt, handlerAt, netVars,
                 countVars, callbackVars>>

\* m.client.Publish: the message reaches the broker, or never does.
Handover(c, reached) ==
  copies' = [copies EXCEPT ![c] = IF reached THEN @ + 1 ELSE @]

Waiting(reached) == IF reached THEN "waitSent" ELSE "waitLost"

CallerPublish(c) ==
  /\ callerAt[c] = "publish"
  /\ \E reached \in BOOLEAN :
       /\ Handover(c, reached)
       /\ callerAt' = [callerAt EXCEPT ![c] = Waiting(reached)]
  /\ published' = [published EXCEPT ![c] = @ + 1]
  /\ UNCHANGED <<tableVars, clockVars, loopAt, handlerAt, reports, executed,
                 late, callbackVars>>

\* The token was acknowledged: LastSentAt = now, Status = sent, whatever the
\* status has become in the meantime.
MarkSent(c) ==
  /\ overdue' = overdue \ {c}
  /\ due' = due \ {c}
  /\ status' = [status EXCEPT ![c] = "sent"]

CallerAcked(c) ==
  /\ callerAt[c] = "waitSent"
  /\ MarkSent(c)
  /\ callerAt' = [callerAt EXCEPT ![c] = "ok"]
  /\ UNCHANGED <<pending, retries, loopAt, handlerAt, netVars, countVars,
                 callbackVars>>

\* token.Error(): the broker may have the message all the same.
CallerFailed(c) ==
  /\ callerAt[c] \in {"waitSent", "waitLost"}
  /\ callerAt' = [callerAt EXCEPT ![c] = "cleanup"]
  /\ UNCHANGED <<tableVars, clockVars, loopAt, handlerAt, netVars, countVars,
                 callbackVars>>

CallerCleanup(c) ==
  /\ callerAt[c] = "cleanup"
  /\ Forget(c)
  /\ callerAt' = [callerAt EXCEPT ![c] = "err"]
  /\ UNCHANGED <<status, retries, clockVars, loopAt, handlerAt, netVars,
                 countVars, callbackVars>>

CallerStep(c) ==
  CallerPublish(c) \/ CallerAcked(c) \/ CallerFailed(c) \/ CallerCleanup(c)

-------------------------------------------------------------------------------
(* checkPendingCommands *)

\* The tick copies the table under the read lock and takes `now`.
Tick ==
  /\ \A c \in Command : loopAt[c] = "out"
  /\ pending # {}
  /\ loopAt' = [c \in Command |-> IF c \in pending THEN "todo" ELSE "out"]
  /\ due' = overdue \cap pending
  /\ UNCHANGED <<tableVars, overdue, callerAt, handlerAt, netVars, countVars,
                 callbackVars>>

\* Is the command still in the table?  The lock is released right after.
LoopLookup(c) ==
  /\ LoopFree
  /\ loopAt[c] = "todo"
  /\ loopAt' = [loopAt EXCEPT ![c] = IF c \in pending THEN "found" ELSE "out"]
  /\ UNCHANGED <<tableVars, clockVars, callerAt, handlerAt, netVars, countVars,
                 callbackVars>>

\* Answered, and still in the table.
LoopAnswered(c) ==
  /\ loopAt[c] = "found"
  /\ status[c] \in {"confirmed", "failed"}
  /\ loopAt' = [loopAt EXCEPT ![c] = "remove"]
  /\ UNCHANGED <<tableVars, clockVars, callerAt, handlerAt, netVars, countVars,
                 callbackVars>>

\* Mutant of IsDue: the time of the last publish is not looked at.
AlwaysDue(c) == c \in Command

\* now.Sub(LastSentAt) > Timeout
IsDue(c) == c \in due

\* Mutant of RetriesLeft: one retry too many.
OneMoreRetry(c) == retries[c] <= MaxRetries

RetriesLeft(c) == retries[c] < MaxRetries

\* Mutant of TimesOut: the callback is forgotten.
TimesOutSilently(c) == UNCHANGED timeouts

\* OnTimeout
TimesOut(c) == timeouts' = [timeouts EXCEPT ![c] = @ + 1]

LoopWaits(c) ==
  /\ loopAt[c] = "found"
  /\ status[c] \notin {"confirmed", "failed"}
  /\ ~IsDue(c)
  /\ loopAt' = [loopAt EXCEPT ![c] = "out"]
  /\ UNCHANGED <<tableVars, clockVars, callerAt, handlerAt, netVars, countVars,
                 callbackVars>>

LoopRetry(c) ==
  /\ loopAt[c] = "found"
  /\ status[c] \notin {"confirmed", "failed"}
  /\ IsDue(c) /\ RetriesLeft(c)
  /\ retries' = [retries EXCEPT ![c] = @ + 1]
  /\ loopAt' = [loopAt EXCEPT ![c] = "publish"]
  /\ UNCHANGED <<pending, status, clockVars, callerAt, handlerAt, netVars,
                 countVars, callbackVars>>

LoopGivesUp(c) ==
  /\ loopAt[c] = "found"
  /\ status[c] \notin {"confirmed", "failed"}
  /\ IsDue(c) /\ ~RetriesLeft(c)
  /\ status' = [status EXCEPT ![c] = "timeout"]
  /\ TimesOut(c)
  /\ loopAt' = [loopAt EXCEPT ![c] = "remove"]
  /\ UNCHANGED <<pending, retries, clockVars, callerAt, handlerAt, netVars,
                 countVars, confirms, errors>>

LoopPublish(c) ==
  /\ loopAt[c] = "publish"
  /\ \E reached \in BOOLEAN :
       /\ Handover(c, reached)
       /\ loopAt' = [loopAt EXCEPT ![c] = Waiting(reached)]
  /\ published' = [published EXCEPT ![c] = @ + 1]
  /\ late' = [late EXCEPT ![c] = IF Settled(c) THEN @ + 1 ELSE @]
  /\ UNCHANGED <<tableVars, clockVars, callerAt, handlerAt, reports, executed,
                 callbackVars>>

LoopAcked(c) ==
  /\ loopAt[c] = "waitSent"
  /\ MarkSent(c)
  /\ loopAt' = [loopAt EXCEPT ![c] = "out"]
  /\ UNCHANGED <<pending, retries, callerAt, handlerAt, netVars, countVars,
                 callbackVars>>

\* A failed retry is only logged; LastSentAt keeps its old value, so the
\* next tick finds the command overdue again.
LoopFailed(c) ==
  /\ loopAt[c] \in {"waitSent", "waitLost"}
  /\ loopAt' = [loopAt EXCEPT ![c] = "out"]
  /\ UNCHANGED <<tableVars, clockVars, callerAt, handlerAt, netVars, countVars,
                 callbackVars>>

LoopRemove(c) ==
  /\ loopAt[c] = "remove"
  /\ Forget(c)
  /\ loopAt' = [loopAt EXCEPT ![c] = "out"]
  /\ UNCHANGED <<status, retries, clockVars, callerAt, handlerAt, netVars,
                 countVars, callbackVars>>

LoopStep ==
  \/ Tick
  \/ \E c \in Command :
       \/ LoopLookup(c) \/ LoopAnswered(c) \/ LoopWaits(c) \/ LoopRetry(c)
       \/ LoopGivesUp(c) \/ LoopPublish(c) \/ LoopAcked(c) \/ LoopFailed(c)
       \/ LoopRemove(c)

-------------------------------------------------------------------------------
(* handleDeviceStatus *)

\* Mutant of Verdict: every report counts as a confirmation.
VerdictAlwaysOk(r) == IF r \in Report THEN "foundOk" ELSE "idle"

\* resp.Success
Verdict(r) == IF r = "confirmed" THEN "foundOk" ELSE "foundFail"

\* Mutant of Answerable: the table is not asked.
AnyIsAnswerable(c) == c \in Command

Answerable(c) == c \in pending

\* A report about a command that has left the table is ignored.
HandlerLookup(c, r) ==
  /\ HandlerFree
  /\ r \in reports[c]
  /\ Answerable(c)
  /\ handlerAt' = [handlerAt EXCEPT ![c] = Verdict(r)]
  /\ UNCHANGED <<tableVars, clockVars, callerAt, loopAt, netVars, countVars,
                 callbackVars>>

HandlerConfirms(c) ==
  /\ handlerAt[c] = "foundOk"
  /\ status' = [status EXCEPT ![c] = "confirmed"]
  /\ confirms' = [confirms EXCEPT ![c] = @ + 1]
  /\ handlerAt' = [handlerAt EXCEPT ![c] = "remove"]
  /\ UNCHANGED <<pending, retries, clockVars, callerAt, loopAt, netVars,
                 countVars, errors, timeouts>>

HandlerFails(c) ==
  /\ handlerAt[c] = "foundFail"
  /\ status' = [status EXCEPT ![c] = "failed"]
  /\ errors' = [errors EXCEPT ![c] = @ + 1]
  /\ handlerAt' = [handlerAt EXCEPT ![c] = "remove"]
  /\ UNCHANGED <<pending, retries, clockVars, callerAt, loopAt, netVars,
                 countVars, confirms, timeouts>>

HandlerRemove(c) ==
  /\ handlerAt[c] = "remove"
  /\ Forget(c)
  /\ handlerAt' = [handlerAt EXCEPT ![c] = "idle"]
  /\ UNCHANGED <<status, retries, clockVars, callerAt, loopAt, netVars,
                 countVars, callbackVars>>

HandlerStep(c) == HandlerConfirms(c) \/ HandlerFails(c) \/ HandlerRemove(c)

-------------------------------------------------------------------------------
(* Broker, devices and clock *)

\* A broker that duplicates may deliver a publish any number of times.
Deliver(c) ==
  /\ copies[c] > 0
  /\ copies' = [copies EXCEPT ![c] = IF BrokerDuplicates THEN @ ELSE @ - 1]

DeviceActs(c) ==
  /\ Deliver(c)
  /\ executed' = [executed EXCEPT ![c] = IF @ < ExecCap THEN @ + 1 ELSE @]
  /\ reports' = [reports EXCEPT ![c] = @ \cup {"confirmed"}]
  /\ UNCHANGED <<tableVars, clockVars, callerAt, loopAt, handlerAt, countVars,
                 callbackVars>>

DeviceRefuses(c) ==
  /\ Deliver(c)
  /\ reports' = [reports EXCEPT ![c] = @ \cup {"failed"}]
  /\ UNCHANGED <<tableVars, clockVars, callerAt, loopAt, handlerAt, executed,
                 countVars, callbackVars>>

\* More than Timeout has passed since LastSentAt.  Timeout is 30 s: no
\* goroutine is assumed to stall that long between two statements that do
\* not block, so it never passes between entering the table and the first
\* Publish call, or inside the status handler.
Expire(c) ==
  /\ c \in pending \ overdue
  /\ callerAt[c] # "publish"
  /\ handlerAt[c] = "idle"
  /\ overdue' = overdue \cup {c}
  /\ UNCHANGED <<tableVars, due, callerAt, loopAt, handlerAt, netVars,
                 countVars, callbackVars>>

Environment ==
  \E c \in Command : DeviceActs(c) \/ DeviceRefuses(c) \/ Expire(c)

Next ==
  \/ \E c \in Command : Register(c) \/ CallerStep(c) \/ HandlerStep(c)
  \/ \E c \in Command, r \in Report : HandlerLookup(c, r)
  \/ LoopStep
  \/ Environment

(***************************************************************************)
(* The goroutines are scheduled, the ticker ticks, time passes, and a      *)
(* publish token ends one way or the other: a broker that went away comes  *)
(* back, or its tokens fail.  Nothing is assumed of the devices.           *)
(***************************************************************************)
Fairness ==
  /\ WF_vars(LoopStep)
  /\ \A c \in Command :
       WF_vars(CallerStep(c)) /\ WF_vars(HandlerStep(c)) /\ WF_vars(Expire(c))

SafetySpec == Init /\ [][Next]_vars
Spec == SafetySpec /\ Fairness

-------------------------------------------------------------------------------
(* Properties *)

\* Type invariant.
TypeOK ==
  /\ pending \in SUBSET Command
  /\ overdue \in SUBSET Command /\ due \in SUBSET Command
  /\ status \in [Command -> Status]
  /\ retries \in [Command -> 0 .. MaxRetries]
  /\ callerAt \in [Command -> CallerLoc]
  /\ loopAt \in [Command -> LoopLoc]
  /\ handlerAt \in [Command -> HandlerLoc]
  /\ reports \in [Command -> SUBSET Report]
  /\ executed \in [Command -> 0 .. ExecCap]
  /\ copies \in [Command -> Nat]
  /\ published \in [Command -> Nat] /\ late \in [Command -> Nat]
  /\ confirms \in [Command -> Nat]
  /\ errors \in [Command -> Nat]
  /\ timeouts \in [Command -> Nat]

\* OnConfirm runs only for a command some device carried out, although the
\* report travels through the broker, the table and an unlocked record and
\* the retry loop may rewrite or remove the record on the way.
ConfirmIsBacked == \A c \in Command : confirms[c] > 0 => executed[c] > 0

\* However often status reports are repeated and whatever they say, a command
\* gets one verdict: OnConfirm or OnError runs, at most once altogether.
OneVerdict == \A c \in Command : confirms[c] + errors[c] <= 1

\* The sending call and the retry loop together publish a command at most
\* 1 + MaxRetries times, and OnTimeout runs at most once, after every retry
\* was spent.
RetryBudget ==
  \A c \in Command :
    /\ published[c] <= 1 + MaxRetries
    /\ timeouts[c] <= 1
    /\ timeouts[c] = 1 => published[c] = 1 + MaxRetries

\* The retry loop works on a copy of the table, so it may publish a command
\* whose end has already been reported; it does so at most once.
OneStraggler == \A c \in Command : late[c] <= 1

\* A command that left the table left an answer behind: a callback ran or
\* the sending call is returning an error.
NothingForgotten ==
  \A c \in Command \ pending :
    callerAt[c] # "idle" => Told(c) \/ callerAt[c] = "err"

\* sendCommand writes Payload without a lock.  The sending goroutine and the
\* retry loop never do so at the same time (a concurrent map write would end
\* the process): the loop leaves a command alone until it is overdue.
PayloadWritesAlternate ==
  \A c \in Command : ~(callerAt[c] = "publish" /\ loopAt[c] = "publish")

\* Inductive strengthening, in five parts; module MqttCommandsProofs.
Begun(c) == callerAt[c] \notin {"idle", "publish"}

\* Nothing is known of a command nobody has issued.
Untouched(c) ==
  /\ c \notin pending \cup overdue /\ loopAt[c] = "out" /\ handlerAt[c] = "idle"
  /\ copies[c] = 0 /\ reports[c] = {} /\ ~Told(c)
  /\ executed[c] = 0

\* A verdict comes from the device, and a command whose verdict is in is out
\* of the table as soon as the handler is done with it.
VerdictKept(c) ==
  /\ "confirmed" \in reports[c] \/ handlerAt[c] = "foundOk" => executed[c] > 0
  /\ handlerAt[c] \in {"foundOk", "foundFail"} => confirms[c] + errors[c] = 0
  /\ c \in pending /\ handlerAt[c] # "remove" => confirms[c] + errors[c] = 0

\* Whoever is about to take a command out of the table has told somebody.
RemovalToldOf(c) ==
  \/ Told(c)
  \/ /\ status[c] \notin {"confirmed", "failed"}
     /\ loopAt[c] # "remove" /\ handlerAt[c] # "remove"

\* Publishes are paid for by the call and by the retries, and a command that
\* timed out has left the loop for good.
BudgetKept(c) ==
  /\ published[c] + (IF loopAt[c] = "publish" THEN 1 ELSE 0)
       = retries[c] + (IF Begun(c) THEN 1 ELSE 0)
  /\ c \in due => c \in overdue
  /\ c \in overdue \/ loopAt[c] = "publish" => Begun(c)
  /\ timeouts[c] > 0 =>
       /\ timeouts[c] = 1 /\ retries[c] = MaxRetries /\ Begun(c)
       /\ loopAt[c] = "remove" \/ (c \notin pending /\ loopAt[c] \in {"out", "todo"})

\* A command is published late once: whoever settled it is about to take it
\* out of the table, or has, and the loop finds no reason to publish it again.
StragglerKept(c) ==
  LET left == status[c] \in {"confirmed", "failed"} \/ c \notin overdue
  IN  /\ callerAt[c] = "err" => c \notin pending
      /\ c \in pending /\ handlerAt[c] = "remove" => left
      /\ late[c] > 0 => /\ late[c] = 1 /\ Settled(c) /\ loopAt[c] # "publish"
                        /\ loopAt[c] = "found" => left

IndInv ==
  /\ TypeOK
  /\ ConfirmIsBacked /\ OneVerdict /\ NothingForgotten
  /\ \A c \in Command :
       /\ callerAt[c] = "idle" => Untouched(c)
       /\ VerdictKept(c) /\ RemovalToldOf(c) /\ BudgetKept(c) /\ StragglerKept(c)

\* Every command that enters the table leaves it, devices or no devices.
TableDrains == \A c \in Command : c \in pending ~> c \notin pending

\* The promise to the callers, module CommandOutcome, and what its variables
\* are here.
PhaseOf ==
  [c \in Command |-> IF callerAt[c] = "idle" THEN "new"
                    ELSE IF c \in pending THEN "open" ELSE "closed"]
VerdictOf ==
  [c \in Command |-> IF confirms[c] > 0 THEN "confirmed"
                    ELSE IF errors[c] > 0 THEN "failed" ELSE "none"]
SendErrors == {c \in Command : callerAt[c] \in {"cleanup", "err"}}

Outcome ==
  INSTANCE CommandOutcome WITH
    phase <- PhaseOf, verdict <- VerdictOf, sendError <- SendErrors,
    acted <- {c \in Command : executed[c] > 0},
    gaveUp <- {c \in Command : timeouts[c] > 0}

\* The command layer implements that promise.
ImplementsOutcome == Outcome!Spec
===============================================================================
