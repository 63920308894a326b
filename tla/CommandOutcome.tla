---------------------------- MODULE CommandOutcome ----------------------------
(***************************************************************************)
(* What the reliable command layer of backend/mqtt/client.go promises the  *)
(* modules that call it, without the table, the retry loop or the network. *)
(*                                                                         *)
(* A command is issued once, stays open while the service still answers    *)
(* for it, and is closed only after somebody has been told how it ended.   *)
(* Three arbiters may speak: the device (confirmed or failed), the retry   *)
(* loop (gave up) and the sending call (its error result).  Each speaks at *)
(* most once per command and the device never says two things.  Arbiters   *)
(* are independent: two of them may speak about the same command.          *)
(***************************************************************************)
CONSTANT Command

VARIABLES
  phase,      \* "new", "open" or "closed"
  acted,      \* commands some device has carried out
  verdict,    \* what the device was heard to say: "none" until then
  gaveUp,     \* commands reported as timed out
  sendError   \* commands whose send was reported as failed

vars == <<phase, acted, verdict, gaveUp, sendError>>

Phase   == {"new", "open", "closed"}
Verdict == {"confirmed", "failed"}

Init ==
  /\ phase = [c \in Command |-> "new"]
  /\ acted = {}
  /\ verdict = [c \in Command |-> "none"]
  /\ gaveUp = {}
  /\ sendError = {}

Issue(c) ==
  /\ phase[c] = "new"
  /\ phase' = [phase EXCEPT ![c] = "open"]
  /\ UNCHANGED <<acted, verdict, gaveUp, sendError>>

Act(c) ==
  /\ phase[c] # "new"
  /\ acted' = acted \cup {c}
  /\ UNCHANGED <<phase, verdict, gaveUp, sendError>>

\* Only a device that acted is heard to confirm.
DeviceSays(c, v) ==
  /\ phase[c] # "new"
  /\ verdict[c] = "none"
  /\ v = "confirmed" => c \in acted
  /\ verdict' = [verdict EXCEPT ![c] = v]
  /\ UNCHANGED <<phase, acted, gaveUp, sendError>>

GiveUp(c) ==
  /\ phase[c] # "new"
  /\ c \notin gaveUp
  /\ gaveUp' = gaveUp \cup {c}
  /\ UNCHANGED <<phase, acted, verdict, sendError>>

SendFails(c) ==
  /\ phase[c] # "new"
  /\ c \notin sendError
  /\ sendError' = sendError \cup {c}
  /\ UNCHANGED <<phase, acted, verdict, gaveUp>>

\* Nobody is left without an answer.
Close(c) ==
  /\ phase[c] = "open"
  /\ verdict[c] # "none" \/ c \in gaveUp \cup sendError
  /\ phase' = [phase EXCEPT ![c] = "closed"]
  /\ UNCHANGED <<acted, verdict, gaveUp, sendError>>

Next ==
  \E c \in Command :
    \/ Issue(c) \/ Act(c) \/ GiveUp(c) \/ SendFails(c) \/ Close(c)
    \/ \E v \in Verdict : DeviceSays(c, v)

Spec == Init /\ [][Next]_vars
===============================================================================
