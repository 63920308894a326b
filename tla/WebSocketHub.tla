------------------------------ MODULE WebSocketHub ------------------------------
(***************************************************************************)
(* backend/services/websocket.go: goroutines that broadcast block on a     *)
(* channel of 100 messages, one goroutine takes them out and writes each   *)
(* to every client while it holds the read lock, one goroutine per client  *)
(* waits for it to go away, and the push loop sends a snapshot a second.   *)
(* WriteMessage has no deadline: a client that stops reading holds the     *)
(* lock, and with it everybody, for as long as it likes.                   *)
(***************************************************************************)
EXTENDS Integers, Sequences, FiniteSets

CONSTANTS
  Client,
  Message,       \* messages of BroadcastAlarm and its like
  Snapshot,      \* what the push loop sends; not a Message
  BroadcastCap,  \* of the channel (100 in the code)
  MaxSnapshots   \* bound

ASSUME HubNumbers == BroadcastCap \in Nat \ {0} /\ MaxSnapshots \in Nat /\ Snapshot \notin Message

VARIABLES
  clients,     \* registered connections
  gone,        \* connections the peer has left
  stalled,     \* connections whose peer has stopped reading
  broadcast,   \* the channel
  open,        \* the channel is not closed
  senders,     \* goroutines blocked in a send, by their message
  pusher,      \* startDataPush: "wait" or "send"
  pushed,      \* snapshots sent so far
  writing,     \* run: the message it is writing, as a set, and the
               \* connections it has still to write it to
  seen,        \* messages of Message written to a connection
  panicked     \* a goroutine sent on the closed channel: the program has ended

hubVars == <<clients, gone, stalled, broadcast, open, senders, pusher, pushed, writing, seen,
             panicked>>

HubInit ==
  /\ clients = {} /\ gone = {} /\ stalled = {}
  /\ broadcast = <<>> /\ open = TRUE /\ senders = {}
  /\ pusher = "wait" /\ pushed = 0
  /\ writing = [message |-> {}, left |-> {}]
  /\ seen = [c \in Client |-> {}]
  /\ panicked = FALSE

\* broadcastMessage holds the read lock from its first write to its last.
Locked == writing.message # {}

-------------------------------------------------------------------------------
(* HandleConnection, handleClient *)

HandleConnection(c) ==
  /\ ~Locked /\ c \notin clients \cup gone
  /\ clients' = clients \cup {c}
  /\ UNCHANGED <<gone, stalled, broadcast, open, senders, pusher, pushed, writing, seen, panicked>>

Leave(c) ==
  /\ c \in clients \ gone
  /\ gone' = gone \cup {c}
  /\ stalled' = stalled \ {c}
  /\ UNCHANGED <<clients, broadcast, open, senders, pusher, pushed, writing, seen, panicked>>

Stall(c) ==
  /\ c \in clients \ (gone \cup stalled)
  /\ stalled' = stalled \cup {c}
  /\ UNCHANGED <<clients, gone, broadcast, open, senders, pusher, pushed, writing, seen, panicked>>

\* ReadMessage returned an error.
RemoveClient(c) ==
  /\ ~Locked /\ c \in clients \cap gone
  /\ clients' = clients \ {c}
  /\ UNCHANGED <<gone, stalled, broadcast, open, senders, pusher, pushed, writing, seen, panicked>>

-------------------------------------------------------------------------------
(* BroadcastAlarm and its like; startDataPush *)

Broadcast(m) ==
  /\ senders' = senders \cup {m}
  /\ UNCHANGED <<clients, gone, stalled, broadcast, open, pusher, pushed, writing, seen, panicked>>

\* Mutant of HasRoom: a channel of one place less.
NeverRoom(channel) == Len(channel) < BroadcastCap - 1

HasRoom(channel) == Len(channel) < BroadcastCap

Send(m) ==
  /\ m \in senders /\ open /\ HasRoom(broadcast)
  /\ broadcast' = Append(broadcast, m)
  /\ senders' = senders \ {m}
  /\ UNCHANGED <<clients, gone, stalled, open, pusher, pushed, writing, seen, panicked>>

\* Every section of the snapshot is a message; one stands for them. Close
\* stops the ticker, but a tick may be in its channel by then.
Tick ==
  /\ pusher = "wait" /\ pushed < MaxSnapshots
  /\ pusher' = "send"
  /\ UNCHANGED <<clients, gone, stalled, broadcast, open, senders, pushed, writing, seen, panicked>>

Push ==
  /\ pusher = "send" /\ open /\ HasRoom(broadcast)
  /\ broadcast' = Append(broadcast, Snapshot)
  /\ pusher' = "wait" /\ pushed' = pushed + 1
  /\ UNCHANGED <<clients, gone, stalled, open, senders, writing, seen, panicked>>

SendPanics ==
  /\ ~open /\ (senders # {} \/ pusher = "send")
  /\ panicked' = TRUE
  /\ UNCHANGED <<clients, gone, stalled, broadcast, open, senders, pusher, pushed, writing, seen>>

-------------------------------------------------------------------------------
(* run, broadcastMessage *)

Take ==
  /\ ~Locked /\ broadcast # <<>>
  /\ broadcast' = Tail(broadcast)
  /\ writing' = IF clients = {} THEN writing
                ELSE [message |-> {Head(broadcast)}, left |-> clients]
  /\ UNCHANGED <<clients, gone, stalled, open, senders, pusher, pushed, seen, panicked>>

Rest(c) ==
  IF writing.left = {c} THEN [message |-> {}, left |-> {}]
  ELSE [writing EXCEPT !.left = @ \ {c}]

WriteMessage(c) ==
  /\ c \in writing.left /\ c \notin gone \cup stalled
  /\ seen' = [seen EXCEPT ![c] = @ \cup (writing.message \ {Snapshot})]
  /\ writing' = Rest(c)
  /\ UNCHANGED <<clients, gone, stalled, broadcast, open, senders, pusher, pushed, panicked>>

\* The client is closed and deleted, under the read lock.
WriteFails(c) ==
  /\ c \in writing.left /\ c \in gone
  /\ clients' = clients \ {c}
  /\ writing' = Rest(c)
  /\ UNCHANGED <<gone, stalled, broadcast, open, senders, pusher, pushed, seen, panicked>>

Run == Take \/ \E c \in Client : WriteMessage(c) \/ WriteFails(c)

\* Close waits for the lock, closes the connections and then the channel.
CloseHub ==
  /\ ~Locked /\ open
  /\ open' = FALSE
  /\ clients' = {} /\ gone' = gone \cup clients
  /\ UNCHANGED <<stalled, broadcast, senders, pusher, pushed, writing, seen, panicked>>

HubStep ==
  \/ \E c \in Client : HandleConnection(c) \/ Leave(c) \/ Stall(c) \/ RemoveClient(c)
  \/ \E m \in Message : Send(m)
  \/ Tick \/ Push \/ SendPanics \/ Run

-------------------------------------------------------------------------------
(* Properties *)

HubTypeOK ==
  /\ clients \subseteq Client /\ gone \subseteq Client /\ stalled \subseteq Client
  /\ broadcast \in Seq(Message \cup {Snapshot}) /\ Len(broadcast) <= BroadcastCap
  /\ open \in BOOLEAN /\ senders \subseteq Message
  /\ pusher \in {"wait", "send"} /\ pushed \in 0 .. MaxSnapshots
  /\ writing.left \subseteq Client
  /\ seen \in [Client -> SUBSET Message]
  /\ panicked \in BOOLEAN

(* A broadcast that somebody waits to send, behind a full channel and a slow  *)
(* writer, is written to every client that was there and stays, unless a      *)
(* client stalls, the hub is closed or the program ends.                      *)
BroadcastArrives(m, c) ==
  (m \in senders /\ c \in clients) ~>
    \/ m \in seen[c] \/ c \in gone \/ stalled # {} \/ ~open \/ panicked
===============================================================================
