----------------------------- MODULE RpcClient -----------------------------
(***************************************************************************)
(* internal/daemon/client.go: one Client, the goroutines that call its     *)
(* methods, its readLoop, and the two directions of its Unix socket.       *)
(*                                                                         *)
(* A request or a response is its ID, a notification the number of the     *)
(* status change it reports.  The service at the other end (handleConnec-  *)
(* tion and broadcastStatusChange of daemon.go) answers the requests of a  *)
(* connection one after the other and may push notifications in between.   *)
(***************************************************************************)
EXTENDS Integers, Sequences, SequencesExt

CONSTANTS
  Caller,    \* goroutines that use the client
  Capacity,  \* capacity of the notifications channel (100 in the code)
  MaxCalls,  \* bound: calls made on this client
  MaxPushes  \* bound: notifications pushed to this client

ASSUME BoundsAssumption ==
  Capacity \in Nat \ {0} /\ MaxCalls \in Nat /\ MaxPushes \in Nat

VARIABLES
  nextID,         \* Client.nextID
  call,           \* per caller, where call stands, its ID and what it returned
  responses,      \* the keys of Client.responses
  respCh,         \* per ID, the response in its channel, 0 when empty
  notifications,  \* Client.notifications
  reader,         \* where readLoop stands
  conn,           \* this end of the socket
  toDaemon,       \* requests under way
  toClient,       \* messages under way
  served,         \* the request the service is working on, 0 if none
  pushed,         \* number of the latest notification pushed
  seen,           \* number of the latest notification consumed
  peer            \* the service's end of the socket

vars == <<nextID, call, responses, respCh, notifications, reader, conn,
          toDaemon, toClient, served, pushed, seen, peer>>

socket == <<conn, toDaemon, toClient, served, pushed, peer>>

ID == 1 .. MaxCalls

Response(id) == [type |-> "response", num |-> id]

Notification(k) == [type |-> "notification", num |-> k]

Message == [type : {"response"}, num : ID]
             \cup [type : {"notification"}, num : 1 .. MaxPushes]

CallPC == {"idle", "begun", "registered", "waiting", "sendFailed", "returned"}

(* Connect *)
Init ==
  /\ nextID = 0
  /\ call = [c \in Caller |-> [pc |-> "idle", id |-> 0, result |-> 0]]
  /\ responses = {}
  /\ respCh = [i \in ID |-> 0]
  /\ notifications = <<>>
  /\ reader = "reading"
  /\ conn = "open" /\ peer = "open"
  /\ toDaemon = <<>> /\ toClient = <<>>
  /\ served = 0 /\ pushed = 0 /\ seen = 0

-----------------------------------------------------------------------------
(* call *)

Begin(c) ==
  /\ call[c].pc \in {"idle", "returned"}
  /\ nextID < MaxCalls
  /\ nextID' = nextID + 1
  /\ call' = [call EXCEPT ![c] = [pc |-> "begun", id |-> nextID + 1, result |-> 0]]
  /\ UNCHANGED <<responses, respCh, notifications, reader, seen, socket>>

RegisterResponse(c) ==
  /\ call[c].pc = "begun"
  /\ responses' = responses \cup {call[c].id}
  /\ call' = [call EXCEPT ![c].pc = "registered"]
  /\ UNCHANGED <<nextID, respCh, notifications, reader, seen, socket>>

(* Mutant: the request leaves before its response channel is registered. *)
SendUnregistered(c) ==
  /\ call[c].pc = "begun"
  /\ conn = "open" /\ peer = "open"
  /\ toDaemon' = Append(toDaemon, call[c].id)
  /\ call' = [call EXCEPT ![c].pc = "waiting"]
  /\ UNCHANGED <<nextID, responses, respCh, notifications, reader, seen, conn,
                 toClient, served, pushed, peer>>

Send(c) ==
  /\ call[c].pc = "registered"
  /\ conn = "open" /\ peer = "open"
  /\ toDaemon' = Append(toDaemon, call[c].id)
  /\ call' = [call EXCEPT ![c].pc = "waiting"]
  /\ UNCHANGED <<nextID, responses, respCh, notifications, reader, seen, conn,
                 toClient, served, pushed, peer>>

SendFails(c) ==
  /\ call[c].pc = "registered"
  /\ conn = "closed" \/ peer = "closed"
  /\ call' = [call EXCEPT ![c].pc = "sendFailed"]
  /\ UNCHANGED <<nextID, responses, respCh, notifications, reader, seen, socket>>

(* The error path takes the channel back, in a critical section of its own. *)
Unregister(c) ==
  /\ call[c].pc = "sendFailed"
  /\ responses' = responses \ {call[c].id}
  /\ call' = [call EXCEPT ![c] = [pc |-> "returned", id |-> call[c].id, result |-> -1]]
  /\ UNCHANGED <<nextID, respCh, notifications, reader, seen, socket>>

(* The select of call: either case may be taken when both are ready.  A    *)
(* result of -1 stands for an error.                                       *)
Receive(c) ==
  /\ call[c].pc = "waiting"
  /\ respCh[call[c].id] # 0
  /\ respCh' = [respCh EXCEPT ![call[c].id] = 0]
  /\ call' = [call EXCEPT ![c] = [pc |-> "returned", id |-> call[c].id,
                                   result |-> respCh[call[c].id]]]
  /\ UNCHANGED <<nextID, responses, notifications, reader, seen, socket>>

SeeClosed(c) ==
  /\ call[c].pc = "waiting"
  /\ reader = "stopped"
  /\ call' = [call EXCEPT ![c] = [pc |-> "returned", id |-> call[c].id, result |-> -1]]
  /\ UNCHANGED <<nextID, responses, respCh, notifications, reader, seen, socket>>

Close ==
  /\ conn = "open"
  /\ conn' = "closed"
  /\ UNCHANGED <<nextID, call, responses, respCh, notifications, reader, seen,
                 toDaemon, toClient, served, pushed, peer>>

-----------------------------------------------------------------------------
(* readLoop *)

Reads(type) ==
  /\ reader = "reading"
  /\ toClient # <<>>
  /\ Head(toClient).type = type
  /\ toClient' = Tail(toClient)

(* Mutant: the response goes to a call that waits, whichever it is. *)
RouteToAny ==
  /\ Reads("response")
  /\ IF responses = {} THEN UNCHANGED <<responses, respCh>>
     ELSE \E id \in responses :
            /\ respCh' = [respCh EXCEPT ![id] = Head(toClient).num]
            /\ responses' = responses \ {id}
  /\ UNCHANGED <<nextID, call, notifications, reader, seen, conn, toDaemon,
                 served, pushed, peer>>

(* Mutant: the channel stays registered after its response came. *)
RouteKeepingChannel ==
  /\ Reads("response")
  /\ LET id == Head(toClient).num
     IN \/ /\ id \in responses
           /\ respCh[id] = 0
           /\ respCh' = [respCh EXCEPT ![id] = id]
        \/ /\ id \notin responses
           /\ UNCHANGED respCh
  /\ UNCHANGED <<nextID, call, responses, notifications, reader, seen, conn, toDaemon,
                 served, pushed, peer>>

(* One critical section of responsesMu. *)
RouteResponse ==
  /\ Reads("response")
  /\ LET id == Head(toClient).num
     IN \/ /\ id \in responses
           /\ respCh[id] = 0
           /\ respCh' = [respCh EXCEPT ![id] = id]
           /\ responses' = responses \ {id}
        \/ /\ id \notin responses
           /\ UNCHANGED <<respCh, responses>>
  /\ UNCHANGED <<nextID, call, notifications, reader, seen, conn, toDaemon,
                 served, pushed, peer>>

(* Mutant: readLoop waits until the channel has room. *)
QueueBlocking ==
  /\ Reads("notification")
  /\ Len(notifications) < Capacity
  /\ notifications' = Append(notifications, Head(toClient).num)
  /\ UNCHANGED <<nextID, call, responses, respCh, reader, seen, conn, toDaemon,
                 served, pushed, peer>>

(* Mutant: each notification is sent by a goroutine of its own, and a      *)
(* later one may be first.                                                 *)
QueueConcurrently ==
  /\ Reads("notification")
  /\ \/ /\ Len(notifications) < Capacity
        /\ notifications' \in {Append(notifications, Head(toClient).num),
                              <<Head(toClient).num>> \o notifications}
     \/ /\ Len(notifications) = Capacity
        /\ UNCHANGED notifications
  /\ UNCHANGED <<nextID, call, responses, respCh, reader, seen, conn, toDaemon,
                 served, pushed, peer>>

(* The notification is dropped when the channel is full. *)
QueueNotification ==
  /\ Reads("notification")
  /\ \/ /\ Len(notifications) < Capacity
        /\ notifications' = Append(notifications, Head(toClient).num)
     \/ /\ Len(notifications) = Capacity
        /\ UNCHANGED notifications
  /\ UNCHANGED <<nextID, call, responses, respCh, reader, seen, conn, toDaemon,
                 served, pushed, peer>>

(* Mutant: a failed read is tried again. *)
ReadAgain ==
  /\ reader = "reading"
  /\ conn = "closed" \/ (peer = "closed" /\ toClient = <<>>)
  /\ UNCHANGED vars

(* Decode fails; its buffer may have held more messages, so a closed       *)
(* connection can still deliver some.                                      *)
ReadFails ==
  /\ reader = "reading"
  /\ conn = "closed" \/ (peer = "closed" /\ toClient = <<>>)
  /\ reader' = "closing"
  /\ UNCHANGED <<nextID, call, responses, respCh, notifications, seen, socket>>

(* The deferred calls, last one first: the notifications channel is closed *)
(* before closedCh.                                                        *)
ReaderStops ==
  /\ reader \in {"closing", "notificationsClosed"}
  /\ reader' = IF reader = "closing" THEN "notificationsClosed" ELSE "stopped"
  /\ UNCHANGED <<nextID, call, responses, respCh, notifications, seen, socket>>

(* A consumer of Notifications(): the TUI or the connect command. *)
Consume ==
  /\ notifications # <<>>
  /\ seen' = Head(notifications)
  /\ notifications' = Tail(notifications)
  /\ UNCHANGED <<nextID, call, responses, respCh, reader, socket>>

-----------------------------------------------------------------------------
(* The service at the other end *)

TakeRequest ==
  /\ peer = "open"
  /\ served = 0
  /\ toDaemon # <<>>
  /\ served' = Head(toDaemon)
  /\ toDaemon' = Tail(toDaemon)
  /\ UNCHANGED <<nextID, call, responses, respCh, notifications, reader, seen,
                 conn, toClient, pushed, peer>>

Answer ==
  /\ peer = "open"
  /\ served # 0
  /\ toClient' = Append(toClient, Response(served))
  /\ served' = 0
  /\ UNCHANGED <<nextID, call, responses, respCh, notifications, reader, seen,
                 conn, toDaemon, pushed, peer>>

Push ==
  /\ peer = "open"
  /\ pushed < MaxPushes
  /\ pushed' = pushed + 1
  /\ toClient' = Append(toClient, Notification(pushed + 1))
  /\ UNCHANGED <<nextID, call, responses, respCh, notifications, reader, seen,
                 conn, toDaemon, served, peer>>

(* The service exits, or its handler ends because this client closed. *)
PeerCloses ==
  /\ peer = "open"
  /\ peer' = "closed"
  /\ UNCHANGED <<nextID, call, responses, respCh, notifications, reader, seen,
                 conn, toDaemon, toClient, served, pushed>>

-----------------------------------------------------------------------------
CallStep(c) ==
  \/ RegisterResponse(c) \/ Send(c) \/ SendFails(c) \/ Unregister(c)
  \/ Receive(c) \/ SeeClosed(c)

ReadStep == RouteResponse \/ QueueNotification \/ ReadFails \/ ReaderStops

Next ==
  \/ \E c \in Caller : Begin(c) \/ CallStep(c)
  \/ Close
  \/ ReadStep
  \/ Consume
  \/ TakeRequest \/ Answer \/ Push \/ PeerCloses

Spec == Init /\ [][Next]_vars

(* The goroutines of the client and of the service run when they can.      *)
(* Nobody has to make calls or to consume notifications.                   *)
FairSpec ==
  /\ Spec
  /\ \A c \in Caller : WF_vars(CallStep(c))
  /\ WF_vars(ReadStep)
  /\ WF_vars(TakeRequest) /\ WF_vars(Answer)

-----------------------------------------------------------------------------
(* Properties *)

(* Types; the notifications channel never holds more than its capacity. *)
TypeOK ==
  /\ nextID \in 0 .. MaxCalls
  /\ call \in [Caller -> [pc : CallPC, id : 0 .. MaxCalls, result : -1 .. MaxCalls]]
  /\ responses \subseteq ID
  /\ respCh \in [ID -> 0 .. MaxCalls]
  /\ notifications \in Seq(1 .. MaxPushes) /\ Len(notifications) <= Capacity
  /\ reader \in {"reading", "closing", "notificationsClosed", "stopped"}
  /\ conn \in {"open", "closed"} /\ peer \in {"open", "closed"}
  /\ toDaemon \in Seq(ID)
  /\ toClient \in Seq(Message)
  /\ served \in 0 .. MaxCalls /\ pushed \in 0 .. MaxPushes
  /\ seen \in 0 .. MaxPushes

(* A call that returns a response returns the one to its own request,      *)
(* however the requests of several goroutines and the pushes interleave on *)
(* the socket (client.go:79-84).                                           *)
OwnResponse ==
  \A c \in Caller : call[c].pc = "returned" => call[c].result \in {-1, call[c].id}

(* The request of a waiting call is on its way, being served, or its       *)
(* response is on its way to a registered channel or already in it: since  *)
(* the channel is registered before the request is sent (client.go:131-    *)
(* 139), readLoop cannot meet a response it has to throw away.             *)
NoResponseLost ==
  \A c \in Caller : call[c].pc = "waiting" =>
    LET id == call[c].id
    IN \/ respCh[id] # 0
       \/ id \in responses /\ \/ Contains(toDaemon, id)
                              \/ served = id
                              \/ Contains(toClient, Response(id))

(* readLoop holds responsesMu while it sends a response into its channel   *)
(* of capacity one (client.go:80-84).  It never waits there, and keeps no  *)
(* caller from the mutex: the channel of a registered ID is empty, since   *)
(* an ID is registered once and taken out with its first response.         *)
ReaderNeverBlocks == \A id \in responses : respCh[id] = 0

(* Whatever a full channel drops, the consumer gets the notifications in   *)
(* the order in which the service pushed them and none of them twice       *)
(* (client.go:86-95).  The pushes themselves may be out of order: see      *)
(* UpdatesSettle of TunnelManager.                                         *)
NotificationsInOrder == [][Consume => seen' > seen]_vars

(* Every call comes to an end, with a response or with an error: readLoop  *)
(* never blocks on a response channel while it holds responsesMu           *)
(* (client.go:81), nor on notifications that nobody consumes (91-95).      *)
EveryCallReturns ==
  \A c \in Caller :
    call[c].pc \notin {"idle", "returned"} ~> call[c].pc = "returned"

(* Whoever waits on Notifications() or on closedCh learns that the         *)
(* connection has ended, whichever side ended it.                          *)
LossIsSeen == (conn = "closed" \/ peer = "closed") ~> reader = "stopped"
=============================================================================
