--------------------------- MODULE RpcClientProofs ---------------------------
(***************************************************************************)
(* Proofs about RpcClient, for any number of goroutines, calls and pushed  *)
(* notifications and any capacity of the channel.                          *)
(***************************************************************************)
EXTENDS RpcClient, TLAPS

(* The types of what the routing of responses rests on. *)
RoutingTyped ==
  /\ nextID \in 0 .. MaxCalls
  /\ call \in [Caller -> [pc : CallPC, id : 0 .. MaxCalls, result : -1 .. MaxCalls]]
  /\ responses \subseteq ID
  /\ respCh \in [ID -> 0 .. MaxCalls]
  /\ toDaemon \in Seq(ID)
  /\ toClient \in Seq(Message)
  /\ served \in 0 .. MaxCalls /\ pushed \in 0 .. MaxPushes

(* A request that is under way, being served or answered. *)
InFlight(id) ==
  Contains(toDaemon, id) \/ served = id \/ Contains(toClient, Response(id))

(* IDs are handed out once, *)
IDsDistinct ==
  \A c, d \in Caller : call[c].id = call[d].id /\ call[c].id # 0 => c = d

IDsHandedOut ==
  /\ \A c \in Caller : /\ call[c].id <= nextID
                       /\ call[c].pc # "idle" => call[c].id # 0
  /\ \A id \in ID : InFlight(id) => id <= nextID

(* no response can come before its request has left, and until then its    *)
(* channel stays registered.                                               *)
UnsentRegistered ==
  \A c \in Caller, id \in ID : call[c].id = id =>
    /\ call[c].pc \in {"begun", "registered"} => ~InFlight(id)
    /\ call[c].pc = "registered" => id \in responses

(* NoResponseLost in these terms. *)
WaitingHeld ==
  \A c \in Caller, id \in ID :
    call[c].pc = "waiting" /\ call[c].id = id =>
      respCh[id] # 0 \/ (id \in responses /\ InFlight(id))

(* A channel holds the response of its own ID. *)
ChannelsOwn == \A id \in ID : respCh[id] \in {0, id}

CInv ==
  /\ RoutingTyped /\ IDsDistinct /\ IDsHandedOut /\ UnsentRegistered
  /\ WaitingHeld /\ ChannelsOwn /\ OwnResponse

-----------------------------------------------------------------------------
(* Queues *)

LEMMA ContainsAppended ==
  ASSUME NEW S, NEW s \in Seq(S), NEW e \in S, NEW x
  PROVE Contains(Append(s, e), x) <=> Contains(s, x) \/ x = e
BY DEF Contains

LEMMA HeadAndTail ==
  ASSUME NEW S, NEW s \in Seq(S), s # <<>>
  PROVE Head(s) \in S /\ Tail(s) \in Seq(S)
OBVIOUS

LEMMA ContainsTail ==
  ASSUME NEW S, NEW s \in Seq(S), s # <<>>, NEW x
  PROVE Contains(s, x) <=> x = Head(s) \/ Contains(Tail(s), x)
<1>1. /\ Len(s) \in Nat /\ Len(s) > 0 /\ Len(Tail(s)) = Len(s) - 1
      /\ \A k \in 1 .. Len(s) - 1 : Tail(s)[k] = s[k + 1]
  OBVIOUS
<1>2. ASSUME NEW k \in 1 .. Len(s), s[k] = x, k # 1 PROVE Contains(Tail(s), x)
  <2>1. k - 1 \in 1 .. Len(Tail(s)) /\ Tail(s)[k - 1] = x
    BY <1>1, <1>2
  <2> QED
    BY <2>1 DEF Contains
<1>3. ASSUME NEW k \in 1 .. Len(Tail(s)), Tail(s)[k] = x PROVE Contains(s, x)
  <2>1. k + 1 \in 1 .. Len(s) /\ s[k + 1] = x
    BY <1>1, <1>3
  <2> QED
    BY <2>1 DEF Contains
<1>4. Head(s) = s[1] /\ 1 \in 1 .. Len(s)
  BY <1>1
<1> QED
  BY <1>2, <1>3, <1>4 DEF Contains

-----------------------------------------------------------------------------
LEMMA ClientInit == Init => CInv
<1> SUFFICES ASSUME Init PROVE CInv
  OBVIOUS
<1>1. RoutingTyped
  BY BoundsAssumption DEF Init, RoutingTyped, CallPC, ID
<1>2. \A id \in ID : ~InFlight(id)
  BY BoundsAssumption DEF Init, InFlight, Contains, ID
<1>3. IDsDistinct /\ IDsHandedOut /\ UnsentRegistered /\ WaitingHeld
  BY <1>2 DEF Init, IDsDistinct, IDsHandedOut, UnsentRegistered, WaitingHeld
<1>4. ChannelsOwn /\ OwnResponse
  BY DEF Init, ChannelsOwn, OwnResponse
<1> QED
  BY <1>1, <1>3, <1>4 DEF CInv

(* The steps that leave requests and responses where they are. *)
SameFlight == \A id \in ID : InFlight(id)' <=> InFlight(id)

LEMMA FlightUnchanged ==
  UNCHANGED <<toDaemon, served, toClient>> => SameFlight
BY DEF SameFlight, InFlight

LEMMA FlightMoves ==
  ASSUME RoutingTyped, TakeRequest \/ Answer \/ Push \/ QueueNotification
  PROVE SameFlight /\ RoutingTyped'
<1> USE BoundsAssumption DEF RoutingTyped, ID
<1>1. CASE TakeRequest
  <2>1. /\ toDaemon # <<>> /\ served = 0 /\ UNCHANGED toClient
        /\ served' = Head(toDaemon) /\ toDaemon' = Tail(toDaemon)
    BY <1>1 DEF TakeRequest
  <2>2. \A id \in ID : Contains(toDaemon, id) <=> id = Head(toDaemon) \/ Contains(Tail(toDaemon), id)
    BY <2>1, ContainsTail
  <2>3. SameFlight
    BY <2>1, <2>2 DEF SameFlight, InFlight
  <2> QED
    BY <1>1, <2>3, HeadAndTail DEF TakeRequest
<1>2. CASE Answer
  <2>1. /\ served # 0 /\ served' = 0 /\ UNCHANGED toDaemon
        /\ toClient' = Append(toClient, Response(served))
    BY <1>2 DEF Answer
  <2>2. Response(served) \in Message
    BY <2>1 DEF Response, Message
  <2>3. \A id \in ID : Contains(Append(toClient, Response(served)), Response(id))
                        <=> Contains(toClient, Response(id)) \/ Response(id) = Response(served)
    BY <2>2, ContainsAppended
  <2>4. \A id \in ID : Response(id) = Response(served) <=> id = served
    BY DEF Response
  <2>5. SameFlight
    BY <2>1, <2>3, <2>4 DEF SameFlight, InFlight
  <2> QED
    BY <1>2, <2>1, <2>2, <2>5 DEF Answer
<1>3. CASE Push
  <2>1. UNCHANGED <<toDaemon, served>> /\ toClient' = Append(toClient, Notification(pushed + 1))
    BY <1>3 DEF Push
  <2>2. Notification(pushed + 1) \in Message
    BY <1>3 DEF Push, Notification, Message
  <2>3. \A id \in ID : Contains(Append(toClient, Notification(pushed + 1)), Response(id))
                        <=> Contains(toClient, Response(id)) \/ Response(id) = Notification(pushed + 1)
    BY <2>2, ContainsAppended
  <2>4. \A id \in ID : Response(id) # Notification(pushed + 1)
    BY DEF Response, Notification
  <2>5. SameFlight
    BY <2>1, <2>3, <2>4 DEF SameFlight, InFlight
  <2> QED
    BY <1>3, <2>1, <2>2, <2>5 DEF Push
<1>4. CASE QueueNotification
  <2>1. /\ UNCHANGED <<toDaemon, served>> /\ toClient # <<>> /\ toClient' = Tail(toClient)
        /\ Head(toClient).type = "notification"
    BY <1>4 DEF QueueNotification, Reads
  <2>2. \A id \in ID : Contains(toClient, Response(id))
                        <=> Response(id) = Head(toClient) \/ Contains(Tail(toClient), Response(id))
    BY <2>1, ContainsTail
  <2>3. \A id \in ID : Response(id) # Head(toClient)
    BY <2>1 DEF Response
  <2>4. SameFlight
    BY <2>1, <2>2, <2>3 DEF SameFlight, InFlight
  <2> QED
    BY <1>4, <2>1, <2>4, HeadAndTail DEF QueueNotification, Reads
<1> HIDE DEF RoutingTyped, ID
<1> QED
  BY <1>1, <1>2, <1>3, <1>4

(* The steps of the socket, of its ends and of the consumer. *)
LEMMA TransportStep ==
  ASSUME CInv,
         \/ TakeRequest \/ Answer \/ Push \/ QueueNotification
         \/ Close \/ ReadFails \/ ReaderStops \/ Consume \/ PeerCloses
         \/ UNCHANGED vars
  PROVE CInv'
<1>1. SameFlight /\ RoutingTyped'
  <2>1. CASE TakeRequest \/ Answer \/ Push \/ QueueNotification
    BY <2>1, FlightMoves DEF CInv
  <2>2. CASE Close \/ ReadFails \/ ReaderStops \/ Consume \/ PeerCloses \/ UNCHANGED vars
    <3>1. UNCHANGED <<nextID, call, responses, respCh, toDaemon, toClient, served, pushed>>
      BY <2>2 DEF Close, ReadFails, ReaderStops, Consume, PeerCloses, vars, socket
    <3> QED
      BY <3>1, FlightUnchanged DEF CInv, RoutingTyped
  <2> QED
    BY <2>1, <2>2
<1>2. UNCHANGED <<nextID, call, responses, respCh>>
  BY DEF TakeRequest, Answer, Push, QueueNotification, Close, ReadFails, ReaderStops,
         Consume, PeerCloses, vars, socket
<1> QED
  BY <1>1, <1>2
     DEF SameFlight, CInv, IDsDistinct, IDsHandedOut, UnsentRegistered, WaitingHeld,
         ChannelsOwn, OwnResponse

-----------------------------------------------------------------------------
(* Types of what a call that ends leaves behind. *)
CallRecord == [pc : CallPC, id : 0 .. MaxCalls, result : -1 .. MaxCalls]

LEMMA RecordMoved ==
  ASSUME NEW t \in CallRecord, NEW p \in CallPC
  PROVE LET u == [t EXCEPT !.pc = p]
        IN u \in CallRecord /\ u.pc = p /\ u.id = t.id
BY DEF CallRecord

LEMMA RecordReturned ==
  ASSUME NEW k \in 0 .. MaxCalls, NEW r \in -1 .. MaxCalls
  PROVE [pc |-> "returned", id |-> k, result |-> r] \in CallRecord
BY DEF CallRecord, CallPC

LEMMA FunctionChanged ==
  ASSUME NEW S, NEW T, NEW f \in [S -> T], NEW k \in S, NEW v \in T
  PROVE /\ [f EXCEPT ![k] = v] \in [S -> T]
        /\ [f EXCEPT ![k] = v][k] = v
        /\ \A d \in S \ {k} : [f EXCEPT ![k] = v][d] = f[d]
OBVIOUS

(* A step of a call that has its ID and does not send its request. *)
LEMMA CallMoves ==
  ASSUME RoutingTyped, NEW c \in Caller, call[c].id \in ID, CallStep(c)
  PROVE /\ call' \in [Caller -> CallRecord]
        /\ call'[c].id = call[c].id
        /\ \A d \in Caller \ {c} : call'[d] = call[d]
        /\ call[c].pc \in {"begun", "registered", "sendFailed", "waiting"}
        /\ Send(c) => call'[c].pc = "waiting"
        /\ ~Send(c) => call'[c].pc \in {"registered", "sendFailed", "returned"}
        /\ call'[c].pc = "registered" => call[c].pc = "begun" /\ call[c].id \in responses'
        /\ call'[c].pc = "returned" =>
             call'[c].result = -1 \/ (call'[c].result = respCh[call[c].id] /\ call'[c].result # 0)
<1>1. call \in [Caller -> CallRecord] /\ call[c] \in CallRecord /\ call[c].id \in 0 .. MaxCalls
  BY DEF RoutingTyped, CallRecord
<1>2. ASSUME NEW p \in {"registered", "waiting", "sendFailed"}, call' = [call EXCEPT ![c].pc = p]
      PROVE /\ call' \in [Caller -> CallRecord]
            /\ call'[c].pc = p /\ call'[c].id = call[c].id
            /\ \A d \in Caller \ {c} : call'[d] = call[d]
  <2> DEFINE m == [call[c] EXCEPT !.pc = p]
  <2>0. p \in CallPC
    BY DEF CallPC
  <2>1. m \in CallRecord /\ m.pc = p /\ m.id = call[c].id
    BY <1>1, <2>0, RecordMoved
  <2>2. call' = [call EXCEPT ![c] = m]
    BY <1>2
  <2> HIDE DEF m
  <2> QED
    BY <1>1, <2>1, <2>2, FunctionChanged
<1>3. ASSUME NEW r \in -1 .. MaxCalls,
             call' = [call EXCEPT ![c] = [pc |-> "returned", id |-> call[c].id, result |-> r]]
      PROVE /\ call' \in [Caller -> CallRecord]
            /\ call'[c].pc = "returned" /\ call'[c].id = call[c].id /\ call'[c].result = r
            /\ \A d \in Caller \ {c} : call'[d] = call[d]
  <2> DEFINE m == [pc |-> "returned", id |-> call[c].id, result |-> r]
  <2>1. m \in CallRecord /\ m.pc = "returned" /\ m.id = call[c].id /\ m.result = r
    BY <1>1, RecordReturned
  <2>2. call' = [call EXCEPT ![c] = m]
    BY <1>3
  <2> HIDE DEF m
  <2> QED
    BY <1>1, <2>1, <2>2, FunctionChanged
<1>4. CASE RegisterResponse(c)
  BY <1>2, <1>4 DEF RegisterResponse, Send
<1>5. CASE Send(c)
  BY <1>2, <1>5 DEF Send
<1>6. CASE SendFails(c)
  BY <1>2, <1>6 DEF SendFails, Send
<1>7. CASE Unregister(c) \/ SeeClosed(c)
  <2>1. -1 \in -1 .. MaxCalls
    BY BoundsAssumption
  <2> QED
    BY <1>3, <1>7, <2>1 DEF Unregister, SeeClosed, Send
<1>8. CASE Receive(c)
  <2>1. respCh[call[c].id] \in -1 .. MaxCalls
    BY BoundsAssumption DEF RoutingTyped, ID
  <2>2. /\ call[c].pc = "waiting" /\ respCh[call[c].id] # 0
        /\ call' = [call EXCEPT ![c] = [pc |-> "returned", id |-> call[c].id,
                                       result |-> respCh[call[c].id]]]
    BY <1>8 DEF Receive
  <2>3. ~Send(c)
    BY <2>2 DEF Send
  <2>4. /\ call' \in [Caller -> CallRecord]
        /\ call'[c].pc = "returned" /\ call'[c].id = call[c].id
        /\ call'[c].result = respCh[call[c].id]
        /\ \A d \in Caller \ {c} : call'[d] = call[d]
    BY <1>3, <2>1, <2>2, Zenon
  <2> QED
    BY <2>2, <2>3, <2>4
<1> QED
  BY <1>4, <1>5, <1>6, <1>7, <1>8 DEF CallStep

(* A call takes the next ID. *)
LEMMA BeginStep ==
  ASSUME CInv, NEW c \in Caller, Begin(c)
  PROVE CInv'
<1> USE BoundsAssumption DEF ID
<1>1. /\ nextID \in 0 .. MaxCalls /\ nextID + 1 \in ID /\ nextID' = nextID + 1
      /\ UNCHANGED <<responses, respCh, toDaemon, toClient, served, pushed>>
  BY DEF CInv, RoutingTyped, Begin, socket
<1>2. SameFlight
  BY <1>1, FlightUnchanged
<1>3. /\ call'[c] = [pc |-> "begun", id |-> nextID + 1, result |-> 0]
      /\ \A d \in Caller \ {c} : call'[d] = call[d]
  BY DEF CInv, RoutingTyped, Begin
<1>4. ~InFlight(nextID + 1)
  BY <1>1 DEF CInv, IDsHandedOut
<1>5. \A d \in Caller : call[d].id \in 0 .. nextID
  BY DEF CInv, RoutingTyped, IDsHandedOut
<1>6. RoutingTyped'
  BY <1>1 DEF CInv, RoutingTyped, Begin, CallPC
<1>7. IDsDistinct'
  BY <1>1, <1>3, <1>5 DEF CInv, IDsDistinct
<1>8. IDsHandedOut'
  BY <1>1, <1>2, <1>3, <1>5 DEF CInv, IDsHandedOut, SameFlight
<1>9. UnsentRegistered'
  BY <1>1, <1>2, <1>3, <1>4 DEF CInv, UnsentRegistered, SameFlight
<1>10. WaitingHeld' /\ ChannelsOwn' /\ OwnResponse'
  BY <1>1, <1>2, <1>3 DEF CInv, WaitingHeld, ChannelsOwn, OwnResponse, SameFlight
<1> QED
  BY <1>6, <1>7, <1>8, <1>9, <1>10 DEF CInv

(* A step of call after it has its ID. *)
LEMMA CallProceeds ==
  ASSUME CInv, NEW c \in Caller, CallStep(c)
  PROVE CInv'
<1> DEFINE me == call[c].id
<1>0. RoutingTyped
  BY DEF CInv
<1>1. call[c].pc \in {"begun", "registered", "sendFailed", "waiting"}
  BY DEF CallStep, RegisterResponse, Send, SendFails, Unregister, Receive, SeeClosed
<1>2. me \in ID /\ me <= nextID
  BY <1>0, <1>1 DEF CInv, IDsHandedOut, RoutingTyped, ID
<1>3. \A d \in Caller \ {c} : call[d].id # me
  BY <1>2, BoundsAssumption DEF CInv, IDsDistinct, ID
<1>4. /\ call' \in [Caller -> CallRecord]
      /\ call'[c].id = me /\ \A d \in Caller \ {c} : call'[d] = call[d]
      /\ Send(c) => call'[c].pc = "waiting"
      /\ ~Send(c) => call'[c].pc \in {"registered", "sendFailed", "returned"}
      /\ call'[c].pc = "registered" => call[c].pc = "begun" /\ me \in responses'
      /\ call'[c].pc = "returned" =>
           call'[c].result = -1 \/ (call'[c].result = respCh[me] /\ call'[c].result # 0)
  BY <1>0, <1>2, CallMoves
<1>5. call'[c].pc # "idle" /\ nextID' = nextID
  <2>1. nextID' = nextID
    BY DEF CallStep, RegisterResponse, Send, SendFails, Unregister, Receive, SeeClosed
  <2> QED
    BY <1>4, <2>1
<1>6. IDsDistinct'
  BY <1>3, <1>4 DEF CInv, IDsDistinct
<1>7. CASE Send(c)
  <2>1. /\ call[c].pc = "registered"
        /\ UNCHANGED <<responses, respCh, served, toClient, pushed>>
        /\ toDaemon' = Append(toDaemon, me)
    BY <1>7 DEF Send
  <2>2. \A id \in ID : Contains(Append(toDaemon, me), id) <=> Contains(toDaemon, id) \/ id = me
    <3>1. toDaemon \in Seq(ID) /\ me \in ID
      BY <1>0, <1>2 DEF RoutingTyped
    <3> QED
      BY <3>1, ContainsAppended
  <2>3. \A id \in ID : InFlight(id)' <=> InFlight(id) \/ id = me
    BY <2>1, <2>2 DEF InFlight
  <2>4. RoutingTyped'
    <3>1. toDaemon' \in Seq(ID)
      BY <1>0, <1>2, <2>1 DEF RoutingTyped
    <3> QED
      BY <1>0, <1>4, <1>5, <2>1, <3>1 DEF RoutingTyped, CallRecord
  <2>5. IDsHandedOut'
    BY <1>2, <1>4, <1>5, <2>3, BoundsAssumption DEF CInv, IDsHandedOut, ID
  <2>6. UnsentRegistered'
    BY <1>3, <1>4, <1>7, <2>1, <2>3 DEF CInv, UnsentRegistered
  <2>7. me \in responses
    BY <1>2, <2>1 DEF CInv, UnsentRegistered
  <2>8. WaitingHeld' /\ ChannelsOwn' /\ OwnResponse'
    BY <1>4, <1>7, <2>1, <2>3, <2>7 DEF CInv, WaitingHeld, ChannelsOwn, OwnResponse
  <2> QED
    BY <1>6, <2>4, <2>5, <2>6, <2>8 DEF CInv
<1>8. CASE ~Send(c)
  <2>0. UNCHANGED <<toDaemon, toClient, served, pushed>>
    BY <1>8
       DEF CallStep, RegisterResponse, SendFails, Unregister, Receive, SeeClosed, socket
  <2>1. SameFlight
    BY <2>0, FlightUnchanged
  <2>2. respCh \in [ID -> 0 .. MaxCalls] /\ responses \subseteq ID /\ 0 \in 0 .. MaxCalls
    BY <1>0, BoundsAssumption DEF RoutingTyped
  <2>3. responses' \in {responses, responses \cup {me}, responses \ {me}}
    BY <1>8 DEF CallStep, RegisterResponse, SendFails, Unregister, Receive, SeeClosed
  <2>4. respCh' = respCh \/ respCh' = [respCh EXCEPT ![me] = 0]
    BY <1>8 DEF CallStep, RegisterResponse, SendFails, Unregister, Receive, SeeClosed
  <2>5. /\ respCh' \in [ID -> 0 .. MaxCalls]
        /\ respCh'[me] \in {0, respCh[me]}
        /\ \A id \in ID \ {me} : respCh'[id] = respCh[id]
    <3> HIDE DEF me
    <3> QED
      BY <1>2, <2>2, <2>4, FunctionChanged
  <2>6. /\ responses' \subseteq ID
        /\ \A id \in ID \ {me} : id \in responses' <=> id \in responses
    BY <1>2, <2>2, <2>3
  <2>7. RoutingTyped'
    BY <1>0, <1>4, <1>5, <2>0, <2>5, <2>6 DEF RoutingTyped, CallRecord
  <2>8. IDsHandedOut'
    BY <1>2, <1>4, <1>5, <2>1, BoundsAssumption DEF CInv, IDsHandedOut, SameFlight, ID
  <2>9. UnsentRegistered'
    <3> SUFFICES ASSUME NEW d \in Caller, NEW id \in ID, call'[d].id = id
                 PROVE  /\ call'[d].pc \in {"begun", "registered"} => ~InFlight(id)'
                        /\ call'[d].pc = "registered" => id \in responses'
      BY DEF UnsentRegistered
    <3>1. CASE d = c
      BY <1>4, <1>8, <2>1, <3>1 DEF CInv, UnsentRegistered, SameFlight
    <3>2. CASE d # c
      BY <1>3, <1>4, <2>1, <2>6, <3>2 DEF CInv, UnsentRegistered, SameFlight
    <3> QED
      BY <3>1, <3>2
  <2>10. WaitingHeld'
    <3> SUFFICES ASSUME NEW d \in Caller, NEW id \in ID, call'[d].pc = "waiting", call'[d].id = id
                 PROVE  respCh'[id] # 0 \/ (id \in responses' /\ InFlight(id)')
      BY DEF WaitingHeld
    <3>1. d # c
      BY <1>4, <1>8
    <3>2. call[d].pc = "waiting" /\ call[d].id = id /\ id # me
      BY <1>3, <1>4, <3>1
    <3> QED
      BY <2>1, <2>5, <2>6, <3>2 DEF CInv, WaitingHeld, SameFlight
  <2>11. ChannelsOwn'
    BY <1>2, <2>5 DEF CInv, ChannelsOwn
  <2>12. OwnResponse'
    BY <1>2, <1>4 DEF CInv, ChannelsOwn, OwnResponse
  <2> QED
    BY <1>6, <2>7, <2>8, <2>9, <2>10, <2>11, <2>12 DEF CInv
<1> QED
  BY <1>7, <1>8

(* readLoop takes a response from the socket. *)
LEMMA RouteStep ==
  ASSUME CInv, RouteResponse
  PROVE CInv'
<1> USE BoundsAssumption DEF ID
<1> DEFINE it == Head(toClient).num
<1>1. /\ toClient # <<>> /\ toClient' = Tail(toClient) /\ Head(toClient).type = "response"
      /\ UNCHANGED <<nextID, call, toDaemon, served, pushed>>
  BY DEF RouteResponse, Reads
<1>2. Head(toClient) \in Message /\ Tail(toClient) \in Seq(Message)
  BY <1>1, HeadAndTail DEF CInv, RoutingTyped
<1>3. it \in ID /\ it \in 0 .. MaxCalls /\ it # 0 /\ Head(toClient) = Response(it)
  BY <1>1, <1>2 DEF Message, Response
<1>4. \A id \in ID : Contains(toClient, Response(id))
                      <=> Response(id) = Head(toClient) \/ Contains(Tail(toClient), Response(id))
  BY <1>1, ContainsTail DEF CInv, RoutingTyped
<1>5. \A id \in ID : Response(id) = Head(toClient) <=> id = it
  BY <1>3 DEF Response
<1>6. /\ \A id \in ID : InFlight(id)' => InFlight(id)
      /\ \A id \in ID \ {it} : InFlight(id) => InFlight(id)'
      /\ InFlight(it)
  BY <1>1, <1>3, <1>4, <1>5 DEF InFlight
<1>7. /\ \A id \in ID \ {it} : /\ respCh'[id] = respCh[id]
                               /\ id \in responses' <=> id \in responses
      /\ it \in responses => respCh'[it] = it
      /\ it \notin responses => respCh'[it] = respCh[it]
      /\ respCh' \in [ID -> 0 .. MaxCalls] /\ responses' \subseteq ID
  <2>1. respCh \in [ID -> 0 .. MaxCalls] /\ responses \subseteq ID
    BY DEF CInv, RoutingTyped
  <2>2. CASE it \in responses
    <3>1. respCh' = [respCh EXCEPT ![it] = it] /\ responses' = responses \ {it}
      BY <2>2 DEF RouteResponse
    <3>2. /\ respCh' \in [ID -> 0 .. MaxCalls] /\ respCh'[it] = it
          /\ \A id \in ID \ {it} : respCh'[id] = respCh[id]
      <4> HIDE DEF it, ID
      <4> QED
        BY <1>3, <2>1, <3>1, FunctionChanged
    <3> HIDE DEF it, ID
    <3> QED
      BY <2>1, <2>2, <3>1, <3>2
  <2>3. CASE it \notin responses
    <3>1. respCh' = respCh /\ responses' = responses
      BY <2>3 DEF RouteResponse
    <3> HIDE DEF it, ID
    <3> QED
      BY <2>1, <2>3, <3>1
  <2> HIDE DEF it, ID
  <2> QED
    BY <2>2, <2>3
<1>8. RoutingTyped'
  BY <1>1, <1>2, <1>7 DEF CInv, RoutingTyped
<1>9. IDsDistinct' /\ IDsHandedOut' /\ OwnResponse'
  BY <1>1, <1>6 DEF CInv, IDsDistinct, IDsHandedOut, OwnResponse
<1>10. UnsentRegistered'
  BY <1>1, <1>3, <1>6, <1>7 DEF CInv, UnsentRegistered
<1>11. WaitingHeld'
  <2> SUFFICES ASSUME NEW c \in Caller, NEW id \in ID, call[c].pc = "waiting", call[c].id = id
               PROVE respCh'[id] # 0 \/ (id \in responses' /\ InFlight(id)')
    BY <1>1 DEF WaitingHeld
  <2>1. respCh[id] # 0 \/ (id \in responses /\ InFlight(id))
    BY DEF CInv, WaitingHeld
  <2> HIDE DEF it, ID
  <2>2. CASE id = it
    BY <1>3, <1>7, <2>1, <2>2
  <2>3. CASE id # it
    BY <1>6, <1>7, <2>1, <2>3
  <2> QED
    BY <2>2, <2>3
<1>12. ChannelsOwn'
  <2>1. \A id \in ID : respCh[id] \in {0, id}
    BY DEF CInv, ChannelsOwn
  <2> HIDE DEF it, ID
  <2> QED
    BY <1>3, <1>7, <2>1 DEF ChannelsOwn
<1> QED
  BY <1>8, <1>9, <1>10, <1>11, <1>12 DEF CInv

LEMMA ClientAlways == Spec => []CInv
<1>1. CInv /\ [Next]_vars => CInv'
  BY TransportStep, BeginStep, CallProceeds, RouteStep DEF Next, ReadStep
<1> QED
  BY <1>1, ClientInit, PTL DEF Spec

-----------------------------------------------------------------------------
(* However the calls of any number of goroutines interleave, a call of     *)
(* client.go returns the response to its own request or an error.          *)
THEOREM ResponsesAreOwn == Spec => []OwnResponse
<1>1. CInv => OwnResponse
  BY DEF CInv
<1> QED
  BY <1>1, ClientAlways, PTL

(* readLoop never throws away a response that a call waits for: the        *)
(* channel is registered before the request leaves.                        *)
THEOREM ResponsesAreKept == Spec => []NoResponseLost
<1>1. CInv => NoResponseLost
  <2> SUFFICES ASSUME CInv, NEW c \in Caller, call[c].pc = "waiting"
               PROVE \/ respCh[call[c].id] # 0
                     \/ call[c].id \in responses /\ InFlight(call[c].id)
    BY DEF NoResponseLost, InFlight
  <2>1. call[c].id \in ID
    BY BoundsAssumption DEF CInv, RoutingTyped, IDsHandedOut, ID
  <2> QED
    BY <2>1 DEF CInv, WaitingHeld
<1> QED
  BY <1>1, ClientAlways, PTL

-----------------------------------------------------------------------------
(* The response channels *)

(* A channel is empty as long as its ID is registered.  It was empty when  *)
(* the ID was taken, and nothing is sent to it before it is registered.    *)
ChannelsFree ==
  /\ ReaderNeverBlocks
  /\ \A id \in ID : id > nextID => id \notin responses /\ respCh[id] = 0
  /\ \A c \in Caller, id \in ID :
       call[c].pc = "begun" /\ call[c].id = id => id \notin responses /\ respCh[id] = 0

LEMMA ChannelsStep ==
  ASSUME CInv, ChannelsFree, [Next]_vars
  PROVE ChannelsFree'
<1>0. RoutingTyped /\ IDsDistinct
  BY DEF CInv
<1>1. ASSUME UNCHANGED <<nextID, call, responses, respCh>> PROVE ChannelsFree'
  BY <1>1, Zenon DEF ChannelsFree, ReaderNeverBlocks
<1>2. CASE \/ TakeRequest \/ Answer \/ Push \/ QueueNotification
           \/ Close \/ ReadFails \/ ReaderStops \/ Consume \/ PeerCloses
           \/ UNCHANGED vars
  <2>1. UNCHANGED <<nextID, call, responses, respCh>>
    BY <1>2
       DEF TakeRequest, Answer, Push, QueueNotification, Close, ReadFails, ReaderStops,
           Consume, PeerCloses, vars, socket
  <2> QED
    BY <1>1, <2>1
<1>3. ASSUME NEW c \in Caller, Begin(c) PROVE ChannelsFree'
  <2>1. /\ nextID \in 0 .. MaxCalls /\ nextID + 1 \in ID /\ nextID' = nextID + 1
        /\ UNCHANGED <<responses, respCh>>
    BY <1>0, <1>3, BoundsAssumption DEF RoutingTyped, Begin, ID
  <2>2. call'[c].id = nextID + 1 /\ \A d \in Caller \ {c} : call'[d] = call[d]
    BY <1>0, <1>3 DEF RoutingTyped, Begin
  <2>3. \A id \in ID : id > nextID => id \notin responses /\ respCh[id] = 0
    BY DEF ChannelsFree
  <2>4. \A id \in ID : id > nextID' => id > nextID
    BY <2>1 DEF ID
  <2>5. nextID + 1 \notin responses /\ respCh[nextID + 1] = 0
    BY <2>1, <2>3
  <2>6. \A d \in Caller, id \in ID :
          call'[d].pc = "begun" /\ call'[d].id = id => id \notin responses /\ respCh[id] = 0
    <3> SUFFICES ASSUME NEW d \in Caller, NEW id \in ID, call'[d].pc = "begun", call'[d].id = id
                 PROVE id \notin responses /\ respCh[id] = 0
      OBVIOUS
    <3>1. CASE d = c
      BY <2>2, <2>5, <3>1
    <3>2. CASE d # c
      BY <2>2, <3>2 DEF ChannelsFree
    <3> QED
      BY <3>1, <3>2
  <2> QED
    BY <2>1, <2>3, <2>4, <2>6 DEF ChannelsFree, ReaderNeverBlocks
<1>4. ASSUME NEW c \in Caller, CallStep(c) PROVE ChannelsFree'
  <2> DEFINE me == call[c].id
  <2>1. call[c].pc \in {"begun", "registered", "sendFailed", "waiting"}
    BY <1>4 DEF CallStep, RegisterResponse, Send, SendFails, Unregister, Receive, SeeClosed
  <2>2. me \in ID /\ ~(me > nextID)
    BY <1>0, <2>1 DEF CInv, IDsHandedOut, RoutingTyped, ID
  <2>3. \A d \in Caller \ {c} : call[d].id # me
    BY <1>0, <2>2, BoundsAssumption DEF IDsDistinct, ID
  <2>4. /\ \A d \in Caller \ {c} : call'[d] = call[d]
        /\ call'[c].pc \in {"registered", "waiting", "sendFailed", "returned"}
    BY <1>0, <1>4, <2>2, CallMoves
  <2>5. nextID' = nextID
    BY <1>4 DEF CallStep, RegisterResponse, Send, SendFails, Unregister, Receive, SeeClosed
  <2>6. /\ \A id \in ID \ {me} : id \in responses' <=> id \in responses
        /\ \A id \in ID \ {me} : respCh'[id] = respCh[id]
        /\ me \in responses' => respCh'[me] = 0
        /\ responses' \subseteq ID
    <3>0. respCh \in [ID -> 0 .. MaxCalls] /\ responses \subseteq ID /\ 0 \in 0 .. MaxCalls
      BY <1>0, BoundsAssumption DEF RoutingTyped
    <3>1. me \in responses => respCh[me] = 0
      BY DEF ChannelsFree, ReaderNeverBlocks
    <3>2. CASE RegisterResponse(c)
      <4>1. respCh' = respCh /\ responses' = responses \cup {me} /\ call[c].pc = "begun"
        BY <3>2 DEF RegisterResponse
      <4>2. respCh[me] = 0
        BY <2>2, <4>1 DEF ChannelsFree
      <4> HIDE DEF me, ID
      <4> QED
        BY <2>2, <3>0, <4>1, <4>2
    <3>3. CASE Receive(c)
      <4>1. respCh' = [respCh EXCEPT ![me] = 0] /\ responses' = responses
        BY <3>3 DEF Receive
      <4> HIDE DEF me, ID
      <4> QED
        BY <2>2, <3>0, <4>1, FunctionChanged
    <3>4. CASE Send(c) \/ SendFails(c) \/ Unregister(c) \/ SeeClosed(c)
      <4>1. respCh' = respCh /\ responses' \in {responses, responses \ {me}}
        BY <3>4 DEF Send, SendFails, Unregister, SeeClosed
      <4> HIDE DEF me, ID
      <4> QED
        BY <3>0, <3>1, <4>1
    <3> QED
      BY <1>4, <3>2, <3>3, <3>4 DEF CallStep
  <2> HIDE DEF me
  <2>7. ReaderNeverBlocks'
    <3> SUFFICES ASSUME NEW id \in responses' PROVE respCh'[id] = 0
      BY DEF ReaderNeverBlocks
    <3>1. CASE id = me
      BY <2>6, <3>1
    <3>2. CASE id # me
      BY <2>6, <3>2 DEF ChannelsFree, ReaderNeverBlocks
    <3> QED
      BY <3>1, <3>2
  <2>8. ASSUME NEW id \in ID, id > nextID' PROVE id \notin responses' /\ respCh'[id] = 0
    <3>1. id > nextID /\ id # me
      BY <2>2, <2>5, <2>8
    <3> QED
      BY <2>6, <3>1 DEF ChannelsFree
  <2>9. ASSUME NEW d \in Caller, NEW id \in ID, call'[d].pc = "begun", call'[d].id = id
        PROVE id \notin responses' /\ respCh'[id] = 0
    <3>1. d # c
      BY <2>4, <2>9
    <3>2. call[d].pc = "begun" /\ call[d].id = id /\ id # me
      BY <2>3, <2>4, <2>9, <3>1
    <3> QED
      BY <2>6, <3>2 DEF ChannelsFree
  <2> QED
    BY <2>7, <2>8, <2>9 DEF ChannelsFree
<1>5. CASE RouteResponse
  <2> DEFINE it == Head(toClient).num
  <2>1. /\ toClient # <<>> /\ Head(toClient).type = "response"
        /\ UNCHANGED <<nextID, call>>
    BY <1>5 DEF RouteResponse, Reads
  <2>2. it \in ID /\ it \in 0 .. MaxCalls /\ Head(toClient) = Response(it)
    <3>1. Head(toClient) \in Message
      BY <1>0, <2>1, HeadAndTail DEF RoutingTyped
    <3> QED
      BY <2>1, <3>1, BoundsAssumption DEF Message, Response, ID
  <2>3. InFlight(it)
    BY <1>0, <2>1, <2>2, ContainsTail DEF RoutingTyped, InFlight
  <2>4. ~(it > nextID)
    BY <1>0, <2>2, <2>3 DEF CInv, IDsHandedOut, RoutingTyped, ID
  <2>5. \A c \in Caller : call[c].pc = "begun" => call[c].id # it
    BY <2>2, <2>3 DEF CInv, UnsentRegistered
  <2>6. /\ responses' \subseteq responses \ {it}
        /\ \A id \in ID \ {it} : respCh'[id] = respCh[id]
    <3>0. respCh \in [ID -> 0 .. MaxCalls]
      BY <1>0 DEF RoutingTyped
    <3>1. CASE it \in responses
      <4>1. respCh' = [respCh EXCEPT ![it] = it] /\ responses' = responses \ {it}
        BY <1>5, <3>1 DEF RouteResponse
      <4> HIDE DEF it, ID
      <4> QED
        BY <2>2, <3>0, <4>1, FunctionChanged
    <3>2. CASE it \notin responses
      <4>1. respCh' = respCh /\ responses' = responses
        BY <1>5, <3>2 DEF RouteResponse
      <4> HIDE DEF it, ID
      <4> QED
        BY <3>2, <4>1
    <3> HIDE DEF it
    <3> QED
      BY <3>1, <3>2
  <2>7. responses \subseteq ID
    BY <1>0 DEF RoutingTyped
  <2> HIDE DEF it, ID
  <2>8. ReaderNeverBlocks'
    BY <2>6, <2>7 DEF ChannelsFree, ReaderNeverBlocks
  <2>9. \A id \in ID : id > nextID' => id \notin responses' /\ respCh'[id] = 0
    BY <2>1, <2>4, <2>6 DEF ChannelsFree
  <2>10. \A c \in Caller, id \in ID :
           call'[c].pc = "begun" /\ call'[c].id = id => id \notin responses' /\ respCh'[id] = 0
    BY <2>1, <2>5, <2>6 DEF ChannelsFree
  <2> QED
    BY <2>8, <2>9, <2>10 DEF ChannelsFree
<1> QED
  BY <1>2, <1>3, <1>4, <1>5 DEF Next, ReadStep

(* readLoop never waits to put a response into its channel while it holds  *)
(* responsesMu: the channel of every registered ID is empty.               *)
THEOREM ReaderIsFree == Spec => []ReaderNeverBlocks
<1>1. Init => ChannelsFree
  BY DEF Init, ChannelsFree, ReaderNeverBlocks
<1>2. ChannelsFree => ReaderNeverBlocks
  BY DEF ChannelsFree
<1> QED
  BY <1>1, <1>2, ChannelsStep, ClientAlways, PTL DEF Spec

-----------------------------------------------------------------------------
(* The order of notifications *)

QueueTyped ==
  /\ notifications \in Seq(1 .. MaxPushes) /\ Len(notifications) <= Capacity
  /\ toClient \in Seq(Message)
  /\ pushed \in 0 .. MaxPushes /\ seen \in 0 .. MaxPushes

IsNotification(m) == m.type = "notification"

(* The numbers rise in the channel, *)
QueueInOrder ==
  /\ seen <= pushed
  /\ \A k \in DOMAIN notifications : seen < notifications[k] /\ notifications[k] <= pushed
  /\ \A k, l \in DOMAIN notifications : k < l => notifications[k] < notifications[l]

(* on the socket, and from the one to the other. *)
WireInOrder ==
  /\ \A k \in DOMAIN toClient : IsNotification(toClient[k]) =>
       /\ seen < toClient[k].num /\ toClient[k].num <= pushed
       /\ \A l \in DOMAIN notifications : notifications[l] < toClient[k].num
  /\ \A k, l \in DOMAIN toClient :
       IsNotification(toClient[k]) /\ IsNotification(toClient[l]) /\ k < l
         => toClient[k].num < toClient[l].num

OInv == QueueTyped /\ QueueInOrder /\ WireInOrder

LEMMA Appended ==
  ASSUME NEW S, NEW s \in Seq(S), NEW e \in S
  PROVE /\ Append(s, e) \in Seq(S) /\ Len(Append(s, e)) = Len(s) + 1
        /\ Len(s) \in Nat /\ DOMAIN s = 1 .. Len(s)
        /\ DOMAIN Append(s, e) = 1 .. Len(s) + 1
        /\ \A k \in DOMAIN s : Append(s, e)[k] = s[k]
        /\ Append(s, e)[Len(s) + 1] = e
OBVIOUS

LEMMA TailAt ==
  ASSUME NEW S, NEW s \in Seq(S), s # <<>>
  PROVE /\ Len(Tail(s)) = Len(s) - 1 /\ Len(s) \in Nat \ {0}
        /\ Head(s) = s[1] /\ 1 \in DOMAIN s /\ DOMAIN s \subseteq Nat
        /\ \A k \in DOMAIN Tail(s) : k + 1 \in DOMAIN s /\ k + 1 > 1 /\ Tail(s)[k] = s[k + 1]
OBVIOUS

(* The socket and the channel after a message was taken from the socket. *)
LEMMA WireTail ==
  ASSUME QueueTyped, WireInOrder, toClient # <<>>, toClient' = Tail(toClient),
         UNCHANGED <<notifications, pushed, seen>>
  PROVE WireInOrder'
<1>1. \A k \in DOMAIN toClient' : k + 1 \in DOMAIN toClient /\ toClient'[k] = toClient[k + 1]
  BY TailAt DEF QueueTyped
<1>2. DOMAIN toClient' \subseteq Nat
  BY HeadAndTail DEF QueueTyped
<1>3. \A k, l \in DOMAIN toClient' : k < l => k + 1 < l + 1
  BY <1>2
<1>4. ASSUME NEW k \in DOMAIN toClient', IsNotification(toClient'[k])
      PROVE /\ seen < toClient'[k].num /\ toClient'[k].num <= pushed
            /\ \A l \in DOMAIN notifications : notifications[l] < toClient'[k].num
  BY <1>1, <1>4 DEF WireInOrder
<1>5. ASSUME NEW k \in DOMAIN toClient', NEW l \in DOMAIN toClient',
             IsNotification(toClient'[k]), IsNotification(toClient'[l]), k < l
      PROVE toClient'[k].num < toClient'[l].num
  BY <1>1, <1>3, <1>5 DEF WireInOrder
<1> QED
  BY <1>4, <1>5 DEF WireInOrder, IsNotification

(* The channel after its oldest notification was consumed. *)
LEMMA OrderConsume ==
  ASSUME OInv, Consume
  PROVE OInv' /\ seen' > seen
<1>1. /\ notifications # <<>> /\ seen' = Head(notifications) /\ notifications' = Tail(notifications)
      /\ UNCHANGED <<toClient, pushed>>
  BY DEF Consume, socket
<1>2. /\ Len(notifications') = Len(notifications) - 1 /\ Len(notifications) \in Nat
      /\ seen' = notifications[1] /\ 1 \in DOMAIN notifications
      /\ \A k \in DOMAIN notifications' :
           /\ k + 1 \in DOMAIN notifications /\ k + 1 > 1
           /\ notifications'[k] = notifications[k + 1]
  BY <1>1, TailAt DEF OInv, QueueTyped
<1>3. notifications' \in Seq(1 .. MaxPushes) /\ seen' \in 1 .. MaxPushes
  BY <1>1, HeadAndTail, Zenon DEF OInv, QueueTyped
<1>4. DOMAIN notifications' \subseteq Nat
  BY <1>3
<1>5. QueueTyped'
  BY <1>1, <1>2, <1>3, BoundsAssumption DEF OInv, QueueTyped
<1>6. seen < seen' /\ seen' <= pushed
  BY <1>2 DEF OInv, QueueInOrder
<1>7. QueueInOrder'
  <2>1. \A k \in DOMAIN notifications' : seen' < notifications'[k] /\ notifications'[k] <= pushed
    BY <1>2 DEF OInv, QueueInOrder
  <2>2. \A k, l \in DOMAIN notifications' : k < l => k + 1 < l + 1
    BY <1>4
  <2>3. \A k, l \in DOMAIN notifications' : k < l => notifications'[k] < notifications'[l]
    BY <1>2, <2>2 DEF OInv, QueueInOrder
  <2> QED
    BY <1>1, <1>6, <2>1, <2>3 DEF QueueInOrder
<1>8. WireInOrder'
  <2>1. \A k \in DOMAIN toClient : IsNotification(toClient[k]) =>
          /\ seen' < toClient[k].num
          /\ \A l \in DOMAIN notifications' : notifications'[l] < toClient[k].num
    BY <1>2 DEF OInv, WireInOrder
  <2> QED
    BY <1>1, <2>1 DEF OInv, WireInOrder, IsNotification
<1>9. seen \in Int /\ seen' \in Int
  BY <1>3 DEF OInv, QueueTyped
<1> QED
  BY <1>5, <1>6, <1>7, <1>8, <1>9 DEF OInv

(* A message is written to the socket. *)
LEMMA OrderWrite ==
  ASSUME OInv, NEW m \in Message, toClient' = Append(toClient, m), UNCHANGED <<notifications, seen>>,
         pushed' \in pushed .. MaxPushes,
         IsNotification(m) => m.num > pushed /\ m.num <= pushed'
  PROVE OInv'
<1>0. pushed \in Nat /\ pushed' \in 0 .. MaxPushes /\ pushed <= pushed' /\ seen \in Nat
  BY BoundsAssumption DEF OInv, QueueTyped
<1>1. /\ toClient' \in Seq(Message)
      /\ Len(toClient) \in Nat /\ DOMAIN toClient = 1 .. Len(toClient)
      /\ DOMAIN toClient' = 1 .. Len(toClient) + 1
      /\ \A k \in DOMAIN toClient : toClient'[k] = toClient[k]
      /\ toClient'[Len(toClient) + 1] = m
  BY Appended DEF OInv, QueueTyped
<1>2. \A k \in DOMAIN toClient' :
        \/ k \in DOMAIN toClient /\ toClient'[k] = toClient[k] /\ k < Len(toClient) + 1
        \/ k = Len(toClient) + 1 /\ toClient'[k] = m
  BY <1>1
<1>3. \A k \in DOMAIN toClient : IsNotification(toClient[k]) => toClient[k].num \in Nat
  <2>1. \A k \in DOMAIN toClient : toClient[k] \in Message
    BY DEF OInv, QueueTyped
  <2> QED
    BY <2>1, BoundsAssumption DEF Message, ID
<1>4. /\ \A k \in DOMAIN notifications : notifications[k] \in Nat
      /\ IsNotification(m) => m.num \in Nat
  BY BoundsAssumption DEF OInv, QueueTyped, Message, ID
<1>5. QueueTyped'
  BY <1>0, <1>1 DEF OInv, QueueTyped
<1>6. QueueInOrder'
  <2>1. seen <= pushed'
    BY <1>0 DEF OInv, QueueInOrder
  <2>2. \A k \in DOMAIN notifications : seen < notifications[k] /\ notifications[k] <= pushed'
    BY <1>0, <1>4 DEF OInv, QueueInOrder
  <2> QED
    BY <2>1, <2>2 DEF OInv, QueueInOrder
<1>7. WireInOrder'
  <2>1. ASSUME NEW k \in DOMAIN toClient', IsNotification(toClient'[k])
        PROVE /\ seen < toClient'[k].num /\ toClient'[k].num <= pushed'
              /\ \A l \in DOMAIN notifications : notifications[l] < toClient'[k].num
    <3>1. CASE k \in DOMAIN toClient /\ toClient'[k] = toClient[k]
      BY <1>0, <1>3, <2>1, <3>1 DEF OInv, WireInOrder
    <3>2. CASE toClient'[k] = m
      BY <1>0, <1>4, <2>1, <3>2 DEF OInv, QueueInOrder
    <3> QED
      BY <1>2, <3>1, <3>2
  <2>2. ASSUME NEW k \in DOMAIN toClient', NEW l \in DOMAIN toClient',
               IsNotification(toClient'[k]), IsNotification(toClient'[l]), k < l
        PROVE toClient'[k].num < toClient'[l].num
    <3>1. k \in DOMAIN toClient /\ toClient'[k] = toClient[k]
      BY <1>1, <1>2, <2>2
    <3>2. CASE l \in DOMAIN toClient /\ toClient'[l] = toClient[l]
      BY <2>2, <3>1, <3>2 DEF OInv, WireInOrder
    <3>3. CASE toClient'[l] = m
      BY <1>0, <1>3, <1>4, <2>2, <3>1, <3>3 DEF OInv, WireInOrder
    <3> QED
      BY <1>2, <3>2, <3>3
  <2> QED
    BY <2>1, <2>2 DEF WireInOrder, IsNotification
<1> QED
  BY <1>5, <1>6, <1>7 DEF OInv

(* readLoop moves a notification from the socket to the channel, or drops it. *)
LEMMA OrderQueue ==
  ASSUME OInv, QueueNotification
  PROVE OInv'
<1> DEFINE n == Head(toClient).num
<1>1. /\ toClient # <<>> /\ toClient' = Tail(toClient) /\ IsNotification(Head(toClient))
      /\ UNCHANGED <<pushed, seen>>
  BY DEF QueueNotification, Reads, IsNotification
<1>2. Head(toClient) \in Message /\ toClient' \in Seq(Message)
  BY <1>1, HeadAndTail DEF OInv, QueueTyped
<1>3. n \in 1 .. MaxPushes
  BY <1>1, <1>2 DEF Message, IsNotification
<1>4. CASE notifications' = notifications
  <2>1. WireInOrder'
    BY <1>1, <1>4, WireTail DEF OInv
  <2> QED
    BY <1>1, <1>2, <1>4, <2>1 DEF OInv, QueueTyped, QueueInOrder
<1>5. CASE Len(notifications) < Capacity /\ notifications' = Append(notifications, n)
  <2>1. /\ notifications' \in Seq(1 .. MaxPushes) /\ Len(notifications') = Len(notifications) + 1
        /\ Len(notifications) \in Nat /\ DOMAIN notifications = 1 .. Len(notifications)
        /\ DOMAIN notifications' = 1 .. Len(notifications) + 1
        /\ \A k \in DOMAIN notifications : notifications'[k] = notifications[k]
        /\ notifications'[Len(notifications) + 1] = n
    <3> HIDE DEF n
    <3> QED
      BY <1>3, <1>5, Appended DEF OInv, QueueTyped
  <2>2. /\ Head(toClient) = toClient[1] /\ 1 \in DOMAIN toClient
        /\ \A k \in DOMAIN toClient' :
             k + 1 \in DOMAIN toClient /\ 1 < k + 1 /\ toClient'[k] = toClient[k + 1]
    BY <1>1, TailAt DEF OInv, QueueTyped
  <2>3. /\ seen < n /\ n <= pushed
        /\ \A l \in DOMAIN notifications : notifications[l] < n
    BY <1>1, <2>2 DEF OInv, WireInOrder
  <2>4. \A k \in DOMAIN toClient' : IsNotification(toClient'[k]) => n < toClient'[k].num
    BY <1>1, <2>2 DEF OInv, WireInOrder
  <2>5. \A k \in DOMAIN notifications' :
          \/ k \in DOMAIN notifications /\ notifications'[k] = notifications[k]
          \/ k = Len(notifications) + 1 /\ notifications'[k] = n
    BY <2>1
  <2> HIDE DEF n
  <2>6. QueueTyped'
    BY <1>1, <1>2, <1>5, <2>1, BoundsAssumption DEF OInv, QueueTyped
  <2>7. QueueInOrder'
    <3>1. \A k \in DOMAIN notifications' : seen < notifications'[k] /\ notifications'[k] <= pushed
      BY <2>3, <2>5 DEF OInv, QueueInOrder
    <3>2. ASSUME NEW k \in DOMAIN notifications', NEW l \in DOMAIN notifications', k < l
          PROVE notifications'[k] < notifications'[l]
      <4>1. k \in DOMAIN notifications /\ notifications'[k] = notifications[k]
        BY <2>1, <2>5, <3>2
      <4>2. CASE l \in DOMAIN notifications /\ notifications'[l] = notifications[l]
        BY <3>2, <4>1, <4>2 DEF OInv, QueueInOrder
      <4>3. CASE notifications'[l] = n
        BY <2>3, <4>1, <4>3
      <4> QED
        BY <2>5, <4>2, <4>3
    <3> QED
      BY <1>1, <3>1, <3>2 DEF OInv, QueueInOrder
  <2>8. WireInOrder'
    <3>1. \A k \in DOMAIN toClient' : IsNotification(toClient'[k]) =>
            /\ seen < toClient'[k].num /\ toClient'[k].num <= pushed
            /\ \A l \in DOMAIN notifications : notifications[l] < toClient'[k].num
      BY <2>2 DEF OInv, WireInOrder
    <3>2. \A k \in DOMAIN toClient' : IsNotification(toClient'[k]) =>
            \A l \in DOMAIN notifications' : notifications'[l] < toClient'[k].num
      BY <2>4, <2>5, <3>1
    <3>3. DOMAIN toClient' \subseteq Nat
      BY <1>2
    <3>4. \A k, l \in DOMAIN toClient' : k < l => k + 1 < l + 1
      BY <3>3
    <3>5. \A k, l \in DOMAIN toClient' :
            IsNotification(toClient'[k]) /\ IsNotification(toClient'[l]) /\ k < l
              => toClient'[k].num < toClient'[l].num
      BY <2>2, <3>4 DEF OInv, WireInOrder
    <3> QED
      BY <1>1, <3>1, <3>2, <3>5 DEF WireInOrder, IsNotification
  <2> QED
    BY <2>6, <2>7, <2>8 DEF OInv
<1> QED
  BY <1>4, <1>5 DEF QueueNotification

LEMMA OrderStep ==
  ASSUME CInv, OInv, [Next]_vars
  PROVE OInv'
<1>1. CASE Answer
  <2>1. Response(served) \in Message /\ ~IsNotification(Response(served))
    BY <1>1, BoundsAssumption
       DEF Answer, CInv, RoutingTyped, Response, Message, ID, IsNotification
  <2>2. pushed' = pushed /\ pushed \in pushed .. MaxPushes
    BY <1>1, BoundsAssumption DEF Answer, OInv, QueueTyped
  <2> QED
    BY <1>1, <2>1, <2>2, OrderWrite DEF Answer
<1>2. CASE Push
  <2>1. pushed \in Nat /\ pushed + 1 \in 1 .. MaxPushes /\ pushed' = pushed + 1
    BY <1>2, BoundsAssumption DEF Push, OInv, QueueTyped
  <2>2. Notification(pushed + 1) \in Message /\ Notification(pushed + 1).num = pushed + 1
    BY <2>1 DEF Notification, Message
  <2>3. pushed' \in pushed .. MaxPushes /\ pushed + 1 > pushed /\ pushed + 1 <= pushed'
    BY <2>1, BoundsAssumption
  <2> QED
    BY <1>2, <2>2, <2>3, OrderWrite DEF Push
<1>3. CASE RouteResponse
  <2>1. /\ toClient # <<>> /\ toClient' = Tail(toClient)
        /\ UNCHANGED <<notifications, pushed, seen>>
    BY <1>3 DEF RouteResponse, Reads
  <2>2. toClient' \in Seq(Message)
    BY <2>1, HeadAndTail DEF OInv, QueueTyped
  <2>3. WireInOrder'
    BY <2>1, WireTail DEF OInv
  <2> QED
    BY <2>1, <2>2, <2>3 DEF OInv, QueueTyped, QueueInOrder
<1>4. CASE QueueNotification
  BY <1>4, OrderQueue
<1>5. CASE Consume
  BY <1>5, OrderConsume
<1>6. CASE UNCHANGED <<notifications, toClient, pushed, seen>>
  BY <1>6 DEF OInv, QueueTyped, QueueInOrder, WireInOrder, IsNotification
<1>7. ASSUME NEW c \in Caller, Begin(c) \/ CallStep(c)
      PROVE UNCHANGED <<notifications, toClient, pushed, seen>>
  BY <1>7
     DEF Begin, CallStep, RegisterResponse, Send, SendFails, Unregister, Receive, SeeClosed,
         socket
<1>8. ASSUME Close \/ ReadFails \/ ReaderStops \/ TakeRequest \/ PeerCloses \/ UNCHANGED vars
      PROVE UNCHANGED <<notifications, toClient, pushed, seen>>
  BY <1>8 DEF Close, ReadFails, ReaderStops, TakeRequest, PeerCloses, socket, vars
<1> QED
  BY <1>1, <1>2, <1>3, <1>4, <1>5, <1>6, <1>7, <1>8 DEF Next, ReadStep

LEMMA OrderAlways == Spec => []OInv
<1>1. Init => OInv
  BY BoundsAssumption DEF Init, OInv, QueueTyped, QueueInOrder, WireInOrder
<1> QED
  BY <1>1, OrderStep, ClientAlways, PTL DEF Spec

(* The consumer of Notifications() gets them in the order in which they    *)
(* were pushed, each at most once, whatever readLoop drops.                *)
THEOREM PushesInOrder == Spec => NotificationsInOrder
<1>1. OInv /\ [Next]_vars => [Consume => seen' > seen]_vars
  BY OrderConsume
<1> QED
  BY <1>1, OrderAlways, PTL DEF Spec, NotificationsInOrder

(* Every variable of the client keeps its type, and the notifications      *)
(* channel never holds more than its capacity.                             *)
THEOREM ClientTypeCorrect == Spec => []TypeOK
<1> DEFINE EndsTyped ==
      /\ reader \in {"reading", "closing", "notificationsClosed", "stopped"}
      /\ conn \in {"open", "closed"} /\ peer \in {"open", "closed"}
<1>1. Init => EndsTyped
  BY DEF Init
<1>2. EndsTyped /\ [Next]_vars => EndsTyped'
  BY DEF Next, Begin, CallStep, RegisterResponse, Send, SendFails, Unregister, Receive, SeeClosed,
         Close, ReadStep, RouteResponse, QueueNotification, ReadFails, ReaderStops, Reads, Consume,
         TakeRequest, Answer, Push, PeerCloses, vars, socket
<1>3. CInv /\ OInv /\ EndsTyped => TypeOK
  BY DEF CInv, OInv, RoutingTyped, QueueTyped, TypeOK
<1> HIDE DEF EndsTyped
<1> QED
  BY <1>1, <1>2, <1>3, ClientAlways, OrderAlways, PTL DEF Spec
=============================================================================
