------------------------------- MODULE Daemon -------------------------------
(***************************************************************************)
(* internal/daemon/daemon.go: the connections of the service, their        *)
(* subscriptions and the broadcast of status changes, with the locks that  *)
(* keep them apart.  The life of the process is the module Service.        *)
(*                                                                         *)
(* Goroutines are the handler of each connection and the runners of the    *)
(* Manager.  Both broadcast: a runner when a tunnel ends, a handler inside *)
(* manager.Start.  Daemon.mu is a sync.RWMutex: a writer that waits keeps  *)
(* new readers out, and the readers that wait enter when it unlocks.  A    *)
(* socket takes Buffer messages; a write to a full socket blocks.          *)
(***************************************************************************)
EXTENDS Naturals, FiniteSets

CONSTANTS
  Conn,     \* connections; one that ended stands for a later, new one
  Runner,   \* goroutines of the Manager that report the end of a tunnel
  Nil,
  Buffer,   \* messages a socket holds for its client
  MayHang   \* connections whose client may stop reading

ASSUME NilAssumption == Nil \notin Conn \cup Runner /\ Conn \cap Runner = {}

ASSUME BufferAssumption == Buffer \in Nat \ {0} /\ MayHang \subseteq Conn

Goroutine == Conn \cup Runner

VARIABLES
  handler,      \* per connection, where handleConnection stands
  client,       \* per connection, what the client at the other end does
  outbox,       \* per connection, messages the client has not read
  subscribers,  \* Daemon.subscribers
  writer,       \* the goroutine that announced Lock of Daemon.mu, or Nil
  subMu,        \* per connection, the goroutine that holds subscriber.mu
  cast,         \* per goroutine, where broadcastStatusChange stands
  todo,         \* per goroutine, the subscribers its loop has yet to visit
  at,           \* per goroutine, the subscriber its loop is at
  sent          \* per goroutine, the subscribers its loop is done with

vars == <<handler, client, outbox, subscribers, writer, subMu, cast, todo, at,
          sent>>

castVars == <<cast, todo, at, sent>>

(* Who holds Daemon.mu for reading. *)
Readers == {g \in Goroutine : cast[g] \in {"visiting", "locking", "writing"}}

HandlerPC == {"none", "reading", "subscribing", "starting", "started",
              "answering", "writing", "leaving"}

Init ==
  /\ handler = [c \in Conn |-> "none"]
  /\ client = [c \in Conn |-> "away"]
  /\ outbox = [c \in Conn |-> 0]
  /\ subscribers = {}
  /\ writer = Nil
  /\ subMu = [c \in Conn |-> Nil]
  /\ cast = [g \in Goroutine |-> "idle"]
  /\ todo = [g \in Goroutine |-> {}]
  /\ at = [g \in Goroutine |-> Nil]
  /\ sent = [g \in Goroutine |-> {}]

-----------------------------------------------------------------------------
(* acceptLoop *)

Accept(c) ==
  /\ handler[c] = "none"
  /\ handler' = [handler EXCEPT ![c] = "reading"]
  /\ client' = [client EXCEPT ![c] = "reading"]
  /\ outbox' = [outbox EXCEPT ![c] = 0]
  /\ UNCHANGED <<subscribers, writer, subMu, castVars>>

-----------------------------------------------------------------------------
(* handleConnection and the handlers *)

Moves(c, from, to) ==
  /\ handler[c] = from
  /\ handler' = [handler EXCEPT ![c] = to]

(* Decode returns a request: subscribe, one that broadcasts (tunnel.start) *)
(* or one that does neither.  A client that has closed may have sent it    *)
(* before.                                                                 *)
Request(c) ==
  /\ \E pc \in {"subscribing", "starting", "answering"} : Moves(c, "reading", pc)
  /\ UNCHANGED <<client, outbox, subscribers, writer, subMu, castVars>>

DecodeFails(c) ==
  /\ client[c] = "closed"
  /\ Moves(c, "reading", "leaving")
  /\ UNCHANGED <<client, outbox, subscribers, writer, subMu, castVars>>

(* manager.Start reports "connecting" and, where the tunnel still connects *)
(* after its wait, "connected"; the answer follows.                        *)
StartBroadcasts(c) ==
  /\ cast[c] = "idle"
  /\ \/ Moves(c, "starting", "started") /\ cast' = [cast EXCEPT ![c] = "rlock"]
     \/ Moves(c, "started", "answering") /\ cast' = [cast EXCEPT ![c] = "rlock"]
     \/ Moves(c, "started", "answering") /\ UNCHANGED cast
  /\ UNCHANGED <<client, outbox, subscribers, writer, subMu, todo, at, sent>>

(* d.mu.Lock(), in handleSubscribe and at the end of handleConnection. *)
AnnounceLock(c) ==
  /\ handler[c] \in {"subscribing", "leaving"}
  /\ writer = Nil
  /\ writer' = c
  /\ UNCHANGED <<handler, client, outbox, subscribers, subMu, castVars>>

(* What Unlock does: the readers that waited have the lock. *)
AdmitReaders(subs) ==
  /\ cast' = [g \in Goroutine |-> IF cast[g] = "blocked" THEN "visiting" ELSE cast[g]]
  /\ todo' = [g \in Goroutine |-> IF cast[g] = "blocked" THEN subs ELSE todo[g]]
  /\ UNCHANGED <<at, sent>>

(* Mutant: the subscriber is added while others hold the lock. *)
SubscribeAtOnce(c) ==
  /\ writer = c
  /\ Moves(c, "subscribing", "answering")
  /\ subscribers' = subscribers \cup {c}
  /\ writer' = Nil
  /\ AdmitReaders(subscribers')
  /\ UNCHANGED <<client, outbox, subMu>>

Subscribe(c) ==
  /\ writer = c
  /\ Readers = {}
  /\ Moves(c, "subscribing", "answering")
  /\ subscribers' = subscribers \cup {c}
  /\ writer' = Nil
  /\ AdmitReaders(subscribers')
  /\ UNCHANGED <<client, outbox, subMu>>

(* The end of handleConnection, with the deferred Close of the socket. *)
Leave(c) ==
  /\ writer = c
  /\ Readers = {}
  /\ Moves(c, "leaving", "none")
  /\ subscribers' = subscribers \ {c}
  /\ client' = [client EXCEPT ![c] = "away"]
  /\ writer' = Nil
  /\ AdmitReaders(subscribers')
  /\ UNCHANGED <<outbox, subMu>>

(* Mutant: the answer is written without subscriber.mu. *)
AnswerUnlocked(c) ==
  /\ cast[c] = "idle"
  /\ Moves(c, "answering", "writing")
  /\ UNCHANGED <<client, outbox, subscribers, writer, subMu, castVars>>

AnswerLocks(c) ==
  /\ cast[c] = "idle"
  /\ subMu[c] = Nil
  /\ Moves(c, "answering", "writing")
  /\ subMu' = [subMu EXCEPT ![c] = c]
  /\ UNCHANGED <<client, outbox, subscribers, writer, castVars>>

(* Encode blocks on a full socket; it fails when the client has closed. *)
AnswerWrites(c) ==
  /\ subMu' = [subMu EXCEPT ![c] = Nil]
  /\ \/ /\ client[c] # "closed"
        /\ outbox[c] < Buffer
        /\ outbox' = [outbox EXCEPT ![c] = @ + 1]
        /\ Moves(c, "writing", "reading")
     \/ /\ client[c] = "closed"
        /\ Moves(c, "writing", "leaving")
        /\ UNCHANGED outbox
  /\ UNCHANGED <<client, subscribers, writer, castVars>>

-----------------------------------------------------------------------------
(* broadcastStatusChange *)

RunnerBroadcasts(g) ==
  /\ cast[g] = "idle"
  /\ cast' = [cast EXCEPT ![g] = "rlock"]
  /\ UNCHANGED <<handler, client, outbox, subscribers, writer, subMu, todo, at, sent>>

RLock(g) ==
  /\ cast[g] = "rlock"
  /\ \/ /\ writer = Nil
        /\ cast' = [cast EXCEPT ![g] = "visiting"]
        /\ todo' = [todo EXCEPT ![g] = subscribers]
     \/ /\ writer # Nil
        /\ cast' = [cast EXCEPT ![g] = "blocked"]
        /\ UNCHANGED todo
  /\ UNCHANGED <<handler, client, outbox, subscribers, writer, subMu, at, sent>>

(* The loop takes the subscribers in any order. *)
Visit(g) ==
  /\ cast[g] = "visiting"
  /\ \E c \in todo[g] :
       /\ todo' = [todo EXCEPT ![g] = @ \ {c}]
       /\ at' = [at EXCEPT ![g] = c]
  /\ cast' = [cast EXCEPT ![g] = "locking"]
  /\ UNCHANGED <<handler, client, outbox, subscribers, writer, subMu, sent>>

(* sub.mu.Lock() *)
NotifyLocks(g) ==
  /\ cast[g] = "locking"
  /\ subMu[at[g]] = Nil
  /\ subMu' = [subMu EXCEPT ![at[g]] = g]
  /\ cast' = [cast EXCEPT ![g] = "writing"]
  /\ UNCHANGED <<handler, client, outbox, subscribers, writer, todo, at, sent>>

(* Mutant: the error path of Encode forgets sub.mu.Unlock(). *)
NotifyKeepingLock(g) ==
  /\ cast[g] = "writing"
  /\ \/ /\ client[at[g]] # "closed"
        /\ outbox[at[g]] < Buffer
        /\ outbox' = [outbox EXCEPT ![at[g]] = @ + 1]
        /\ subMu' = [subMu EXCEPT ![at[g]] = Nil]
     \/ /\ client[at[g]] = "closed"
        /\ UNCHANGED <<outbox, subMu>>
  /\ cast' = [cast EXCEPT ![g] = "visiting"]
  /\ at' = [at EXCEPT ![g] = Nil]
  /\ sent' = [sent EXCEPT ![g] = @ \cup {at[g]}]
  /\ UNCHANGED <<handler, client, subscribers, writer, todo>>

(* Encode: it blocks on a full socket, and an error is only logged. *)
Notify(g) ==
  /\ cast[g] = "writing"
  /\ \/ /\ client[at[g]] # "closed"
        /\ outbox[at[g]] < Buffer
        /\ outbox' = [outbox EXCEPT ![at[g]] = @ + 1]
     \/ /\ client[at[g]] = "closed"
        /\ UNCHANGED outbox
  /\ subMu' = [subMu EXCEPT ![at[g]] = Nil]
  /\ cast' = [cast EXCEPT ![g] = "visiting"]
  /\ at' = [at EXCEPT ![g] = Nil]
  /\ sent' = [sent EXCEPT ![g] = @ \cup {at[g]}]
  /\ UNCHANGED <<handler, client, subscribers, writer, todo>>

RUnlock(g) ==
  /\ cast[g] = "visiting"
  /\ todo[g] = {}
  /\ cast' = [cast EXCEPT ![g] = "idle"]
  /\ sent' = [sent EXCEPT ![g] = {}]
  /\ UNCHANGED <<handler, client, outbox, subscribers, writer, subMu, todo, at>>

-----------------------------------------------------------------------------
(* The clients: readLoop reads, a suspended process does not *)

ClientReads(c) ==
  /\ client[c] = "reading"
  /\ outbox[c] > 0
  /\ outbox' = [outbox EXCEPT ![c] = @ - 1]
  /\ UNCHANGED <<handler, client, subscribers, writer, subMu, castVars>>

ClientHangs(c) ==
  /\ c \in MayHang
  /\ client[c] = "reading"
  /\ client' = [client EXCEPT ![c] = "hung"]
  /\ UNCHANGED <<handler, outbox, subscribers, writer, subMu, castVars>>

ClientCloses(c) ==
  /\ client[c] \in {"reading", "hung"}
  /\ client' = [client EXCEPT ![c] = "closed"]
  /\ UNCHANGED <<handler, outbox, subscribers, writer, subMu, castVars>>

-----------------------------------------------------------------------------
HandlerStep(c) ==
  \/ DecodeFails(c) \/ StartBroadcasts(c) \/ AnnounceLock(c) \/ Subscribe(c)
  \/ Leave(c) \/ AnswerLocks(c) \/ AnswerWrites(c)

BroadcastStep(g) ==
  RLock(g) \/ Visit(g) \/ NotifyLocks(g) \/ Notify(g) \/ RUnlock(g)

Next ==
  \/ \E c \in Conn : \/ Accept(c) \/ Request(c) \/ HandlerStep(c)
                     \/ ClientReads(c) \/ ClientHangs(c) \/ ClientCloses(c)
  \/ \E g \in Runner : RunnerBroadcasts(g)
  \/ \E g \in Goroutine : BroadcastStep(g)

Spec == Init /\ [][Next]_vars

(* Go runs what can run and its mutexes starve nobody: a goroutine stands  *)
(* at one step, and if that is enabled again and again, it is taken.       *)
(* Clients read unless they hang; nobody has to send a request.            *)
FairSpec ==
  /\ Spec
  /\ \A c \in Conn : SF_vars(HandlerStep(c) \/ BroadcastStep(c))
  /\ \A g \in Runner : SF_vars(BroadcastStep(g))
  /\ \A c \in Conn : WF_vars(ClientReads(c))

-----------------------------------------------------------------------------
(* Properties *)

TypeOK ==
  /\ handler \in [Conn -> HandlerPC]
  /\ client \in [Conn -> {"away", "reading", "hung", "closed"}]
  /\ outbox \in [Conn -> 0 .. Buffer]
  /\ subscribers \subseteq Conn
  /\ writer \in Conn \cup {Nil}
  /\ subMu \in [Conn -> Goroutine \cup {Nil}]
  /\ cast \in [Goroutine -> {"idle", "rlock", "blocked", "visiting",
                         "locking", "writing"}]
  /\ todo \in [Goroutine -> SUBSET Conn]
  /\ at \in [Goroutine -> Conn \cup {Nil}]
  /\ sent \in [Goroutine -> SUBSET Conn]

(* The JSON messages of a connection never mix: at most one goroutine is   *)
(* in its encoder, be it the handler with an answer or any goroutine with  *)
(* a notification (daemon.go:159-165, 210-214).                            *)
OneEncoder ==
  \A c \in Conn :
    Cardinality({g \in Goroutine : cast[g] = "writing" /\ at[g] = c}
                \cup (IF handler[c] = "writing" THEN {Nil} ELSE {})) <= 1

(* A broadcast misses no subscriber and writes to nobody else: at every    *)
(* point of its loop the ones it is done with, the one it is at and the    *)
(* ones to come are exactly the subscribers of that moment, although       *)
(* clients subscribe and leave meanwhile (daemon.go:169-171, 206-215).     *)
BroadcastComplete ==
  \A g \in Readers :
    subscribers = sent[g] \cup ({at[g]} \ {Nil}) \cup todo[g]

(* README.md:265: "Status updates are pushed from service to subscribed    *)
(* clients in real-time".  A broadcast under way reaches every subscriber  *)
(* that reads its connection.                                              *)
UpdatesReach ==
  \A g \in Goroutine, c \in Conn \ MayHang :
    (g \in Readers /\ c \in todo[g]) ~> (g \in Readers => c \in sent[g])

(* Every request is answered, or its connection ends (daemon.go:148-166):  *)
(* the handlers that wait for Daemon.mu and the broadcasts that hold it    *)
(* while they wait for a subscriber.mu do not block each other for good.   *)
RequestsAnswered ==
  \A c \in Conn : handler[c] \notin {"none", "reading"}
                    ~> handler[c] \in {"none", "reading"}
=============================================================================
