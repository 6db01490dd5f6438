---------------------------- MODULE DaemonProofs ----------------------------
(***************************************************************************)
(* Proofs about Daemon, for any number of connections and runners and any  *)
(* size of their sockets: what the two kinds of lock protect.              *)
(***************************************************************************)
EXTENDS Daemon, FiniteSetTheorems, TLAPS

(* Where a goroutine stands in its broadcast says what its loop has: *)
LoopState ==
  \A g \in Goroutine :
    /\ cast[g] \in {"idle", "rlock", "blocked"} => at[g] = Nil /\ sent[g] = {}
    /\ cast[g] = "visiting" => at[g] = Nil
    /\ cast[g] \in {"locking", "writing"} => at[g] \in Conn

(* Whoever writes to a connection holds its subscriber.mu.  A handler      *)
(* writes its answer only after its own broadcasts: the two would hold the *)
(* lock in the same name.                                                  *)
WritersHoldLock ==
  /\ \A g \in Goroutine : cast[g] = "writing" => subMu[at[g]] = g
  /\ \A c \in Conn : handler[c] = "writing" => subMu[c] = c /\ cast[c] = "idle"

DInv == TypeOK /\ LoopState /\ WritersHoldLock /\ BroadcastComplete

-----------------------------------------------------------------------------
LEMMA DaemonInit == Init => DInv
<1> SUFFICES ASSUME Init PROVE DInv
  OBVIOUS
<1>1. TypeOK
  <2>1. outbox \in [Conn -> 0 .. Buffer]
    BY BufferAssumption DEF Init
  <2>2. /\ handler \in [Conn -> HandlerPC]
        /\ client \in [Conn -> {"away", "reading", "hung", "closed"}]
        /\ subMu \in [Conn -> Goroutine \cup {Nil}]
    BY DEF Init, HandlerPC
  <2>3. /\ cast \in [Goroutine -> {"idle", "rlock", "blocked", "visiting",
                                   "locking", "writing"}]
        /\ todo \in [Goroutine -> SUBSET Conn]
        /\ at \in [Goroutine -> Conn \cup {Nil}]
        /\ sent \in [Goroutine -> SUBSET Conn]
    BY DEF Init
  <2> QED
    BY <2>1, <2>2, <2>3 DEF Init, TypeOK
<1>2. LoopState /\ WritersHoldLock /\ BroadcastComplete
  BY DEF Init, LoopState, WritersHoldLock, BroadcastComplete, Readers
<1> QED
  BY <1>1, <1>2 DEF DInv

(* The steps that touch neither the broadcasts nor the locks. *)
LEMMA ConnectionStep ==
  ASSUME DInv, NEW c \in Conn,
         \/ Accept(c) \/ Request(c) \/ DecodeFails(c)
         \/ ClientReads(c) \/ ClientHangs(c) \/ ClientCloses(c)
  PROVE DInv'
<1>1. TypeOK'
  BY BufferAssumption
     DEF DInv, TypeOK, Accept, Request, DecodeFails, ClientReads, ClientHangs,
         ClientCloses, Moves, HandlerPC, castVars
<1>2. UNCHANGED <<subscribers, subMu, cast, todo, at, sent>>
  BY DEF Accept, Request, DecodeFails, ClientReads, ClientHangs, ClientCloses, castVars
<1>3. \A d \in Conn : handler'[d] = "writing" => handler[d] = "writing"
  BY DEF DInv, TypeOK, Accept, Request, DecodeFails, ClientReads, ClientHangs,
         ClientCloses, Moves
<1> QED
  BY <1>1, <1>2, <1>3 DEF DInv, LoopState, WritersHoldLock, BroadcastComplete, Readers

(* A goroutine comes to broadcastStatusChange. *)
LEMMA BroadcastBegins ==
  ASSUME DInv, (\E c \in Conn : StartBroadcasts(c)) \/ (\E g \in Runner : RunnerBroadcasts(g))
  PROVE DInv'
<1>1. CASE \E c \in Conn : StartBroadcasts(c)
  BY <1>1 DEF DInv, TypeOK, LoopState, WritersHoldLock, BroadcastComplete, Readers,
              StartBroadcasts, Moves, HandlerPC, Goroutine
<1>2. CASE \E g \in Runner : RunnerBroadcasts(g)
  BY <1>2, NilAssumption
     DEF DInv, TypeOK, LoopState, WritersHoldLock, BroadcastComplete, Readers,
         RunnerBroadcasts, Goroutine
<1> QED
  BY <1>1, <1>2

(* The steps under Daemon.mu.Lock: no broadcast is under way, and those    *)
(* that waited begin with the subscribers of the moment.                   *)
LEMMA WriteLockStep ==
  ASSUME DInv, NEW c \in Conn, AnnounceLock(c) \/ Subscribe(c) \/ Leave(c)
  PROVE DInv'
<1>1. CASE AnnounceLock(c)
  BY <1>1 DEF DInv, TypeOK, LoopState, WritersHoldLock, BroadcastComplete, Readers,
              AnnounceLock, castVars
<1>2. CASE Subscribe(c) \/ Leave(c)
  <2>1. TypeOK'
    BY <1>2 DEF DInv, TypeOK, Subscribe, Leave, Moves, AdmitReaders, HandlerPC
  <2>2. /\ Readers = {} /\ UNCHANGED <<at, sent, subMu>>
        /\ AdmitReaders(subscribers')
    BY <1>2 DEF Subscribe, Leave, AdmitReaders
  <2>3. LoopState'
    BY <2>2 DEF DInv, TypeOK, LoopState, Readers, AdmitReaders
  <2>4. \A d \in Conn : handler'[d] = "writing" => handler[d] = "writing"
    BY <1>2 DEF DInv, TypeOK, Subscribe, Leave, Moves
  <2>5. WritersHoldLock'
    BY <2>2, <2>4 DEF DInv, TypeOK, WritersHoldLock, Readers, AdmitReaders, Goroutine
  <2>6. BroadcastComplete'
    BY <2>2 DEF DInv, TypeOK, LoopState, BroadcastComplete, Readers, AdmitReaders
  <2> QED
    BY <2>1, <2>3, <2>5, <2>6 DEF DInv
<1> QED
  BY <1>1, <1>2

(* The answer of a handler. *)
LEMMA AnswerStep ==
  ASSUME DInv, NEW c \in Conn, AnswerLocks(c) \/ AnswerWrites(c)
  PROVE DInv'
<1>1. UNCHANGED <<subscribers, cast, todo, at, sent>>
  BY DEF AnswerLocks, AnswerWrites, castVars
<1>2. TypeOK'
  BY BufferAssumption
     DEF DInv, TypeOK, AnswerLocks, AnswerWrites, Moves, HandlerPC, castVars, Goroutine
<1>3. WritersHoldLock'
  <2>1. CASE AnswerLocks(c)
    BY <2>1, NilAssumption
       DEF DInv, TypeOK, LoopState, WritersHoldLock, AnswerLocks, Moves, castVars, Goroutine
  <2>2. CASE AnswerWrites(c)
    BY <2>2, NilAssumption
       DEF DInv, TypeOK, LoopState, WritersHoldLock, AnswerWrites, Moves, castVars, Goroutine
  <2> QED
    BY <2>1, <2>2
<1> QED
  BY <1>1, <1>2, <1>3 DEF DInv, LoopState, BroadcastComplete, Readers

(* The loop over the subscribers. *)
LEMMA LoopStep ==
  ASSUME DInv, NEW g \in Goroutine, BroadcastStep(g)
  PROVE DInv'
<1>1. CASE RLock(g)
  BY <1>1 DEF DInv, TypeOK, LoopState, WritersHoldLock, BroadcastComplete, Readers,
              RLock, Goroutine
<1>2. CASE Visit(g)
  BY <1>2, NilAssumption
     DEF DInv, TypeOK, LoopState, WritersHoldLock, BroadcastComplete, Readers, Visit,
         Goroutine
<1>3. CASE NotifyLocks(g)
  BY <1>3, NilAssumption
     DEF DInv, TypeOK, LoopState, WritersHoldLock, BroadcastComplete, Readers,
         NotifyLocks, Goroutine
<1>4. CASE Notify(g)
  <2>1. at[g] \in Conn /\ subMu[at[g]] = g
    BY <1>4 DEF DInv, LoopState, WritersHoldLock, Notify
  <2>2. TypeOK'
    BY <1>4, <2>1, BufferAssumption DEF DInv, TypeOK, Notify
  <2>3. LoopState'
    BY <1>4 DEF DInv, TypeOK, LoopState, Notify
  <2>4. WritersHoldLock'
    BY <1>4, <2>1, NilAssumption
       DEF DInv, TypeOK, LoopState, WritersHoldLock, Notify, Goroutine
  <2>5. BroadcastComplete'
    BY <1>4, <2>1, NilAssumption DEF DInv, TypeOK, BroadcastComplete, Readers, Notify
  <2> QED
    BY <2>2, <2>3, <2>4, <2>5 DEF DInv
<1>5. CASE RUnlock(g)
  BY <1>5 DEF DInv, TypeOK, LoopState, WritersHoldLock, BroadcastComplete, Readers,
              RUnlock, Goroutine
<1> QED
  BY <1>1, <1>2, <1>3, <1>4, <1>5 DEF BroadcastStep

LEMMA DaemonStep == DInv /\ [Next]_vars => DInv'
<1> SUFFICES ASSUME DInv, [Next]_vars PROVE DInv'
  OBVIOUS
<1>1. CASE UNCHANGED vars
  BY <1>1 DEF DInv, TypeOK, LoopState, WritersHoldLock, BroadcastComplete, Readers, vars
<1>2. CASE Next
  BY <1>2, ConnectionStep, BroadcastBegins, WriteLockStep, AnswerStep, LoopStep
     DEF Next, HandlerStep
<1> QED
  BY <1>1, <1>2

LEMMA DaemonAlways == Spec => []DInv
BY DaemonInit, DaemonStep, PTL DEF Spec

-----------------------------------------------------------------------------
(* A broadcast of broadcastStatusChange misses no subscriber and writes to *)
(* nobody else, although clients subscribe and leave meanwhile.            *)
THEOREM BroadcastIsComplete == Spec => []BroadcastComplete
<1>1. DInv => BroadcastComplete
  BY DEF DInv
<1> QED
  BY <1>1, DaemonAlways, PTL

(* At most one goroutine is in the encoder of a connection, so the answers *)
(* of its handler and the notifications of others never mix on the socket. *)
THEOREM EncoderIsExclusive == Spec => []OneEncoder
<1>1. DInv => OneEncoder
  <2> SUFFICES ASSUME DInv, NEW c \in Conn
               PROVE Cardinality({g \in Goroutine : cast[g] = "writing" /\ at[g] = c}
                       \cup (IF handler[c] = "writing" THEN {Nil} ELSE {})) <= 1
    BY DEF OneEncoder
  <2> DEFINE W == {g \in Goroutine : cast[g] = "writing" /\ at[g] = c}
                    \cup (IF handler[c] = "writing" THEN {Nil} ELSE {})
  <2>1. \A v, w \in W : v = w
    BY NilAssumption DEF DInv, WritersHoldLock, Goroutine
  <2>2. CASE W = {}
    BY <2>2, FS_EmptySet
  <2>3. CASE W # {}
    <3>1. PICK w \in W : TRUE
      BY <2>3
    <3>2. W = {w}
      BY <2>1, <3>1
    <3> HIDE DEF W
    <3>3. Cardinality(W) = 1
      BY <3>2, FS_Singleton
    <3> QED
      BY <3>3 DEF W
  <2> QED
    BY <2>2, <2>3
<1> QED
  BY <1>1, DaemonAlways, PTL
=============================================================================
