---------------------------- MODULE RequestsProofs ----------------------------
(***************************************************************************)
(* Proofs about Requests, for any number of clients, tunnels and runs.     *)
(* The requests of clients are calls of the Manager, so that all that      *)
(* TunnelManagerProofs shows of the Manager holds in the service, and is   *)
(* used here for what clients are answered.                                *)
(***************************************************************************)
EXTENDS Requests, TunnelManagerProofs

(* A handler that is at work knows the name it works for, and its run once *)
(* manager.Start has begun.                                                *)
RequestsTyped ==
  /\ req \in [Client -> RequestRecord]
  /\ \A c \in Client :
       /\ req[c].pc # "none" => req[c].name \in Names
       /\ req[c].pc = "starting" => req[c].run \in Run

(* What a handler has looked up for a tunnel of the configuration is still *)
(* what the Manager has.                                                   *)
LookupIsCurrent ==
  \A c \in Client : req[c].pc # "none" /\ req[c].name \in ConfigNames =>
    req[c].config = tunnels[req[c].name]

QInv == IInv /\ RequestsTyped /\ LookupIsCurrent /\ StartsWhatItLookedUp

-----------------------------------------------------------------------------
LEMMA RequestCases ==
  ASSUME RequestNext
  PROVE  \/ \E c \in Client, n \in Names : TunnelStart(c, n) \/ TunnelStop(c, n) \/ TunnelStatus(c, n)
         \/ \E c \in Client : TunnelRegister(c)
         \/ \E c \in Client : ManagerStart(c) \/ ManagerStartFails(c) \/ StartAnswers(c)
         \/ /\ NoHandler
            /\ \/ \E r \in Run : Starter(r) \/ Runner(r)
               \/ \E n \in Names : RemoveAfterStop(n)
               \/ StopAll
BY DEF RequestNext, NewRequest, Handler, Shutdown

(* A step of the service is a step of the Manager, or leaves it alone. *)
LEMMA RequestIsManagerStep ==
  ASSUME RequestsTyped, [RequestNext]_requestVars
  PROVE  [Next]_vars
<1>1. CASE UNCHANGED requestVars
  BY <1>1 DEF requestVars
<1>2. ASSUME NEW c \in Client, NEW n \in Names,
             TunnelStart(c, n) \/ TunnelStop(c, n) \/ TunnelStatus(c, n)
      PROVE  [Next]_vars
  BY <1>2 DEF TunnelStart, TunnelStop, TunnelStatus, Next
<1>3. ASSUME NEW c \in Client, TunnelRegister(c)
      PROVE  [Next]_vars
  BY <1>3, NamesAssumption DEF TunnelRegister, Next
<1>4. ASSUME NEW c \in Client, ManagerStart(c)
      PROVE  [Next]_vars
  <2>1. req[c].name \in Names
    BY <1>4 DEF ManagerStart, RequestsTyped
  <2>2. PICK r \in Run : Start(req[c].name, r)
    BY <1>4 DEF ManagerStart
  <2> QED
    BY <2>1, <2>2 DEF Next
<1>5. ASSUME NEW c \in Client, ManagerStartFails(c) \/ StartAnswers(c)
      PROVE  [Next]_vars
  BY <1>5 DEF ManagerStartFails, StartAnswers
<1>6. CASE \/ \E r \in Run : Starter(r) \/ Runner(r)
           \/ \E n \in Names : RemoveAfterStop(n)
           \/ StopAll
  BY <1>6 DEF Next
<1> QED
  BY <1>1, <1>2, <1>3, <1>4, <1>5, <1>6, RequestCases

LEMMA TypedRequestsStep ==
  ASSUME Typed, RequestsTyped, [RequestNext]_requestVars
  PROVE  RequestsTyped'
<1>1. CASE UNCHANGED requestVars
  BY <1>1 DEF requestVars, RequestsTyped
<1>2. NoRequest \in RequestRecord
  BY DEF NoRequest, RequestRecord
<1>3. ASSUME NEW c \in Client, req' = [req EXCEPT ![c] = NoRequest]
      PROVE  RequestsTyped'
  BY <1>2, <1>3 DEF RequestsTyped, NoRequest
<1>4. ASSUME NEW c \in Client, NEW n \in Names, TunnelStart(c, n)
      PROVE  RequestsTyped'
  <2> DEFINE looked == [pc |-> "authenticated", name |-> n, config |-> tunnels[n], run |-> Nil]
  <2>1. looked \in RequestRecord
    BY DEF RequestRecord, Typed, TypeOK
  <2>2. req' = [req EXCEPT ![c] = looked] \/ req' = [req EXCEPT ![c] = NoRequest]
    BY <1>4 DEF TunnelStart, Answers, GoesOn
  <2>3. CASE req' = [req EXCEPT ![c] = looked]
    BY <2>1, <2>3 DEF RequestsTyped
  <2> QED
    BY <1>3, <2>2, <2>3
<1>5. ASSUME NEW c \in Client, ManagerStart(c)
      PROVE  RequestsTyped'
  <2>1. PICK r \in Run : req' = [req EXCEPT ![c] = [req[c] EXCEPT !.pc = "starting", !.run = r]]
    BY <1>5, Zenon DEF ManagerStart, GoesOn
  <2>2. req[c] \in RequestRecord /\ req[c].name \in Names
    BY <1>5 DEF RequestsTyped, ManagerStart
  <2>3. /\ [req[c] EXCEPT !.pc = "starting", !.run = r] \in RequestRecord
        /\ [req[c] EXCEPT !.pc = "starting", !.run = r].name = req[c].name
        /\ [req[c] EXCEPT !.pc = "starting", !.run = r].run = r
    BY <2>2, Zenon DEF RequestRecord
  <2> QED
    BY <2>1, <2>2, <2>3 DEF RequestsTyped
<1>6. ASSUME NEW c \in Client, NEW n \in Names, TunnelStop(c, n) \/ TunnelStatus(c, n)
      PROVE  RequestsTyped'
  BY <1>3, <1>6 DEF TunnelStop, TunnelStatus, Answers
<1>7. ASSUME NEW c \in Client, TunnelRegister(c) \/ ManagerStartFails(c) \/ StartAnswers(c)
      PROVE  RequestsTyped'
  BY <1>3, <1>7 DEF TunnelRegister, ManagerStartFails, StartAnswers, Answers
<1>8. CASE NoHandler
  BY <1>8 DEF NoHandler, RequestsTyped
<1> QED
  BY <1>1, <1>4, <1>5, <1>6, <1>7, <1>8, RequestCases

LEMMA RequestsInit ==
  ASSUME RequestInit
  PROVE  QInv
<1>1. RequestsTyped /\ LookupIsCurrent /\ StartsWhatItLookedUp
  BY DEF RequestInit, NoRequest, RequestsTyped, RequestRecord, LookupIsCurrent, StartsWhatItLookedUp
<1> QED
  BY <1>1, IInvInit DEF QInv, RequestInit

-----------------------------------------------------------------------------
(* What other steps leave alone *)

(* No step of the Manager lets the name of a configured tunnel lead to     *)
(* another tunnel.                                                         *)
LEMMA ConfiguredStays ==
  ASSUME IInv, [Next]_vars, NEW n \in ConfigNames
  PROVE  tunnels'[n] = tunnels[n]
<1> USE NamesAssumption
<1>1. /\ tunnels \in [Names -> Ref \cup {Nil}] /\ n \in Names
      /\ Exists(n) /\ ~mt[tunnels[n]].Ephemeral /\ removals[n] = 0
  BY DEF IInv, Typed, TypeOK, ConfiguredSafe
<1>2. CASE tunnels' = tunnels
  BY <1>2
<1>3. ASSUME NEW m \in Names, RemoveAfterStop(m)
      PROVE  tunnels'[n] = tunnels[n]
  BY <1>1, <1>3 DEF RemoveAfterStop
<1>4. ASSUME NEW m \in Names, Unregister(m)
      PROVE  tunnels'[n] = tunnels[n]
  BY <1>1, <1>4 DEF Unregister
<1>5. ASSUME NEW m \in Names, NEW o \in Ref, Register(m, o)
      PROVE  tunnels'[n] = tunnels[n]
  BY <1>1, <1>5 DEF Register
<1>6. CASE Next
  <2>1. ASSUME NEW m \in Names, NEW r \in Run, Start(m, r)
        PROVE  tunnels' = tunnels
    BY <2>1 DEF Start
  <2>2. ASSUME NEW r \in Run, Announce(r) \/ Wake(r) \/ AnnounceConnected(r)
        PROVE  tunnels' = tunnels
    BY <2>2 DEF Announce, Wake, AnnounceConnected
  <2>3. ASSUME NEW r \in Run, Open(r) \/ OpenFails(r) \/ Close(r) \/ Record(r) \/ Report(r)
        PROVE  tunnels' = tunnels
    BY <2>3 DEF Open, OpenFails, Close, RunnerMoves, Record, Report
  <2>4. ASSUME NEW m \in Names, Stop(m)
        PROVE  tunnels' = tunnels
    BY <2>4 DEF Stop
  <2>5. ASSUME StopAll
        PROVE  tunnels' = tunnels
    BY <2>5 DEF StopAll
  <2> QED
    BY <1>2, <1>3, <1>4, <1>5, <1>6, <2>1, <2>2, <2>3, <2>4, <2>5, NextCases
<1> QED
  BY <1>2, <1>6 DEF vars

(* Only a call of Start gives a context another tunnel. *)
LEMMA RunKeepsTunnel ==
  ASSUME Typed, NEW r \in Run,
         \/ \E q \in Run : Starter(q) \/ Runner(q)
         \/ \E n \in Names : Stop(n) \/ RemoveAfterStop(n)
         \/ StopAll
         \/ \E n \in Names, o \in Ref : Register(n, o)
         \/ UNCHANGED run
  PROVE  run'[r].tunnel = run[r].tunnel
<1>1. run \in [Run -> RunRecord]
  BY DEF Typed, TypeOK
<1>2. ASSUME NEW q \in Run, Starter(q)
      PROVE  run'[r].tunnel = run[r].tunnel
  <2>1. \/ run' = [run EXCEPT ![q].starter = "sleeping", ![q].runner = "opening"]
        \/ \E pc \in StarterPC : run' = [run EXCEPT ![q].starter = pc]
    BY <1>2 DEF Starter, Announce, Wake, AnnounceConnected, StarterPC
  <2>2. CASE run' = [run EXCEPT ![q].starter = "sleeping", ![q].runner = "opening"]
    BY <1>1, <2>2 DEF RunRecord
  <2>3. CASE \E pc \in StarterPC : run' = [run EXCEPT ![q].starter = pc]
    BY <1>1, <2>3 DEF RunRecord
  <2> QED
    BY <2>1, <2>2, <2>3
<1>3. ASSUME NEW q \in Run, Runner(q)
      PROVE  run'[r].tunnel = run[r].tunnel
  <2>1. \E pc \in RunnerPC : run' = [run EXCEPT ![q].runner = pc]
    BY <1>3 DEF Runner, Open, OpenFails, Close, RunnerMoves, Record, Report, RunnerPC
  <2> QED
    BY <1>1, <2>1 DEF RunRecord
<1>4. ASSUME NEW m \in Names, Stop(m)
      PROVE  run'[r].tunnel = run[r].tunnel
  BY <1>1, <1>4, CancelRunsFacts DEF Stop
<1>5. ASSUME StopAll
      PROVE  run'[r].tunnel = run[r].tunnel
  BY <1>1, <1>5, CancelRunsFacts DEF StopAll
<1>6. ASSUME NEW m \in Names, RemoveAfterStop(m) \/ (\E o \in Ref : Register(m, o))
      PROVE  run' = run
  BY <1>6, Zenon DEF RemoveAfterStop, Register
<1> QED
  BY <1>2, <1>3, <1>4, <1>5, <1>6

-----------------------------------------------------------------------------
(* The invariant *)

LEMMA LookupStep ==
  ASSUME QInv, [RequestNext]_requestVars
  PROVE  LookupIsCurrent' /\ StartsWhatItLookedUp'
<1>1. [Next]_vars /\ IInv /\ Typed /\ req \in [Client -> RequestRecord]
  BY RequestIsManagerStep DEF QInv, IInv, RequestsTyped
<1>2. \A n \in ConfigNames : tunnels'[n] = tunnels[n]
  BY <1>1, ConfiguredStays
<1>3. SUFFICES ASSUME NEW d \in Client, req'[d].pc # "none", req'[d].name \in ConfigNames
               PROVE  /\ req'[d].config = tunnels'[req'[d].name]
                      /\ req'[d].pc = "starting" => run'[req'[d].run].tunnel = req'[d].config
  BY DEF LookupIsCurrent, StartsWhatItLookedUp
<1>4. ASSUME req'[d] = req[d],
             req[d].run \in Run => run'[req[d].run].tunnel = run[req[d].run].tunnel
      PROVE  /\ req'[d].config = tunnels'[req'[d].name]
             /\ req'[d].pc = "starting" => run'[req'[d].run].tunnel = req'[d].config
  <2>1. req[d].config = tunnels[req[d].name]
    BY <1>3, <1>4 DEF QInv, LookupIsCurrent
  <2>2. CASE req[d].pc = "starting"
    <3>1. req[d].run \in Run /\ run[req[d].run].tunnel = req[d].config
      BY <1>3, <1>4, <2>2 DEF QInv, RequestsTyped, StartsWhatItLookedUp
    <3> QED
      BY <1>2, <1>3, <1>4, <2>1, <3>1
  <2> QED
    BY <1>2, <1>3, <1>4, <2>1, <2>2
<1>5. CASE UNCHANGED requestVars
  BY <1>4, <1>5 DEF requestVars, vars
<1>6. ASSUME NEW c \in Client, req' = [req EXCEPT ![c] = NoRequest],
             \A r \in Run : run'[r].tunnel = run[r].tunnel
      PROVE  /\ req'[d].config = tunnels'[req'[d].name]
             /\ req'[d].pc = "starting" => run'[req'[d].run].tunnel = req'[d].config
  <2>1. CASE c = d
    BY <1>1, <1>3, <1>6, <2>1 DEF NoRequest
  <2>2. CASE c # d
    BY <1>1, <1>4, <1>6, <2>2
  <2> QED
    BY <2>1, <2>2
<1>7. ASSUME NEW c \in Client, NEW n \in Names, TunnelStart(c, n)
      PROVE  /\ req'[d].config = tunnels'[req'[d].name]
             /\ req'[d].pc = "starting" => run'[req'[d].run].tunnel = req'[d].config
  <2> DEFINE looked == [pc |-> "authenticated", name |-> n, config |-> tunnels[n], run |-> Nil]
  <2>1. UNCHANGED vars /\ (req' = [req EXCEPT ![c] = looked] \/ req' = [req EXCEPT ![c] = NoRequest])
    BY <1>7 DEF TunnelStart, Answers, GoesOn
  <2>2. tunnels' = tunnels /\ run' = run
    BY <2>1 DEF vars
  <2>3. CASE req' = [req EXCEPT ![c] = looked] /\ c = d
    BY <1>1, <2>2, <2>3
  <2>4. CASE req' = [req EXCEPT ![c] = looked] /\ c # d
    BY <1>1, <1>4, <2>2, <2>4
  <2> QED
    BY <1>6, <2>1, <2>2, <2>3, <2>4
<1>8. ASSUME NEW c \in Client, ManagerStart(c)
      PROVE  /\ req'[d].config = tunnels'[req'[d].name]
             /\ req'[d].pc = "starting" => run'[req'[d].run].tunnel = req'[d].config
  <2>1. PICK r \in Run :
          /\ \A e \in Client : req[e].run # r
          /\ Start(req[c].name, r)
          /\ req' = [req EXCEPT ![c] = [req[c] EXCEPT !.pc = "starting", !.run = r]]
    BY <1>8, Zenon DEF ManagerStart, GoesOn
  <2>2. /\ run \in [Run -> RunRecord] /\ tunnels' = tunnels
        /\ run'[r].tunnel = tunnels[req[c].name]
        /\ \A q \in Run : q # r => run'[q] = run[q]
    BY <1>1, <2>1 DEF Typed, TypeOK, Start
  <2>3. CASE c = d
    <3>1. /\ req'[d].name = req[d].name /\ req'[d].config = req[d].config /\ req'[d].run = r
      BY <1>1, <2>1, <2>3 DEF RequestRecord
    <3>2. req[d].config = tunnels[req[d].name]
      BY <1>3, <1>8, <2>3, <3>1 DEF QInv, LookupIsCurrent, ManagerStart
    <3> QED
      BY <2>2, <2>3, <3>1, <3>2
  <2>4. CASE c # d
    BY <1>1, <1>4, <2>1, <2>2, <2>4
  <2> QED
    BY <2>3, <2>4
<1>9. ASSUME NEW c \in Client, NEW n \in Names, TunnelStop(c, n) \/ TunnelStatus(c, n)
      PROVE  /\ req'[d].config = tunnels'[req'[d].name]
             /\ req'[d].pc = "starting" => run'[req'[d].run].tunnel = req'[d].config
  <2>1. req' = [req EXCEPT ![c] = NoRequest] /\ (Stop(n) \/ UNCHANGED run)
    BY <1>9 DEF TunnelStop, TunnelStatus, Answers, vars
  <2> QED
    BY <1>1, <1>6, <2>1, RunKeepsTunnel, Zenon
<1>10. ASSUME NEW c \in Client, TunnelRegister(c) \/ ManagerStartFails(c) \/ StartAnswers(c)
       PROVE  /\ req'[d].config = tunnels'[req'[d].name]
              /\ req'[d].pc = "starting" => run'[req'[d].run].tunnel = req'[d].config
  <2>1. req' = [req EXCEPT ![c] = NoRequest] /\ UNCHANGED run
    BY <1>10 DEF TunnelRegister, ManagerStartFails, StartAnswers, Answers, Register, vars
  <2> QED
    BY <1>6, <2>1, Zenon
<1>11. CASE /\ NoHandler
            /\ \/ \E r \in Run : Starter(r) \/ Runner(r)
               \/ \E n \in Names : RemoveAfterStop(n)
               \/ StopAll
  BY <1>1, <1>4, <1>11, RunKeepsTunnel DEF NoHandler
<1> QED
  BY <1>5, <1>7, <1>8, <1>9, <1>10, <1>11, RequestCases

LEMMA RequestsAlways == RequestSpec => []QInv
<1>1. QInv /\ [RequestNext]_requestVars => QInv'
  BY LookupStep, TypedRequestsStep, RequestIsManagerStep, IInvStep DEF QInv, IInv
<1> QED
  BY <1>1, RequestsInit, PTL DEF RequestSpec

-----------------------------------------------------------------------------
LEMMA AnswersFacts ==
  ASSUME NEW c, NEW method, NEW n, NEW code, NEW status, Answers(c, method, n, code, status)
  PROVE  /\ answer'.client = c /\ answer'.method = method /\ answer'.name = n
         /\ answer'.code = code /\ answer'.status = status
  BY DEF Answers

LEMMA NoAnswerFacts == NoAnswer.method = "" /\ NoAnswer.code = ""
  BY DEF NoAnswer

LEMMA GoesOnFacts ==
  ASSUME NEW c, NEW request, GoesOn(c, request)
  PROVE  answer'.method = "" /\ answer'.code = ""
  BY NoAnswerFacts DEF GoesOn

LEMMA NoHandlerFacts ==
  ASSUME NoHandler
  PROVE  answer'.method = "" /\ answer'.code = ""
  BY NoAnswerFacts DEF NoHandler

(* manager.Start reports the one error or the other. *)
LEMMA StartFailsFacts ==
  ASSUME NEW c \in Client, ManagerStartFails(c)
  PROVE  /\ answer'.name = req[c].name /\ answer'.status = ""
         /\ \/ ~Exists(req[c].name)
            \/ answer'.code = "TunnelActive"
<1>1. CASE ~Exists(req[c].name)
  <2>1. answer' = [client |-> c, method |-> "start", name |-> req[c].name,
                   code |-> StartErrorCode(ErrorTextOf(req[c].name, "not found")), status |-> ""]
    BY <1>1 DEF ManagerStartFails, Answers
  <2> QED
    BY <1>1, <2>1
<1>2. CASE Exists(req[c].name)
  <2>1. answer' = [client |-> c, method |-> "start", name |-> req[c].name,
                   code |-> StartErrorCode(ErrorTextOf(req[c].name, "already")), status |-> ""]
    BY <1>2 DEF ManagerStartFails, Answers
  <2>2. StartErrorCode(ErrorTextOf(req[c].name, "already")) = "TunnelActive"
    BY DEF StartErrorCode, ErrorTextOf
  <2> QED
    BY <2>1, <2>2
<1> QED
  BY <1>1, <1>2

(* The handlers of any number of connections use the Manager as its own    *)
(* specification says: every behaviour of the service is one of the        *)
(* Manager, and its theorems hold in the service.                          *)
THEOREM ServiceUsesManager == RequestSpec => Spec
<1>1. RequestInit => Init
  BY DEF RequestInit
<1>2. QInv /\ [RequestNext]_requestVars => [Next]_vars
  BY RequestIsManagerStep DEF QInv
<1> QED
  BY <1>1, <1>2, RequestsAlways, PTL DEF RequestSpec, Spec

(* In the service an active tunnel has exactly one runner, every runner    *)
(* can be reached, and a connecting tunnel has its starter on the way.     *)
THEOREM ServiceKeepsManagerSafe ==
  RequestSpec => [](OneRunnerPerTunnel /\ RunnersReachable /\ ConnectingHasStarter)
  BY ServiceUsesManager, OneRunner, NoOrphanedRunner, ConnectingIsTransient, PTL

(* No client ever sees a change of status that the life cycle does not     *)
(* allow: the handlers of any number of connections, which look a tunnel   *)
(* up in one critical section and act on it in a later one                 *)
(* (handlers.go:23-66), keep what TunnelLifecycle promises of a tunnel.    *)
THEOREM ServiceKeepsLifecycle == RequestSpec => LifecycleSpec
BY ServiceUsesManager, ManagerImplementsLifecycle, PTL

(* handleTunnelStart starts the configured tunnel it has looked up, though *)
(* it gives up the lock in between (handlers.go:35, 53).                   *)
THEOREM StartUsesLookup == RequestSpec => []StartsWhatItLookedUp
<1>1. QInv => StartsWhatItLookedUp
  BY DEF QInv
<1> QED
  BY <1>1, RequestsAlways, PTL

(* A client that started a tunnel is not told "connecting" for its own run *)
(* (handlers.go:60).                                                       *)
THEOREM StartAnswersSettled == RequestSpec => StartAnswerIsSettled
<1> DEFINE Settled ==
      \A c \in Client :
        (answer'.client = c /\ answer'.method = "start" /\ answer'.status = "connecting")
          => mt[tunnels[req[c].name]].cancel # req[c].run
<1>1. QInv /\ [RequestNext]_requestVars => Settled \/ UNCHANGED requestVars
  <2> SUFFICES ASSUME QInv, RequestNext, NEW c \in Client, answer'.client = c,
                      answer'.method = "start", answer'.status = "connecting"
               PROVE  mt[tunnels[req[c].name]].cancel # req[c].run
    OBVIOUS
  <2>1. StartAnswers(c)
    <3>1. ASSUME NEW d \in Client, NEW n \in Names, TunnelStart(d, n)
          PROVE  FALSE
      BY <3>1, AnswersFacts, GoesOnFacts, ZenonT(60) DEF TunnelStart
    <3>2. ASSUME NEW d \in Client, NEW n \in Names, TunnelStop(d, n) \/ TunnelStatus(d, n)
          PROVE  FALSE
      BY <3>2, AnswersFacts, ZenonT(60) DEF TunnelStop, TunnelStatus
    <3>3. ASSUME NEW d \in Client, TunnelRegister(d) \/ ManagerStart(d) \/ ManagerStartFails(d)
          PROVE  FALSE
      <4>1. CASE TunnelRegister(d)
        BY <4>1, AnswersFacts DEF TunnelRegister
      <4>2. CASE ManagerStart(d)
        <5>1. \E request : GoesOn(d, request)
          BY <4>2 DEF ManagerStart
        <5> QED
          BY <5>1, GoesOnFacts
      <4>3. CASE ManagerStartFails(d)
        BY <4>3, StartFailsFacts
      <4> QED
        BY <3>3, <4>1, <4>2, <4>3
    <3>4. ASSUME NoHandler
          PROVE  FALSE
      BY <3>4, NoHandlerFacts
    <3>5. ASSUME NEW d \in Client, StartAnswers(d)
          PROVE  d = c
      BY <3>5, AnswersFacts DEF StartAnswers
    <3> QED
      BY <3>1, <3>2, <3>3, <3>4, <3>5, RequestCases
  <2> DEFINE n == req[c].name
             o == tunnels[n]
  <2>2. /\ run[req[c].run].starter = "returned" /\ n \in Names /\ req[c].run \in Run
        /\ Exists(n) /\ StatusOf(n) = "connecting"
    BY <2>1 DEF StartAnswers, Answers, QInv, RequestsTyped
  <2>3. o \in Ref
    BY <2>2 DEF QInv, IInv, Typed, TypeOK, Exists
  <2>4. \A r \in Run : mt[o].cancel = r => run[r].starter \in {"announce", "sleeping"}
    BY <2>2, <2>3 DEF QInv, IInv, StarterPending, StatusOf
  <2> QED
    BY <2>2, <2>4
<1> QED
  BY <1>1, RequestsAlways, PTL DEF RequestSpec, StartAnswerIsSettled

(* Whatever other clients do, a request about a configured tunnel is never *)
(* answered with "not found" or an internal error, unless the name of the  *)
(* tunnel itself misleads the choice of the error code (handlers.go:54).   *)
THEOREM ConfiguredAnswered == RequestSpec => []ConfiguredIsFound
<1>1. RequestInit => ConfiguredIsFound
  <2>1. RequestInit => answer.code = ""
    BY NoAnswerFacts DEF RequestInit
  <2> QED
    BY <2>1 DEF ConfiguredIsFound
<1>2. QInv /\ ConfiguredIsFound /\ [RequestNext]_requestVars => ConfiguredIsFound'
  <2> USE DEF ConfiguredIsFound
  <2>1. CASE UNCHANGED requestVars
    BY <2>1 DEF requestVars
  <2> SUFFICES ASSUME QInv, RequestNext, answer'.name \in ConfigNames, PhrasesIn[answer'.name] = {}
               PROVE  answer'.code \notin {"TunnelNotFound", "Internal"}
    BY <2>1
  <2>2. \A n \in ConfigNames : Exists(n)
    BY DEF QInv, IInv, ConfiguredSafe
  <2>3. ASSUME NEW c \in Client, NEW n \in Names, TunnelStart(c, n)
        PROVE  answer'.code \notin {"TunnelNotFound", "Internal"}
    <3>1. \/ answer'.code \in {"", "AuthRequired"}
          \/ ~Exists(n) /\ answer'.name = n
      BY <2>3, AnswersFacts, GoesOnFacts, ZenonT(60) DEF TunnelStart
    <3> QED
      BY <2>2, <3>1
  <2>4. ASSUME NEW c \in Client, NEW n \in Names, TunnelStop(c, n)
        PROVE  answer'.code \notin {"TunnelNotFound", "Internal"}
    <3>1. CASE Answers(c, "stop", n, "ok", "")
      <4>1. answer'.code = "ok"
        BY <3>1, AnswersFacts, Zenon
      <4> QED
        BY <4>1
    <3>2. CASE ~Exists(n) /\ Answers(c, "stop", n, StopErrorCode(ErrorTextOf(n, "not found")), "")
      BY <2>2, <3>2, AnswersFacts, ZenonT(60)
    <3>3. CASE Answers(c, "stop", n, StopErrorCode(ErrorTextOf(n, "not running")), "")
      <4>1. answer'.name = n /\ answer'.code = StopErrorCode(ErrorTextOf(n, "not running"))
        BY <3>3, AnswersFacts
      <4>2. ErrorTextOf(n, "not running") = {"not running"}
        BY <4>1 DEF ErrorTextOf
      <4> QED
        BY <4>1, <4>2 DEF StopErrorCode
    <3> QED
      BY <2>4, <3>1, <3>2, <3>3 DEF TunnelStop
  <2>5. ASSUME NEW c \in Client, NEW n \in Names, TunnelStatus(c, n)
        PROVE  answer'.code \notin {"TunnelNotFound", "Internal"}
    <3>1. answer'.code = "ok" \/ (~Exists(n) /\ answer'.name = n)
      BY <2>5, AnswersFacts, Zenon DEF TunnelStatus
    <3> QED
      BY <2>2, <3>1
  <2>6. ASSUME NEW c \in Client, TunnelRegister(c)
        PROVE  answer'.code \notin {"TunnelNotFound", "Internal"}
    <3>1. answer'.code = "ok" \/ answer'.name = Nil
      BY <2>6, AnswersFacts, ZenonT(60) DEF TunnelRegister
    <3> QED
      BY <3>1, NamesAssumption, NoNameAssumption
  <2>7. ASSUME NEW c \in Client, ManagerStart(c)
        PROVE  answer'.code \notin {"TunnelNotFound", "Internal"}
    <3>1. \E request : GoesOn(c, request)
      BY <2>7 DEF ManagerStart
    <3> QED
      BY <3>1, GoesOnFacts
  <2>8. ASSUME NEW c \in Client, ManagerStartFails(c)
        PROVE  answer'.code \notin {"TunnelNotFound", "Internal"}
    BY <2>2, <2>8, StartFailsFacts
  <2>9. ASSUME NEW c \in Client, StartAnswers(c)
        PROVE  answer'.code \notin {"TunnelNotFound", "Internal"}
    BY <2>9, AnswersFacts DEF StartAnswers
  <2>10. CASE NoHandler
    BY <2>10, NoHandlerFacts
  <2> QED
    BY <2>3, <2>4, <2>5, <2>6, <2>7, <2>8, <2>9, <2>10, RequestCases
<1> QED
  BY <1>1, <1>2, RequestsAlways, PTL DEF RequestSpec
=============================================================================
