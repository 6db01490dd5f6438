------------------------------- MODULE Requests -------------------------------
(***************************************************************************)
(* internal/daemon/handlers.go: the requests of clients, composed with the *)
(* Manager of TunnelManager they are carried out on.                       *)
(*                                                                         *)
(* A connection has one handler, which carries out one request at a time.  *)
(* Most handlers enter the Manager's lock once and are one action here.    *)
(* handleTunnelStart enters it four times: GetConfig, the two critical     *)
(* sections of Start, and Status; other requests, runners and removals     *)
(* come in between.  The caller of Manager.Start in TunnelManager, the     *)
(* starter, is the handler itself.  Connections, subscriptions and the     *)
(* writing of answers are the module Daemon.                               *)
(***************************************************************************)
EXTENDS TunnelManager

CONSTANTS
  Client,    \* connections, each with its handler
  PhrasesIn  \* per name, the phrases of Phrase that its text contains

(* What the handlers search the text of an error for. *)
Phrase == {"already", "not found", "not running"}

ASSUME NoNameAssumption == Nil \notin Names

ASSUME PhrasesAssumption == PhrasesIn \in [Names -> SUBSET Phrase]

VARIABLES
  req,    \* per connection, the request that is being carried out
  answer  \* the answer the latest step gave, NoAnswer if it gave none

requestVars == <<vars, req, answer>>

(* protocol.go *)
ErrorCode == {"InvalidParams", "TunnelNotFound", "TunnelActive",
              "TunnelInactive", "AuthRequired", "Internal"}

(* A request that is not answered in one step is a tunnel.start. *)
RequestRecord ==
  [pc : {"none", "authenticated", "starting"},
   name : Names \cup {Nil}, config : Ref \cup {Nil}, run : Run \cup {Nil}]

NoRequest == [pc |-> "none", name |-> Nil, config |-> Nil, run |-> Nil]

Answer == [client : Client, method : {"start", "stop", "status", "register"},
           name : Names \cup {Nil}, code : ErrorCode \cup {"ok"},
           status : State \cup {""}]

NoAnswer == [client |-> Nil, method |-> "", name |-> Nil, code |-> "", status |-> ""]

RequestInit == Init /\ req = [c \in Client |-> NoRequest] /\ answer = NoAnswer

-----------------------------------------------------------------------------
(* Answers *)

(* NewResult and NewError; the connection reads its next request. *)
Answers(c, method, n, code, status) ==
  /\ answer' = [client |-> c, method |-> method, name |-> n, code |-> code,
                status |-> status]
  /\ req' = [req EXCEPT ![c] = NoRequest]

(* The handler goes on without an answer yet. *)
GoesOn(c, request) ==
  req' = [req EXCEPT ![c] = request] /\ answer' = NoAnswer

(* A step of no handler. *)
NoHandler == UNCHANGED req /\ answer' = NoAnswer

(* The text of an error of the Manager: its reason, with the name in it. *)
ErrorTextOf(n, reason) == {reason} \cup PhrasesIn[n]

StartErrorCode(text) ==
  IF "already" \in text THEN "TunnelActive" ELSE "Internal"

StopErrorCode(text) ==
  CASE "not found" \in text -> "TunnelNotFound"
    [] "not found" \notin text /\ "not running" \in text -> "TunnelInactive"
    [] OTHER -> "Internal"

-----------------------------------------------------------------------------
(* handleTunnelStart *)

(* GetConfig, and GetTunnelByName of the configuration where the Manager   *)
(* has no such tunnel; the pointer stands for the configuration it leads   *)
(* to.  Then parseHost and GetAuthMethodsWithIdentity, which touch nothing *)
(* of the Manager: see module Dial.                                        *)
TunnelStart(c, n) ==
  /\ req[c].pc = "none"
  /\ \/ /\ Exists(n) \/ n \in ConfigNames
        /\ \/ GoesOn(c, [pc |-> "authenticated", name |-> n,
                         config |-> tunnels[n], run |-> Nil])
           \/ Answers(c, "start", n, "AuthRequired", "")
     \/ /\ ~Exists(n) /\ n \notin ConfigNames
        /\ Answers(c, "start", n, "TunnelNotFound", "")
  /\ UNCHANGED vars

(* manager.Start up to its first unlock. *)
ManagerStart(c) ==
  /\ req[c].pc = "authenticated"
  /\ \E r \in Run :
       /\ \A d \in Client : req[d].run # r
       /\ Start(req[c].name, r)
       /\ GoesOn(c, [req[c] EXCEPT !.pc = "starting", !.run = r])

ManagerStartFails(c) ==
  LET n == req[c].name
  IN /\ req[c].pc = "authenticated"
     /\ \/ /\ ~Exists(n)
           /\ Answers(c, "start", n, StartErrorCode(ErrorTextOf(n, "not found")), "")
        \/ /\ Exists(n) /\ IsActive(StatusOf(n))
           /\ Answers(c, "start", n, StartErrorCode(ErrorTextOf(n, "already")), "")
     /\ UNCHANGED vars

(* Mutant: the status is read before manager.Start has returned. *)
StartAnswersEarly(c) ==
  LET n == req[c].name
  IN /\ req[c].pc = "starting"
     /\ Answers(c, "start", n, "ok", IF Exists(n) THEN StatusOf(n) ELSE "disconnected")
     /\ UNCHANGED vars

(* manager.Start has returned; Status shows a name that is gone as         *)
(* "disconnected".                                                         *)
StartAnswers(c) ==
  LET n == req[c].name
  IN /\ req[c].pc = "starting"
     /\ run[req[c].run].starter = "returned"
     /\ Answers(c, "start", n, "ok", IF Exists(n) THEN StatusOf(n) ELSE "disconnected")
     /\ UNCHANGED vars

-----------------------------------------------------------------------------
(* The other handlers *)

TunnelStop(c, n) ==
  /\ req[c].pc = "none"
  /\ \/ Stop(n) /\ Answers(c, "stop", n, "ok", "")
     \/ /\ ~Exists(n)
        /\ Answers(c, "stop", n, StopErrorCode(ErrorTextOf(n, "not found")), "")
        /\ UNCHANGED vars
     \/ /\ Exists(n) /\ ~IsActive(StatusOf(n))
        /\ Answers(c, "stop", n, StopErrorCode(ErrorTextOf(n, "not running")), "")
        /\ UNCHANGED vars

TunnelStatus(c, n) ==
  /\ req[c].pc = "none"
  /\ \/ Exists(n) /\ Answers(c, "status", n, "ok", StatusOf(n))
     \/ ~Exists(n) /\ Answers(c, "status", n, "TunnelNotFound", "")
  /\ UNCHANGED vars

(* A name is drawn up to ten times; all may be taken. *)
TunnelRegister(c) ==
  /\ req[c].pc = "none"
  /\ \/ \E n \in GeneratedNames, o \in Ref :
          /\ \A d \in Client : req[d].config # o
          /\ Register(n, o)
          /\ Answers(c, "register", n, "ok", "")
     \/ /\ \E n \in GeneratedNames : Exists(n)
        /\ Answers(c, "register", Nil, "Internal", "")
        /\ UNCHANGED vars

(* The goroutine of handleShutdown, and a signal to the service. *)
Shutdown == StopAll /\ NoHandler

-----------------------------------------------------------------------------
Handler(c) ==
  ManagerStart(c) \/ ManagerStartFails(c) \/ StartAnswers(c)

NewRequest(c) ==
  \/ \E n \in Names : TunnelStart(c, n) \/ TunnelStop(c, n) \/ TunnelStatus(c, n)
  \/ TunnelRegister(c)

RequestNext ==
  \/ \E c \in Client : NewRequest(c) \/ Handler(c)
  \/ \E r \in Run : (Starter(r) \/ Runner(r)) /\ NoHandler
  \/ \E n \in Names : RemoveAfterStop(n) /\ NoHandler
  \/ Shutdown

RequestSpec == RequestInit /\ [][RequestNext]_requestVars

-----------------------------------------------------------------------------
(* Properties *)

(* A client that started a tunnel is never told that it is "connecting"    *)
(* for its own run: by the time the status is read (handlers.go:60) that   *)
(* run was promoted or has ended, and a "connecting" is that of a run      *)
(* another client began meanwhile.                                         *)
StartAnswerIsSettled ==
  [][\A c \in Client :
       (answer'.client = c /\ answer'.method = "start" /\ answer'.status = "connecting")
         => mt[tunnels[req[c].name]].cancel # req[c].run]_requestVars

(* handleTunnelStart looks the configuration up in one critical section    *)
(* and starts the name in another (handlers.go:35, 53).  For a tunnel of   *)
(* the configuration file both mean the same tunnel: the host that is      *)
(* dialled and the addresses that are forwarded belong together.           *)
StartsWhatItLookedUp ==
  \A c \in Client :
    (req[c].pc = "starting" /\ req[c].name \in ConfigNames)
      => run[req[c].run].tunnel = req[c].config

(* A request about a tunnel of the configuration file is never answered    *)
(* with "not found" or an internal error, whatever other clients do: the   *)
(* fallback to the configuration in handlers.go:37 never meets a Manager   *)
(* that lacks the tunnel.  The code of an error is chosen by searching its *)
(* text, so names that contain the phrases searched for are excepted.      *)
ConfiguredIsFound ==
  (answer.name \in ConfigNames /\ PhrasesIn[answer.name] = {})
    => answer.code \notin {"TunnelNotFound", "Internal"}

(* The same of every tunnel.  It fails for an ad-hoc tunnel that is        *)
(* removed between the two critical sections and whose name is drawn again *)
(* for another: the host of the one is dialled for the other.              *)
AnyStartsWhatItLookedUp ==
  \A c \in Client :
    req[c].pc = "starting" => run[req[c].run].tunnel = req[c].config

(* tunnel.start answers TunnelActive only of an active tunnel.  It fails   *)
(* for a tunnel whose own name contains "already" (handlers.go:54).        *)
ActiveCodeIsTrue ==
  [][answer'.code = "TunnelActive" =>
       Exists(answer'.name) /\ IsActive(StatusOf(answer'.name))]_requestVars
=============================================================================
