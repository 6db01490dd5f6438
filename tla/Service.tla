------------------------------- MODULE Service ------------------------------
(***************************************************************************)
(* The life of service processes that share one socket path:               *)
(* internal/cmd/service.go (runServiceStart, startServiceInBackground,     *)
(* runServiceStop), internal/cmd/root.go (startServiceBackground) and, in  *)
(* internal/daemon, IsRunning, Daemon.Start, acceptLoop, Shutdown and      *)
(* handleShutdown.                                                         *)
(*                                                                         *)
(* A process may be killed at any point; its socket then stays behind.     *)
(* Closing a listener first unlinks the path it was opened with, whoever   *)
(* owns the path by then (package net, UnixListener).                      *)
(***************************************************************************)
EXTENDS Naturals, FiniteSets

CONSTANTS
  Proc,       \* service processes; one that ended can be launched again
  Nil, Stale, \* no file at the socket path; the file of a dead process
  TunnelProc  \* bound: the processes whose clients start tunnels

ASSUME ProcAssumption == Nil \notin Proc /\ Stale \notin Proc /\ Nil # Stale

(* Who runs Shutdown: the goroutine of handleShutdown, and main. *)
Closer == {"rpc", "main"}

VARIABLES
  proc,        \* per process, where runServiceStart stands
  path,        \* whose socket is at the socket path
  listener,    \* per process: none, open, unlinked or closed
  acceptLoop,  \* per process: none, accepting or ended
  ctxDone,     \* per process, Daemon.ctx is cancelled
  closing,     \* per process and closer, where Shutdown stands
  answer,      \* per process, the answer to the shutdown request
  connected,   \* per process, some client has a connection to it
  active,      \* per process, some tunnel of its Manager is active
  overlap      \* history: two processes were starting at the same time

vars == <<proc, path, listener, acceptLoop, ctxDone, closing, answer,
          connected, active, overlap>>

daemonVars == <<acceptLoop, ctxDone, closing, answer, connected, active>>

Init ==
  /\ proc = [p \in Proc |-> "none"]
  /\ path = Nil
  /\ listener = [p \in Proc |-> "none"]
  /\ acceptLoop = [p \in Proc |-> "none"]
  /\ ctxDone = [p \in Proc |-> FALSE]
  /\ closing = [p \in Proc |-> [w \in Closer |-> "none"]]
  /\ answer = [p \in Proc |-> "none"]
  /\ connected = [p \in Proc |-> FALSE]
  /\ active = [p \in Proc |-> FALSE]
  /\ overlap = FALSE

(* IsRunning connects to the path and waits for the answer to a ping.  It  *)
(* is true when a process answers and false when nobody listens; until the *)
(* process behind the path accepts, it waits.                              *)
Answers(p) ==
  path = p /\ listener[p] = "open" /\ acceptLoop[p] = "accepting"

IsRunning == \E p \in Proc : Answers(p)

NotRunning == path \in Proc => listener[path] # "open"

Starting ==
  {p \in Proc : proc[p] \in {"launched", "loaded", "removing", "binding", "bound"}}

-----------------------------------------------------------------------------
(* The start of a process *)

Moves(p, from, to) ==
  /\ proc[p] = from
  /\ proc' = [proc EXCEPT ![p] = to]

(* A command that found no service spawns one (startServiceBackground,     *)
(* startServiceInBackground), or somebody runs one in the foreground.      *)
Launch(p) ==
  /\ Moves(p, "none", "launched")
  /\ overlap' = (overlap \/ Starting # {})
  /\ UNCHANGED <<path, listener, daemonVars>>

(* The checks of runServiceStart and of Daemon.Start. *)
CheckForeground(p) ==
  /\ \/ NotRunning /\ Moves(p, "launched", "loaded")
     \/ IsRunning /\ Moves(p, "launched", "none")
  /\ UNCHANGED <<path, listener, daemonVars, overlap>>

CheckStart(p) ==
  /\ \/ NotRunning /\ Moves(p, "loaded", "removing")
     \/ IsRunning /\ Moves(p, "loaded", "none")
  /\ UNCHANGED <<path, listener, daemonVars, overlap>>

(* Mutant: the stale socket is left in place. *)
RemoveNothing(p) ==
  /\ Moves(p, "removing", "binding")
  /\ UNCHANGED <<path, listener, daemonVars, overlap>>

(* os.Remove(socketPath) *)
Remove(p) ==
  /\ Moves(p, "removing", "binding")
  /\ path' = Nil
  /\ UNCHANGED <<listener, daemonVars, overlap>>

(* net.Listen fails, and with it the process, when the path exists. *)
Listen(p) ==
  /\ \/ /\ path = Nil
        /\ Moves(p, "binding", "bound")
        /\ path' = p
        /\ listener' = [listener EXCEPT ![p] = "open"]
     \/ /\ path # Nil
        /\ Moves(p, "binding", "none")
        /\ UNCHANGED <<path, listener>>
  /\ UNCHANGED <<daemonVars, overlap>>

(* go d.acceptLoop(), signal.Notify and the wait for a signal. *)
Serve(p) ==
  /\ Moves(p, "bound", "serving")
  /\ acceptLoop' = [acceptLoop EXCEPT ![p] = "accepting"]
  /\ UNCHANGED <<path, listener, ctxDone, closing, answer, connected, active, overlap>>

-----------------------------------------------------------------------------
(* Clients *)

Connect(p) ==
  /\ Answers(p)
  /\ connected' = [connected EXCEPT ![p] = TRUE]
  /\ UNCHANGED <<proc, path, listener, acceptLoop, ctxDone, closing, answer, active, overlap>>

Disconnect(p) ==
  /\ connected[p]
  /\ connected' = [connected EXCEPT ![p] = FALSE]
  /\ UNCHANGED <<proc, path, listener, acceptLoop, ctxDone, closing, answer, active, overlap>>

(* tunnel.start over a connection; no handler looks at Daemon.ctx. *)
TunnelStart(p) ==
  /\ connected[p] /\ p \in TunnelProc
  /\ active' = [active EXCEPT ![p] = TRUE]
  /\ UNCHANGED <<proc, path, listener, acceptLoop, ctxDone, closing, answer, connected, overlap>>

TunnelEnds(p) ==
  /\ active[p]
  /\ active' = [active EXCEPT ![p] = FALSE]
  /\ UNCHANGED <<proc, path, listener, acceptLoop, ctxDone, closing, answer, connected, overlap>>

(* handleShutdown: the go statement; the answer is written later. *)
RequestShutdown(p) ==
  /\ connected[p]
  /\ closing[p]["rpc"] = "none"
  /\ closing' = [closing EXCEPT ![p]["rpc"] = "cancel"]
  /\ answer' = [answer EXCEPT ![p] = "pending"]
  /\ UNCHANGED <<proc, path, listener, acceptLoop, ctxDone, connected, active, overlap>>

AnswerShutdown(p) ==
  /\ answer[p] = "pending"
  /\ answer' = [answer EXCEPT ![p] = "sent"]
  /\ UNCHANGED <<proc, path, listener, acceptLoop, ctxDone, closing, connected, active, overlap>>

-----------------------------------------------------------------------------
(* Shutdown and the end of a process *)

(* SIGINT or SIGTERM: main leaves its wait and calls Shutdown. *)
Signal(p) ==
  /\ proc[p] = "serving"
  /\ closing[p]["main"] = "none"
  /\ closing' = [closing EXCEPT ![p]["main"] = "cancel"]
  /\ UNCHANGED <<proc, path, listener, acceptLoop, ctxDone, answer, connected, active, overlap>>

ClosingMoves(p, w, from, to) ==
  /\ closing[p][w] = from
  /\ closing' = [closing EXCEPT ![p][w] = to]

(* Mutant: the context is not cancelled. *)
CancelNothing(p, w) ==
  /\ ClosingMoves(p, w, "cancel", "stopAll")
  /\ UNCHANGED <<proc, path, listener, acceptLoop, ctxDone, answer, connected, active, overlap>>

Cancel(p, w) ==
  /\ ClosingMoves(p, w, "cancel", "stopAll")
  /\ ctxDone' = [ctxDone EXCEPT ![p] = TRUE]
  /\ UNCHANGED <<proc, path, listener, acceptLoop, answer, connected, active, overlap>>

(* manager.StopAll ends every tunnel of the moment. *)
StopAll(p, w) ==
  /\ ClosingMoves(p, w, "stopAll", "close")
  /\ active' = [active EXCEPT ![p] = FALSE]
  /\ UNCHANGED <<proc, path, listener, acceptLoop, ctxDone, answer, connected, overlap>>

(* Mutant: every Shutdown removes the socket path itself. *)
RemovePath(p, w) ==
  /\ ClosingMoves(p, w, "close", "closeFd")
  /\ listener' = [listener EXCEPT ![p] = IF @ = "open" THEN "unlinked" ELSE @]
  /\ path' = Nil
  /\ UNCHANGED <<proc, acceptLoop, ctxDone, answer, connected, active, overlap>>

(* listener.Close: the first to call it unlinks the path, *)
UnlinkPath(p, w) ==
  /\ ClosingMoves(p, w, "close", "closeFd")
  /\ listener' = [listener EXCEPT ![p] = IF @ = "open" THEN "unlinked" ELSE @]
  /\ path' = IF listener[p] = "open" THEN Nil ELSE path
  /\ UNCHANGED <<proc, acceptLoop, ctxDone, answer, connected, active, overlap>>

(* Mutant: the listener stays open. *)
CloseNothing(p, w) ==
  /\ ClosingMoves(p, w, "closeFd", "done")
  /\ UNCHANGED <<proc, path, listener, acceptLoop, ctxDone, answer, connected, active, overlap>>

(* and then the descriptor is closed. *)
CloseListener(p, w) ==
  /\ ClosingMoves(p, w, "closeFd", "done")
  /\ listener' = [listener EXCEPT ![p] = "closed"]
  /\ UNCHANGED <<proc, path, acceptLoop, ctxDone, answer, connected, active, overlap>>

(* Accept fails on a closed listener; without the cancellation the loop    *)
(* would try again.                                                        *)
AcceptFails(p) ==
  /\ acceptLoop[p] = "accepting"
  /\ listener[p] = "closed"
  /\ ctxDone[p]
  /\ acceptLoop' = [acceptLoop EXCEPT ![p] = "ended"]
  /\ UNCHANGED <<proc, path, listener, ctxDone, closing, answer, connected, active, overlap>>

(* What a process leaves behind: nothing but its socket. *)
Ends(p) ==
  /\ proc' = [proc EXCEPT ![p] = "none"]
  /\ path' = IF path = p THEN Stale ELSE path
  /\ listener' = [listener EXCEPT ![p] = "none"]
  /\ acceptLoop' = [acceptLoop EXCEPT ![p] = "none"]
  /\ ctxDone' = [ctxDone EXCEPT ![p] = FALSE]
  /\ closing' = [closing EXCEPT ![p] = [w \in Closer |-> "none"]]
  /\ answer' = [answer EXCEPT ![p] = "none"]
  /\ connected' = [connected EXCEPT ![p] = FALSE]
  /\ active' = [active EXCEPT ![p] = FALSE]
  /\ UNCHANGED overlap

(* main returns after its Shutdown. *)
Exit(p) ==
  /\ closing[p]["main"] = "done"
  /\ Ends(p)

(* A crash, SIGKILL, or a signal before signal.Notify. *)
Crash(p) ==
  /\ proc[p] # "none"
  /\ Ends(p)

-----------------------------------------------------------------------------
StartStep(p) ==
  \/ CheckForeground(p) \/ CheckStart(p) \/ Remove(p) \/ Listen(p) \/ Serve(p)

ShutdownStep(p, w) ==
  Cancel(p, w) \/ StopAll(p, w) \/ UnlinkPath(p, w) \/ CloseListener(p, w)

Next ==
  \E p \in Proc :
    \/ Launch(p) \/ StartStep(p)
    \/ Connect(p) \/ Disconnect(p) \/ TunnelStart(p) \/ TunnelEnds(p)
    \/ RequestShutdown(p) \/ AnswerShutdown(p) \/ Signal(p)
    \/ \E w \in Closer : ShutdownStep(p, w)
    \/ AcceptFails(p) \/ Exit(p) \/ Crash(p)

Spec == Init /\ [][Next]_vars

(* The goroutines of a process run.  Nobody has to launch a process, send  *)
(* a request or a signal, or crash.                                        *)
FairSpec ==
  /\ Spec
  /\ \A p \in Proc : /\ WF_vars(StartStep(p))
                     /\ \A w \in Closer : WF_vars(ShutdownStep(p, w))
                     /\ WF_vars(AnswerShutdown(p))
                     /\ WF_vars(AcceptFails(p))
                     /\ WF_vars(Exit(p))

-----------------------------------------------------------------------------
(* Properties *)

TypeOK ==
  /\ proc \in [Proc -> {"none", "launched", "loaded", "removing", "binding",
                        "bound", "serving"}]
  /\ path \in Proc \cup {Nil, Stale}
  /\ listener \in [Proc -> {"none", "open", "unlinked", "closed"}]
  /\ acceptLoop \in [Proc -> {"none", "accepting", "ended"}]
  /\ ctxDone \in [Proc -> BOOLEAN]
  /\ closing \in [Proc -> [Closer -> {"none", "cancel", "stopAll", "close", "closeFd", "done"}]]
  /\ answer \in [Proc -> {"none", "pending", "sent"}]
  /\ connected \in [Proc -> BOOLEAN]
  /\ active \in [Proc -> BOOLEAN]
  /\ overlap \in BOOLEAN

(* A service that listens, and has not begun to close its listener, can be *)
(* reached: the socket path leads to it.  So at most one does, whatever    *)
(* crashes and shutdowns went before (daemon.go:86-104, 219-225).  The     *)
(* checks of a start are not atomic with the rest of it, so this holds     *)
(* while starts do not overlap.                                            *)
ListenerReachable ==
  ~overlap => \A p \in Proc : listener[p] = "open" => path = p

(* No start fails for a socket that somebody left behind: when a process   *)
(* comes to net.Listen, the path is free, unless another start got in      *)
(* between (daemon.go:95-104).                                             *)
ListenFindsPathFree ==
  ~overlap => \A p \in Proc : proc[p] = "binding" => path = Nil

(* The accept loop never runs hot: it tries again at once when Accept      *)
(* fails and the context is not cancelled (daemon.go:123-131), and while   *)
(* it runs no listener is closed without that, although a signal and a     *)
(* request may shut the service down at the same time (daemon.go:220-224). *)
AcceptNeverSpins ==
  \A p \in Proc : acceptLoop[p] = "accepting" /\ listener[p] = "closed" => ctxDone[p]

(* A shutdown request ends the service for new clients: its accept loop    *)
(* returns, and nothing but a new start brings it back.                    *)
ShutdownEndsAccepting ==
  \A p \in Proc : closing[p]["rpc"] # "none" ~> acceptLoop[p] # "accepting"

(* The comment in daemon.go:95, "Remove existing stale socket if present": *)
(* the socket that Start removes has no listener.                          *)
RemovesOnlyStale ==
  [][\A p \in Proc : proc[p] = "removing" /\ proc'[p] = "binding" /\ path \in Proc
                      => listener[path] # "open"]_vars

(* The comment in handlers.go:165, "Send response before shutting down":   *)
(* when the requested Shutdown begins, its answer has been sent.           *)
AnsweredBeforeShutdown ==
  \A p \in Proc : closing[p]["rpc"] \notin {"none", "cancel"} => answer[p] = "sent"

(* internal/cmd/service.go:41, "Stops the service and all running          *)
(* tunnels": after a requested Shutdown the tunnels of the process are     *)
(* ended for good.                                                         *)
NoTunnelAfterShutdown ==
  \A p \in Proc : closing[p]["rpc"] = "done" => ~active[p]

(* README.md:106, "Stop service and all tunnels": the process that was     *)
(* asked to shut down ends.                                                *)
ShutdownEndsProcess ==
  \A p \in Proc : closing[p]["rpc"] # "none" ~> proc[p] = "none"
=============================================================================
