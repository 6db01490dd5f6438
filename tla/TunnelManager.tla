--------------------------- MODULE TunnelManager ---------------------------
(***************************************************************************)
(* internal/tunnel/manager.go: the Manager that owns every tunnel of the   *)
(* gurren service, and the goroutines its methods leave behind.            *)
(*                                                                         *)
(* The Manager keeps a map from names to *ManagedTunnel under one mutex.   *)
(* An action is one critical section of that mutex, or one stretch of code *)
(* between two of them; everything that can run between two such stretches *)
(* interleaves.  A call of Start is a "run": the calling goroutine (the    *)
(* starter, which sleeps 100ms and then promotes the tunnel) and the       *)
(* goroutine it spawns (the runner, which sits in tunnel.Start).           *)
(*                                                                         *)
(* Pointers are elements of Ref and contexts are elements of Run: a new    *)
(* one is any element that nothing refers to any more, which is what the   *)
(* garbage collector allows.  Sleeps end at any later time.                *)
(***************************************************************************)
EXTENDS Naturals

CONSTANTS
  Names,          \* tunnel names
  ConfigNames,    \* the names config.Load produced for this service
  GeneratedNames, \* what namesgenerator.GetRandomName can return
  Ref,            \* identities of *ManagedTunnel objects
  Run,            \* identities of calls of Start: a context and two goroutines
  Nil,            \* the nil pointer
  MaxRemovals     \* bound: deferred removals pending for one name

ASSUME NamesAssumption ==
  ConfigNames \subseteq Names /\ GeneratedNames \subseteq Names

ASSUME NilAssumption == Nil \notin Ref /\ Nil \notin Run

ASSUME BoundAssumption == MaxRemovals \in Nat

VARIABLES
  tunnels,   \* Manager.tunnels: name -> pointer, Nil where the map has no key
  mt,        \* the ManagedTunnel each pointer leads to
  run,       \* each call of Start with its context
  removals,  \* per name, goroutines of Stop that wait to remove it
  notified   \* per name, the status the latest onChange call reported

vars == <<tunnels, mt, run, removals, notified>>

-----------------------------------------------------------------------------
(* state.go *)

State == {"disconnected", "connecting", "connected", "error"}

IsActive(s) == s \in {"connecting", "connected"}

(* The error text of a failed tunnel.Start is abstracted to "failed". *)
ErrorText == {"", "failed"}

ManagedTunnel == [Status : State, Error : ErrorText, Ephemeral : BOOLEAN,
                  cancel : Run \cup {Nil}]

NewTunnel(ephemeral) ==
  [Status |-> "disconnected", Error |-> "", Ephemeral |-> ephemeral,
   cancel |-> Nil]

SetTunnel(o, status, error, cancel) ==
  mt' = [mt EXCEPT ![o] = [@ EXCEPT !.Status = status, !.Error = error,
                                    !.cancel = cancel]]

-----------------------------------------------------------------------------
(* Goroutines *)

(* Where the caller of Manager.Start stands: about to report "connecting", *)
(* in its 100ms sleep, about to report "connected", or returned.           *)
StarterPC == {"announce", "sleeping", "announceConnected", "returned"}

(* Where the spawned goroutine stands: not yet spawned; inside             *)
(* tunnel.Start, opening the tunnel or serving it; returned from it with   *)
(* an error or with ErrTunnelClosed; about to report; finished.            *)
RunnerPC == {"unborn", "opening", "serving", "failed", "closed",
             "reportError", "reportDisconnected", "finished"}

RunRecord == [name : Names \cup {Nil}, tunnel : Ref \cup {Nil},
              cancelled : BOOLEAN, starter : StarterPC, runner : RunnerPC]

NoRun == [name |-> Nil, tunnel |-> Nil, cancelled |-> FALSE,
          starter |-> "returned", runner |-> "finished"]

(* A call of Start that is over: its context can be that of a new call. *)
Free(r) == run[r].starter = "returned" /\ run[r].runner = "finished"

(* The runner has not yet recorded the end of the tunnel in its mt. *)
Live(r) == run[r].runner \in {"unborn", "opening", "serving", "failed", "closed"}

Unreferenced(o) ==
  /\ \A n \in Names : tunnels[n] # o
  /\ \A r \in Run : ~Free(r) => run[r].tunnel # o

Exists(n) == tunnels[n] # Nil

StatusOf(n) == mt[tunnels[n]].Status

-----------------------------------------------------------------------------
(* NewManager, with SetOnChange called before the service accepts clients *)

Init ==
  /\ tunnels \in [Names -> Ref \cup {Nil}]
  /\ \A n \in Names : Exists(n) <=> n \in ConfigNames
  /\ \A m, n \in ConfigNames : tunnels[m] = tunnels[n] => m = n
  /\ mt = [o \in Ref |-> NewTunnel(FALSE)]
  /\ run = [r \in Run |-> NoRun]
  /\ removals = [n \in Names |-> 0]
  /\ notified = [n \in Names |-> "none"]

-----------------------------------------------------------------------------
(* Start *)

(* Mutant: the tunnel is started whatever its status. *)
StartWhenActive(n, r) ==
  /\ Exists(n)
  /\ Free(r)
  /\ SetTunnel(tunnels[n], "connecting", "", r)
  /\ run' = [run EXCEPT ![r] = [name |-> n, tunnel |-> tunnels[n],
                                cancelled |-> FALSE, starter |-> "announce",
                                runner |-> "unborn"]]
  /\ UNCHANGED <<tunnels, removals, notified>>

(* The first critical section: the tunnel becomes "connecting" and owns a  *)
(* fresh context.  Start fails, changing nothing, in every other state.    *)
Start(n, r) ==
  /\ Exists(n)
  /\ ~IsActive(StatusOf(n))
  /\ Free(r)
  /\ SetTunnel(tunnels[n], "connecting", "", r)
  /\ run' = [run EXCEPT ![r] = [name |-> n, tunnel |-> tunnels[n],
                                cancelled |-> FALSE, starter |-> "announce",
                                runner |-> "unborn"]]
  /\ UNCHANGED <<tunnels, removals, notified>>

(* The "connecting" notification, outside the lock, and then the go        *)
(* statement: no runner exists before that notification was made.          *)
Announce(r) ==
  /\ run[r].starter = "announce"
  /\ notified' = [notified EXCEPT ![run[r].name] = "connecting"]
  /\ run' = [run EXCEPT ![r].starter = "sleeping", ![r].runner = "opening"]
  /\ UNCHANGED <<tunnels, mt, removals>>

(* Mutant: the starter promotes the tunnel without looking at its status. *)
WakePromotingAlways(r) ==
  /\ run[r].starter = "sleeping"
  /\ mt' = [mt EXCEPT ![run[r].tunnel].Status = "connected"]
  /\ run' = [run EXCEPT ![r].starter = "announceConnected"]
  /\ UNCHANGED <<tunnels, removals, notified>>

(* Mutant: nobody promotes a tunnel that is still connecting. *)
WakeWithoutPromotion(r) ==
  /\ run[r].starter = "sleeping"
  /\ run' = [run EXCEPT ![r].starter = "returned"]
  /\ UNCHANGED <<tunnels, mt, removals, notified>>

(* The second critical section, after the sleep. *)
Wake(r) ==
  /\ run[r].starter = "sleeping"
  /\ \/ /\ mt[run[r].tunnel].Status = "connecting"
        /\ mt' = [mt EXCEPT ![run[r].tunnel].Status = "connected"]
        /\ run' = [run EXCEPT ![r].starter = "announceConnected"]
     \/ /\ mt[run[r].tunnel].Status # "connecting"
        /\ run' = [run EXCEPT ![r].starter = "returned"]
        /\ UNCHANGED mt
  /\ UNCHANGED <<tunnels, removals, notified>>

AnnounceConnected(r) ==
  /\ run[r].starter = "announceConnected"
  /\ notified' = [notified EXCEPT ![run[r].name] = "connected"]
  /\ run' = [run EXCEPT ![r].starter = "returned"]
  /\ UNCHANGED <<tunnels, mt, removals>>

-----------------------------------------------------------------------------
(* The runner inside tunnel.Start, as module TunnelRun shows it behaves *)

RunnerMoves(r, from, to) ==
  /\ run[r].runner = from
  /\ run' = [run EXCEPT ![r].runner = to]
  /\ UNCHANGED <<tunnels, mt, removals, notified>>

Open(r) == RunnerMoves(r, "opening", "serving")

OpenFails(r) == RunnerMoves(r, "opening", "failed")

(* Mutant: a tunnel that serves never notices that it was cancelled. *)
CloseUnnoticed(r) == ~run[r].cancelled /\ RunnerMoves(r, "serving", "closed")

Close(r) == run[r].cancelled /\ RunnerMoves(r, "serving", "closed")

(* The critical section after tunnel.Start returned. *)
Record(r) ==
  /\ \/ /\ run[r].runner = "failed"
        /\ SetTunnel(run[r].tunnel, "error", "failed", Nil)
        /\ run' = [run EXCEPT ![r].runner = "reportError"]
     \/ /\ run[r].runner = "closed"
        /\ SetTunnel(run[r].tunnel, "disconnected", "", Nil)
        /\ run' = [run EXCEPT ![r].runner = "reportDisconnected"]
  /\ UNCHANGED <<tunnels, removals, notified>>

Report(r) ==
  /\ \/ /\ run[r].runner = "reportError"
        /\ notified' = [notified EXCEPT ![run[r].name] = "error"]
     \/ /\ run[r].runner = "reportDisconnected"
        /\ notified' = [notified EXCEPT ![run[r].name] = "disconnected"]
  /\ run' = [run EXCEPT ![r].runner = "finished"]
  /\ UNCHANGED <<tunnels, mt, removals>>

-----------------------------------------------------------------------------
(* Stop, its deferred removal, and StopAll *)

CancelRuns(S) ==
  run' = [r \in Run |-> IF r \in S THEN [run[r] EXCEPT !.cancelled = TRUE]
                        ELSE run[r]]

(* Mutant: every stopped tunnel is removed, not only the ad-hoc ones. *)
StopRemovingAny(n) ==
  /\ Exists(n)
  /\ IsActive(StatusOf(n))
  /\ CancelRuns({mt[tunnels[n]].cancel})
  /\ removals[n] < MaxRemovals
  /\ removals' = [removals EXCEPT ![n] = @ + 1]
  /\ UNCHANGED <<tunnels, mt, notified>>

(* Cancels the run and returns at once: the status only changes when the   *)
(* runner records its end.                                                 *)
Stop(n) ==
  /\ Exists(n)
  /\ IsActive(StatusOf(n))
  /\ CancelRuns({mt[tunnels[n]].cancel})
  /\ \/ /\ mt[tunnels[n]].Ephemeral
        /\ removals[n] < MaxRemovals
        /\ removals' = [removals EXCEPT ![n] = @ + 1]
     \/ /\ ~mt[tunnels[n]].Ephemeral
        /\ UNCHANGED removals
  /\ UNCHANGED <<tunnels, mt, notified>>

(* Mutant: the tunnel is removed even while it is active. *)
RemoveAnyStatus(n) ==
  /\ removals[n] > 0
  /\ removals' = [removals EXCEPT ![n] = @ - 1]
  /\ tunnels' = [tunnels EXCEPT ![n] = Nil]
  /\ UNCHANGED <<mt, run, notified>>

(* The goroutine of Stop, 200ms later: it looks the name up again. *)
RemoveAfterStop(n) ==
  /\ removals[n] > 0
  /\ removals' = [removals EXCEPT ![n] = @ - 1]
  /\ \/ /\ Exists(n)
        /\ ~IsActive(StatusOf(n))
        /\ tunnels' = [tunnels EXCEPT ![n] = Nil]
     \/ /\ Exists(n) => IsActive(StatusOf(n))
        /\ UNCHANGED tunnels
  /\ UNCHANGED <<mt, run, notified>>

StopAll ==
  /\ CancelRuns({mt[tunnels[n]].cancel : n \in {m \in Names : Exists(m)}})
  /\ UNCHANGED <<tunnels, mt, removals, notified>>

-----------------------------------------------------------------------------
(* Register and Unregister *)

(* Mutant: a generated name is taken without looking whether it is free. *)
RegisterOverwriting(n, o) ==
  /\ n \in GeneratedNames
  /\ Unreferenced(o)
  /\ tunnels' = [tunnels EXCEPT ![n] = o]
  /\ mt' = [mt EXCEPT ![o] = NewTunnel(TRUE)]
  /\ UNCHANGED <<run, removals, notified>>

(* A generated name that is taken is drawn again, at most ten times, and   *)
(* then Register fails and changes nothing.                                *)
Register(n, o) ==
  /\ n \in GeneratedNames
  /\ ~Exists(n)
  /\ Unreferenced(o)
  /\ tunnels' = [tunnels EXCEPT ![n] = o]
  /\ mt' = [mt EXCEPT ![o] = NewTunnel(TRUE)]
  /\ UNCHANGED <<run, removals, notified>>

Unregister(n) ==
  /\ Exists(n)
  /\ mt[tunnels[n]].Ephemeral
  /\ ~IsActive(StatusOf(n))
  /\ tunnels' = [tunnels EXCEPT ![n] = Nil]
  /\ UNCHANGED <<mt, run, removals, notified>>

-----------------------------------------------------------------------------
Starter(r) == Announce(r) \/ Wake(r) \/ AnnounceConnected(r)

Runner(r) == Open(r) \/ OpenFails(r) \/ Close(r) \/ Record(r) \/ Report(r)

Next ==
  \/ \E n \in Names, r \in Run : Start(n, r)
  \/ \E r \in Run : Starter(r)
  \/ \E r \in Run : Runner(r)
  \/ \E n \in Names : Stop(n)
  \/ \E n \in Names : RemoveAfterStop(n)
  \/ StopAll
  \/ \E n \in Names, o \in Ref : Register(n, o)
  \/ \E n \in Names : Unregister(n)

Spec == Init /\ [][Next]_vars

(* Go runs every goroutine that can run, and sleeps end.  A notification   *)
(* returns when the subscribers read their sockets.                        *)
SchedulerFairness ==
  /\ \A r \in Run : WF_vars(Starter(r))
  /\ \A r \in Run : WF_vars(Record(r) \/ Report(r))
  /\ \A n \in Names : WF_vars(RemoveAfterStop(n))

(* The environment's part: the SSH server answers or refuses, so that      *)
(* ssh.Dial returns and the connections of a cancelled tunnel end.         *)
NetworkAnswers ==
  \A r \in Run : WF_vars(Open(r) \/ OpenFails(r)) /\ WF_vars(Close(r))

FairSpec == Spec /\ SchedulerFairness

-----------------------------------------------------------------------------
(* Properties *)

(* Every field of the Manager, of a ManagedTunnel and of a call of Start   *)
(* holds a value of its type, and no more removals wait than Stop allows.  *)
TypeOK ==
  /\ tunnels \in [Names -> Ref \cup {Nil}]
  /\ mt \in [Ref -> ManagedTunnel]
  /\ run \in [Run -> RunRecord]
  /\ removals \in [Names -> 0 .. MaxRemovals]
  /\ notified \in [Names -> State \cup {"none"}]

(* A tunnel is shown as active exactly when one runner is at work on it,   *)
(* and then its cancel function is that runner's: the guard of Start       *)
(* (manager.go:85) and the reset of cancel (manager.go:125) keep a second  *)
(* SSH connection from ever existing behind one name.                      *)
OneRunnerPerTunnel ==
  \A n \in Names : Exists(n) =>
    {r \in Run : Live(r) /\ run[r].tunnel = tunnels[n]}
      = IF IsActive(StatusOf(n)) THEN {mt[tunnels[n]].cancel} ELSE {}

(* No runner is orphaned: while it is at work, the Manager's map leads     *)
(* from its name to its tunnel and the tunnel's cancel function is its     *)
(* own, so that Stop and StopAll reach it.  The deferred removal of Stop   *)
(* (manager.go:184) would otherwise drop a restarted tunnel that runs on.  *)
RunnersReachable ==
  \A r \in Run : Live(r) =>
    /\ tunnels[run[r].name] = run[r].tunnel
    /\ mt[run[r].tunnel].cancel = r

(* The tunnels of the configuration stay listed for the life of the        *)
(* service, whichever removals are pending (manager.go:178, 292).          *)
ConfiguredKept == \A n \in ConfigNames : Exists(n)

(* Status and List never show a stale error text: there is one exactly     *)
(* while the status is "error" (manager.go:92, 118-124).                   *)
ErrorTextMatchesStatus ==
  \A n \in Names : Exists(n) =>
    (mt[tunnels[n]].Error # "" <=> StatusOf(n) = "error")

(* A tunnel that shows "connecting" has its own starter still on the way   *)
(* to the promotion in manager.go:141: it cannot be left in that status.   *)
ConnectingHasStarter ==
  \A n \in Names : Exists(n) /\ StatusOf(n) = "connecting" =>
    run[mt[tunnels[n]].cancel].starter \in {"announce", "sleeping"}

(* The Manager keeps the promises of TunnelLifecycle. *)
LifecycleState ==
  [n \in Names |-> IF Exists(n) THEN StatusOf(n) ELSE "absent"]

AskedToStop ==
  {n \in Names : /\ Exists(n)
                 /\ mt[tunnels[n]].cancel # Nil
                 /\ run[mt[tunnels[n]].cancel].cancelled}

Lifecycle == INSTANCE TunnelLifecycle
               WITH state <- LifecycleState, stopping <- AskedToStop

(* Every step of the Manager and its goroutines is a step of the life      *)
(* cycle or invisible: no interleaving shows a caller an illegal change of *)
(* status, or "disconnected" for a tunnel nobody stopped.                  *)
LifecycleSpec == Lifecycle!Spec

(* However long the SSH server takes, a tunnel does not stay "connecting": *)
(* the starter's sleep ends and promotes it unless it failed before.       *)
ConnectingSettles ==
  \A n \in Names : (Exists(n) /\ StatusOf(n) = "connecting")
                     ~> ~(Exists(n) /\ StatusOf(n) = "connecting")

(* A run that Stop or StopAll cancelled ends, and its end is recorded, if  *)
(* the network answers: no later call of Start or Stop takes it back.      *)
CancelledRunEnds ==
  NetworkAnswers => \A r \in Run : (run[r].cancelled /\ Live(r)) ~> ~Live(r)

(* The comment of Stop (manager.go:157) says of an ad-hoc tunnel that it   *)
(* "will be removed after stopping": once the removal is under way, the    *)
(* tunnel goes away or is started again by somebody.                       *)
StoppedAdHocRemoved ==
  NetworkAnswers =>
    \A n \in Names :
      removals[n] > 0 ~>
        \/ ~Exists(n)
        \/ \E r \in Run : Live(r) /\ ~run[r].cancelled
                           /\ run[r].tunnel = tunnels[n]

(* README.md:265, "Status updates are pushed from service to subscribed    *)
(* clients in real-time": when no run is under way, the latest update a    *)
(* subscriber got for a configured tunnel is the tunnel's status.          *)
UpdatesSettle ==
  (\A r \in Run : Free(r)) =>
    \A n \in ConfigNames : notified[n] \in {"none", StatusOf(n)}

(* The comment in manager.go:140, "If still connecting after brief wait,   *)
(* consider it connected": a tunnel is promoted by the starter of its own  *)
(* run, after the wait of that run.                                        *)
PromotedByOwnStarter ==
  [][\A r \in Run :
       (run[r].starter = "sleeping" /\ run'[r].starter = "announceConnected")
         => mt[run[r].tunnel].cancel = r]_vars
=============================================================================
