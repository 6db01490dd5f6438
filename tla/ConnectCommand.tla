--------------------------- MODULE ConnectCommand ---------------------------
(***************************************************************************)
(* internal/cmd/root.go, runConnect: the command that starts the service   *)
(* where none is running, starts one tunnel and waits until it is          *)
(* interrupted or the tunnel is stopped elsewhere.                         *)
(*                                                                         *)
(* The service appears as what the command sees of it: the status of its   *)
(* tunnel, which others may stop, restart or lose, the status changes not  *)
(* yet broadcast (the Manager reports a change after it has made it, and   *)
(* reports may overtake each other), and the channel of notifications of   *)
(* this client, which those of all other tunnels go through.  The calls of *)
(* the command are atomic here but for tunnel.start, which takes 100ms;    *)
(* RpcClient has the calls in detail.                                      *)
(***************************************************************************)
EXTENDS Naturals, Sequences, SequencesExt

CONSTANTS
  MaxChanges,  \* bound: status changes nobody but others cause
  Capacity,    \* capacity of the client's notifications channel: 100
  MaxPolls     \* how often startServiceBackground looks for the service: 20

ASSUME ChangesAssumption == MaxChanges \in Nat /\ Capacity \in Nat \ {0}

ASSUME PollsAssumption == MaxPolls \in Nat \ {0}

VARIABLES
  pc,          \* where runConnect stands
  polls,       \* how often startServiceBackground has looked in vain
  adHoc,       \* the tunnel comes from flags and is registered first
  daemon,      \* the service: down, being launched, or answering
  signalled,   \* a signal waits in sigCh
  watcher,     \* the goroutine that ranges over Notifications()
  link,        \* the connection to the service: none yet, up or lost
  subscribed,  \* the service has this client among its subscribers
  status,      \* the status of the tunnel, "absent" when not registered
  pending,     \* changes that are not broadcast yet, "other" for any other tunnel's
  feed,        \* notifications queued for this client
  missed,      \* history: an end of the tunnel met a full channel
  changes      \* number of changes others have caused

startup == <<polls, adHoc, daemon>>

service == <<status, pending, feed, missed, changes>>

vars == <<startup, pc, signalled, watcher, link, subscribed, service>>

IsActive(s) == s \in {"connecting", "connected"}

HasEnded(s) == s \in {"error", "disconnected"}

Status == {"absent", "disconnected", "connecting", "connected", "error"}

(* A named tunnel in any status, or an ad-hoc one still to be registered.  *)
(* A service that was just started has no tunnel that is not disconnected. *)
Init ==
  /\ pc = "check"
  /\ polls = 0
  /\ adHoc \in BOOLEAN
  /\ daemon \in {"down", "up"}
  /\ status \in CASE adHoc -> {"absent"}
                  [] ~adHoc /\ daemon = "up" -> Status
                  [] OTHER -> {"absent", "disconnected"}
  /\ signalled = FALSE
  /\ watcher = "none"
  /\ link = "none"
  /\ subscribed = FALSE
  /\ pending = <<>> /\ feed = <<>> /\ missed = FALSE
  /\ changes = 0

ChangeTo(s) ==
  /\ status' = s
  /\ pending' = Append(pending, s)

-----------------------------------------------------------------------------
(* startServiceBackground and Connect *)

StartsUp(next) ==
  /\ pc' = next
  /\ UNCHANGED <<adHoc, signalled, watcher, subscribed, service>>

(* IsRunning, and where nothing answers the launch of the service, which   *)
(* fails or leaves a process behind that is on its way.                    *)
EnsureService ==
  /\ pc = "check"
  /\ \/ daemon = "up" /\ StartsUp("connect") /\ UNCHANGED daemon
     \/ daemon # "up" /\ StartsUp("polling") /\ daemon' = "launching"
     \/ daemon # "up" /\ StartsUp("failed") /\ UNCHANGED daemon
  /\ UNCHANGED <<polls, link>>

(* Mutant: the looks are not counted. *)
PollUncounted ==
  /\ pc = "polling"
  /\ StartsUp(IF daemon = "up" THEN "connect" ELSE "polling")
  /\ UNCHANGED <<polls, daemon, link>>

(* One pass of the loop that waits for the service. *)
Poll ==
  /\ pc = "polling"
  /\ polls' = polls + 1
  /\ StartsUp(CASE daemon = "up" -> "connect"
                [] daemon # "up" /\ polls' < MaxPolls -> "polling"
                [] OTHER -> "failed")
  /\ UNCHANGED <<daemon, link>>

Connect ==
  /\ pc = "connect"
  /\ \/ daemon = "up" /\ link' = "up" /\ StartsUp(IF adHoc THEN "register" ELSE "start")
     \/ daemon # "up" /\ link' = link /\ StartsUp("failed")
  /\ UNCHANGED <<polls, daemon>>

-----------------------------------------------------------------------------
(* runConnect, once it is connected *)

TunnelRegister ==
  /\ pc = "register" /\ link = "up"
  /\ pc' = "start"
  /\ status' = "disconnected"
  /\ UNCHANGED <<startup, signalled, watcher, link, subscribed, pending, feed, missed, changes>>

(* Manager.Start refuses an unknown or an active tunnel; the command exits. *)
TunnelStart ==
  /\ pc = "start" /\ link = "up"
  /\ \/ /\ HasEnded(status)
        /\ pc' = "starting"
        /\ ChangeTo("connecting")
     \/ /\ status = "absent" \/ IsActive(status)
        /\ pc' = "failed"
        /\ UNCHANGED <<status, pending>>
  /\ UNCHANGED <<startup, signalled, watcher, link, subscribed, feed, missed, changes>>

(* The 100ms are over.  The result carries the status, which the command   *)
(* does not look at.                                                       *)
TunnelStartReturns ==
  /\ pc = "starting" /\ link = "up"
  /\ pc' = "list"
  /\ \/ status = "connecting" /\ ChangeTo("connected")
     \/ status # "connecting" /\ UNCHANGED <<status, pending>>
  /\ UNCHANGED <<startup, signalled, watcher, link, subscribed, feed, missed, changes>>

(* A flag is missing, the registration is refused, authentication fails,   *)
(* or a call meets a lost connection: log.Fatal.                           *)
CallFails ==
  /\ pc \in {"register", "start"} \/ (pc = "starting" /\ link = "lost")
  /\ pc' = "failed"
  /\ UNCHANGED <<startup, signalled, watcher, link, subscribed, service>>

(* An error of TunnelList is only logged. *)
TunnelList ==
  /\ pc = "list"
  /\ pc' = "subscribe"
  /\ UNCHANGED <<startup, signalled, watcher, link, subscribed, service>>

(* So is an error of Subscribe.  signal.Notify and the go statement follow. *)
Subscribe ==
  /\ pc = "subscribe"
  /\ pc' = "waiting"
  /\ subscribed' = (link = "up")
  /\ watcher' = "listening"
  /\ UNCHANGED <<startup, signalled, link, service>>

(* Mutant: the goroutine returns at the first notification. *)
WatcherReadsOne ==
  /\ watcher = "listening"
  /\ feed # <<>>
  /\ feed' = Tail(feed)
  /\ watcher' = IF HasEnded(Head(feed)) THEN "found" ELSE "ended"
  /\ UNCHANGED <<startup, pc, signalled, link, subscribed, status, pending, missed, changes>>

(* What is of another tunnel, or of an active one, is passed over. *)
WatcherReads ==
  /\ watcher = "listening"
  /\ feed # <<>>
  /\ feed' = Tail(feed)
  /\ watcher' = IF HasEnded(Head(feed)) THEN "found" ELSE "listening"
  /\ UNCHANGED <<startup, pc, signalled, link, subscribed, status, pending, missed, changes>>

(* readLoop closed the channel: the range ends and doneCh stays open. *)
WatcherEnds ==
  /\ watcher = "listening"
  /\ link = "lost" /\ feed = <<>>
  /\ watcher' = "ended"
  /\ UNCHANGED <<startup, pc, signalled, link, subscribed, service>>

(* Before signal.Notify a signal ends the process, the tunnel runs on. *)
Signal ==
  /\ pc \notin {"failed", "killed", "exited"}
  /\ \/ /\ pc = "waiting"
        /\ signalled' = TRUE
        /\ UNCHANGED pc
     \/ /\ pc \notin {"waiting", "stopping"}
        /\ pc' = "killed"
        /\ UNCHANGED signalled
  /\ UNCHANGED <<startup, watcher, link, subscribed, service>>

(* The select. *)
SeeDone ==
  /\ pc = "waiting"
  /\ watcher = "found"
  /\ pc' = "exited"
  /\ UNCHANGED <<startup, signalled, watcher, link, subscribed, service>>

(* Mutant: the signal is taken and the command goes on waiting. *)
SeeSignalOnly ==
  /\ pc = "waiting"
  /\ signalled
  /\ signalled' = TRUE
  /\ UNCHANGED <<startup, pc, watcher, link, subscribed, service>>

SeeSignal ==
  /\ pc = "waiting"
  /\ signalled
  /\ pc' = "stopping"
  /\ UNCHANGED <<startup, signalled, watcher, link, subscribed, service>>

(* TunnelStop; its error, for a tunnel that is not running or for a lost   *)
(* connection, is only logged.                                             *)
TunnelStop ==
  /\ pc = "stopping"
  /\ pc' = "exited"
  /\ \/ link = "up" /\ IsActive(status) /\ ChangeTo("disconnected")
     \/ ~(link = "up" /\ IsActive(status)) /\ UNCHANGED <<status, pending>>
  /\ UNCHANGED <<startup, signalled, watcher, link, subscribed, feed, missed, changes>>

-----------------------------------------------------------------------------
(* The service *)

(* The tunnel fails, is stopped by anybody, or is started by others; or    *)
(* another tunnel changes.  A run starts when its "connecting" has been    *)
(* reported.                                                               *)
OthersChange ==
  /\ daemon = "up"
  /\ changes < MaxChanges
  /\ changes' = changes + 1
  /\ \/ /\ IsActive(status) /\ ~Contains(pending, "connecting")
        /\ \E s \in {"error", "disconnected"} : ChangeTo(s)
     \/ HasEnded(status) /\ ChangeTo("connecting")
     \/ status = "connecting" /\ ChangeTo("connected")
     \/ pending' = Append(pending, "other") /\ UNCHANGED status
  /\ UNCHANGED <<startup, pc, signalled, watcher, link, subscribed, feed, missed>>

(* Each change is reported by the goroutine that made it, so any may be    *)
(* the next.  readLoop drops what meets a full channel.                    *)
Broadcast ==
  /\ daemon = "up"
  /\ \E k \in DOMAIN pending :
       /\ pending' = RemoveAt(pending, k)
       /\ \/ /\ subscribed /\ Len(feed) < Capacity
             /\ feed' = Append(feed, pending[k]) /\ UNCHANGED missed
          \/ /\ subscribed /\ Len(feed) = Capacity
             /\ missed' = (missed \/ HasEnded(pending[k])) /\ UNCHANGED feed
          \/ ~subscribed /\ UNCHANGED <<feed, missed>>
  /\ UNCHANGED <<startup, pc, signalled, watcher, link, subscribed, status, changes>>

(* The launched process, or one that somebody else launches, answers; or   *)
(* it exits: it cannot load its configuration or finds another service at  *)
(* the socket.                                                             *)
LaunchEnds ==
  /\ daemon # "up"
  /\ daemon' \in {"up", "down"}
  /\ UNCHANGED <<polls, adHoc, pc, signalled, watcher, link, subscribed, service>>

(* Its tunnels end with it; the next service knows those that are          *)
(* configured.                                                             *)
ServiceEnds ==
  /\ daemon = "up"
  /\ daemon' = "down"
  /\ link' = IF link = "up" THEN "lost" ELSE link
  /\ status' \in IF status = "absent" THEN {"absent"} ELSE {"absent", "disconnected"}
  /\ pending' = <<>>
  /\ subscribed' = FALSE
  /\ UNCHANGED <<polls, adHoc, pc, signalled, watcher, feed, missed, changes>>

-----------------------------------------------------------------------------
MainStep ==
  \/ EnsureService \/ Poll \/ Connect
  \/ TunnelRegister \/ TunnelStart \/ TunnelStartReturns \/ CallFails
  \/ TunnelList \/ Subscribe \/ SeeDone \/ SeeSignal \/ TunnelStop

WatcherStep == WatcherReads \/ WatcherEnds

Next ==
  \/ MainStep \/ WatcherStep \/ Signal
  \/ OthersChange \/ Broadcast \/ LaunchEnds \/ ServiceEnds

Spec == Init /\ [][Next]_vars

(* The goroutines of the command run and the service reports its changes.  *)
(* Nobody has to interrupt the command, to change a tunnel or to end the   *)
(* service.                                                                *)
FairSpec ==
  Spec /\ WF_vars(MainStep) /\ WF_vars(WatcherStep) /\ WF_vars(Broadcast)

-----------------------------------------------------------------------------
(* Properties *)

TypeOK ==
  /\ polls \in 0 .. MaxPolls /\ adHoc \in BOOLEAN
  /\ daemon \in {"down", "launching", "up"}
  /\ pc \in {"check", "polling", "connect", "register", "start", "starting", "list", "subscribe",
             "waiting", "stopping", "exited", "failed", "killed"}
  /\ signalled \in BOOLEAN
  /\ watcher \in {"none", "listening", "found", "ended"}
  /\ link \in {"none", "up", "lost"}
  /\ subscribed \in BOOLEAN
  /\ status \in Status
  /\ pending \in Seq(Status \cup {"other"}) /\ feed \in Seq(Status \cup {"other"})
  /\ Len(feed) <= Capacity /\ missed \in BOOLEAN
  /\ changes \in 0 .. MaxChanges

(* An end of the tunnel that is queued for the command ends it, whatever   *)
(* changes of this and of other tunnels are queued before it, and also     *)
(* when the service is gone by then (root.go:135-146, 156).  Every end     *)
(* that is reported after the command has subscribed is queued, unless it  *)
(* meets a full channel (client.go:91-95) or the service goes first.       *)
LaterEndIsSeen ==
  /\ (pc = "waiting" /\ \E s \in {"error", "disconnected"} : Contains(feed, s))
       ~> pc # "waiting"
  /\ (/\ pc = "waiting" /\ subscribed
      /\ \E s \in {"error", "disconnected"} : Contains(pending, s))
       ~> (pc # "waiting" \/ link = "lost" \/ missed)

(* An interrupted command ends, also when the service is gone or the       *)
(* tunnel ends at the same moment.                                         *)
InterruptEnds == signalled ~> pc = "exited"

(* A command waits for its tunnel or is over after finitely many steps,    *)
(* also when the service never comes up, exits while it is looked for, or  *)
(* is lost during a call (root.go:216): nothing is repeated without end.   *)
CommandSettles ==
  <>(pc \in {"waiting", "exited", "failed", "killed"})

(* The comment in root.go:119, "Subscribe to notifications to detect if    *)
(* tunnel is stopped elsewhere": a command that waits for a tunnel that is *)
(* not active comes to an end, unless the service does or somebody         *)
(* restarts the tunnel.                                                    *)
EndIsDetected ==
  (pc = "waiting" /\ ~IsActive(status))
    ~> (pc # "waiting" \/ IsActive(status) \/ link = "lost")
=============================================================================
