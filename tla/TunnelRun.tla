----------------------------- MODULE TunnelRun -----------------------------
(***************************************************************************)
(* internal/tunnel/tunnel.go: one call of Start, with the goroutines that  *)
(* watch its context and carry its connections.                            *)
(*                                                                         *)
(* The SSH client, the listener and the connections are modelled by        *)
(* whether they are open.  Bytes are not: a copier copies until its source *)
(* or its sink ends.  golang.org/x/crypto/ssh and net are external and     *)
(* modelled from how Start and handleConnection use them.                  *)
(***************************************************************************)
EXTENDS Naturals, FiniteSets

CONSTANT Conn  \* the local connections a client may open

VARIABLES
  pc,         \* where Start stands
  cancelled,  \* ctx.Err() # nil
  sshClient,  \* none, open or closed
  server,     \* the SSH server: up, gone, or up and silent for ever
  listener,   \* none, open or closed
  handler,    \* per connection, where handleConnection stands
  local,      \* per connection, localConn: none, open or closed
  remote,     \* per connection, remoteConn: none, open or closed
  copier,     \* per connection and direction: none, copying or ended
  done        \* per connection, values in the done channel

vars == <<pc, cancelled, sshClient, server, listener, handler, local,
          remote, copier, done>>

connVars == <<handler, local, remote, copier, done>>

Handle == {"none", "open", "closed"}

(* "out" copies from local to remote, "in" from remote to local. *)
Direction == {"out", "in"}

Returned == pc \in {"failed", "closed"}

(* The handlers the WaitGroup of Start counts. *)
Handling == {c \in Conn : handler[c] \notin {"none", "finished"}}

Init ==
  /\ pc = "dial"
  /\ cancelled = FALSE
  /\ sshClient = "none"
  /\ server = "up"
  /\ listener = "none"
  /\ handler = [c \in Conn |-> "none"]
  /\ local = [c \in Conn |-> "none"]
  /\ remote = [c \in Conn |-> "none"]
  /\ copier = [c \in Conn |-> [d \in Direction |-> "none"]]
  /\ done = [c \in Conn |-> 0]

-----------------------------------------------------------------------------
(* The environment: the Manager cancels, the connection to the server is   *)
(* lost, or the server falls silent (a half-open connection, a handshake   *)
(* that never ends)                                                        *)

Cancel ==
  /\ ~cancelled
  /\ cancelled' = TRUE
  /\ UNCHANGED <<pc, sshClient, server, listener, connVars>>

ServerLeaves ==
  /\ server = "up"
  /\ server' \in {"gone", "silent"}
  /\ UNCHANGED <<pc, cancelled, sshClient, listener, connVars>>

-----------------------------------------------------------------------------
(* Start *)

Dial ==
  /\ pc = "dial"
  /\ server = "up"
  /\ pc' = "listen"
  /\ sshClient' = "open"
  /\ UNCHANGED <<cancelled, server, listener, connVars>>

DialFails ==
  /\ pc = "dial"
  /\ pc' = "failed"
  /\ UNCHANGED <<cancelled, sshClient, server, listener, connVars>>

(* With the listener the watcher of the context starts. *)
Listen ==
  /\ pc = "listen"
  /\ pc' = "accept"
  /\ listener' = "open"
  /\ UNCHANGED <<cancelled, sshClient, server, connVars>>

(* Mutant: the SSH client is not closed when the listener cannot open. *)
ListenFailsKeepingClient ==
  /\ pc = "listen"
  /\ pc' = "failed"
  /\ UNCHANGED <<cancelled, sshClient, server, listener, connVars>>

ListenFails ==
  /\ pc = "listen"
  /\ pc' = "failed"
  /\ sshClient' = "closed"
  /\ UNCHANGED <<cancelled, server, listener, connVars>>

(* Mutant: the watcher closes the listener without waiting for the context. *)
WatchWithoutWaiting ==
  /\ listener = "open"
  /\ listener' = "closed"
  /\ UNCHANGED <<pc, cancelled, sshClient, server, connVars>>

(* The goroutine that waits for the context. *)
Watch ==
  /\ listener = "open"
  /\ cancelled
  /\ listener' = "closed"
  /\ UNCHANGED <<pc, cancelled, sshClient, server, connVars>>

Accept(c) ==
  /\ pc = "accept"
  /\ listener = "open"
  /\ handler[c] = "none"
  /\ handler' = [handler EXCEPT ![c] = "dialing"]
  /\ local' = [local EXCEPT ![c] = "open"]
  /\ UNCHANGED <<pc, cancelled, sshClient, server, listener, remote,
                 copier, done>>

(* Mutant: any failure of Accept ends the loop. *)
AcceptFailsUnchecked ==
  /\ pc = "accept"
  /\ pc' = "drain"
  /\ UNCHANGED <<cancelled, sshClient, server, listener, connVars>>

(* Accept fails when the listener is closed and may fail before that; a    *)
(* failure without cancellation is logged and the loop goes on.            *)
AcceptFails ==
  /\ pc = "accept"
  /\ cancelled
  /\ pc' = "drain"
  /\ UNCHANGED <<cancelled, sshClient, server, listener, connVars>>

(* Mutant: Start does not wait for the handlers. *)
DrainWithoutWaiting ==
  /\ pc = "drain"
  /\ pc' = "closed"
  /\ sshClient' = "closed"
  /\ listener' = "closed"
  /\ UNCHANGED <<cancelled, server, connVars>>

(* wg.Wait() is over, and the deferred calls close what Start opened. *)
Drain ==
  /\ pc = "drain"
  /\ Handling = {}
  /\ pc' = "closed"
  /\ sshClient' = "closed"
  /\ listener' = "closed"
  /\ UNCHANGED <<cancelled, server, connVars>>

-----------------------------------------------------------------------------
(* handleConnection *)

RemoteDials(c) ==
  /\ handler[c] = "dialing"
  /\ sshClient = "open" /\ server = "up"
  /\ handler' = [handler EXCEPT ![c] = "copying"]
  /\ remote' = [remote EXCEPT ![c] = "open"]
  /\ copier' = [copier EXCEPT ![c] = [d \in Direction |-> "copying"]]
  /\ UNCHANGED <<pc, cancelled, sshClient, server, listener, local, done>>

RemoteDialFails(c) ==
  /\ handler[c] = "dialing"
  /\ handler' = [handler EXCEPT ![c] = "finished"]
  /\ local' = [local EXCEPT ![c] = "closed"]
  /\ UNCHANGED <<pc, cancelled, sshClient, server, listener, remote,
                 copier, done>>

(* Mutant: the done channel has no buffer, so that a copier hands over its *)
(* value only while the handler is there to take it.                       *)
CopierEndsUnbuffered(c, d) ==
  /\ copier[c][d] = "copying"
  /\ handler[c] \in {"copying", "draining"}
  /\ copier' = [copier EXCEPT ![c][d] = "ended"]
  /\ done' = [done EXCEPT ![c] = @ + 1]
  /\ UNCHANGED <<pc, cancelled, sshClient, server, listener, handler,
                 local, remote>>

(* io.Copy returns, at a peer's end of file or because a connection was    *)
(* closed or failed, and the copier sends to the done channel.             *)
CopierEnds(c, d) ==
  /\ copier[c][d] = "copying"
  /\ copier' = [copier EXCEPT ![c][d] = "ended"]
  /\ done' = [done EXCEPT ![c] = @ + 1]
  /\ UNCHANGED <<pc, cancelled, sshClient, server, listener, handler,
                 local, remote>>

(* Mutant: the handler waits for both copiers. *)
BothSidesDone(c) ==
  /\ handler[c] \in {"copying", "draining"}
  /\ done[c] > 1
  /\ done' = [done EXCEPT ![c] = @ - 1]
  /\ handler' = [handler EXCEPT ![c] = "finished"]
  /\ local' = [local EXCEPT ![c] = "closed"]
  /\ remote' = [remote EXCEPT ![c] = "closed"]
  /\ UNCHANGED <<pc, cancelled, sshClient, server, listener, copier>>

(* The select takes a value from done: the handler returns and its         *)
(* deferred calls close both connections.                                  *)
OneSideDone(c) ==
  /\ handler[c] \in {"copying", "draining"}
  /\ done[c] > 0
  /\ done' = [done EXCEPT ![c] = @ - 1]
  /\ handler' = [handler EXCEPT ![c] = "finished"]
  /\ local' = [local EXCEPT ![c] = "closed"]
  /\ remote' = [remote EXCEPT ![c] = "closed"]
  /\ UNCHANGED <<pc, cancelled, sshClient, server, listener, copier>>

(* Mutant: the connections are not closed on cancellation. *)
ForceCloseNothing(c) ==
  /\ handler[c] = "copying"
  /\ cancelled
  /\ handler' = [handler EXCEPT ![c] = "draining"]
  /\ UNCHANGED <<pc, cancelled, sshClient, server, listener, local,
                 remote, copier, done>>

(* The select sees the cancellation; the handler then waits for a copier. *)
ForceClose(c) ==
  /\ handler[c] = "copying"
  /\ cancelled
  /\ handler' = [handler EXCEPT ![c] = "draining"]
  /\ local' = [local EXCEPT ![c] = "closed"]
  /\ remote' = [remote EXCEPT ![c] = "closed"]
  /\ UNCHANGED <<pc, cancelled, sshClient, server, listener, copier, done>>

-----------------------------------------------------------------------------
StartStep == Dial \/ DialFails \/ Listen \/ ListenFails \/ AcceptFails \/ Drain

ConnectionStep(c) ==
  \/ Accept(c)
  \/ RemoteDials(c) \/ RemoteDialFails(c)
  \/ \E d \in Direction : CopierEnds(c, d)
  \/ OneSideDone(c) \/ ForceClose(c)

(* Start has returned and no goroutine it started is left. *)
Finished ==
  /\ Returned
  /\ \A c \in Conn, d \in Direction : copier[c][d] # "copying"
  /\ UNCHANGED vars

Next ==
  \/ Cancel
  \/ ServerLeaves
  \/ StartStep
  \/ Watch
  \/ \E c \in Conn : ConnectionStep(c)
  \/ Finished

Spec == Init /\ [][Next]_vars

(* io.Copy returns by itself where its connections were closed on this     *)
(* side and the SSH connection takes the close, and where the loss of the  *)
(* SSH connection ends what it reads.                                      *)
MustEnd(c, d) ==
  \/ /\ local[c] = "closed" /\ remote[c] = "closed"
     /\ server # "silent" \/ sshClient = "closed"
  \/ d = "in" /\ server = "gone"

(* Go runs every goroutine that can run: a dial is over unless the server  *)
(* is silent, Accept fails once the listener is closed, and a handler      *)
(* leaves its select when it can.                                          *)
Fairness ==
  /\ WF_vars(server # "silent" /\ (Dial \/ DialFails))
  /\ WF_vars(Listen \/ ListenFails)
  /\ WF_vars(Watch)
  /\ WF_vars(listener = "closed" /\ AcceptFails)
  /\ WF_vars(Drain)
  /\ \A c \in Conn :
       /\ WF_vars(server # "silent" /\ (RemoteDials(c) \/ RemoteDialFails(c)))
       /\ WF_vars(OneSideDone(c))
       /\ WF_vars(ForceClose(c))
       /\ \A d \in Direction : WF_vars(MustEnd(c, d) /\ CopierEnds(c, d))

FairSpec == Spec /\ Fairness

-----------------------------------------------------------------------------
(* Properties *)

(* Types, and the capacity of the done channel (tunnel.go:116): a copier   *)
(* never blocks on it, for there are never more than two values.           *)
TypeOK ==
  /\ pc \in {"dial", "listen", "accept", "drain", "failed", "closed"}
  /\ cancelled \in BOOLEAN
  /\ sshClient \in Handle
  /\ server \in {"up", "gone", "silent"}
  /\ listener \in Handle
  /\ handler \in [Conn -> {"none", "dialing", "copying", "draining", "finished"}]
  /\ local \in [Conn -> Handle]
  /\ remote \in [Conn -> Handle]
  /\ copier \in [Conn -> [Direction -> {"none", "copying", "ended"}]]
  /\ done \in [Conn -> 0 .. 2]

(* When Start returns, on whichever path, nothing it opened is left open:  *)
(* not the SSH client, not the listener, not a connection of a handler.    *)
(* The Manager shows the tunnel as inactive from then on, and a new run    *)
(* must be able to bind the same local address.                            *)
ReturnReleases ==
  Returned =>
    /\ sshClient # "open"
    /\ listener # "open"
    /\ \A c \in Conn : local[c] # "open" /\ remote[c] # "open"

(* A handler never works on an SSH client that Start closed underneath it: *)
(* wg.Wait (tunnel.go:81) comes before the deferred Close (tunnel.go:42).  *)
ClientOutlivesHandlers == Handling # {} => sshClient = "open"

(* The accept loop never spins on a listener that is closed while the      *)
(* context is not (tunnel.go:84-85 would log and retry for ever).          *)
NoAcceptSpin == pc = "accept" /\ listener = "closed" => cancelled

Promise == INSTANCE TunnelPromise
             WITH phase <- CASE pc \in {"dial", "listen"} -> "opening"
                             [] pc \in {"accept", "drain"} -> "serving"
                             [] OTHER -> pc,
                  asked <- cancelled

(* Start keeps the promise the Manager relies on: ErrTunnelClosed only     *)
(* after cancellation, an error only before the tunnel is open.            *)
PromiseSpec == Promise!Spec

(* The comment of Start, tunnel.go:28: "This function blocks until the     *)
(* context is cancelled or an error occurs."                               *)
CancelledReturns == cancelled ~> Returned

(* Cancellation ends Start unless the server is silent: whatever the       *)
(* handlers are doing, the watcher, the forced closes and the wait for     *)
(* the handlers come to an end.                                            *)
CancelledReturnsUnlessSilent == cancelled ~> Returned \/ server = "silent"

(* The loss of the SSH connection ends every connection through it, also   *)
(* one whose local client neither sends nor closes: one side's end is      *)
(* enough for the handler (tunnel.go:135-136).                             *)
LossEndsConnections ==
  \A c \in Conn : server = "gone" /\ c \in Handling ~> c \notin Handling

(* No goroutine of a connection outlives it for ever: once the handler is  *)
(* finished, the copier still running meets closed connections, and its    *)
(* value fits the done channel although nobody takes it (tunnel.go:116).   *)
CopiersEnd ==
  \A c \in Conn : handler[c] = "finished" ~>
    (\A d \in Direction : copier[c][d] # "copying") \/ server = "silent"
=============================================================================
