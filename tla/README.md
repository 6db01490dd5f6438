# Gurren: specifications, checks and proofs

Gurren keeps SSH tunnels open. A background *service* owns the tunnels; the
command line and a terminal interface (*TUI*) are its clients over a Unix socket
that carries JSON messages. This directory holds TLA+ modules for the parts of
it, TLC configurations that check them on small instances, and TLAPS proofs for
all instances of most of them. `PROJECT.json` lists the runs, the theorems, the
source lines behind every definition, and the hazards the properties are aimed
at.

## The system

| part | source | module |
|---|---|---|
| tunnel manager: table of tunnels, their status, start, stop, removal | `internal/tunnel/manager.go`, `state.go` | `TunnelManager`, abstract `TunnelLifecycle` |
| tunnel run: one SSH connection, its listener, the connections through it | `internal/tunnel/tunnel.go` | `TunnelRun`, abstract `TunnelPromise` |
| RPC client: calls and notifications over one socket | `internal/daemon/client.go`, `protocol.go` | `RpcClient` |
| request handlers: `tunnel.start`, `stop`, `status`, `register`, `shutdown` and their error codes | `internal/daemon/handlers.go` | `Requests`, over `TunnelManager` |
| service connections: subscriptions, broadcasts, locks | `internal/daemon/daemon.go`, `handlers.go` | `Daemon` |
| service process: start, socket path, shutdown, crash | `internal/daemon/daemon.go`, `internal/cmd/service.go`, `root.go` | `Service` |
| connect command | `internal/cmd/root.go` | `ConnectCommand` |
| TUI: list, notifications, toggles, toasts | `internal/tui/tui.go`, `tunnel_list.go`, `statusbar.go` | `Tui`, over `TunnelLifecycle` |
| configuration: names of tunnels, lookups | `internal/config/config.go` | `ConfigLoad` |
| host parsing, ssh config, choice of authentication methods | `internal/daemon/handlers.go`, `internal/sshconfig`, `internal/auth`, `internal/tui/details.go` | `Dial`, over `ConfigLoad` |
| `ls`, `disconnect`, systemd units, rendering | `internal/cmd`, `internal/tui` | not modelled, see below |

How they interact. A client's call goes through `RpcClient` to a connection of
`Daemon`, whose handler (`Requests`) looks the tunnel up, prepares its
authentication (`Dial`) and calls the `TunnelManager`. `Manager.Start` runs
`tunnel.Start` (`TunnelRun`) in a goroutine. Whenever the Manager changes a status it calls
`broadcastStatusChange` (`Daemon`), which writes a notification to every
subscriber. The modules meet at these interfaces:

* `TunnelPromise` says what the Manager may rely on when it calls
  `tunnel.Start`: an error only before the tunnel is open, `ErrTunnelClosed`
  only after cancellation. `TunnelRun` implements it. The actions `Open`,
  `OpenFails` and `Close` of `TunnelManager` are its steps.
* `TunnelLifecycle` says what callers and subscribers may rely on: which
  changes of status are possible, and that "disconnected" follows "connected"
  only after a stop. `TunnelManager` implements it, and `Tui` is composed with
  it: the tunnels the interface shows are any that keep these promises.
* `Requests` is composed with `TunnelManager` itself: a handler calls its critical
  sections, and every step of the composition is a step of the Manager or none.
  `Dial` goes on where `ConfigLoad` ends, in one state space.
* `RpcClient` has the service as a peer that answers in order and pushes in
  between; `Daemon` has the client as a reader of its socket. `ConnectCommand`
  has both as a queue of status changes.

## The modules

### TunnelManager

`tunnels` is the map from names to `*ManagedTunnel` (`Ref`), `mt` the structs,
`run` the calls of `Start` that are under way: each has a *starter* (the caller,
who announces "connecting", sleeps 100ms and promotes the tunnel) and a *runner*
(the goroutine that calls `tunnel.Start` and records its end). `removals` counts
the goroutines that `Stop` leaves behind for ad-hoc tunnels, `notified` is the
status the subscribers heard last. Pointers matter: a starter or runner keeps
its `mt` when the name is removed and registered anew.

One action is one critical section of `Manager.mu`, or one call of `onChange`
outside of it: `Start`, `Announce`, `Wake` and `AnnounceConnected` for the
starter, `Open`, `OpenFails`, `Close`, `Record` and `Report` for the runner,
`Stop`, `RemoveAfterStop`, `StopAll`, `Register`, `Unregister`. A sleep is an
action that may come at any later time.

### Requests

Per connection, the request its handler carries out (`req`), and the answer the
latest step gave (`answer`). Most handlers enter the Manager's lock once and are
one action. `tunnel.start` enters it four times: `TunnelStart` (`GetConfig` and
the authentication), `ManagerStart` or `ManagerStartFails`, the starter's
promotion in `TunnelManager`, and `StartAnswers` (`Status`); other clients,
runners and removals come in between. The error code is chosen as the code does
it, by searching the text of the error, and a name may contain what is searched
for (`PhrasesIn`).

### ConfigLoad and Dial

`Load` reads any of `Files`, derives missing names from hosts and numbers
repeated names, one pass of its loop per step; `NewManager` builds the table
(the last entry of a name wins) and `GetTunnelByName` finds the first. Strings
are sequences of tokens, so that "@", ":" and the suffix of a name are visible
and nothing else is. `Dial` takes one of the names to `parseHost`, or to any
answer the SSH configuration may give for an alias, collects the authentication
methods with an agent and key files that may come and go between any two looks,
and lets the SSH client try them. The server may offer any kinds of methods, and
others after each attempt; it may refuse an attempt, accept it, ask for more or
break off. The client tries the first method of a kind that is offered and was
not refused. A start without a name is refused before all this. `Shown` is the
second host parser, that of the details panel.

### TunnelRun

`Start` (`pc`), its context (`cancelled`), the SSH client, the SSH server at the
other end (`up`, `gone`, or `silent`: neither answering nor closing), the
listener, and per connection the handler, its two sockets, its two copiers and
the number of values in its `done` channel. Every deferred call is part of the
action that returns. Bytes are left out.

### RpcClient

`call` in its steps (take an ID, register the channel, send, wait), `readLoop`,
`Close`, the notifications channel with its capacity, and the two directions of
the socket. A message is its ID or the number of its status change.

### Daemon

Per connection `handleConnection`; per goroutine (handlers and runners)
`broadcastStatusChange` with its loop over the subscribers. `Daemon.mu` is a
`sync.RWMutex` as Go has it: a writer that waits keeps new readers out.
`subscriber.mu` is held around each `Encode`, which blocks on a full socket.

### Service

Several processes with one socket path. The path leads to a process, to the
socket of a dead one, or nowhere. Actions are the steps of the start (the two
`IsRunning` checks, `os.Remove`, `net.Listen`, the accept loop), of `Shutdown`
(cancel, `StopAll`, close) for each of its two callers, the requests of clients,
signals and crashes. Closing a listener first unlinks its path and then closes
the descriptor (package `net`), in two steps: `UnlinkPath`, `CloseListener`. The
history variable `overlap` remembers whether two starts ever overlapped.

### ConnectCommand

`runConnect` step by step, from the look for a running service: the launch, the
bounded polling of `startServiceBackground`, the connection, the registration of
an ad-hoc tunnel, its start, the subscription and the wait; the goroutine that
ranges over the notifications; the service, which may fail to come up, be
launched by somebody else or end at any time; and the tunnel, which others may
stop or restart. Changes wait in `pending` and are reported in any order, as the
Manager does it. The notifications channel has a capacity, and notifications of
other tunnels go through it as well. The history variable `missed` remembers
that an end of the tunnel met a full channel.

### Tui

The messages of `Update`, one action each, and the commands that produce them in
goroutines of their own: the list asked for at the start (`load`, `snapshot`),
the next notification (`listen`, `heard`), the toggles, each with the status
that was shown when the key was pressed, and the timers of toasts. The tunnels
behind it are `TunnelLifecycle`. A change and its report are two steps: the
goroutines that are about to report (`reports`) come in any order, as they do in
`TunnelManager`. The history variables: `notified` has the status that was
reported last of each name, and `lost` the names whose latest report no message
will show. Quitting ends the model; the filter and the
cursor are state of the list library, so any item may be the selected one.

## The runs

Passing runs:

| run | instance | shows |
|---|---|---|
| `ManagerLife` | one ad-hoc name, two structs, two calls of `Start` | the Manager alone, `Unregister` included, implements `TunnelLifecycle`; "connecting" ends however silent the server; a cancelled run ends if the server answers |
| `Requests` | a configured and an ad-hoc name, three structs, two calls of `Start`, two clients | one runner per active tunnel and no orphaned runner, whatever the clients request; a start starts the tunnel it looked up; a configured tunnel is always found; nobody is told "connecting" for their own start |
| `StartInputs` | every host of up to four tokens; files of up to four tunnels whose names meet; up to two key files; four values of the method; any offers and answers of the server | names are numbered by occurrence and lead to their tunnels; the host shown is dialled; a password is tried only when no key was set up, one was refused or none is taken; with "auto" the server is always dialled |
| `RunOnce` | three connections | releases everything on every path, SSH client outlives handlers, no accept spin, implements `TunnelPromise`; cancellation, loss of the server and copiers come to an end |
| `Client` | two goroutines, three calls, three pushes, channel of two | own response, none lost; `readLoop` never waits with the mutex held; notifications are consumed in order; every call returns, loss is seen |
| `DaemonSafety` | two connections, either may hang, one runner | one encoder, complete broadcasts |
| `DaemonAnswers` | two connections that read | broadcasts reach all, requests are answered |
| `ServiceLife` | two processes | while starts do not overlap, the listening service is reachable and no start fails for a stale socket; the accept loop never retries on a closed listener, and a shutdown ends it |
| `Interface` | a configured and an ad-hoc tunnel, one press of the toggle key, three changes by others, channel of two | the list settles on the service's statuses with three named exceptions; queued updates are shown; toasts go away |
| `ConnectEnds` | three changes by others, channel of two, two looks for the service | the command comes to its wait or gives up, whatever becomes of the service; an end reported after the subscription that finds room in the channel, and an interrupt, end the command |

Runs that refute what the repository says (details in `findings`):

| run | claim | what happens |
|---|---|---|
| `ManagerUpdates` | `README.md:265`, updates are pushed in real time | the "connected" report, made outside the lock, overtakes "error"; subscribers keep "connected" |
| `AuthTriesEach` | `README.md:173`, "auto" tries each method until one succeeds | the agent and the key files are of one kind; once the server has refused the first, the SSH client tries none of the others |

More claims are stated in the modules and are refuted by TLC with the
configuration named; they are not among the runs of `PROJECT.json`.

| configuration (module) | claim | what happens |
|---|---|---|
| `ServiceStale` (`MCService`) | `daemon.go:95`, "Remove existing stale socket if present" | of two services starting at once, one removes the other's socket |
| `ConnectMissesEnd` (`MCConnectCommand`) | `root.go:119`, "detect if tunnel is stopped elsewhere" | a tunnel that ends before the subscription is never noticed |
| `RequestsReused` (`MCRequests`) | a start dials the host of the tunnel it starts (`handlers.go:35`, `53`) | an ad-hoc tunnel is removed between the lookup and the start and its name is drawn again |
| `RequestsCode` (`MCRequests`) | "tunnel active" is answered of active tunnels only (`handlers.go:54`) | the text searched for "already" contains the tunnel's name |
| `ConfigDuplicates` (`MCDial`) | `README.md:204`, "Duplicate names are auto-suffixed" | of the names "a", "a", "a-2" two become "a-2" |
| `ManagerAdHocRemoved` (`MCTunnelManager`) | `manager.go:157`, "If the tunnel is ephemeral, it will be removed after stopping." | the removal looks once, after 200ms; a run that takes longer to end leaves the tunnel listed |
| `ManagerPromotion` (`MCTunnelManager`) | `manager.go:140`, "If still connecting after brief wait, consider it connected" | the starter of a failed run promotes the next run before its wait is over |
| `RunHangs` (`MCTunnelRun`) | `tunnel.go:28`, "blocks until the context is cancelled or an error occurs" | with a silent server `ssh.Dial`, or the dial a handler waits for, does not return |
| `DaemonSlowClient` (`MCDaemon`) | `README.md:265`, as above | a subscriber that does not read blocks the broadcast, and the others wait with it |
| `ServiceAnswer` (`MCService`) | `handlers.go:165`, "Send response before shutting down" | the goroutine may run before the answer is written |
| `ServiceTunnels` (`MCService`) | `service.go:41`, "Stops the service and all running tunnels." | a client still connected starts a tunnel after the shutdown |
| `TuiStale` (`MCTui`) | `README.md:17`, "Push-based status updates in the TUI" | a change handled between the making and the arrival of the first list finds no item to change, and the list stays out of date |
| `ServiceProcess` (`MCService`) | `README.md:106`, "Stop service and all tunnels" | the process waits for a signal and stays |

`ManagerSafety.cfg` checks the invariants of `TunnelManager` alone, with two
names, three structs and two pending removals; it passes. Its properties are
among the theorems below.

### Bounds

* Two calls of `Start` at a time are what a stale starter, runner or removal
  needs to meet the next run of a name; three structs let a name be removed and
  registered anew while an old goroutine still holds the first.
* Two pending removals of one name: one may be stale when the other is due.
* Two clients in `Requests`, one of which changes the Manager between any two
  critical sections of the other; three structs, so that a handler may hold one
  that was removed while its name is registered anew. Two pending removals are
  left to `ManagerSafety.cfg`.
* Files of up to four tunnels, named "x" or "x-2" or without a name, so that "x"
  is derived from the host: a name up to four times, in any place beside one
  that looks suffixed. Four tokens
  of a host: "@" and ":" in every order and number, at either end.
* Two key files: one tried before the other, and one left over. `MaxAttempts = 2`:
  attempts that succeed in part and are followed by another; one that is refused
  needs no bound, since its kind is not tried again.
* `MaxPolls = 2` instead of 20: a look that fails and is repeated, and the last.
* Two connections in `Daemon`: one that broadcasts or subscribes and one that is
  written to; with `Buffer = 1` every write may find the socket full.
* `Capacity = 2` of the notifications channel lets two wait in it, in one order or
  the other, and three pushes overflow it.
* Two processes in `Service`: one that was shut down or crashed and one that
  starts, or two that start at once. `ListenerReachable` holds only while
  starts do not overlap, and `ServiceStale` shows why. Tunnels are started in one
  of the two (`TunnelProc`): no other process ever looks at them.
* Three changes by others and one press in `Tui`: enough for a change before,
  during and after the load, an overflow of the channel of two, a report that
  overtakes another, and a toggle that acts on an old status. Two presses with
  three changes, and one press with four, pass as well but take several minutes.
* `MaxChanges = 3` in `ConnectCommand`: a stop, a restart and another stop
  between any two steps of the command, or two changes of other tunnels that
  fill the channel of two before a stop.

Symmetry is used in safety runs only, over sets whose members no definition
tells apart. So are the views: `WithoutNotified` leaves out what subscribers
were told, which no action or property of `Requests` reads, and `DialView` the
configuration once a tunnel was looked up, which does not change or matter any
more.

### Fairness

* A goroutine that can run does run, and sleeps end: weak fairness of each
  goroutine's steps. Go's mutexes starve nobody: strong fairness per goroutine
  where it waits for locks (`Daemon`).
* The SSH server owes nothing. `ConnectingSettles` holds without it;
  `CancelledRunEnds` has `NetworkAnswers` as its hypothesis; in `TunnelRun` a
  dial ends only while the server is not silent.
* A command of the TUI runs and its message is handled: `Update` takes the
  messages of one channel, whose senders Go serves in order.
* The connect command and its goroutine run and the service reports its changes
  (`ConnectCommand`); a launched service need not come up.
* Nobody has to send requests or signals, press keys, consume notifications,
  start or stop a tunnel, hang or crash.

`CHECK_DEADLOCK FALSE` is used for `Client` and for the connect command, which
may be over, for `Tui`, whose changes and presses are bounded, and for the start
of a tunnel, which ends connected or refused. Everywhere else a state without a
successor would be an error.

## The proofs

TLAPS proves the following for every value of the constants.

* `TunnelManagerProofs`: `TypeCorrect`, `OneRunner`, `NoOrphanedRunner`,
  `ConfigurationKept`, `ErrorTextCorrect`, `ConnectingIsTransient`
  (`ConnectingHasStarter`). The
  inductive invariant `IInv` adds to the properties what they rest on: a struct
  is in the map under one name only (`NamesDistinct`); the cancel function of an
  active tunnel belongs to a live run on it (`OwnerIsLive`, `ActiveHasOwner`);
  a live run's struct is the one the map has (`LiveIsMapped`), which is why the
  deferred removal and `Unregister` may only take inactive tunnels; a tunnel
  that connects has its own starter before its wake-up (`StarterPending`). None
  of the properties is inductive alone: `OneRunnerPerTunnel` speaks of mapped
  structs only, and registration could otherwise hand a struct with a live
  runner a second life. `ManagerImplementsLifecycle` rests on the same invariant:
  each action maps to a step of `TunnelLifecycle` or to none, with a name's status
  (or "absent") as its state and the cancelled runs as those asked to stop.
* `TunnelRunProofs`: `RunTypeCorrect`, `RunReleases`,
  `RunClientOutlivesHandlers`, `RunNoAcceptSpin`, `RunKeepsPromise`, for any
  number of connections. `RInv` adds what is open at each stage of `Start`
  (`StagesHold`), that handlers exist only while it accepts or waits
  (`HandlersWithin`), what a handler holds open (`HandlersHold`), and that the
  `done` channel holds no more values than copiers have ended (`DoneCounted`).
* `RequestsProofs`, for any number of clients: `ServiceUsesManager` (every step of
  the handlers is a step of `TunnelManager` or none, so that its theorems hold in
  the service), `ServiceKeepsManagerSafe`, `StartUsesLookup`,
  `StartAnswersSettled`, `ConfiguredAnswered`. `QInv` adds to the Manager's `IInv`
  the types of requests and that what a handler looked up of a configured tunnel
  is what the table still has (`LookupIsCurrent`), which rests on the Manager
  never removing one; a run keeps its tunnel (`RunKeepsTunnel`).
  `ServiceKeepsLifecycle` puts two refinements together: the handlers implement
  the Manager and the Manager implements `TunnelLifecycle`, so that the service
  does, which is what `Tui` assumes of it.
* `DialProofs`, about `ConfigLoad`, for every file: `NamesNumbered`,
  `TunnelsReachable`. The loop invariant `LoopInv` says that after i passes the
  first i names are final, the others as derived, and `nameCounts` has for each
  name how often it was seen. `NumberedIsInjective` then gives distinct names
  where none looks made up.
* `DialProofs`, about `Dial`, for hosts of any length, any key files and any lists
  of them: `HostIsDialled`, `PasswordLast`, `AutoDials`, `FirstKeyOnly`, and
  `DialImplementsLoad`, by which the theorems about `ConfigLoad` hold of the whole.
  The two host parsers find their separators from different ends; lemmas about the
  first and the last occurrence of a token show that they cut at the same place
  wherever the property speaks. `PasswordIsLast` is about the attempts of the SSH
  client, whatever the server offers and answers in between; `AInv` adds that in
  every list of methods, whichever of the three ways collected it, no password
  comes before a key (`MethodsInv`), which needs the sort by priority.
  `FirstKeyOnly` says why `AutoTriesEach` is refuted: for every list of methods and
  every server, what is tried is the first of its kind (`FirstOfKindOnly`).
* `TuiProofs`, for any tunnels, number of changes, presses and capacity of the
  channel: `TuiTypeCorrect`, `ToastIsTimed`, `ListShowsState`. `ListIsCurrent`
  speaks of the moments when all is reported and taken. `ViewInv` says what holds
  in between: of each configured tunnel that is not in `lost`, the latest report
  that is pending (`heard`, then `feed`) is that of its status in `notified`, and
  where none is pending the list, or the snapshot that will become the list, has
  that status or its present one, or another report is still to come (`Current`,
  with `Shows` and `ToBeReported`); and configured tunnels are in every list, so
  that what is told of them finds its item (`Listed`).
* `RpcClientProofs`, for any number of goroutines, calls and pushes:
  `ResponsesAreOwn`, `ResponsesAreKept`, `ReaderIsFree`, `PushesInOrder`,
  `ClientTypeCorrect`. `CInv` adds that IDs are handed out once (`IDsDistinct`,
  `IDsHandedOut`), that no response can come before its request has left, until
  when its channel stays registered (`UnsentRegistered`), and that a channel holds
  its own response (`ChannelsOwn`). For `ReaderIsFree`, `ChannelsFree` adds that
  the channels of IDs not yet handed out, or handed out and not yet registered,
  are empty and unregistered; with `UnsentRegistered` no response can fill one
  before that. For the action property behind `PushesInOrder`, `OInv` says that
  the numbers rise in the channel, on the socket, and from what was consumed to
  the channel to the socket; a drop takes one out and keeps the order.
* `DaemonProofs`, for any number of connections and runners: `EncoderIsExclusive`,
  `BroadcastIsComplete`. `DInv` adds what the loop has at each of its stages
  (`LoopState`) and that whoever writes holds `subscriber.mu`, a handler only
  after its own broadcasts (`WritersHoldLock`).
* `ServiceProofs`, for any number of processes: `ListenerIsReachable`,
  `ListenSucceeds`, `NoHotAccept`. `SInv` adds that a start without overlap is alone
  (`StartAlone`) and that nobody listens from its second look until it listens
  itself (`NobodyListens`). For `AcceptNeverSpins`, `CancelledFirst` says that
  whichever of the two callers of `Shutdown` has come past its first step, the
  context is cancelled, and that it is wherever the listener is closed.

The assumptions are the named `ASSUME`s on the constants: `Nil` is none of the
pointers, runs, names, connections or processes; configured names are names
(`NamesAssumption`); bounds are naturals; a configuration file is a sequence of
tunnels (`FilesAssumption`) and the SSH configuration has sequences of key files,
none of which is one of the three authenticators (`KeyFilesAssumption`);
`PhrasesIn` is defined for each name (`PhrasesAssumption`).

Only model-checked: all liveness and fairness, which are out of the reach of
TLAPS. That is `ConnectingSettles` and `CancelledRunEnds` of the Manager,
`CancelledReturnsUnlessSilent`, `LossEndsConnections` and `CopiersEnd` of a run,
`EveryCallReturns` and `LossIsSeen` of the client, `UpdatesReach` and
`RequestsAnswered` of the service's connections, `ShutdownEndsAccepting`,
`UpdateIsShown` of the TUI, and all of `ConnectCommand`. Every invariant and every
action property of a passing run is also a theorem. The type invariants of
`TunnelManager` and `TunnelRun` and `ConnectingHasStarter` are theorems and not
properties of a run.

## Abstractions

* The four tunnel states are the code's; error texts are "" or one value.
* `Status`, `List` and `GetConfig` read under the lock and are the operators the
  properties use. The wording of errors and logs is left out, and so is the read
  of `mt.Status` after the unlock in `manager.go:87`, which only words an error.
* `Service` has "some client is connected" and "some tunnel is active" per
  process; `Daemon` and `TunnelManager` have the detail.
* In `ConnectCommand` calls are atomic, apart from `tunnel.start`.
* In `Requests` a pointer stands for the configuration it leads to, and malformed
  parameters, which are answered without touching any state, are left out.
* The agent, a key file and a prompt succeed or fail; an error of one leaves it
  out, as the code does. TOML, `~/.ssh/config` and JSON are libraries: any result
  they can give is an input.

## Not modelled

* `ls` and `disconnect` make one call and print the result; `RpcClient` has the
  call.
* `install`, `uninstall`, `enable` and `disable` write or remove a unit file and
  call `systemctl`. The state they change is systemd's; the rest of the program
  reads none of it.
* Rendering, layout and colours of the TUI have no state of their own. The filter
  and the cursor are state of the list library, so any item may be the selected
  one.
* Bytes through a tunnel. The handler closes both directions when one ends
  (`tunnel.go:136`); what is under way in the other is lost, and no document
  promises otherwise.
* Time: a sleep or a timeout ends at any later step, so no property depends on
  the 100ms, 200ms or two seconds the code waits.
