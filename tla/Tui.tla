--------------------------------- MODULE Tui ---------------------------------
(***************************************************************************)
(* internal/tui: the terminal interface of one user, composed with the     *)
(* Manager as TunnelLifecycle promises it.                                 *)
(*                                                                         *)
(* The program handles one message at a time in Update.  Commands run in   *)
(* goroutines of their own and send a message when they are done, so their *)
(* messages arrive in any order: the list of tunnels asked for at the      *)
(* start, the next notification (one command at a time), the errors of     *)
(* toggles and the timers of toasts.                                       *)
(*                                                                         *)
(* The Manager reports a change of status after it has left its critical   *)
(* section, so that of two goroutines the one that made the later change   *)
(* may report first (UpdatesSettle of TunnelManager).  A change and its    *)
(* report are therefore two steps here as well.                            *)
(***************************************************************************)
EXTENDS Naturals, Sequences, SequencesExt

CONSTANTS
  Names, ConfigNames, GeneratedNames,  \* as in TunnelLifecycle
  Press,      \* presses of the toggle key
  Capacity,   \* capacity of the client's notifications channel
  MaxChanges  \* bound: changes others cause in the service

ASSUME NamesAssumption == ConfigNames \subseteq Names /\ GeneratedNames \subseteq Names

ASSUME BoundsAssumption == Capacity \in Nat \ {0} /\ MaxChanges \in Nat

VARIABLES
  state, stopping,  \* the tunnels of the service, see TunnelLifecycle
  reports,          \* per update, the goroutines that are about to report it
  notified,         \* history: per name, the status reported last
  changes,          \* number of changes others have caused
  link,             \* the connection to the service: up or lost
  feed,             \* notifications the TUI has not taken
  load,             \* where the command of loadTunnels stands
  snapshot,         \* the tunnels its call returned
  listen,           \* where the command of listenForNotifications stands
  heard,            \* the notification it took
  list,             \* the items of the list panel, "absent" where there is none
  toggle,           \* per press, the command of toggleTunnel
  toast,            \* a toast is shown
  timers,           \* number of HideToastCmd timers that run
  lost              \* history: names whose latest report no message will show

vars == <<state, stopping, reports, notified, changes, link, feed, load, snapshot,
          listen, heard, list, toggle, toast, timers, lost>>

serviceVars == <<state, stopping, reports, notified, changes, link>>

Manager == INSTANCE TunnelLifecycle

Status == {"absent", "disconnected", "connecting", "connected", "error"}

IsActive(s) == s \in {"connecting", "connected"}

(* A status that is reported is never that of a tunnel that is gone. *)
Update == [name : Names, status : Status \ {"absent"}]

NoItems == [n \in Names |-> "absent"]

(* Run subscribes first; Init then issues its two commands. *)
Init ==
  /\ Manager!Init
  /\ reports = [u \in Update |-> 0] /\ notified = state
  /\ changes = 0
  /\ link = "up"
  /\ feed = <<>>
  /\ load = "calling" /\ snapshot = NoItems
  /\ listen = "waiting" /\ heard = <<>>
  /\ list = NoItems
  /\ toggle = [k \in Press |-> [pc |-> "unused", name |-> "", shown |-> "absent"]]
  /\ toast = FALSE /\ timers = 0
  /\ lost = {}

-----------------------------------------------------------------------------
(* The service *)

(* onChange was read; the report is to come. *)
Changed(n) ==
  reports' = [reports EXCEPT ![[name |-> n, status |-> state'[n]]] = @ + 1]

(* The runner starts when "connecting" has been reported.  A starter left  *)
(* over from an earlier run may promote this one before that.              *)
RunnerStarted(n) == reports[[name |-> n, status |-> "connecting"]] = 0

(* What the tunnels do and other clients ask for.  Register, Unregister    *)
(* and Stop notify nobody; the end of a run does.                          *)
ServiceChanges(n) ==
  /\ link = "up"
  /\ changes < MaxChanges
  /\ changes' = changes + 1
  /\ \/ /\ \/ Manager!Begin(n) \/ Manager!Promote(n)
           \/ RunnerStarted(n) /\ (Manager!Fail(n) \/ Manager!End(n))
        /\ Changed(n)
     \/ /\ Manager!Add(n) \/ Manager!Remove(n) \/ Manager!AskToStop({n})
        /\ UNCHANGED reports
  /\ UNCHANGED <<notified, link, feed, load, snapshot, listen, heard, list, toggle,
                 toast, timers, lost>>

(* onChange: the service pushes the update, and readLoop queues it or, when *)
(* the channel is full, drops it.  Any goroutine may come first.           *)
Report(u) ==
  /\ link = "up"
  /\ reports[u] > 0
  /\ reports' = [reports EXCEPT ![u] = @ - 1]
  /\ notified' = [notified EXCEPT ![u.name] = u.status]
  /\ \/ /\ Len(feed) < Capacity
        /\ feed' = Append(feed, u)
        /\ lost' = lost \ {u.name}
     \/ /\ Len(feed) = Capacity
        /\ lost' = lost \cup {u.name}
        /\ UNCHANGED feed
  /\ UNCHANGED <<state, stopping, changes, link, load, snapshot, listen, heard, list,
                 toggle, toast, timers>>

ServiceEnds ==
  /\ link = "up"
  /\ link' = "lost"
  /\ UNCHANGED <<state, stopping, reports, notified, changes, feed, load, snapshot,
                 listen, heard, list, toggle, toast, timers, lost>>

-----------------------------------------------------------------------------
(* The toast *)

(* SetToast and HideToastCmd *)
ShowToast ==
  /\ toast' = TRUE
  /\ timers' = timers + 1

(* hideToastMsg: whichever timer it is, it hides the toast of the moment. *)
HideToast ==
  /\ timers > 0
  /\ timers' = timers - 1
  /\ toast' = FALSE
  /\ UNCHANGED <<serviceVars, feed, load, snapshot, listen, heard, list, toggle, lost>>

-----------------------------------------------------------------------------
(* loadTunnels *)

TunnelList ==
  /\ load = "calling"
  /\ \/ link = "up" /\ load' = "loaded" /\ snapshot' = state
     \/ link = "lost" /\ load' = "failed" /\ UNCHANGED snapshot
  /\ UNCHANGED <<serviceVars, feed, listen, heard, list, toggle, toast, timers, lost>>

(* tunnelsLoadedMsg *)
TunnelsLoaded ==
  /\ load = "loaded"
  /\ load' = "handled"
  /\ list' = snapshot
  /\ UNCHANGED <<serviceVars, feed, snapshot, listen, heard, toggle, toast, timers, lost>>

(* Mutant: the error shows a toast without a timer. *)
LoadFailsWithoutTimer ==
  /\ load = "failed"
  /\ load' = "handled"
  /\ toast' = TRUE
  /\ UNCHANGED <<serviceVars, feed, snapshot, listen, heard, list, toggle, timers, lost>>

(* errorMsg *)
LoadFails ==
  /\ load = "failed"
  /\ load' = "handled"
  /\ ShowToast
  /\ UNCHANGED <<serviceVars, feed, snapshot, listen, heard, list, toggle, lost>>

-----------------------------------------------------------------------------
(* listenForNotifications *)

(* A closed channel gives its notifications first, then nil for ever. *)
Listen ==
  /\ listen = "waiting"
  /\ \/ /\ feed # <<>>
        /\ listen' = "heard"
        /\ heard' = <<Head(feed)>>
        /\ feed' = Tail(feed)
     \/ /\ feed = <<>> /\ link = "lost"
        /\ listen' = "ended"
        /\ UNCHANGED <<heard, feed>>
  /\ UNCHANGED <<serviceVars, load, snapshot, list, toggle, toast, timers, lost>>

(* Mutant: the loop changes copies of the items. *)
StatusChangedOnCopy(u) ==
  /\ \/ list[u.name] # "absent" /\ u.status = "error" /\ ShowToast
     \/ ~(list[u.name] # "absent" /\ u.status = "error") /\ UNCHANGED <<toast, timers>>
  /\ UNCHANGED list

(* tunnelStatusChangedMsg: only an item of the list changes. *)
StatusChanged(u) ==
  \/ /\ list[u.name] # "absent"
     /\ list' = [list EXCEPT ![u.name] = u.status]
     /\ \/ u.status = "error" /\ ShowToast
        \/ u.status # "error" /\ UNCHANGED <<toast, timers>>
  \/ /\ list[u.name] = "absent"
     /\ UNCHANGED <<list, toast, timers>>

(* Mutant: a change of a tunnel that is not listed ends the listening. *)
NotificationUnlisted ==
  /\ listen = "heard"
  /\ listen' = IF list[heard[1].name] = "absent" THEN "ended" ELSE "waiting"
  /\ heard' = <<>>
  /\ StatusChanged(heard[1])
  /\ lost' = IF load = "loaded" THEN lost \cup {heard[1].name} ELSE lost
  /\ UNCHANGED <<serviceVars, feed, load, snapshot, toggle>>

(* notificationMsg: Update, and the next listening command. *)
Notification ==
  /\ listen = "heard"
  /\ listen' = "waiting"
  /\ heard' = <<>>
  /\ StatusChanged(heard[1])
  /\ lost' = IF load = "loaded" THEN lost \cup {heard[1].name} ELSE lost
  /\ UNCHANGED <<serviceVars, feed, load, snapshot, toggle>>

-----------------------------------------------------------------------------
(* toggleTunnel *)

(* The command keeps the model of the moment: the status the user saw. *)
ToggleKey(k) ==
  /\ toggle[k].pc = "unused"
  /\ \E n \in Names :
       /\ list[n] # "absent"
       /\ toggle' = [toggle EXCEPT ![k] = [pc |-> "called", name |-> n, shown |-> list[n]]]
  /\ UNCHANGED <<serviceVars, feed, load, snapshot, listen, heard, list, toast, timers, lost>>

ToggleEnds(k, pc) ==
  /\ toggle[k].pc = "called"
  /\ toggle' = [toggle EXCEPT ![k].pc = pc]

TunnelStop(k) ==
  /\ ToggleEnds(k, "done")
  /\ link = "up"
  /\ IsActive(toggle[k].shown)
  /\ Manager!AskToStop({toggle[k].name})
  /\ UNCHANGED <<reports, notified, changes, link, feed, load, snapshot, listen, heard,
                 list, toast, timers, lost>>

TunnelStart(k) ==
  /\ ToggleEnds(k, "done")
  /\ link = "up"
  /\ ~IsActive(toggle[k].shown)
  /\ Manager!Begin(toggle[k].name)
  /\ Changed(toggle[k].name)
  /\ UNCHANGED <<notified, changes, link, feed, load, snapshot, listen, heard, list,
                 toast, timers, lost>>

(* The service is gone, or it refuses: there is no such tunnel, it is not  *)
(* running, it is already active, or the authentication fails.             *)
ToggleFails(k) ==
  /\ ToggleEnds(k, "failed")
  /\ link = "up" /\ IsActive(toggle[k].shown) => ~Manager!Active(toggle[k].name)
  /\ UNCHANGED <<serviceVars, feed, load, snapshot, listen, heard, list, toast, timers, lost>>

(* errorMsg *)
ToggleError(k) ==
  /\ toggle[k].pc = "failed"
  /\ toggle' = [toggle EXCEPT ![k].pc = "done"]
  /\ ShowToast
  /\ UNCHANGED <<serviceVars, feed, load, snapshot, listen, heard, list, lost>>

-----------------------------------------------------------------------------
LoadStep == TunnelList \/ TunnelsLoaded \/ LoadFails

ListenStep == Listen \/ Notification

ToggleStep(k) == TunnelStop(k) \/ TunnelStart(k) \/ ToggleFails(k) \/ ToggleError(k)

Next ==
  \/ \E n \in Names : ServiceChanges(n)
  \/ \E u \in Update : Report(u)
  \/ ServiceEnds
  \/ LoadStep \/ ListenStep \/ HideToast
  \/ \E k \in Press : ToggleKey(k) \/ ToggleStep(k)

Spec == Init /\ [][Next]_vars

(* Every command runs, its message is handled and timers end.  Nobody has  *)
(* to press a key, and nothing has to change in the service.               *)
FairSpec ==
  /\ Spec
  /\ WF_vars(LoadStep) /\ WF_vars(ListenStep) /\ WF_vars(HideToast)
  /\ \A k \in Press : WF_vars(ToggleStep(k))

-----------------------------------------------------------------------------
(* Properties *)

TypeOK ==
  /\ state \in [Names -> Status] /\ stopping \subseteq Names
  /\ reports \in [Update -> Nat] /\ notified \in [Names -> Status]
  /\ changes \in 0 .. MaxChanges
  /\ link \in {"up", "lost"}
  /\ feed \in Seq(Update) /\ Len(feed) <= Capacity
  /\ load \in {"calling", "loaded", "failed", "handled"}
  /\ snapshot \in [Names -> Status]
  /\ listen \in {"waiting", "heard", "ended"}
  /\ heard \in Seq(Update) /\ (listen = "heard" <=> heard # <<>>)
  /\ list \in [Names -> Status]
  /\ toggle \in [Press -> [pc : {"unused", "called", "failed", "done"},
                           name : Names \cup {""}, shown : Status]]
  /\ toast \in BOOLEAN
  /\ timers \in Nat
  /\ lost \subseteq Names

(* A toast never stays for ever: while one is shown, a timer runs that     *)
(* will hide it, on whichever path it was shown and however many timers of *)
(* earlier toasts have ended meanwhile (tui.go:162-165, 189-195).          *)
ToastHasTimer == toast => timers > 0

(* Every report of the tunnel was made and taken. *)
Settled(n) ==
  /\ load = "handled" /\ link = "up" /\ feed = <<>> /\ listen = "waiting"
  /\ \A u \in Update : u.name = n => reports[u] = 0

(* When all is reported and taken, the list shows a tunnel of the          *)
(* configuration as it is, although the list asked for at the start may be *)
(* older than notifications handled before it.  There are three            *)
(* exceptions: a report handled after the service made its list and before *)
(* the list arrived (tui.go:149-169), one that met a full channel          *)
(* (client.go:91-95), and one that was overtaken by an earlier change's    *)
(* (manager.go:131-148), where the list shows what was reported last.      *)
ListIsCurrent ==
  \A n \in ConfigNames \ lost : Settled(n) => list[n] \in {state[n], notified[n]}

(* Every notification that is queued for a listed tunnel is shown: the TUI *)
(* never stops listening while the service runs (tui.go:178, 187).         *)
UpdateIsShown ==
  \A u \in Update :
    (load = "handled" /\ list[u.name] # "absent" /\ Contains(feed, u))
      ~> list[u.name] = u.status

(* README.md:17, "Push-based status updates in the TUI": when all is       *)
(* reported and taken, the list shows the tunnels as they are.             *)
ListIsAlwaysCurrent ==
  \A n \in ConfigNames : Settled(n) => list[n] = state[n]
=============================================================================
