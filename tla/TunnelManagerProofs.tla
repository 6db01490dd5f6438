------------------------ MODULE TunnelManagerProofs ------------------------
(***************************************************************************)
(* Proofs about TunnelManager, for any number of names, tunnel objects,    *)
(* calls of Start and pending removals: its invariants, and that it        *)
(* implements TunnelLifecycle.                                             *)
(***************************************************************************)
EXTENDS TunnelManager, TLAPS

(* A call of Start that is not over knows its name and its tunnel; its     *)
(* runner is unborn exactly until the starter made its first announcement; *)
(* and tunnel.Start returned ErrTunnelClosed only to a cancelled context.  *)
RunsWellFormed ==
  \A r \in Run :
    /\ ~Free(r) => run[r].name \in Names /\ run[r].tunnel \in Ref
    /\ run[r].starter = "announce" <=> run[r].runner = "unborn"
    /\ run[r].runner = "closed" => run[r].cancelled

Typed == TypeOK /\ RunsWellFormed

LEMMA NextCases ==
  ASSUME Next
  PROVE  \/ \E n \in Names, r \in Run : Start(n, r)
         \/ \E r \in Run : Announce(r) \/ Wake(r) \/ AnnounceConnected(r)
         \/ \E r \in Run : Open(r) \/ OpenFails(r) \/ Close(r)
                           \/ Record(r) \/ Report(r)
         \/ \E n \in Names : Stop(n) \/ RemoveAfterStop(n) \/ Unregister(n)
         \/ StopAll
         \/ \E n \in Names, o \in Ref : Register(n, o)
BY DEF Next, Starter, Runner

LEMMA TypedInit == Init => Typed
<1> SUFFICES ASSUME Init PROVE Typed
  OBVIOUS
<1> USE NamesAssumption, NilAssumption, BoundAssumption
<1>1. NewTunnel(FALSE) \in ManagedTunnel
  BY DEF NewTunnel, ManagedTunnel, State, ErrorText
<1>2. NoRun \in RunRecord
  BY DEF NoRun, RunRecord, StarterPC, RunnerPC
<1>3. TypeOK
  <2>1. /\ tunnels \in [Names -> Ref \cup {Nil}]
        /\ mt \in [Ref -> ManagedTunnel]
        /\ run \in [Run -> RunRecord]
    BY <1>1, <1>2, Zenon DEF Init
  <2>2. /\ removals \in [Names -> 0 .. MaxRemovals]
        /\ notified \in [Names -> State \cup {"none"}]
    BY DEF Init
  <2> QED BY <2>1, <2>2 DEF TypeOK
<1>4. RunsWellFormed
  BY DEF Init, RunsWellFormed, Free, NoRun
<1> QED BY <1>3, <1>4 DEF Typed

(* What the assignments to a ManagedTunnel in Start and in its goroutine   *)
(* change, and what they leave alone.                                      *)
LEMMA SetTunnelFacts ==
  ASSUME mt \in [Ref -> ManagedTunnel], NEW o \in Ref, NEW status \in State,
         NEW error \in ErrorText, NEW cancel \in Run \cup {Nil},
         SetTunnel(o, status, error, cancel)
  PROVE  /\ mt' \in [Ref -> ManagedTunnel]
         /\ mt'[o].Status = status
         /\ mt'[o].Error = error
         /\ mt'[o].Ephemeral = mt[o].Ephemeral
         /\ mt'[o].cancel = cancel
         /\ \A x \in Ref \ {o} : mt'[x] = mt[x]
BY Zenon DEF SetTunnel, ManagedTunnel

(* Cancelling contexts leaves every goroutine where it is. *)
LEMMA CancelRunsFacts ==
  ASSUME run \in [Run -> RunRecord], NEW S, CancelRuns(S)
  PROVE  /\ run' \in [Run -> RunRecord]
         /\ \A r \in Run :
              /\ run'[r].name = run[r].name
              /\ run'[r].tunnel = run[r].tunnel
              /\ run'[r].starter = run[r].starter
              /\ run'[r].runner = run[r].runner
              /\ run'[r].cancelled <=> (run[r].cancelled \/ r \in S)
<1>1. ASSUME NEW r \in Run
      PROVE  /\ run'[r] \in RunRecord
             /\ run'[r].name = run[r].name
             /\ run'[r].tunnel = run[r].tunnel
             /\ run'[r].starter = run[r].starter
             /\ run'[r].runner = run[r].runner
             /\ run'[r].cancelled <=> (run[r].cancelled \/ r \in S)
  <2>1. CASE r \in S
    BY <2>1, Zenon DEF CancelRuns, RunRecord
  <2>2. CASE r \notin S
    BY <2>2 DEF CancelRuns
  <2> QED BY <2>1, <2>2
<1>2. run' = [r \in Run |-> run'[r]]
  BY DEF CancelRuns
<1> QED BY <1>1, <1>2

LEMMA TypedStep ==
  ASSUME Typed, [Next]_vars
  PROVE  Typed'
<1> USE NamesAssumption, NilAssumption, BoundAssumption
<1> USE DEF Typed, TypeOK, RunsWellFormed, Free
<1>1. ASSUME NEW n \in Names, NEW r \in Run, Start(n, r)
      PROVE  Typed'
  <2>1. tunnels[n] \in Ref
    BY <1>1 DEF Start, Exists
  <2>2. mt' \in [Ref -> ManagedTunnel]
    BY <1>1, <2>1, SetTunnelFacts DEF Start, State, ErrorText
  <2>3. run' \in [Run -> RunRecord]
    BY <1>1, <2>1 DEF Start, RunRecord, StarterPC, RunnerPC
  <2>4. RunsWellFormed'
    BY <1>1, <2>1 DEF Start
  <2> QED BY <1>1, <2>2, <2>3, <2>4 DEF Start
<1>2. ASSUME NEW r \in Run, Announce(r)
      PROVE  Typed'
  BY <1>2 DEF Announce, RunRecord, State, StarterPC, RunnerPC
<1>3. ASSUME NEW r \in Run, Wake(r)
      PROVE  Typed'
  <2>1. mt' \in [Ref -> ManagedTunnel]
    BY <1>3, SMTT(30) DEF Wake, ManagedTunnel, State
  <2>2. run' \in [Run -> RunRecord]
    BY <1>3 DEF Wake, RunRecord, StarterPC
  <2>3. RunsWellFormed'
    BY <1>3 DEF Wake, RunRecord
  <2> QED BY <1>3, <2>1, <2>2, <2>3 DEF Wake
<1>4. ASSUME NEW r \in Run, AnnounceConnected(r)
      PROVE  Typed'
  BY <1>4 DEF AnnounceConnected, RunRecord, State, StarterPC, RunnerPC
<1>5. ASSUME NEW r \in Run, Open(r) \/ OpenFails(r) \/ Close(r)
      PROVE  Typed'
  BY <1>5 DEF Open, OpenFails, Close, RunnerMoves, RunRecord, StarterPC, RunnerPC
<1>6. ASSUME NEW r \in Run, Record(r)
      PROVE  Typed'
  <2>1. mt' \in [Ref -> ManagedTunnel]
    BY <1>6, SetTunnelFacts DEF Record, State, ErrorText
  <2>2. PICK pc \in {"reportError", "reportDisconnected"} :
          run' = [run EXCEPT ![r].runner = pc]
    BY <1>6 DEF Record
  <2>3. run' \in [Run -> RunRecord]
    BY <2>2 DEF RunRecord, RunnerPC
  <2>4. run[r].runner \in {"failed", "closed"}
    BY <1>6 DEF Record
  <2>5. RunsWellFormed'
    BY <2>2, <2>4 DEF RunRecord
  <2> QED BY <1>6, <2>1, <2>3, <2>5 DEF Record
<1>7. ASSUME NEW r \in Run, Report(r)
      PROVE  Typed'
  BY <1>7 DEF Report, RunRecord, State, StarterPC, RunnerPC
<1>8. ASSUME NEW n \in Names, Stop(n)
      PROVE  Typed'
  <2>1. run' \in [Run -> RunRecord]
    BY <1>8, CancelRunsFacts DEF Stop
  <2>2. RunsWellFormed'
    BY <1>8, CancelRunsFacts DEF Stop
  <2>3. removals' \in [Names -> 0 .. MaxRemovals]
    BY <1>8 DEF Stop
  <2> QED BY <1>8, <2>1, <2>2, <2>3 DEF Stop
<1>9. ASSUME NEW n \in Names, RemoveAfterStop(n) \/ Unregister(n)
      PROVE  Typed'
  BY <1>9 DEF RemoveAfterStop, Unregister
<1>10. ASSUME StopAll
       PROVE  Typed'
  BY <1>10, CancelRunsFacts DEF StopAll
<1>11. ASSUME NEW n \in Names, NEW o \in Ref, Register(n, o)
       PROVE  Typed'
  BY <1>11 DEF Register, NewTunnel, ManagedTunnel, State, ErrorText
<1>12. CASE UNCHANGED vars
  BY <1>12 DEF vars
<1> QED
  BY NextCases, <1>1, <1>2, <1>3, <1>4, <1>5, <1>6, <1>7, <1>8, <1>9,
     <1>10, <1>11, <1>12

(* Spec keeps TypeOK: every value the Manager and its goroutines hold is   *)
(* of its type, whatever the interleaving.                                 *)
THEOREM TypeCorrect == Spec => []TypeOK
<1>1. Typed /\ [Next]_vars => Typed'
  BY TypedStep
<1> QED BY TypedInit, <1>1, PTL DEF Spec, Typed

-----------------------------------------------------------------------------
(***************************************************************************)
(* The inductive invariant.  What callers rely on (OneRunnerPerTunnel,     *)
(* RunnersReachable) speaks of tunnels that are in the map; goroutines     *)
(* also hold pointers to tunnels that left it, so ownership is stated for  *)
(* every object.                                                           *)
(***************************************************************************)

(* The cancel function of an object is that of its live run. *)
OwnerIsLive ==
  \A o \in Ref, r \in Run :
    mt[o].cancel = r <=> Live(r) /\ run[r].tunnel = o

ActiveHasOwner ==
  \A o \in Ref : IsActive(mt[o].Status) <=> mt[o].cancel # Nil

LiveIsMapped ==
  \A r \in Run : Live(r) => tunnels[run[r].name] = run[r].tunnel

ErrorTexts == \A o \in Ref : mt[o].Error # "" <=> mt[o].Status = "error"

(* Configured tunnels are not ephemeral, hence never due for removal. *)
ConfiguredSafe ==
  \A n \in ConfigNames :
    Exists(n) /\ ~mt[tunnels[n]].Ephemeral /\ removals[n] = 0

StarterPending ==
  \A o \in Ref, r \in Run :
    mt[o].Status = "connecting" /\ mt[o].cancel = r
      => run[r].starter \in {"announce", "sleeping"}

NamesDistinct ==
  \A m, n \in Names : Exists(m) /\ tunnels[m] = tunnels[n] => m = n

IInv ==
  /\ Typed
  /\ NamesDistinct
  /\ OwnerIsLive
  /\ ActiveHasOwner
  /\ LiveIsMapped
  /\ ErrorTexts
  /\ ConfiguredSafe
  /\ StarterPending

LEMMA IInvInit == Init => IInv
<1> SUFFICES ASSUME Init PROVE IInv
  OBVIOUS
<1> USE NamesAssumption, NilAssumption
<1>1. Typed
  BY TypedInit
<1>2. \A r \in Run : ~Live(r)
  BY DEF Init, NoRun, Live
<1>3. \A o \in Ref : /\ mt[o].Status = "disconnected"
                     /\ mt[o].Error = ""
                     /\ mt[o].Ephemeral = FALSE
                     /\ mt[o].cancel = Nil
  BY DEF Init, NewTunnel
<1>4. NamesDistinct
  BY DEF Init, NamesDistinct, Exists
<1>5. ConfiguredSafe
  BY <1>3 DEF Init, ConfiguredSafe, Exists
<1>6. OwnerIsLive /\ LiveIsMapped /\ StarterPending
  BY <1>2, <1>3 DEF OwnerIsLive, LiveIsMapped, StarterPending
<1>7. ActiveHasOwner /\ ErrorTexts
  BY <1>3 DEF ActiveHasOwner, ErrorTexts, IsActive
<1> QED BY <1>1, <1>4, <1>5, <1>6, <1>7 DEF IInv

(* A step that only moves goroutines, none of them past the point where    *)
(* the end of a run is recorded, disturbs nothing about ownership.         *)
LEMMA GoroutinesMove ==
  ASSUME NamesDistinct, OwnerIsLive, ActiveHasOwner, LiveIsMapped, ErrorTexts,
         UNCHANGED <<tunnels, mt>>,
         \A r \in Run : /\ Live(r)' <=> Live(r)
                        /\ Live(r) => /\ run'[r].name = run[r].name
                                      /\ run'[r].tunnel = run[r].tunnel
  PROVE  /\ NamesDistinct' /\ OwnerIsLive' /\ ActiveHasOwner'
         /\ LiveIsMapped' /\ ErrorTexts'
<1>1. NamesDistinct' /\ ActiveHasOwner' /\ ErrorTexts'
  BY DEF NamesDistinct, ActiveHasOwner, ErrorTexts, Exists, IsActive
<1>2. OwnerIsLive'
  BY DEF OwnerIsLive
<1>3. LiveIsMapped'
  BY DEF LiveIsMapped
<1> QED BY <1>1, <1>2, <1>3

LEMMA IInvStep ==
  ASSUME IInv, [Next]_vars
  PROVE  IInv'
<1> USE NamesAssumption, NilAssumption
<1>0. Typed'
  BY TypedStep DEF IInv
<1> DEFINE Rest == /\ NamesDistinct /\ OwnerIsLive /\ ActiveHasOwner
                   /\ LiveIsMapped /\ ErrorTexts /\ ConfiguredSafe
                   /\ StarterPending
<1> SUFFICES Rest'
  BY <1>0 DEF IInv
<1>ty. /\ tunnels \in [Names -> Ref \cup {Nil}]
       /\ mt \in [Ref -> ManagedTunnel]
       /\ run \in [Run -> RunRecord]
       /\ removals \in [Names -> 0 .. MaxRemovals]
  BY DEF IInv, Typed, TypeOK
<1>wf. RunsWellFormed
  BY DEF IInv, Typed
<1>inv. Rest
  BY DEF IInv
<1>1. ASSUME NEW n \in Names, NEW r \in Run, Start(n, r)
      PROVE  Rest'
  <2> DEFINE o == tunnels[n]
  <2>1. o \in Ref /\ tunnels' = tunnels /\ removals' = removals
    BY <1>ty, <1>1 DEF Start, Exists
  <2>2. /\ mt'[o].Status = "connecting"
        /\ mt'[o].Error = ""
        /\ mt'[o].Ephemeral = mt[o].Ephemeral
        /\ mt'[o].cancel = r
        /\ \A x \in Ref \ {o} : mt'[x] = mt[x]
    BY <1>ty, <1>1, <2>1, SetTunnelFacts, ZenonT(60) DEF Start, State, ErrorText
  <2>3. /\ run'[r].name = n
        /\ run'[r].tunnel = o
        /\ run'[r].starter = "announce"
        /\ run'[r].runner = "unborn"
        /\ \A x \in Run \ {r} : run'[x] = run[x]
    BY <1>ty, <1>1 DEF Start
  <2>4. ~Live(r) /\ mt[o].cancel = Nil
    BY <1>inv, <1>1, <2>1 DEF Start, Free, Live, StatusOf, ActiveHasOwner
  <2>5. \A x \in Run \ {r} : Live(x)' <=> Live(x)
    BY <2>3 DEF Live
  <2>6. Live(r)'
    BY <2>3 DEF Live
  <2>7. OwnerIsLive'
    <3> SUFFICES ASSUME NEW p \in Ref, NEW x \in Run
                 PROVE  mt'[p].cancel = x <=> Live(x)' /\ run'[x].tunnel = p
      BY DEF OwnerIsLive
    <3>1. mt[p].cancel = x <=> Live(x) /\ run[x].tunnel = p
      BY <1>inv DEF OwnerIsLive
    <3>2. mt[p].cancel # r
      BY <1>inv, <2>4 DEF OwnerIsLive
    <3>3. CASE p = o
      BY <2>2, <2>3, <2>4, <2>5, <2>6, <3>1, <3>3
    <3>4. CASE p # o
      BY <2>2, <2>3, <2>5, <3>1, <3>2, <3>4, ZenonT(60)
    <3> QED BY <3>3, <3>4
  <2>8. LiveIsMapped'
    BY <1>inv, <2>1, <2>3, <2>5 DEF LiveIsMapped
  <2>9. NamesDistinct'
    BY <1>inv, <2>1 DEF NamesDistinct, Exists
  <2>10. ConfiguredSafe'
    BY <1>inv, <1>ty, <2>1, <2>2, ZenonT(60) DEF ConfiguredSafe, Exists
  <2>11. ActiveHasOwner'
    BY <1>inv, <2>1, <2>2 DEF ActiveHasOwner, IsActive
  <2>12. ErrorTexts'
    BY <1>inv, <2>1, <2>2 DEF ErrorTexts
  <2>13. StarterPending'
    <3> SUFFICES ASSUME NEW p \in Ref, NEW x \in Run,
                        mt'[p].Status = "connecting", mt'[p].cancel = x
                 PROVE  run'[x].starter \in {"announce", "sleeping"}
      BY DEF StarterPending
    <3>1. mt[p].cancel # r
      BY <1>inv, <2>4 DEF OwnerIsLive
    <3> QED BY <1>inv, <2>2, <2>3, <3>1, ZenonT(60) DEF StarterPending
  <2> QED BY <2>7, <2>8, <2>9, <2>10, <2>11, <2>12, <2>13
<1>2. ASSUME NEW r \in Run, Announce(r)
      PROVE  Rest'
  <2>1. /\ run'[r].name = run[r].name
        /\ run'[r].tunnel = run[r].tunnel
        /\ run'[r].starter = "sleeping"
        /\ run'[r].runner = "opening"
        /\ \A x \in Run \ {r} : run'[x] = run[x]
    BY <1>ty, <1>2 DEF Announce, RunRecord
  <2>2. run[r].runner = "unborn"
    BY <1>wf, <1>2 DEF Announce, RunsWellFormed
  <2>3. UNCHANGED <<tunnels, mt, removals>>
    BY <1>2 DEF Announce
  <2>4. \A x \in Run : Live(x)' <=> Live(x)
    BY <2>1, <2>2 DEF Live
  <2>5. StarterPending'
    BY <1>inv, <2>1, <2>3 DEF StarterPending
  <2>6. ConfiguredSafe'
    BY <1>inv, <2>3 DEF ConfiguredSafe, Exists
  <2> QED BY <1>inv, <2>1, <2>3, <2>4, <2>5, <2>6, GoroutinesMove
<1>3. ASSUME NEW r \in Run, Wake(r)
      PROVE  Rest'
  <2> DEFINE o == run[r].tunnel
  <2>1. o \in Ref /\ tunnels' = tunnels /\ removals' = removals
    BY <1>wf, <1>3 DEF Wake, RunsWellFormed, Free
  <2>2. /\ run'[r].name = run[r].name
        /\ run'[r].tunnel = run[r].tunnel
        /\ run'[r].runner = run[r].runner
        /\ \A x \in Run \ {r} : run'[x] = run[x]
    BY <1>ty, <1>3 DEF Wake, RunRecord
  <2>3. /\ mt'[o].Error = mt[o].Error
        /\ mt'[o].Ephemeral = mt[o].Ephemeral
        /\ mt'[o].cancel = mt[o].cancel
        /\ mt'[o].Status = IF mt[o].Status = "connecting" THEN "connected"
                           ELSE mt[o].Status
        /\ \A x \in Ref \ {o} : mt'[x] = mt[x]
    BY <1>ty, <1>3, <2>1 DEF Wake, ManagedTunnel
  <2>4. \A x \in Run : /\ Live(x)' <=> Live(x)
                       /\ run'[x].tunnel = run[x].tunnel
                       /\ run'[x].name = run[x].name
    BY <2>2 DEF Live
  <2>5. \A p \in Ref : mt'[p].cancel = mt[p].cancel
    BY <2>3
  <2>6. OwnerIsLive' /\ LiveIsMapped'
    BY <1>inv, <2>1, <2>4, <2>5 DEF OwnerIsLive, LiveIsMapped
  <2>7. NamesDistinct'
    BY <1>inv, <2>1 DEF NamesDistinct, Exists
  <2>8. ActiveHasOwner'
    BY <1>inv, <2>1, <2>3 DEF ActiveHasOwner, IsActive
  <2>9. ErrorTexts'
    BY <1>inv, <2>1, <2>3, ZenonT(60) DEF ErrorTexts
  <2>10. ConfiguredSafe'
    BY <1>inv, <1>ty, <2>1, <2>3 DEF ConfiguredSafe, Exists
  <2>11. StarterPending'
    <3> SUFFICES ASSUME NEW p \in Ref, NEW x \in Run,
                        mt'[p].Status = "connecting", mt'[p].cancel = x
                 PROVE  run'[x].starter \in {"announce", "sleeping"}
      BY DEF StarterPending
    <3>1. p # o
      BY <2>3
    <3>2. run[x].starter \in {"announce", "sleeping"} /\ run[x].tunnel = p
      BY <1>inv, <2>3, <3>1 DEF StarterPending, OwnerIsLive
    <3> QED BY <2>2, <3>1, <3>2
  <2> QED BY <2>6, <2>7, <2>8, <2>9, <2>10, <2>11
<1>4. ASSUME NEW r \in Run, AnnounceConnected(r)
      PROVE  Rest'
  <2>1. /\ run'[r].name = run[r].name
        /\ run'[r].tunnel = run[r].tunnel
        /\ run'[r].runner = run[r].runner
        /\ \A x \in Run \ {r} : run'[x] = run[x]
    BY <1>ty, <1>4 DEF AnnounceConnected, RunRecord
  <2>2. UNCHANGED <<tunnels, mt, removals>>
    BY <1>4 DEF AnnounceConnected
  <2>3. \A x \in Run : Live(x)' <=> Live(x)
    BY <2>1 DEF Live
  <2>4. StarterPending'
    BY <1>inv, <1>4, <2>1, <2>2 DEF AnnounceConnected, StarterPending
  <2>5. ConfiguredSafe'
    BY <1>inv, <2>2 DEF ConfiguredSafe, Exists
  <2> QED BY <1>inv, <2>1, <2>2, <2>3, <2>4, <2>5, GoroutinesMove
<1>5. ASSUME NEW r \in Run, Open(r) \/ OpenFails(r) \/ Close(r)
      PROVE  Rest'
  <2>1. /\ run'[r].name = run[r].name
        /\ run'[r].tunnel = run[r].tunnel
        /\ run'[r].starter = run[r].starter
        /\ \A x \in Run \ {r} : run'[x] = run[x]
    BY <1>ty, <1>5 DEF Open, OpenFails, Close, RunnerMoves, RunRecord
  <2>2. UNCHANGED <<tunnels, mt, removals>>
    BY <1>5 DEF Open, OpenFails, Close, RunnerMoves
  <2>3. Live(r) /\ Live(r)'
    BY <1>ty, <1>5 DEF Open, OpenFails, Close, RunnerMoves, RunRecord, Live
  <2>4. \A x \in Run : Live(x)' <=> Live(x)
    BY <2>1, <2>3 DEF Live
  <2>5. StarterPending'
    BY <1>inv, <2>1, <2>2 DEF StarterPending
  <2>6. ConfiguredSafe'
    BY <1>inv, <2>2 DEF ConfiguredSafe, Exists
  <2> QED BY <1>inv, <2>1, <2>2, <2>4, <2>5, <2>6, GoroutinesMove
<1>6. ASSUME NEW r \in Run, Record(r)
      PROVE  Rest'
  <2> DEFINE o == run[r].tunnel
  <2>1. /\ o \in Ref /\ tunnels' = tunnels /\ removals' = removals
    BY <1>wf, <1>6 DEF Record, RunsWellFormed, Free
  <2>2. PICK pc \in {"reportError", "reportDisconnected"} :
          run' = [run EXCEPT ![r].runner = pc]
    BY <1>6 DEF Record
  <2>3. /\ run'[r].starter = run[r].starter
        /\ run'[r].runner = pc
        /\ \A x \in Run \ {r} : run'[x] = run[x]
    BY <1>ty, <2>2 DEF RunRecord
  <2>4. /\ \/ mt'[o].Status = "error" /\ mt'[o].Error = "failed"
           \/ mt'[o].Status = "disconnected" /\ mt'[o].Error = ""
        /\ mt'[o].Ephemeral = mt[o].Ephemeral
        /\ mt'[o].cancel = Nil
        /\ \A x \in Ref \ {o} : mt'[x] = mt[x]
    BY <1>ty, <1>6, <2>1, SetTunnelFacts, ZenonT(60) DEF Record, State, ErrorText
  <2>5. /\ Live(r) /\ ~Live(r)'
        /\ \A x \in Run \ {r} : Live(x)' <=> Live(x)
    BY <1>6, <2>3 DEF Record, Live
  <2>6. OwnerIsLive'
    <3> SUFFICES ASSUME NEW p \in Ref, NEW x \in Run
                 PROVE  mt'[p].cancel = x <=> Live(x)' /\ run'[x].tunnel = p
      BY DEF OwnerIsLive
    <3>1. /\ mt[p].cancel = x <=> Live(x) /\ run[x].tunnel = p
          /\ mt[p].cancel = r <=> Live(r) /\ run[r].tunnel = p
      BY <1>inv DEF OwnerIsLive
    <3>2. CASE x = r
      BY <2>4, <2>5, <3>1, <3>2
    <3>3. CASE x # r
      BY <2>1, <2>3, <2>4, <2>5, <3>1, <3>3
    <3> QED BY <3>2, <3>3
  <2>7. LiveIsMapped'
    BY <1>inv, <2>1, <2>3, <2>5 DEF LiveIsMapped
  <2>8. NamesDistinct'
    BY <1>inv, <2>1 DEF NamesDistinct, Exists
  <2>9. ActiveHasOwner'
    BY <1>inv, <2>1, <2>4 DEF ActiveHasOwner, IsActive
  <2>10. ErrorTexts'
    BY <1>inv, <2>1, <2>4 DEF ErrorTexts
  <2>11. ConfiguredSafe'
    BY <1>inv, <1>ty, <2>1, <2>4, ZenonT(60) DEF ConfiguredSafe, Exists
  <2>12. StarterPending'
    BY <1>inv, <2>1, <2>3, <2>4, ZenonT(60) DEF StarterPending
  <2> QED BY <2>6, <2>7, <2>8, <2>9, <2>10, <2>11, <2>12
<1>7. ASSUME NEW r \in Run, Report(r)
      PROVE  Rest'
  <2>1. /\ run'[r].starter = run[r].starter
        /\ \A x \in Run \ {r} : run'[x] = run[x]
    BY <1>ty, <1>7 DEF Report, RunRecord
  <2>2. UNCHANGED <<tunnels, mt, removals>>
    BY <1>7 DEF Report
  <2>3. ~Live(r) /\ ~Live(r)'
    BY <1>ty, <1>7 DEF Report, RunRecord, Live
  <2>4. \A x \in Run : Live(x)' <=> Live(x)
    BY <2>1, <2>3 DEF Live
  <2>5. StarterPending'
    BY <1>inv, <2>1, <2>2 DEF StarterPending
  <2>6. ConfiguredSafe'
    BY <1>inv, <2>2 DEF ConfiguredSafe, Exists
  <2>7. \A x \in Run : Live(x) => /\ run'[x].name = run[x].name
                                  /\ run'[x].tunnel = run[x].tunnel
    BY <2>1, <2>3
  <2> QED BY <1>inv, <2>2, <2>4, <2>5, <2>6, <2>7, GoroutinesMove
<1>8. ASSUME NEW S, CancelRuns(S), UNCHANGED <<tunnels, mt>>,
             \A n \in ConfigNames : removals'[n] = removals[n]
      PROVE  Rest'
  <2>1. \A r \in Run : /\ run'[r].name = run[r].name
                       /\ run'[r].tunnel = run[r].tunnel
                       /\ run'[r].starter = run[r].starter
                       /\ run'[r].runner = run[r].runner
    BY <1>ty, <1>8, CancelRunsFacts
  <2>2. \A x \in Run : Live(x)' <=> Live(x)
    BY <2>1 DEF Live
  <2>3. StarterPending'
    BY <1>inv, <1>8, <2>1 DEF StarterPending
  <2>4. ConfiguredSafe'
    BY <1>inv, <1>8 DEF ConfiguredSafe, Exists
  <2> QED BY <1>inv, <1>8, <2>1, <2>2, <2>3, <2>4, GoroutinesMove
<1>9. ASSUME NEW n \in Names, Stop(n)
      PROVE  Rest'
  <2>1. \A m \in ConfigNames : removals'[m] = removals[m]
    BY <1>inv, <1>ty, <1>9 DEF Stop, ConfiguredSafe
  <2> QED BY <1>8, <1>9, <2>1 DEF Stop
<1>10. ASSUME StopAll
       PROVE  Rest'
  BY <1>8, <1>10 DEF StopAll
<1>11. ASSUME NEW n \in Names, n \notin ConfigNames,
              UNCHANGED <<mt, run>>,
              \A m \in Names \ {n} : /\ tunnels'[m] = tunnels[m]
                                     /\ removals'[m] = removals[m],
              \/ tunnels'[n] = tunnels[n]
              \/ tunnels'[n] = Nil /\ Exists(n) /\ ~IsActive(StatusOf(n))
       PROVE  Rest'
  <2>1. \A r \in Run : Live(r)' <=> Live(r)
    BY <1>11 DEF Live
  <2>2. OwnerIsLive' /\ ActiveHasOwner' /\ ErrorTexts' /\ StarterPending'
    BY <1>inv, <1>11, <2>1, ZenonT(60)
       DEF OwnerIsLive, ActiveHasOwner, ErrorTexts, StarterPending, IsActive
  <2>3. ASSUME NEW r \in Run, Live(r)
        PROVE  tunnels'[run[r].name] = run[r].tunnel
    <3>1. /\ run[r].name \in Names /\ run[r].tunnel \in Ref
          /\ tunnels[run[r].name] = run[r].tunnel
          /\ mt[run[r].tunnel].cancel = r
      BY <1>inv, <1>wf, <2>3
         DEF RunsWellFormed, Free, Live, LiveIsMapped, OwnerIsLive
    <3>2. IsActive(mt[run[r].tunnel].Status)
      BY <1>inv, <3>1 DEF ActiveHasOwner
    <3> QED BY <1>11, <3>1, <3>2 DEF StatusOf
  <2>4. LiveIsMapped'
    BY <1>11, <2>1, <2>3 DEF LiveIsMapped
  <2>5. NamesDistinct' /\ ConfiguredSafe'
    BY <1>inv, <1>ty, <1>11 DEF NamesDistinct, ConfiguredSafe, Exists
  <2> QED BY <2>2, <2>4, <2>5
<1>12. ASSUME NEW n \in Names, RemoveAfterStop(n)
       PROVE  Rest'
  <2>1. n \notin ConfigNames
    BY <1>inv, <1>12 DEF RemoveAfterStop, ConfiguredSafe
  <2>2. /\ UNCHANGED <<mt, run>>
        /\ \A m \in Names \ {n} : /\ tunnels'[m] = tunnels[m]
                                  /\ removals'[m] = removals[m]
    BY <1>ty, <1>12 DEF RemoveAfterStop
  <2>3. \/ tunnels'[n] = tunnels[n]
        \/ tunnels'[n] = Nil /\ Exists(n) /\ ~IsActive(StatusOf(n))
    BY <1>ty, <1>12 DEF RemoveAfterStop
  <2> QED BY <1>11, <2>1, <2>2, <2>3
<1>13. ASSUME NEW n \in Names, Unregister(n)
       PROVE  Rest'
  <2>1. n \notin ConfigNames
    BY <1>inv, <1>13 DEF Unregister, ConfiguredSafe
  <2>2. /\ UNCHANGED <<mt, run, removals>>
        /\ \A m \in Names \ {n} : tunnels'[m] = tunnels[m]
        /\ tunnels'[n] = Nil /\ Exists(n) /\ ~IsActive(StatusOf(n))
    BY <1>ty, <1>13 DEF Unregister
  <2> QED BY <1>11, <2>1, <2>2
<1>14. ASSUME NEW n \in Names, NEW o \in Ref, Register(n, o)
       PROVE  Rest'
  <2>1. \A r \in Run : Live(r) => /\ run[r].tunnel # o
                                  /\ run[r].name \in Names \ {n}
    BY <1>inv, <1>wf, <1>14
       DEF Register, Exists, Unreferenced, Free, Live, RunsWellFormed, LiveIsMapped
  <2>2. /\ mt'[o].Status = "disconnected" /\ mt'[o].Error = ""
        /\ mt'[o].cancel = Nil
        /\ \A x \in Ref \ {o} : mt'[x] = mt[x]
    BY <1>ty, <1>14 DEF Register, NewTunnel
  <2>3. /\ tunnels'[n] = o
        /\ \A m \in Names \ {n} : tunnels'[m] = tunnels[m]
        /\ UNCHANGED <<run, removals>>
    BY <1>ty, <1>14 DEF Register
  <2>4. n \notin ConfigNames /\ \A m \in Names : tunnels[m] # o
    BY <1>inv, <1>14 DEF Register, Unreferenced, ConfiguredSafe
  <2>5. \A r \in Run : Live(r)' <=> Live(r)
    BY <2>3 DEF Live
  <2>6. OwnerIsLive'
    <3> SUFFICES ASSUME NEW p \in Ref, NEW x \in Run
                 PROVE  mt'[p].cancel = x <=> Live(x)' /\ run'[x].tunnel = p
      BY DEF OwnerIsLive
    <3>1. mt[p].cancel = x <=> Live(x) /\ run[x].tunnel = p
      BY <1>inv DEF OwnerIsLive
    <3>2. CASE p = o
      BY <2>1, <2>2, <2>3, <2>5, <3>2
    <3>3. CASE p # o
      BY <2>2, <2>3, <2>5, <3>1, <3>3
    <3> QED BY <3>2, <3>3
  <2>7. LiveIsMapped'
    BY <1>inv, <2>1, <2>3, <2>5 DEF LiveIsMapped
  <2>8. ActiveHasOwner' /\ ErrorTexts'
    BY <1>inv, <2>2, ZenonT(60) DEF ActiveHasOwner, ErrorTexts, IsActive
  <2>9. NamesDistinct'
    BY <1>inv, <2>3, <2>4 DEF NamesDistinct, Exists
  <2>10. ConfiguredSafe'
    <3> SUFFICES ASSUME NEW m \in ConfigNames
                 PROVE  /\ tunnels'[m] # Nil /\ removals'[m] = 0
                        /\ ~mt'[tunnels'[m]].Ephemeral
      BY DEF ConfiguredSafe, Exists
    <3>1. tunnels[m] # Nil /\ ~mt[tunnels[m]].Ephemeral /\ removals[m] = 0
      BY <1>inv DEF ConfiguredSafe, Exists
    <3>2. m \in Names \ {n} /\ tunnels[m] \in Ref \ {o}
      BY <1>ty, <2>4, <3>1
    <3> QED BY <2>2, <2>3, <3>1, <3>2
  <2>11. StarterPending'
    BY <1>inv, <2>2, <2>3 DEF StarterPending
  <2> QED BY <2>6, <2>7, <2>8, <2>9, <2>10, <2>11
<1>15. CASE UNCHANGED vars
  <2>1. \A r \in Run : Live(r)' <=> Live(r)
    BY <1>15 DEF vars, Live
  <2>2. ConfiguredSafe' /\ StarterPending'
    BY <1>inv, <1>15 DEF vars, ConfiguredSafe, StarterPending, Exists
  <2>3. UNCHANGED <<tunnels, mt, run>>
    BY <1>15 DEF vars
  <2> QED BY <1>inv, <2>1, <2>2, <2>3, GoroutinesMove
<1> QED
  BY NextCases, <1>1, <1>2, <1>3, <1>4, <1>5, <1>6, <1>7, <1>9, <1>10,
     <1>12, <1>13, <1>14, <1>15

LEMMA IInvAlways == Spec => []IInv
<1>1. IInv /\ [Next]_vars => IInv'
  BY IInvStep
<1> QED BY IInvInit, <1>1, PTL DEF Spec

-----------------------------------------------------------------------------
(* Whatever the interleaving of starters, runners, stops and removals, an  *)
(* active tunnel has exactly one runner, the one its cancel function ends, *)
(* and an inactive tunnel has none.                                        *)
THEOREM OneRunner == Spec => []OneRunnerPerTunnel
<1>1. IInv => OneRunnerPerTunnel
  <2> SUFFICES ASSUME IInv, NEW n \in Names, Exists(n)
               PROVE  {r \in Run : Live(r) /\ run[r].tunnel = tunnels[n]}
                        = IF IsActive(StatusOf(n)) THEN {mt[tunnels[n]].cancel}
                          ELSE {}
    BY DEF OneRunnerPerTunnel
  <2> DEFINE o == tunnels[n]
  <2>1. o \in Ref /\ mt[o].cancel \in Run \cup {Nil}
    BY DEF IInv, Typed, TypeOK, Exists, ManagedTunnel
  <2>2. \A r \in Run : mt[o].cancel = r <=> Live(r) /\ run[r].tunnel = o
    BY <2>1 DEF IInv, OwnerIsLive
  <2>3. IsActive(StatusOf(n)) <=> mt[o].cancel # Nil
    BY <2>1 DEF IInv, ActiveHasOwner, StatusOf
  <2> HIDE DEF o
  <2>4. CASE mt[o].cancel = Nil
    BY <2>2, <2>3, <2>4, NilAssumption DEF o
  <2>5. CASE mt[o].cancel # Nil
    BY <2>1, <2>2, <2>3, <2>5 DEF o
  <2> QED BY <2>4, <2>5
<1> QED BY IInvAlways, <1>1, PTL

(* Every runner at work can be found through the Manager's map and ended   *)
(* through its tunnel's cancel function: no SSH connection is orphaned by  *)
(* a deferred removal, an Unregister or a restart.                         *)
THEOREM NoOrphanedRunner == Spec => []RunnersReachable
<1>1. IInv => RunnersReachable
  BY DEF IInv, RunnersReachable, OwnerIsLive, LiveIsMapped, Typed,
         RunsWellFormed, Free, Live
<1> QED BY IInvAlways, <1>1, PTL

(* The tunnels of the configuration are never removed. *)
THEOREM ConfigurationKept == Spec => []ConfiguredKept
<1>1. IInv => ConfiguredKept
  BY DEF IInv, ConfiguredKept, ConfiguredSafe
<1> QED BY IInvAlways, <1>1, PTL

(* An error text is shown exactly with the status "error". *)
THEOREM ErrorTextCorrect == Spec => []ErrorTextMatchesStatus
<1>1. IInv => ErrorTextMatchesStatus
  BY DEF IInv, ErrorTextMatchesStatus, ErrorTexts, Typed, TypeOK, Exists, StatusOf
<1> QED BY IInvAlways, <1>1, PTL

(* A tunnel shown as connecting has its starter still ahead of the         *)
(* promotion, so that under fairness it does not stay connecting.          *)
THEOREM ConnectingIsTransient == Spec => []ConnectingHasStarter
<1>1. IInv => ConnectingHasStarter
  <2> SUFFICES ASSUME IInv, NEW n \in Names, Exists(n), StatusOf(n) = "connecting"
               PROVE  run[mt[tunnels[n]].cancel].starter \in {"announce", "sleeping"}
    BY DEF ConnectingHasStarter
  <2>1. tunnels[n] \in Ref /\ mt[tunnels[n]].cancel \in Run \cup {Nil}
    BY DEF IInv, Typed, TypeOK, Exists, ManagedTunnel
  <2>2. mt[tunnels[n]].cancel \in Run
    BY <2>1 DEF IInv, ActiveHasOwner, IsActive, StatusOf
  <2> QED BY <2>1, <2>2 DEF IInv, StarterPending, StatusOf
<1> QED BY IInvAlways, <1>1, PTL

-----------------------------------------------------------------------------
(* The refinement: every step is a step of TunnelLifecycle, or invisible. *)

(* What the invariant says of a name that is in the map. *)
LEMMA MappedFacts ==
  ASSUME IInv, NEW n \in Names, Exists(n)
  PROVE  /\ tunnels[n] \in Ref
         /\ mt[tunnels[n]].Status \in State
         /\ mt[tunnels[n]].cancel \in Run \cup {Nil}
         /\ IsActive(mt[tunnels[n]].Status) <=> mt[tunnels[n]].cancel # Nil
<1>1. tunnels[n] \in Ref
  BY DEF IInv, Typed, TypeOK, Exists
<1>2. mt[tunnels[n]] \in ManagedTunnel
  BY <1>1 DEF IInv, Typed, TypeOK
<1>3. IsActive(mt[tunnels[n]].Status) <=> mt[tunnels[n]].cancel # Nil
  BY <1>1 DEF IInv, ActiveHasOwner
<1> QED BY <1>1, <1>2, <1>3 DEF ManagedTunnel

(* Where the live run of a tunnel is found. *)
LEMMA LiveFacts ==
  ASSUME IInv, NEW r \in Run, Live(r)
  PROVE  /\ run[r].name \in Names
         /\ run[r].tunnel \in Ref
         /\ tunnels[run[r].name] = run[r].tunnel
         /\ mt[run[r].tunnel].cancel = r
         /\ IsActive(mt[run[r].tunnel].Status)
<1>1. run[r].name \in Names /\ run[r].tunnel \in Ref
  BY DEF IInv, Typed, RunsWellFormed, Free, Live
<1>2. tunnels[run[r].name] = run[r].tunnel /\ mt[run[r].tunnel].cancel = r
  BY <1>1 DEF IInv, LiveIsMapped, OwnerIsLive
<1>3. IsActive(mt[run[r].tunnel].Status)
  BY <1>1, <1>2, NilAssumption DEF IInv, ActiveHasOwner
<1> QED BY <1>1, <1>2, <1>3

LEMMA LifecycleInit == Init => Lifecycle!Init
<1> SUFFICES ASSUME Init PROVE Lifecycle!Init
  OBVIOUS
<1>1. \A n \in Names : Exists(n) => /\ StatusOf(n) = "disconnected"
                                    /\ mt[tunnels[n]].cancel = Nil
  BY DEF Init, NewTunnel, Exists, StatusOf
<1>2. LifecycleState = [n \in Names |-> IF n \in ConfigNames THEN "disconnected"
                                        ELSE "absent"]
  BY <1>1, Zenon DEF Init, LifecycleState
<1>3. AskedToStop = {}
  BY <1>1 DEF AskedToStop
<1> QED BY <1>2, <1>3 DEF Lifecycle!Init

(* A step that leaves the map and the tunnels alone, and cancels nobody,   *)
(* is invisible.                                                           *)
LEMMA Invisible ==
  ASSUME IInv, UNCHANGED <<tunnels, mt>>,
         \A r \in Run : run'[r].cancelled = run[r].cancelled
  PROVE  UNCHANGED Lifecycle!lifecycleVars
<1>1. LifecycleState' = LifecycleState
  BY DEF LifecycleState, Exists, StatusOf
<1>2. \A n \in Names : Exists(n) => mt[tunnels[n]].cancel \in Run \cup {Nil}
  BY MappedFacts
<1>3. AskedToStop' = AskedToStop
  BY <1>2 DEF AskedToStop, Exists
<1> QED BY <1>1, <1>3 DEF Lifecycle!lifecycleVars

LEMMA StartBegins ==
  ASSUME IInv, NEW n \in Names, NEW r \in Run, Start(n, r)
  PROVE  Lifecycle!Begin(n)
<1> USE NilAssumption
<1> DEFINE o == tunnels[n]
<1>ty. mt \in [Ref -> ManagedTunnel] /\ run \in [Run -> RunRecord]
  BY DEF IInv, Typed, TypeOK
<1>1. /\ Exists(n) /\ o \in Ref /\ tunnels' = tunnels
      /\ mt[o].cancel = Nil /\ mt[o].Status \in {"disconnected", "error"}
  BY MappedFacts DEF Start, StatusOf, IsActive, State
<1>2. /\ mt'[o].Status = "connecting"
      /\ mt'[o].cancel = r
      /\ \A x \in Ref \ {o} : mt'[x] = mt[x]
  BY <1>ty, <1>1, SetTunnelFacts, ZenonT(60) DEF Start, State, ErrorText
<1>3. /\ run'[r].cancelled = FALSE
      /\ \A x \in Run \ {r} : run'[x] = run[x]
  BY <1>ty DEF Start
<1>4. ~Live(r)
  BY DEF Start, Free, Live
<1>5. \A m \in Names \ {n} : Exists(m) =>
         /\ tunnels[m] \in Ref \ {o}
         /\ mt[tunnels[m]].cancel \in (Run \ {r}) \cup {Nil}
  <2> SUFFICES ASSUME NEW m \in Names \ {n}, Exists(m)
               PROVE  /\ tunnels[m] \in Ref \ {o}
                      /\ mt[tunnels[m]].cancel \in (Run \ {r}) \cup {Nil}
    OBVIOUS
  <2>1. tunnels[m] \in Ref /\ mt[tunnels[m]].cancel \in Run \cup {Nil}
    BY MappedFacts
  <2>2. tunnels[m] # o
    BY DEF IInv, NamesDistinct
  <2>3. mt[tunnels[m]].cancel # r
    BY <1>4, <2>1 DEF IInv, OwnerIsLive
  <2> QED BY <2>1, <2>2, <2>3
<1>6. LifecycleState' = [LifecycleState EXCEPT ![n] = "connecting"]
  BY <1>1, <1>2, <1>5, Zenon DEF LifecycleState, Exists, StatusOf
<1>7. AskedToStop' = AskedToStop
  BY <1>1, <1>2, <1>3, <1>5 DEF AskedToStop, Exists
<1>8. LifecycleState[n] \in {"disconnected", "error"}
  BY <1>1 DEF LifecycleState, StatusOf
<1> QED BY <1>6, <1>7, <1>8 DEF Lifecycle!Begin

LEMMA WakePromotes ==
  ASSUME IInv, NEW r \in Run, Wake(r)
  PROVE  \/ \E n \in Names : Lifecycle!Promote(n)
         \/ UNCHANGED Lifecycle!lifecycleVars
<1> USE NilAssumption
<1> DEFINE o == run[r].tunnel
<1>ty. mt \in [Ref -> ManagedTunnel] /\ run \in [Run -> RunRecord]
  BY DEF IInv, Typed, TypeOK
<1>1. /\ o \in Ref /\ tunnels' = tunnels
      /\ \A x \in Run : run'[x].cancelled = run[x].cancelled
  BY <1>ty DEF Wake, IInv, Typed, RunsWellFormed, Free, RunRecord
<1>2. CASE mt[o].Status # "connecting"
  <2>1. mt' = mt
    BY <1>2 DEF Wake
  <2> QED BY <1>1, <2>1, Invisible
<1>3. CASE mt[o].Status = "connecting"
  <2>1. /\ mt'[o].Status = "connected"
        /\ mt'[o].cancel = mt[o].cancel
        /\ \A x \in Ref \ {o} : mt'[x] = mt[x]
    BY <1>ty, <1>1, <1>3 DEF Wake, ManagedTunnel
  <2>2. mt[o].cancel # Nil
    BY <1>1, <1>3 DEF IInv, ActiveHasOwner, IsActive
  <2>3. PICK x \in Run : mt[o].cancel = x
    BY <1>ty, <1>1, <2>2 DEF ManagedTunnel
  <2>4. Live(x) /\ run[x].tunnel = o
    BY <1>1, <2>3 DEF IInv, OwnerIsLive
  <2> DEFINE n == run[x].name
  <2>5. n \in Names /\ tunnels[n] = o /\ Exists(n)
    BY <1>1, <2>4, LiveFacts DEF Exists
  <2>6. \A m \in Names \ {n} : Exists(m) => tunnels[m] \in Ref \ {o}
    BY <2>5, MappedFacts DEF IInv, NamesDistinct
  <2>7. \A m \in Names : Exists(m) => mt[tunnels[m]].cancel \in Run \cup {Nil}
    BY MappedFacts
  <2> HIDE DEF n, o
  <2>8. LifecycleState' = [LifecycleState EXCEPT ![n] = "connected"]
    BY <1>1, <2>1, <2>5, <2>6, Zenon DEF LifecycleState, Exists, StatusOf
  <2>9. AskedToStop' = AskedToStop
    BY <1>1, <2>1, <2>5, <2>6, <2>7 DEF AskedToStop, Exists
  <2>10. LifecycleState[n] = "connecting"
    BY <1>3, <2>5 DEF LifecycleState, StatusOf
  <2> QED BY <2>5, <2>8, <2>9, <2>10, Zenon DEF Lifecycle!Promote
<1> QED BY <1>2, <1>3

LEMMA RecordEnds ==
  ASSUME IInv, NEW r \in Run, Record(r)
  PROVE  \E n \in Names : Lifecycle!Fail(n) \/ Lifecycle!End(n)
<1> USE NilAssumption
<1> DEFINE o == run[r].tunnel
           n == run[r].name
<1>ty. mt \in [Ref -> ManagedTunnel] /\ run \in [Run -> RunRecord]
  BY DEF IInv, Typed, TypeOK
<1>1. /\ n \in Names /\ o \in Ref /\ tunnels[n] = o /\ Exists(n)
      /\ mt[o].cancel = r /\ IsActive(mt[o].Status)
  <2>1. Live(r)
    BY DEF Record, Live
  <2> QED BY <2>1, LiveFacts, NilAssumption DEF Exists
<1>2. PICK pc \in {"reportError", "reportDisconnected"} :
        run' = [run EXCEPT ![r].runner = pc]
  BY DEF Record
<1>3. \A x \in Run : run'[x].cancelled = run[x].cancelled
  BY <1>ty, <1>2 DEF RunRecord
<1>4. /\ tunnels' = tunnels
      /\ \/ run[r].runner = "failed" /\ mt'[o].Status = "error"
         \/ run[r].runner = "closed" /\ mt'[o].Status = "disconnected"
      /\ mt'[o].cancel = Nil
      /\ \A x \in Ref \ {o} : mt'[x] = mt[x]
  BY <1>ty, <1>1, SetTunnelFacts, ZenonT(60) DEF Record, State, ErrorText
<1>5. \A m \in Names \ {n} : Exists(m) =>
         tunnels[m] \in Ref \ {o} /\ mt[tunnels[m]].cancel \in Run \cup {Nil}
  BY <1>1, MappedFacts DEF IInv, NamesDistinct
<1> HIDE DEF n, o
<1>6. LifecycleState' = [LifecycleState EXCEPT ![n] = mt'[o].Status]
  BY <1>1, <1>4, <1>5, Zenon DEF LifecycleState, Exists, StatusOf
<1>7. AskedToStop' = AskedToStop \ {n}
  BY <1>1, <1>3, <1>4, <1>5 DEF AskedToStop, Exists
<1>8. LifecycleState[n] \in {"connecting", "connected"}
  BY <1>1 DEF LifecycleState, StatusOf, IsActive
<1>9. CASE run[r].runner = "failed"
  BY <1>1, <1>4, <1>6, <1>7, <1>8, <1>9, Zenon DEF Lifecycle!Fail, Lifecycle!Active
<1>10. CASE run[r].runner = "closed"
  <2>1. n \in AskedToStop
    BY <1>1, <1>10 DEF AskedToStop, IInv, Typed, RunsWellFormed
  <2> QED BY <1>1, <1>4, <1>6, <1>7, <1>10, <2>1, Zenon DEF Lifecycle!End
<1> QED BY <1>4, <1>9, <1>10

(* Cancelling the contexts of some tunnels asks exactly these to stop. *)
LEMMA CancelAsks ==
  ASSUME IInv, NEW S \in SUBSET Names, UNCHANGED <<tunnels, mt>>,
         \A n \in S : Exists(n) /\ IsActive(StatusOf(n)),
         NEW C, CancelRuns(C),
         \A n \in Names : Exists(n) /\ mt[tunnels[n]].cancel # Nil
                          => (mt[tunnels[n]].cancel \in C <=> n \in S)
  PROVE  Lifecycle!AskToStop(S)
<1>1. \A r \in Run : run'[r].cancelled <=> (run[r].cancelled \/ r \in C)
  BY CancelRunsFacts DEF IInv, Typed, TypeOK
<1>2. LifecycleState' = LifecycleState
  BY DEF LifecycleState, Exists, StatusOf
<1>3. \A n \in Names : Exists(n) =>
         /\ mt[tunnels[n]].cancel \in Run \cup {Nil}
         /\ n \in S => mt[tunnels[n]].cancel # Nil
  BY MappedFacts DEF StatusOf
<1>4. AskedToStop' = AskedToStop \cup S
  <2>1. ASSUME NEW n \in Names
        PROVE  n \in AskedToStop' <=> n \in AskedToStop \/ n \in S
    BY <1>1, <1>3 DEF AskedToStop, Exists
  <2>2. AskedToStop' \subseteq Names /\ AskedToStop \subseteq Names
    BY DEF AskedToStop
  <2> QED BY <2>1, <2>2
<1>5. \A n \in S : LifecycleState[n] \in {"connecting", "connected"}
  BY DEF LifecycleState, IsActive
<1> QED BY <1>2, <1>4, <1>5 DEF Lifecycle!AskToStop, Lifecycle!Active

LEMMA StopAsks ==
  ASSUME IInv, NEW n \in Names, Stop(n)
  PROVE  Lifecycle!AskToStop({n})
<1> USE NilAssumption
<1> DEFINE C == {mt[tunnels[n]].cancel}
<1>1. Exists(n) /\ IsActive(StatusOf(n)) /\ CancelRuns(C) /\ UNCHANGED <<tunnels, mt>>
  BY DEF Stop
<1>2. ASSUME NEW m \in Names, Exists(m), mt[tunnels[m]].cancel # Nil
      PROVE  mt[tunnels[m]].cancel \in C <=> m \in {n}
  <2>1. tunnels[m] \in Ref /\ tunnels[n] \in Ref /\ mt[tunnels[m]].cancel \in Run
    BY <1>1, <1>2, MappedFacts
  <2>2. mt[tunnels[m]].cancel = mt[tunnels[n]].cancel => tunnels[m] = tunnels[n]
    BY <2>1 DEF IInv, OwnerIsLive
  <2>3. tunnels[m] = tunnels[n] => m = n
    BY <1>2 DEF IInv, NamesDistinct
  <2> QED BY <2>2, <2>3
<1> HIDE DEF C
<1> QED BY <1>1, <1>2, CancelAsks

LEMMA StopAllAsks ==
  ASSUME IInv, StopAll
  PROVE  \E S \in SUBSET Names : Lifecycle!AskToStop(S)
<1> DEFINE S == {n \in Names : Exists(n) /\ mt[tunnels[n]].cancel # Nil}
           C == {mt[tunnels[n]].cancel : n \in {m \in Names : Exists(m)}}
<1>1. CancelRuns(C) /\ UNCHANGED <<tunnels, mt>>
  BY DEF StopAll
<1>2. \A n \in S : Exists(n) /\ IsActive(StatusOf(n))
  BY MappedFacts DEF StatusOf
<1>3. \A n \in Names : Exists(n) /\ mt[tunnels[n]].cancel # Nil
                       => (mt[tunnels[n]].cancel \in C <=> n \in S)
  OBVIOUS
<1>4. S \in SUBSET Names
  OBVIOUS
<1> HIDE DEF S, C
<1>5. Lifecycle!AskToStop(S)
  BY <1>1, <1>2, <1>3, <1>4, CancelAsks
<1> QED BY <1>4, <1>5

LEMMA RemovalRemoves ==
  ASSUME IInv, NEW n \in Names, n \notin ConfigNames, Exists(n),
         ~IsActive(StatusOf(n)), UNCHANGED <<mt, run>>,
         tunnels' = [tunnels EXCEPT ![n] = Nil]
  PROVE  Lifecycle!Remove(n)
<1>1. /\ tunnels'[n] = Nil
      /\ \A m \in Names \ {n} : tunnels'[m] = tunnels[m]
  BY DEF IInv, Typed, TypeOK
<1>2. StatusOf(n) \in {"disconnected", "error"} /\ mt[tunnels[n]].cancel = Nil
  BY MappedFacts DEF StatusOf, IsActive, State
<1>3. LifecycleState' = [LifecycleState EXCEPT ![n] = "absent"]
  <2>1. LifecycleState' = [m \in Names |-> IF tunnels'[m] # Nil
                                            THEN mt[tunnels'[m]].Status
                                            ELSE "absent"]
    BY DEF LifecycleState, Exists, StatusOf
  <2>2. ASSUME NEW m \in Names
        PROVE  LifecycleState'[m] = IF m = n THEN "absent" ELSE LifecycleState[m]
    <3>1. CASE m = n
      BY <1>1, <2>1, <3>1
    <3>2. CASE m # n
      BY <1>1, <2>1, <3>2 DEF LifecycleState, Exists, StatusOf
    <3> QED BY <3>1, <3>2
  <2>3. LifecycleState' = [m \in Names |-> LifecycleState'[m]]
    BY <2>1
  <2>4. LifecycleState = [m \in Names |-> LifecycleState[m]]
    BY DEF LifecycleState
  <2> QED BY <2>2, <2>3, <2>4
<1>4. AskedToStop' = AskedToStop
  BY <1>1, <1>2 DEF AskedToStop, Exists
<1>5. LifecycleState[n] \in {"disconnected", "error"}
  BY <1>2 DEF LifecycleState
<1> QED BY <1>3, <1>4, <1>5 DEF Lifecycle!Remove

LEMMA RegisterAdds ==
  ASSUME IInv, NEW n \in Names, NEW o \in Ref, Register(n, o)
  PROVE  Lifecycle!Add(n)
<1> USE NilAssumption
<1>1. /\ tunnels'[n] = o
      /\ \A m \in Names \ {n} : tunnels'[m] = tunnels[m]
      /\ run' = run
  BY DEF Register, IInv, Typed, TypeOK
<1>2. /\ mt'[o].Status = "disconnected" /\ mt'[o].cancel = Nil
      /\ \A x \in Ref \ {o} : mt'[x] = mt[x]
  BY DEF Register, NewTunnel, IInv, Typed, TypeOK
<1>3. \A m \in Names : Exists(m) => tunnels[m] \in Ref \ {o}
  BY MappedFacts DEF Register, Unreferenced
<1>4. n \in GeneratedNames /\ ~Exists(n)
  BY DEF Register
<1>5. LifecycleState' = [LifecycleState EXCEPT ![n] = "disconnected"]
  BY <1>1, <1>2, <1>3, <1>4, ZenonT(60) DEF LifecycleState, Exists, StatusOf
<1>6. AskedToStop' = AskedToStop
  BY <1>1, <1>2, <1>3, <1>4 DEF AskedToStop, Exists
<1>7. LifecycleState[n] = "absent"
  BY <1>4 DEF LifecycleState
<1> QED BY <1>4, <1>5, <1>6, <1>7 DEF Lifecycle!Add

LEMMA LifecycleStep ==
  ASSUME IInv, [Next]_vars
  PROVE  [Lifecycle!Next]_Lifecycle!lifecycleVars
<1> USE DEF Lifecycle!Next
<1>ty. tunnels \in [Names -> Ref \cup {Nil}] /\ run \in [Run -> RunRecord]
  BY DEF IInv, Typed, TypeOK
<1>1. ASSUME NEW n \in Names, NEW r \in Run, Start(n, r)
      PROVE  Lifecycle!Next
  BY <1>1, StartBegins
<1>2. ASSUME NEW r \in Run,
             \/ Announce(r) \/ AnnounceConnected(r) \/ Report(r)
             \/ Open(r) \/ OpenFails(r) \/ Close(r)
      PROVE  UNCHANGED Lifecycle!lifecycleVars
  <2>1. UNCHANGED <<tunnels, mt>>
    BY <1>2 DEF Announce, AnnounceConnected, Report, Open, OpenFails, Close,
                RunnerMoves
  <2>2. \A x \in Run : run'[x].cancelled = run[x].cancelled
    BY <1>ty, <1>2 DEF Announce, AnnounceConnected, Report, Open, OpenFails,
                       Close, RunnerMoves, RunRecord
  <2> QED BY <2>1, <2>2, Invisible
<1>3. ASSUME NEW r \in Run, Wake(r)
      PROVE  [Lifecycle!Next]_Lifecycle!lifecycleVars
  BY <1>3, WakePromotes
<1>4. ASSUME NEW r \in Run, Record(r)
      PROVE  Lifecycle!Next
  BY <1>4, RecordEnds
<1>5. ASSUME NEW n \in Names, Stop(n)
      PROVE  Lifecycle!Next
  BY <1>5, StopAsks, Zenon
<1>6. ASSUME NEW n \in Names, RemoveAfterStop(n)
      PROVE  [Lifecycle!Next]_Lifecycle!lifecycleVars
  <2>1. n \notin ConfigNames /\ UNCHANGED <<mt, run>>
    BY <1>6 DEF RemoveAfterStop, IInv, ConfiguredSafe
  <2>2. CASE tunnels' = tunnels
    BY <2>1, <2>2, Invisible
  <2>3. CASE /\ Exists(n) /\ ~IsActive(StatusOf(n))
             /\ tunnels' = [tunnels EXCEPT ![n] = Nil]
    BY <2>1, <2>3, RemovalRemoves, Zenon
  <2> QED BY <1>6, <2>2, <2>3 DEF RemoveAfterStop
<1>7. ASSUME NEW n \in Names, Unregister(n)
      PROVE  Lifecycle!Next
  <2>1. n \notin ConfigNames
    BY <1>7 DEF Unregister, IInv, ConfiguredSafe
  <2> QED BY <1>7, <2>1, RemovalRemoves, Zenon DEF Unregister
<1>8. ASSUME StopAll
      PROVE  Lifecycle!Next
  BY <1>8, StopAllAsks
<1>9. ASSUME NEW n \in Names, NEW o \in Ref, Register(n, o)
      PROVE  Lifecycle!Next
  BY <1>9, RegisterAdds
<1>10. CASE UNCHANGED vars
  BY <1>10, Invisible DEF vars
<1> HIDE DEF Lifecycle!Next
<1> QED
  BY NextCases, <1>1, <1>2, <1>3, <1>4, <1>5, <1>6, <1>7, <1>8, <1>9, <1>10

(* The Manager keeps the promises of TunnelLifecycle, for any number of    *)
(* tunnels and of concurrent calls: every step of a starter, a runner, a   *)
(* stop or a deferred removal is a legal change of one tunnel's status or  *)
(* is invisible to callers.                                                *)
THEOREM ManagerImplementsLifecycle == Spec => LifecycleSpec
<1>1. IInv /\ [Next]_vars => [Lifecycle!Next]_Lifecycle!lifecycleVars
  BY LifecycleStep
<1> QED
  BY LifecycleInit, IInvAlways, <1>1, PTL DEF Spec, LifecycleSpec, Lifecycle!Spec
=============================================================================
