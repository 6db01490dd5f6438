---------------------------- MODULE ServiceProofs ----------------------------
(***************************************************************************)
(* Proofs about Service, for any number of processes that are launched,    *)
(* shut down and killed: while no two starts overlap, the socket path      *)
(* belongs to the process that listens.                                    *)
(***************************************************************************)
EXTENDS Service, TLAPS

(* The types of the state that is concerned. *)
PathTyped ==
  /\ proc \in [Proc -> {"none", "launched", "loaded", "removing", "binding",
                        "bound", "serving"}]
  /\ path \in Proc \cup {Nil, Stale}
  /\ listener \in [Proc -> {"none", "open", "unlinked", "closed"}]
  /\ overlap \in BOOLEAN

(* A start is alone, and from its second look at the socket path until it  *)
(* listens itself nobody listens; the path it comes to bind is free.       *)
StartAlone ==
  ~overlap => \A p, q \in Starting : p = q

NobodyListens ==
  ~overlap => \A p, q \in Proc :
    proc[p] \in {"removing", "binding"} => listener[q] # "open"

SInv ==
  PathTyped /\ StartAlone /\ NobodyListens /\ ListenFindsPathFree /\ ListenerReachable

-----------------------------------------------------------------------------
LEMMA ServiceInit == Init => SInv
BY ProcAssumption, Zenon
   DEF Init, SInv, PathTyped, StartAlone, NobodyListens, ListenFindsPathFree,
       ListenerReachable, Starting

(* The steps that leave the start, the path and the listeners alone. *)
Aside == UNCHANGED <<proc, path, listener, overlap>>

LEMMA AsideStep == SInv /\ Aside => SInv'
BY DEF SInv, PathTyped, StartAlone, NobodyListens, ListenFindsPathFree,
       ListenerReachable, Starting, Aside

LEMMA ServiceStep == SInv /\ [Next]_vars => SInv'
<1> SUFFICES ASSUME SInv, [Next]_vars PROVE SInv'
  OBVIOUS
<1> USE DEF PathTyped
<1> DEFINE Safe == /\ PathTyped /\ StartAlone /\ NobodyListens
                   /\ ListenFindsPathFree /\ ListenerReachable
<1>0. Safe
  BY DEF SInv
<1>1. ASSUME NEW p \in Proc, Launch(p) PROVE Safe'
  <2>1. /\ proc[p] = "none" /\ proc' = [proc EXCEPT ![p] = "launched"]
        /\ UNCHANGED <<path, listener>>
    BY <1>1 DEF Launch, Moves
  <2>2. overlap' \in BOOLEAN
    BY <1>1, Zenon DEF Launch
  <2>3. ~overlap' => ~overlap /\ Starting = {}
    BY <1>1, Zenon DEF Launch
  <2>4. PathTyped'
    BY <1>0, <2>1, <2>2
  <2>5. Starting = {} => \A q \in Starting' : q = p
    BY <1>0, <2>1 DEF Starting
  <2> QED
    BY <1>0, <2>1, <2>3, <2>4, <2>5
       DEF StartAlone, NobodyListens, ListenFindsPathFree, ListenerReachable
<1>2. ASSUME NEW p \in Proc, CheckForeground(p) PROVE Safe'
  BY <1>2, <1>0
     DEF CheckForeground, Moves, daemonVars, StartAlone, NobodyListens,
         ListenFindsPathFree, ListenerReachable, Starting
<1>3. ASSUME NEW p \in Proc, CheckStart(p) PROVE Safe'
  BY <1>3, <1>0
     DEF CheckStart, NotRunning, Moves, daemonVars, StartAlone, NobodyListens,
         ListenFindsPathFree, ListenerReachable, Starting
<1>4. ASSUME NEW p \in Proc, Remove(p) PROVE Safe'
  BY <1>4, <1>0, ProcAssumption
     DEF Remove, Moves, daemonVars, StartAlone, NobodyListens, ListenFindsPathFree,
         ListenerReachable, Starting
<1>5. ASSUME NEW p \in Proc, Listen(p) PROVE Safe'
  BY <1>5, <1>0, ProcAssumption
     DEF Listen, Moves, daemonVars, StartAlone, NobodyListens, ListenFindsPathFree,
         ListenerReachable, Starting
<1>6. ASSUME NEW p \in Proc, Serve(p) PROVE Safe'
  BY <1>6, <1>0
     DEF Serve, Moves, StartAlone, NobodyListens, ListenFindsPathFree,
         ListenerReachable, Starting
<1>7. ASSUME NEW p \in Proc, NEW w \in Closer, UnlinkPath(p, w) \/ CloseListener(p, w) PROVE Safe'
  BY <1>7, <1>0
     DEF UnlinkPath, CloseListener, StartAlone, NobodyListens, ListenFindsPathFree,
         ListenerReachable, Starting
<1>8. ASSUME NEW p \in Proc, Exit(p) \/ Crash(p) PROVE Safe'
  BY <1>8, <1>0, ProcAssumption
     DEF Exit, Crash, Ends, StartAlone, NobodyListens, ListenFindsPathFree,
         ListenerReachable, Starting
<1>9. ASSUME NEW p \in Proc,
             \/ Connect(p) \/ Disconnect(p) \/ TunnelStart(p) \/ TunnelEnds(p)
             \/ RequestShutdown(p) \/ AnswerShutdown(p) \/ Signal(p) \/ AcceptFails(p)
             \/ \E w \in Closer : Cancel(p, w) \/ StopAll(p, w)
      PROVE Aside
  BY <1>9 DEF Aside, Connect, Disconnect, TunnelStart, TunnelEnds, RequestShutdown,
              AnswerShutdown, Signal, AcceptFails, Cancel, StopAll
<1>10. ASSUME UNCHANGED vars PROVE Aside
  BY <1>10 DEF Aside, vars
<1>11. Safe' \/ Aside
  BY <1>1, <1>2, <1>3, <1>4, <1>5, <1>6, <1>7, <1>8, <1>9, <1>10
     DEF Next, StartStep, ShutdownStep
<1>12. CASE Safe'
  BY <1>12 DEF SInv
<1>13. CASE Aside
  BY <1>13, AsideStep
<1> QED
  BY <1>11, <1>12, <1>13

-----------------------------------------------------------------------------
LEMMA ServiceAlways == Spec => []SInv
BY ServiceInit, ServiceStep, PTL DEF Spec

(* A service that listens is the one the socket path leads to, whatever    *)
(* processes crashed or were shut down before, as long as no two starts    *)
(* overlapped (Start and Shutdown of daemon.go).                           *)
THEOREM ListenerIsReachable == Spec => []ListenerReachable
<1>1. SInv => ListenerReachable
  BY DEF SInv
<1> QED
  BY <1>1, ServiceAlways, PTL

(* net.Listen of daemon.go finds no file at the socket path, whatever a    *)
(* process that was killed has left there, as long as no two starts        *)
(* overlapped.                                                             *)
THEOREM ListenSucceeds == Spec => []ListenFindsPathFree
<1>1. SInv => ListenFindsPathFree
  BY DEF SInv
<1> QED
  BY <1>1, ServiceAlways, PTL
-----------------------------------------------------------------------------
(* Whoever shuts a process down has cancelled its context before it comes  *)
(* to the listener.                                                        *)
CancelledFirst ==
  /\ listener \in [Proc -> {"none", "open", "unlinked", "closed"}]
  /\ ctxDone \in [Proc -> BOOLEAN]
  /\ closing \in [Proc -> [Closer -> {"none", "cancel", "stopAll", "close", "closeFd", "done"}]]
  /\ \A p \in Proc, w \in Closer : closing[p][w] \notin {"none", "cancel"} => ctxDone[p]
  /\ \A p \in Proc : listener[p] = "closed" => ctxDone[p]

LEMMA CancelledInit == Init => CancelledFirst
BY DEF Init, CancelledFirst

LEMMA CancelledKept ==
  CancelledFirst /\ UNCHANGED <<listener, ctxDone, closing>> => CancelledFirst'
BY DEF CancelledFirst

(* One closer moves on; the other does not. *)
LEMMA CloserMoved ==
  ASSUME CancelledFirst, NEW p \in Proc, NEW w \in Closer, NEW from,
         NEW to \in {"cancel", "stopAll", "close", "closeFd", "done"}, ClosingMoves(p, w, from, to)
  PROVE  /\ closing[p][w] = from
         /\ closing' \in [Proc -> [Closer -> {"none", "cancel", "stopAll", "close", "closeFd", "done"}]]
         /\ \A q \in Proc, v \in Closer : q # p \/ v # w => closing'[q][v] = closing[q][v]
BY DEF CancelledFirst, ClosingMoves

LEMMA CancelledStep == CancelledFirst /\ [Next]_vars => CancelledFirst'
<1> SUFFICES ASSUME CancelledFirst, [Next]_vars PROVE CancelledFirst'
  OBVIOUS
<1>1. ASSUME NEW p \in Proc, Listen(p) PROVE CancelledFirst'
  BY <1>1 DEF Listen, daemonVars, CancelledFirst
<1>2. ASSUME NEW p \in Proc, RequestShutdown(p) \/ Signal(p) PROVE CancelledFirst'
  BY <1>2 DEF RequestShutdown, Signal, Closer, CancelledFirst
<1>3. ASSUME NEW p \in Proc, NEW w \in Closer, Cancel(p, w) PROVE CancelledFirst'
  <2>1. ClosingMoves(p, w, "cancel", "stopAll") /\ ctxDone' = [ctxDone EXCEPT ![p] = TRUE] /\ listener' = listener
    BY <1>3 DEF Cancel
  <2>2. /\ closing' \in [Proc -> [Closer -> {"none", "cancel", "stopAll", "close", "closeFd", "done"}]]
        /\ \A q \in Proc, v \in Closer : q # p \/ v # w => closing'[q][v] = closing[q][v]
    BY <2>1, CloserMoved
  <2>3. ctxDone' \in [Proc -> BOOLEAN] /\ ctxDone'[p] /\ \A q \in Proc : q # p => ctxDone'[q] = ctxDone[q]
    BY <2>1 DEF CancelledFirst
  <2>4. ASSUME NEW q \in Proc, NEW v \in Closer, closing'[q][v] \notin {"none", "cancel"} PROVE ctxDone'[q]
    <3>1. CASE q = p
      BY <2>3, <3>1, Zenon
    <3>2. CASE q # p
      BY <2>2, <2>3, <2>4, <3>2, ZenonT(60) DEF CancelledFirst
    <3> QED
      BY <3>1, <3>2
  <2>5. ASSUME NEW q \in Proc, listener'[q] = "closed" PROVE ctxDone'[q]
    <3>1. CASE q = p
      BY <2>3, <3>1, Zenon
    <3>2. CASE q # p
      BY <2>1, <2>3, <2>5, <3>2, Zenon DEF CancelledFirst
    <3> QED
      BY <3>1, <3>2
  <2>6. listener' \in [Proc -> {"none", "open", "unlinked", "closed"}]
    BY <2>1 DEF CancelledFirst
  <2> QED
    BY <2>2, <2>3, <2>4, <2>5, <2>6, Zenon DEF CancelledFirst
<1>4. ASSUME NEW p \in Proc, NEW w \in Closer, StopAll(p, w) \/ UnlinkPath(p, w) \/ CloseListener(p, w)
      PROVE  CancelledFirst'
  <2>1. PICK from \in {"stopAll", "close", "closeFd"}, to \in {"close", "closeFd", "done"} :
          ClosingMoves(p, w, from, to)
    BY <1>4 DEF StopAll, UnlinkPath, CloseListener
  <2>2. /\ closing[p][w] = from
        /\ closing' \in [Proc -> [Closer -> {"none", "cancel", "stopAll", "close", "closeFd", "done"}]]
        /\ \A q \in Proc, v \in Closer : q # p \/ v # w => closing'[q][v] = closing[q][v]
    BY <2>1, CloserMoved
  <2>3. ctxDone[p] /\ ctxDone' = ctxDone
    BY <1>4, <2>2, Zenon DEF CancelledFirst, StopAll, UnlinkPath, CloseListener
  <2>4. /\ listener' \in [Proc -> {"none", "open", "unlinked", "closed"}]
        /\ \A q \in Proc : q # p => listener'[q] = listener[q]
    BY <1>4, Zenon DEF CancelledFirst, StopAll, UnlinkPath, CloseListener
  <2>5. ASSUME NEW q \in Proc, NEW v \in Closer, closing'[q][v] \notin {"none", "cancel"} PROVE ctxDone[q]
    <3>1. CASE q = p
      BY <2>3, <3>1, Zenon
    <3>2. CASE q # p
      BY <2>2, <2>5, <3>2, ZenonT(60) DEF CancelledFirst
    <3> QED
      BY <3>1, <3>2
  <2>6. ASSUME NEW q \in Proc, listener'[q] = "closed" PROVE ctxDone[q]
    <3>1. CASE q = p
      BY <2>3, <3>1, Zenon
    <3>2. CASE q # p
      BY <2>4, <2>6, <3>2, Zenon DEF CancelledFirst
    <3> QED
      BY <3>1, <3>2
  <2>7. ctxDone' \in [Proc -> BOOLEAN]
    BY <2>3, Zenon DEF CancelledFirst
  <2> QED
    BY <2>2, <2>3, <2>4, <2>5, <2>6, <2>7, Zenon DEF CancelledFirst
<1>5. ASSUME NEW p \in Proc, Exit(p) \/ Crash(p) PROVE CancelledFirst'
  <2>1. /\ listener' = [listener EXCEPT ![p] = "none"] /\ ctxDone' = [ctxDone EXCEPT ![p] = FALSE]
        /\ closing' = [closing EXCEPT ![p] = [w \in Closer |-> "none"]]
    BY <1>5 DEF Exit, Crash, Ends
  <2>2. /\ listener' \in [Proc -> {"none", "open", "unlinked", "closed"}] /\ listener'[p] = "none"
        /\ \A q \in Proc : q # p => listener'[q] = listener[q]
    BY <2>1 DEF CancelledFirst
  <2>3. ctxDone' \in [Proc -> BOOLEAN] /\ \A q \in Proc : q # p => ctxDone'[q] = ctxDone[q]
    BY <2>1 DEF CancelledFirst
  <2>4. /\ closing' \in [Proc -> [Closer -> {"none", "cancel", "stopAll", "close", "closeFd", "done"}]]
        /\ \A v \in Closer : closing'[p][v] = "none"
        /\ \A q \in Proc : q # p => closing'[q] = closing[q]
    BY <2>1 DEF CancelledFirst
  <2>5. ASSUME NEW q \in Proc, NEW v \in Closer, closing'[q][v] \notin {"none", "cancel"} PROVE ctxDone'[q]
    <3>1. q # p
      BY <2>4, <2>5
    <3> QED
      BY <2>3, <2>4, <2>5, <3>1, ZenonT(60) DEF CancelledFirst
  <2>6. ASSUME NEW q \in Proc, listener'[q] = "closed" PROVE ctxDone'[q]
    <3>1. q # p
      BY <2>2, <2>6
    <3> QED
      BY <2>2, <2>3, <2>6, <3>1, Zenon DEF CancelledFirst
  <2> QED
    BY <2>2, <2>3, <2>4, <2>5, <2>6, Zenon DEF CancelledFirst
<1>6. ASSUME NEW p \in Proc,
             \/ Launch(p) \/ CheckForeground(p) \/ CheckStart(p) \/ Remove(p) \/ Serve(p)
             \/ Connect(p) \/ Disconnect(p) \/ TunnelStart(p) \/ TunnelEnds(p)
             \/ AnswerShutdown(p) \/ AcceptFails(p)
      PROVE  UNCHANGED <<listener, ctxDone, closing>>
  BY <1>6 DEF Launch, CheckForeground, CheckStart, Remove, Serve, Connect, Disconnect, TunnelStart,
              TunnelEnds, AnswerShutdown, AcceptFails, daemonVars
<1>7. ASSUME UNCHANGED vars PROVE UNCHANGED <<listener, ctxDone, closing>>
  BY <1>7 DEF vars
<1>8. CancelledFirst' \/ UNCHANGED <<listener, ctxDone, closing>>
  BY <1>1, <1>2, <1>3, <1>4, <1>5, <1>6, <1>7 DEF Next, StartStep, ShutdownStep
<1> QED
  BY <1>8, CancelledKept

(* daemon.go:123-131, 220-224: with any number of processes, each shut     *)
(* down by a request, a signal or both at once, no accept loop ever meets  *)
(* a closed listener while its context is not cancelled.                   *)
THEOREM NoHotAccept == Spec => []AcceptNeverSpins
<1>1. CancelledFirst => AcceptNeverSpins
  BY DEF CancelledFirst, AcceptNeverSpins
<1> QED
  BY <1>1, CancelledInit, CancelledStep, PTL DEF Spec
=============================================================================
