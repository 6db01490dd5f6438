-------------------------- MODULE TunnelRunProofs --------------------------
(***************************************************************************)
(* Proofs about TunnelRun, for any set of connections.                     *)
(***************************************************************************)
EXTENDS TunnelRun, TLAPS

Ended(c, d) == IF copier[c][d] = "ended" THEN 1 ELSE 0

(* What Start holds at each of its stages. *)
StagesHold ==
  /\ pc = "dial" => sshClient = "none" /\ listener = "none"
  /\ pc = "listen" => sshClient = "open" /\ listener = "none"
  /\ pc \in {"accept", "drain"} => sshClient = "open" /\ listener # "none"
  /\ pc = "failed" => sshClient # "open" /\ listener = "none"
  /\ pc = "closed" => sshClient = "closed" /\ listener = "closed"
  /\ listener = "closed" => cancelled
  /\ pc \in {"drain", "closed"} => cancelled

(* Handlers work only between the listener's opening and Start's return. *)
HandlersWithin ==
  /\ pc \in {"dial", "listen", "failed"} => \A c \in Conn : handler[c] = "none"
  /\ pc = "closed" => \A c \in Conn : handler[c] \in {"none", "finished"}

(* What a handler holds at each of its stages. *)
HandlersHold ==
  \A c \in Conn :
    /\ handler[c] = "none" => local[c] = "none"
    /\ handler[c] \in {"none", "dialing"} =>
         /\ remote[c] = "none"
         /\ done[c] = 0
         /\ \A d \in Direction : copier[c][d] = "none"
    /\ handler[c] = "finished" => local[c] = "closed" /\ remote[c] # "open"

(* A value in the done channel was sent by a copier that ended. *)
DoneCounted == \A c \in Conn : done[c] <= Ended(c, "out") + Ended(c, "in")

RInv == TypeOK /\ StagesHold /\ HandlersWithin /\ HandlersHold /\ DoneCounted

LEMMA RInvInit == Init => RInv
<1> SUFFICES ASSUME Init PROVE RInv
  OBVIOUS
<1>1. TypeOK
  <2>1. copier \in [Conn -> [Direction -> {"none", "copying", "ended"}]]
    BY DEF Init
  <2>2. done \in [Conn -> 0 .. 2]
    BY DEF Init
  <2>3. /\ handler \in [Conn -> {"none", "dialing", "copying", "draining", "finished"}]
        /\ local \in [Conn -> Handle]
        /\ remote \in [Conn -> Handle]
    BY DEF Init, Handle
  <2> QED BY <2>1, <2>2, <2>3, Zenon DEF Init, TypeOK, Handle
<1>2. StagesHold /\ HandlersWithin
  BY DEF Init, StagesHold, HandlersWithin
<1>3. HandlersHold
  BY DEF Init, HandlersHold
<1>4. DoneCounted
  BY DEF Init, DoneCounted, Ended, Direction
<1> QED BY <1>1, <1>2, <1>3, <1>4 DEF RInv

LEMMA RNextCases ==
  ASSUME Next
  PROVE  \/ Cancel \/ ServerLeaves \/ Watch
         \/ Dial \/ DialFails \/ Listen \/ ListenFails \/ AcceptFails \/ Drain
         \/ \E c \in Conn : \/ Accept(c) \/ RemoteDials(c) \/ RemoteDialFails(c)
                            \/ OneSideDone(c) \/ ForceClose(c)
         \/ \E c \in Conn, d \in Direction : CopierEnds(c, d)
         \/ UNCHANGED vars
BY DEF Next, StartStep, ConnectionStep, Finished

LEMMA RInvStep ==
  ASSUME RInv, [Next]_vars
  PROVE  RInv'
<1> USE DEF RInv
<1>1. CASE \/ Cancel \/ ServerLeaves \/ Watch
           \/ Dial \/ DialFails \/ Listen \/ ListenFails \/ AcceptFails
  <2>1. UNCHANGED connVars
    BY <1>1 DEF Cancel, ServerLeaves, Watch, Dial, DialFails, Listen,
                ListenFails, AcceptFails
  <2>2. HandlersHold' /\ DoneCounted'
    BY <2>1 DEF connVars, HandlersHold, DoneCounted, Ended
  <2>3. TypeOK' /\ StagesHold' /\ HandlersWithin'
    BY <1>1, <2>1, Zenon
       DEF connVars, Cancel, ServerLeaves, Watch, Dial, DialFails, Listen,
           ListenFails, AcceptFails, TypeOK, StagesHold, HandlersWithin, Handle
  <2> QED BY <2>2, <2>3
<1>2. CASE Drain
  BY <1>2 DEF Drain, Handling, connVars, TypeOK, StagesHold, HandlersWithin,
              HandlersHold, DoneCounted, Ended, Handle
<1>3. ASSUME NEW c \in Conn, Accept(c)
      PROVE  RInv'
  BY <1>3 DEF Accept, TypeOK, StagesHold, HandlersWithin, HandlersHold,
              DoneCounted, Ended, Handle
<1>4. ASSUME NEW c \in Conn, RemoteDials(c)
      PROVE  RInv'
  <2>1. /\ copier'[c] = [d \in Direction |-> "copying"]
        /\ \A x \in Conn \ {c} : copier'[x] = copier[x]
        /\ done[c] = 0 /\ done' = done
    BY <1>4 DEF RemoteDials, TypeOK, HandlersHold
  <2>2. TypeOK'
    BY <1>4 DEF RemoteDials, TypeOK, Handle
  <2>3. StagesHold' /\ HandlersWithin'
    BY <1>4 DEF RemoteDials, TypeOK, StagesHold, HandlersWithin
  <2>4. HandlersHold'
    BY <1>4, <2>1 DEF RemoteDials, TypeOK, HandlersHold
  <2>5. DoneCounted'
    BY <2>1 DEF DoneCounted, Ended, Direction
  <2> QED BY <2>2, <2>3, <2>4, <2>5
<1>5. ASSUME NEW c \in Conn, RemoteDialFails(c)
      PROVE  RInv'
  BY <1>5 DEF RemoteDialFails, TypeOK, StagesHold, HandlersWithin,
              HandlersHold, DoneCounted, Ended, Handle
<1>6. ASSUME NEW c \in Conn, OneSideDone(c)
      PROVE  RInv'
  BY <1>6 DEF OneSideDone, TypeOK, StagesHold, HandlersWithin, HandlersHold,
              DoneCounted, Ended, Handle
<1>7. ASSUME NEW c \in Conn, ForceClose(c)
      PROVE  RInv'
  BY <1>7 DEF ForceClose, TypeOK, StagesHold, HandlersWithin, HandlersHold,
              DoneCounted, Ended, Handle
<1>8. ASSUME NEW c \in Conn, NEW d \in Direction, CopierEnds(c, d)
      PROVE  RInv'
  <2>1. /\ copier'[c][d] = "ended" /\ copier[c][d] = "copying"
        /\ \A e \in Direction \ {d} : copier'[c][e] = copier[c][e]
        /\ \A x \in Conn \ {c} : copier'[x] = copier[x] /\ done'[x] = done[x]
        /\ done'[c] = done[c] + 1
        /\ UNCHANGED <<pc, cancelled, sshClient, server, listener, handler,
                       local, remote>>
    BY <1>8 DEF CopierEnds, TypeOK
  <2>2. copier' \in [Conn -> [Direction -> {"none", "copying", "ended"}]]
    BY <1>8 DEF CopierEnds, TypeOK
  <2>3. DoneCounted'
    BY <2>1 DEF DoneCounted, Ended, Direction, TypeOK
  <2>4. done' \in [Conn -> 0 .. 2]
    <3>1. done' \in [Conn -> Nat]
      <4>1. \A x \in Conn : done[x] \in Nat
        BY DEF TypeOK
      <4>2. done' = [x \in Conn |-> done'[x]]
        BY <1>8, Zenon DEF CopierEnds, TypeOK
      <4>3. \A x \in Conn : done'[x] \in Nat
        BY <2>1, <4>1
      <4> QED BY <4>2, <4>3
    <3>2. ASSUME NEW x \in Conn
          PROVE  done'[x] <= 2
      <4>1. done'[x] <= Ended(x, "out")' + Ended(x, "in")'
        BY <2>3 DEF DoneCounted
      <4>2. Ended(x, "out")' \in {0, 1} /\ Ended(x, "in")' \in {0, 1}
        BY DEF Ended
      <4> QED BY <3>1, <4>1, <4>2
    <3> QED BY <3>1, <3>2
  <2>5. HandlersHold'
    BY <2>1 DEF HandlersHold
  <2>6. StagesHold' /\ HandlersWithin'
    BY <2>1 DEF StagesHold, HandlersWithin
  <2> QED BY <2>1, <2>2, <2>3, <2>4, <2>5, <2>6 DEF TypeOK
<1>9. CASE UNCHANGED vars
  BY <1>9 DEF vars, TypeOK, StagesHold, HandlersWithin, HandlersHold,
              DoneCounted, Ended
<1> QED
  BY RNextCases, <1>1, <1>2, <1>3, <1>4, <1>5, <1>6, <1>7, <1>8, <1>9

LEMMA RInvAlways == Spec => []RInv
<1>1. RInv /\ [Next]_vars => RInv'
  BY RInvStep
<1> QED BY RInvInit, <1>1, PTL DEF Spec

(* Whatever the handlers do, the state is well typed; in particular the    *)
(* done channel never holds more than the two values it has room for.      *)
THEOREM RunTypeCorrect == Spec => []TypeOK
BY RInvAlways, PTL DEF RInv

(* On every path on which Start returns, the SSH client, the listener and  *)
(* every connection are closed, for any number of connections.             *)
THEOREM RunReleases == Spec => []ReturnReleases
<1>1. RInv => ReturnReleases
  <2> SUFFICES ASSUME RInv, Returned PROVE ReturnReleases
    BY DEF ReturnReleases
  <2>1. sshClient # "open" /\ listener # "open"
    BY DEF RInv, StagesHold, Returned
  <2>2. \A c \in Conn : handler[c] \in {"none", "finished"}
    BY DEF RInv, HandlersWithin, Returned
  <2>3. \A c \in Conn : local[c] # "open" /\ remote[c] # "open"
    BY <2>2 DEF RInv, HandlersHold
  <2> QED BY <2>1, <2>3 DEF ReturnReleases
<1> QED BY RInvAlways, <1>1, PTL

(* The SSH client is open as long as a handler is at work. *)
THEOREM RunClientOutlivesHandlers == Spec => []ClientOutlivesHandlers
<1>1. RInv => ClientOutlivesHandlers
  BY DEF RInv, ClientOutlivesHandlers, Handling, TypeOK, StagesHold, HandlersWithin
<1> QED BY RInvAlways, <1>1, PTL

(* A closed listener means a cancelled context: the accept loop ends. *)
THEOREM RunNoAcceptSpin == Spec => []NoAcceptSpin
<1>1. RInv => NoAcceptSpin
  BY DEF RInv, NoAcceptSpin, StagesHold
<1> QED BY RInvAlways, <1>1, PTL

(* Start keeps the promise on which the Manager's runner is modelled.      *)
THEOREM RunKeepsPromise == Spec => PromiseSpec
<1>1. Init => Promise!Init
  BY DEF Init, Promise!Init
<1>2. RInv /\ [Next]_vars => [Promise!Next]_Promise!promiseVars
  <2> SUFFICES ASSUME RInv, [Next]_vars
               PROVE  [Promise!Next]_Promise!promiseVars
    OBVIOUS
  <2> USE DEF Promise!Next, Promise!promiseVars
  <2>1. CASE Cancel
    BY <2>1 DEF Cancel, Promise!Ask
  <2>2. CASE Dial
    BY <2>2 DEF Dial
  <2>3. CASE DialFails \/ ListenFails
    BY <2>3 DEF DialFails, ListenFails, Promise!OpenFails
  <2>4. CASE Listen
    BY <2>4 DEF Listen, Promise!Open
  <2>5. CASE AcceptFails
    BY <2>5 DEF AcceptFails
  <2>6. CASE Drain
    BY <2>6 DEF Drain, Promise!Close, RInv, StagesHold
  <2>7. CASE UNCHANGED <<pc, cancelled>>
    BY <2>7
  <2>8. CASE \/ ServerLeaves \/ Watch \/ UNCHANGED vars
             \/ \E c \in Conn : \/ Accept(c) \/ RemoteDials(c) \/ RemoteDialFails(c)
                                \/ OneSideDone(c) \/ ForceClose(c)
             \/ \E c \in Conn, d \in Direction : CopierEnds(c, d)
    <3>1. UNCHANGED <<pc, cancelled>>
      BY <2>8 DEF ServerLeaves, Watch, vars, Accept, RemoteDials,
                  RemoteDialFails, OneSideDone, ForceClose, CopierEnds
    <3> QED BY <3>1, <2>7
  <2> QED BY RNextCases, <2>1, <2>2, <2>3, <2>4, <2>5, <2>6, <2>8
<1> QED BY <1>1, <1>2, RInvAlways, PTL DEF Spec, PromiseSpec, Promise!Spec
=============================================================================
