------------------------------ MODULE TuiProofs ------------------------------
(***************************************************************************)
(* Proofs about Tui, for any tunnels, any number of key presses and of     *)
(* changes in the service, and any capacity of the notifications channel.  *)
(***************************************************************************)
EXTENDS Tui, SequenceTheorems, TLAPS

(* What the TUI has been told and has not shown, the oldest first. *)
Pending == heard \o feed

(* The latest change of n in q, if there is one, is to the status s. *)
LatestIs(q, n, s) ==
  \A k \in DOMAIN q :
    q[k].name = n /\ (\A l \in DOMAIN q : k < l => q[l].name # n) => q[k].status = s

NoneOf(q, n) == \A k \in DOMAIN q : q[k].name # n

ToBeReported(n) == \E u \in Update : u.name = n /\ reports[u] > 0

(* The status s of n is the one it has, or the one reported last, or       *)
(* another one is still to be reported.                                    *)
Shows(s, n) == s \in {state[n], notified[n]} \/ ToBeReported(n)

(* The status of n that was reported last is the latest that is pending.   *)
(* Where nothing is pending, it is what is shown, or will be when the list *)
(* arrives, unless the list was made when n had its status of now.         *)
Current(n) ==
  /\ LatestIs(Pending, n, notified[n])
  /\ NoneOf(Pending, n) =>
       /\ load = "loaded" => Shows(snapshot[n], n)
       /\ load = "handled" /\ link = "up" => Shows(list[n], n)

(* The tunnels of the configuration are in every list: what is told of     *)
(* them is not dropped.                                                    *)
Listed(n) ==
  /\ state[n] # "absent"
  /\ load = "loaded" => snapshot[n] # "absent"
  /\ load = "handled" /\ link = "up" => list[n] # "absent"

Typed ==
  /\ state \in [Names -> Status] /\ stopping \subseteq Names
  /\ reports \in [Update -> Nat] /\ notified \in [Names -> Status]
  /\ changes \in 0 .. MaxChanges
  /\ link \in {"up", "lost"}
  /\ feed \in Seq(Update) /\ Len(feed) <= Capacity
  /\ load \in {"calling", "loaded", "failed", "handled"}
  /\ snapshot \in [Names -> Status]
  /\ listen \in {"waiting", "heard", "ended"}
  /\ heard \in Seq(Update) /\ Len(heard) = IF listen = "heard" THEN 1 ELSE 0
  /\ list \in [Names -> Status]
  /\ toast \in BOOLEAN /\ timers \in Nat
  /\ lost \subseteq Names

(* A command that was issued names a tunnel of the list. *)
TogglesTyped ==
  /\ toggle \in [Press -> [pc : {"unused", "called", "failed", "done"},
                           name : Names \cup {""}, shown : Status]]
  /\ \A k \in Press : toggle[k].pc = "called" => toggle[k].name \in Names

ViewInv ==
  /\ load = "failed" => link = "lost"
  /\ \A n \in ConfigNames : Listed(n)
  /\ \A n \in ConfigNames \ lost : Current(n)

UInv == Typed /\ TogglesTyped /\ ToastHasTimer /\ ViewInv

-----------------------------------------------------------------------------
(* Queues of changes *)

LEMMA EmptyFacts ==
  /\ <<>> \in Seq(Update) /\ Len(<<>>) = 0 /\ DOMAIN <<>> = {}
  /\ <<>> \o <<>> = <<>>
OBVIOUS

LEMMA EmptyNone ==
  ASSUME NEW n, NEW s
  PROVE  LatestIs(<<>>, n, s) /\ NoneOf(<<>>, n)
BY EmptyFacts, Zenon DEF LatestIs, NoneOf

LEMMA AppendedFacts ==
  ASSUME NEW q \in Seq(Update), NEW u \in Update
  PROVE  /\ Append(q, u) \in Seq(Update)
         /\ Len(q) \in Nat /\ DOMAIN q = 1 .. Len(q)
         /\ DOMAIN Append(q, u) = 1 .. Len(q) + 1
         /\ Append(q, u)[Len(q) + 1] = u
         /\ \A k \in 1 .. Len(q) : Append(q, u)[k] = q[k]
OBVIOUS

LEMMA LatestAppended ==
  ASSUME NEW q \in Seq(Update), NEW u \in Update
  PROVE  /\ LatestIs(Append(q, u), u.name, u.status)
         /\ ~NoneOf(Append(q, u), u.name)
<1> DEFINE r == Append(q, u)
           m == Len(q) + 1
<1>1. DOMAIN r = 1 .. m /\ m \in Nat \ {0} /\ r[m] = u
  BY AppendedFacts
<1> HIDE DEF r, m
<1>2. ASSUME NEW k \in DOMAIN r, \A l \in DOMAIN r : k < l => r[l].name # u.name
      PROVE  r[k].status = u.status
  <2>1. k = m
    BY <1>1, <1>2
  <2> QED
    BY <1>1, <2>1
<1>3. LatestIs(r, u.name, u.status)
  BY <1>2 DEF LatestIs
<1>4. ~NoneOf(r, u.name)
  BY <1>1 DEF NoneOf
<1> QED
  BY <1>3, <1>4 DEF r

LEMMA OtherAppended ==
  ASSUME NEW q \in Seq(Update), NEW u \in Update, NEW n, u.name # n, NEW s
  PROVE  /\ LatestIs(q, n, s) => LatestIs(Append(q, u), n, s)
         /\ NoneOf(Append(q, u), n) => NoneOf(q, n)
<1> DEFINE r == Append(q, u)
           m == Len(q)
<1>1. /\ m \in Nat /\ DOMAIN q = 1 .. m /\ DOMAIN r = 1 .. m + 1
      /\ r[m + 1] = u /\ \A k \in 1 .. m : r[k] = q[k]
  BY AppendedFacts
<1> HIDE DEF r, m
<1>2. ASSUME LatestIs(q, n, s), NEW k \in DOMAIN r, r[k].name = n,
             \A l \in DOMAIN r : k < l => r[l].name # n
      PROVE  r[k].status = s
  <2>1. k \in DOMAIN q /\ q[k] = r[k]
    BY <1>1, <1>2
  <2>2. \A l \in DOMAIN q : k < l => q[l].name # n
    BY <1>1, <1>2
  <2> QED
    BY <1>2, <2>1, <2>2 DEF LatestIs
<1>3. NoneOf(r, n) => NoneOf(q, n)
  BY <1>1 DEF NoneOf
<1> QED
  BY <1>2, <1>3, Zenon DEF LatestIs, r

LEMMA TailFacts ==
  ASSUME NEW q \in Seq(Update), q # <<>>
  PROVE  /\ Head(q) \in Update /\ Tail(q) \in Seq(Update) /\ Head(q) = q[1]
         /\ Len(q) \in Nat \ {0} /\ DOMAIN q = 1 .. Len(q)
         /\ DOMAIN Tail(q) = 1 .. Len(q) - 1
         /\ \A k \in 1 .. Len(q) - 1 : Tail(q)[k] = q[k + 1]
OBVIOUS

LEMMA LatestTail ==
  ASSUME NEW q \in Seq(Update), q # <<>>, NEW n, NEW s, LatestIs(q, n, s)
  PROVE  /\ LatestIs(Tail(q), n, s)
         /\ NoneOf(Tail(q), n) /\ Head(q).name # n => NoneOf(q, n)
         /\ NoneOf(Tail(q), n) /\ Head(q).name = n => Head(q).status = s
<1> DEFINE t == Tail(q)
           h == Head(q)
           m == Len(q)
<1>1. /\ h = q[1] /\ m \in Nat \ {0} /\ DOMAIN q = 1 .. m /\ DOMAIN t = 1 .. m - 1
      /\ \A k \in 1 .. m - 1 : t[k] = q[k + 1]
  BY TailFacts
<1> HIDE DEF t, h, m
<1>2. ASSUME NEW k \in DOMAIN t, t[k].name = n, \A l \in DOMAIN t : k < l => t[l].name # n
      PROVE  t[k].status = s
  <2>1. k + 1 \in DOMAIN q /\ q[k + 1] = t[k]
    BY <1>1
  <2>2. ASSUME NEW l \in DOMAIN q, k + 1 < l PROVE q[l].name # n
    <3>1. l - 1 \in DOMAIN t /\ k < l - 1 /\ t[l - 1] = q[l]
      BY <1>1, <2>2
    <3> QED
      BY <1>2, <3>1
  <2> QED
    BY <1>2, <2>1, <2>2 DEF LatestIs
<1>3. ASSUME NoneOf(t, n), NEW l \in DOMAIN q, 1 < l PROVE q[l].name # n
  <2>1. l - 1 \in DOMAIN t /\ t[l - 1] = q[l]
    BY <1>1, <1>3
  <2> QED
    BY <1>3, <2>1 DEF NoneOf
<1>4. ASSUME NoneOf(t, n), h.name # n PROVE NoneOf(q, n)
  <2> SUFFICES ASSUME NEW k \in DOMAIN q PROVE q[k].name # n
    BY DEF NoneOf
  <2>1. k = 1 \/ 1 < k
    BY <1>1
  <2> QED
    BY <1>1, <1>3, <1>4, <2>1
<1>5. ASSUME NoneOf(t, n), h.name = n PROVE h.status = s
  <2>1. 1 \in DOMAIN q
    BY <1>1
  <2> QED
    BY <1>1, <1>3, <1>5, <2>1 DEF LatestIs
<1>6. LatestIs(t, n, s)
  BY <1>2 DEF LatestIs
<1> QED
  BY <1>4, <1>5, <1>6, Zenon DEF t, h

-----------------------------------------------------------------------------
(* What is pending *)

LEMMA PendingIsQueue ==
  ASSUME Typed
  PROVE  Pending \in Seq(Update)
BY DEF Typed, Pending

(* A message that is sent goes to the end of what is pending, *)
LEMMA PendingSent ==
  ASSUME Typed, NEW u \in Update, feed' = Append(feed, u), heard' = heard
  PROVE  Pending' = Append(Pending, u)
<1>1. heard \in Seq(Update) /\ feed \in Seq(Update)
  BY DEF Typed
<1>2. heard \o Append(feed, u) = Append(heard \o feed, u)
  BY <1>1
<1> QED
  BY <1>2, Zenon DEF Pending

(* one that is taken from the channel stays at its head, *)
LEMMA PendingTaken ==
  ASSUME Typed, heard = <<>>, feed # <<>>, heard' = <<Head(feed)>>, feed' = Tail(feed)
  PROVE  Pending' = Pending
<1>1. feed \in Seq(Update)
  BY DEF Typed
<1>2. <<Head(feed)>> \o Tail(feed) = feed /\ <<>> \o feed = feed
  BY <1>1
<1> QED
  BY <1>2, Zenon DEF Pending

LEMMA OneAndTheRest ==
  ASSUME NEW S, NEW p \in Seq(S), Len(p) = 1, NEW q \in Seq(S)
  PROVE  p[1] \in S /\ p \o q # <<>> /\ Head(p \o q) = p[1] /\ Tail(p \o q) = q
<1> DEFINE r == p \o q
<1>1. p[1] \in S /\ Len(q) \in Nat
  OBVIOUS
<1>2. r \in Seq(S) /\ Len(r) = 1 + Len(q) /\ \A k \in 1 .. Len(r) : r[k] = IF k <= 1 THEN p[k] ELSE q[k - 1]
  <2>1. /\ r \in Seq(S) /\ Len(r) = Len(p) + Len(q)
        /\ \A k \in 1 .. Len(p) + Len(q) : r[k] = IF k <= Len(p) THEN p[k] ELSE q[k - Len(p)]
    BY ConcatProperties, Zenon
  <2> HIDE DEF r
  <2> QED
    BY <1>1, <2>1
<1> HIDE DEF r
<1>3. r # <<>> /\ Head(r) = r[1] /\ r[1] = p[1]
  BY <1>1, <1>2
<1>4. Tail(r) \in Seq(S) /\ Len(Tail(r)) = Len(q) /\ \A k \in 1 .. Len(q) : Tail(r)[k] = r[k + 1]
  BY <1>1, <1>2, <1>3
<1>5. \A k \in 1 .. Len(q) : r[k + 1] = q[k]
  BY <1>1, <1>2
<1>6. Tail(r) = q
  BY <1>4, <1>5, SeqEqual
<1> QED
  BY <1>1, <1>3, <1>6 DEF r

(* and leaves it when it is handled. *)
LEMMA PendingHandled ==
  ASSUME Typed, listen = "heard", heard' = <<>>, feed' = feed
  PROVE  /\ Pending # <<>> /\ Head(Pending) = heard[1] /\ Pending' = Tail(Pending)
         /\ heard[1] \in Update
<1>1. heard \in Seq(Update) /\ feed \in Seq(Update) /\ Len(heard) = 1
  BY DEF Typed
<1>2. /\ heard[1] \in Update /\ heard \o feed # <<>>
      /\ Head(heard \o feed) = heard[1] /\ Tail(heard \o feed) = feed
  BY <1>1, OneAndTheRest
<1>3. <<>> \o feed = feed
  BY <1>1
<1> QED
  BY <1>2, <1>3, Zenon DEF Pending

-----------------------------------------------------------------------------
(* The service *)

(* A change that is reported gives a tunnel a status, and leaves it one. *)
LEMMA ChangeFacts ==
  ASSUME Typed, NEW n \in Names,
         Manager!Begin(n) \/ Manager!Promote(n) \/ Manager!Fail(n) \/ Manager!End(n)
  PROVE  /\ \E s \in Status \ {"absent"} : state' = [state EXCEPT ![n] = s]
         /\ stopping' \subseteq Names
<1>1. stopping \subseteq Names
  BY DEF Typed
<1>2. CASE Manager!Begin(n)
  BY <1>1, <1>2, Zenon DEF Manager!Begin, Status
<1>3. CASE Manager!Promote(n)
  BY <1>1, <1>3, Zenon DEF Manager!Promote, Status
<1>4. CASE Manager!Fail(n)
  BY <1>1, <1>4, Zenon DEF Manager!Fail, Status
<1>5. CASE Manager!End(n)
  BY <1>1, <1>5, Zenon DEF Manager!End, Status
<1> QED
  BY <1>2, <1>3, <1>4, <1>5

(* A tunnel of the configuration is neither registered nor removed. *)
LEMMA SilentFacts ==
  ASSUME Typed, ViewInv, NEW n \in Names,
         Manager!Add(n) \/ Manager!Remove(n) \/ Manager!AskToStop({n})
  PROVE  /\ state' \in [Names -> Status] /\ stopping' \subseteq Names
         /\ \A c \in ConfigNames : state'[c] = state[c]
<1>1. state \in [Names -> Status] /\ stopping \subseteq Names
  BY DEF Typed
<1>2. \A c \in ConfigNames : c \in Names /\ state[c] # "absent"
  BY NamesAssumption DEF ViewInv, Listed
<1>3. CASE Manager!Add(n)
  BY <1>1, <1>2, <1>3 DEF Manager!Add, Status
<1>4. CASE Manager!Remove(n)
  BY <1>1, <1>2, <1>4 DEF Manager!Remove, Status
<1>5. CASE Manager!AskToStop({n})
  BY <1>1, <1>5 DEF Manager!AskToStop
<1> QED
  BY <1>3, <1>4, <1>5

LEMMA FunctionChanged ==
  ASSUME NEW D, NEW S, NEW f \in [D -> S], NEW d \in D, NEW v \in S
  PROVE  /\ [f EXCEPT ![d] = v] \in [D -> S]
         /\ [f EXCEPT ![d] = v][d] = v
         /\ \A e \in D : e # d => [f EXCEPT ![d] = v][e] = f[e]
  OBVIOUS

(* A change is to be reported, and so is whatever was before. *)
LEMMA ChangedFacts ==
  ASSUME Typed, NEW n \in Names, NEW s \in Status \ {"absent"},
         state' = [state EXCEPT ![n] = s], Changed(n)
  PROVE  /\ state' \in [Names -> Status] /\ state'[n] = s
         /\ \A c \in Names \ {n} : state'[c] = state[c]
         /\ reports' \in [Update -> Nat]
         /\ ToBeReported(n)'
         /\ \A c \in Names : ToBeReported(c) => ToBeReported(c)'
<1> DEFINE u == [name |-> n, status |-> s]
           v == reports[u] + 1
<1>1. state \in [Names -> Status] /\ reports \in [Update -> Nat]
  BY DEF Typed
<1>2. /\ state' \in [Names -> Status] /\ state'[n] = s
      /\ \A c \in Names \ {n} : state'[c] = state[c]
  BY <1>1
<1>3. u \in Update /\ u.name = n
  BY DEF Update
<1>4. reports' = [reports EXCEPT ![u] = v]
  BY <1>2, Zenon DEF Changed
<1> HIDE DEF u
<1>5. v \in Nat /\ v > 0
  BY <1>1, <1>3
<1> HIDE DEF v
<1>6. /\ reports' \in [Update -> Nat] /\ reports'[u] = v
      /\ \A w \in Update : w # u => reports'[w] = reports[w]
  BY <1>1, <1>3, <1>4, <1>5, FunctionChanged
<1>7. ToBeReported(n)'
  BY <1>3, <1>5, <1>6, Zenon DEF ToBeReported
<1>8. ASSUME NEW w \in Update, reports[w] > 0 PROVE reports'[w] > 0
  BY <1>5, <1>6, <1>8
<1>9. \A c \in Names : ToBeReported(c) => ToBeReported(c)'
  BY <1>8, Zenon DEF ToBeReported
<1> QED
  BY <1>2, <1>6, <1>7, <1>9, Zenon

LEMMA ChangedKeepsView ==
  ASSUME Typed, ViewInv, NEW n \in Names, NEW s \in Status \ {"absent"},
         state' = [state EXCEPT ![n] = s], Changed(n),
         UNCHANGED <<notified, link, feed, load, snapshot, listen, heard, list, lost>>
  PROVE  ViewInv'
<1>1. /\ state'[n] = s /\ \A c \in Names \ {n} : state'[c] = state[c]
      /\ ToBeReported(n)' /\ \A c \in Names : ToBeReported(c) => ToBeReported(c)'
  BY ChangedFacts, Zenon
<1>2. ConfigNames \subseteq Names
  BY NamesAssumption
<1>3. Pending' = Pending
  BY DEF Pending
<1>4. ASSUME NEW c \in ConfigNames PROVE Listed(c)'
  <2>1. state'[c] # "absent"
    BY <1>1, <1>2 DEF ViewInv, Listed
  <2> QED
    BY <2>1 DEF ViewInv, Listed
<1>5. ASSUME NEW c \in Names, NEW t, Shows(t, c) PROVE Shows(t, c)'
  <2>1. CASE c = n
    BY <1>1, <2>1, Zenon DEF Shows
  <2>2. CASE c # n
    BY <1>1, <1>5, <2>2 DEF Shows
  <2> QED
    BY <2>1, <2>2
<1>6. ASSUME NEW c \in ConfigNames \ lost' PROVE Current(c)'
  <2>1. Current(c) /\ c \in Names
    BY <1>2, <1>6 DEF ViewInv
  <2>2. LatestIs(Pending, c, notified[c])'
    BY <1>3, <2>1, Zenon DEF Current
  <2>3. Shows(snapshot[c], c) => Shows(snapshot[c], c)'
    BY <1>5, <2>1, Zenon
  <2>4. Shows(list[c], c) => Shows(list[c], c)'
    BY <1>5, <2>1, Zenon
  <2> QED
    BY <1>3, <2>1, <2>2, <2>3, <2>4, Zenon DEF Current
<1> QED
  BY <1>4, <1>6 DEF ViewInv

(* Nothing of what the invariant speaks of changes. *)
LEMMA ViewKept ==
  ASSUME ViewInv, \A c \in ConfigNames : state'[c] = state[c],
         UNCHANGED <<reports, notified, link, feed, load, snapshot, listen, heard, list, lost>>
  PROVE  ViewInv'
<1>1. Pending' = Pending
  BY DEF Pending
<1>2. ASSUME NEW c \in ConfigNames PROVE Listed(c)'
  BY DEF ViewInv, Listed
<1>3. ASSUME NEW c \in ConfigNames \ lost' PROVE Current(c)'
  BY <1>1, <1>3 DEF ViewInv, Current, Shows, ToBeReported
<1> QED
  BY <1>2, <1>3 DEF ViewInv

LEMMA ServiceStep ==
  ASSUME UInv, NEW n \in Names, ServiceChanges(n)
  PROVE  UInv'
<1>1. /\ Typed /\ ViewInv /\ link = "up" /\ changes' = changes + 1 /\ changes < MaxChanges
      /\ UNCHANGED <<notified, link, feed, load, snapshot, listen, heard, list, lost>>
      /\ UNCHANGED <<toggle, toast, timers>>
  BY DEF UInv, ServiceChanges
<1>2. changes' \in 0 .. MaxChanges
  BY <1>1, BoundsAssumption DEF Typed
<1>3. CASE (Manager!Begin(n) \/ Manager!Promote(n) \/ Manager!Fail(n) \/ Manager!End(n)) /\ Changed(n)
  <2>1. PICK s \in Status \ {"absent"} : state' = [state EXCEPT ![n] = s]
    BY <1>1, <1>3, ChangeFacts
  <2>2. stopping' \subseteq Names
    BY <1>1, <1>3, ChangeFacts
  <2>3. state' \in [Names -> Status] /\ reports' \in [Update -> Nat]
    BY <1>1, <1>3, <2>1, ChangedFacts, Zenon
  <2>4. Typed'
    BY <1>1, <1>2, <2>2, <2>3 DEF Typed
  <2>5. ViewInv'
    BY <1>1, <1>3, <2>1, ChangedKeepsView, Zenon
  <2> QED
    BY <1>1, <2>4, <2>5 DEF UInv, TogglesTyped, ToastHasTimer
<1>4. CASE (Manager!Add(n) \/ Manager!Remove(n) \/ Manager!AskToStop({n})) /\ UNCHANGED reports
  <2>1. /\ state' \in [Names -> Status] /\ stopping' \subseteq Names
        /\ \A c \in ConfigNames : state'[c] = state[c]
    BY <1>1, <1>4, SilentFacts
  <2>2. Typed'
    BY <1>1, <1>2, <1>4, <2>1 DEF Typed
  <2>3. ViewInv'
    BY <1>1, <1>4, <2>1, ViewKept
  <2> QED
    BY <1>1, <2>2, <2>3 DEF UInv, TogglesTyped, ToastHasTimer
<1> QED
  BY <1>3, <1>4 DEF ServiceChanges

(* What is reported is the latest that is pending of its tunnel, and       *)
(* whatever was current of the others still is.                            *)
LEMMA ReportStep ==
  ASSUME UInv, NEW u \in Update, Report(u)
  PROVE  UInv'
<1> DEFINE n == u.name
           v == reports[u] - 1
<1>1. /\ Typed /\ ViewInv /\ reports[u] > 0
      /\ reports' = [reports EXCEPT ![u] = v] /\ notified' = [notified EXCEPT ![n] = u.status]
      /\ UNCHANGED <<state, stopping, changes, link, load, snapshot, listen, heard, list>>
      /\ UNCHANGED <<toggle, toast, timers>>
  BY DEF UInv, Report
<1>2. n \in Names /\ u.status \in Status
  BY DEF Update
<1>3. reports \in [Update -> Nat] /\ notified \in [Names -> Status]
  BY <1>1 DEF Typed
<1>4. v \in Nat
  BY <1>1, <1>3
<1> HIDE DEF n, v
<1>5. /\ reports' \in [Update -> Nat]
      /\ \A w \in Update : w # u => reports'[w] = reports[w]
  BY <1>1, <1>3, <1>4, FunctionChanged
<1>6. /\ notified' \in [Names -> Status] /\ notified'[n] = u.status
      /\ \A c \in Names : c # n => notified'[c] = notified[c]
  BY <1>1, <1>2, <1>3, FunctionChanged
<1>7. \/ Len(feed) < Capacity /\ feed' = Append(feed, u) /\ lost' = lost \ {n}
      \/ lost' = lost \cup {n} /\ feed' = feed
  BY DEF Report, n
<1>8. feed' \in Seq(Update) /\ Len(feed') <= Capacity /\ lost' \subseteq Names
  <2>1. feed \in Seq(Update) /\ Len(feed) <= Capacity /\ lost \subseteq Names
    BY <1>1 DEF Typed
  <2>2. CASE Len(feed) < Capacity /\ feed' = Append(feed, u) /\ lost' = lost \ {n}
    <3>1. feed' \in Seq(Update) /\ Len(feed') = Len(feed) + 1 /\ Len(feed) \in Nat
      BY <2>1, <2>2
    <3> QED
      BY <2>1, <2>2, <3>1, BoundsAssumption
  <2>3. CASE lost' = lost \cup {n} /\ feed' = feed
    BY <1>2, <2>1, <2>3
  <2> QED
    BY <1>7, <2>2, <2>3
<1>9. Typed'
  BY <1>1, <1>5, <1>6, <1>8 DEF Typed
<1>10. ASSUME NEW c \in Names, c # n, NEW t, Shows(t, c) PROVE Shows(t, c)'
  <2>1. ToBeReported(c) => ToBeReported(c)'
    <3>1. ASSUME NEW w \in Update, w.name = c, reports[w] > 0 PROVE reports'[w] > 0
      BY <1>5, <1>10, <3>1 DEF n
    <3> QED
      BY <3>1, Zenon DEF ToBeReported
  <2> QED
    BY <1>1, <1>6, <1>10, <2>1, Zenon DEF Shows
<1>11. ASSUME NEW c \in ConfigNames \ lost', c # n PROVE c \in Names /\ Current(c)
  <2>1. c \in ConfigNames \ lost
    BY <1>7, <1>11
  <2> QED
    BY <1>1, <2>1, NamesAssumption DEF ViewInv
<1>12. ASSUME NEW c \in ConfigNames \ lost' PROVE Current(c)'
  <2>1. Pending \in Seq(Update)
    BY <1>1, PendingIsQueue
  <2>2. CASE c # n
    <3>1. c \in Names /\ Current(c) /\ notified'[c] = notified[c]
      BY <1>6, <1>11, <1>12, <2>2
    <3>2. /\ LatestIs(Pending, c, notified[c]) => LatestIs(Pending', c, notified[c])
          /\ NoneOf(Pending', c) => NoneOf(Pending, c)
      <4>1. CASE feed' = Append(feed, u)
        <5>1. Pending' = Append(Pending, u)
          BY <1>1, <4>1, PendingSent
        <5> QED
          BY <2>1, <2>2, <5>1, OtherAppended DEF n
      <4>2. CASE feed' = feed
        <5>1. Pending' = Pending
          BY <1>1, <4>2 DEF Pending
        <5> QED
          BY <5>1, Zenon
      <4> QED
        BY <1>7, <4>1, <4>2
    <3>3. (Shows(snapshot[c], c) => Shows(snapshot[c], c)') /\ (Shows(list[c], c) => Shows(list[c], c)')
      BY <1>1, <1>10, <2>2, <3>1, Zenon
    <3>4. LatestIs(Pending', c, notified'[c])
      BY <3>1, <3>2, Zenon DEF Current
    <3> QED
      BY <1>1, <3>1, <3>2, <3>3, <3>4, Zenon DEF Current
  <2>3. CASE c = n
    <3>1. feed' = Append(feed, u)
      BY <1>7, <1>12, <2>3
    <3>2. Pending' = Append(Pending, u)
      BY <1>1, <3>1, PendingSent
    <3>3. LatestIs(Pending', n, notified'[n]) /\ ~NoneOf(Pending', n)
      BY <1>6, <2>1, <3>2, LatestAppended DEF n
    <3> QED
      BY <2>3, <3>3, Zenon DEF Current
  <2> QED
    BY <2>2, <2>3
<1>13. ViewInv'
  BY <1>1, <1>12 DEF ViewInv, Listed
<1> QED
  BY <1>1, <1>9, <1>13, Zenon DEF UInv, TogglesTyped, ToastHasTimer

LEMMA ServiceEndsStep ==
  ASSUME UInv, ServiceEnds
  PROVE  UInv'
<1>1. /\ link' = "lost"
      /\ UNCHANGED <<state, stopping, reports, notified, changes, feed, load, snapshot, listen, heard, list, lost>>
      /\ UNCHANGED <<toggle, toast, timers>>
  BY DEF ServiceEnds
<1>2. Typed'
  BY <1>1 DEF UInv, Typed
<1>3. Pending' = Pending
  BY <1>1 DEF Pending
<1>4. ViewInv'
  BY <1>1, <1>3 DEF UInv, ViewInv, Listed, Current, Shows, ToBeReported
<1> QED
  BY <1>1, <1>2, <1>4 DEF UInv, TogglesTyped, ToastHasTimer

-----------------------------------------------------------------------------
(* The toast *)

LEMMA ToastShown ==
  ASSUME Typed, ShowToast
  PROVE  toast' \in BOOLEAN /\ timers' \in Nat /\ ToastHasTimer'
<1>1. timers \in Nat /\ timers' = timers + 1 /\ toast' = TRUE
  BY DEF Typed, ShowToast
<1>2. timers' \in Nat /\ timers' > 0
  BY <1>1
<1> QED
  BY <1>1, <1>2, Zenon DEF ToastHasTimer

LEMMA HideToastStep ==
  ASSUME UInv, HideToast
  PROVE  UInv'
<1>1. /\ UNCHANGED <<state, stopping, reports, notified, changes, link, feed, load, snapshot, listen, heard, list, lost>>
      /\ toggle' = toggle /\ toast' = FALSE /\ timers > 0 /\ timers' = timers - 1
  BY DEF HideToast, serviceVars
<1>2. timers' \in Nat
  BY <1>1 DEF UInv, Typed
<1>3. Typed'
  BY <1>1, <1>2, Zenon DEF UInv, Typed
<1>4. ViewInv'
  BY <1>1, ViewKept DEF UInv
<1> QED
  BY <1>1, <1>3, <1>4, Zenon DEF UInv, TogglesTyped, ToastHasTimer

-----------------------------------------------------------------------------
(* loadTunnels *)

LEMMA TunnelListStep ==
  ASSUME UInv, TunnelList
  PROVE  UInv'
<1>1. /\ UNCHANGED <<state, stopping, reports, notified, changes, link, feed, listen, heard, list, lost>>
      /\ UNCHANGED <<toggle, toast, timers>>
  BY DEF TunnelList, serviceVars
<1>2. Pending' = Pending
  BY <1>1 DEF Pending
<1>3. CASE link = "up" /\ load' = "loaded" /\ snapshot' = state
  <2>1. Typed'
    BY <1>1, <1>3 DEF UInv, Typed
  <2>2. ViewInv'
    BY <1>1, <1>2, <1>3 DEF UInv, ViewInv, Listed, Current, Shows, ToBeReported
  <2> QED
    BY <1>1, <2>1, <2>2, Zenon DEF UInv, TogglesTyped, ToastHasTimer
<1>4. CASE link = "lost" /\ load' = "failed" /\ snapshot' = snapshot
  <2>1. Typed'
    BY <1>1, <1>4 DEF UInv, Typed
  <2>2. ViewInv'
    BY <1>1, <1>2, <1>4 DEF UInv, ViewInv, Listed, Current, Shows, ToBeReported
  <2> QED
    BY <1>1, <2>1, <2>2, Zenon DEF UInv, TogglesTyped, ToastHasTimer
<1> QED
  BY <1>3, <1>4 DEF TunnelList

LEMMA TunnelsLoadedStep ==
  ASSUME UInv, TunnelsLoaded
  PROVE  UInv'
<1>1. /\ UNCHANGED <<state, stopping, reports, notified, changes, link, feed, snapshot, listen, heard, lost>>
      /\ UNCHANGED <<toggle, toast, timers>>
      /\ load = "loaded" /\ load' = "handled" /\ list' = snapshot
  BY DEF TunnelsLoaded, serviceVars
<1>2. Pending' = Pending
  BY <1>1 DEF Pending
<1>3. Typed'
  BY <1>1 DEF UInv, Typed
<1>4. ViewInv'
  BY <1>1, <1>2 DEF UInv, ViewInv, Listed, Current, Shows, ToBeReported
<1> QED
  BY <1>1, <1>3, <1>4, Zenon DEF UInv, TogglesTyped, ToastHasTimer

LEMMA LoadFailsStep ==
  ASSUME UInv, LoadFails
  PROVE  UInv'
<1>1. /\ UNCHANGED <<state, stopping, reports, notified, changes, link, feed, snapshot, listen, heard, list, lost>>
      /\ toggle' = toggle /\ ShowToast
      /\ load = "failed" /\ load' = "handled"
  BY DEF LoadFails, serviceVars
<1>2. Pending' = Pending
  BY <1>1 DEF Pending
<1>3. toast' \in BOOLEAN /\ timers' \in Nat /\ ToastHasTimer'
  BY <1>1, ToastShown DEF UInv
<1>4. Typed'
  BY <1>1, <1>3 DEF UInv, Typed
<1>5. ViewInv'
  <2>1. link' = "lost"
    BY <1>1 DEF UInv, ViewInv
  <2> QED
    BY <1>1, <1>2, <2>1 DEF UInv, ViewInv, Listed, Current, Shows, ToBeReported
<1> QED
  BY <1>1, <1>3, <1>4, <1>5, Zenon DEF UInv, TogglesTyped

-----------------------------------------------------------------------------
(* listenForNotifications *)

LEMMA ListenStays ==
  ASSUME UInv, Listen
  PROVE  UInv'
<1>1. /\ UNCHANGED <<state, stopping, reports, notified, changes, link, load, snapshot, list, lost>>
      /\ UNCHANGED <<toggle, toast, timers>>
      /\ listen = "waiting"
  BY DEF Listen, serviceVars
<1>2. heard = <<>>
  BY <1>1 DEF UInv, Typed
<1>3. CASE feed # <<>> /\ listen' = "heard" /\ heard' = <<Head(feed)>> /\ feed' = Tail(feed)
  <2>1. /\ heard' \in Seq(Update) /\ Len(heard') = 1
        /\ feed' \in Seq(Update) /\ Len(feed') <= Capacity
    <3>1. feed \in Seq(Update) /\ Len(feed) <= Capacity
      BY DEF UInv, Typed
    <3>2. Head(feed) \in Update /\ Tail(feed) \in Seq(Update) /\ Len(Tail(feed)) = Len(feed) - 1 /\ Len(feed) \in Nat
      BY <1>3, <3>1
    <3> QED
      BY <1>3, <3>1, <3>2, BoundsAssumption
  <2>2. Typed'
    BY <1>1, <1>3, <2>1 DEF UInv, Typed
  <2>3. Pending' = Pending
    BY <1>2, <1>3, PendingTaken DEF UInv
  <2>4. ViewInv'
    BY <1>1, <2>3 DEF UInv, ViewInv, Listed, Current, Shows, ToBeReported
  <2> QED
    BY <1>1, <2>2, <2>4, Zenon DEF UInv, TogglesTyped, ToastHasTimer
<1>4. CASE listen' = "ended" /\ UNCHANGED <<heard, feed>>
  <2>1. Typed'
    BY <1>1, <1>4 DEF UInv, Typed
  <2>2. Pending' = Pending
    BY <1>4 DEF Pending
  <2>3. ViewInv'
    BY <1>1, <2>2 DEF UInv, ViewInv, Listed, Current, Shows, ToBeReported
  <2> QED
    BY <1>1, <2>1, <2>3, Zenon DEF UInv, TogglesTyped, ToastHasTimer
<1> QED
  BY <1>3, <1>4 DEF Listen

(* The message that is handled was the oldest.  If it is the only one of   *)
(* its tunnel, the tunnel has its status, and that is what the list shows, *)
(* unless the list is still to come: then it is noted as lost.             *)
LEMMA NotificationStep ==
  ASSUME UInv, Notification
  PROVE  UInv'
<1> DEFINE u == heard[1]
<1>1. /\ UNCHANGED <<state, stopping, reports, notified, changes, link, feed, load, snapshot, toggle>>
      /\ listen = "heard" /\ listen' = "waiting" /\ heard' = <<>>
      /\ StatusChanged(u)
      /\ lost' = IF load = "loaded" THEN lost \cup {u.name} ELSE lost
  BY DEF Notification, serviceVars
<1>2. /\ Pending # <<>> /\ Head(Pending) = u /\ Pending' = Tail(Pending)
      /\ u \in Update /\ Pending \in Seq(Update)
  BY <1>1, PendingHandled, PendingIsQueue DEF UInv
<1> HIDE DEF u
<1>3. u.name \in Names /\ u.status \in Status \ {"absent"}
  BY <1>2 DEF Update
<1>4. /\ toast' \in BOOLEAN /\ timers' \in Nat /\ ToastHasTimer'
  <2>1. CASE ShowToast
    BY <2>1, ToastShown DEF UInv
  <2>2. CASE UNCHANGED <<toast, timers>>
    BY <2>2 DEF UInv, Typed, ToastHasTimer
  <2> QED
    BY <1>1, <2>1, <2>2, Zenon DEF StatusChanged
<1>5. /\ list' \in [Names -> Status]
      /\ \A c \in Names : c # u.name => list'[c] = list[c]
      /\ list[u.name] # "absent" => list'[u.name] = u.status
  <2>1. list \in [Names -> Status]
    BY DEF UInv, Typed
  <2> QED
    BY <1>1, <1>3, <2>1 DEF StatusChanged
<1>6. Typed'
  <2>1. lost' \subseteq Names
    BY <1>1, <1>3 DEF UInv, Typed
  <2> QED
    BY <1>1, <1>4, <1>5, <2>1 DEF UInv, Typed
<1>7. ConfigNames \subseteq Names
  BY NamesAssumption
<1>8. ASSUME NEW c \in ConfigNames PROVE Listed(c)'
  <2>1. Listed(c)
    BY DEF UInv, ViewInv
  <2>2. list[c] # "absent" => list'[c] # "absent"
    BY <1>3, <1>5, <1>7
  <2> QED
    BY <1>1, <2>1, <2>2 DEF Listed
<1>9. ASSUME NEW c \in ConfigNames \ lost' PROVE Current(c)'
  <2>1. Current(c) /\ Listed(c) /\ c \in Names
    BY <1>1, <1>7, <1>9 DEF UInv, ViewInv
  <2>2. LatestIs(Pending', c, notified[c])
    BY <1>2, <2>1, LatestTail DEF Current
  <2>3. CASE u.name # c
    <3>1. NoneOf(Pending', c) => NoneOf(Pending, c)
      BY <1>2, <2>1, <2>3, LatestTail DEF Current
    <3>2. list'[c] = list[c]
      BY <1>5, <2>1, <2>3
    <3> QED
      BY <1>1, <2>1, <2>2, <3>1, <3>2 DEF Current, Shows, ToBeReported
  <2>4. CASE u.name = c
    <3>1. load # "loaded"
      BY <1>1, <1>9, <2>4
    <3>2. NoneOf(Pending', c) => u.status = notified[c]
      BY <1>2, <2>1, <2>4, LatestTail DEF Current
    <3>3. load = "handled" /\ link = "up" => list'[c] = u.status
      BY <1>5, <2>1, <2>4 DEF Listed
    <3> QED
      BY <1>1, <2>2, <3>1, <3>2, <3>3 DEF Current, Shows
  <2> QED
    BY <2>3, <2>4
<1>10. ViewInv'
  BY <1>1, <1>8, <1>9 DEF UInv, ViewInv
<1> QED
  BY <1>1, <1>4, <1>6, <1>10, Zenon DEF UInv, TogglesTyped

-----------------------------------------------------------------------------
(* toggleTunnel *)

Toggle == [pc : {"unused", "called", "failed", "done"}, name : Names \cup {""}, shown : Status]

LEMMA ToggleMoved ==
  ASSUME NEW t \in Toggle, NEW pc \in {"failed", "done"}
  PROVE  [t EXCEPT !.pc = pc] \in Toggle /\ [t EXCEPT !.pc = pc].pc # "called"
  BY DEF Toggle

LEMMA TogglesMove ==
  ASSUME TogglesTyped, NEW k \in Press, NEW pc \in {"failed", "done"},
         toggle' = [toggle EXCEPT ![k].pc = pc]
  PROVE  TogglesTyped'
<1> DEFINE t == [toggle[k] EXCEPT !.pc = pc]
<1>1. toggle \in [Press -> Toggle]
  BY DEF TogglesTyped, Toggle
<1>2. t \in Toggle /\ t.pc # "called"
  BY <1>1, ToggleMoved, Zenon
<1>3. toggle' = [toggle EXCEPT ![k] = t]
  OBVIOUS
<1> HIDE DEF t
<1>4. /\ toggle' \in [Press -> Toggle] /\ toggle'[k] = t
      /\ \A j \in Press : j # k => toggle'[j] = toggle[j]
  BY <1>1, <1>2, <1>3, FunctionChanged
<1>5. ASSUME NEW j \in Press, toggle'[j].pc = "called" PROVE toggle'[j].name \in Names
  BY <1>2, <1>4, <1>5 DEF TogglesTyped
<1> QED
  BY <1>4, <1>5, Zenon DEF TogglesTyped, Toggle

LEMMA ToggleKeyStep ==
  ASSUME UInv, NEW k \in Press, ToggleKey(k)
  PROVE  UInv'
<1>1. /\ UNCHANGED <<state, stopping, reports, notified, changes, link, feed, load, snapshot, listen, heard, list, lost>>
      /\ UNCHANGED <<toast, timers>>
  BY DEF ToggleKey, serviceVars
<1>2. PICK n \in Names : toggle' = [toggle EXCEPT ![k] = [pc |-> "called", name |-> n, shown |-> list[n]]]
  BY Zenon DEF ToggleKey
<1>3. TogglesTyped'
  <2> DEFINE t == [pc |-> "called", name |-> n, shown |-> list[n]]
  <2>1. toggle \in [Press -> Toggle]
    BY DEF UInv, TogglesTyped, Toggle
  <2>2. t \in Toggle /\ t.name \in Names
    BY DEF UInv, Typed, Toggle
  <2> HIDE DEF t
  <2>3. /\ toggle' \in [Press -> Toggle] /\ toggle'[k] = t
        /\ \A j \in Press : j # k => toggle'[j] = toggle[j]
    BY <1>2, <2>1, <2>2, FunctionChanged DEF t
  <2>4. ASSUME NEW j \in Press, toggle'[j].pc = "called" PROVE toggle'[j].name \in Names
    BY <2>2, <2>3, <2>4 DEF UInv, TogglesTyped
  <2> QED
    BY <2>3, <2>4, Zenon DEF TogglesTyped, Toggle
<1>4. Typed'
  BY <1>1 DEF UInv, Typed
<1>5. ViewInv'
  BY <1>1, ViewKept DEF UInv
<1> QED
  BY <1>1, <1>3, <1>4, <1>5, Zenon DEF UInv, ToastHasTimer

LEMMA TunnelStopStep ==
  ASSUME UInv, NEW k \in Press, TunnelStop(k)
  PROVE  UInv'
<1>1. /\ UNCHANGED <<state, reports, notified, changes, link, feed, load, snapshot, listen, heard, list, lost>>
      /\ UNCHANGED <<toast, timers>>
      /\ toggle[k].pc = "called" /\ toggle' = [toggle EXCEPT ![k].pc = "done"]
      /\ stopping' = stopping \cup {toggle[k].name}
  BY DEF TunnelStop, ToggleEnds, Manager!AskToStop
<1>2. TogglesTyped'
  BY <1>1, TogglesMove, Zenon DEF UInv
<1>3. Typed'
  <2>1. stopping' \subseteq Names
    BY <1>1 DEF UInv, TogglesTyped, Typed
  <2> QED
    BY <1>1, <2>1 DEF UInv, Typed
<1>4. ViewInv'
  BY <1>1, ViewKept DEF UInv
<1> QED
  BY <1>1, <1>2, <1>3, <1>4, Zenon DEF UInv, ToastHasTimer

LEMMA TunnelStartStep ==
  ASSUME UInv, NEW k \in Press, TunnelStart(k)
  PROVE  UInv'
<1> DEFINE n == toggle[k].name
<1>1. /\ UNCHANGED <<notified, changes, link, feed, load, snapshot, listen, heard, list, lost>>
      /\ UNCHANGED <<toast, timers>>
      /\ toggle[k].pc = "called" /\ toggle' = [toggle EXCEPT ![k].pc = "done"]
      /\ stopping' = stopping /\ state' = [state EXCEPT ![n] = "connecting"] /\ Changed(n)
  BY DEF TunnelStart, ToggleEnds, Manager!Begin
<1>2. n \in Names /\ "connecting" \in Status \ {"absent"}
  BY <1>1 DEF UInv, TogglesTyped, Status
<1>3. TogglesTyped'
  BY <1>1, TogglesMove, Zenon DEF UInv
<1> HIDE DEF n
<1>4. state' \in [Names -> Status] /\ reports' \in [Update -> Nat]
  BY <1>1, <1>2, ChangedFacts, Zenon DEF UInv
<1>5. Typed'
  BY <1>1, <1>4 DEF UInv, Typed
<1>6. ViewInv'
  BY <1>1, <1>2, ChangedKeepsView, Zenon DEF UInv
<1> QED
  BY <1>1, <1>3, <1>5, <1>6, Zenon DEF UInv, ToastHasTimer

LEMMA ToggleFailsStep ==
  ASSUME UInv, NEW k \in Press, ToggleFails(k)
  PROVE  UInv'
<1>1. /\ UNCHANGED <<state, stopping, reports, notified, changes, link, feed, load, snapshot, listen, heard, list, lost>>
      /\ UNCHANGED <<toast, timers>>
      /\ toggle' = [toggle EXCEPT ![k].pc = "failed"]
  BY DEF ToggleFails, ToggleEnds, serviceVars
<1>2. TogglesTyped'
  BY <1>1, TogglesMove, Zenon DEF UInv
<1>3. Typed'
  BY <1>1 DEF UInv, Typed
<1>4. ViewInv'
  BY <1>1, ViewKept DEF UInv
<1> QED
  BY <1>1, <1>2, <1>3, <1>4, Zenon DEF UInv, ToastHasTimer

LEMMA ToggleErrorStep ==
  ASSUME UInv, NEW k \in Press, ToggleError(k)
  PROVE  UInv'
<1>1. /\ UNCHANGED <<state, stopping, reports, notified, changes, link, feed, load, snapshot, listen, heard, list, lost>>
      /\ toggle' = [toggle EXCEPT ![k].pc = "done"] /\ ShowToast
  BY DEF ToggleError, serviceVars
<1>2. TogglesTyped'
  BY <1>1, TogglesMove, Zenon DEF UInv
<1>3. toast' \in BOOLEAN /\ timers' \in Nat /\ ToastHasTimer'
  BY <1>1, ToastShown DEF UInv
<1>4. Typed'
  BY <1>1, <1>3 DEF UInv, Typed
<1>5. ViewInv'
  BY <1>1, ViewKept DEF UInv
<1> QED
  BY <1>2, <1>3, <1>4, <1>5, Zenon DEF UInv

-----------------------------------------------------------------------------
LEMMA TuiInitial == Init => UInv
<1> SUFFICES ASSUME Init PROVE UInv
  OBVIOUS
<1>1. /\ state = [n \in Names |-> IF n \in ConfigNames THEN "disconnected" ELSE "absent"]
      /\ reports = [u \in Update |-> 0] /\ notified = state
      /\ stopping = {} /\ feed = <<>> /\ heard = <<>> /\ load = "calling" /\ listen = "waiting"
      /\ changes = 0 /\ link = "up" /\ snapshot = NoItems /\ list = NoItems
      /\ toast = FALSE /\ timers = 0 /\ lost = {}
      /\ toggle = [k \in Press |-> [pc |-> "unused", name |-> "", shown |-> "absent"]]
  BY DEF Init, Manager!Init
<1>2. Typed
  <2>1. NoItems \in [Names -> Status] /\ state \in [Names -> Status]
    BY <1>1 DEF NoItems, Status
  <2>2. reports \in [Update -> Nat] /\ notified \in [Names -> Status]
    BY <1>1, <2>1
  <2>3. changes \in 0 .. MaxChanges /\ Len(feed) <= Capacity /\ timers \in Nat
    <3>1. changes = 0 /\ feed = <<>> /\ timers = 0
      BY <1>1, Zenon
    <3> QED
      BY <3>1, BoundsAssumption, EmptyFacts
  <2>4. /\ feed \in Seq(Update) /\ heard \in Seq(Update)
        /\ Len(heard) = IF listen = "heard" THEN 1 ELSE 0
    <3>1. feed = <<>> /\ heard = <<>> /\ listen = "waiting"
      BY <1>1, Zenon
    <3> QED
      BY <3>1, EmptyFacts
  <2> QED
    BY <1>1, <2>1, <2>2, <2>3, <2>4, Zenon DEF Typed
<1>3. TogglesTyped
  BY <1>1 DEF TogglesTyped, Status
<1>4. ViewInv
  <2>1. Pending = <<>>
    BY <1>1, EmptyFacts, Zenon DEF Pending
  <2>2. ASSUME NEW n \in ConfigNames PROVE Listed(n) /\ Current(n)
    <3>1. state[n] = "disconnected"
      BY <1>1, NamesAssumption
    <3> QED
      BY <1>1, <2>1, <3>1, EmptyNone, Zenon DEF Listed, Current
  <2> QED
    BY <1>1, <2>2 DEF ViewInv
<1> QED
  BY <1>1, <1>2, <1>3, <1>4, Zenon DEF UInv, ToastHasTimer

LEMMA TuiStutters ==
  ASSUME UInv, UNCHANGED vars
  PROVE  UInv'
<1>1. /\ UNCHANGED <<state, stopping, reports, notified, changes, link, feed, load, snapshot, listen, heard, list, lost>>
      /\ UNCHANGED <<toggle, toast, timers>>
  BY DEF vars
<1>2. Typed'
  BY <1>1 DEF UInv, Typed
<1>3. ViewInv'
  BY <1>1, ViewKept DEF UInv
<1> QED
  BY <1>1, <1>2, <1>3, Zenon DEF UInv, TogglesTyped, ToastHasTimer

LEMMA TuiInvariant == Spec => []UInv
<1>1. UInv /\ [Next]_vars => UInv'
  <2> SUFFICES ASSUME UInv, [Next]_vars PROVE UInv'
    OBVIOUS
  <2>1. CASE \E n \in Names : ServiceChanges(n)
    BY <2>1, ServiceStep
  <2>2. CASE \E u \in Update : Report(u)
    BY <2>2, ReportStep
  <2>3. CASE ServiceEnds
    BY <2>3, ServiceEndsStep
  <2>4. CASE LoadStep
    BY <2>4, TunnelListStep, TunnelsLoadedStep, LoadFailsStep DEF LoadStep
  <2>5. CASE ListenStep
    BY <2>5, ListenStays, NotificationStep DEF ListenStep
  <2>6. CASE HideToast
    BY <2>6, HideToastStep
  <2>7. ASSUME NEW k \in Press, ToggleKey(k) \/ ToggleStep(k) PROVE UInv'
    BY <2>7, ToggleKeyStep, TunnelStopStep, TunnelStartStep, ToggleFailsStep, ToggleErrorStep DEF ToggleStep
  <2>8. CASE UNCHANGED vars
    BY <2>8, TuiStutters
  <2> QED
    BY <2>1, <2>2, <2>3, <2>4, <2>5, <2>6, <2>7, <2>8, Zenon DEF Next
<1> QED
  BY <1>1, TuiInitial, PTL DEF Spec

(* Every field of the model of the TUI has a value of its type, however    *)
(* many toasts are shown; the channel never holds more than its capacity.  *)
THEOREM TuiTypeCorrect == Spec => []TypeOK
<1>1. UInv => TypeOK
  <2> SUFFICES ASSUME Typed, TogglesTyped PROVE TypeOK
    BY DEF UInv
  <2>1. listen = "heard" <=> heard # <<>>
    <3>1. heard \in Seq(Update) /\ Len(heard) = IF listen = "heard" THEN 1 ELSE 0
      BY DEF Typed
    <3>2. heard = <<>> <=> Len(heard) = 0
      BY <3>1, EmptySeq, Zenon
    <3>3. CASE listen = "heard"
      BY <3>1, <3>2, <3>3
    <3>4. CASE listen # "heard"
      BY <3>1, <3>2, <3>4
    <3> QED
      BY <3>3, <3>4
  <2> QED
    BY <2>1 DEF Typed, TogglesTyped, TypeOK
<1> QED
  BY <1>1, TuiInvariant, PTL

(* tui.go:162-165, 189-195: whatever errors come in whatever order, while  *)
(* a toast is shown a timer runs that will hide it.                        *)
THEOREM ToastIsTimed == Spec => []ToastHasTimer
<1>1. UInv => ToastHasTimer
  BY DEF UInv
<1> QED
  BY <1>1, TuiInvariant, PTL

(* tui.go:149-187, manager.go:101-148: with any tunnels, any number of     *)
(* changes, reported in any order, and a channel of any capacity, the list *)
(* shows a configured tunnel as it is, or as it was reported last, when    *)
(* all is reported and taken.  Excepted are those whose last report was    *)
(* handled before the list it was missing from, or met a full channel.     *)
THEOREM ListShowsState == Spec => []ListIsCurrent
<1>1. UInv => ListIsCurrent
  <2> SUFFICES ASSUME Typed, ViewInv, NEW n \in ConfigNames \ lost, Settled(n)
               PROVE  list[n] \in {state[n], notified[n]}
    BY Zenon DEF UInv, ListIsCurrent
  <2>1. /\ load = "handled" /\ link = "up" /\ feed = <<>> /\ listen = "waiting"
        /\ \A u \in Update : u.name = n => reports[u] = 0
    BY Zenon DEF Settled
  <2>2. NoneOf(Pending, n)
    <3>1. heard = <<>>
      BY <2>1 DEF Typed
    <3>2. Pending = <<>>
      BY <2>1, <3>1, EmptyFacts, Zenon DEF Pending
    <3> QED
      BY <3>2, EmptyNone, Zenon
  <2>3. Shows(list[n], n)
    BY <2>1, <2>2, Zenon DEF ViewInv, Current
  <2>4. ~ToBeReported(n)
    BY <2>1 DEF ToBeReported
  <2> QED
    BY <2>3, <2>4, Zenon DEF Shows
<1> QED
  BY <1>1, TuiInvariant, PTL
=============================================================================
