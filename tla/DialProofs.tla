----------------------------- MODULE DialProofs -----------------------------
(***************************************************************************)
(* Proofs about ConfigLoad and Dial.  For every configuration file: the    *)
(* n-th tunnel of a name has the suffix n, and if no name in the file      *)
(* looks like a made-up one, every tunnel is found by its name.  For every *)
(* host: what is shown of it is dialled.  For any key files: a password    *)
(* comes last, and "auto" always dials.                                    *)
(***************************************************************************)
EXTENDS Dial, FiniteSetTheorems, SequenceTheorems, WellFoundedInduction, TLAPS

(* The tunnels when the second loop of Load has come to j. *)
Loaded(j) ==
  [k \in DOMAIN file |-> [Name |-> IF k < j THEN Numbered(k) ELSE Given(k),
                          Host |-> file[k].Host]]

(* The tunnels before j that were given the name n. *)
Seen(n, j) == {k \in 1 .. j - 1 : Given(k) = n}

(* The counts are those of the names as they were given, not as they are   *)
(* after the suffixes; that is what the next pass relies on.               *)
LoopInv ==
  /\ i \in 1 .. Len(file) + 1
  /\ Tunnels = Loaded(i)
  /\ DOMAIN nameCounts = {Given(k) : k \in 1 .. i - 1}
  /\ \A n \in DOMAIN nameCounts : nameCounts[n] = Cardinality(Seen(n, i))

LInv ==
  /\ file \in Seq(TunnelConfig)
  /\ loadPC = "read" => nameCounts = <<>> /\ i = 1
  /\ loadPC = "derive" => Tunnels = file /\ nameCounts = <<>> /\ i = 1
  /\ loadPC = "suffix" => LoopInv
  /\ loadPC \in {"newManager", "ready"} => Tunnels = Loaded(Len(file) + 1)
  /\ loadPC = "ready" =>
       table = [name \in NamesOf(Tunnels) |->
                  LastOf({k \in DOMAIN Tunnels : Tunnels[k].Name = name})]

-----------------------------------------------------------------------------
(* Finite sets of indices *)

LEMMA OneMore ==
  ASSUME NEW S, IsFiniteSet(S), NEW x, x \notin S
  PROVE  IsFiniteSet(S \cup {x}) /\ Cardinality(S \cup {x}) = Cardinality(S) + 1
  BY FS_AddElement

LEMMA SeenFinite ==
  ASSUME NEW n, NEW j \in Nat
  PROVE  IsFiniteSet(Seen(n, j)) /\ Cardinality(Seen(n, j)) \in Nat
<1>1. IsFiniteSet(1 .. j - 1)
  BY FS_Interval
<1>2. Seen(n, j) \in SUBSET (1 .. j - 1)
  BY DEF Seen
<1> QED
  BY <1>1, <1>2, FS_Subset, FS_CardinalityType

(* A pass of the loop adds the index of the pass to the tunnels seen. *)
LEMMA SeenNext ==
  ASSUME NEW n, NEW j \in Nat \ {0}
  PROVE  Cardinality(Seen(n, j + 1)) =
           IF Given(j) = n THEN Cardinality(Seen(n, j)) + 1 ELSE Cardinality(Seen(n, j))
<1>1. CASE Given(j) = n
  <2>1. Seen(n, j + 1) = Seen(n, j) \cup {j}
    BY <1>1 DEF Seen
  <2>2. j \notin Seen(n, j)
    BY DEF Seen
  <2> QED
    BY <1>1, <2>1, <2>2, SeenFinite, FS_AddElement
<1>2. CASE Given(j) # n
  <2>1. Seen(n, j + 1) = Seen(n, j)
    BY <1>2 DEF Seen
  <2> QED
    BY <1>2, <2>1
<1> QED
  BY <1>1, <1>2

LEMMA EarlierIsSeen ==
  ASSUME NEW k \in Nat
  PROVE  Earlier(k) = Seen(Given(k), k)
  BY DEF Earlier, Seen

-----------------------------------------------------------------------------
(* The loop *)

LEMMA LoadInitial == LoadInit => LInv
  BY DEF LoadInit, LInv

LEMMA Renamed ==
  ASSUME NEW n, NEW h, NEW m, NEW t, t = [Name |-> n, Host |-> h]
  PROVE  [t EXCEPT !.Name = m] = [Name |-> m, Host |-> h]
  OBVIOUS

LEMMA Rewritten ==
  ASSUME NEW D, NEW f, f = [k \in D |-> f[k]], NEW a
  PROVE  [f EXCEPT ![a] = f[a]] = f
  OBVIOUS

LEMMA SuffixStep ==
  ASSUME LInv, SuffixName
  PROVE  LInv'
<1> DEFINE name == Tunnels[i].Name
<1>1. loadPC = "suffix" /\ loadPC' = "suffix" /\ LoopInv /\ file' = file
  BY DEF LInv, SuffixName
<1>2. i \in 1 .. Len(file) /\ i \in Nat \ {0} /\ i' = i + 1 /\ Len(file) \in Nat
  <2>1. DOMAIN Tunnels = 1 .. Len(file) /\ Len(file) \in Nat
    BY <1>1 DEF LInv, LoopInv, Loaded
  <2> QED
    BY <1>1, <2>1 DEF SuffixName
<1>3. /\ \A k : Given(k)' = Given(k) /\ Earlier(k)' = Earlier(k) /\ Numbered(k)' = Numbered(k)
      /\ \A n, j : Seen(n, j)' = Seen(n, j)
  BY <1>1 DEF Given, Earlier, Numbered, Seen
<1>4. name = Given(i) /\ Tunnels[i] = [Name |-> Given(i), Host |-> file[i].Host]
  BY <1>1, <1>2 DEF LoopInv, Loaded, LInv
<1>5. Numbered(i) = IF name \in DOMAIN nameCounts THEN Append(name, nameCounts[name] + 1) ELSE name
  <2>1. Earlier(i) = Seen(name, i)
    BY <1>2, <1>4, EarlierIsSeen
  <2>2. Earlier(i) = {} <=> name \notin DOMAIN nameCounts
    BY <1>1, <1>2, <1>4 DEF LoopInv, Earlier
  <2> QED
    BY <1>1, <1>4, <2>1, <2>2 DEF LoopInv, Numbered
<1>6. Tunnels' = [Tunnels EXCEPT ![i] = [Name |-> Numbered(i), Host |-> file[i].Host]]
  <2>1. CASE name \in DOMAIN nameCounts
    <3>1. Tunnels' = [Tunnels EXCEPT ![i].Name = Append(name, nameCounts[name] + 1)]
      BY <2>1 DEF SuffixName
    <3>2. [Tunnels[i] EXCEPT !.Name = Append(name, nameCounts[name] + 1)]
            = [Name |-> Append(name, nameCounts[name] + 1), Host |-> file[i].Host]
      <4> DEFINE m == Append(name, nameCounts[name] + 1)
                 t == Tunnels[i]
      <4>1. t = [Name |-> Given(i), Host |-> file[i].Host]
        BY <1>4
      <4> HIDE DEF m, t
      <4>2. [t EXCEPT !.Name = m] = [Name |-> m, Host |-> file[i].Host]
        BY <4>1, Renamed
      <4> QED
        BY <4>2 DEF m, t
    <3> QED
      BY <1>5, <2>1, <3>1, <3>2, Zenon
  <2>2. CASE name \notin DOMAIN nameCounts
    <3>1. Tunnels' = Tunnels
      BY <2>2 DEF SuffixName
    <3>2. Tunnels[i] = [Name |-> Numbered(i), Host |-> file[i].Host]
      BY <1>4, <1>5, <2>2, Zenon
    <3>3. Tunnels = [k \in DOMAIN file |-> Tunnels[k]]
      BY <1>1 DEF LoopInv, Loaded
    <3> QED
      BY <3>1, <3>2, <3>3, Rewritten, Zenon
  <2> QED
    BY <2>1, <2>2
<1>7. Tunnels' = Loaded(i)'
  <2>1. DOMAIN file = 1 .. Len(file)
    BY DEF LInv
  <2> DEFINE before == [k \in DOMAIN file |->
               [Name |-> IF k < i THEN Numbered(k) ELSE Given(k), Host |-> file[k].Host]]
             after == [k \in DOMAIN file |->
               [Name |-> IF k < i + 1 THEN Numbered(k) ELSE Given(k), Host |-> file[k].Host]]
  <2>2. Tunnels = before /\ Loaded(i)' = after
    BY <1>1, <1>2, <1>3 DEF LoopInv, Loaded
  <2>3. ASSUME NEW k \in DOMAIN file
        PROVE  [before EXCEPT ![i] = [Name |-> Numbered(i), Host |-> file[i].Host]][k] = after[k]
    <3>1. CASE k = i
      BY <1>2, <2>1, <3>1
    <3>2. CASE k # i
      <4>1. k < i <=> k < i + 1
        BY <1>2, <2>1, <3>2
      <4> QED
        BY <3>2, <4>1
    <3> QED
      BY <3>1, <3>2
  <2>4. [before EXCEPT ![i] = [Name |-> Numbered(i), Host |-> file[i].Host]] = after
    BY <2>3, Zenon
  <2> QED
    BY <1>6, <2>2, <2>4
<1>8. nameCounts' = [m \in DOMAIN nameCounts \cup {name} |->
                      IF m = name THEN IF name \in DOMAIN nameCounts THEN nameCounts[name] + 1 ELSE 1
                      ELSE nameCounts[m]]
  BY DEF SuffixName, SetCount
<1>9. DOMAIN nameCounts' = {Given(k) : k \in 1 .. i}
  BY <1>1, <1>2, <1>4, <1>8 DEF LoopInv
<1>10. \A n \in DOMAIN nameCounts' : nameCounts'[n] = Cardinality(Seen(n, i + 1))
  <2> SUFFICES ASSUME NEW n \in DOMAIN nameCounts'
               PROVE  nameCounts'[n] = Cardinality(Seen(n, i + 1))
    OBVIOUS
  <2>1. Cardinality(Seen(n, i + 1)) =
          IF name = n THEN Cardinality(Seen(n, i)) + 1 ELSE Cardinality(Seen(n, i))
    BY <1>2, <1>4, SeenNext
  <2>2. CASE n = name /\ n \notin DOMAIN nameCounts
    <3>1. Seen(n, i) = {}
      BY <1>1, <1>2, <2>2 DEF LoopInv, Seen
    <3> QED
      BY <1>8, <2>1, <2>2, <3>1, FS_EmptySet
  <2>3. CASE n # name \/ n \in DOMAIN nameCounts
    BY <1>1, <1>8, <2>1, <2>3 DEF LoopInv
  <2> QED
    BY <2>2, <2>3
<1>11. LoopInv'
  <2>1. i' \in 1 .. Len(file') + 1
    BY <1>1, <1>2
  <2>2. DOMAIN nameCounts' = {Given(k)' : k \in 1 .. i' - 1}
    BY <1>2, <1>3, <1>9
  <2>3. \A n \in DOMAIN nameCounts' : nameCounts'[n] = Cardinality(Seen(n, i'))
    BY <1>2, <1>10
  <2> QED
    BY <1>3, <1>7, <2>1, <2>2, <2>3, Zenon DEF LoopInv, Seen
<1> QED
  BY <1>1, <1>11 DEF LInv

LEMMA ReadStep ==
  ASSUME LInv, ReadInConfig
  PROVE  LInv'
<1>1. file' \in Seq(TunnelConfig)
  <2>1. file \in Seq(TunnelConfig) /\ file' \in Files \cup {<<>>, file}
    BY DEF LInv, ReadInConfig
  <2>2. <<>> \in Seq(TunnelConfig)
    BY EmptySeq
  <2> QED
    BY <2>1, <2>2, FilesAssumption, Zenon
<1> QED
  BY <1>1 DEF LInv, ReadInConfig

LEMMA DeriveStep ==
  ASSUME LInv, DeriveNames
  PROVE  LInv'
<1>1. /\ loadPC = "derive" /\ loadPC' = "suffix" /\ file' = file
      /\ Tunnels = file /\ nameCounts' = <<>> /\ i' = 1
      /\ Len(file) \in Nat /\ DOMAIN file = 1 .. Len(file)
  BY DEF LInv, DeriveNames
<1>2. \A k : Given(k)' = Given(k) /\ Numbered(k)' = Numbered(k)
  BY <1>1 DEF Given, Earlier, Numbered
<1>3. Tunnels' = Loaded(i)'
  <2>1. ASSUME NEW k \in DOMAIN file
        PROVE  (IF file[k].Name = <<>> /\ file[k].Host # <<>>
                THEN [file[k] EXCEPT !.Name = deriveName(file[k].Host)]
                ELSE file[k]) = [Name |-> Given(k), Host |-> file[k].Host]
    <3>1. file[k] \in TunnelConfig
      BY <1>1 DEF LInv
    <3>2. file[k] = [Name |-> file[k].Name, Host |-> file[k].Host]
      BY <3>1 DEF TunnelConfig
    <3>3. [file[k] EXCEPT !.Name = deriveName(file[k].Host)]
            = [Name |-> deriveName(file[k].Host), Host |-> file[k].Host]
      BY <3>2
    <3> QED
      BY <3>2, <3>3 DEF Given
  <2>2. Tunnels' = [k \in DOMAIN file |-> [Name |-> Given(k), Host |-> file[k].Host]]
    BY <1>1, <2>1 DEF DeriveNames
  <2>3. \A k \in DOMAIN file : ~(k < 1)
    BY <1>1
  <2>4. Loaded(i)' = [k \in DOMAIN file |->
          [Name |-> IF k < 1 THEN Numbered(k) ELSE Given(k), Host |-> file[k].Host]]
    BY <1>1, <1>2 DEF Loaded
  <2> QED
    BY <2>2, <2>3, <2>4
<1>4. LoopInv'
  BY <1>1, <1>3 DEF LoopInv
<1> QED
  BY <1>1, <1>4 DEF LInv

LEMMA ReturnStep ==
  ASSUME LInv, LoadReturns
  PROVE  LInv'
<1>1. /\ loadPC = "suffix" /\ loadPC' = "newManager" /\ LoopInv
      /\ file' = file /\ Tunnels' = Tunnels
      /\ Len(file) \in Nat /\ DOMAIN file = 1 .. Len(file)
  BY DEF LInv, LoadReturns
<1>2. i = Len(file) + 1
  BY <1>1 DEF LoopInv, Loaded, LoadReturns
<1>3. Loaded(Len(file) + 1)' = Loaded(Len(file) + 1)
  BY <1>1 DEF Loaded, Given, Earlier, Numbered
<1> QED
  BY <1>1, <1>2, <1>3 DEF LInv, LoopInv

LEMMA ManagerStep ==
  ASSUME LInv, NewManager
  PROVE  LInv'
<1>1. Loaded(Len(file) + 1)' = Loaded(Len(file) + 1)
  BY DEF NewManager, Loaded, Given, Earlier, Numbered
<1> QED
  BY <1>1 DEF LInv, NewManager, NamesOf, LastOf

LEMMA LoadStutters ==
  ASSUME LInv, UNCHANGED loadVars
  PROVE  LInv'
<1>1. /\ Loaded(Len(file) + 1)' = Loaded(Len(file) + 1)
      /\ LoopInv' = LoopInv
  BY DEF loadVars, LoopInv, Loaded, Seen, Given, Earlier, Numbered
<1> QED
  BY <1>1 DEF LInv, loadVars, NamesOf, LastOf

LEMMA LoadInvariant == LoadSpec => []LInv
<1>1. LInv /\ [LoadNext]_loadVars => LInv'
  BY ReadStep, DeriveStep, SuffixStep, ReturnStep, ManagerStep, LoadStutters DEF LoadNext
<1> QED
  BY <1>1, LoadInitial, PTL DEF LoadSpec

-----------------------------------------------------------------------------
(* The first tunnel of a name keeps it and the n-th gets the suffix n, for *)
(* every file: the loop of Load and its map compute what                   *)
(* NumberedByOccurrence says without them (config.go:99-109).              *)
THEOREM NamesNumbered == LoadSpec => []NumberedByOccurrence
<1>1. LInv => NumberedByOccurrence
  <2> SUFFICES ASSUME LInv, loadPC \in {"newManager", "ready"}
               PROVE  /\ DOMAIN Tunnels = DOMAIN file
                      /\ \A k \in DOMAIN file : Tunnels[k].Name = Numbered(k)
    BY DEF NumberedByOccurrence
  <2>1. Tunnels = Loaded(Len(file) + 1) /\ Len(file) \in Nat /\ DOMAIN file = 1 .. Len(file)
    BY DEF LInv
  <2> QED
    BY <2>1 DEF Loaded
<1> QED
  BY <1>1, LoadInvariant, PTL

-----------------------------------------------------------------------------
(* Names *)

(* CHOOSE in FirstOf has something to choose. *)
LEMMA FirstOfIsMember ==
  ASSUME NEW S \in SUBSET Nat, S # {}
  PROVE  FirstOf(S) \in S /\ \A l \in S : FirstOf(S) <= l
<1> DEFINE R == {ss \in Nat \X Nat : ss[1] < ss[2]}
<1>1. IsWellFoundedOn(R, Nat)
  BY NatLessThanWellFounded, Zenon DEF OpToRel
<1>2. PICK k \in S : \A l \in S : ~(<<l, k>> \in R)
  BY <1>1, WFMin, Zenon
<1>3. ASSUME NEW l \in S
      PROVE  k <= l
  <2>1. <<l, k>> \in Nat \X Nat /\ k \in Nat /\ l \in Nat
    OBVIOUS
  <2>2. ~(l < k)
    BY <1>2, <2>1
  <2> QED
    BY <2>1, <2>2
<1> QED
  BY <1>3, Zenon DEF FirstOf

LEMMA GivenIsName ==
  ASSUME file \in Seq(TunnelConfig), NEW k \in DOMAIN file
  PROVE  Given(k) \in Seq(Token)
<1>1. file[k].Name \in Seq(Token) /\ file[k].Host \in Seq(Token)
  <2>1. file[k] \in TunnelConfig
    OBVIOUS
  <2> QED
    BY <2>1 DEF TunnelConfig
<1>2. ASSUME NEW h \in Seq(Token)
      PROVE  deriveName(h) \in Seq(Token)
  <2>1. CASE At \in {h[l] : l \in DOMAIN h}
    <3> DEFINE at == Occurrences(At, h)
    <3>1. at \subseteq 1 .. Len(h) /\ at # {} /\ Len(h) \in Nat
      BY <2>1 DEF Occurrences
    <3>2. FirstOf(at) \in 1 .. Len(h)
      BY <3>1, FirstOfIsMember
    <3>3. \A l \in FirstOf(at) + 1 .. Len(h) : h[l] \in Token
      BY <3>1, <3>2
    <3>4. SubSeq(h, FirstOf(at) + 1, Len(h)) \in Seq(Token)
      BY <3>1, <3>2, <3>3, SubSeqProperties
    <3> QED
      BY <2>1, <3>4 DEF deriveName, After
  <2>2. CASE At \notin {h[l] : l \in DOMAIN h}
    BY <2>2 DEF deriveName
  <2> QED
    BY <2>1, <2>2
<1> QED
  BY <1>1, <1>2 DEF Given

(* Fewer tunnels of a name come before one than before a later one. *)
LEMMA EarlierGrows ==
  ASSUME NEW k \in Nat \ {0}, NEW l \in Nat, k < l, Given(k) = Given(l)
  PROVE  Cardinality(Earlier(k)) < Cardinality(Earlier(l))
<1>1. /\ IsFiniteSet(Earlier(k)) /\ Cardinality(Earlier(k)) \in Nat
      /\ IsFiniteSet(Earlier(l)) /\ Cardinality(Earlier(l)) \in Nat
  BY SeenFinite, EarlierIsSeen
<1>2. k \notin Earlier(k) /\ Earlier(k) \cup {k} \in SUBSET Earlier(l)
  BY DEF Earlier
<1>3. Cardinality(Earlier(k) \cup {k}) = Cardinality(Earlier(k)) + 1
  BY <1>1, <1>2, OneMore, Zenon
<1>4. Cardinality(Earlier(k) \cup {k}) <= Cardinality(Earlier(l))
  BY <1>1, <1>2, FS_Subset
<1> QED
  BY <1>1, <1>3, <1>4

(* The suffix of a tunnel is a number Unambiguous speaks of. *)
LEMMA SuffixBounds ==
  ASSUME file \in Seq(TunnelConfig), NEW k \in DOMAIN file, Earlier(k) # {}
  PROVE  Cardinality(Earlier(k)) + 1 \in 2 .. Len(file)
<1>1. k \in 1 .. Len(file) /\ Len(file) \in Nat
  OBVIOUS
<1>2. Earlier(k) \in SUBSET (1 .. k - 1)
  BY DEF Earlier
<1>3. /\ IsFiniteSet(1 .. k - 1) /\ Cardinality(1 .. k - 1) \in Nat
      /\ Cardinality(1 .. k - 1) <= k - 1
  <2>1. \A b \in Int : IsFiniteSet(1 .. b) /\ Cardinality(1 .. b) = IF 1 > b THEN 0 ELSE b - 1 + 1
    BY FS_Interval
  <2> QED
    BY <1>1, <2>1, FS_CardinalityType
<1>4. IsFiniteSet(Earlier(k)) /\ Cardinality(Earlier(k)) <= Cardinality(1 .. k - 1)
  BY <1>2, <1>3, FS_Subset
<1>5. Cardinality(Earlier(k)) \in Nat /\ Cardinality(Earlier(k)) # 0
  BY <1>4, FS_CardinalityType, FS_EmptySet
<1> QED
  BY <1>1, <1>3, <1>4, <1>5

LEMMA NumberedIsInjective ==
  ASSUME file \in Seq(TunnelConfig), Unambiguous,
         NEW k \in DOMAIN file, NEW l \in DOMAIN file, Numbered(k) = Numbered(l)
  PROVE  k = l
<1>1. k \in Nat \ {0} /\ l \in Nat \ {0}
  OBVIOUS
<1>2. Given(k) \in Seq(Token) /\ Given(l) \in Seq(Token)
  BY GivenIsName
<1>3. Earlier(k) = {} <=> Earlier(l) = {}
  BY SuffixBounds, Zenon DEF Unambiguous, Numbered
<1>4. Given(k) = Given(l) /\ (Earlier(k) # {} => Cardinality(Earlier(k)) = Cardinality(Earlier(l)))
  <2>1. CASE Earlier(k) = {}
    BY <1>3, <2>1 DEF Numbered
  <2>2. CASE Earlier(k) # {}
    <3>1. Append(Given(k), Cardinality(Earlier(k)) + 1) = Append(Given(l), Cardinality(Earlier(l)) + 1)
      BY <1>3, <2>2, Zenon DEF Numbered
    <3>2. Cardinality(Earlier(k)) \in Nat /\ Cardinality(Earlier(l)) \in Nat
      BY <1>1, SeenFinite, EarlierIsSeen
    <3>3. Cardinality(Earlier(k)) + 1 \in Token /\ Cardinality(Earlier(l)) + 1 \in Token
      BY <3>2 DEF Token
    <3>4. Given(k) = Given(l) /\ Cardinality(Earlier(k)) + 1 = Cardinality(Earlier(l)) + 1
      BY <1>2, <3>1, <3>3, AppendInjective
    <3> QED
      BY <3>2, <3>4
  <2> QED
    BY <2>1, <2>2
<1>5. Cardinality(Earlier(k)) = Cardinality(Earlier(l))
  BY <1>3, <1>4, Zenon
<1>6. Cardinality(Earlier(k)) \in Nat
  BY <1>1, SeenFinite, EarlierIsSeen
<1> QED
  BY <1>1, <1>4, <1>5, <1>6, EarlierGrows

-----------------------------------------------------------------------------
(* If no name of the file is another one with a number behind it, every    *)
(* tunnel is the one its name leads to, in the table of NewManager and     *)
(* through GetTunnelByName (config.go:116): none replaces another.         *)
THEOREM TunnelsReachable == LoadSpec => []EachTunnelReachable
<1>1. LInv => EachTunnelReachable
  <2> SUFFICES ASSUME LInv, loadPC = "ready", Unambiguous, NEW k \in DOMAIN Tunnels
               PROVE  /\ table[Tunnels[k].Name] = k
                      /\ GetTunnelByName(Tunnels[k].Name) = k
    BY DEF EachTunnelReachable, EachHasItsName
  <2>1. /\ Tunnels = Loaded(Len(file) + 1) /\ file \in Seq(TunnelConfig)
        /\ Len(file) \in Nat /\ DOMAIN file = 1 .. Len(file)
    BY DEF LInv
  <2>2. DOMAIN Tunnels = DOMAIN file /\ \A l \in DOMAIN file : Tunnels[l].Name = Numbered(l)
    BY <2>1 DEF Loaded
  <2>3. {l \in DOMAIN Tunnels : Tunnels[l].Name = Tunnels[k].Name} = {k}
    BY <2>1, <2>2, NumberedIsInjective
  <2>4. FirstOf({k}) = k /\ LastOf({k}) = k
    BY <2>1, <2>2 DEF FirstOf, LastOf
  <2>5. Tunnels[k].Name \in NamesOf(Tunnels)
    BY DEF NamesOf
  <2>6. table[Tunnels[k].Name] = LastOf({l \in DOMAIN Tunnels : Tunnels[l].Name = Tunnels[k].Name})
    BY <2>5 DEF LInv
  <2> QED
    BY <2>3, <2>4, <2>6 DEF GetTunnelByName
<1> QED
  BY <1>1, LoadInvariant, PTL

-----------------------------------------------------------------------------
(* Hosts *)

LEMMA LastOfIsMember ==
  ASSUME NEW n \in Nat, NEW S \in SUBSET (1 .. n), S # {}
  PROVE  LastOf(S) \in S
<1>0. \A k \in S : n - k \in Nat /\ k \in Nat
  OBVIOUS
<1> DEFINE R == {n - k : k \in S}
<1>1. R \in SUBSET Nat /\ R # {}
  <2>1. ASSUME NEW r \in R PROVE r \in Nat
    <3>1. PICK k \in S : r = n - k
      OBVIOUS
    <3> QED
      BY <1>0, <3>1
  <2>2. PICK k \in S : TRUE
    BY Zenon
  <2>3. n - k \in R
    OBVIOUS
  <2> HIDE DEF R
  <2> QED
    BY <2>1, <2>3
<1>2. FirstOf(R) \in R /\ \A l \in R : FirstOf(R) <= l
  BY <1>1, FirstOfIsMember, Zenon
<1>3. PICK k \in S : FirstOf(R) = n - k
  BY <1>2
<1>4. ASSUME NEW l \in S PROVE l <= k
  <2>1. n - l \in R
    OBVIOUS
  <2>2. n - k <= n - l
    BY <1>2, <1>3, <2>1, Zenon
  <2> QED
    BY <2>2
<1> QED
  BY <1>4, Zenon DEF LastOf

(* A string is what is before a token, the token, and what is after it. *)
LEMMA CutAndJoined ==
  ASSUME NEW S, NEW s \in Seq(S), NEW k \in 1 .. Len(s)
  PROVE  (Before(s, k) \o <<s[k]>>) \o After(s, k) = s
<1>1. Len(s) \in Nat /\ k \in Nat /\ k <= Len(s)
  OBVIOUS
<1>2. SubSeq(s, 1, k) = SubSeq(s, 1, k - 1) \o <<s[k]>>
  BY <1>1, SubSeqRecursiveSecond
<1>3. SubSeq(s, 1, k) \o SubSeq(s, k + 1, Len(s)) = SubSeq(s, 1, Len(s))
  BY <1>1, ConcatAdjacentSubSeq
<1>4. SubSeq(s, 1, Len(s)) = s
  BY SubSeqFull
<1> QED
  BY <1>2, <1>3, <1>4, Zenon DEF Before, After

LEMMA OccurrencesAre ==
  ASSUME NEW S, NEW s \in Seq(S), NEW t
  PROVE  /\ Occurrences(t, s) \in SUBSET (1 .. Len(s))
         /\ Occurrences(t, s) \in SUBSET Nat
         /\ \A k \in Occurrences(t, s) : s[k] = t
BY DEF Occurrences

LEMMA RestIsString ==
  ASSUME NEW h \in Seq(Token)
  PROVE  SplitUser(h)[2] \in Seq(Token)
<1> DEFINE at == Occurrences(At, h)
<1>1. CASE at = {}
  BY <1>1 DEF SplitUser
<1>2. CASE at # {}
  <2>1. FirstOf(at) \in 1 .. Len(h) /\ Len(h) \in Nat
    BY <1>2, OccurrencesAre, FirstOfIsMember
  <2>2. \A l \in FirstOf(at) + 1 .. Len(h) : h[l] \in Token
    BY <2>1
  <2>3. SubSeq(h, FirstOf(at) + 1, Len(h)) \in Seq(Token)
    BY <2>1, <2>2, SubSeqProperties
  <2> QED
    BY <1>2, <2>3 DEF SplitUser, After
<1> QED
  BY <1>1, <1>2

(* The two parsers agree on every host: one cuts the user off and looks    *)
(* for a port, the other takes host and port apart at the last ":".        *)
LEMMA HostsAgree ==
  ASSUME NEW h \in Seq(Token)
  PROVE  /\ SplitUser(h)[1] = Shown(h).user
         /\ WithPort(SplitUser(h)[2]) = Shown(h).hostname \o <<Colon>> \o Shown(h).port
<1> DEFINE rest == SplitUser(h)[2]
           colon == Occurrences(Colon, rest)
<1>1. rest \in Seq(Token)
  BY RestIsString
<1>2. /\ Shown(h).user = SplitUser(h)[1]
      /\ colon = {} => Shown(h).hostname = rest /\ Shown(h).port = <<DefaultPort>>
      /\ colon # {} => /\ Shown(h).hostname = Before(rest, LastOf(colon))
                       /\ Shown(h).port = After(rest, LastOf(colon))
  <2> DEFINE at == Occurrences(At, h)
  <2>1. CASE at = {}
    BY <2>1, Zenon DEF Shown, SplitUser
  <2>2. CASE at # {}
    BY <2>2, Zenon DEF Shown, SplitUser
  <2> QED
    BY <2>1, <2>2
<1> SUFFICES WithPort(rest) = Shown(h).hostname \o <<Colon>> \o Shown(h).port
  BY <1>2
<1> HIDE DEF rest
<1>3. CASE colon = {}
  <2>1. WithPort(rest) = rest \o <<Colon>> \o <<DefaultPort>>
    BY <1>3, Zenon DEF WithPort
  <2> HIDE DEF colon
  <2> QED
    BY <1>2, <1>3, <2>1, Zenon
<1>4. CASE colon # {}
  <2>1. Len(rest) \in Nat /\ colon \in SUBSET (1 .. Len(rest))
    BY <1>1, OccurrencesAre
  <2>2. LastOf(colon) \in colon
    BY <1>4, <2>1, LastOfIsMember, Zenon
  <2>3. LastOf(colon) \in 1 .. Len(rest) /\ rest[LastOf(colon)] = Colon
    BY <1>1, <2>1, <2>2, OccurrencesAre
  <2>4. (Before(rest, LastOf(colon)) \o <<rest[LastOf(colon)]>>) \o After(rest, LastOf(colon)) = rest
    BY <1>1, <2>3, CutAndJoined, Zenon
  <2>5. WithPort(rest) = rest
    BY <1>4 DEF WithPort
  <2> HIDE DEF colon
  <2> QED
    BY <1>2, <1>4, <2>3, <2>4, <2>5, Zenon
<1> HIDE DEF colon
<1> QED
  BY <1>3, <1>4, Zenon

-----------------------------------------------------------------------------
(* The sorted slice of GetAvailableAuthMethods *)

IsSorted(s) == \A k, l \in DOMAIN s : k < l => Priority[s[k]] < Priority[s[l]]

LEMMA Priorities ==
  /\ Priority["agent"] < Priority["publickey"] /\ Priority["publickey"] < Priority["password"]
  /\ Priority["agent"] < Priority["password"]
  /\ \A m \in Authenticators : Priority[m] \in 1 .. 3
BY DEF Priority, Authenticators

LEMMA SortedPair ==
  ASSUME NEW a, NEW b, a # b, Priority[a] < Priority[b]
  PROVE  /\ \E s \in [1 .. Cardinality({a, b}) -> {a, b}] : IsSorted(s)
         /\ IsFiniteSet({a, b}) /\ Cardinality({a, b}) = 2
<1>1. IsFiniteSet({a, b}) /\ Cardinality({a, b}) = 2
  <2>1. IsFiniteSet({a}) /\ Cardinality({a}) = 1
    BY FS_Singleton, Zenon
  <2>2. {a, b} = {a} \cup {b} /\ b \notin {a}
    BY Zenon
  <2> QED
    BY <2>1, <2>2, OneMore
<1> DEFINE s == [k \in 1 .. 2 |-> IF k = 1 THEN a ELSE b]
<1>2. s \in [1 .. 2 -> {a, b}]
  OBVIOUS
<1>3. IsSorted(s)
  BY DEF IsSorted
<1> HIDE DEF s
<1> QED
  BY <1>1, <1>2, <1>3

LEMMA SortedTriple ==
  ASSUME NEW a, NEW b, NEW c, a # b, b # c, a # c,
         Priority[a] < Priority[b], Priority[b] < Priority[c], Priority[a] < Priority[c]
  PROVE  /\ \E s \in [1 .. Cardinality({a, b, c}) -> {a, b, c}] : IsSorted(s)
         /\ Cardinality({a, b, c}) = 3
<1>1. Cardinality({a, b, c}) = 3
  <2>1. IsFiniteSet({a, b}) /\ Cardinality({a, b}) = 2
    BY SortedPair
  <2>2. {a, b, c} = {a, b} \cup {c} /\ c \notin {a, b}
    BY Zenon
  <2> QED
    BY <2>1, <2>2, OneMore
<1> DEFINE s == [k \in 1 .. 3 |-> IF k = 1 THEN a ELSE IF k = 2 THEN b ELSE c]
<1>2. s \in [1 .. 3 -> {a, b, c}]
  OBVIOUS
<1>3. IsSorted(s)
  BY DEF IsSorted
<1> HIDE DEF s
<1> QED
  BY <1>1, <1>2, <1>3

(* CHOOSE in ByPriority has something to choose. *)
LEMMA SortedExists ==
  ASSUME NEW S \in SUBSET Authenticators, "password" \in S
  PROVE  /\ \E s \in [1 .. Cardinality(S) -> S] : IsSorted(s)
         /\ Cardinality(S) \in 1 .. 3
<1>1. CASE "agent" \in S /\ "publickey" \in S
  <2>1. S = {"agent", "publickey", "password"}
    BY <1>1, Zenon DEF Authenticators
  <2>2. (\E s \in [1 .. Cardinality(S) -> S] : IsSorted(s)) /\ Cardinality(S) = 3
    BY <2>1, Priorities, SortedTriple, Zenon
  <2> QED
    BY <2>2
<1>2. CASE "agent" \in S /\ "publickey" \notin S
  <2>1. S = {"agent", "password"}
    BY <1>2, Zenon DEF Authenticators
  <2>2. (\E s \in [1 .. Cardinality(S) -> S] : IsSorted(s)) /\ Cardinality(S) = 2
    BY <2>1, Priorities, SortedPair, Zenon
  <2> QED
    BY <2>2
<1>3. CASE "agent" \notin S /\ "publickey" \in S
  <2>1. S = {"publickey", "password"}
    BY <1>3, Zenon DEF Authenticators
  <2>2. (\E s \in [1 .. Cardinality(S) -> S] : IsSorted(s)) /\ Cardinality(S) = 2
    BY <2>1, Priorities, SortedPair, Zenon
  <2> QED
    BY <2>2
<1>4. CASE "agent" \notin S /\ "publickey" \notin S
  <2>1. S = {"password"}
    BY <1>4, Zenon DEF Authenticators
  <2>2. Cardinality(S) = 1
    BY <2>1, FS_Singleton, Zenon
  <2> DEFINE s == [k \in 1 .. 1 |-> "password"]
  <2>3. s \in [1 .. 1 -> S] /\ IsSorted(s)
    BY <2>1 DEF IsSorted
  <2> HIDE DEF s
  <2> QED
    BY <2>2, <2>3
<1> QED
  BY <1>1, <1>2, <1>3, <1>4

(* Keys come before passwords. *)
KeysFirst(s) ==
  \A k, l \in DOMAIN s : s[k] = "password" /\ Kind(s[l]) = "publickey" => l < k

LEMMA ByPriorityFacts ==
  ASSUME NEW S \in SUBSET Authenticators, "password" \in S
  PROVE  /\ ByPriority(S) \in Seq(Authenticators)
         /\ ByPriority(S) # <<>>
         /\ KeysFirst(ByPriority(S))
<1> DEFINE s == ByPriority(S)
           n == Cardinality(S)
<1>1. s \in [1 .. n -> S] /\ IsSorted(s)
  BY SortedExists, Zenon DEF ByPriority, IsSorted
<1>2. n \in 1 .. 3
  BY SortedExists, Zenon
<1> HIDE DEF s, n
<1>3. s \in [1 .. n -> Authenticators] /\ n \in Nat
  BY <1>1, <1>2
<1>4. s \in Seq(Authenticators) /\ DOMAIN s = 1 .. n
  BY <1>3
<1>5. s # <<>>
  BY <1>2, <1>4
<1>6. ASSUME NEW k \in DOMAIN s, NEW l \in DOMAIN s,
             s[k] = "password", Kind(s[l]) = "publickey"
      PROVE  l < k
  <2>1. k \in Nat /\ l \in Nat /\ k # l
    BY <1>2, <1>4, <1>6 DEF Kind
  <2>2. s[l] \in Authenticators \ {"password"}
    BY <1>3, <1>4, <1>6 DEF Kind
  <2>3. Priority[s[l]] < Priority["password"] /\ Priority[s[l]] \in Nat /\ Priority["password"] \in Nat
    BY <2>2, Priorities DEF Authenticators
  <2>4. ~(k < l)
    BY <1>1, <1>6, <2>3 DEF IsSorted
  <2> QED
    BY <2>1, <2>4
<1> QED
  BY <1>4, <1>5, <1>6, Zenon DEF KeysFirst, s

-----------------------------------------------------------------------------
(* The dialling *)

(* Of the methods of one kind only the first is ever tried: with an agent, *)
(* no key file is.                                                         *)
IsFirstOfKind(m) ==
  \E l \in DOMAIN methods :
    m = methods[l] /\ \A j \in 1 .. l - 1 : Kind(methods[j]) # Kind(m)

FirstOfKindOnly == \A k \in DOMAIN attempted : IsFirstOfKind(attempted[k])

(* Whatever collected the methods, a password is behind the keys in them:  *)
(* that makes the first candidate a key as long as there is one.           *)
MethodsInv ==
  /\ methods \in Seq(Authenticators \cup KeyFile)
  /\ KeysFirst(methods)
  /\ dialPC \in {"idle", "agent", "identity"} => \A k \in DOMAIN methods : methods[k] # "password"

AttemptsInv ==
  /\ attempted \in Seq(Authenticators \cup KeyFile)
  /\ dialPC \notin {"auth", "connected", "broken", "refused"} => attempted = <<>>
  /\ FirstOfKindOnly

AInv ==
  /\ dialPC \in DialPC
  /\ identity \in Seq(KeyFile)
  /\ MethodsInv
  /\ AttemptsInv
  /\ dialPC = "byName" => method \notin {"", "auto"}
  /\ AutoAlwaysDials
  /\ HostShownIsDialled

LEMMA DialInitial == DialInit => LInv /\ AInv
<1> SUFFICES ASSUME DialInit PROVE LInv /\ AInv
  OBVIOUS
<1>1. LInv
  BY LoadInitial DEF DialInit
<1>2. dialPC = "idle" /\ methods = <<>> /\ attempted = <<>> /\ identity = <<>>
  BY DEF DialInit
<1> QED
  BY <1>1, <1>2 DEF AInv, MethodsInv, AttemptsInv, DialPC, KeysFirst, FirstOfKindOnly,
                    AutoAlwaysDials, HostShownIsDialled

(* The invariant of the loading of the configuration holds as long as a    *)
(* step of the dialling leaves the configuration alone.                    *)
LEMMA DialKeepsLoad ==
  ASSUME LInv, [DialNext]_<<loadVars, dialVars>>
  PROVE  LInv' /\ [LoadNext]_loadVars
<1>1. [LoadNext]_loadVars
  BY Zenon DEF DialNext, ParseHost, TryAgent, TryIdentity, IdentityDone, AvailableMethods, MethodByName,
         Handshake, Attempt, GiveUp, Collect
<1> QED
  BY <1>1, ReadStep, DeriveStep, SuffixStep, ReturnStep, ManagerStep, LoadStutters DEF LoadNext

LEMMA HostIsString ==
  ASSUME LInv, loadPC = "ready", NEW name \in DOMAIN table
  PROVE  Tunnels[table[name]].Host \in Seq(Token)
<1> DEFINE same == {k \in DOMAIN Tunnels : Tunnels[k].Name = name}
<1>1. /\ Tunnels = Loaded(Len(file) + 1) /\ file \in Seq(TunnelConfig)
      /\ Len(file) \in Nat /\ DOMAIN file = 1 .. Len(file)
  BY DEF LInv
<1>2. DOMAIN Tunnels = DOMAIN file /\ \A k \in DOMAIN file : Tunnels[k].Host = file[k].Host
  BY <1>1 DEF Loaded
<1>3. name \in NamesOf(Tunnels) /\ table[name] = LastOf(same)
  BY DEF LInv
<1>4. same \in SUBSET (1 .. Len(file)) /\ same # {}
  BY <1>1, <1>2, <1>3 DEF NamesOf
<1> HIDE DEF same
<1>5. LastOf(same) \in DOMAIN file
  <2>1. LastOf(same) \in same
    BY <1>1, <1>4, LastOfIsMember, Zenon
  <2> QED
    BY <1>1, <1>4, <2>1, Zenon
<1>6. file[LastOf(same)] \in TunnelConfig
  BY <1>1, <1>5
<1> QED
  BY <1>2, <1>3, <1>5, <1>6 DEF TunnelConfig

(* Steps that leave the methods, the attempts or the host alone. *)
LEMMA AppendedKey ==
  ASSUME MethodsInv, \A k \in DOMAIN methods : methods[k] # "password",
         NEW m \in (Authenticators \cup KeyFile) \ {"password"}, methods' \in GetAuthMethod(m)
  PROVE  /\ methods' \in Seq(Authenticators \cup KeyFile)
         /\ \A k \in DOMAIN methods' : methods'[k] # "password"
<1>1. CASE methods' = methods
  BY <1>1 DEF MethodsInv
<1>2. CASE methods' = Append(methods, m)
  BY <1>2 DEF MethodsInv
<1> QED
  BY <1>1, <1>2 DEF GetAuthMethod

LEMMA NoPasswordYet ==
  ASSUME NEW s, \A k \in DOMAIN s : s[k] # "password"
  PROVE  KeysFirst(s)
BY DEF KeysFirst

LEMMA NothingTried ==
  ASSUME attempted' = <<>>
  PROVE  AttemptsInv'
BY DEF AttemptsInv, FirstOfKindOnly

LEMMA AttemptsKept ==
  ASSUME FirstOfKindOnly, methods' = methods, attempted' = attempted
  PROVE  FirstOfKindOnly'
<1>1. ASSUME NEW m, IsFirstOfKind(m) PROVE IsFirstOfKind(m)'
  BY <1>1 DEF IsFirstOfKind
<1> QED
  BY <1>1, Zenon DEF FirstOfKindOnly

LEMMA ParseHostStep ==
  ASSUME LInv, AInv, ParseHost
  PROVE  AInv'
<1>1. /\ loadPC = "ready" /\ dialPC = "idle" /\ dialPC' \in {"available", "agent"}
      /\ methods' = methods /\ attempted' = attempted /\ method' = method
  BY DEF ParseHost, sshVars
<1>2. PICK name \in DOMAIN table \ {<<>>} :
        /\ host' = Tunnels[table[name]].Host
        /\ \/ /\ IsExplicit(host')
              /\ user' = SplitUser(host')[1]
              /\ address' = WithPort(SplitUser(host')[2])
              /\ identity' = <<>>
           \/ /\ ~IsExplicit(host')
              /\ \E r \in Resolve(host') : identity' = r.identity
  BY Zenon DEF ParseHost
<1>3. host' \in Seq(Token)
  BY <1>1, <1>2, HostIsString
<1>4. HostShownIsDialled'
  <2>1. ASSUME IsExplicit(host)'
        PROVE  /\ user' = Shown(host').user
               /\ address' = Shown(host').hostname \o <<Colon>> \o Shown(host').port
    <3>1. IsExplicit(host')
      BY <2>1, Zenon DEF IsExplicit
    <3>2. user' = SplitUser(host')[1] /\ address' = WithPort(SplitUser(host')[2])
      BY <1>2, <3>1
    <3> QED
      BY <1>3, <3>2, HostsAgree, Zenon
  <2> QED
    BY <2>1, Zenon DEF HostShownIsDialled
<1>5. identity' \in Seq(KeyFile)
  <2>1. CASE identity' = <<>>
    BY <2>1
  <2>2. CASE \E r \in Resolve(host') : identity' = r.identity
    BY <2>2, KeyFilesAssumption DEF Resolve
  <2> QED
    BY <1>2, <2>1, <2>2
<1>6. MethodsInv'
  BY <1>1 DEF AInv, MethodsInv
<1>7. AttemptsInv'
  BY <1>1, NothingTried DEF AInv, AttemptsInv
<1> QED
  BY <1>1, <1>4, <1>5, <1>6, <1>7 DEF AInv, AutoAlwaysDials, DialPC

(* The other steps of the dialling keep the host and what it was cut into. *)
LEMMA HostKept ==
  ASSUME HostShownIsDialled, dialPC # "idle", UNCHANGED <<host, address, user>>
  PROVE  HostShownIsDialled'
BY Zenon DEF HostShownIsDialled

LEMMA CollectStep ==
  ASSUME AInv, TryAgent \/ TryIdentity
  PROVE  AInv'
<1>1. /\ dialPC \in {"agent", "identity"} /\ dialPC' = "identity"
      /\ attempted' = attempted /\ method' = method /\ UNCHANGED <<host, address, user>>
  BY DEF TryAgent, TryIdentity, Collect, sshVars
<1>2. PICK m \in (Authenticators \cup KeyFile) \ {"password"} : methods' \in GetAuthMethod(m)
  <2>1. CASE TryAgent
    BY <2>1 DEF TryAgent, Collect, Authenticators
  <2>2. CASE TryIdentity
    <3>1. Head(identity) \in KeyFile
      BY <2>2 DEF AInv, TryIdentity
    <3>2. Head(identity) # "password"
      BY <3>1, KeyFilesAssumption DEF Authenticators
    <3> QED
      BY <2>2, <3>1, <3>2 DEF TryIdentity
  <2> QED
    BY <2>1, <2>2
<1>3. identity' \in Seq(KeyFile)
  <2>1. CASE TryAgent
    BY <2>1 DEF AInv, TryAgent, Collect
  <2>2. CASE TryIdentity
    <3>1. identity \in Seq(KeyFile) /\ identity # <<>> /\ identity' = Tail(identity)
      BY <2>2 DEF AInv, TryIdentity
    <3> QED
      BY <3>1
  <2> QED
    BY <2>1, <2>2
<1>4. MethodsInv'
  <2>1. /\ methods' \in Seq(Authenticators \cup KeyFile)
        /\ \A k \in DOMAIN methods' : methods'[k] # "password"
    BY <1>1, <1>2, AppendedKey DEF AInv, MethodsInv
  <2> QED
    BY <2>1, NoPasswordYet DEF MethodsInv
<1>5. AttemptsInv'
  BY <1>1, NothingTried DEF AInv, AttemptsInv
<1>6. HostShownIsDialled'
  BY <1>1, HostKept DEF AInv
<1> QED
  BY <1>1, <1>3, <1>4, <1>5, <1>6 DEF AInv, AutoAlwaysDials, DialPC

LEMMA IdentityDoneStep ==
  ASSUME AInv, IdentityDone
  PROVE  AInv'
<1>1. /\ dialPC = "identity" /\ dialPC' \in {"dial", "available"}
      /\ UNCHANGED <<identity, methods, attempted, method>> /\ UNCHANGED <<host, address, user>>
  BY DEF IdentityDone, sshVars
<1>2. MethodsInv'
  BY <1>1 DEF AInv, MethodsInv
<1>3. AttemptsInv'
  BY <1>1, NothingTried DEF AInv, AttemptsInv
<1>4. HostShownIsDialled'
  BY <1>1, HostKept DEF AInv
<1> QED
  BY <1>1, <1>2, <1>3, <1>4 DEF AInv, AutoAlwaysDials, DialPC

LEMMA AvailableStep ==
  ASSUME AInv, AvailableMethods
  PROVE  AInv'
<1>1. /\ dialPC = "available" /\ UNCHANGED <<identity, attempted, method>>
      /\ UNCHANGED <<host, address, user>>
  BY DEF AvailableMethods, sshVars
<1>2. PICK usable \in SUBSET Authenticators : "password" \in usable /\ methods' = ByPriority(usable)
  BY DEF AvailableMethods, AlwaysUsable
<1>3. methods' \in Seq(Authenticators) /\ methods' # <<>> /\ KeysFirst(methods')
  BY <1>2, ByPriorityFacts
<1>4. /\ dialPC' \in {"dial", "byName"}
      /\ dialPC' = "byName" => method \notin {"", "auto"}
  BY <1>3 DEF AvailableMethods
<1>5. MethodsInv'
  <2>1. methods' \in Seq(Authenticators \cup KeyFile)
    BY <1>3, SeqMonotonic
  <2> QED
    BY <1>3, <1>4, <2>1, Zenon DEF MethodsInv
<1>6. AttemptsInv'
  BY <1>1, <1>4, NothingTried DEF AInv, AttemptsInv
<1>7. HostShownIsDialled'
  BY <1>1, HostKept DEF AInv
<1> QED
  BY <1>1, <1>4, <1>5, <1>6, <1>7 DEF AInv, AutoAlwaysDials, DialPC

LEMMA ByNameStep ==
  ASSUME AInv, MethodByName
  PROVE  AInv'
<1>1. /\ dialPC = "byName" /\ dialPC' \in {"dial", "authFailed"}
      /\ UNCHANGED <<identity, attempted, method>> /\ UNCHANGED <<host, address, user>>
  BY DEF MethodByName, sshVars
<1>2. MethodsInv'
  <2>1. CASE methods' = methods
    BY <1>1, <2>1 DEF AInv, MethodsInv
  <2>2. CASE method \in Authenticators /\ methods' = <<method>>
    BY <1>1, <2>2 DEF MethodsInv, KeysFirst, Kind
  <2> QED
    BY <2>1, <2>2 DEF MethodByName
<1>3. AttemptsInv'
  BY <1>1, NothingTried DEF AInv, AttemptsInv
<1>4. HostShownIsDialled'
  BY <1>1, HostKept DEF AInv
<1> QED
  BY <1>1, <1>2, <1>3, <1>4 DEF AInv, AutoAlwaysDials, DialPC

(* The next method to try: the first of its kind, and a password only when *)
(* no key is left.                                                         *)
LEMMA NextCandidate ==
  ASSUME MethodsInv, Candidates # {}
  PROVE  /\ FirstOf(Candidates) \in DOMAIN methods
         /\ methods[FirstOf(Candidates)] \in Authenticators \cup KeyFile
         /\ \A j \in 1 .. FirstOf(Candidates) - 1 :
              Kind(methods[j]) # Kind(methods[FirstOf(Candidates)])
         /\ /\ methods[FirstOf(Candidates)] = "password"
            /\ \E l \in DOMAIN methods : Kind(methods[l]) = "publickey"
            => "publickey" \notin offered \ tried
<1> DEFINE c == FirstOf(Candidates)
<1>1. DOMAIN methods = 1 .. Len(methods) /\ Len(methods) \in Nat
  BY DEF MethodsInv
<1>2. Candidates \in SUBSET Nat
  BY <1>1 DEF Candidates
<1>3. c \in Candidates /\ \A l \in Candidates : c <= l
  BY <1>2, FirstOfIsMember
<1> HIDE DEF c
<1>4. /\ c \in DOMAIN methods /\ methods[c] \in Authenticators \cup KeyFile
      /\ Kind(methods[c]) \in offered \ tried
  BY <1>3 DEF Candidates, MethodsInv
<1>5. ASSUME NEW j \in 1 .. c - 1
      PROVE  j \in DOMAIN methods /\ j \notin Candidates
  BY <1>1, <1>3, <1>4
<1>6. ASSUME NEW j \in 1 .. c - 1
      PROVE  Kind(methods[j]) # Kind(methods[c])
  BY <1>4, <1>5, Zenon DEF Candidates
<1>7. ASSUME methods[c] = "password", NEW l \in DOMAIN methods, Kind(methods[l]) = "publickey"
      PROVE  "publickey" \notin offered \ tried
  <2>1. l < c
    BY <1>4, <1>7 DEF MethodsInv, KeysFirst
  <2>2. l \notin Candidates
    BY <1>1, <1>3, <1>4, <2>1
  <2> QED
    BY <1>7, <2>2 DEF Candidates
<1> QED
  BY <1>4, <1>6, <1>7, Zenon DEF c

LEMMA HandshakeStep ==
  ASSUME AInv, Handshake
  PROVE  AInv'
<1>1. /\ dialPC = "dial" /\ dialPC' \in {"auth", "connected", "broken"}
      /\ UNCHANGED <<identity, methods, attempted, method>> /\ UNCHANGED <<host, address, user>>
  BY DEF Handshake
<1>2. MethodsInv'
  BY <1>1 DEF AInv, MethodsInv
<1>3. AttemptsInv'
  BY <1>1, NothingTried DEF AInv, AttemptsInv
<1>4. HostShownIsDialled'
  BY <1>1, HostKept DEF AInv
<1> QED
  BY <1>1, <1>2, <1>3, <1>4 DEF AInv, AutoAlwaysDials, DialPC

LEMMA AttemptStep ==
  ASSUME AInv, Attempt
  PROVE  AInv'
<1> DEFINE c == FirstOf(Candidates)
           m == methods[c]
           n == Len(attempted)
<1>1. /\ dialPC = "auth" /\ dialPC' \in {"auth", "connected", "broken"}
      /\ Candidates # {} /\ attempted' = Append(attempted, m)
      /\ UNCHANGED <<identity, methods, method>> /\ UNCHANGED <<host, address, user>>
  BY DEF Attempt
<1>2. HostShownIsDialled'
  BY <1>1, HostKept DEF AInv
<1>3. MethodsInv'
  BY <1>1 DEF AInv, MethodsInv
<1>4. /\ c \in DOMAIN methods /\ m \in Authenticators \cup KeyFile
      /\ \A j \in 1 .. c - 1 : Kind(methods[j]) # Kind(methods[c])
  BY <1>1, NextCandidate, Zenon DEF AInv
<1>5. attempted \in Seq(Authenticators \cup KeyFile)
  BY DEF AInv, AttemptsInv
<1> HIDE DEF m
<1>6. /\ attempted' \in Seq(Authenticators \cup KeyFile)
      /\ n \in Nat /\ DOMAIN attempted = 1 .. n /\ DOMAIN attempted' = 1 .. n + 1
      /\ attempted'[n + 1] = m /\ \A k \in 1 .. n : attempted'[k] = attempted[k]
  BY <1>1, <1>4, <1>5
<1> HIDE DEF n, c
<1>7. FirstOfKindOnly'
  <2>1. ASSUME NEW o, IsFirstOfKind(o) PROVE IsFirstOfKind(o)'
    BY <1>1, <2>1 DEF IsFirstOfKind
  <2>2. IsFirstOfKind(m)
    BY <1>4, Zenon DEF IsFirstOfKind, m
  <2>3. ASSUME NEW k \in DOMAIN attempted'
        PROVE  IsFirstOfKind(attempted'[k])
    <3>1. k \in 1 .. n \/ k = n + 1
      BY <1>6, <2>3
    <3>2. CASE k \in 1 .. n
      BY <1>6, <3>2, Zenon DEF AInv, AttemptsInv, FirstOfKindOnly
    <3>3. CASE k = n + 1
      BY <1>6, <2>2, <3>3, Zenon
    <3> QED
      BY <3>1, <3>2, <3>3, Zenon
  <2> QED
    BY <2>1, <2>3, Zenon DEF FirstOfKindOnly
<1>8. AttemptsInv'
  BY <1>1, <1>6, <1>7 DEF AttemptsInv
<1> QED
  BY <1>1, <1>2, <1>3, <1>8 DEF AInv, AutoAlwaysDials, DialPC

LEMMA GiveUpStep ==
  ASSUME AInv, GiveUp
  PROVE  AInv'
<1>1. /\ dialPC = "auth" /\ dialPC' = "refused"
      /\ UNCHANGED <<identity, methods, attempted, method>> /\ UNCHANGED <<host, address, user>>
  BY DEF GiveUp, sshVars
<1>2. MethodsInv'
  BY <1>1 DEF AInv, MethodsInv
<1>3. AttemptsInv'
  BY <1>1, AttemptsKept DEF AInv, AttemptsInv
<1>4. HostShownIsDialled'
  BY <1>1, HostKept DEF AInv
<1> QED
  BY <1>1, <1>2, <1>3, <1>4 DEF AInv, AutoAlwaysDials, DialPC

LEMMA DialStutters ==
  ASSUME AInv, UNCHANGED dialVars
  PROVE  AInv'
<1>1. MethodsInv'
  BY DEF AInv, MethodsInv, dialVars
<1>2. AttemptsInv'
  <2>1. methods' = methods /\ attempted' = attempted /\ dialPC' = dialPC
    BY DEF dialVars
  <2> QED
    BY <2>1, AttemptsKept DEF AInv, AttemptsInv
<1>3. HostShownIsDialled'
  BY Zenon DEF AInv, HostShownIsDialled, dialVars
<1> QED
  BY <1>1, <1>2, <1>3 DEF AInv, AutoAlwaysDials, dialVars

LEMMA DialInvariant == DialSpec => [](LInv /\ AInv)
<1>1. LInv /\ AInv /\ [DialNext]_<<loadVars, dialVars>> => LInv' /\ AInv'
  <2> SUFFICES ASSUME LInv, AInv, [DialNext]_<<loadVars, dialVars>> PROVE AInv'
    BY DialKeepsLoad
  <2>1. CASE LoadNext /\ UNCHANGED dialVars
    BY <2>1, DialStutters
  <2>2. CASE ParseHost
    BY <2>2, ParseHostStep
  <2>3. CASE TryAgent \/ TryIdentity
    BY <2>3, CollectStep
  <2>4. CASE IdentityDone
    BY <2>4, IdentityDoneStep
  <2>5. CASE AvailableMethods
    BY <2>5, AvailableStep
  <2>6. CASE MethodByName
    BY <2>6, ByNameStep
  <2>7. CASE Handshake
    BY <2>7, HandshakeStep
  <2>8. CASE Attempt
    BY <2>8, AttemptStep
  <2>9. CASE GiveUp
    BY <2>9, GiveUpStep
  <2>10. CASE UNCHANGED <<loadVars, dialVars>>
    BY <2>10, DialStutters
  <2> QED
    BY <2>1, <2>2, <2>3, <2>4, <2>5, <2>6, <2>7, <2>8, <2>9, <2>10, Zenon DEF DialNext
<1> QED
  BY <1>1, DialInitial, PTL DEF DialSpec

(* parseHost of the daemon (handlers.go:177) and that of the details panel *)
(* (details.go:147) agree on every host with an "@" or a ":", of any       *)
(* length and with any number of either: what is shown is dialled.         *)
THEOREM HostIsDialled == DialSpec => []HostShownIsDialled
BY DialInvariant, PTL DEF AInv

(* password.go:22: for any key files, any agent, any configured method and *)
(* any server, which may offer other kinds after each attempt, a password  *)
(* is tried only when no key was set up, a key was refused or the server   *)
(* takes no keys.                                                          *)
THEOREM PasswordLast == DialSpec => PasswordIsLast
<1> DEFINE Asked ==
      /\ attempted' # attempted /\ attempted'[Len(attempted')] = "password"
      /\ \E k \in DOMAIN methods : Kind(methods[k]) = "publickey"
           Allowed == "publickey" \in tried \/ "publickey" \notin offered
<1>1. ASSUME AInv, [DialNext]_<<loadVars, dialVars>>, Asked PROVE Allowed
  <2>1. Attempt
    BY <1>1, Zenon DEF DialNext, ParseHost, TryAgent, TryIdentity, IdentityDone, AvailableMethods,
           MethodByName, Handshake, GiveUp, Collect, sshVars, dialVars
  <2> DEFINE m == methods[FirstOf(Candidates)]
  <2>2. /\ Candidates # {} /\ attempted' = Append(attempted, m)
        /\ attempted \in Seq(Authenticators \cup KeyFile)
    BY <1>1, <2>1 DEF Attempt, AInv, AttemptsInv
  <2>3. m \in Authenticators \cup KeyFile
    BY <1>1, <2>2, NextCandidate DEF AInv
  <2> HIDE DEF m
  <2>4. attempted'[Len(attempted')] = m
    BY <2>2, <2>3
  <2>5. m = "password"
    BY <1>1, <2>4, Zenon
  <2> QED
    BY <1>1, <2>2, <2>5, NextCandidate, Zenon DEF AInv, m
<1>2. AInv /\ [DialNext]_<<loadVars, dialVars>> => [Asked => Allowed]_dialVars
  BY <1>1
<1> QED
  BY <1>2, DialInvariant, PTL DEF DialSpec, PasswordIsLast

(* auth.go:40, 61: with "auto" a start never fails for want of a method,   *)
(* whatever happens to the agent and the keys meanwhile.                   *)
THEOREM AutoDials == DialSpec => []AutoAlwaysDials
<1>1. AInv => AutoAlwaysDials
  BY DEF AInv
<1> QED
  BY <1>1, DialInvariant, PTL

(* tunnel.go:37, ssh.Dial: whatever the server offers and however often it *)
(* asks for more, of the keys that were set up only the first is ever      *)
(* tried; a key file behind the agent never is.  This is why AutoTriesEach *)
(* is refuted, and that it is so of every server.                          *)
THEOREM FirstKeyOnly == DialSpec => []FirstOfKindOnly
<1>1. AInv => FirstOfKindOnly
  BY DEF AInv, AttemptsInv
<1> QED
  BY <1>1, DialInvariant, PTL

(* What is proved of the loading of the configuration holds of the whole:  *)
(* nothing that a dialling does changes the configuration.                 *)
THEOREM DialImplementsLoad == DialSpec => LoadSpec
<1>1. [DialNext]_<<loadVars, dialVars>> => [LoadNext]_loadVars
  BY Zenon DEF DialNext, ParseHost, TryAgent, TryIdentity, IdentityDone, AvailableMethods, MethodByName,
         Handshake, Attempt, GiveUp, Collect
<1>2. DialInit => LoadInit
  BY DEF DialInit
<1> QED
  BY <1>1, <1>2, PTL DEF DialSpec, LoadSpec
=============================================================================
