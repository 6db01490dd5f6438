----------------------------- MODULE ConfigLoad -----------------------------
(***************************************************************************)
(* internal/config/config.go: Load, which reads the configuration file and *)
(* gives every tunnel of it a name, and the two ways a name is looked up   *)
(* afterwards: the table of tunnel.NewManager and GetTunnelByName.         *)
(*                                                                         *)
(* A string is a sequence of tokens: pieces of text, "@", ":" and, for a   *)
(* "-2" at the end of a name, the number 2.  Two strings are equal exactly *)
(* when their sequences are.  Of a tunnel, the name and the host are kept. *)
(***************************************************************************)
EXTENDS Naturals, Sequences, FiniteSets

CONSTANTS
  Text,   \* pieces of text of a name or a host
  At,     \* "@"
  Colon,  \* ":"
  Files   \* the contents a configuration file may have

Token == Text \cup {At, Colon} \cup Nat

TunnelConfig == [Name : Seq(Token), Host : Seq(Token)]

ASSUME FilesAssumption == Files \subseteq Seq(TunnelConfig)

VARIABLES
  file,        \* the tunnels as they are written in the file
  Tunnels,     \* Config.Tunnels
  nameCounts,  \* the map of Load
  i,           \* the index of its second loop
  loadPC,      \* where Load stands
  table        \* Manager.tunnels: the entry of Tunnels each name leads to

loadVars == <<file, Tunnels, nameCounts, i, loadPC, table>>

LoadPC == {"read", "derive", "suffix", "newManager", "ready", "failed"}

LoadInit ==
  /\ file = <<>> /\ Tunnels = <<>> /\ nameCounts = <<>> /\ i = 1
  /\ loadPC = "read" /\ table = <<>>

-----------------------------------------------------------------------------
(* Indices of the occurrences of a token in a string. *)
Occurrences(t, string) == {k \in DOMAIN string : string[k] = t}

FirstOf(S) == CHOOSE k \in S : \A l \in S : k <= l

LastOf(S) == CHOOSE k \in S : \A l \in S : l <= k

Before(string, k) == SubSeq(string, 1, k - 1)

After(string, k) == SubSeq(string, k + 1, Len(string))

(* strings.Index *)
deriveName(host) ==
  IF At \in {host[k] : k \in DOMAIN host}
  THEN After(host, FirstOf(Occurrences(At, host)))
  ELSE host

NamesOf(tunnels) == {tunnels[k].Name : k \in DOMAIN tunnels}

-----------------------------------------------------------------------------
(* Load *)

(* The first of the two files that exists is read.  Without one there are  *)
(* no tunnels; one that cannot be read or parsed is an error.              *)
ReadInConfig ==
  /\ loadPC = "read"
  /\ \/ /\ \E contents \in Files \cup {<<>>} :
             file' = contents /\ Tunnels' = contents
        /\ loadPC' = "derive"
     \/ loadPC' = "failed" /\ UNCHANGED <<file, Tunnels>>
  /\ UNCHANGED <<nameCounts, i, table>>

(* The first loop. *)
DeriveNames ==
  /\ loadPC = "derive"
  /\ Tunnels' = [k \in DOMAIN Tunnels |->
       IF Tunnels[k].Name = <<>> /\ Tunnels[k].Host # <<>>
       THEN [Tunnels[k] EXCEPT !.Name = deriveName(Tunnels[k].Host)]
       ELSE Tunnels[k]]
  /\ loadPC' = "suffix"
  /\ UNCHANGED <<file, nameCounts, i, table>>

SetCount(name, count) ==
  nameCounts' = [m \in DOMAIN nameCounts \cup {name} |->
                   IF m = name THEN count ELSE nameCounts[m]]

(* Mutant: the suffix is the count itself. *)
SuffixTooLow ==
  /\ loadPC = "suffix" /\ i \in DOMAIN Tunnels
  /\ LET name == Tunnels[i].Name
     IN \/ /\ name \in DOMAIN nameCounts
           /\ Tunnels' = [Tunnels EXCEPT ![i].Name = Append(name, nameCounts[name])]
           /\ SetCount(name, nameCounts[name] + 1)
        \/ /\ name \notin DOMAIN nameCounts
           /\ SetCount(name, 1)
           /\ UNCHANGED Tunnels
  /\ i' = i + 1
  /\ UNCHANGED <<file, loadPC, table>>

(* Mutant: the count of a name that was suffixed is not raised. *)
SuffixUncounted ==
  /\ loadPC = "suffix" /\ i \in DOMAIN Tunnels
  /\ LET name == Tunnels[i].Name
     IN \/ /\ name \in DOMAIN nameCounts
           /\ Tunnels' = [Tunnels EXCEPT ![i].Name = Append(name, nameCounts[name] + 1)]
           /\ UNCHANGED nameCounts
        \/ /\ name \notin DOMAIN nameCounts
           /\ SetCount(name, 1)
           /\ UNCHANGED Tunnels
  /\ i' = i + 1
  /\ UNCHANGED <<file, loadPC, table>>

(* One pass of the second loop.  A name that gets a suffix is counted      *)
(* under the name it had, the new name is not counted.                     *)
SuffixName ==
  /\ loadPC = "suffix" /\ i \in DOMAIN Tunnels
  /\ LET name == Tunnels[i].Name
     IN \/ /\ name \in DOMAIN nameCounts
           /\ Tunnels' = [Tunnels EXCEPT ![i].Name = Append(name, nameCounts[name] + 1)]
           /\ SetCount(name, nameCounts[name] + 1)
        \/ /\ name \notin DOMAIN nameCounts
           /\ SetCount(name, 1)
           /\ UNCHANGED Tunnels
  /\ i' = i + 1
  /\ UNCHANGED <<file, loadPC, table>>

LoadReturns ==
  /\ loadPC = "suffix" /\ i \notin DOMAIN Tunnels
  /\ loadPC' = "newManager"
  /\ UNCHANGED <<file, Tunnels, nameCounts, i, table>>

-----------------------------------------------------------------------------
(* Lookups *)

(* NewManager enters the tunnels in order: a later one replaces an earlier *)
(* one of the same name.                                                   *)
NewManager ==
  /\ loadPC = "newManager"
  /\ table' = [name \in NamesOf(Tunnels) |->
                 LastOf({k \in DOMAIN Tunnels : Tunnels[k].Name = name})]
  /\ loadPC' = "ready"
  /\ UNCHANGED <<file, Tunnels, nameCounts, i>>

(* The first of that name; the code returns nil where there is none. *)
GetTunnelByName(name) ==
  FirstOf({k \in DOMAIN Tunnels : Tunnels[k].Name = name})

LoadNext ==
  ReadInConfig \/ DeriveNames \/ SuffixName \/ LoadReturns \/ NewManager

LoadSpec == LoadInit /\ [][LoadNext]_loadVars

-----------------------------------------------------------------------------
(* Properties *)

(* The name the k-th tunnel of the file has before suffixes are given. *)
Given(k) == IF file[k].Name = <<>> /\ file[k].Host # <<>>
            THEN deriveName(file[k].Host) ELSE file[k].Name

Earlier(k) == {l \in 1 .. k - 1 : Given(l) = Given(k)}

Numbered(k) == IF Earlier(k) = {} THEN Given(k)
               ELSE Append(Given(k), Cardinality(Earlier(k)) + 1)

(* What Load computes, without its loop and its map (config.go:99-109):    *)
(* the first tunnel of a name keeps it, and the n-th gets the suffix n.    *)
NumberedByOccurrence ==
  loadPC \in {"newManager", "ready"} =>
    /\ DOMAIN Tunnels = DOMAIN file
    /\ \A k \in DOMAIN file : Tunnels[k].Name = Numbered(k)

(* No name in the file is another name of it with such a number behind it. *)
Unambiguous ==
  \A k, l \in DOMAIN file, n \in 2 .. Len(file) : Given(k) # Append(Given(l), n)

EachHasItsName ==
  \A k \in DOMAIN Tunnels :
    table[Tunnels[k].Name] = k /\ GetTunnelByName(Tunnels[k].Name) = k

(* README.md:204, "Duplicate names are auto-suffixed": every tunnel of the *)
(* file has a name that leads to it and to no other, in the Manager and in *)
(* the configuration alike.  It takes that no name in the file looks like  *)
(* one that Load makes up.  (A name that is empty leads to its tunnel too, *)
(* but a request with it is refused: ParseHost of Dial.)                   *)
EachTunnelReachable == loadPC = "ready" /\ Unambiguous => EachHasItsName

(* The same of every file.  It fails for the names "a", "a", "a-2": the    *)
(* second and the third tunnel are both "a-2" and one of them is lost.     *)
AnyTunnelReachable == loadPC = "ready" => EachHasItsName
=============================================================================
