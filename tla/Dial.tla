-------------------------------- MODULE Dial --------------------------------
(***************************************************************************)
(* From the name of a tunnel to an SSH connection: parseHost of            *)
(* internal/daemon/handlers.go with internal/sshconfig, the choice of the  *)
(* authentication methods in internal/auth, and what ssh.Dial does with    *)
(* them.  It goes on where ConfigLoad ends.                                *)
(*                                                                         *)
(* The agent, the key files and the SSH configuration belong to others and *)
(* may change between any two looks at them: whether a method is           *)
(* available, and whether it can then be set up, is chosen anew each time. *)
(* The SSH server is anyone's: after each attempt it may offer any kinds   *)
(* of methods for the next one.                                            *)
(***************************************************************************)
EXTENDS ConfigLoad

CONSTANTS
  DefaultPort,    \* "22"
  KeyFile,        \* key files an SSH configuration may name
  IdentityFiles,  \* the lists of them it may have
  Method,         \* the values auth.method may have in the configuration
  MaxAttempts     \* bound: attempts before one that the server calls a partial success

(* The key at the default paths is "publickey", an identity file itself. *)
Authenticators == {"agent", "publickey", "password"}

ASSUME KeyFilesAssumption ==
  IdentityFiles \subseteq Seq(KeyFile) /\ KeyFile \cap Authenticators = {}

ASSUME MaxAttemptsAssumption == MaxAttempts \in Nat

(* The names of RFC 4252 for what a method of these is to a server. *)
Kinds == {"publickey", "password"}

VARIABLES
  host,       \* the host of the tunnel that is started, as configured
  address,    \* what parseHost returns: the address,
  user,       \* the user
  identity,   \* and the key files
  method,     \* Config.Auth.Method
  methods,    \* the authentication methods collected so far
  offered,    \* the kinds the server named in its last answer
  tried,      \* the kinds the server has refused
  attempted,  \* the methods the SSH client has tried, in order
  dialPC      \* where handleTunnelStart, and then ssh.Dial, stands

dialVars == <<host, address, user, identity, method, methods, offered, tried, attempted, dialPC>>

DialPC == {"idle", "agent", "identity", "available", "byName", "dial", "auth",
           "authFailed", "connected", "broken", "refused"}

DialInit ==
  /\ LoadInit
  /\ host = <<>> /\ address = <<>> /\ user = <<>> /\ identity = <<>>
  /\ method \in Method
  /\ methods = <<>> /\ dialPC = "idle"
  /\ offered = {} /\ tried = {} /\ attempted = <<>>

(* What belongs to ssh.Dial. *)
sshVars == <<offered, tried, attempted>>

-----------------------------------------------------------------------------
(* parseHost and sshconfig.Resolve *)

IsExplicit(h) == Occurrences(At, h) \cup Occurrences(Colon, h) # {}

(* Mutant: the user is cut off at the last "@". *)
SplitUserAtLast(h) ==
  LET at == Occurrences(At, h)
  IN IF at = {} THEN << <<>>, h>> ELSE <<Before(h, LastOf(at)), After(h, LastOf(at))>>

(* strings.Cut: the user and the rest. *)
SplitUser(h) ==
  LET at == Occurrences(At, h)
  IN IF at = {} THEN << <<>>, h>> ELSE <<Before(h, FirstOf(at)), After(h, FirstOf(at))>>

WithPort(a) ==
  IF Occurrences(Colon, a) = {} THEN a \o <<Colon>> \o <<DefaultPort>> ELSE a

(* The SSH configuration of an alias: HostName, Port and User are each set *)
(* or not, and it names any number of key files.                           *)
Resolve(alias) ==
  [hostname : {alias} \cup {<<t>> : t \in Text}, user : {<<>>} \cup {<<t>> : t \in Text},
   port : {<<DefaultPort>>} \cup {<<t>> : t \in Text}, identity : IdentityFiles]

(* handleTunnelStart for one of the names the Manager knows.  A request    *)
(* without a name is refused before anything is looked up.                 *)
ParseHost ==
  /\ loadPC = "ready" /\ dialPC = "idle"
  /\ \E name \in DOMAIN table \ {<<>>} :
       /\ host' = Tunnels[table[name]].Host
       /\ \/ /\ IsExplicit(host')
             /\ user' = SplitUser(host')[1]
             /\ address' = WithPort(SplitUser(host')[2])
             /\ identity' = <<>>
          \/ /\ ~IsExplicit(host')
             /\ \E r \in Resolve(host') :
                  /\ address' = r.hostname \o <<Colon>> \o r.port
                  /\ user' = r.user
                  /\ identity' = r.identity
  /\ dialPC' = IF identity' = <<>> THEN "available" ELSE "agent"
  /\ UNCHANGED <<loadVars, method, methods, sshVars>>

(* tui/details.go parseHost: what the details panel shows of a host. *)
Shown(h) ==
  LET at == Occurrences(At, h)
      rest == IF at = {} THEN h ELSE After(h, FirstOf(at))
      colon == Occurrences(Colon, rest)
  IN [user |-> IF at = {} THEN <<>> ELSE Before(h, FirstOf(at)),
      hostname |-> IF colon = {} THEN rest ELSE Before(rest, LastOf(colon)),
      port |-> IF colon = {} THEN <<DefaultPort>> ELSE After(rest, LastOf(colon))]

-----------------------------------------------------------------------------
(* auth.go *)

Priority == [agent |-> 1, publickey |-> 2, password |-> 3]

(* Mutant: the password is only there where a terminal is. *)
AlwaysUsableNever == {}

(* IsAvailable and GetAuthMethod of PasswordAuthenticator cannot fail. *)
AlwaysUsable == {"password"}

(* A key file is there, can be read and, with the passphrase if it needs   *)
(* one, be parsed; or it is left out.  So it is with the agent.            *)
GetAuthMethod(m) == {methods, Append(methods, m)}

Collect(m, pc) ==
  /\ methods' \in GetAuthMethod(m)
  /\ dialPC' = pc
  /\ UNCHANGED <<loadVars, host, address, user, identity, method, sshVars>>

(* GetAuthMethodsWithIdentity: the agent first, *)
TryAgent == dialPC = "agent" /\ Collect("agent", "identity")

(* then the key files in the order of the SSH configuration, *)
TryIdentity ==
  /\ dialPC = "identity"
  /\ identity # <<>>
  /\ methods' \in GetAuthMethod(Head(identity))
  /\ identity' = Tail(identity)
  /\ UNCHANGED <<loadVars, host, address, user, method, sshVars, dialPC>>

(* and the default methods where none of them could be set up. *)
IdentityDone ==
  /\ dialPC = "identity"
  /\ identity = <<>>
  /\ dialPC' = IF methods # <<>> THEN "dial" ELSE "available"
  /\ UNCHANGED <<loadVars, host, address, user, identity, method, methods, sshVars>>

(* Mutant: the methods are tried in the order of a map. *)
ByPriorityUnsorted(S) ==
  CHOOSE s \in [1 .. Cardinality(S) -> S] : \A k, l \in DOMAIN s : k # l => s[k] # s[l]

(* The slice, sorted. *)
ByPriority(S) ==
  CHOOSE s \in [1 .. Cardinality(S) -> S] :
    \A k, l \in DOMAIN s : k < l => Priority[s[k]] < Priority[s[l]]

(* GetAvailableAuthMethods, which GetAuthMethodsByName always calls.  The  *)
(* usable methods are those that are available and could be set up.        *)
AvailableMethods ==
  /\ dialPC = "available"
  /\ \E usable \in SUBSET Authenticators :
       /\ AlwaysUsable \subseteq usable
       /\ methods' = ByPriority(usable)
  /\ dialPC' = CASE methods' = <<>> -> "authFailed"
                 [] methods' # <<>> /\ method \in {"", "auto"} -> "dial"
                 [] OTHER -> "byName"
  /\ UNCHANGED <<loadVars, host, address, user, identity, method, sshVars>>

(* getAuthMethodByName *)
MethodByName ==
  /\ dialPC = "byName"
  /\ \/ /\ method \in Authenticators
        /\ methods' = <<method>> /\ dialPC' = "dial"
     \/ /\ method \notin AlwaysUsable
        /\ dialPC' = "authFailed" /\ UNCHANGED methods
  /\ UNCHANGED <<loadVars, host, address, user, identity, method, sshVars>>

-----------------------------------------------------------------------------
(* ssh.Dial *)

(* The name a method has in the SSH protocol. *)
Kind(m) == IF m = "password" THEN "password" ELSE "publickey"

(* Handshake: the server is reached, or not, and answers the request for   *)
(* authentication by "none" that comes before all methods.                 *)
Handshake ==
  /\ dialPC = "dial"
  /\ offered' \in SUBSET Kinds
  /\ dialPC' \in {"auth", "connected", "broken"}
  /\ UNCHANGED <<loadVars, host, address, user, identity, method, methods, tried, attempted>>

(* The next method is the first of a kind that the server offers and has   *)
(* not refused.                                                            *)
Candidates ==
  {k \in DOMAIN methods : Kind(methods[k]) \in offered \ tried}

(* The attempt connects, breaks the connection off, or the server refuses  *)
(* it or asks for more: a kind that was a partial success may come again.  *)
Attempt ==
  /\ dialPC = "auth" /\ Candidates # {}
  /\ LET m == methods[FirstOf(Candidates)]
     IN /\ attempted' = Append(attempted, m)
        /\ offered' \in SUBSET Kinds
        /\ \/ dialPC' \in {"connected", "broken"} /\ UNCHANGED tried
           \/ dialPC' = "auth" /\ tried' = tried \cup {Kind(m)}
           \/ dialPC' = "auth" /\ UNCHANGED tried /\ Len(attempted) < MaxAttempts
  /\ UNCHANGED <<loadVars, host, address, user, identity, method, methods>>

(* "no supported methods remain" *)
GiveUp ==
  /\ dialPC = "auth" /\ Candidates = {}
  /\ dialPC' = "refused"
  /\ UNCHANGED <<loadVars, host, address, user, identity, method, methods, sshVars>>

-----------------------------------------------------------------------------
DialNext ==
  \/ LoadNext /\ UNCHANGED dialVars
  \/ ParseHost \/ TryAgent \/ TryIdentity \/ IdentityDone
  \/ AvailableMethods \/ MethodByName
  \/ Handshake \/ Attempt \/ GiveUp

DialSpec == DialInit /\ [][DialNext]_<<loadVars, dialVars>>

-----------------------------------------------------------------------------
(* Properties *)

(* The details panel shows the user, the host and the port that are        *)
(* dialled, for every host with an "@" or a ":" in any places: the two     *)
(* parsers, handlers.go:177 and details.go:147, cut at different ends.     *)
HostShownIsDialled ==
  dialPC # "idle" /\ IsExplicit(host) =>
    /\ user = Shown(host).user
    /\ address = Shown(host).hostname \o <<Colon>> \o Shown(host).port

(* password.go:22, "Lowest priority - last resort": whatever collected the *)
(* methods, and whatever the server answered before, a password is tried   *)
(* only when no key was set up, the server has refused a key or it takes   *)
(* no keys now.                                                            *)
PasswordIsLast ==
  [][/\ attempted' # attempted /\ attempted'[Len(attempted')] = "password"
     /\ \E k \in DOMAIN methods : Kind(methods[k]) = "publickey"
     => "publickey" \in tried \/ "publickey" \notin offered]_dialVars

(* With the method "auto" no change of the agent or of a key file between  *)
(* IsAvailable and GetAuthMethod makes the start fail with an              *)
(* authentication error (auth.go:40, 61): the SSH server is dialled.       *)
AutoAlwaysDials == method \in {"", "auto"} => dialPC # "authFailed"

(* README.md:173, "When method = "auto" (default), Gurren tries each       *)
(* method in priority order until one succeeds.": when the client gives    *)
(* up, it has tried every method that the server still takes.              *)
AutoTriesEach ==
  method \in {"", "auto"} /\ dialPC = "refused" =>
    \A k \in DOMAIN methods :
      Kind(methods[k]) \in offered => \E l \in DOMAIN attempted : attempted[l] = methods[k]
=============================================================================
