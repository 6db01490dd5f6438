\* Files of one tunnel with any host of up to four tokens, and files of up to
\* four tunnels whose names meet. SSH configurations with up to two key files,
\* and servers that call up to two attempts a partial success.
CONSTANTS
  x = x
  y = y
  At = At
  Colon = Colon
  DefaultPort = DefaultPort
  Text = {x, y}
  Files <- MCFiles
  KeyFile = {"id1", "id2"}
  IdentityFiles <- MCIdentityFiles
  Method = {"auto", "publickey", "password", "other"}
  MaxAttempts = 2
SPECIFICATION DialSpec
VIEW DialView
INVARIANTS
  NumberedByOccurrence
  EachTunnelReachable
  HostShownIsDialled
  AutoAlwaysDials
PROPERTIES
  PasswordIsLast
CHECK_DEADLOCK FALSE
