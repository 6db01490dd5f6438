\* Not a guarantee of the code: names "a", "a" and "a-2" in one file.
CONSTANTS
  x = x
  y = y
  At = At
  Colon = Colon
  DefaultPort = DefaultPort
  Text = {x, y}
  Files <- MCFiles
  KeyFile = {"id1", "id2"}
  IdentityFiles <- MCIdentityFiles
  Method = {"auto"}
  MaxAttempts = 2
SPECIFICATION DialSpec
VIEW DialView
INVARIANTS
  AnyTunnelReachable
CHECK_DEADLOCK FALSE
