\* The README's claim on the method "auto".
CONSTANTS
  x = x
  y = y
  At = At
  Colon = Colon
  DefaultPort = DefaultPort
  Text = {x, y}
  Files <- MCFiles
  KeyFile = {"id1", "id2"}
  IdentityFiles <- MCIdentityFiles
  Method = {"auto"}
  MaxAttempts = 2
SPECIFICATION DialSpec
VIEW DialView
INVARIANTS
  AutoTriesEach
CHECK_DEADLOCK FALSE
