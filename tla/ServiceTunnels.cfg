\* A tunnel of a service that was stopped.
CONSTANTS
  p1 = p1
  p2 = p2
  Proc = {p1}
  Nil = Nil
  Stale = Stale
  TunnelProc = {p1}
SPECIFICATION Spec
INVARIANT
  NoTunnelAfterShutdown
