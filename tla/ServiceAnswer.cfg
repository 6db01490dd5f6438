\* The comment of handleShutdown.
CONSTANTS
  p1 = p1
  p2 = p2
  Proc = {p1, p2}
  Nil = Nil
  Stale = Stale
  TunnelProc = {p1}
SPECIFICATION Spec
INVARIANT
  AnsweredBeforeShutdown
