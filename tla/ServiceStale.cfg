\* Two processes that may start at the same time.
CONSTANTS
  p1 = p1
  p2 = p2
  Proc = {p1, p2}
  Nil = Nil
  Stale = Stale
  TunnelProc = {p1}
SPECIFICATION Spec
PROPERTY
  RemovesOnlyStale
