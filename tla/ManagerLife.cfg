\* No assumption on the network. One ad-hoc tunnel, two calls of Start, so that
\* a stale starter or runner meets the next registration of the name.
CONSTANTS
  a = a
  b = b
  t1 = t1
  t2 = t2
  t3 = t3
  r1 = r1
  r2 = r2
  Names = {b}
  ConfigNames = {}
  GeneratedNames = {b}
  Ref = {t1, t2}
  Run = {r1, r2}
  Nil = Nil
  MaxRemovals = 2
SPECIFICATION FairSpec
PROPERTIES
  LifecycleSpec
  ConnectingSettles
  CancelledRunEnds
