\* One ad-hoc tunnel.
CONSTANTS
  a = a
  b = b
  t1 = t1
  t2 = t2
  t3 = t3
  r1 = r1
  r2 = r2
  Names = {b}
  ConfigNames = {}
  GeneratedNames = {b}
  Ref = {t1}
  Run = {r1}
  Nil = Nil
  MaxRemovals = 1
SPECIFICATION FairSpec
PROPERTY
  StoppedAdHocRemoved
