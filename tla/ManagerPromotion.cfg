\* One configured tunnel.
CONSTANTS
  a = a
  b = b
  t1 = t1
  t2 = t2
  t3 = t3
  r1 = r1
  r2 = r2
  Names = {a}
  ConfigNames = {a}
  GeneratedNames = {}
  Ref = {t1}
  Run = {r1, r2}
  Nil = Nil
  MaxRemovals = 1
SPECIFICATION Spec
PROPERTY
  PromotedByOwnStarter
