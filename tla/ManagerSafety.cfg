\* A configured and an ad-hoc tunnel (the generator may also draw the
\* configured name), three tunnel objects, two calls of Start at a time and
\* two deferred removals of one name.
CONSTANTS
  a = a
  b = b
  t1 = t1
  t2 = t2
  t3 = t3
  r1 = r1
  r2 = r2
  Names = {a, b}
  ConfigNames = {a}
  GeneratedNames = {a, b}
  Ref = {t1, t2, t3}
  Run = {r1, r2}
  Nil = Nil
  MaxRemovals = 2
SYMMETRY Symmetry
SPECIFICATION Spec
INVARIANTS
  TypeOK
  OneRunnerPerTunnel
  RunnersReachable
  ConfiguredKept
  ErrorTextMatchesStatus
  ConnectingHasStarter
PROPERTY
  LifecycleSpec
