\* A configured tunnel and an ad-hoc one, two clients at work at a time. The
\* name generator may also draw the configured name. A pointer for each tunnel
\* and one for an ad-hoc tunnel that was removed while a handler held it.
CONSTANTS
  a = a
  b = b
  t1 = t1
  t2 = t2
  t3 = t3
  r1 = r1
  r2 = r2
  c1 = c1
  c2 = c2
  Nil = Nil
  Names = {a, b}
  ConfigNames = {a}
  GeneratedNames = {a, b}
  Ref = {t1, t2, t3}
  Run = {r1, r2}
  Client = {c1, c2}
  MaxRemovals = 1
  PhrasesIn <- PlainNames
SPECIFICATION RequestSpec
SYMMETRY Symmetry
VIEW WithoutNotified
INVARIANTS
  OneRunnerPerTunnel
  RunnersReachable
  StartsWhatItLookedUp
  ConfiguredIsFound
PROPERTIES
  StartAnswerIsSettled
