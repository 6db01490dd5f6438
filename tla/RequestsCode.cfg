\* Not a guarantee of the code: names that contain the phrases searched for.
CONSTANTS
  a = a
  b = b
  t1 = t1
  t2 = t2
  t3 = t3
  r1 = r1
  r2 = r2
  c1 = c1
  c2 = c2
  Nil = Nil
  Names = {a, b}
  ConfigNames = {a}
  GeneratedNames = {a, b}
  Ref = {t1, t2, t3}
  Run = {r1, r2}
  Client = {c1, c2}
  MaxRemovals = 1
  PhrasesIn <- SpeakingNames
SPECIFICATION RequestSpec
SYMMETRY Symmetry
VIEW WithoutNotified
PROPERTIES
  ActiveCodeIsTrue
