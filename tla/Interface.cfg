\* A configured and an ad-hoc tunnel, one press of the toggle key, three
\* changes by others, a notifications channel of two.
CONSTANTS
  a = a
  b = b
  k1 = k1
  k2 = k2
  Names = {a, b}
  ConfigNames = {a}
  GeneratedNames = {b}
  Press = {k1}
  Capacity = 2
  MaxChanges = 3
SPECIFICATION FairSpec
INVARIANTS
  ToastHasTimer
  ListIsCurrent
PROPERTY
  UpdateIsShown
\* Nothing has to happen once every press is used and every change made.
CHECK_DEADLOCK FALSE
