\* One configured tunnel, no key pressed.
CONSTANTS
  a = a
  b = b
  k1 = k1
  k2 = k2
  Names = {a}
  ConfigNames = {a}
  GeneratedNames = {}
  Press = {}
  Capacity = 2
  MaxChanges = 1
SPECIFICATION Spec
INVARIANT
  ListIsAlwaysCurrent
CHECK_DEADLOCK FALSE
