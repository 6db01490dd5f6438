\* The client of c2 may stop reading; that of c1 never does.
CONSTANTS
  c1 = c1
  c2 = c2
  g1 = g1
  Conn = {c1, c2}
  Runner = {}
  Nil = Nil
  Buffer = 1
  MayHang = {c2}
SPECIFICATION FairSpec
PROPERTY
  UpdatesReach
