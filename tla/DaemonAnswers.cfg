\* Every client reads; nobody hangs.
CONSTANTS
  c1 = c1
  c2 = c2
  g1 = g1
  Conn = {c1, c2}
  Runner = {}
  Nil = Nil
  Buffer = 1
  MayHang = {}
SPECIFICATION FairSpec
PROPERTIES
  UpdatesReach
  RequestsAnswered
