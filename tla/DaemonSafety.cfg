\* Two connections, either of which may hang, and a runner; the handlers broadcast too.
CONSTANTS
  c1 = c1
  c2 = c2
  g1 = g1
  Conn = {c1, c2}
  Runner = {g1}
  Nil = Nil
  Buffer = 1
  MayHang = {c1, c2}
SYMMETRY Symmetry
SPECIFICATION Spec
INVARIANTS
  OneEncoder
  BroadcastComplete
