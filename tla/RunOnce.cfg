\* Three connections at a time.
CONSTANTS
  c1 = c1
  c2 = c2
  c3 = c3
  Conn = {c1, c2, c3}
SPECIFICATION FairSpec
INVARIANTS
  ReturnReleases
  ClientOutlivesHandlers
  NoAcceptSpin
PROPERTIES
  PromiseSpec
  CancelledReturnsUnlessSilent
  LossEndsConnections
  CopiersEnd
