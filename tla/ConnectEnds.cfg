\* Up to three changes by others; the service is looked for twice; a channel of
\* two notifications. The command may have exited.
CONSTANTS
  MaxChanges = 3
  MaxPolls = 2
  Capacity = 2
SPECIFICATION FairSpec
PROPERTIES
  CommandSettles
  LaterEndIsSeen
  InterruptEnds
CHECK_DEADLOCK FALSE
