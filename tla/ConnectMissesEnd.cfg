\* A tunnel that ends before the command has subscribed.
CONSTANTS
  MaxChanges = 2
  MaxPolls = 2
  Capacity = 2
SPECIFICATION FairSpec
PROPERTY
  EndIsDetected
CHECK_DEADLOCK FALSE
