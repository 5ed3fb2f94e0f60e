CONSTANTS
  MaxSend = 2
  MaxClose = 0
  MaxNotice = 1
  Events = {}
SPECIFICATION Spec
INVARIANT QueuedIsPosted
CHECK_DEADLOCK FALSE
