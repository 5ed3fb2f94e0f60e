CONSTANTS
  MaxSend = 0
  MaxClose = 2
  MaxNotice = 1
  Events = {}
SPECIFICATION Spec
PROPERTY NoReconnectAfterClose
CHECK_DEADLOCK FALSE
