CONSTANTS
  MaxPost <- MostFromNetwork
  MaxLinks = 2
SPECIFICATION Spec
PROPERTY DroppedIsGone
CHECK_DEADLOCK FALSE
