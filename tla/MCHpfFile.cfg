SPECIFICATION FairSpec
CONSTANTS
  Byte = {0, 1, 3, 4, 5, 6, 7}
  CharRange = 2
  Amounts = {0, 1, 5}
  FillAmounts = {3}
  Blocks <- MCBlocks
  Fills <- MCFills
  Granularity = 2
  DefaultView = 2
  FourGB = 8
  ViewSizes = {2, 3, 4, 6}
  InitialValues = {0, 1}
  MaxOffset = 19
INVARIANTS TypeOK WindowAtOffset TailIsClean FailureJustified
PROPERTIES AppendSpec AppendReturns
CHECK_DEADLOCK FALSE
