CONSTANTS
  MaxPost <- MostFromNetwork
  MaxLinks = 2
SPECIFICATION FairSpec
INVARIANTS TypeOK OneProcessor PassedOnce
PROPERTY EveryPacketIsProcessed
CHECK_DEADLOCK FALSE
