CONSTANTS
  MaxSend = 2
  MaxClose = 2
  MaxNotice = 1
  Events = {"readError", "readFull", "readBad", "writeError", "shutdownError", "replace", "heartbeat"}
SPECIFICATION FairSpec
INVARIANTS TypeOK SingleWriter NoCutWrite OpenFlagMeansPosted
PROPERTIES PipeSpec CloseTakesEffect DeathIsReported
CHECK_DEADLOCK FALSE
