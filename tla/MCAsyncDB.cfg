SPECIFICATION FairSpec
CONSTANTS
  Connection = {c1, c2}
  MaxCall = 2
  None = None
INVARIANTS TypeOK NothingLost EventsAlive UnInitDrains CommandTold
PROPERTIES ServiceSpec AnswersArrive UnInitReturns
CHECK_DEADLOCK FALSE
