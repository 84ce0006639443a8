SPECIFICATION FairSpec
CONSTANTS
  r1 = r1  r2 = r2  d1 = d1  d2 = d2
  Handler <- Requests
  Dummy <- Dummies
  Loop = Loop
  None = None
  Timely = TRUE
INVARIANTS OneServer DumpBeforeReturn
PROPERTIES KillSucceeds EveryRequestReturns
CHECK_DEADLOCK FALSE
