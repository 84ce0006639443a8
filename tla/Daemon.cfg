SPECIFICATION FairSpec
CONSTANTS
  MaxScans = 3
  None = None
  Partial = Partial
INVARIANTS TypeOK NeverOlder
PROPERTIES SavedBeforeExit ReceivedSignalEnds
