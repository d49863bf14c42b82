SPECIFICATION FairSpec
CONSTANTS
  Handler = {h1, h2}
  ServerVersion = {50000, 50005, 60002, 70000}
  None = None
INVARIANTS TypeOK SuccessHasToken ServerStopped FailureWasPosted
PROPERTIES WaitEnds
CHECK_DEADLOCK FALSE
