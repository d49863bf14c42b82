SPECIFICATION FairSpec
CONSTANTS
  Handler = {h1, h2}
  ServerVersion = {70000}
  None = None
PROPERTIES ReportsSuccess
CHECK_DEADLOCK FALSE
