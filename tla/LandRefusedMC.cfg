SPECIFICATION FairSpec
CONSTANTS
  Root = Root
  a = a
  b = b
  c = c
  main = main
  feature = feature
  other = other
  Foreign = Foreign
  None = None
  ReviewRequest = {Root, a, b, c}
  Branch = {main, feature, other}
  Vertex <- MCVertex
  Setups <- RefusedSetups
  MaxReviews = 1
CHECK_DEADLOCK FALSE
INVARIANTS LandsOnlyApproved
