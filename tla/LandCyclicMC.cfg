SPECIFICATION FairSpec
CONSTANTS
  Root = Root
  a = a
  b = b
  c = c
  main = main
  feature = feature
  other = other
  Foreign = Foreign
  None = None
  ReviewRequest = {Root, a, b, c}
  Branch = {main, feature, other}
  Vertex <- MCVertex
  Setups <- CyclicSetups
  MaxReviews = 0
CHECK_DEADLOCK FALSE
PROPERTIES Terminates
