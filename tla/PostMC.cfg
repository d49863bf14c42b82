SPECIFICATION Spec
CONSTANTS
  None = None
  Unknown = None
  r1 = r1
  r2 = r2
  r3 = r3
  Request = {r1, r2, r3}
  Word = {"e"}
  Setups <- MCSetups
  PageSize = 1
  MaxReviewRequests = 2
  MaxPrompts = 2
  MaxCommits = 5
CHECK_DEADLOCK FALSE
INVARIANTS TypeOK PostedIsWhole ValidationChains KindMatches UnaskedMatchIsSole ShowsTheCommits
PROPERTIES LeavesSubmittedAlone FindsItsPost KeepsUsersText ComesToAnEnd
