SPECIFICATION Spec
CONSTANTS
  Proc = {p1}
  Url = {u}
  Header = {cookie}
  Hidden = {cookie}
  HeaderValue = {v1, v2}
  Content = {c1, c2}
  Policy <- CookiePolicies
  ClockSkew = 0
  Day = 4
  v1 = v1
  MaxTime = 1
  None = None
SYMMETRY Symmetry
INVARIANTS VaryHonoured
CHECK_DEADLOCK FALSE
