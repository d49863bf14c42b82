SPECIFICATION Spec
CONSTANTS
  Proc = {p1, p2}
  Url = {u}
  Header = {accept}
  Hidden = {}
  HeaderValue = {v1}
  Content = {c1, c2}
  Policy <- AllPolicies
  ClockSkew = 1
  Day = 2
  v1 = v1
  MaxTime = 3
  None = None
SYMMETRY Symmetry
CONSTRAINT Scenarios
INVARIANTS TypeOK LifetimeHonoured VaryHonoured BoundedStaleness CurrentWhenContacted
CHECK_DEADLOCK FALSE
