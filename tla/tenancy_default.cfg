SPECIFICATION MCSpec
CONSTANTS
  alice = alice
  bob = bob
  o1 = o1
  o2 = o2
  o3 = o3
  p1 = p1
  p2 = p2
  i1 = i1
  i2 = i2
  n1 = n1
  n2 = n2
  None = None
  Users = {alice, bob}
  Roots = {alice}
  Orgs = {o1, o2, o3}
  Projects = {p1, p2}
  Invites = {i1, i2}
  Names = {n1, n2}
  QuotaAsks <- SomeAsks
  Calls = {c1, c2}
  MaxRequests = 3
  Parts = {"create"}
SYMMETRY Symmetry
INVARIANTS
  AtMostOneDefault
CHECK_DEADLOCK FALSE
