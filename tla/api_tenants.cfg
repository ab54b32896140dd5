SPECIFICATION Spec
CONSTANTS
  Names = {n1}
  Callers = {alice, root}
  Admins = {root}
  Reqs = {r1, r2, r3, r4}
  Kubectl = Kubectl
  Nobody = Nobody
  FaultKinds = {"disconnect", "call", "lost", "crash"}
  MaxFaults = 1
SYMMETRY Symmetry
INVARIANTS
  TypeOK
  CreatedStays
  RowHasCR
PROPERTIES
  UsesLifecycle
  RollbackIsOwn
CHECK_DEADLOCK FALSE
