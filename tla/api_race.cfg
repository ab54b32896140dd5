SPECIFICATION Spec
CONSTANTS
  Names = {n1}
  Callers = {alice}
  Admins = {}
  Reqs = {r1, r2}
  Kubectl = Kubectl
  Nobody = Nobody
  FaultKinds = {}
  MaxFaults = 0
SYMMETRY Symmetry
INVARIANTS
  DeletedIsTornDown
CHECK_DEADLOCK FALSE
