SPECIFICATION Spec
CONSTANTS
  Names = {n1}
  Callers = {alice}
  Admins = {}
  Reqs = {r1, r2}
  Kubectl = Kubectl
  Nobody = Nobody
  FaultKinds = {"disconnect"}
  MaxFaults = 1
SYMMETRY Symmetry
PROPERTIES
  RollbackFreesName
CHECK_DEADLOCK FALSE
