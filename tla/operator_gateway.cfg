SPECIFICATION Spec
CONSTANTS
  None = None
  Tenants = {t1, t2}
  Namespaces = {t1, t2}
  NsOf <- OwnNamespace
  PreExisting = {}
  Quota <- Resources
  BadSpecs = {1}
  Configs <- AllOn
  FaultKinds = {"touch", "gateway", "namespace", "route"}
  MaxSpec = 1
  MaxFaults = 1
SYMMETRY Symmetry
PROPERTIES
  ListenersIndependent
CHECK_DEADLOCK FALSE
