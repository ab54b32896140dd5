SPECIFICATION Spec
CONSTANTS
  None = None
  Tenants = {t1}
  Namespaces = {t1}
  NsOf <- OwnNamespace
  PreExisting = {}
  Quota <- Resources
  BadSpecs = {}
  Configs <- AppsOnly
  FaultKinds = {}
  MaxSpec = 1
  MaxFaults = 0
INVARIANTS
  ListenersGuarded
CHECK_DEADLOCK FALSE
