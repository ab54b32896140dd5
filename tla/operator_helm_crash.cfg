SPECIFICATION FairSpec
CONSTANTS
  None = None
  Tenants = {t1}
  Namespaces = {t1}
  NsOf <- OwnNamespace
  PreExisting = {}
  Quota <- Resources
  BadSpecs = {}
  Configs <- AppsOnly
  FaultKinds = {"crash"}
  MaxSpec = 1
  MaxFaults = 1
PROPERTIES
  EventuallyReady
CHECK_DEADLOCK FALSE
