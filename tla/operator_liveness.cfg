SPECIFICATION FairSpec
CONSTANTS
  None = None
  Tenants = {t1}
  Namespaces = {t1}
  NsOf <- OwnNamespace
  PreExisting = {}
  Quota <- Resources
  BadSpecs = {}
  Configs <- AppsOnly
  FaultKinds = {"crash", "call", "namespace", "touch", "limits"}
  MaxSpec = 2
  MaxFaults = 1
PROPERTIES
  DeletionCompletes
  NamespaceFollows
  ReadyUnlessHelmStuck
CHECK_DEADLOCK FALSE
