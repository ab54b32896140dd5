SPECIFICATION Spec
CONSTANTS
  None = None
  Tenants = {t1}
  Namespaces = {t1}
  NsOf <- OwnNamespace
  PreExisting = {}
  Quota <- Resources
  BadSpecs = {2}
  Configs <- AllOn
  FaultKinds = {"crash", "call", "workload", "resync", "quota"}
  MaxSpec = 3
  MaxFaults = 2
INVARIANTS
  TypeOK
  ResourcesGuarded
  NoLostWakeup
  ReadyReflectsSpec
PROPERTIES
  ImplementsLifecycle
  TeardownOnlyWhenDeleting
  DeletingIsFinal
CHECK_DEADLOCK FALSE
