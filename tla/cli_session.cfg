SPECIFICATION MCSpec
CONSTANTS
  Cmds = {a, b}
  HttpTimeout = 2
  ExpirySkew = 2
  PollInterval = 2
  SlowDown = 1
  ExpiresIn = 10
  AccessLife = 3
  MaxTime = 15
  MaxCommands = 3
  Parts = {"login", "tokens"}
  MaxFaults = 1
SYMMETRY Symmetry
INVARIANTS
  TypeOK
  SessionKept
PROPERTIES
  HandedOutIsValid
  PollsSpaced
  ApprovedIsPickedUp
CHECK_DEADLOCK FALSE
