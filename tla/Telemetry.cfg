SPECIFICATION Spec
CONSTANTS
  None = None
  Devices = {d1}
  StaleAfter = 1
  HeartbeatStaleAfter = 1
  MaxSettings = 1
  MaxTime = 3
INVARIANTS
  TypeOK
  FreshBounded
  HeartbeatBounded
  RetainedAgrees
