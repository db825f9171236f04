SPECIFICATION Spec
CONSTANTS
  NoDevice = NoDevice
  Devices = {d1}
  Deletable = {d1}
  Commands <- AllCommands
  StrayDisconnect = TRUE
  Patchable = TRUE
  UserScans = TRUE
INVARIANTS
  OperationsTracked
  StoppedClean
  AdapterExclusive
