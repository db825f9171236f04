SPECIFICATION Spec
CONSTANTS
  NoDevice = NoDevice
  Devices = {d1}
  Deletable = {}
  Commands <- AllCommands
  StrayDisconnect = FALSE
  Patchable = FALSE
  UserScans = FALSE
INVARIANTS
  Supervised
