SPECIFICATION FairSpec
CONSTANTS
  NoDevice = NoDevice
  Devices = {d1}
  Deletable = {}
  Commands <- AllCommands
  StrayDisconnect = TRUE
  Patchable = FALSE
  UserScans = FALSE
PROPERTIES
  OperationEnds
  CloseEnds
