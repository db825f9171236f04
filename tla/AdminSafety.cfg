SPECIFICATION Spec
CONSTANTS
  NoDevice = NoDevice
  Devices = {d1, d2}
  Deletable = {}
  Commands <- AllCommands
  StrayDisconnect = FALSE
  Patchable = TRUE
  UserScans = FALSE
SYMMETRY Symmetry
INVARIANTS
  TypeOK
  TelemetryAttribution
  OwnerActs
  DisconnectsAlone
