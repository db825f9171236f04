SPECIFICATION Spec
CONSTANTS
  NoDevice = NoDevice
  Devices = {d1, d2}
  Deletable = {}
  Commands <- AllCommands
  StrayDisconnect = TRUE
  Patchable = FALSE
  UserScans = FALSE
SYMMETRY Symmetry
INVARIANTS
  TelemetryAttribution
