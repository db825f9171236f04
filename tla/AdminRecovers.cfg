SPECIFICATION LiveSpec
CONSTANTS
  NoDevice = NoDevice
  Devices = {d1}
  Deletable = {}
  Commands <- Renewals
  StrayDisconnect = FALSE
  Patchable = FALSE
  UserScans = FALSE
INVARIANTS
  Supervised
  ObservedHonest
PROPERTIES
  Recovers
