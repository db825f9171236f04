SPECIFICATION Spec
CONSTANTS
  Clients = {c1, c2}
  Nobody = Nobody
  Hosts <- SomeHosts
  MaxVersion = 3
SYMMETRY Symmetry
INVARIANTS
  TypeOK
  MemoryIsStore
  StartsAgain
  AppliedRuns
PROPERTIES
  NobodyOverwritten
