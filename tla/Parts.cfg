SPECIFICATION PartsSpec
CONSTANTS
  Thermometers = {1, 2}
  Advertised <- Names
  People = {p}
  NoRow = NoRow
  MaxAtOnce = 2
  MaxClients = 3
  BatteryInterval = 2
  NoClient = 0
  PollInterval = 1
  DegradedAfter = 2
  ReconnectAfter = 4
  StableAfter = 5
  Delays <- BackoffDelays
  Jitter = 1
  MaxSlow = 2
  PerMinute = 4
  MinuteSeconds = 6
  MaxBurst = 2
  StepsPerSecond = 2
  MaxEarned = 40
  Readers = {r}
  Stallers = {s}
  MaxSlots = 2
  QueueSize = 2
  MaxEvents = 3
  Kept = 2
  Watchers = {w1, w2}
  NoOperation = 0
  MaxOps = 4
  MaxBoots = 1
  MaxReleases = 3
  MaxBackups = 3
INVARIANTS
  PartsTypeOK
  OneRowEach
  DialsOwn
  TruthTold
  WindowBound
  NothingSwallowed
  NoLinkForgotten
  GivesUp
  Recoverable
PROPERTIES
  StreamsEnd
  LinkImplemented
  FlapsBackOff
CHECK_DEADLOCK FALSE
