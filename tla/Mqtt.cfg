SPECIFICATION FairSpec
CONSTANTS
  None = None
  Stop = Stop
  Online = Online
  Offline = Offline
  Topics = {t1, t2}
  QueueSize = 2
  MaxEvents = 2
  MaxRemovals = 1
  MaxConnections = 2
INVARIANTS
  TypeOK
  BrokerCurrent
  ConsumerCurrent
  StopFlushes
  StoppedUnavailable
PROPERTIES
  Stops
  Converges
CHECK_DEADLOCK FALSE
