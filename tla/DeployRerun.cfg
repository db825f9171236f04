SPECIFICATION DeploymentSpec
CONSTANTS
  MaxReleases = 3
  MaxBackups = 3
INVARIANT Rerunnable
CHECK_DEADLOCK FALSE
