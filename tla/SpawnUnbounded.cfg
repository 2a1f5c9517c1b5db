SPECIFICATION FairSpec
CONSTANTS
  Tables = {{0, 1, 2}}
  MaxFd = 8
  SpawnTimeouts = {1}
  MaxTime = 2
PROPERTIES TimeoutBoundsSpawn
CHECK_DEADLOCK FALSE
