SPECIFICATION FairSpec
CONSTANTS
  Tables = {{}, {0}, {1}, {2}, {0, 1}, {0, 2}, {1, 2}, {1, 3}, {0, 1, 2}, {0, 1, 2, 3}}
  MaxFd = 8
  SpawnTimeouts = {0, 1}
  MaxTime = 2
INVARIANTS  ParentHoldsItsEnds ChildFindsItsStreams NoParentEndInChild ReportIsTrue ErrorGivesBack
PROPERTIES WaitEnds
CHECK_DEADLOCK FALSE
