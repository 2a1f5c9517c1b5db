SPECIFICATION CoreSpec
CONSTANTS
  Fds = {f1, f2}
  MaxJobs = 1
  MaxResults = 1
  ExitCodes = {1}
  DeathSignals = {9}
  Timeouts = {FALSE}
  ControlSignals = {}
  RequestTypes = {}
  Polls = "never"
  TimeoutWired = FALSE
  MaxSubmits = 2
  MaxBatch = 2
PROPERTIES LimitMeansBusy
CHECK_DEADLOCK FALSE
