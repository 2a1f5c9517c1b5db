SPECIFICATION FairTimeoutSpec
CONSTANTS
  Fds = {f1, f2}
  MaxJobs = 1
  MaxResults = 1
  ExitCodes = {1}
  DeathSignals = {9}
  Timeouts = {TRUE}
  ControlSignals = {}
  RequestTypes = {}
  Polls = "never"
  TimeoutWired = TRUE
  MaxSubmits = 1
  MaxBatch = 2
PROPERTIES KillEscalates
