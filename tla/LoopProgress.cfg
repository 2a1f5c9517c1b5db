SPECIFICATION FairCoreSpec
CONSTANTS
  Fds = {f1, f2}
  MaxJobs = 1
  MaxResults = 1
  ExitCodes = {1}
  DeathSignals = {9}
  Timeouts = {TRUE}
  ControlSignals = {"GracefulStop"}
  RequestTypes = {}
  Polls = "first"
  TimeoutWired = TRUE
  MaxSubmits = 2
  MaxBatch = 2
PROPERTIES DrainTerminates SubmissionAnswered PollRetires StopReachesChild
