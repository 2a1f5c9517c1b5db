SPECIFICATION FairSpec
CONSTANTS
  Fds = {f1, f2}
  MaxJobs = 1
  MaxResults = 1
  ExitCodes = {}
  DeathSignals = {}
  Timeouts = {FALSE}
  ControlSignals = {"GracefulStop"}
  RequestTypes = {"Query"}
  Polls = "never"
  TimeoutWired = FALSE
  MaxSubmits = 3
  MaxBatch = 6
  Clients = {c1, c2, c3}
  RequestIds = {1, 2, 3}
  MaxClientId = 3
  GuessIds = FALSE
  LateRequests = FALSE
  Malformed = FALSE
  AcceptFaults = TRUE
PROPERTIES ConnectionsAccepted SubmitterAnswered RunningCancelAnswered
CHECK_DEADLOCK FALSE
