SPECIFICATION Spec
CONSTANTS
  Fds = {f1, f2}
  MaxJobs = 1
  MaxResults = 1
  ExitCodes = {1}
  DeathSignals = {}
  Timeouts = {FALSE}
  ControlSignals = {"GracefulStop"}
  RequestTypes = {"Query"}
  Polls = "never"
  TimeoutWired = FALSE
  MaxSubmits = 2
  MaxBatch = 4
  Clients = {c1, c2}
  RequestIds = {1, 2}
  MaxClientId = 2
  GuessIds = FALSE
  LateRequests = TRUE
  Malformed = TRUE
  AcceptFaults = FALSE
INVARIANTS DroppedOnParseError
CHECK_DEADLOCK FALSE
