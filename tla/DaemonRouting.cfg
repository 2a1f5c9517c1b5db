SPECIFICATION Spec
CONSTANTS
  Fds = {f1, f2}
  MaxJobs = 1
  MaxResults = 1
  ExitCodes = {1}
  DeathSignals = {}
  Timeouts = {FALSE}
  ControlSignals = {"GracefulStop"}
  RequestTypes = {"Query"}
  Polls = "first"
  TimeoutWired = FALSE
  MaxSubmits = 3
  MaxBatch = 6
  Clients = {c1, c2, c3}
  RequestIds = {1, 2, 3}
  MaxClientId = 3
  GuessIds = TRUE
  LateRequests = TRUE
  Malformed = FALSE
  AcceptFaults = FALSE
SYMMETRY Symmetry
INVARIANTS IpcTypeOK RoutesAgree ReplyAboutAskedJob
PROPERTIES SubmitterHearsItsFate
CHECK_DEADLOCK FALSE
