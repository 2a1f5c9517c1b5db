SPECIFICATION CoreSpec
CONSTANTS
  Fds = {f1, f2}
  MaxJobs = 1
  MaxResults = 1
  ExitCodes = {1}
  DeathSignals = {9}
  Timeouts = {TRUE}
  ControlSignals = {"GracefulStop"}
  RequestTypes = {"Query"}
  Polls = "first"
  TimeoutWired = TRUE
  MaxSubmits = 2
  MaxBatch = 3
SYMMETRY Symmetry
INVARIANTS TypeOK SlotAccounting LiveChildrenBounded
PROPERTIES ServiceImplemented LifecycleForward ReapedLeftAlone
