SPECIFICATION CoreSpec
CONSTANTS
  Fds = {f1, f2, f3, f4}
  MaxJobs = 2
  MaxResults = 1
  ExitCodes = {1}
  DeathSignals = {9}
  Timeouts = {FALSE}
  ControlSignals = {}
  RequestTypes = {"Query", "RemoveInterest"}
  Polls = "any"
  TimeoutWired = FALSE
  MaxSubmits = 2
  MaxBatch = 2
SYMMETRY Symmetry
INVARIANTS OwnHandles TokenLeadsToOwner ResultsAreTrue
PROPERTIES FinishesOnce
