SPECIFICATION FairSpec
CONSTANTS
  Jobs = {j1, j2}
  Budgets = {0, 1, 3, 5}
  Grace = 1
  TicksPerMs = 2
  Half = 4
  MaxClock = 10
INVARIANTS TimeoutTypeOK SleepsUntilFirstDeadline
PROPERTIES GraceIsGiven ToldOnce DeadlineServed
CHECK_DEADLOCK FALSE
