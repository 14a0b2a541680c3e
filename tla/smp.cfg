SPECIFICATION SmpSpec
CONSTANTS
  Boards <- MCBoards
  MAX_CPUS = 3
  SettleTries = 2
  OnlineTries = 2
INVARIANT OwnContext
PROPERTIES WorkerRuns TimerFollows BringUpEnds
CHECK_DEADLOCK FALSE
