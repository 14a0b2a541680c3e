SPECIFICATION Spec
CONSTANTS
  Machines <- MCMachines
  CapSteps = 5
  Q_SIZE_MAX = 4
  IdxMod = 8
  FLUSH_GIVE_UP = 2
  MaxPasses = 2
  MaxMoves = 2
INVARIANTS ConsoleOnScreen AnswerLag
PROPERTY BringUpSettles
CHECK_DEADLOCK FALSE
