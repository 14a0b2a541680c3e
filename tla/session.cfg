SPECIFICATION Spec
CONSTANTS
  Chars = {"a"}
  Packets <- MCPackets
  Sizes <- MCSizes
  Scenarios <- MCScenarios
  Releases = {"shift"}
  RING_LEN = 3
  EV_LEN = 2
  LINE_MAX = 2
  OutLens = {1}
INVARIANTS
  LineIsTyped
  FramesAreSent
  ClicksAreActed
  ScreenShowsState
PROPERTIES
  RawIsFifo
  LineComes
CHECK_DEADLOCK FALSE
