\* A parent and its child on one CPU: round robin and the blocking calls under fairness.
SPECIFICATION FairSpec
CONSTANTS
  CPUs = {c0}
  BSP = c0
  MaxTasks = 2
  SliceNormal = 1
  SpawnPrios = {1}
  Births = {"child"}
  Calls <- ParentAndChildren
PROPERTIES
  ReadyRuns
  ChildDeathWakesFresh
  OrphansAreReaped
  SleeperWakes
