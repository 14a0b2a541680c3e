\* Two CPUs, two tasks: handoff, affinity, wait, kill from either CPU, early wake.
SPECIFICATION Spec
CONSTANTS
  CPUs = {c0, c1}
  BSP = c0
  MaxTasks = 2
  SliceNormal = 2
  SpawnPrios = {1}
  Births = {"kernel", "child", "user", "remote"}
  Calls <- Busy
INVARIANTS
  ExclusiveContext
  NoLostTask
PROPERTIES
  ZombieIsFrozen
  StatusGoesToParent
