SPECIFICATION FairSpec
CHECK_DEADLOCK FALSE
CONSTANTS
  Disks <- MCDisks
  Formatted <- MCFormatted
  SECTOR = 4
  GPT_ENTRY_MIN = 2
  GPT_ENTRY_MAX = 4
  GPT_MAX_ENTRIES = 8
  GPT_MAX_SECTORS = 4
  CHUNK = 1
  MIN_FAT = 3
  MIN_EXT = 2
  MAX_FDS = 4
  Tasks = {"t1", "t2"}
  Paths = {"p", "q"}
  Ops = {"open", "read", "write", "set", "cur", "end", "close", "fsync", "unlink", "rename", "mkdir", "stat", "ls", "exit", "kill"}
  MaxCalls = 3
  MaxSize = 2
INVARIANTS
  OwnView
  TableIsScanned
PROPERTY
  CallReturns
