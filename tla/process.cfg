SPECIFICATION Spec
CHECK_DEADLOCK FALSE
CONSTANTS
  MemoryRegions <- MCRegions
  SIZE = 2
  LOW = 8
  USER_TRAMPOLINE = 1
  USER_TEXT_BASE = 2
  USER_MAX_ADDR = 13
  LNX_PIE_LOAD_BASE = 6
  LINUX_HEAP_BASE = 9
  LINUX_MMAP_BASE = 11
  STACK_BASE = 17
  STACK_GAP = 2
  USER_STACK_PAGES = 1
  HEAP_START = 28
  HEAP_PAGES = 1
  TablePages = 8
  Images <- MCImages
  Argvs <- MCArgvs
  MaxSlots = 3
  MaxAsks = 1
  Spans = {3}
  TestFrames = 3
INVARIANTS OneOwner PanicBlame StartStackSound
