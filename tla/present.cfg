\* A writer, a console task, the mouse IRQ and the flusher on the boot CPU, which may wedge.
SPECIFICATION PresentFairSpec
CONSTANTS
  RowWidth = 2
  Writers = {"writer"}
  Consoles = {"console"}
  Mice = {"mouse"}
  Flusher = "flusher"
  Home <- OnBsp
  Reach <- Areas
  PRESENT_GIVE_UP = 2
  Nobody = "nobody"
INVARIANTS
  DrawnIsKept
PROPERTIES
  DamagePresented
  LatchReleased
CHECK_DEADLOCK FALSE
