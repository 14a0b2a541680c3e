\* Three sectors, two slots, transfers of up to two sectors.
SPECIFICATION CacheFairSpec
CONSTANTS
  Sectors = 3
  Slots = 2
  READ_AHEAD = 2
  MaxCount = 2
  Data = {a, b}
INVARIANTS
  ReadsDisk
PROPERTIES
  TransferReturns
