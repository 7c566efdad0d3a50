SPECIFICATION Spec
CONSTANTS
  Capacity = 2
  HistoryEntries = 2
  HistoryChars = 3
  MaxKeys = 3
  Faults = {"denyFlush"}
INVARIANTS
  NothingLost
