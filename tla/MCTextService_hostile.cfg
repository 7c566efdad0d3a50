SPECIFICATION Spec
CONSTANTS
  Capacity = 2
  HistoryEntries = 2
  HistoryChars = 3
  MaxKeys = 3
  Faults = {"denyKey", "denyFlush", "denyResult", "noStart", "noRange", "noText", "noShrink", "lost", "lateFlush",
            "noCompartment", "noSetValue", "noAdvise", "noGetValue", "noSink"}
INVARIANTS
  TypeOK
  PendingBounded
  IdsInOrder
  ResultMeetsRequest
