SPECIFICATION FairSystemSpec
CONSTANTS
  Capacity = 2
  HistoryEntries = 2
  HistoryChars = 3
  MaxKeys = 3
  MaxStarts = 2
  MaxJobs = 2
  Faults = {"denyResult", "noShrink"}
  WindowsFaults = {"noThread", "noPost"}
INVARIANTS
  ResultMeetsRequest
  InFlightIsOurs
  ErasedStaysOut
  ContextIsConfirmed
  DirectModeIsClean
PROPERTIES
  PassedKeyOvertakesNothing
  ImplementsIme
  QueueDrains
