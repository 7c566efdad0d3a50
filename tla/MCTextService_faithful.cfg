SPECIFICATION FairSpec
CONSTANTS
  Capacity = 2
  HistoryEntries = 2
  HistoryChars = 3
  MaxKeys = 4
  Faults = {"noShrink", "noCompartment", "noSink"}
INVARIANTS
  TypingOrder
  NothingLost
  ShowsTheDraft
  HeadIsConverting
  ModeIsCompartment
PROPERTIES
  EnterConfirmsAtOnce
  EveryRequestSettles
