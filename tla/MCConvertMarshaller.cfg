SPECIFICATION FairSpec
CONSTANTS
  MaxStarts = 2
  MaxJobs = 3
  Faults = {"noThread"}
INVARIANTS
  PostsReachAWindow
  MessagesMatchResults
  RefsCountTheUsers
  ConversionsPinTheDll
PROPERTIES
  DeliversResults
  EveryJobIsAnswered
