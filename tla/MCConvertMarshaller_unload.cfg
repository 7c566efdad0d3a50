SPECIFICATION Spec
CONSTANTS
  MaxStarts = 2
  MaxJobs = 3
  Faults = {}
INVARIANTS
  ThreadsPinTheDll
