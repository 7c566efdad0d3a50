SPECIFICATION Spec
CONSTANTS
  Copies = {old, new}
  NoCopy = NoCopy
  Categories = {keyboard, attributes}
  Faults = {"noKey", "noPath", "noProfiles", "noCategories", "noDelete", "killed"}
  Objects = {o1, o2, o3}
  MaxRefs = 2
  MaxLocks = 1
  MaxWorkers = 1
SYMMETRY Symmetry
INVARIANTS
  ListedIsLoadable
  AllOrNothing
  EnumeratorsMissNothing
PROPERTIES
  ImplementsPinnedDll
