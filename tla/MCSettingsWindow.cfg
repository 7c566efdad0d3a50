SPECIFICATION Spec
CONSTANTS
  Absent = Absent
  Partial = Partial
  Rows <- MCRows
  Presses <- MCPresses
  Documents <- MCDocuments
  MaxEdits = 5
INVARIANTS
  FileIsWhole
PROPERTIES
  ModelBelongsToBackend
  SavedIsInEffect
  OnlyTouchedFieldsChange
