SPECIFICATION Spec
CONSTANTS
  Absent = Absent
  Partial = Partial
  Rows <- OneWayRows
  Presses <- AliasPresses
  Documents <- MCDocuments
  MaxEdits = 2
INVARIANTS RecordedKeyWorks
