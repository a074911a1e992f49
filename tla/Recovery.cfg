CONSTANTS
  Processes = {p1}
  Docs = {d1, d2}
  NoFile = NoFile
  Blank = Blank
  CrashAt = {"open", "idle"}
  MaxContent = 2
  MaxIndex = 3
SPECIFICATION Spec
INVARIANTS
  CrashedWorkIsRecovered
  CleanExitLeavesNone
  SavedIsComplete
PROPERTIES
  EventuallySaved
