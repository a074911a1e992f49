CONSTANTS
  Processes = {p1}
  Docs = {d1, d2}
  NoFile = NoFile
  Blank = Blank
  CrashAt = {"idle", "clean", "save"}
  MaxContent = 2
  MaxIndex = 3
SPECIFICATION Spec
INVARIANTS
  CrashedWorkIsRecovered
