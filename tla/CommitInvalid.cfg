CONSTANTS
  Docs = {d1, d2, d3, d4}
  Stacks = {s1}
  Windows = {w1}
  Blank = a
  Scores = {a, b}
  Dedications = {FALSE}
  Names = {n1}
  NoDoc = NoDoc
  NoStack = NoStack
  NoName = NoName
  NoCommand = NoCommand
  NoFile = NoFile
  MaxCommands = 2
  CommitAfterUndo = FALSE
  PushLate = FALSE
SPECIFICATION CallersSpec
SYMMETRY Symmetry
VIEW View
INVARIANTS
  ShowsLiveDocument
CHECK_DEADLOCK FALSE
