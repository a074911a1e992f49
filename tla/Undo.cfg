CONSTANTS
  Docs = {d1, d2, d3, d4}
  Stacks = {s1, s2}
  Windows = {w1, w2}
  Blank = a
  Scores = {a, b}
  Dedications = {FALSE}
  Names = {n1}
  NoDoc = NoDoc
  NoStack = NoStack
  NoName = NoName
  NoCommand = NoCommand
  NoFile = NoFile
  MaxCommands = 2
SPECIFICATION Spec
SYMMETRY Symmetry
VIEW View
INVARIANTS
  TypeOK
  Chained
  VersionsDistinct
  NoDangling
  StackFound
  WindowsAgree
  CleanMeansSaved
PROPERTIES
  KeepsFileName
  KeepsHistory
