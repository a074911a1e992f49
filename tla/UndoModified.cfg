CONSTANTS
  Docs = {d1, d2, d3}
  Stacks = {s1}
  Windows = {w1}
  Blank = a
  Scores = {a, b}
  Dedications = {FALSE}
  Names = {n1}
  NoDoc = NoDoc
  NoStack = NoStack
  NoName = NoName
  NoCommand = NoCommand
  NoFile = NoFile
  MaxCommands = 2
SPECIFICATION Spec
SYMMETRY Symmetry
VIEW View
INVARIANTS
  UnmodifiedIsSaved
