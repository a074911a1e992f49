CONSTANTS
  preview = preview
  print = print
  Exporters = {preview, print}
  Prints = {print}
  File <- OwnFiles
  Twice = {preview}
  MaxRequests = 4
  Hasty = TRUE
SPECIFICATION Spec
INVARIANTS
  AnswersAreRight
  OutputsRemoved
PROPERTIES
  Answered
CHECK_DEADLOCK FALSE
