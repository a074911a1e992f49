CONSTANTS
  Messages = {on, off}
  Late <- Pauses
  MaxTime = 33000
  MaxEvents = 3
  RecordAgain = TRUE
SPECIFICATION Spec
INVARIANTS
  StopWrites
