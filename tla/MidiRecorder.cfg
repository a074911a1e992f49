CONSTANTS
  Messages = {on, off}
  Late <- Pauses
  MaxTime = 66000
  MaxEvents = 6
  RecordAgain = FALSE
SPECIFICATION Spec
INVARIANTS
  TypeOK
  ViewIsRight
  NothingMissed
  FileIsWhatWasHeard
