CONSTANTS
  Sheets <- GoodSheets
  InitTimes = {0, 1, 2}
  EditAhead = FALSE
  Notes = {n1, n2}
  Others = {clef}
  n1 = n1
  n2 = n2
  clef = clef
  Length <- Lengths
  Lists <- Inserted
  FirstPitch <- Pitches
  MaxPitch = 2
  MaxInserts = 2
  ChangePlaying = FALSE
SPECIFICATION AllSpec
INVARIANTS
  AllTypeOK
  PlaysAsWritten
  EndsSilent
  SoundingIsPlaying
  NothingDeletedAhead
  ExportKeepsTime
  HeardArePlaying
  NotesKeepTime
PROPERTIES
  PlaybacksEnd
