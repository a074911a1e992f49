CONSTANTS
  Signs = {s1}
  Lengths = {16}
  ShortestDotted = 16
  MaxVoices = 2
  MaxTime = 32
  MaxChord = 2
  DotAnyNote = FALSE
SPECIFICATION Spec
INVARIANTS SignsShared Linear WalkEnds
PROPERTY KeepsNotes
