--------------------------- MODULE PlayNowProofs ---------------------------
(***************************************************************************)
(* Proofs about PlayNow, for any notes, lengths and number of insertions:   *)
(* the thread that empties the list which the window fills turns every     *)
(* note off, at its time.  And the theorems about the playback of a sheet. *)
(***************************************************************************)
EXTENDS PlayNow, PlaybackProofs

\* The loop has been left, or not begun, with nothing playing.
NoneLeft == now \in {"none", "leave", "finished"} => nowPlaying = << >>

\* In the walk over the notes, those that were looked at are not yet due, and
\* none is over time.
NotLate ==
  /\ index >= 1
  /\ \A k \in DOMAIN nowPlaying :
       /\ timeEnds[k] <= nowTime + Length[nowPlaying[k]]
       /\ now \in {"test", "fill", "off"} => nowTime <= timeEnds[k]
       /\ now = "off" /\ k < index => nowTime < timeEnds[k]

IInv == NotesTypeOK /\ NoneLeft /\ NotLate

-----------------------------------------------------------------------------
(* What the operations on the two lists do.                                *)

\* A list with one more element, and without its first.
LEMMA OneMore ==
  ASSUME NEW S, NEW s \in Seq(S), NEW x \in S
  PROVE  /\ Append(s, x) \in Seq(S)
         /\ Range(Append(s, x)) = Range(s) \cup {x}
<1>1. /\ Append(s, x) \in Seq(S) /\ Len(Append(s, x)) = Len(s) + 1
      /\ \A j \in 1 .. Len(s) : Append(s, x)[j] = s[j]
      /\ Append(s, x)[Len(s) + 1] = x
  OBVIOUS
<1> DEFINE t == Append(s, x)
<1> HIDE DEF t
<1>2. Range(t) \subseteq Range(s) \cup {x}
  <2> SUFFICES ASSUME NEW j \in 1 .. Len(s) + 1
               PROVE  t[j] \in Range(s) \cup {x}
    BY <1>1 DEF Range, t
  <2>1. CASE j \in 1 .. Len(s)
    BY <1>1, <2>1 DEF Range, t
  <2>2. CASE j = Len(s) + 1
    BY <1>1, <2>2 DEF t
  <2> QED
    BY <2>1, <2>2
<1>3. Range(s) \subseteq Range(t)
  BY <1>1 DEF Range, t
<1>4. x \in Range(t)
  BY <1>1 DEF Range, t
<1> QED
  BY <1>1, <1>2, <1>3, <1>4 DEF t

LEMMA FirstAndRest ==
  ASSUME NEW S, NEW s \in Seq(S), s # << >>
  PROVE  /\ Head(s) \in S /\ Tail(s) \in Seq(S)
         /\ Range(s) = {Head(s)} \cup Range(Tail(s))
<1>1. /\ Head(s) \in S /\ Head(s) = s[1] /\ Len(s) >= 1
      /\ Tail(s) \in Seq(S) /\ Len(Tail(s)) = Len(s) - 1
      /\ \A j \in 1 .. Len(s) - 1 : Tail(s)[j] = s[j + 1]
  OBVIOUS
<1> DEFINE t == Tail(s)
           h == Head(s)
<1> HIDE DEF t, h
<1>2. Range(t) \subseteq Range(s)
  BY <1>1 DEF Range, t
<1>3. h \in Range(s)
  BY <1>1 DEF Range, h
<1>4. Range(s) \subseteq {h} \cup Range(t)
  <2> SUFFICES ASSUME NEW j \in 1 .. Len(s), j # 1
               PROVE  s[j] \in Range(t)
    BY <1>1 DEF Range, h
  <2>1. j - 1 \in 1 .. Len(s) - 1 /\ t[j - 1] = s[j]
    BY <1>1 DEF t
  <2>2. DOMAIN t = 1 .. Len(s) - 1
    BY <1>1 DEF t
  <2> QED
    BY <2>1, <2>2 DEF Range
<1> QED
  BY <1>1, <1>2, <1>3, <1>4 DEF t, h

-----------------------------------------------------------------------------
(* The invariant: types, and the notes that play against their times.      *)

LEMMA InitInvariant == AllInit => IInv
<1> SUFFICES ASSUME AllInit PROVE IInv
  OBVIOUS
<1>1. DOMAIN nowPlaying = {}
  BY DEF AllInit, NotesInit
<1>2. NotesTypeOK
  BY NotesAssumption DEF AllInit, NotesInit, NotesTypeOK
<1> QED
  BY <1>1, <1>2 DEF AllInit, NotesInit, IInv, NoneLeft, NotLate

\* What leaves the variables of the notes alone leaves the invariant.
LEMMA Unchanged == IInv /\ UNCHANGED nowVars => IInv'
BY DEF IInv, NotesTypeOK, NoneLeft, NotLate, nowVars, loopVars, noteVars

\* Steps after which the lists of what plays are what they were.
LEMMA ThreadMoves ==
  ASSUME IInv, NowTest \/ AllTaken \/ NoteGoesOn \/ Sleep \/ Leave
  PROVE  IInv'
<1> USE DEF IInv
<1>1. UNCHANGED <<selection, nowPlaying, timeEnds, heard, noteVars>>
  BY DEF NowTest, AllTaken, NoteGoesOn, Sleep, Leave
<1>2. CASE NowTest
  <2>1. NotesTypeOK'
    BY <1>1, <1>2 DEF NowTest, NotesTypeOK, NowRunning, noteVars
  <2>2. NoneLeft'
    BY <1>1, <1>2 DEF NowTest, NoneLeft
  <2>3. NotLate'
    BY <1>1, <1>2 DEF NowTest, NotLate
  <2> QED
    BY <2>1, <2>2, <2>3
<1>3. CASE AllTaken
  <2>1. NotesTypeOK'
    BY <1>1, <1>3 DEF AllTaken, NotesTypeOK, NowRunning, noteVars
  <2>2. NoneLeft'
    BY <1>1, <1>3 DEF AllTaken, NoneLeft
  <2>3. NotLate'
    BY <1>1, <1>3 DEF AllTaken, NotLate, NotesTypeOK
  <2> QED
    BY <2>1, <2>2, <2>3
<1>4. CASE NoteGoesOn
  <2>1. NotesTypeOK'
    BY <1>1, <1>4 DEF NoteGoesOn, NotesTypeOK, NowRunning, noteVars
  <2>2. NoneLeft'
    BY <1>1, <1>4 DEF NoteGoesOn, NoneLeft
  <2>3. index \in DOMAIN nowPlaying /\ timeEnds[index] \in Nat /\ nowTime < timeEnds[index]
    BY <1>4 DEF NoteGoesOn, NotesTypeOK, NotLate, Due
  <2>4. NotLate'
    BY <1>1, <1>4, <2>3, SMTT(30) DEF NoteGoesOn, NotLate, NotesTypeOK
  <2> QED
    BY <2>1, <2>2, <2>4
<1>5. CASE Sleep
  <2>1. NotesTypeOK'
    BY <1>1, <1>5 DEF Sleep, NotesTypeOK, NowRunning, noteVars
  <2>2. NoneLeft'
    BY <1>1, <1>5 DEF Sleep, NoneLeft
  <2>3. ASSUME NEW k \in DOMAIN nowPlaying
        PROVE  /\ timeEnds[k] <= nowTime + 1 + Length[nowPlaying[k]]
               /\ nowTime + 1 <= timeEnds[k]
    <3>1. k < index /\ timeEnds[k] \in Nat /\ nowPlaying[k] \in Notes
      BY <1>5 DEF Sleep, NotesTypeOK
    <3>2. Length[nowPlaying[k]] \in Nat
      BY <3>1, NotesAssumption
    <3>3. nowTime < timeEnds[k] /\ timeEnds[k] <= nowTime + Length[nowPlaying[k]]
      BY <1>5, <3>1 DEF Sleep, NotLate
    <3> QED
      BY <3>1, <3>2, <3>3, SMTT(30) DEF NotesTypeOK
  <2>4. NotLate'
    BY <1>1, <1>5, <2>3 DEF Sleep, NotLate
  <2> QED
    BY <2>1, <2>2, <2>4
<1>6. CASE Leave
  <2>1. NotesTypeOK'
    BY <1>1, <1>6 DEF Leave, NotesTypeOK, NowRunning, noteVars
  <2>2. NoneLeft'
    BY <1>1, <1>6 DEF Leave, NoneLeft
  <2>3. NotLate'
    BY <1>1, <1>6 DEF Leave, NotLate
  <2> QED
    BY <2>1, <2>2, <2>3
<1> QED
  BY <1>2, <1>3, <1>4, <1>5, <1>6

LEMMA TakeInvariant == ASSUME IInv, TakeNote PROVE IInv'
<1> USE DEF IInv
<1> DEFINE e == Head(selection)
<1>1. e \in Notes \cup Others /\ Tail(selection) \in Seq(Notes \cup Others)
  BY FirstAndRest DEF TakeNote, NotesTypeOK
<1>2. CASE e \notin Notes
  <2>1. UNCHANGED <<now, nowPlaying, timeEnds, nowTime, index, heard, noteVars>>
    BY <1>2 DEF TakeNote
  <2>2. NotesTypeOK'
    BY <1>1, <2>1 DEF TakeNote, NotesTypeOK, noteVars
  <2> QED
    BY <2>1, <2>2 DEF NoneLeft, NotLate
<1>3. CASE e \in Notes
  <2>1. /\ nowPlaying' = Append(nowPlaying, e)
        /\ timeEnds' = Append(timeEnds, nowTime + Length[e])
        /\ heard' = heard \cup {pitch[e]}
        /\ now = "fill" /\ UNCHANGED <<now, nowTime, index, noteVars>>
    BY <1>3 DEF TakeNote
  <2>2. Length[e] \in Nat /\ pitch[e] \in Nat /\ nowTime + Length[e] \in Nat
    BY <1>3, NotesAssumption DEF NotesTypeOK
  <2> HIDE DEF e
  <2>3. /\ nowPlaying' \in Seq(Notes) /\ Len(nowPlaying') = Len(nowPlaying) + 1
        /\ \A k \in 1 .. Len(nowPlaying) : nowPlaying'[k] = nowPlaying[k]
        /\ nowPlaying'[Len(nowPlaying) + 1] = e
    BY <1>3, <2>1 DEF NotesTypeOK
  <2>4. /\ timeEnds' \in Seq(Nat) /\ Len(timeEnds') = Len(nowPlaying) + 1
        /\ \A k \in 1 .. Len(nowPlaying) : timeEnds'[k] = timeEnds[k]
        /\ timeEnds'[Len(nowPlaying) + 1] = nowTime + Length[e]
    BY <2>1, <2>2 DEF NotesTypeOK
  <2>5. NotesTypeOK'
    <3>1. selection' \in Seq(Notes \cup Others)
      BY <1>1 DEF TakeNote
    <3> QED
      BY <2>1, <2>2, <2>3, <2>4, <3>1 DEF NotesTypeOK, noteVars
  <2>6. NoneLeft'
    BY <2>1 DEF NoneLeft
  <2>7. ASSUME NEW k \in 1 .. Len(nowPlaying) + 1
        PROVE  /\ timeEnds'[k] <= nowTime + Length[nowPlaying'[k]]
               /\ nowTime <= timeEnds'[k]
    <3>1. CASE k = Len(nowPlaying) + 1
      BY <2>2, <2>3, <2>4, <3>1 DEF NotesTypeOK
    <3>2. CASE k \in 1 .. Len(nowPlaying)
      <4>1. k \in DOMAIN nowPlaying
        BY <3>2 DEF NotesTypeOK
      <4> QED
        BY <2>1, <2>3, <2>4, <3>2, <4>1 DEF NotLate
    <3> QED
      BY <3>1, <3>2 DEF NotesTypeOK
  <2>8. DOMAIN nowPlaying' = 1 .. Len(nowPlaying) + 1
    BY <2>3
  <2>9. NotLate'
    BY <2>1, <2>7, <2>8 DEF NotLate
  <2> QED
    BY <2>5, <2>6, <2>9
<1> QED
  BY <1>2, <1>3

LEMMA EndsInvariant == ASSUME IInv, NoteEnds PROVE IInv'
<1> USE DEF IInv
<1> DEFINE n == Len(nowPlaying)
<1>1. /\ index \in 1 .. n /\ n = Len(timeEnds) /\ now = "off"
      /\ UNCHANGED <<now, selection, nowTime, index, noteVars>>
      /\ heard' = heard \ {pitch[nowPlaying[index]]}
      /\ nowPlaying' = RemoveAt(nowPlaying, index)
      /\ timeEnds' = RemoveAt(timeEnds, index)
  BY DEF NoteEnds, Silences, TimesAfter, NotesTypeOK, NotLate
<1>2. /\ nowPlaying' \in Seq(Notes) /\ Len(nowPlaying') = n - 1
      /\ \A k \in 1 .. n - 1 :
           nowPlaying'[k] = IF k < index THEN nowPlaying[k] ELSE nowPlaying[k + 1]
  BY <1>1, WithoutOne DEF NotesTypeOK
<1>3. /\ timeEnds' \in Seq(Nat) /\ Len(timeEnds') = n - 1
      /\ \A k \in 1 .. n - 1 :
           timeEnds'[k] = IF k < index THEN timeEnds[k] ELSE timeEnds[k + 1]
  <2>1. timeEnds \in Seq(Nat) /\ index \in 1 .. Len(timeEnds)
    BY <1>1 DEF NotesTypeOK
  <2>2. /\ RemoveAt(timeEnds, index) \in Seq(Nat)
        /\ Len(RemoveAt(timeEnds, index)) = Len(timeEnds) - 1
        /\ \A k \in 1 .. Len(timeEnds) - 1 :
             RemoveAt(timeEnds, index)[k] = IF k < index THEN timeEnds[k] ELSE timeEnds[k + 1]
    BY <2>1, WithoutOne
  <2> QED
    BY <1>1, <2>2
<1>4. NotesTypeOK'
  BY <1>1, <1>2, <1>3 DEF NotesTypeOK, noteVars
<1>5. NoneLeft'
  BY <1>1 DEF NoneLeft
<1>6. ASSUME NEW k \in 1 .. n - 1
      PROVE  /\ timeEnds'[k] <= nowTime + Length[nowPlaying'[k]]
             /\ nowTime <= timeEnds'[k]
             /\ k < index => nowTime < timeEnds'[k]
  <2>1. n \in Nat
    BY DEF NotesTypeOK
  <2>2. CASE k < index
    <3>1. k \in DOMAIN nowPlaying
      BY <2>1 DEF NotesTypeOK
    <3> QED
      BY <1>1, <1>2, <1>3, <2>2, <3>1 DEF NotLate
  <2>3. CASE ~(k < index)
    <3>1. k + 1 \in DOMAIN nowPlaying
      BY <2>1 DEF NotesTypeOK
    <3> QED
      BY <1>1, <1>2, <1>3, <2>3, <3>1 DEF NotLate
  <2> QED
    BY <2>2, <2>3
<1>7. DOMAIN nowPlaying' = 1 .. n - 1
  BY <1>2
<1>8. NotLate'
  BY <1>1, <1>6, <1>7 DEF NotLate
<1> QED
  BY <1>4, <1>5, <1>8

\* playImmediately: a thread that is started finds nothing that plays.
LEMMA PlayInvariant ==
  ASSUME IInv, NEW s \in Seq(Notes \cup Others), PlayImmediately(s),
         pitch' \in [Notes -> Nat]
  PROVE  IInv'
<1> USE DEF IInv
<1>1. selection' \in Seq(Notes \cup Others)
  BY Joined DEF PlayImmediately, NotesTypeOK
<1>2. UNCHANGED <<nowPlaying, index, heard, gone>> /\ inserts' \in Nat
  BY DEF PlayImmediately, NotesTypeOK
<1>3. CASE now \in NowRunning
  <2>1. UNCHANGED <<now, nowTime, timeEnds>>
    BY <1>3 DEF PlayImmediately
  <2>2. NotesTypeOK'
    BY <1>1, <1>2, <2>1 DEF NotesTypeOK
  <2> QED
    BY <1>2, <2>1, <2>2 DEF NoneLeft, NotLate
<1>4. CASE now \notin NowRunning
  <2>1. now' = "test" /\ nowTime' = 0 /\ timeEnds' = << >>
    BY <1>4 DEF PlayImmediately
  <2>2. nowPlaying = << >>
    BY <1>4 DEF NoneLeft, NotesTypeOK
  <2>3. NotesTypeOK'
    BY <1>1, <1>2, <2>1, <2>2 DEF NotesTypeOK, NowRunning
  <2>4. DOMAIN nowPlaying' = {}
    BY <1>2, <2>2
  <2> QED
    BY <1>2, <2>1, <2>3, <2>4 DEF NoneLeft, NotLate
<1> QED
  BY <1>3, <1>4

\* The other handlers of the window leave the lists alone, or empty them.
LEMMA WindowInvariant == ASSUME IInv, NotesWindow PROVE IInv'
<1> USE DEF IInv
<1>1. ASSUME NEW s \in Lists, Insert(s) PROVE IInv'
  <2>1. s \in Seq(Notes \cup Others) /\ PlayImmediately(s) /\ pitch' \in [Notes -> Nat]
    BY <1>1, NotesAssumption DEF Insert, NotesTypeOK
  <2> QED
    BY <2>1, PlayInvariant
<1>2. ASSUME NEW n \in Notes, ChangePitch(n) PROVE IInv'
  <2>1. <<n>> \in Seq(Notes \cup Others) /\ PlayImmediately(<<n>>)
    BY <1>2 DEF ChangePitch
  <2>2. pitch' \in [Notes -> Nat]
    BY <1>2 DEF ChangePitch, NotesTypeOK
  <2> QED
    BY <2>1, <2>2, PlayInvariant
<1>3. ASSUME NEW n \in Notes, DeleteNote(n) PROVE IInv'
  <2>1. NotesTypeOK'
    BY <1>3 DEF DeleteNote, NotesTypeOK, loopVars
  <2> QED
    BY <1>3, <2>1 DEF DeleteNote, loopVars, NoneLeft, NotLate
<1>4. CASE StopNotes
  BY <1>4, Unchanged DEF StopNotes
<1>5. CASE StopNotesNow
  BY <1>5, Unchanged DEF StopNotesNow
<1>6. CASE NotesFinished
  <2>1. NotesTypeOK' /\ DOMAIN nowPlaying' = {}
    BY <1>6 DEF NotesFinished, NotesTypeOK, NowRunning
  <2> QED
    BY <1>6, <2>1 DEF NotesFinished, NoneLeft, NotLate
<1>7. CASE CloseNotes
  <2>1. NotesTypeOK'
    BY <1>7 DEF CloseNotes, NotesTypeOK, loopVars
  <2> QED
    BY <1>7, <2>1 DEF CloseNotes, loopVars, NoneLeft, NotLate
<1> QED
  BY <1>1, <1>2, <1>3, <1>4, <1>5, <1>6, <1>7 DEF NotesWindow

LEMMA NextInvariant == IInv /\ [AllNext]_allVars => IInv'
<1> SUFFICES ASSUME IInv, [AllNext]_allVars PROVE IInv'
  OBVIOUS
<1>1. CASE SheetNext
  BY <1>1, Unchanged DEF SheetNext
<1>2. CASE NotesThread
  BY <1>2, ThreadMoves, TakeInvariant, EndsInvariant DEF NotesThread
<1>3. CASE NotesWindow
  BY <1>3, WindowInvariant
<1>4. CASE UNCHANGED allVars
  BY <1>4, Unchanged DEF allVars
<1> QED
  BY <1>1, <1>2, <1>3, <1>4 DEF AllNext

\* The types of the playback of notes, and where its notes stand against their
\* times, hold always.
THEOREM NotesInvariant == AllSpec => []IInv
<1>1. AllInit => IInv
  BY InitInvariant
<1>2. IInv /\ [AllNext]_allVars => IInv'
  BY NextInvariant
<1> QED
  BY <1>1, <1>2, PTL DEF AllSpec

\* Every note that plays is turned off at its time, unless all are stopped:
\* the two lists of playSelectionImpl (playback.cpp:285) stay in step.
THEOREM NotesEndInTime == AllSpec => []NotesKeepTime
<1>1. IInv => NotesKeepTime
  BY DEF IInv, NotLate, NotesKeepTime
<1> QED
  BY <1>1, NotesInvariant, PTL

-----------------------------------------------------------------------------
(* What the device was told.                                               *)

\* A pitch that sounds is that of a note that plays, whatever a step does, if
\* the pitch of a note is not changed while it sounds.
LEMMA HeardStep ==
  ASSUME ~ChangePlaying, IInv, HeardArePlaying, [AllNext]_allVars
  PROVE  HeardArePlaying'
<1> USE DEF IInv
<1> DEFINE Known == HeardArePlaying
<1>1. ASSUME UNCHANGED <<heard, nowPlaying, pitch>> PROVE Known'
  BY <1>1 DEF HeardArePlaying
<1>2. CASE TakeNote
  <2>1. CASE Head(selection) \notin Notes
    BY <1>1, <1>2, <2>1 DEF TakeNote, noteVars
  <2>2. CASE Head(selection) \in Notes
    <3>1. /\ nowPlaying' = Append(nowPlaying, Head(selection))
          /\ heard' = heard \cup {pitch[Head(selection)]} /\ UNCHANGED pitch
      BY <1>2, <2>2 DEF TakeNote, noteVars
    <3>2. Range(nowPlaying') = Range(nowPlaying) \cup {Head(selection)}
      BY <2>2, <3>1, OneMore DEF NotesTypeOK
    <3> QED
      BY <3>1, <3>2 DEF HeardArePlaying
  <2> QED
    BY <2>1, <2>2
<1>3. CASE NoteEnds
  <2>1. /\ index \in 1 .. Len(nowPlaying) /\ UNCHANGED pitch
        /\ heard' = heard \ {pitch[nowPlaying[index]]}
        /\ nowPlaying' = RemoveAt(nowPlaying, index)
    BY <1>3 DEF NoteEnds, Silences, NotesTypeOK, NotLate, noteVars
  <2>2. \A n \in Range(nowPlaying) : n # nowPlaying[index] => n \in Range(nowPlaying')
    BY <2>1, LeftOver DEF NotesTypeOK
  <2> QED
    BY <2>1, <2>2 DEF HeardArePlaying
<1>4. ASSUME NEW n \in Notes, ChangePitch(n) PROVE Known'
  <2>1. n \notin Range(nowPlaying) /\ UNCHANGED <<heard, nowPlaying>>
    BY <1>4 DEF ChangePitch, PlayImmediately
  <2>2. \A m \in Range(nowPlaying) : pitch'[m] = pitch[m]
    <3>1. Range(nowPlaying) \subseteq Notes
      BY DEF NotesTypeOK, Range
    <3> QED
      BY <1>4, <2>1, <3>1 DEF ChangePitch, NotesTypeOK
  <2> QED
    BY <2>1, <2>2 DEF HeardArePlaying
<1>5. CASE NotesFinished
  BY <1>5 DEF NotesFinished, HeardArePlaying
<1>6. CASE NowTest \/ AllTaken \/ NoteGoesOn \/ Sleep \/ Leave
  BY <1>1, <1>6 DEF NowTest, AllTaken, NoteGoesOn, Sleep, Leave, noteVars
<1>7. ASSUME NEW s \in Lists, Insert(s) PROVE Known'
  BY <1>1, <1>7 DEF Insert, PlayImmediately
<1>8. ASSUME NEW n \in Notes, DeleteNote(n) PROVE Known'
  BY <1>1, <1>8 DEF DeleteNote, loopVars
<1>9. CASE StopNotes \/ StopNotesNow \/ CloseNotes
  BY <1>1, <1>9 DEF StopNotes, StopNotesNow, CloseNotes, loopVars, nowVars, noteVars
<1>10. CASE SheetNext \/ UNCHANGED allVars
  BY <1>1, <1>10 DEF SheetNext, allVars, nowVars, loopVars, noteVars
<1> QED
  BY <1>2, <1>3, <1>4, <1>5, <1>6, <1>7, <1>8, <1>9, <1>10
     DEF AllNext, NotesThread, NotesWindow

\* However a playback of notes ends, it leaves none sounding (playback.cpp:327),
\* if the pitch of a note is not changed while it sounds.
THEOREM NoneStaysOn == ~ChangePlaying /\ AllSpec => []HeardArePlaying
<1> SUFFICES ASSUME ~ChangePlaying PROVE AllSpec => []HeardArePlaying
  OBVIOUS
<1>1. AllInit => HeardArePlaying
  BY DEF AllInit, NotesInit, HeardArePlaying
<1>2. IInv /\ HeardArePlaying /\ [AllNext]_allVars => HeardArePlaying'
  BY HeardStep
<1> QED
  BY <1>1, <1>2, NotesInvariant, PTL DEF AllSpec

-----------------------------------------------------------------------------
(* The playback of a sheet, which takes turns with that of notes.          *)

\* A window has one playback.
TakeTurns == thread # "none" => now = "none"

\* A step of the playback of notes, or of nothing.
NotesOnly ==
  /\ UNCHANGED sheetVars
  /\ now = "none" /\ thread # "none" => UNCHANGED flags

LEMMA StepIs == [AllNext]_allVars => Next \/ NotesOnly
<1> SUFFICES ASSUME [AllNext]_allVars PROVE Next \/ NotesOnly
  OBVIOUS
<1>1. CASE SheetNext
  BY <1>1 DEF SheetNext
<1>2. CASE NotesThread
  <2>1. UNCHANGED sheetVars /\ now # "none"
    BY <1>2 DEF NotesThread, NowTest, TakeNote, AllTaken, NoteEnds, NoteGoesOn, Sleep, Leave
  <2> QED
    BY <2>1 DEF NotesOnly
<1>3. CASE NotesWindow
  <2>1. UNCHANGED sheetVars /\ (UNCHANGED flags \/ now # "none")
    BY <1>3 DEF NotesWindow, Insert, ChangePitch, PlayImmediately, DeleteNote, StopNotes,
                StopNotesNow, NotesFinished, CloseNotes, NowRunning
  <2> QED
    BY <2>1 DEF NotesOnly
<1>4. CASE UNCHANGED allVars
  BY <1>4 DEF allVars, vars, windowVars, NotesOnly, sheetVars, flags
<1> QED
  BY <1>1, <1>2, <1>3, <1>4 DEF AllNext

LEMMA TurnsStep == TakeTurns /\ [AllNext]_allVars => TakeTurns'
<1> SUFFICES ASSUME TakeTurns, [AllNext]_allVars PROVE TakeTurns'
  OBVIOUS
<1>1. CASE SheetNext
  BY <1>1 DEF SheetNext, nowVars, loopVars, TakeTurns
<1>2. CASE NotesThread
  BY <1>2 DEF NotesThread, sheetVars, TakeTurns, NowTest, TakeNote, AllTaken, NoteEnds,
              NoteGoesOn, Sleep, Leave
<1>3. CASE NotesWindow
  BY <1>3 DEF NotesWindow, sheetVars, TakeTurns, Insert, ChangePitch, PlayImmediately,
              DeleteNote, StopNotes, StopNotesNow, NotesFinished, CloseNotes, nowVars, loopVars
<1>4. CASE UNCHANGED allVars
  BY <1>4 DEF allVars, vars, nowVars, loopVars, TakeTurns
<1> QED
  BY <1>1, <1>2, <1>3, <1>4 DEF AllNext

LEMMA NotesFlags == Flags /\ [AllNext]_allVars => Flags'
<1> SUFFICES ASSUME Flags, [AllNext]_allVars PROVE Flags'
  OBVIOUS
<1>0. UNCHANGED <<stop, stopLock, posted>> => Flags'
  BY DEF Flags
<1>1. CASE SheetNext
  BY <1>1, FlagsStep DEF SheetNext
<1>2. CASE NotesThread
  <2>1. UNCHANGED flags \/ (stop' = TRUE /\ posted' = TRUE /\ UNCHANGED stopLock)
    BY <1>2 DEF NotesThread, NowTest, TakeNote, AllTaken, NoteEnds, NoteGoesOn, Sleep, Leave
  <2> QED
    BY <1>0, <2>1 DEF flags, Flags
<1>3. CASE NotesWindow
  <2>1. CASE StopNotes \/ StopNotesNow \/ NotesFinished
    BY <2>1 DEF Flags, StopNotes, StopNotesNow, NotesFinished
  <2>2. CASE ~(StopNotes \/ StopNotesNow \/ NotesFinished)
    <3>1. UNCHANGED flags
      BY <1>3, <2>2 DEF NotesWindow, Insert, ChangePitch, PlayImmediately, DeleteNote,
                        CloseNotes
    <3> QED
      BY <1>0, <3>1 DEF flags
  <2> QED
    BY <2>1, <2>2
<1>4. CASE UNCHANGED allVars
  <2>1. UNCHANGED <<stop, stopLock, posted>>
    BY <1>4 DEF allVars, vars, windowVars
  <2> QED
    BY <1>0, <2>1
<1> QED
  BY <1>1, <1>2, <1>3, <1>4 DEF AllNext

\* What leaves the sheet's playback alone leaves what is known of it.
LEMMA SheetStays == SheetInv /\ UNCHANGED sheetVars => SheetInv'
<1> SUFFICES ASSUME SheetInv, UNCHANGED sheetVars PROVE SheetInv'
  OBVIOUS
<1>1. /\ UNCHANGED <<thread, sheet, initTime, asked, deleted, curTime, streamIdx>>
      /\ UNCHANGED <<lastRepeatOpenIdx, repeating, curPlaying, next, sounding, performed>>
      /\ UNCHANGED <<elapsed, export>>
  BY DEF sheetVars, threadVars
<1>2. /\ Voices' = Voices /\ Positions' = Positions
      /\ \A p : At(p)' = At(p)
      /\ \A i, o, j : OpenOrNone(i, o, j)' = OpenOrNone(i, o, j)
  BY <1>1, SameSheet
<1>3. Values'
  BY <1>1 DEF SheetInv, Values
<1>4. ListsOK'
  BY <1>1, <1>2 DEF SheetInv, ListsOK
<1>5. StreamsOK'
  BY <1>1, <1>2 DEF SheetInv, StreamsOK, Present, Streams, Fresh
<1>6. NoneOver'
  BY <1>1, <1>2 DEF SheetInv, NoneOver, Present
<1> QED
  BY <1>3, <1>4, <1>5, <1>6 DEF SheetInv

SheetNow == SheetInv /\ Flags /\ TakeTurns

\* The lists and positions of the walk are in the sheet, what plays is not over
\* when the walk goes on, and a window has one playback.
THEOREM SheetInvariant == AllSpec => []SheetNow
<1>1. AllInit => SheetNow
  BY SheetInit DEF AllInit, Init, InitPlayback, SheetNow, Flags, TakeTurns
<1>2. SheetNow /\ [AllNext]_allVars => SheetNow'
  BY StepIs, SheetStep, SheetStays, TurnsStep, NotesFlags DEF SheetNow, NotesOnly
<1> QED
  BY <1>1, <1>2, PTL DEF AllSpec

\* The types of both playbacks.
THEOREM AllTypes == AllSpec => []AllTypeOK
<1>1. SheetNow /\ IInv => AllTypeOK
  BY SheetTypes DEF SheetNow, IInv, AllTypeOK
<1> QED
  BY <1>1, SheetInvariant, NotesInvariant, PTL

\* A note that sounds is one the thread has in _curPlaying, or it is tied to
\* one that comes: stops, jumps and walks forget none (playback.cpp:149).
THEOREM NoSoundForgotten == AllSpec => []SoundingIsPlaying
<1>1. AllInit => SoundingInv
  BY DEF AllInit, Init, InitPlayback, SoundingInv
<1>2. SheetNow /\ SoundingInv /\ [AllNext]_allVars => SoundingInv'
  <2>1. SoundingInv /\ NotesOnly => SoundingInv'
    BY SoundingStays DEF NotesOnly, sheetVars, threadVars
  <2> QED
    BY <2>1, StepIs, SoundingStep DEF SheetNow
<1> QED
  BY <1>1, <1>2, SheetInvariant, SoundingImplies, PTL DEF AllSpec

\* The thread meets no deleted element, also when it jumps back, if only those
\* are deleted that it will not come back to (mainwin.cpp:5734).
THEOREM NoDeletedElement == ~EditAhead /\ AllSpec => []NothingDeletedAhead
<1> SUFFICES ASSUME ~EditAhead PROVE AllSpec => []NothingDeletedAhead
  OBVIOUS
<1>1. AllInit => DeletedInv
  BY DEF AllInit, Init, InitPlayback, DeletedInv
<1>2. SheetNow /\ DeletedInv /\ [AllNext]_allVars => DeletedInv'
  <2>1. DeletedInv /\ NotesOnly => DeletedInv'
    BY DEF NotesOnly, sheetVars, threadVars, DeletedInv, Present, Voices, OfKind
  <2> QED
    BY <2>1, StepIs, DeletedStep DEF SheetNow
<1> QED
  BY <1>1, <1>2, SheetInvariant, DeletedImplies, PTL DEF AllSpec

-----------------------------------------------------------------------------
(* A sheet of well-made voices that nobody stopped.                        *)

\* A step that leaves the playback alone.
LEMMA WalkStutter ==
  ASSUME SheetInv, SheetInv', WalkInv, UNCHANGED vars
  PROVE  WalkInv'
<1> USE DEF vars, threadVars, windowVars
<1> SUFFICES ASSUME ~asked PROVE WalkParts'
  BY DEF WalkInv
<1>1. WalkParts
  BY DEF WalkInv
<1>2. CASE ~Present'
  BY <1>2, NothingYet, PTL
<1>3. CASE Present'
  <2>1. Present /\ GoesOn
    BY <1>3 DEF Present, GoesOn, Settled
  <2>2. Walks' /\ Heard' /\ RepeatInv'
    BY <1>1, <2>1, WalkStays
  <2>3. \A i : InStep(i)' <=> InStep(i)
    BY InStepStays
  <2>4. EndsAlone'
    <3>1. EndsAlone /\ Voices' = Voices
      BY <1>1, SameSheet DEF WalkParts
    <3> QED
      BY <2>1, <2>3, <3>1 DEF EndsAlone, Present
  <2> QED
    BY <2>2, <2>4 DEF WalkParts
<1> QED
  BY <1>2, <1>3

\* A step of the playback of notes, while there is a sheet's playback, leaves
\* all of it alone.
LEMMA WalkWaits ==
  ASSUME SheetNow, WalkInv, NotesOnly
  PROVE  WalkInv'
<1>1. SheetInv' /\ thread' = thread /\ UNCHANGED sheetVars
  BY SheetStays DEF SheetNow, NotesOnly, sheetVars
<1>2. CASE thread = "none"
  <2>1. ~Present'
    BY <1>1, <1>2 DEF SheetInv, NoneOver
  <2>2. WalkParts'
    BY <1>1, <2>1, NothingYet, PTL
  <2> QED
    BY <2>2 DEF WalkInv
<1>3. CASE thread # "none"
  <2>1. UNCHANGED vars
    BY <1>1, <1>3 DEF SheetNow, TakeTurns, NotesOnly, sheetVars, flags, vars, threadVars,
                      windowVars
  <2> QED
    BY <1>1, <2>1, WalkStutter DEF SheetNow
<1> QED
  BY <1>2, <1>3

\* What a walk that nobody stops keeps true, also while notes are played.
LEMMA WalkKept ==
  AllSpec /\ (\A sh \in Sheets : WellMade(sh)) => [](SheetNow /\ WalkInv)
<1> SUFFICES ASSUME \A sh \in Sheets : WellMade(sh) PROVE AllSpec => [](SheetNow /\ WalkInv)
  OBVIOUS
<1>1. AllInit => WalkInv
  <2> SUFFICES ASSUME AllInit PROVE WalkInv
    OBVIOUS
  <2>1. SheetInv /\ ~Present
    BY SheetInit DEF AllInit, Init, InitPlayback, Present
  <2> QED
    BY <2>1, NothingYet DEF WalkInv
<1>2. SheetNow /\ WalkInv /\ [AllNext]_allVars => WalkInv'
  <2>1. SheetInv => WellMade(sheet)
    BY DEF SheetInv, Values
  <2> QED
    BY <2>1, StepIs, WalkStep, WalkWaits DEF SheetNow
<1> QED
  BY <1>1, <1>2, SheetInvariant, PTL DEF AllSpec

\* A playback that nobody stops turns off every note it turned on, whatever
\* ties, chords and repeats the sheet has, if its voices are without gaps, their
\* ties end, and they mark the one repeat in the same places.
THEOREM NoteOffForEach ==
  AllSpec /\ (\A sh \in Sheets : WellMade(sh)) => []EndsSilent
<1>1. SheetNow /\ WalkInv => EndsSilent
  BY SilentImplies DEF SheetNow
<1> QED
  BY <1>1, WalkKept, PTL

\* The playback of notes plays nothing of the sheet.
LEMMA PlayWaits ==
  ASSUME SheetNow, PlayInv, NotesOnly
  PROVE  PlayInv'
<1>1. /\ UNCHANGED sheetVars /\ Present' = Present
      /\ UNCHANGED <<sheet, initTime, curTime, streamIdx, repeating, curPlaying, performed, asked>>
  BY DEF NotesOnly, sheetVars, threadVars, Present
<1> SUFFICES ASSUME ~asked', NothingAcross' PROVE PlayParts'
  BY DEF PlayInv
<1>2. PlayParts
  BY <1>1, SameParts DEF PlayInv
<1>3. CASE Present
  BY <1>1, <1>2, <1>3, PlayStays
<1>4. CASE ~Present
  BY <1>1, <1>4 DEF PlayParts
<1> QED
  BY <1>3, <1>4

\* What was played is kept through both playbacks.
LEMMA PlayKept ==
  AllSpec /\ (\A sh \in Sheets : WellMade(sh)) => [](SheetNow /\ WalkInv /\ PlayInv)
<1> SUFFICES ASSUME \A sh \in Sheets : WellMade(sh)
             PROVE  AllSpec => [](SheetNow /\ WalkInv /\ PlayInv)
  OBVIOUS
<1>1. AllInit => PlayInv
  BY DEF AllInit, Init, InitPlayback, Present, PlayInv, PlayParts
<1>2. SheetNow /\ WalkInv /\ PlayInv /\ [AllNext]_allVars => PlayInv'
  <2>1. SheetInv => WellMade(sheet)
    BY DEF SheetInv, Values
  <2> QED
    BY <2>1, StepIs, PlayStep, PlayWaits DEF SheetNow
<1>3. AllSpec => [](SheetNow /\ WalkInv)
  BY WalkKept
<1> QED
  BY <1>1, <1>2, <1>3, PTL DEF AllSpec

\* A playback that nobody stopped has played all of every voice in order from
\* where it started, and the repeated section twice: the jump moves all the
\* voices and the time to the same place, wherever the walk through each of
\* them is then.  Nothing lasts across the start: what would come after
\* it might be skipped (see PlaysAsWritten).
THEOREM SheetIsPlayed ==
  AllSpec /\ (\A sh \in Sheets : WellMade(sh)) => []PlaysAsWritten
<1> SUFFICES ASSUME \A sh \in Sheets : WellMade(sh)
             PROVE  AllSpec => []PlaysAsWritten
  OBVIOUS
<1>1. SheetNow /\ WalkInv /\ PlayInv => PlaysAsWritten
  <2>1. SheetInv => WellMade(sheet)
    BY DEF SheetInv, Values
  <2> QED
    BY <2>1, WrittenImplies DEF SheetNow
<1>2. AllSpec => [](SheetNow /\ WalkInv /\ PlayInv)
  BY PlayKept
<1> QED
  BY <1>1, <1>2, PTL

\* The playback of notes writes nothing of an export.
LEMMA ExportWaits ==
  ASSUME ExportInv, NotesOnly
  PROVE  ExportInv'
<1>1. UNCHANGED <<sheet, initTime, curTime, streamIdx, repeating, curPlaying, elapsed, export, asked>>
  BY DEF NotesOnly, sheetVars, threadVars
<1> SUFFICES ASSUME ~asked', Exports' PROVE ExportParts'
  BY DEF ExportInv
<1>2. ExportParts
  BY <1>1, SameExport DEF ExportInv
<1> QED
  BY <1>1, <1>2, ExportStays

\* The increments that the export of a sheet to a MIDI file has written add up
\* to the time played at the last event, for any well-made sheet: what ends the
\* repeated section is sent before the time is set back and what begins it
\* after that, so that the step back is written as no time at all
\* (midiexport.cpp:59).
THEOREM ExportInTime ==
  AllSpec /\ (\A sh \in Sheets : WellMade(sh)) => []ExportKeepsTime
<1> SUFFICES ASSUME \A sh \in Sheets : WellMade(sh)
             PROVE  AllSpec => []ExportKeepsTime
  OBVIOUS
<1>1. AllInit => ExportInv
  BY DEF AllInit, Init, InitPlayback, ExportInv, ExportParts, Unsent
<1>2. SheetNow /\ WalkInv /\ PlayInv /\ ExportInv /\ [AllNext]_allVars => ExportInv'
  <2>1. SheetInv => WellMade(sheet)
    BY DEF SheetInv, Values
  <2> QED
    BY <2>1, StepIs, ExportStep, ExportWaits DEF SheetNow
<1>3. AllSpec => [](SheetNow /\ WalkInv /\ PlayInv)
  BY PlayKept
<1> QED
  BY <1>1, <1>2, <1>3, ExportImplies, PTL DEF AllSpec

=============================================================================
