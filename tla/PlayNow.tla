------------------------------ MODULE PlayNow ------------------------------
(***************************************************************************)
(* Playing notes as they are inserted or changed: the other use of         *)
(* CAPlayback (playSelectionImpl in src/src/interface/playback.cpp) next   *)
(* to the playback of a sheet (Playback).  A window has one _playback, so  *)
(* at most one of them is there.                                           *)
(*                                                                         *)
(* The thread takes the elements that the window appends to _selection,    *)
(* turns the notes on, and turns them off when their time has come, every  *)
(* 16 ms.  The list is shared without a lock; that an append and a removal *)
(* at the same time may break it is not modelled.                          *)
(***************************************************************************)
EXTENDS Playback

CONSTANTS
  Notes,          \* notes of the document
  Others,         \* selected elements that are no notes
  Length,         \* how long a note sounds, in passes of the loop
  Lists,          \* what the window may ask to play
  FirstPitch,     \* the pitches of the notes at the beginning
  MaxPitch,       \* a bound on the pitches
  MaxInserts,     \* a bound on the calls of playImmediately in one playback
  ChangePlaying   \* may the pitch of a note be changed while it sounds?

ASSUME NotesAssumption ==
  /\ Notes \cap Others = {}
  /\ Length \in [Notes -> Nat \ {0}] /\ FirstPitch \in [Notes -> Nat]
  /\ Lists \subseteq Seq(Notes \cup Others)
  /\ MaxPitch \in Nat /\ MaxInserts \in Nat
  /\ ChangePlaying \in BOOLEAN

VARIABLES
  now,         \* where the thread is; "none" without a CAPlayback for notes
  selection,   \* _selection
  nowPlaying,  \* its _curPlaying
  timeEnds,    \* timeEnds: when to turn them off
  nowTime,     \* the local curTime, in passes
  index,       \* the next of nowPlaying to look at
  heard,       \* the pitches it told the device to play
  pitch,       \* the pitch of each note
  gone,        \* the notes deleted since the playback began
  inserts      \* the calls of playImmediately since it began

loopVars == <<now, selection, nowPlaying, timeEnds, nowTime, index, heard>>
noteVars == <<pitch, gone, inserts>>
nowVars == <<loopVars, noteVars>>

\* What the playback of notes leaves alone of the playback of a sheet.
sheetVars == <<thread, threadVars, sheet, initTime, asked, deleted>>
flags == <<stop, stopLock, posted>>
allVars == <<vars, nowVars>>

NowRunning == {"test", "fill", "off", "leave"}

\* Types; the two lists are of the same length.
NotesTypeOK ==
  /\ now \in NowRunning \cup {"none", "finished"}
  /\ selection \in Seq(Notes \cup Others)
  /\ nowPlaying \in Seq(Notes)
  /\ timeEnds \in Seq(Nat) /\ Len(timeEnds) = Len(nowPlaying)
  /\ {nowTime, index, inserts} \subseteq Nat
  /\ heard \subseteq Nat
  /\ pitch \in [Notes -> Nat]
  /\ gone \subseteq Notes

AllTypeOK == TypeOK /\ NotesTypeOK

-----------------------------------------------------------------------------
(* The thread.                                                             *)

\* The condition of the loop.
NowTest ==
  /\ now = "test"
  /\ now' = IF selection = << >> /\ nowPlaying = << >> THEN "leave" ELSE "fill"
  /\ UNCHANGED <<sheetVars, flags, selection, nowPlaying, timeEnds, nowTime,
                 index, heard, noteVars>>

\* The first of _selection: a note is turned on.
TakeNote ==
  /\ now = "fill"
  /\ selection # << >>
  /\ selection' = Tail(selection)
  /\ LET e == Head(selection)
     IN IF e \in Notes
        THEN /\ nowPlaying' = Append(nowPlaying, e)
             /\ timeEnds' = Append(timeEnds, nowTime + Length[e])
             /\ heard' = heard \cup {pitch[e]}
        ELSE UNCHANGED <<nowPlaying, timeEnds, heard>>
  /\ UNCHANGED <<sheetVars, flags, now, nowTime, index, noteVars>>

AllTaken ==
  /\ now = "fill"
  /\ selection = << >>
  /\ now' = "off"
  /\ index' = 1
  /\ UNCHANGED <<sheetVars, flags, selection, nowPlaying, timeEnds, nowTime,
                 heard, noteVars>>

\* A slip: the first time goes, whichever note does.
TimesAfterFirst(k) == Tail(timeEnds)

TimesAfter(k) == RemoveAt(timeEnds, k)

\* A slip: what is due is not turned off, only forgotten.
SilencesNone(k) == {}

Silences(k) == {pitch[nowPlaying[k]]}

Due(k) == nowTime >= timeEnds[k] \/ stop

\* The note off is for the pitch the note has by now.
NoteEnds ==
  /\ now = "off"
  /\ index <= Len(nowPlaying)
  /\ Due(index)
  /\ heard' = heard \ Silences(index)
  /\ nowPlaying' = RemoveAt(nowPlaying, index)
  /\ timeEnds' = TimesAfter(index)
  /\ UNCHANGED <<sheetVars, flags, now, selection, nowTime, index, noteVars>>

NoteGoesOn ==
  /\ now = "off"
  /\ index <= Len(nowPlaying)
  /\ ~Due(index)
  /\ index' = index + 1
  /\ UNCHANGED <<sheetVars, flags, now, selection, nowPlaying, timeEnds, nowTime,
                 heard, noteVars>>

Sleep ==
  /\ now = "off"
  /\ index > Len(nowPlaying)
  /\ now' = "test"
  /\ nowTime' = nowTime + 1
  /\ UNCHANGED <<sheetVars, flags, selection, nowPlaying, timeEnds, index, heard,
                 noteVars>>

\* After the loop: stop(), and the end of the thread posts finished().
Leave ==
  /\ now = "leave"
  /\ now' = "finished"
  /\ stop' = TRUE
  /\ posted' = TRUE
  /\ UNCHANGED <<sheetVars, stopLock, selection, nowPlaying, timeEnds, nowTime,
                 index, heard, noteVars>>

NotesThread ==
  \/ NowTest \/ TakeNote \/ AllTaken \/ NoteEnds \/ NoteGoesOn \/ Sleep \/ Leave

-----------------------------------------------------------------------------
(* The window.                                                             *)

\* playImmediately of a list: the object is made if there is none, and a thread
\* that does not run is started, also one that has ended and whose finished()
\* is still in the queue.  To a playback of a sheet that runs it changes
\* nothing (and see InsertNote).  The output port is left out.
PlayImmediately(s) ==
  /\ ~stopLock /\ thread = "none"
  /\ inserts < MaxInserts
  /\ Range(s) \cap gone = {}
  /\ inserts' = inserts + 1
  /\ selection' = selection \o s
  /\ IF now \in NowRunning
     THEN UNCHANGED <<now, nowTime, timeEnds>>
     ELSE now' = "test" /\ nowTime' = 0 /\ timeEnds' = << >>
  /\ UNCHANGED <<sheetVars, flags, nowPlaying, index, heard, gone>>

Insert(s) == PlayImmediately(s) /\ UNCHANGED pitch

\* The keys up, down, plus and minus: a selected note gets another pitch and is
\* played.
ChangePitch(n) ==
  /\ ChangePlaying \/ n \notin Range(nowPlaying)
  /\ pitch[n] < MaxPitch
  /\ PlayImmediately(<<n>>)
  /\ pitch' = [pitch EXCEPT ![n] = @ + 1]

\* The play button, whichever way it goes.
StopNotes ==
  /\ ~stopLock /\ now # "none"
  /\ stop' = TRUE
  /\ UNCHANGED <<sheetVars, stopLock, posted, nowVars>>

\* stopPlayback(), the deletion of a note that sounds, and a late finished():
\* stopNow() waits for the thread.
StopNotesNow ==
  /\ ~stopLock /\ now \in NowRunning
  /\ stopLock' = TRUE
  /\ stop' = TRUE
  /\ UNCHANGED <<sheetVars, posted, nowVars>>

NotesFinishedLate == posted /\ StopNotesNow

\* playbackFinished(), as for a sheet.
NotesFinished ==
  /\ now = "finished"
  /\ posted \/ stopLock
  /\ now' = "none"
  /\ selection' = << >> /\ nowPlaying' = << >> /\ timeEnds' = << >>
  /\ nowTime' = 0 /\ index' = 1 /\ heard' = {}
  /\ stop' = FALSE /\ stopLock' = FALSE /\ posted' = FALSE
  /\ gone' = {} /\ inserts' = 0
  /\ UNCHANGED <<sheetVars, pitch>>

\* deleteSelection: if the note sounds, stopNow() comes first.
DeleteNote(n) ==
  /\ ~stopLock /\ now # "none"
  /\ n \notin Range(nowPlaying)
  /\ EditAhead \/ n \notin Range(selection)
  /\ gone' = gone \cup {n}
  /\ UNCHANGED <<sheetVars, flags, loopVars, pitch, inserts>>

\* on_uiCloseDocument_triggered does not stop this playback either.
CloseNotes ==
  /\ ~stopLock /\ now # "none"
  /\ EditAhead \/ selection \o nowPlaying = << >>
  /\ gone' = Notes
  /\ UNCHANGED <<sheetVars, flags, loopVars, pitch, inserts>>

NotesInit ==
  /\ now = "none"
  /\ selection = << >> /\ nowPlaying = << >> /\ timeEnds = << >>
  /\ nowTime = 0 /\ index = 1 /\ heard = {}
  /\ pitch = FirstPitch
  /\ gone = {} /\ inserts = 0

NotesWindow ==
  \/ \E s \in Lists : Insert(s)
  \/ \E n \in Notes : ChangePitch(n) \/ DeleteNote(n)
  \/ StopNotes \/ StopNotesNow \/ NotesFinished \/ CloseNotes

\* The playback of a sheet, if the object is not one for notes.
SheetNext ==
  /\ now = "none"
  /\ Next
  /\ UNCHANGED nowVars

AllInit == Init /\ NotesInit

AllNext == SheetNext \/ NotesThread \/ NotesWindow

\* The threads are scheduled, and the event loop delivers finished() or the
\* window returns from wait().
AllSpec ==
  /\ AllInit /\ [][AllNext]_allVars
  /\ WF_allVars(SheetNext /\ Thread) /\ WF_allVars(NotesThread)
  /\ WF_allVars(SheetNext /\ (PlaybackFinished \/ FinishedLate))
  /\ WF_allVars(NotesFinished \/ NotesFinishedLate)

-----------------------------------------------------------------------------
(* Properties.                                                             *)

\* What the device was told to play is a note the thread will turn off: it
\* leaves none sounding, however it ends.
HeardArePlaying ==
  heard \subseteq {pitch[n] : n \in Range(nowPlaying)}

\* "time ends when the notes should turned off" (playback.cpp:285): the times
\* and the notes are two lists, and each note keeps its own time, unless all
\* are stopped.
NotesKeepTime ==
  \A k \in DOMAIN nowPlaying :
    /\ timeEnds[k] <= nowTime + Length[nowPlaying[k]]
    /\ now = "test" => nowTime <= timeEnds[k]

\* "stop the playback before deleting the note" (mainwin.cpp:5734): the thread
\* has no deleted note, neither one that sounds nor one that is to sound.  The
\* code asks only for those that sound (curPlaying(), mainwin.cpp:5735).
NoneGone == gone \cap (Range(selection) \cup Range(nowPlaying)) = {}

\* Every playback comes to its end, whatever repeats the sheet has, and that
\* of notes when no more are inserted: a window that waits in stopNow() goes on.
PlaybacksEnd ==
  thread # "none" \/ now # "none" ~> thread = "none" /\ now = "none"

\* "This function ends when all the notes in _selection queue are played."
\* (playback.cpp:276)
EndsWhenAllPlayed == now = "finished" => selection = << >>
=============================================================================
