---------------------------- MODULE MidiRecorder ----------------------------
(***************************************************************************)
(* Recording what is played on a MIDI keyboard: CAMidiRecorder             *)
(* (src/src/core/midirecorder.cpp), which keeps time and collects the      *)
(* events, and CAMidiRecorderView (src/src/widgets/midirecorderview.cpp),  *)
(* the window with its buttons.  The view has a status of its own and      *)
(* never asks the recorder for its state.                                  *)
(*                                                                         *)
(* Everything here runs in the event loop of the window; an event counts   *)
(* at the time the loop delivers it.  All times are in milliseconds,       *)
(* except those in a track, where a tick is two of them.                   *)
(***************************************************************************)
EXTENDS MidiExport

CONSTANTS
  Messages,     \* what a MIDI keyboard can send
  Late,         \* how many timeouts of _timer may pass between two events
  MaxTime,      \* bound: how long a recording lasts
  MaxEvents,    \* bound: how many events a recording has
  RecordAgain   \* may the user record after he stopped a recording that paused?

ASSUME RecorderAssumption ==
  /\ Late \subseteq Nat \ {0}
  /\ MaxTime \in VariableLengths
  /\ MaxEvents \in Nat
  /\ RecordAgain \in BOOLEAN
  /\ Messages \cap {"timesig", "tempo", "trackEnd"} = {}

VARIABLES
  view,       \* is there a view, and its recorder?
  status,     \* _status
  paused,     \* _paused
  midiExport, \* is there a _midiExport, and its running _timer?
  curTime,    \* _curTime
  trackTime,  \* _trackTime of the export
  trackChunk, \* what the export holds, event by event
  file,       \* the track in the file of the resource
  shown,      \* for how long the view has shown that it records
  heard,      \* what was played while it showed that, and when
  crashed     \* a null pointer was used

vars == <<view, status, paused, midiExport, curTime, trackTime, trackChunk, file,
          shown, heard, crashed>>

Statuses == {"Idle", "Pause", "Recording"}
Events == Messages \cup {"timesig", "tempo", "trackEnd"}
Track == Seq([delta : Seq(0 .. 255), event : Events])

TypeOK ==
  /\ {view, paused, midiExport, crashed} \subseteq BOOLEAN
  /\ status \in Statuses
  /\ curTime \in 0 .. MaxTime /\ shown \in 0 .. MaxTime
  /\ trackTime \in 0 .. MaxTime
  /\ trackChunk \in Track /\ file \in Track
  /\ heard \in Seq([time : 0 .. MaxTime, event : Events])

-----------------------------------------------------------------------------
(* The recorder.                                                           *)

\* The default time signature and tempo, at time 0.
Opening == <<EventAt(0, 0, "timesig"), EventAt(0, 0, "tempo")>>

\* What the recording begins with, whoever writes it.
OpeningHeard == <<[time |-> 0, event |-> "timesig"], [time |-> 0, event |-> "tempo"]>>

\* startRecording, when it does not end a pause: the file is emptied.
StartRecording ==
  /\ midiExport' = TRUE
  /\ trackChunk' = Opening
  /\ curTime' = 0 /\ trackTime' = 0
  /\ file' = << >>
  /\ UNCHANGED paused

\* A slip: the flag is left as it is.
ResumePaused ==
  UNCHANGED <<paused, midiExport, trackChunk, curTime, trackTime, file>>

\* startRecording, when it does: whether or not something is being recorded.
ResumeRecording ==
  /\ paused' = FALSE
  /\ UNCHANGED <<midiExport, trackChunk, curTime, trackTime, file>>

\* A slip: the track is written without its end.
StopWithoutEnd ==
  /\ file' = trackChunk
  /\ midiExport' = FALSE
  /\ trackChunk' = << >> /\ trackTime' = 0
  /\ UNCHANGED <<paused, curTime, crashed>>

\* stopRecording: _paused stays as it is.
StopRecording ==
  /\ IF midiExport
     THEN file' = Append(trackChunk, TrackEnd) /\ UNCHANGED crashed
     ELSE crashed' = TRUE /\ UNCHANGED file
  /\ midiExport' = FALSE
  /\ trackChunk' = << >> /\ trackTime' = 0
  /\ UNCHANGED <<paused, curTime>>

\* send() is told half the time.
Ticks(time) == time \div 2

\* A slip: time goes on in a pause.
TickTimePaused(n) == curTime + 10 * n

\* timerTimeout, n times.
TickTime(n) == IF paused THEN curTime ELSE curTime + 10 * n

\* onMidiInEvent hands the event on to the export.
Takes == midiExport /\ ~paused

-----------------------------------------------------------------------------
(* The view.  Its buttons are what can be clicked in its status.           *)

\* on_uiMidiRecorder_triggered: the resource is new, and so is its file.  A
\* view that is there is deleted, with a recording it may hold.
OpenView ==
  /\ ~crashed
  /\ view' = TRUE
  /\ status' = "Idle"
  /\ paused' = FALSE /\ midiExport' = FALSE
  /\ curTime' = 0 /\ trackTime' = 0 /\ trackChunk' = << >>
  /\ file' = << >>
  /\ shown' = 0 /\ heard' = << >>
  /\ UNCHANGED crashed

\* The view is closed, or deleted by clearUI(): so is the recorder.
CloseView ==
  /\ view
  /\ view' = FALSE
  /\ status' = "Idle"
  /\ paused' = FALSE /\ midiExport' = FALSE
  /\ curTime' = 0 /\ trackTime' = 0 /\ trackChunk' = << >>
  /\ shown' = 0 /\ heard' = << >>
  /\ UNCHANGED <<file, crashed>>

\* on_uiRecord_clicked
Record ==
  /\ view /\ status \in {"Idle", "Pause"}
  /\ RecordAgain \/ ~(status = "Idle" /\ paused)
  /\ IF paused THEN ResumeRecording ELSE StartRecording
  /\ IF status = "Idle"
     THEN shown' = 0 /\ heard' = OpeningHeard
     ELSE UNCHANGED <<shown, heard>>
  /\ status' = "Recording"
  /\ UNCHANGED <<view, crashed>>

\* on_uiPause_clicked
PauseClicked ==
  /\ view /\ status = "Recording"
  /\ paused' = TRUE
  /\ status' = "Pause"
  /\ UNCHANGED <<view, midiExport, curTime, trackTime, trackChunk, file, shown,
                 heard, crashed>>

\* on_uiStop_clicked
StopClicked ==
  /\ view /\ status \in {"Pause", "Recording"}
  /\ StopRecording
  /\ status' = "Idle"
  /\ UNCHANGED <<view, shown, heard>>

\* _timer times out n times.
Tick(n) ==
  /\ view /\ midiExport
  /\ TickTime(n) <= MaxTime /\ shown + 10 * n <= MaxTime
  /\ curTime' = TickTime(n)
  /\ shown' = IF status = "Recording" THEN shown + 10 * n ELSE shown
  /\ UNCHANGED <<view, status, paused, midiExport, trackTime, trackChunk, file,
                 heard, crashed>>

\* onMidiInEvent
MidiInEvent(m) ==
  /\ view
  /\ Len(heard) < MaxEvents
  /\ IF Takes
     THEN /\ trackChunk' = Append(trackChunk, EventAt(Ticks(curTime), trackTime, m))
          /\ trackTime' = Ticks(curTime)
     ELSE UNCHANGED <<trackChunk, trackTime>>
  /\ heard' = IF status = "Recording"
              THEN Append(heard, [time |-> shown \div 2, event |-> m]) ELSE heard
  /\ UNCHANGED <<view, status, paused, midiExport, curTime, file, shown, crashed>>

Init ==
  /\ view = FALSE
  /\ status = "Idle"
  /\ paused = FALSE /\ midiExport = FALSE
  /\ curTime = 0 /\ trackTime = 0 /\ trackChunk = << >>
  /\ file = << >>
  /\ shown = 0 /\ heard = << >>
  /\ crashed = FALSE

Next ==
  /\ ~crashed
  /\ \/ OpenView \/ CloseView
     \/ Record \/ PauseClicked \/ StopClicked
     \/ \E n \in Late : Tick(n)
     \/ \E m \in Messages : MidiInEvent(m)

Spec == Init /\ [][Next]_vars

-----------------------------------------------------------------------------
(* Properties.                                                             *)

\* The ticks between event i of what was played and the one before it.
Interval(played, i) == played[i].time - (IF i = 1 THEN 0 ELSE played[i - 1].time)

\* The first events of a track, as the MIDI reader finds them, are what was
\* played: the same events, in the same order, at the same times.
SoundsAs(track, played) ==
  \A i \in DOMAIN played :
    /\ track[i].event = played[i].event
    /\ ReadVar(track[i].delta) = Interval(played, i)

\* "Class will write the midi data and close the stream" (midirecorder.cpp:24):
\* after a stop the file holds all that was played while the view showed that
\* it records, at the time it showed, whatever pauses there were; then it ends.
FileIsWhatWasHeard ==
  view /\ status = "Idle" /\ heard # << >> =>
    /\ Len(file) = Len(heard) + 1
    /\ SoundsAs(file, heard)
    /\ file[Len(file)] = TrackEnd

\* Until then the recorder holds it.
NothingMissed ==
  view /\ status # "Idle" =>
    /\ Len(trackChunk) = Len(heard)
    /\ SoundsAs(trackChunk, heard)

\* The view and the recorder agree, though each has a state of its own: what
\* shows as recording is recorded, what shows as a pause can be stopped.
ViewIsRight ==
  /\ status = "Recording" => midiExport /\ ~paused
  /\ status = "Pause" => midiExport /\ paused
  /\ status = "Idle" => ~midiExport

\* "Call stop() when recording is done" (midirecorder.cpp:24): the stop button
\* can be clicked only when there is something to write.
StopWrites == ~crashed

=============================================================================
