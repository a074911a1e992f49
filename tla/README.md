# Canorus in TLA+

Canorus is a music score editor: a C++/Qt program with one GUI thread, a few
worker threads (playback, import, export, the MIDI input) and a score of plain
objects with raw pointers between them. There are few unit tests; what a handler
of the main window must leave behind is written, if anywhere, in a comment.

This directory holds models of the parts of Canorus where several handlers,
threads or processes work on shared state, the TLC runs that check them on small
instances, and TLAPS proofs about eight of them (the undo core and its callers, both
playbacks, the recorder, imports, recovery, typesetting, the voices of a staff) for
all values of their constants. Paths below are relative to `src/src/` of the repository.

    tlc -workers 2 -config Undo.cfg MCUndo       # one run
    tlapm UndoProofs.tla                         # one module of proofs, a few minutes

## The system

| Component | State it keeps | Operations | What is hard | What makes it correct |
|---|---|---|---|---|
| Undo stacks: `core/undo.cpp`, `core/undocommand.cpp` | `_undoStack` (document -> stack), `_undoIndex`, the command waiting to be pushed, two whole documents per command | create, push, undo, redo, replace, close | every version is an object; pushes relink the commands and delete the undone ones; two windows share a stack | a stack is one chain of live, distinct versions; windows agree; undo and redo keep the history |
| Main window, documents: `ui/mainwin.cpp`, `canorus.cpp` | `document()` of each window, file names, modified flags | new, open, save, close, new window, commit of a source, about 100 editing handlers | the order of create, change and push is up to each handler | no handler leaves a pointer to a deleted document; what is not marked modified is saved |
| Playback of a sheet: `interface/playback.cpp` | stream indices, repeat state, `_curPlaying`, `_stop` | `run`, `stop`, `stopNow`, the handlers that start and delete it | a thread and the window share `_stop`, `_curPlaying` and the elements; voices jump back together at repeats; a thread that has ended may be started again | plays what is written, leaves nothing sounding, ends, meets no deleted element, exports the time it plays |
| Immediate playback: `playSelectionImpl` of the same class | a list of notes to play, those that play and when they end | a note is inserted, changed, deleted; stop | the list is filled while the thread empties it; notes change under it | each note is turned off at its time, none stays on, none is deleted before it is played, it ends |
| Recovery files: `core/autorecovery.cpp`, `export/export.cpp`, `core/file.cpp` | files `recovery0`, `recovery1`, ... | save on a timer, clean up, open at the start | crashes between any two file operations, several programs in one folder | what was saved is found after a crash; nothing is left after a nice exit |
| Opening and importing: `import/import.cpp`, `control/mainwinprogressctl.cpp`, `ui/mainwin.cpp` | the import object and its thread, its queued signal, the progress bar and its timer | open, import, recent, cancel, the answers to questions | the answer arrives while the user edits, closes, cancels or opens something else; dialogs run the event loop | no unsaved work is dropped unasked, no deleted object is used, the bar goes |
| Voices of a staff: `score/voice.cpp`, `score/staff.cpp`, the editing handlers of `ui/mainwin.cpp` | an element list per voice, start times; signs are shared by all voices | insert, remove, resize, replace, delete, new and removed voices, `synchronizeVoices` | handlers shift times by hand, in their own voice only; the repair walks all voices at once | voices share their signs, no note lies across a sign, no voice has a gap |
| MIDI recorder: `core/midirecorder.cpp`, `widgets/midirecorderview.cpp` | `_paused`, `_curTime`, an export with its track; a status in the view | record, pause, stop, open and close the view, an event, a timeout | view and recorder each keep a state and never compare | the file reads back as what was played while the view showed that it records |
| MIDI files: `export/midiexport.cpp`, `import/pmidi/` | the time of the last event, the bytes of a track | `send`, `writeTime`, the reader's variable-length numbers | repeats set the time back; numbers of one to four bytes | every delta time reads back; the increments add up to the time played |
| Typesetting: `control/previewctl.cpp`, `control/printctl.cpp`, `control/typesetctl.cpp`, `control/externprogram.cpp`, `export/pdfexport.cpp`, `export/svgexport.cpp` | the exporter with its thread and its `_poTypesetCtl`, temporary files, queued `typesetterFinished` | preview, print, the ways an external program ends, `pdfFinished` | the signal is handled after the click that caused it, perhaps during a later one, perhaps inside a dialog | the answer is about the last request, every request is answered unless the code gives it up without a word, no output is left behind |
| MIDI keyboard: `interface/keybdinput.cpp` | tuplet under construction, chord timer, note layout | one handler per key | notes that arrive while the chord timer runs | Staff models what a key does to a voice |
| Score documents, sheets, contexts: `score/` | the tree of a document | `clone`, setters | copies field by field | part of Undo (what a clone keeps) |
| Import and export filters: `import/`, `export/` | text and bytes | parse, write | quantisation of MIDI times | Recovery, Import and Typeset model how they begin and end |
| Resources: `score/resource.cpp`, `control/resourcectl.cpp` | attached files | add, remove, copy on save | files and documents out of step | not modelled yet |
| Layout, widgets, dialogs, plugins, help | pixels, Python and Ruby objects | - | - | not modelled (geometry, pure I/O, foreign code) |

How they interact: every handler of the window that changes the score calls
`createUndoCommand`, changes the objects of the shown document, calls
`synchronizeVoices` if several voices may be disturbed, and `pushUndoCommand`.
Playback reads the same objects from its thread; a window has one `_playback`, of
a sheet or of inserted notes. The export of a MIDI file is a playback that does
not wait. The recovery timer asks the window for its document. An import hands
its document over through a queued signal, after which the window closes the old
document in the undo core. A preview exports a sheet in a thread, waits for it,
and hears from the typesetter through another queued signal.

## Modules

| Module | Models | Run by |
|---|---|---|
| `EditHistory` | what undo and redo promise: a list of versions and the one shown | `Undo` (refinement) |
| `Undo` | `CAUndo`, `CAUndoCommand`, `CADocument` objects, the windows that show them, files | `MCUndo` |
| `UndoCallers` | EXTENDS `Undo` with the handlers that break the protocol of `core/undo.cpp:32-44` | `MCUndoCallers` |
| `UndoProofs` | theorems about `Undo`, that it implements `EditHistory`, and about `UndoCallers` | TLAPS |
| `MidiExport` | the times of a MIDI track, written and read | in `Playback`, `MidiRecorder` |
| `Playback` | the playback thread of a sheet, its export, and the window around it | in `PlayNow` |
| `PlayNow` | EXTENDS `Playback` with the playback of inserted notes, which takes turns with it | `MCPlayback` |
| `PlaybackProofs` | lemmas about the steps of `Playback`: its inductive invariants | TLAPS |
| `PlayNowProofs` | EXTENDS `PlaybackProofs`: theorems about both playbacks of `PlayNow` | TLAPS |
| `MidiRecorder` | the recorder, its view and its timer | `MCMidiRecorder` |
| `MidiProofs` | theorems about `MidiExport` and `MidiRecorder` | TLAPS |
| `AutoRecovery` | recovery files of one or several Canorus processes that may crash | `MCAutoRecovery` |
| `RecoveryProofs` | theorems about `AutoRecovery` with one process | TLAPS |
| `Import` | the import thread, its signal, the progress control, the window's dialogs | `MCImport` |
| `ImportProofs` | theorems about `Import` | TLAPS |
| `Staff` | the voices of a staff, the editing handlers, `synchronizeVoices` | `MCStaff` |
| `StaffProofs` | theorems about `Staff` | TLAPS |
| `Typeset` | preview and print, the export thread, the typesetter, its signals and files | `MCTypeset` |
| `TypesetProofs` | theorems about `Typeset` | TLAPS |

The MC modules hold what only TLC needs: symmetry, a view, the sheets that are
played. Definitions marked "slip" next to an operator are plausible mistakes in
it: with the slip in its place the property named for it in PROJECT.json fails.
They show that the properties notice such mistakes; no specification uses them.

### Undo, EditHistory, UndoCallers

A document is an object with an identity (`Docs`), because the code compares and
deletes pointers; an identity may be used again after a delete, as an address may.
`live` is the set of allocated objects, `score` stands for the sheets,
`undoStack`, `undoIndex`, `commands` and `undoCommand` for the fields of `CAUndo`.
One action is one handler, which runs to its end on the GUI thread:

- `Edit` is create, change in place and push: the clone is the older version, the
  commands that were undone are deleted, the last one left is relinked to the
  clone (`Relinked`), and `_undoStack` gets a key for the clone
  (`UndoStackAfterPush`); `AbandonEdit` is a handler that creates a command and
  returns before it pushes it.
- `UndoOne`, `RedoOne` move all windows of the stack (`SwitchWindows`).
- `NewDocument`, `OpenDocument`, `NewWindow`, `CloseDocument`, `Save` are the
  document handlers; what they delete is `FreedByLeaving`, `FreedByDeleteStack`.

`EditHistory` is the abstract specification: a sequence of versions and a cursor.
`History(s)` in `Undo` maps stack `s` to it (the chain of its versions, seen
through `score`), and `KeepsHistory` says every stack implements it whatever the
other windows do. `UndoCallers` adds pushes of a command some other handler
created (`PushCreated`), changes without a command (`ChangeInPlace`) and the
commit of a source view (`SourceCommit`, `SourceCommitInvalid`); using a null or
deleted object sets `crashed`.

### Playback, PlayNow

The steps of `CAPlayback::run` between two reads of `_stop`: `Begin`, `Test`,
`TurnOff`/`LeaveOn`/`AllLookedAt` over `_curPlaying`, `SeekOn`/`SeekBack`/
`SoughtAll` for `loopUntilPlayable` with its jumps at repeats, `Check`, `TurnOn`.
The window's steps are `Play`, `Stop`, `StopNow`, `PlaybackFinished`,
`DeleteElement`, `CloseDocument`. `performed` and `sounding` record what reached
the MIDI device, `elapsed` for how long it has played. The sheet is copied when
the thread begins, its elements are not.

The end of a thread posts `finished()` to the window (`posted`). If a note is
inserted before that is delivered, `playImmediately` finds a thread that does not
run and starts it again (`InsertNote`): the streams are still there, so a second
`run` goes on where the first one ended, and the old `finished()` is delivered while
it plays and makes the window wait for it (`FinishedLate`).

`export` is what the same walk writes when it is given a `CAMidiExport`: the time
of the last event and the sum of the increments written (`Sent`).

`PlayNow` adds the other loop of the class. `TakeNote` empties `_selection`,
`NoteEnds` and `NoteGoesOn` go over `_curPlaying` and `timeEnds`, `Sleep` is the
16 ms between two passes; `heard` is what the device was told to play. The window
inserts (`Insert`), changes the pitch of a note (`ChangePitch`), deletes it
(`DeleteNote`), stops, or closes the document. `AllNext` is the composition: at
most one of the two playbacks is there, and both use `stop`, `stopLock`, `posted`.

### MidiRecorder, MidiExport

The recorder has no thread: buttons, timeouts and MIDI events are delivered by the
event loop, one after another, so each handler is an action. `Tick(n)` is n
timeouts of the 10 ms timer in a row. `status` is the view's, `paused`,
`midiExport` and `curTime` the recorder's; `shown` and `heard` are what the user
saw and played. The track is kept as the bytes of its delta times (`WriteTime`)
with an event each, and the properties read it back as the reader of the
repository does (`ReadVar`), event by event.

### AutoRecovery

A process goes through `open`, `clean`, `save` and `idle`; each creation, write
and deletion of a file is a step, so it may crash before any of them (`Crash`, at
the places in `CrashAt`) and other processes may run in between. A file that was
created and not yet written holds `Part`. `owed` records what a crashed process
had saved.

### Import

`gui` says what the GUI thread does (idle, or inside a dialog that still lets
signals and timers in), `then` what it goes on with. `Read` and `Finish` are the
thread; `ImportDone`, `Tick` and `Waited` what the event loop delivers; the user
may edit, save, cancel, and choose to close, create, open, import or quit at any
time. `did` records the three kinds of things the properties have to except.

### Typeset

A handler (`Ask`) opens, and so empties, its file, starts the thread of the exporter,
and the window waits for it (`Click`); if the file cannot be opened the thread ends at
once (`NotOpened`). `Typesetter` is the rest of that thread: the external program ends
in one of five ways (`Results`), among them that no program is named, and `Signals`
says what `CAExternProgram` makes of each. The signal is posted to the thread of the
window (`queue`); `Deliver` is `pdfFinished`, which copies the output of the control
that is there by then (`ctl`), shows or prints it, and stays in its message or dialog
(`dialogs`) while the event loop goes on; `CloseDialog` is what it does behind that:
remove the output, delete the control. Requests are numbered, and a sheet is the
number of its request; one made before the last one of its exporter was answered is
`hasty`.

The preview action is connected to its handler twice (`ui/mainwin.cpp:615`, and by name
in `control/previewctl.cpp:30`), so a click on it runs the handler twice in a row
before the event loop delivers anything (`Twice`, `repeats`): every preview is a
request followed by a hasty one.

There are five places where the code gives up and writes to the console only:
`export/export.cpp:62` (no stream), `control/externprogram.cpp:151` (no name of a
program), `export/pdfexport.cpp:149` twice (a success without an output, a copy that
fails), `control/printctl.cpp:92` (an SVG that cannot be loaded). A request that ends
in one of them is in `silent`; `Answered` excepts these requests and no other.

### Staff

A voice is a list of elements: notes and rests are records with start and length,
a sign is named, since all voices share the one object and its time (`at`).
Operators on a score (`InsertPlayable`, `RemovePlayable`, `UpdateTimes`,
`AddToChord`, `ComposeRests`, ...) are the operations of `CAVoice` and `CARest`;
`ReplaceRun`, `ReplaceByRest`, `Resized`, `DeletePlayable` are the bodies of the
handlers, each with its action. `Pass` is one turn of the loop of
`synchronizeVoices`: collect and share the signs that are next, or step over the
playables (`ShareSigns`, `StepPlayables`), move signs out of notes (`MoveSigns`),
fill what is too short (`FillVoices`), go on to the nearest start (`ShortestTime`).
A handler that synchronizes starts the walk; `SynchronizePass` does one pass, and
no handler runs before the walk is done, as in the code.

## Runs

Each run asks one question. Deadlock checking is on, except
where the program may really stop: `import` (the user quits), `callers` (a crash
ends the behaviour), `typeset` (the requests are used up).

| Run | Bounds | Shows |
|---|---|---|
| `undo_shared` | 4 documents, 2 stacks, 2 windows, 2 scores, stacks of 2 commands | types, the five invariants of the stacks and windows, `CleanMeansSaved`, `KeepsFileName`, the refinement `KeepsHistory` |
| `undo_modified` (violated) | 3 documents, 1 stack, 1 window | `UnmodifiedIsSaved`: after edit, save, undo, save and redo the document shown is not marked modified and not what the file holds |
| `callers` | 4 documents, 1 stack, 1 window, no commit after an undo, no late push | `RunningSound`: the chain survives the callers that break the protocol |
| `commit_invalid` (violated) | as `callers` | a source that cannot be read makes the window show a deleted document |
| `playback` | 8 sheets of up to 2 voices and 6 elements, 3 start times; 2 notes that sound for 2 passes and for 1, 2 insertions | a sheet is played as written, ends silent, `_curPlaying` is right, no deleted element is met, the export keeps its time; inserted notes are turned off in time, and none stays on; either playback ends |
| `recovery` | 1 process, 2 documents, 2 edits each, 4 files, crashes while idle or opening | crashed work is recovered, a nice exit leaves no file, saves are complete, edits are saved in the end |
| `recovery_crash` (violated) | crashes also while cleaning and saving | a crash between deletion and writing loses what was saved |
| `import` | 3 imports | nothing lost but what is edited meanwhile or is an imported sheet; no crash but after a step named risky; the bar goes |
| `staff` | 2 voices, 1 sign, one length and its dotted form, chords of 2, time up to 32 (two notes) | signs shared, no note across one, no gaps, the walk ends, notes are only delayed |
| `midi_recorder` | 6 events (two of them the opening), intervals of 16.5 s, 32.8 s and sums of these up to 66 s | view and recorder agree, nothing is missed, the file is what was played |
| `recorder_restart` (violated) | 3 events, up to 33 s, recording again after a stop in a pause | the stop button uses a null pointer |
| `typeset` | a preview, whose handler runs twice, and a print, 4 requests, hasty ones too | answers are right, outputs are removed, every request is answered or given up in one of the five places |

Why these bounds. *Undo*: two commands are the least with a done and an undone
one and with a link between two commands; the four documents of a full stack
(three versions) and a second document or a waiting clone make every delete and
every reuse of an identity happen; a third stack or window adds no new
neighbour. Two scores are enough to tell versions apart, as nothing compares more
than two. The symmetry is that of identities. `View` leaves out the fields of
objects nobody refers to, which are all written when an object is allocated.
*Playback*: repeats, ties, chords, rests, upbeats and empty voices each occur in
a sheet, alone or together, and a start before, in and after the repeat. One
deletion in a playback is enough, as the property is about each. *PlayNow*: two
notes that end in another order than they began exercise the two parallel lists;
two insertions give one into a thread that runs and one into a thread that has
ended. *AutoRecovery*: two documents make a save of several files and a crash between
them; a third edit adds nothing to a counter that is only compared. *Import*:
three imports give one that is done, one under way and one that replaces it.
*Staff*: 32 time units hold voices of up to four elements besides signs and
chords, with elements of four lengths (8, 16, 24, 32), so that a sign may lie at
the start, at the end and inside of what the other voice has. Time is the only bound on
growth: `Fits` stops a handler that would go beyond it. *MidiRecorder*: the
intervals are 8250 and 16385 ticks, numbers of two and of three bytes, the second with
a zero digit inside; together with 0 for events in a row they are all the forms a
recording of less than an hour has, and `TimesReadBack` is proved for the rest.
*Typeset*: four requests are two previews, or one and two prints: one that is
answered, one under way, and hasty ones both of the same click and of the next.

Fairness. *Playback* and *PlayNow*: weak fairness of either thread, which the
system schedules, and of the delivery of `finished()` by the event loop; none of
the user.
*AutoRecovery*: weak fairness of a process' own steps and of its timer, whose
interval is not 0 (0 switches recovery off and is not modelled); a crash is never
forced. *Import*: weak fairness of the thread and of the deliveries of the event
loop, which Qt runs also inside a dialog; the user need not answer one. *Typeset*:
a handler that is connected twice is called twice, the typesetter ends (its thread
waits for it without a limit) and the event loop delivers; the user need not click,
nor close a dialog. *Undo*, *Staff* and *MidiRecorder*
have no fairness: their properties are safety. That the walk of
`synchronizeVoices` ends is the invariant `WalkEnds`, a bound on its passes by the
elements of the voices, which is stronger than that it ends under fairness.

### Findings

Each violated run states what a comment or document of the repository says of the
program, and PROJECT.json quotes it. In short: undo and redo do not maintain the
modified flag, so that after two saves of different versions both are taken for
saved; a failed source commit deletes the shown document; recovery files
are deleted before new ones are written; after a stop in a pause the recorder
takes the next recording for the end of that pause, makes no file, and crashes at
the next stop.

### Known deviations, reproducible with other constants

The modules also state what follows; no run checks it, to keep one question per
run. TLC refutes each within a few minutes under the constants named.

- `Undo`, `Dedications = {TRUE, FALSE}`: `CloneKeepsDedication` (clone forgets the
  dedication, `score/document.cpp:44`). `NoLeak` (some discarded versions are
  never freed, `core/undo.cpp:135`).
- `UndoCallers`, two windows: after a commit in one the other shows a deleted
  document (`RunningSound`). `CommitAfterUndo = TRUE`: the replaced command
  is the wrong one. `PushLate = TRUE`: a push of a command whose document is no
  longer shown. `CommitIsUndoable`: a commit creates a command and never links it.
- `Playback`: `SilentWhenDone` (a stop leaves tied notes on), `StopIsKept` (a stop
  before the thread's first step is forgotten); `EditAhead = TRUE`:
  `NothingDeletedAhead`; `Sheets <- LowerSheets`: `PlaysAsWritten` fails for
  repeats that are marked in a lower voice only; `Sheets <- TwiceSheets`: it fails
  for a sheet with two repeats, of which only the first is obeyed. A start in the
  middle of an element (without `NothingAcross`) breaks `PlaysAsWritten` on
  `Overlapping` from time 1: how long to sleep is worked out from what plays
  (`interface/playback.cpp:228-240`), so the thread sleeps through the starts of the
  voice in which nothing plays yet, and `loopUntilPlayable` skips them. Without
  `JumpsAreHeard`, `ExportKeepsTime` fails: a jump at which no note begins or ends is
  not seen by the export, which keeps the time of the last event only.
- `PlayNow`, `ChangePlaying = TRUE`: `HeardArePlaying` (the note off of a note that
  was moved while it sounds is for its new pitch, the old one stays on).
  `EditAhead = TRUE`: `NoneGone` (an inserted note that is deleted before the thread
  takes it from its list is played all the same: `deleteSelection`,
  `ui/mainwin.cpp:5735`, asks only for notes that sound). `EndsWhenAllPlayed` (a note
  inserted as the thread ends is not played).
- `AutoRecovery`, two processes: `OnlyEndedIsRecovered`, `CleanExitLeavesNone`.
  `CrashAt = {"idle", "clean"}`: `CleanExitLeavesNone` (files behind a gap stay).
- `Import`: `NeverLost` (edits made while a file is opened are dropped unasked),
  `CanceledIsNotOpened`, `RecentFailed`, `UnsavedIsModified` (an imported sheet does
  not mark its document as modified, `ui/mainwin.cpp:3570`).
- `Staff`, two signs: `Linear` and `SignsShared` (moving a sign out of a note does
  not move the signs behind it, which are then doubled). `MaxVoices = 3`: `Linear`
  (the third voice is not filled when a sign is moved on). `DotAnyNote = TRUE`:
  `Linear` (the dot key on another note than the last of a chord moves the chord to
  the end of the voice). `ShortestDotted = 8`: `Linear` (a gap shorter than a 128th
  cannot be filled).
- `Typeset`, `File <- OneFile` (two windows that preview the same sheet name):
  `OutputsRemoved` and `Answered` (neither copies over the file of the other).
  `ZeroIsSuccess` (a typesetter that did not start is also reported with the exit
  code 0). `NoOutputLeft` fails because of hasty requests, those of the second
  connection included; it holds with `Twice = {}` and `Hasty = FALSE`.

What was read and is in no module's reach: `_poExp` is deleted a second time after an export by a plugin or of an unknown
format (`ui/mainwin.cpp:3421-3424`); the tempo is written through a `char`
(`export/midiexport.cpp:109`); two windows share, and one of them closes, the
output port (`ui/mainwin.cpp:3044`). The comment of `CARest::composeRests`
(`score/rest.cpp:95`) says the rests are sorted from the shortest to the longest;
the loop yields the longest first, and its callers rely on that. The four seconds
of `saveRecovery` after a recovery, before which a nice exit is not possible, are a
documented design and not modelled. Closing the recorder's view while it records
drops the recording, and a key released in a pause is not recorded: both are in
the model (`CloseView`, `MidiInEvent`) and contradict no promise of the code.

## Proofs

All theorems are for every value of the constants, under the named assumptions of
the modules, which TLC evaluates for the runs. Each module proves an inductive
invariant, one lemma per action with one step per conjunct it can disturb, and
reads the properties off it.

### UndoProofs

For all finite or infinite sets of documents, stacks, windows, scores and names
and every bound on commands, under `NullAssumption` (the null pointers are none of
the objects, a missing file is not a file, the blank score is a score, the bound
is a natural number):

- `InvariantHolds`: `Spec => []IInv`;
- from it `TypeCorrect`, `NothingDangles`, `StacksAreChains`,
  `VersionsAreDistinct`, `StacksAreFound`, `WindowsShowOneVersion`;
- `FileNameIsKept`: `Spec => KeepsFileName`, an action property that needs the
  chain for undo and redo, and fresh stacks for new and opened documents;
- `MembersAreSaved` and `CleanIsSaved`: `SavedMembers` and `CleanMeansSaved` hold.
  `CleanMeansSaved` speaks of shown documents only and is not inductive: an undo
  shows a version it said nothing about, under a name it did not have.
  `SavedMembers` speaks of every version of the stack under the name that the shown
  one has now; an edit marks both ends of its command, a save clears only the
  version that it writes, and a document that is opened is in no other stack.

`IInv` is the conjunction of the type invariant with `Chained`,
`VersionsDistinct`, `NoDangling`, `StackFound`, `WindowsAgree` and `Ownership`.
None of the five is inductive alone. That a push frees nothing in use needs the
versions to be distinct; that they stay distinct needs the new clone to be an
object no stack knows, which is `Ownership`: the documents with a key in
`_undoStack` are exactly the live versions of the open stacks, and the clone of
the waiting command is none of them.

The argument follows the code. `PushShape` says what the list looks like after
the undone commands are dropped, the last one relinked and the new one added;
`ChainOf`, `CommandOf`, `ShownAt` and `ShownOnce` read off an invariant where a
document stands in its stack; `CloneIsNew` and `ClearFrees` deal with the waiting
command. `PushInvariant` is about a push of any clone that no stack knows, in any
handler. New, open and close share `LeavingFrees`, `AfterLeaving` and
`LeavingInvariant`, what a window leaves behind; `NextInvariant` puts them together.

`HistoryIsKept`: `Spec => KeepsHistory`, the refinement that `undo_shared` checks
for two stacks of two commands, for stacks of any length. `HistoryIs` says of a
stack what the mapping of `History` makes of it: no versions if no document belongs
to it, else one more than it has commands, each the score of the document that its
command undoes to, and a cursor in range. It follows from `IInv` in either state of
a step; then each action is one lemma: an edit is `Append(SubSeq(...))` because the
shown document stands right behind the done commands (`ShownAt`) and in no earlier
place of the chain (`ChainOf`), so that changing it in place changes no version
before it, and the relinked clone holds what it held; undo and redo move the cursor
and no version; the last window that leaves closes the history; and what belongs to
another stack is the same before and after (`SameHistory`).

### UndoProofs, the callers

With one window, no commit behind which something can be redone, and no late push
(`OneWindow`, without which `RunningSound` has the counterexamples listed as
deviations): `CallersInvariant`, the whole `IInv` of the undo core unless the program
has crashed, and from it `RunningStaysSound`. The steps that follow the protocol are
those above; `PushCreated` is `PushInvariant` for a clone that another
handler created; for a commit the versions next to the shown one are relinked to the
new document, which no stack knew.

### MidiProofs

`TimesReadBack`: every number of at most 28 bits is written in one to four bytes
and read back as itself, by cases on the highest digit that is not zero. For any
messages, intervals and bounds (`RecorderAssumption`), and if the user does not
record again after a stop in a pause (`~RecordAgain`, without which
`recorder_restart` is a counterexample): `RecorderInvariant`, and from it
`RecorderTypes`, `ViewStaysRight`, `RecorderMissesNothing`, `FileSoundsAsHeard`,
`StopAlwaysWrites`. The strengthening `InStep` says that while something is
recorded the recorder's time is the time the view has shown, and the time of the
export is that of the last event played: only then is the next difference right.

### ImportProofs

For any number of imports: `ImportInvariant`, and from it `ImportTypes`,
`AskedBeforeLost` (`NothingLost`), `CrashIsRisky`. The
strengthenings say where the exceptions come from: a question or a deletion that
meets a running thread was put by something risky (`AskedIsRisky`,
`DeletedIsRisky`), a sheet that is read has a document to go to (`SheetHasTarget`),
a document that will be replaced was agreed to be, or edited since
(`AgreedOrEdited`), and what no file holds is marked as modified or an imported sheet
(`UnsavedIsMarked`; the deviations show that the exception is needed).

### TypesetProofs

For any exporters, files and number of requests, and whichever handlers run twice:
`TypesetInvariant`, and from it `LastIsAnswered` (`AnswersAreRight`); and, if no two
exporters make the same file (`OwnFile`, see the deviations), `OutputsAreRemoved`. The
strengthenings say that signals, control and dialogs belong to the last request of
their exporter unless that was hasty or its file was not opened (`Unopened`), and that
each output which is there is still to be removed, by a signal that is posted or by a
dialog that is open, or could not be copied.

### RecoveryProofs

For any documents, edits and number of files, but one program that crashes only
while it opens files or is idle (`OneProgram`; both limits are needed, see
`recovery_crash` and the deviations): `RecoveryInvariant`, and from it
`CrashesAreRecovered`, `CleanExits`, `SavesAreComplete`. The invariant says how the
files lie in each phase (the first so many, whole, of different documents) and
where the last written version of each document is: in a file, or already open.

### PlaybackProofs and PlayNowProofs, a sheet

The specification is `AllSpec`, both playbacks of a window, for any sheets with
elements in the order of their times (`SheetsAssumption`), any start times and any
inserted notes. `StepIs` reduces a step of it to one of `Playback` or one that leaves
the sheet's playback alone. Five inductive invariants, each on top of the ones
before it:

- `SheetInv`: `streamIdx` and `lastRepeatOpenIdx` are in the voices or just behind
  them, what an index of a repeat points to is one, what was looked at in
  `_curPlaying` is not over, and a thread that has ended left nothing in it.
  From it `SheetInvariant`, `AllTypes` (`AllTypeOK`).
- `SoundingInv`: what sounds was made by an element of the list, or is tied to the
  next. `NoSoundForgotten` (`SoundingIsPlaying`), through stops and jumps.
- `DeletedInv`: no repeat still ahead leads back to what was deleted.
  `NoDeletedElement` (`NothingDeletedAhead`), if `~EditAhead`, which is how the window
  is meant to be used; the deviations say what happens without it.
- `WalkInv`, of a playback nobody stopped, for sheets that are `WellMade`: every
  voice is in step (`InStep`: what plays of it ends when the next element begins, and
  nothing ahead is late) or silent; what sounds will be turned off by a note that
  plays or one to come (`Heard`); and up to the jump no voice has passed the end of
  the section without another still to meet it, and all know the beginnings they
  passed (`NotYet`). So the jump is made by a voice that stands where all others
  do (`JumpsRight`), after it all voices begin the section anew (`BeginsAgain`), and
  a thread that stops itself has nothing left in any voice. `NoteOffForEach`
  (`EndsSilent`).
- `PlayInv`: what was performed of a voice is, up to the jump, what it has that
  plays from the start to its position, and after it the whole section and what it
  has from the beginning of the section. `SheetIsPlayed` (`PlaysAsWritten`).
- `ExportInv`: the time played is that of the sheet, now and at the last event;
  after the jump it is ahead by the length of the section, or nothing has been
  sent yet and the first note of the section is still to come (`JustJumped`).
  Before the jump what ends the section is still to be turned off until an event
  has been sent at that time (`EndIsSent`), so the export has seen the whole
  section. `ExportInTime` (`ExportKeepsTime`).

The hypotheses. `WellMade` is what the editor keeps to (`Staff`: voices without gaps,
chords stand together) with what the notation means: a tied note has its other end,
at most one section is repeated and all voices mark it. The deviations
name sheets with other repeats on which `PlaysAsWritten` fails. TLC evaluates
`WellMade` for the sheets of the run, so the theorems are about them, too. That
nothing lasts across the start (`NothingAcross`) is part of `PlaysAsWritten`;
`ExportInTime` starts from the beginning, where it holds.

`InOrder` and `TurnOn` put elements in order. The provers know no definition of
TLC's sort, so `Sorted` picks the element with so many at or before it, and `Ranks`
proves that there is exactly one: the ranks of a finite ordered set are a bijection
to `1 .. n`, because they differ and are at most `n`. `AscendingJoined` then says that
two sets, one below the other, are listed one after the other, by which
`performed` grows. Least elements come from the well-founded order of the numbers
(`Least`), not from induction over the list. `AsWritten` lays a list of lists out by
a fold; with one repeat that list has at most one member (`FlatOne`).

### PlayNowProofs, the inserted notes

For any notes, lengths, lists that are inserted and number of insertions:
`NotesInvariant`, and from it `NotesEndInTime` (`NotesKeepTime`). The strengthenings:
`NoneLeft`, the loop is left, and begun, with nothing playing; `NotLate`, a note the
walk has looked at is not due, and none is over time, which holds because a
pass looks at all of them and then sleeps for one unit. Two lists that lose and
gain an element at the same place stay in step (`WithoutOne`, `Joined`). If the pitch
of a note that plays is not changed (`~ChangePlaying`): `NoneStaysOn`
(`HeardArePlaying`); the condition is needed, see the deviations.

### StaffProofs

For any signs, lengths (`LengthsAssumption`: those of `CAPlayableLength`), number of
voices, time and chords, with or without the dot key on any note: `StaffInvariant`,
and from it `WalksEnd` (`WalkEnds`) and `NotesAreKept` (`KeepsNotes`).

The invariant has two parts. Between and during walks the voices are lists of
signs, and of notes and rests with even times and lengths that can be written
(`Scores`), and there is one at least. `Times` is the even integers: that the lists are
well-formed must be shown of the positions inside a handler, too, and there a time
may be on its way; that no time is negative depends on `Linear`, see below. During a
walk (`WalkInvariant`) the index of each voice is inside it (`Sound`), some voice has an
element at the time of the walk (`Pending`), and there have been no more passes than
elements taken, and one. The last two give each other: a pass that finds an element
takes one (`Passed`), and a pass that is not the last one goes on to the nearest start,
where there is an element. `WalkEnds` follows as the elements taken are elements.

A loop of the code is `Loop`, a recursive function: a fold of the library would do for
TLC, but the provers have only its definition for every operator at once. For each
loop there is one lemma that names the sequence of its results (`TotalLoop`,
`MoveSignsLoop`, `FillVoicesLoop`, `CutOthersLoop`, ...), proved by choosing it round by
round up to a number of rounds; what the loop keeps then follows from a set of the rounds
at which it is kept, which has no least one missing (`Upward`). On top of these stand
what the operations of `CAVoice` leave (`UpdateTimesIs`, `InsertPlayableIs`,
`RemovePlayableIs`, `ComposeRestsIs`, ...), and one lemma for each handler
(`PlacePlayableKeeps`, `ReplaceKeeps`, ..., put together in `EditKeeps`).

A pass has three kinds of parts. `Steps`: sharing signs and stepping over playables
take at most one element of each voice and no note changes. `Repairs`: moving signs
and filling voices leave each index as far from the end of its voice as it was and
only delay notes. The rest reads. What a list becomes is seen through `NotesOf`: a
sign that goes behind a note or a rest that comes in does not change it
(`ExchangedNotes`), and `OnlyDelays` is transitive, so that it holds of the whole pass.

### Only model-checked

The liveness properties and whatever needs ENABLED (beyond the prover):
`PlaybacksEnd`, `EventuallySaved`, `ProgressEnds`, `Answered`. Of `Staff`:
`SignsShared` and `Linear` are no theorems, since they are not true for every value
of the constants: two signs, three voices, the dot on any note, or a rest shorter than a
128th refute them (see the deviations). What holds for one sign and two voices rests on
how the times of two lists come out even after each handler, which TLC shows for the
staffs within `MaxTime`. `TypeOK` of `Staff` says of the times also that they are not
negative; that a handler which shortens a voice moves nothing below zero depends on the
order of the times in it, which is part of `Linear`.

## Not modelled

Widgets, layout and drawing (one call that computes coordinates), the text of the
file formats and the layout of archives, scripting (foreign interpreters),
vendored libraries, and of the score what no property above looks at: pitches,
marks, slurs, lyrics, figured bass, tuplets. The `.ts` files under `lang/` are
translations, XML data that Qt Linguist reads; there is no behaviour in them.
Selections of several elements are left out of `Staff`: `deleteSelection` goes
through them in the order of a hash. `openRecovery` waits at most two minutes for a
file to be read and then uses the document while the thread goes on
(`core/autorecovery.cpp:122`): `AutoRecovery` takes a file that was read or not. Resources
are attached files with shared ownership; what could go wrong is file I/O in one
call. Exporting to PDF or SVG by the export dialog is the thread of `Typeset` with
another caller; the conversion from PostScript in it is never switched on.

## Plan

Done, in this order: `EditHistory` and `Undo`, `UndoCallers`, `UndoProofs`,
`Playback`, `AutoRecovery`, `Import`, `Staff`, `MidiExport` and `MidiRecorder`,
`PlayNow`, `MidiProofs`, `ImportProofs`, `Typeset`, `TypesetProofs`,
`RecoveryProofs`, `PlayNowProofs`, the callers and the refinement in `UndoProofs`,
`PlaybackProofs`, `StaffProofs`. What would come next:

1. `Staff`: tuplets, automatic bar lines and paste; a second sign kept apart from
   the first, so that the passing run has two.
2. A module of pure algorithms with reference definitions: `composeRests` and
   `timeLengthToPlayableLengthList`, the quantisation of `import/midiimport.cpp`.
3. `Resources` on save; the export dialog and its `_poExp` in `Typeset`.
4. Composition of `Import` and `Undo`: an import that replaces a document whose
   versions a second window still undoes.
5. Proofs about `Staff` with two voices, one sign and the dot on the last note of a
   chord: `Linear`, and from it that no time is negative, and `SignsShared`.

The runs stay few: a question that a wider run answers replaces a narrower one.
