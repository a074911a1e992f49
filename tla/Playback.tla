------------------------------ MODULE Playback ------------------------------
(***************************************************************************)
(* Playing a sheet: CAPlayback (src/src/interface/playback.cpp), a thread  *)
(* that walks through the voices of a sheet and sends note-on and note-off *)
(* messages, and the main window that starts, stops and deletes it         *)
(* (src/src/ui/mainwin.cpp).                                               *)
(*                                                                         *)
(* The two threads share _stop and _curPlaying without a lock, so every    *)
(* step of the playback thread reads _stop at most once.  The thread copies *)
(* the lists of the voices when it begins, but not the elements in them:   *)
(* the window may delete those while the thread runs.                      *)
(*                                                                         *)
(* A sheet is exported to a MIDI file by the same walk, which hands its     *)
(* times to CAMidiExport instead of waiting (export keeps what is written). *)
(*                                                                         *)
(* An element is a position <<i, j>>: the j-th of voice i.  Tempo, volume, *)
(* instruments and the bytes of the notes are left out.                    *)
(***************************************************************************)
EXTENDS MidiExport, FiniteSets, FiniteSetsExt, SequencesExt

CONSTANTS
  Sheets,     \* the sheets: a sequence of voices, each a sequence of elements
  InitTimes,  \* where the selection may put the start of the playback
  EditAhead   \* may what the thread will still look at be deleted?

Kinds == {"note", "rest", "sign", "repeatOpen", "repeatClose"}

\* tied: the note ends in the note after it; held: it continues the note
\* before it.
Element == [kind : Kinds, start : Nat, end : Nat, pitch : Nat,
            tied : BOOLEAN, held : BOOLEAN]

\* The times of a voice do not go back, and no element ends before it starts.
TimesInOrder(voice) ==
  \A j \in DOMAIN voice :
    /\ voice[j].start <= voice[j].end
    /\ \A k \in DOMAIN voice : k < j => voice[k].start <= voice[j].start

ASSUME SheetsAssumption ==
  /\ \A sh \in Sheets : /\ sh \in Seq(Seq(Element))
                        /\ \A i \in DOMAIN sh : TimesInOrder(sh[i])
  /\ InitTimes \subseteq Nat
  /\ EditAhead \in BOOLEAN

VARIABLES
  sheet,             \* _sheet
  thread,            \* where run() is; "none" without a CAPlayback object
  initTime,          \* _initTimeStart
  curTime,           \* _curTime
  streamIdx,         \* _streamIdx + 1
  lastRepeatOpenIdx, \* _lastRepeatOpenIdx + 1
  repeating,         \* _repeating
  curPlaying,        \* _curPlaying
  next,              \* the next of curPlaying or of the streams to look at
  stop,              \* _stop
  stopLock,          \* _stopLock: the window waits in stopNow()
  sounding,          \* the notes this playback told the device to play
  performed,         \* what has been played, in order, of every voice
  asked,             \* did the user ask for the end?
  deleted,           \* the elements of the sheet deleted since it began
  posted,            \* finished() is in the queue of the window
  elapsed,           \* how long it has played
  export             \* what an export has written: the time of the last event,
                     \* the sum of the time increments, and elapsed at that event

threadVars == <<curTime, streamIdx, lastRepeatOpenIdx, repeating, curPlaying,
                next, sounding, performed, elapsed, export>>
windowVars == <<sheet, initTime, stopLock, asked, deleted>>
vars == <<thread, stop, posted, threadVars, windowVars>>

Running == {"begin", "test", "off", "seek", "check", "on"}

TypeOK ==
  /\ sheet \in Sheets
  /\ thread \in Running \cup {"none", "finished"}
  /\ {initTime, curTime, next} \subseteq Nat
  /\ streamIdx \in Seq(Nat \ {0}) /\ lastRepeatOpenIdx \in Seq(Nat)
  /\ {repeating, stop, stopLock, asked, posted} \subseteq BOOLEAN
  /\ curPlaying \in Seq(Nat \X Nat)
  /\ sounding \subseteq Nat \X Nat
  /\ performed \in Seq(Seq(Nat))
  /\ deleted \subseteq Nat \X Nat
  /\ elapsed \in Nat
  /\ export \in [time : Nat, written : Nat, elapsed : Nat]

Voices == DOMAIN sheet
At(p) == sheet[p[1]][p[2]]
Playable(e) == e.kind \in {"note", "rest"}
Positions == UNION {{<<i, j>> : j \in DOMAIN sheet[i]} : i \in Voices}

-----------------------------------------------------------------------------
(* The thread.                                                             *)

\* A slip: every note of a chord is taken for the first.
AlwaysFirst(i, j) == TRUE

FirstInChord(i, j) ==
  j > 1 => \/ sheet[i][j - 1].kind # "note"
           \/ sheet[i][j - 1].start # sheet[i][j].start

\* loopUntilPlayable goes on over element j of voice i at time t.
Passes(i, j, t) ==
  LET e == sheet[i][j]
  IN e.start < t \/ (e.start = t /\ (e.kind # "note" \/ FirstInChord(i, j)))

Passed(i, from, t) ==
  {j \in from .. Len(sheet[i]) : \A k \in from .. j : Passes(i, k, t)}

\* A slip: an index that is one too low.
LastOfLow(S, default) == IF S = {} THEN default ELSE Max(S) - 1

LastOf(S, default) == IF S = {} THEN default ELSE Max(S)

OfKind(i, S, kind) == {j \in S : sheet[i][j].kind = kind}

\* A last element that cannot be played is skipped.
SkipLast(i, j) ==
  IF j = Len(sheet[i]) /\ ~Playable(sheet[i][j]) THEN j + 1 ELSE j

\* The index loopUntilPlayable leaves behind when it starts from j; the loop
\* sets the index one step late, so it is the last element passed.
SeekFrom(i, j, S) == SkipLast(i, LastOf(S, j))

\* initStreams: repeats are ignored on the way to the start.
InitStreams ==
  LET S(i) == Passed(i, 1, initTime)
  IN /\ curTime' = initTime
     /\ streamIdx' = [i \in Voices |-> SeekFrom(i, 1, S(i))]
     /\ lastRepeatOpenIdx' = [i \in Voices |-> LastOf(OfKind(i, S(i), "repeatOpen"), 0)]
     /\ repeating' = FALSE
     /\ UNCHANGED <<curPlaying, next, sounding, performed, elapsed, export>>

\* run() up to its loop: the streams, unless a run before this one has them,
\* and the flag is reset.
Begin ==
  /\ thread = "begin"
  /\ thread' = "test"
  /\ stop' = (sheet = << >>)
  /\ IF streamIdx = << >> THEN InitStreams ELSE UNCHANGED threadVars
  /\ UNCHANGED <<posted, windowVars>>

\* The condition of the loop; after the loop the list is cleared and the
\* thread ends, which posts finished() to the window.
Test ==
  /\ thread = "test"
  /\ next' = 1
  /\ IF stop /\ curPlaying = << >>
     THEN thread' = "finished" /\ posted' = TRUE
     ELSE thread' = "off" /\ UNCHANGED posted
  /\ UNCHANGED <<curTime, streamIdx, lastRepeatOpenIdx, repeating, curPlaying,
                 sounding, performed, elapsed, export, stop, windowVars>>

\* A slip: what ends just now is not over.
OverLate(p) == stop \/ At(p).end < curTime

Over(p) == stop \/ At(p).end <= curTime

\* Slips: both ends of a tie are left out; a stop sends no note off.
NoteOffUntied(p) ==
  IF At(p).kind = "note" /\ ~At(p).tied /\ ~At(p).held
  THEN {<<p[1], At(p).pitch>>} ELSE {}

NoteOffInTime(p) ==
  IF At(p).kind = "note" /\ ~At(p).tied /\ At(p).end <= curTime
  THEN {<<p[1], At(p).pitch>>} ELSE {}

\* The note off that is sent for p: none, if it is tied to the note after it.
NoteOff(p) ==
  IF At(p).kind = "note" /\ ~At(p).tied THEN {<<p[1], At(p).pitch>>} ELSE {}

\* CAMidiExport::send: an event at time t.
Sent(t) ==
  [time |-> t, written |-> export.written + TimeIncrement(t, export.time),
   elapsed |-> elapsed]

TurnOff ==
  /\ thread = "off"
  /\ next <= Len(curPlaying)
  /\ Over(curPlaying[next])
  /\ curPlaying' = RemoveAt(curPlaying, next)
  /\ sounding' = sounding \ NoteOff(curPlaying[next])
  /\ export' = IF NoteOff(curPlaying[next]) # {} THEN Sent(curTime) ELSE export
  /\ UNCHANGED <<thread, curTime, streamIdx, lastRepeatOpenIdx, repeating,
                 next, performed, elapsed, stop, posted, windowVars>>

LeaveOn ==
  /\ thread = "off"
  /\ next <= Len(curPlaying)
  /\ ~Over(curPlaying[next])
  /\ next' = next + 1
  /\ UNCHANGED <<thread, curTime, streamIdx, lastRepeatOpenIdx, repeating, curPlaying,
                 sounding, performed, elapsed, export, stop, posted, windowVars>>

AllLookedAt ==
  /\ thread = "off"
  /\ next > Len(curPlaying)
  /\ thread' = "seek"
  /\ next' = 1
  /\ UNCHANGED <<curTime, streamIdx, lastRepeatOpenIdx, repeating, curPlaying,
                 sounding, performed, elapsed, export, stop, posted, windowVars>>

\* A slip: the flag _repeating is not asked.
JumpsAlways(i, S) == OfKind(i, S, "repeatClose") # {}

\* Only the first end of a repeat is obeyed.
JumpsBack(i, S) == ~repeating /\ OfKind(i, S, "repeatClose") # {}

\* loopUntilPlayable without a repeat.
SeekOn ==
  LET i == next
      S == Passed(i, streamIdx[i], curTime)
  IN /\ thread = "seek"
     /\ i \in Voices
     /\ ~JumpsBack(i, S)
     /\ streamIdx' = [streamIdx EXCEPT ![i] = SeekFrom(i, @, S)]
     /\ lastRepeatOpenIdx' = [lastRepeatOpenIdx EXCEPT ![i] =
                                LastOf(OfKind(i, S, "repeatOpen"), @)]
     /\ next' = i + 1
     /\ UNCHANGED <<thread, curTime, repeating, curPlaying, sounding, performed,
                    elapsed, export, stop, posted, windowVars>>

\* loopUntilPlayable that meets the end of a repeat: all the voices jump, the
\* time is that of voice i there, and the loop goes on behind that element.
SeekBack ==
  LET i == next
      S == Passed(i, streamIdx[i], curTime)
      closes == OfKind(i, S, "repeatClose")
      before == {j \in S : j < Min(closes)}
      opened == [lastRepeatOpenIdx EXCEPT ![i] =
                   LastOf(OfKind(i, before, "repeatOpen"), @)]
      back == [k \in Voices |-> opened[k] + 1]
      t == sheet[i][back[i]].start
      S2 == Passed(i, back[i] + 1, t)
  IN /\ thread = "seek"
     /\ i \in Voices
     /\ JumpsBack(i, S)
     /\ curTime' = t
     /\ repeating' = TRUE
     /\ streamIdx' = [back EXCEPT ![i] = SeekFrom(i, @, S2)]
     /\ lastRepeatOpenIdx' = [opened EXCEPT ![i] = LastOf(OfKind(i, S2, "repeatOpen"), @)]
     /\ next' = i + 1
     /\ UNCHANGED <<thread, curPlaying, sounding, performed, elapsed, export, stop,
                    posted, windowVars>>

SoughtAll ==
  /\ thread = "seek"
  /\ next \notin Voices
  /\ thread' = "check"
  /\ UNCHANGED <<stop, posted, threadVars, windowVars>>

\* if (_stop) continue
Check ==
  /\ thread = "check"
  /\ thread' = IF stop THEN "test" ELSE "on"
  /\ UNCHANGED <<stop, posted, threadVars, windowVars>>

\* The elements of voice i that start now.
Starting(i) ==
  {j \in streamIdx[i] .. Len(sheet[i]) :
     \A k \in streamIdx[i] .. j : sheet[i][k].start = curTime}

\* The elements of a finite set in order: so many stand up to the k-th.
\* (The provers know no definition of the operator behind SetToSortSeq.)
Sorted(S, NotBehind(_, _)) ==
  [k \in 1 .. Cardinality(S) |->
     CHOOSE x \in S : Cardinality({y \in S : NotBehind(y, x)}) = k]

UpTo(p, q) == p[1] < q[1] \/ (p[1] = q[1] /\ p[2] <= q[2])

InOrder(i, S) == Sorted({j \in S : Playable(sheet[i][j])}, <=)

\* Note on for everything that starts now, and a pause until the first of
\* what is playing ends.  When nothing plays any more, the thread stops
\* itself.
TurnOn ==
  LET started == UNION {{<<i, j>> : j \in Starting(i)} : i \in Voices}
      on == {p \in started : At(p).kind = "note" /\ ~At(p).held}
      playing == curPlaying \o Sorted({p \in started : Playable(At(p))}, UpTo)
      lengths == {At(p).end - curTime : p \in started \cup Range(playing)}
  IN /\ thread = "on"
     /\ thread' = "test"
     /\ curPlaying' = playing
     /\ sounding' = sounding \cup {<<p[1], At(p).pitch>> : p \in on}
     /\ export' = IF on # {} THEN Sent(curTime) ELSE export
     /\ performed' = [i \in Voices |-> performed[i] \o InOrder(i, Starting(i))]
     /\ streamIdx' = [i \in Voices |-> streamIdx[i] + Cardinality(Starting(i))]
     /\ IF lengths = {}
        THEN stop' = TRUE /\ UNCHANGED <<curTime, elapsed>>
        ELSE /\ curTime' = curTime + Min(lengths)
             /\ elapsed' = elapsed + Min(lengths)
             /\ UNCHANGED stop
     /\ UNCHANGED <<lastRepeatOpenIdx, repeating, next, posted, windowVars>>

Thread ==
  \/ Begin \/ Test \/ TurnOff \/ LeaveOn \/ AllLookedAt
  \/ SeekOn \/ SeekBack \/ SoughtAll \/ Check \/ TurnOn

-----------------------------------------------------------------------------
(* The window.  While it waits in stopNow() it does nothing else.          *)

\* initPlayback, the fields of a new CAPlayback; without one they are the same.
InitPlayback ==
  /\ curTime' = 0 /\ next' = 1
  /\ streamIdx' = << >> /\ lastRepeatOpenIdx' = << >>
  /\ repeating' = FALSE /\ stop' = FALSE /\ stopLock' = FALSE /\ posted' = FALSE
  /\ curPlaying' = << >> /\ sounding' = {}
  /\ performed' = [i \in Voices |-> << >>]
  /\ elapsed' = 0 /\ export' = [time |-> 0, written |-> 0, elapsed |-> 0]
  /\ asked' = FALSE /\ deleted' = {}
  /\ UNCHANGED sheet

\* on_uiPlayFromSelection_toggled(true)
Play(t) ==
  /\ thread = "none"
  /\ thread' = "begin"
  /\ initTime' = t
  /\ InitPlayback

\* on_uiPlayFromSelection_toggled(false)
Stop ==
  /\ ~stopLock /\ thread # "none"
  /\ stop' = TRUE
  /\ asked' = TRUE
  /\ UNCHANGED <<thread, posted, threadVars, sheet, initTime, stopLock, deleted>>

\* stopPlayback() in a handler that is about to change the document, and the
\* deletion of an element that is playing: stopNow() waits for the thread.
StopNow ==
  /\ ~stopLock /\ thread \in Running
  /\ stopLock' = TRUE
  /\ stop' = TRUE
  /\ asked' = TRUE
  /\ UNCHANGED <<thread, posted, threadVars, sheet, initTime, deleted>>

\* A note is inserted: playImmediately() of the playback that is there.  What
\* it appends to _selection is for a playback of notes only, but if the thread
\* has ended and finished() is still in the queue it is started again.
InsertNote ==
  /\ ~stopLock /\ thread = "finished"
  /\ thread' = "begin"
  /\ UNCHANGED <<stop, posted, threadVars, windowVars>>

\* wait() returns in stopNow(), or finished() is delivered to it after the
\* thread ended: playbackFinished() deletes the object, with what is posted for
\* it, and the port is closed.
PlaybackFinished ==
  /\ thread = "finished"
  /\ posted \/ stopLock
  /\ thread' = "none"
  /\ initTime' = 0
  /\ InitPlayback

\* finished() is delivered to stopNow() when the thread runs again: it waits.
FinishedLate ==
  /\ posted /\ ~stopLock /\ thread \in Running
  /\ posted' = FALSE
  /\ stopLock' = TRUE
  /\ stop' = TRUE
  /\ asked' = TRUE
  /\ UNCHANGED <<thread, threadVars, sheet, initTime, deleted>>

\* The thread is done with p: it is over, and no repeat will come back to it.
Behind(p) ==
  /\ thread # "begin"
  /\ p \notin Range(curPlaying)
  /\ p[2] < streamIdx[p[1]]
  /\ ~repeating => \A i \in Voices :
       OfKind(i, streamIdx[i] .. Len(sheet[i]), "repeatClose") = {}

\* deleteSelection of an element that is not playing; one deletion in a
\* playback is enough, as NothingDeletedAhead is about each of them.  What the thread does
\* with a deleted element is not modelled: NothingDeletedAhead is false then.
DeleteElement(p) ==
  /\ ~stopLock /\ thread \in Running \cup {"finished"}
  /\ p \notin Range(curPlaying)
  /\ EditAhead \/ Behind(p)
  /\ deleted = {}
  /\ deleted' = {p}
  /\ UNCHANGED <<thread, stop, posted, threadVars, sheet, initTime, stopLock, asked>>

\* on_uiCloseDocument_triggered does not stop the playback.
CloseDocument ==
  /\ ~stopLock /\ thread \in Running \cup {"finished"}
  /\ EditAhead \/ \A p \in Positions : Behind(p)
  /\ deleted' = Positions
  /\ UNCHANGED <<thread, stop, posted, threadVars, sheet, initTime, stopLock, asked>>

Init ==
  /\ sheet \in Sheets
  /\ thread = "none"
  /\ initTime = 0 /\ curTime = 0 /\ next = 1
  /\ streamIdx = << >> /\ lastRepeatOpenIdx = << >>
  /\ repeating = FALSE /\ stop = FALSE /\ stopLock = FALSE /\ posted = FALSE
  /\ curPlaying = << >> /\ sounding = {}
  /\ performed = [i \in Voices |-> << >>]
  /\ elapsed = 0 /\ export = [time |-> 0, written |-> 0, elapsed |-> 0]
  /\ asked = FALSE /\ deleted = {}

Window ==
  \/ \E t \in InitTimes : Play(t)
  \/ Stop \/ StopNow \/ InsertNote \/ PlaybackFinished \/ FinishedLate
  \/ \E p \in Positions : DeleteElement(p)
  \/ CloseDocument

Next == Thread \/ Window

\* The system schedules the thread, and the window's event loop delivers
\* finished() or the window returns from wait().
Spec == Init /\ [][Next]_vars /\ WF_vars(Thread) /\ WF_vars(PlaybackFinished \/ FinishedLate)

-----------------------------------------------------------------------------
(* Properties.                                                             *)

\* The sheets an editor makes.  The elements of a voice follow each other
\* without a gap from time 0 on, the notes of a chord stand together, and what
\* plays takes time.
Mates(d, e) ==
  d.kind = "note" /\ e.kind = "note" /\ d.start = e.start /\ d.end = e.end

NoGaps(voice) ==
  /\ voice # << >> => voice[1].start = 0
  /\ \A j \in DOMAIN voice : Playable(voice[j]) <=> voice[j].start < voice[j].end
  /\ \A j \in 1 .. Len(voice) - 1 :
       voice[j + 1].start = voice[j].end \/ Mates(voice[j], voice[j + 1])

\* A tied note is followed by one of its pitch that is not tied.
TiesEnd(voice) ==
  \A j \in DOMAIN voice : voice[j].tied =>
    \E k \in DOMAIN voice : /\ j < k /\ voice[k].kind = "note" /\ ~voice[k].tied
                            /\ voice[k].pitch = voice[j].pitch

\* At most one section is repeated, and every voice marks where it ends and
\* what may begin it, which is earlier.
OneRepeat(sh) ==
  \A i, k \in DOMAIN sh : \A c \in DOMAIN sh[i] : sh[i][c].kind = "repeatClose" =>
    /\ \A d \in DOMAIN sh[i] : sh[i][d].kind = "repeatClose" => d = c
    /\ \E d \in DOMAIN sh[k] : sh[k][d].kind = "repeatClose" /\ sh[k][d].start = sh[i][c].start
    /\ \A o \in 1 .. c : sh[i][o].kind = "repeatOpen" =>
         /\ sh[i][o].start < sh[i][c].start
         /\ \E l \in DOMAIN sh[k] : sh[k][l].kind = "repeatOpen" /\ sh[k][l].start = sh[i][o].start

WellMade(sh) == OneRepeat(sh) /\ \A i \in DOMAIN sh : NoGaps(sh[i]) /\ TiesEnd(sh[i])

\* The times that a sheet played from initTime goes through once it ended by
\* itself: every repeated section twice.  Repeats end where any voice ends
\* one, and go back to the last beginning before that.
EndTimes ==
  {At(p).start : p \in {q \in Positions : At(q).kind = "repeatClose"}}

BeginTime(t) ==
  LastOf({At(p).start : p \in {q \in Positions : /\ At(q).kind = "repeatOpen"
                                               /\ At(q).start < t}}, 0)

Section(i, from, to) ==
  InOrder(i, {j \in DOMAIN sheet[i] : sheet[i][j].start \in from .. to - 1})

AsWritten(i) ==
  LET ends == Sorted({t \in EndTimes : t > initTime}, <=)
      last == IF ends = << >> THEN initTime ELSE Last(ends)
      total == Max({At(p).end : p \in Positions} \cup {0}) + 1
  IN FlattenSeq([n \in DOMAIN ends |->
                   Section(i, IF n = 1 THEN initTime ELSE ends[n - 1], ends[n])
                     \o Section(i, BeginTime(ends[n]), ends[n])])
       \o Section(i, last, total)

\* No element lasts across the time where the playback starts.
NothingAcross ==
  \A p \in Positions : ~(At(p).start < initTime /\ initTime < At(p).end)

\* A playback nobody stopped has played every voice as it is written, with
\* the repeat: loopUntilPlayable moves all the voices and the time together.
\* How long run() sleeps it works out from what plays only: a voice that starts
\* in the middle of an element may have its next ones meanwhile and skips them.
PlaysAsWritten ==
  thread = "finished" /\ ~asked /\ NothingAcross =>
    \A i \in Voices : performed[i] = AsWritten(i)

InTie(n) ==
  \E j \in DOMAIN sheet[n[1]] : sheet[n[1]][j].tied /\ sheet[n[1]][j].pitch = n[2]

\* A sounding note is kept in _curPlaying until it is turned off, through
\* stops and jumps back, or it is tied to a note that will turn it off.
SoundingIsPlaying ==
  \A n \in sounding :
    \/ InTie(n)
    \/ \E p \in Range(curPlaying) : p[1] = n[1] /\ At(p).pitch = n[2]

\* A playback nobody stopped leaves no note sounding, not even a tied one.
EndsSilent == thread = "finished" /\ ~asked => sounding = {}

\* At the end of a repeated section some note ends, and at its beginning some
\* note begins: an event is sent before and after the jump.
JumpsAreHeard ==
  \A t \in EndTimes :
    /\ \E p \in Positions : At(p).end = t /\ NoteOff(p) # {}
    /\ \E p \in Positions : /\ At(p).start = BeginTime(t)
                            /\ At(p).kind = "note" /\ ~At(p).held

\* "to export the music lengths independent of tempo" (playback.cpp:43): the
\* increments written to a MIDI file add up to the time played, also when the
\* time of the sheet goes back at a repeat.
ExportKeepsTime ==
  ~asked /\ initTime = 0 /\ JumpsAreHeard => export.written = export.elapsed

\* "at stop true: enter to switch all notes off" (playback.cpp:149)
SilentWhenDone == thread \in {"finished", "none"} => sounding = {}

\* A request to stop is not forgotten while the playback lasts ("Call
\* myPlaybackObject->stop() to stop the playback", playback.cpp:38).
StopIsKept == [][stop /\ asked /\ thread' # "begin" => stop']_vars

\* "stop the playback before deleting the note" (mainwin.cpp:5734): what the
\* thread will still look at has not been deleted.
NothingDeletedAhead ==
  thread \in Running \ {"begin"} =>
    \A p \in deleted : p \notin Range(curPlaying) /\ p[2] < streamIdx[p[1]]

=============================================================================
