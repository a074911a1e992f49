----------------------------- MODULE MidiProofs -----------------------------
(***************************************************************************)
(* Theorems about the numbers of a MIDI track and about the MIDI recorder. *)
(***************************************************************************)
EXTENDS MidiRecorder, TLAPS

\* Every digit is a number of seven bits.
LEMMA DigitType ==
  ASSUME NEW t \in Nat, NEW k \in 0 .. 3
  PROVE  Digit(t, k) \in 0 .. 127
<1>1. \A n \in Nat : n \div 128 \in Nat
  OBVIOUS
<1>2. Shift(t, k) \in Nat
  BY <1>1 DEF Shift
<1>. QED  BY <1>2 DEF Digit

\* A number of 28 bits is the sum of its four digits.
LEMMA DigitsSum ==
  ASSUME NEW t \in VariableLengths
  PROVE  t = Digit(t, 0) + 128 * (Digit(t, 1) + 128 * (Digit(t, 2)
               + 128 * Digit(t, 3)))
<1>. DEFINE q1 == t \div 128
            q2 == q1 \div 128
            q3 == q2 \div 128
<1>1. t \in Nat /\ q3 < 128
  BY DEF VariableLengths, Shift
<1>2. t = (t % 128) + 128 * q1 /\ q1 \in Nat
  BY <1>1
<1>3. q1 = (q1 % 128) + 128 * q2 /\ q2 \in Nat
  BY <1>2
<1>4. q2 = (q2 % 128) + 128 * q3 /\ q3 \in Nat
  BY <1>3
<1>5. q3 = q3 % 128
  BY <1>1, <1>4
<1>6. /\ Digit(t, 0) = t % 128 /\ Digit(t, 1) = q1 % 128
      /\ Digit(t, 2) = q2 % 128 /\ Digit(t, 3) = q3 % 128
  BY DEF Digit, Shift
<1>. QED  BY <1>2, <1>3, <1>4, <1>5, <1>6

\* What is written is a sequence of one to four bytes.
LEMMA WriteTimeType ==
  ASSUME NEW t \in Nat
  PROVE  WriteTime(t) \in Seq(0 .. 255)
<1>. DEFINE d(k) == Digit(t, k)
            b0 == d(0)
            b1 == 128 + d(1)
            b2 == 128 + d(2)
            b3 == 128 + d(3)
<1>1. d(0) \in 0 .. 127 /\ d(1) \in 0 .. 127 /\ d(2) \in 0 .. 127 /\ d(3) \in 0 .. 127
  BY DigitType
<1>2. b0 \in 0 .. 255 /\ b1 \in 0 .. 255 /\ b2 \in 0 .. 255 /\ b3 \in 0 .. 255
  BY <1>1
<1>3. WriteTime(t) \in {<<b3, b2, b1, b0>>, <<b2, b1, b0>>, <<b1, b0>>, <<b0>>}
  BY DEF WriteTime
<1>. HIDE DEF b0, b1, b2, b3
<1>4. /\ <<b3, b2, b1, b0>> \in Seq(0 .. 255) /\ <<b2, b1, b0>> \in Seq(0 .. 255)
      /\ <<b1, b0>> \in Seq(0 .. 255) /\ <<b0>> \in Seq(0 .. 255)
  BY <1>2
<1>. QED  BY <1>3, <1>4

\* The reader stops at the first byte without the high bit, wherever it is.
LEMMA VarLengthIs ==
  ASSUME NEW bytes \in Seq(0 .. 255), NEW n \in DOMAIN bytes,
         bytes[n] < 128, \A k \in 1 .. n - 1 : bytes[k] >= 128
  PROVE  VarLength(bytes) = n
<1>. DEFINE Ends(m) == bytes[m] < 128 /\ \A k \in 1 .. m - 1 : bytes[k] >= 128
<1>1. \A m \in DOMAIN bytes : Ends(m) => m = n
  <2>. SUFFICES ASSUME NEW m \in DOMAIN bytes, Ends(m), m # n  PROVE FALSE
    OBVIOUS
  <2>1. m \in Nat /\ n \in Nat /\ m >= 1 /\ n >= 1
    OBVIOUS
  <2>a. bytes[m] \in 0 .. 255 /\ bytes[n] \in 0 .. 255
    OBVIOUS
  <2>b. bytes[m] < 128 /\ \A k \in 1 .. m - 1 : bytes[k] >= 128
    OBVIOUS
  <2>c. \A x \in 0 .. 255 : ~(x < 128 /\ x >= 128)
    OBVIOUS
  <2>2. CASE m < n
    <3>1. m \in 1 .. n - 1
      BY <2>1, <2>2
    <3>2. bytes[m] >= 128
      BY <3>1
    <3>. QED  BY <3>2, <2>a, <2>b, <2>c
  <2>3. CASE n < m
    <3>1. n \in 1 .. m - 1
      BY <2>1, <2>3
    <3>2. bytes[n] >= 128
      BY <3>1, <2>b
    <3>. QED  BY <3>2, <2>a, <2>c
  <2>. QED  BY <2>1, <2>2, <2>3
<1>2. Ends(n)
  OBVIOUS
<1>. QED  BY <1>1, <1>2, Zenon DEF VarLength

-----------------------------------------------------------------------------
\* What writeTime writes, the MIDI reader of Canorus reads as the same number,
\* whatever its digits are: the two loops agree on what a zero digit is.
THEOREM TimesReadBack ==
  ASSUME NEW t \in VariableLengths
  PROVE  ReadVar(WriteTime(t)) = t
<1>. DEFINE d(k) == Digit(t, k)
            bytes == WriteTime(t)
<1>1. d(0) \in 0 .. 127 /\ d(1) \in 0 .. 127 /\ d(2) \in 0 .. 127 /\ d(3) \in 0 .. 127
  BY DigitType DEF VariableLengths
<1>2. t = d(0) + 128 * (d(1) + 128 * (d(2) + 128 * d(3)))
  BY DigitsSum
<1>3. bytes \in Seq(0 .. 255)
  BY WriteTimeType DEF VariableLengths
<1>4. \A k \in 0 .. 127 : (128 + k) % 128 = k /\ k % 128 = k /\ 128 + k >= 128
  OBVIOUS
<1>. HIDE DEF d
<1>5. CASE d(3) # 0
  <2>1. bytes = <<128 + d(3), 128 + d(2), 128 + d(1), d(0)>>
    BY <1>5 DEF WriteTime, d
  <2>2. 4 \in DOMAIN bytes /\ bytes[4] < 128 /\ \A k \in 1 .. 4 - 1 : bytes[k] >= 128
    BY <1>1, <2>1
  <2>3. VarLength(bytes) = 4
    BY <1>3, <2>2, VarLengthIs
  <2>. QED  BY <1>1, <1>2, <1>4, <2>1, <2>3 DEF ReadVar
<1>6. CASE d(3) = 0 /\ d(2) # 0
  <2>1. bytes = <<128 + d(2), 128 + d(1), d(0)>>
    BY <1>6 DEF WriteTime, d
  <2>2. 3 \in DOMAIN bytes /\ bytes[3] < 128 /\ \A k \in 1 .. 3 - 1 : bytes[k] >= 128
    BY <1>1, <2>1
  <2>3. VarLength(bytes) = 3
    BY <1>3, <2>2, VarLengthIs
  <2>. QED  BY <1>1, <1>2, <1>4, <1>6, <2>1, <2>3 DEF ReadVar
<1>7. CASE d(3) = 0 /\ d(2) = 0 /\ d(1) # 0
  <2>1. bytes = <<128 + d(1), d(0)>>
    BY <1>7 DEF WriteTime, d
  <2>2. 2 \in DOMAIN bytes /\ bytes[2] < 128 /\ \A k \in 1 .. 2 - 1 : bytes[k] >= 128
    BY <1>1, <2>1
  <2>3. VarLength(bytes) = 2
    BY <1>3, <2>2, VarLengthIs
  <2>. QED  BY <1>1, <1>2, <1>4, <1>7, <2>1, <2>3 DEF ReadVar
<1>8. CASE d(3) = 0 /\ d(2) = 0 /\ d(1) = 0
  <2>1. bytes = <<d(0)>>
    BY <1>8 DEF WriteTime, d
  <2>2. 1 \in DOMAIN bytes /\ bytes[1] < 128 /\ \A k \in 1 .. 1 - 1 : bytes[k] >= 128
    BY <1>1, <2>1
  <2>3. VarLength(bytes) = 1
    BY <1>3, <2>2, VarLengthIs
  <2>. QED  BY <1>1, <1>2, <1>4, <1>8, <2>1, <2>3 DEF ReadVar
<1>. QED  BY <1>5, <1>6, <1>7, <1>8

-----------------------------------------------------------------------------
(* The recorder.                                                           *)

\* A number that is not above another one has no more digits.
LEMMA SmallerIsVariable ==
  ASSUME NEW a \in Nat, NEW b \in VariableLengths, a <= b
  PROVE  a \in VariableLengths
<1>1. \A x, y \in Nat : x <= y => x \div 128 \in Nat /\ x \div 128 <= y \div 128
  OBVIOUS
<1>2. b \in Nat /\ ((b \div 128) \div 128) \div 128 < 128
  BY DEF VariableLengths, Shift
<1>3. /\ a \div 128 \in Nat /\ b \div 128 \in Nat
      /\ a \div 128 <= b \div 128
  BY <1>1, <1>2
<1>4. /\ (a \div 128) \div 128 \in Nat /\ (b \div 128) \div 128 \in Nat
      /\ (a \div 128) \div 128 <= (b \div 128) \div 128
  BY <1>1, <1>3
<1>5. /\ ((a \div 128) \div 128) \div 128 \in Nat
      /\ ((b \div 128) \div 128) \div 128 \in Nat
      /\ ((a \div 128) \div 128) \div 128 <= ((b \div 128) \div 128) \div 128
  BY <1>1, <1>4
<1>6. ((a \div 128) \div 128) \div 128 < 128
  BY <1>2, <1>5
<1>. QED  BY <1>6 DEF VariableLengths, Shift

\* While something is recorded the clock of the recorder is what the view
\* shows, and the export is at the event heard last.
InStep ==
  status # "Idle" =>
    /\ curTime = shown
    /\ heard # << >>
    /\ trackTime = heard[Len(heard)].time
    /\ trackTime <= Ticks(curTime)

\* Without a view nothing is recorded.
ViewRecords == ~view => status = "Idle"

IInv ==
  /\ TypeOK /\ ViewIsRight /\ InStep /\ ViewRecords
  /\ NothingMissed /\ FileIsWhatWasHeard /\ StopWrites

\* A time in ticks is not above the time in milliseconds.
LEMMA TicksType ==
  ASSUME NEW t \in 0 .. MaxTime
  PROVE  Ticks(t) \in 0 .. MaxTime
BY RecorderAssumption DEF Ticks, VariableLengths

\* What the export writes for a time between 0 and MaxTime.
LEMMA EventAtType ==
  ASSUME NEW t \in 0 .. MaxTime, NEW t0 \in 0 .. MaxTime, NEW e \in Events, t0 <= t
  PROVE  /\ EventAt(t, t0, e) \in [delta : Seq(0 .. 255), event : Events]
         /\ EventAt(t, t0, e).event = e
         /\ ReadVar(EventAt(t, t0, e).delta) = t - t0
<1>1. MaxTime \in VariableLengths /\ MaxTime \in Nat
  BY RecorderAssumption DEF VariableLengths
<1>2. TimeIncrement(t, t0) = t - t0 /\ t - t0 \in Nat /\ t - t0 <= MaxTime
  BY <1>1 DEF TimeIncrement
<1>3. t - t0 \in VariableLengths
  BY <1>1, <1>2, SmallerIsVariable
<1>4. WriteTime(t - t0) \in Seq(0 .. 255) /\ ReadVar(WriteTime(t - t0)) = t - t0
  BY <1>2, <1>3, WriteTimeType, TimesReadBack
<1>. QED  BY <1>2, <1>4 DEF EventAt

\* A track goes on sounding as what was played when both get the same event
\* at the same distance from the one before.
LEMMA SoundsOn ==
  ASSUME NEW track \in Track,
         NEW played \in Seq([time : 0 .. MaxTime, event : Events]),
         played # << >>, Len(track) = Len(played), SoundsAs(track, played),
         NEW x \in [delta : Seq(0 .. 255), event : Events],
         NEW p \in [time : 0 .. MaxTime, event : Events],
         x.event = p.event,
         ReadVar(x.delta) = p.time - played[Len(played)].time
  PROVE  /\ Len(Append(track, x)) = Len(Append(played, p))
         /\ SoundsAs(Append(track, x), Append(played, p))
<1>. DEFINE n == Len(played)
            track2 == Append(track, x)
            played2 == Append(played, p)
<1>1. n \in Nat \ {0} /\ Len(track) = n /\ track \in Seq([delta : Seq(0 .. 255), event : Events])
  BY DEF Track
<1>2. /\ Len(track2) = n + 1 /\ Len(played2) = n + 1
      /\ \A i \in 1 .. n : track2[i] = track[i] /\ played2[i] = played[i]
      /\ track2[n + 1] = x /\ played2[n + 1] = p
      /\ DOMAIN played2 = 1 .. n + 1 /\ DOMAIN played = 1 .. n
  BY <1>1
<1>3. ASSUME NEW i \in 1 .. n
      PROVE  track2[i].event = played2[i].event
             /\ ReadVar(track2[i].delta) = Interval(played2, i)
  <2>1. track[i].event = played[i].event /\ ReadVar(track[i].delta) = Interval(played, i)
    BY <1>2 DEF SoundsAs
  <2>2. i = 1 \/ (i - 1 \in 1 .. n)
    BY <1>1
  <2>3. Interval(played2, i) = Interval(played, i)
    BY <1>2, <2>2 DEF Interval
  <2>. QED  BY <1>2, <2>1, <2>3
<1>4. track2[n + 1].event = played2[n + 1].event
      /\ ReadVar(track2[n + 1].delta) = Interval(played2, n + 1)
  <2>1. n + 1 # 1 /\ (n + 1) - 1 = n /\ n \in 1 .. n
    BY <1>1
  <2>2. Interval(played2, n + 1) = p.time - played[n].time
    BY <1>2, <2>1 DEF Interval
  <2>. QED  BY <1>2, <2>2
<1>5. \A i \in 1 .. n + 1 : i \in 1 .. n \/ i = n + 1
  BY <1>1
<1>. HIDE DEF track2, played2
<1>6. SoundsAs(track2, played2)
  BY <1>2, <1>3, <1>4, <1>5 DEF SoundsAs
<1>. QED  BY <1>2, <1>6 DEF track2, played2

\* What is empty or 0 has its type.
LEMMA EmptyTracks ==
  /\ << >> \in Track
  /\ << >> \in Seq([time : 0 .. MaxTime, event : Events])
  /\ 0 \in 0 .. MaxTime
  /\ "Idle" \in Statuses
BY RecorderAssumption DEF Track, VariableLengths, Statuses

\* The invariant holds at the start, without a view.
LEMMA InitInvariant == Init => IInv
<1>. SUFFICES ASSUME Init  PROVE IInv
  OBVIOUS
<1>2. TypeOK
  BY EmptyTracks DEF Init, TypeOK
<1>3. ViewIsRight /\ InStep /\ ViewRecords /\ NothingMissed /\ FileIsWhatWasHeard
        /\ StopWrites
  BY DEF Init, ViewIsRight, InStep, ViewRecords, NothingMissed, FileIsWhatWasHeard,
         StopWrites
<1>. QED  BY <1>2, <1>3 DEF IInv

\* What a recording begins with.
LEMMA OpeningSounds ==
  /\ Opening \in Track
  /\ OpeningHeard \in Seq([time : 0 .. MaxTime, event : Events])
  /\ OpeningHeard # << >> /\ Len(Opening) = 2 /\ Len(OpeningHeard) = 2
  /\ OpeningHeard[2].time = 0
  /\ SoundsAs(Opening, OpeningHeard)
<1>1. MaxTime \in Nat
  BY RecorderAssumption DEF VariableLengths
<1>. DEFINE E == [delta : Seq(0 .. 255), event : Events]
            a == EventAt(0, 0, "timesig")
            b == EventAt(0, 0, "tempo")
            p == [time |-> 0, event |-> "timesig"]
            q == [time |-> 0, event |-> "tempo"]
<1>2. 0 \in 0 .. MaxTime /\ "timesig" \in Events /\ "tempo" \in Events
  BY <1>1 DEF Events
<1>3. /\ a \in E /\ a.event = "timesig" /\ ReadVar(a.delta) = 0
      /\ b \in E /\ b.event = "tempo" /\ ReadVar(b.delta) = 0
  BY <1>2, EventAtType
<1>4. p \in [time : 0 .. MaxTime, event : Events] /\ q \in [time : 0 .. MaxTime, event : Events]
  BY <1>2
<1>5. Opening = <<a, b>> /\ OpeningHeard = <<p, q>>
  BY DEF Opening, OpeningHeard
<1>6. p.time = 0 /\ p.event = "timesig" /\ q.time = 0 /\ q.event = "tempo"
  OBVIOUS
<1>. HIDE DEF a, b, p, q
<1>7. Opening \in Track /\ OpeningHeard \in Seq([time : 0 .. MaxTime, event : Events])
  BY <1>3, <1>4, <1>5 DEF Track
<1>8. /\ OpeningHeard[1] = p /\ OpeningHeard[2] = q /\ DOMAIN OpeningHeard = {1, 2}
      /\ Opening[1] = a /\ Opening[2] = b
      /\ Len(Opening) = 2 /\ Len(OpeningHeard) = 2 /\ OpeningHeard # << >>
  BY <1>5
<1>9. Interval(OpeningHeard, 1) = 0 /\ Interval(OpeningHeard, 2) = 0
  BY <1>6, <1>8 DEF Interval
<1>10. SoundsAs(Opening, OpeningHeard)
  BY <1>3, <1>6, <1>8, <1>9 DEF SoundsAs
<1>. QED  BY <1>6, <1>7, <1>8, <1>10

\* The record button: a new recording, or the end of a pause.
LEMMA RecordInvariant ==
  ASSUME IInv, Record, ~RecordAgain
  PROVE  IInv'
<1>1. MaxTime \in Nat
  BY RecorderAssumption DEF VariableLengths
<1>2. CASE status = "Idle"
  <2>1. ~paused /\ StartRecording /\ shown' = 0 /\ heard' = OpeningHeard
    BY <1>2 DEF Record
  <2>2. /\ midiExport' = TRUE /\ trackChunk' = Opening /\ curTime' = 0 /\ trackTime' = 0
        /\ file' = << >> /\ paused' = paused /\ status' = "Recording"
        /\ view' = view /\ crashed' = crashed /\ view
    BY <2>1 DEF StartRecording, Record
  <2>3. TypeOK'
    BY <1>1, <2>1, <2>2, OpeningSounds DEF IInv, TypeOK, Track, Statuses
  <2>4. ViewIsRight' /\ ViewRecords' /\ StopWrites' /\ FileIsWhatWasHeard'
    BY <2>1, <2>2 DEF IInv, ViewIsRight, ViewRecords, StopWrites, FileIsWhatWasHeard
  <2>5. InStep'
    BY <2>1, <2>2, OpeningSounds DEF InStep, Ticks
  <2>6. NothingMissed'
    BY <2>1, <2>2, OpeningSounds DEF NothingMissed
  <2>. QED  BY <2>3, <2>4, <2>5, <2>6 DEF IInv
<1>3. CASE status = "Pause"
  <2>1. paused /\ midiExport /\ view
    BY <1>3 DEF IInv, ViewIsRight, Record
  <2>2. /\ paused' = FALSE /\ status' = "Recording" /\ view' = view /\ crashed' = crashed
        /\ UNCHANGED <<midiExport, trackChunk, curTime, trackTime, file, shown, heard>>
    BY <1>3, <2>1 DEF Record, ResumeRecording
  <2>3. TypeOK'
    BY <2>2 DEF IInv, TypeOK, Track, Statuses
  <2>4. ViewIsRight' /\ ViewRecords' /\ StopWrites' /\ FileIsWhatWasHeard'
    BY <2>1, <2>2 DEF IInv, ViewIsRight, ViewRecords, StopWrites, FileIsWhatWasHeard
  <2>5. InStep'
    BY <1>3, <2>2 DEF IInv, InStep, Ticks
  <2>6. NothingMissed'
    BY <1>3, <2>2 DEF IInv, NothingMissed, SoundsAs, Interval
  <2>. QED  BY <2>3, <2>4, <2>5, <2>6 DEF IInv
<1>. QED  BY <1>2, <1>3 DEF Record

\* The pause button.
LEMMA PauseInvariant ==
  ASSUME IInv, PauseClicked
  PROVE  IInv'
<1>1. /\ view /\ status = "Recording" /\ paused' = TRUE /\ status' = "Pause"
      /\ UNCHANGED <<view, midiExport, curTime, trackTime, trackChunk, file, shown,
                     heard, crashed>>
  BY DEF PauseClicked
<1>2. TypeOK'
  BY <1>1 DEF IInv, TypeOK, Track, Statuses
<1>3. ViewIsRight' /\ ViewRecords' /\ StopWrites' /\ FileIsWhatWasHeard'
  BY <1>1 DEF IInv, ViewIsRight, ViewRecords, StopWrites, FileIsWhatWasHeard
<1>4. InStep'
  BY <1>1 DEF IInv, InStep, Ticks
<1>5. NothingMissed'
  BY <1>1 DEF IInv, NothingMissed, SoundsAs, Interval
<1>. QED  BY <1>2, <1>3, <1>4, <1>5 DEF IInv

\* The file gets what the export holds, and the end.
LEMMA StopInvariant ==
  ASSUME IInv, StopClicked
  PROVE  IInv'
<1>1. midiExport /\ view /\ status # "Idle"
  BY DEF IInv, StopClicked, ViewIsRight
<1>2. /\ file' = Append(trackChunk, TrackEnd) /\ crashed' = crashed
      /\ midiExport' = FALSE /\ trackChunk' = << >> /\ trackTime' = 0
      /\ status' = "Idle"
      /\ UNCHANGED <<paused, curTime, view, shown, heard>>
  BY <1>1 DEF StopClicked, StopRecording
<1>3. MaxTime \in Nat /\ 0 \in Nat
  BY RecorderAssumption DEF VariableLengths
<1>4. TrackEnd \in [delta : Seq(0 .. 255), event : Events]
  BY <1>3, WriteTimeType DEF TrackEnd, Events
<1>5. /\ trackChunk \in Seq([delta : Seq(0 .. 255), event : Events])
      /\ Len(trackChunk) = Len(heard) /\ SoundsAs(trackChunk, heard)
      /\ heard \in Seq([time : 0 .. MaxTime, event : Events])
  BY <1>1 DEF IInv, TypeOK, Track, NothingMissed
<1>6. /\ file' \in Track
      /\ Len(file') = Len(heard) + 1 /\ file'[Len(heard) + 1] = TrackEnd
      /\ \A i \in 1 .. Len(heard) : file'[i] = trackChunk[i]
  BY <1>2, <1>4, <1>5 DEF Track
<1>7. SoundsAs(file', heard)
  <2>1. DOMAIN heard = 1 .. Len(heard)
    BY <1>5
  <2>. QED  BY <1>5, <1>6, <2>1 DEF SoundsAs
<1>8. TypeOK'
  BY <1>2, <1>6, EmptyTracks DEF IInv, TypeOK
<1>9. ViewIsRight' /\ ViewRecords' /\ StopWrites' /\ InStep' /\ NothingMissed'
  BY <1>1, <1>2 DEF IInv, ViewIsRight, ViewRecords, StopWrites, InStep, NothingMissed
<1>10. FileIsWhatWasHeard'
  BY <1>2, <1>6, <1>7 DEF FileIsWhatWasHeard, SoundsAs, Interval
<1>. QED  BY <1>8, <1>9, <1>10 DEF IInv

\* The timer: the clocks of the recorder and of the view go on together.
LEMMA TickInvariant ==
  ASSUME IInv, NEW n \in Late, Tick(n)
  PROVE  IInv'
<1>1. /\ view /\ midiExport /\ TickTime(n) <= MaxTime /\ shown + 10 * n <= MaxTime
      /\ curTime' = TickTime(n)
      /\ shown' = IF status = "Recording" THEN shown + 10 * n ELSE shown
      /\ UNCHANGED <<view, status, paused, midiExport, trackTime, trackChunk, file,
                     heard, crashed>>
  BY DEF Tick
<1>2. n \in Nat /\ MaxTime \in Nat /\ curTime \in Nat /\ shown \in Nat
  BY RecorderAssumption DEF VariableLengths, IInv, TypeOK
<1>3. /\ curTime' \in 0 .. MaxTime /\ shown' \in 0 .. MaxTime /\ curTime' >= curTime
      /\ curTime' = shown'
  <2>1. CASE status = "Recording"
    BY <1>1, <1>2, <2>1 DEF TickTime, IInv, ViewIsRight, InStep
  <2>2. CASE status = "Pause"
    BY <1>1, <1>2, <2>2 DEF TickTime, IInv, ViewIsRight, InStep, TypeOK
  <2>3. status \in {"Recording", "Pause"}
    BY <1>1 DEF IInv, ViewIsRight, TypeOK, Statuses
  <2>. QED  BY <2>1, <2>2, <2>3
<1>4. TypeOK'
  BY <1>1, <1>3 DEF IInv, TypeOK, Track, Statuses
<1>5. ViewIsRight' /\ ViewRecords' /\ StopWrites'
  BY <1>1 DEF IInv, ViewIsRight, ViewRecords, StopWrites
<1>6. InStep'
  <2>1. \A x, y \in Nat : y >= x => /\ x \div 2 <= y \div 2
                                   /\ x \div 2 \in Nat /\ y \div 2 \in Nat
    OBVIOUS
  <2>a. curTime \in Nat /\ curTime' \in Nat /\ curTime' >= curTime
    BY <1>2, <1>3
  <2>2. Ticks(curTime) <= Ticks(curTime') /\ Ticks(curTime) \in Nat /\ Ticks(curTime') \in Nat
    BY <2>1, <2>a DEF Ticks
  <2>3. trackTime \in Nat
    BY <1>2 DEF IInv, TypeOK
  <2>4. status # "Idle" => trackTime <= Ticks(curTime')
    BY <2>2, <2>3 DEF IInv, InStep
  <2>. QED  BY <1>1, <1>3, <2>4 DEF IInv, InStep, Ticks
<1>7. NothingMissed' /\ FileIsWhatWasHeard'
  BY <1>1 DEF IInv, NothingMissed, FileIsWhatWasHeard, SoundsAs, Interval
<1>. QED  BY <1>4, <1>5, <1>6, <1>7 DEF IInv

\* An event: it is recorded if and only if the view shows that.
LEMMA MidiInInvariant ==
  ASSUME IInv, NEW m \in Messages, MidiInEvent(m)
  PROVE  IInv'
<1>1. /\ view
      /\ UNCHANGED <<view, status, paused, midiExport, curTime, file, shown, crashed>>
  BY DEF MidiInEvent
<1>2. CASE status = "Recording"
  <2>. DEFINE t == Ticks(curTime)
              x == EventAt(t, trackTime, m)
              p == [time |-> t, event |-> m]
  <2>1. Takes /\ curTime = shown
    BY <1>2 DEF IInv, ViewIsRight, InStep, Takes
  <2>2. /\ trackChunk' = Append(trackChunk, x) /\ trackTime' = t
        /\ heard' = Append(heard, p)
    BY <1>2, <2>1 DEF MidiInEvent, Ticks
  <2>3. t \in 0 .. MaxTime /\ m \in Events /\ trackTime \in 0 .. MaxTime /\ trackTime <= t
    BY <1>2, TicksType DEF IInv, TypeOK, InStep, Events
  <2>4. /\ x \in [delta : Seq(0 .. 255), event : Events] /\ x.event = m
        /\ ReadVar(x.delta) = t - trackTime
    BY <2>3, EventAtType
  <2>5. p \in [time : 0 .. MaxTime, event : Events] /\ p.time = t /\ p.event = m
    BY <2>3
  <2>. HIDE DEF t, x, p
  <2>6. /\ trackChunk \in Track
        /\ heard \in Seq([time : 0 .. MaxTime, event : Events])
        /\ heard # << >> /\ Len(trackChunk) = Len(heard) /\ SoundsAs(trackChunk, heard)
        /\ trackTime = heard[Len(heard)].time
    BY <1>1, <1>2 DEF IInv, TypeOK, InStep, NothingMissed
  <2>7. Len(trackChunk') = Len(heard') /\ SoundsAs(trackChunk', heard')
    BY <2>2, <2>4, <2>5, <2>6, SoundsOn
  <2>8. trackChunk' \in Track /\ heard' \in Seq([time : 0 .. MaxTime, event : Events])
    BY <2>2, <2>4, <2>5, <2>6 DEF Track
  <2>9. heard' # << >> /\ heard'[Len(heard')] = p
    BY <2>2, <2>5, <2>6
  <2>10. TypeOK'
    BY <1>1, <2>2, <2>3, <2>8 DEF IInv, TypeOK
  <2>11. ViewIsRight' /\ ViewRecords' /\ StopWrites' /\ FileIsWhatWasHeard'
    BY <1>1, <1>2 DEF IInv, ViewIsRight, ViewRecords, StopWrites, FileIsWhatWasHeard
  <2>12. InStep'
    <3>1. t \in Nat /\ t <= t
      BY <2>3
    <3>. QED  BY <1>1, <2>1, <2>2, <2>5, <2>9, <3>1 DEF InStep, Ticks, t
  <2>13. NothingMissed'
    BY <2>7 DEF NothingMissed, SoundsAs, Interval
  <2>. QED  BY <2>10, <2>11, <2>12, <2>13 DEF IInv
<1>3. CASE status # "Recording"
  <2>1. ~Takes
    BY <1>3 DEF IInv, ViewIsRight, TypeOK, Statuses, Takes
  <2>2. UNCHANGED vars
    BY <1>1, <1>3, <2>1 DEF MidiInEvent, vars
  <2>. QED
    BY <2>2 DEF vars, IInv, TypeOK, ViewIsRight, InStep, ViewRecords, NothingMissed,
       FileIsWhatWasHeard, StopWrites, Track, Ticks, SoundsAs, Interval
<1>. QED  BY <1>2, <1>3

\* A view that opens or goes.
LEMMA ViewInvariant ==
  ASSUME IInv, OpenView \/ CloseView
  PROVE  IInv'
<1>1. /\ status' = "Idle" /\ paused' = FALSE /\ midiExport' = FALSE
      /\ curTime' = 0 /\ trackTime' = 0 /\ trackChunk' = << >>
      /\ shown' = 0 /\ heard' = << >> /\ crashed' = crashed
      /\ view' \in BOOLEAN /\ file' \in {file, << >>}
  BY DEF OpenView, CloseView
<1>3. TypeOK'
  BY <1>1, EmptyTracks DEF IInv, TypeOK
<1>4. ViewIsRight' /\ ViewRecords' /\ StopWrites' /\ InStep' /\ NothingMissed'
        /\ FileIsWhatWasHeard'
  BY <1>1 DEF IInv, ViewIsRight, ViewRecords, StopWrites, InStep, NothingMissed,
     FileIsWhatWasHeard
<1>. QED  BY <1>3, <1>4 DEF IInv

\* The recorder and its view keep their agreement for every sequence of clicks
\* that does not record again after a recording was stopped in a pause.
THEOREM RecorderInvariant ==
  ASSUME ~RecordAgain
  PROVE  Spec => []IInv
<1>1. Init => IInv
  BY InitInvariant
<1>2. IInv /\ [Next]_vars => IInv'
  <2>. SUFFICES ASSUME IInv, [Next]_vars  PROVE IInv'
    OBVIOUS
  <2>1. CASE OpenView \/ CloseView
    BY <2>1, ViewInvariant
  <2>2. CASE Record
    BY <2>2, RecordInvariant
  <2>3. CASE PauseClicked
    BY <2>3, PauseInvariant
  <2>4. CASE StopClicked
    BY <2>4, StopInvariant
  <2>5. ASSUME NEW n \in Late, Tick(n)  PROVE IInv'
    BY <2>5, TickInvariant
  <2>6. ASSUME NEW m \in Messages, MidiInEvent(m)  PROVE IInv'
    BY <2>6, MidiInInvariant
  <2>7. CASE UNCHANGED vars
    BY <2>7 DEF vars, IInv, TypeOK, ViewIsRight, InStep, ViewRecords, NothingMissed,
       FileIsWhatWasHeard, StopWrites, Track, Ticks, SoundsAs, Interval
  <2>. QED  BY <2>1, <2>2, <2>3, <2>4, <2>5, <2>6, <2>7 DEF Next
<1>. QED  BY <1>1, <1>2, PTL DEF Spec

\* Every variable of the recorder and of its view keeps its type; what is
\* written are bytes.
THEOREM RecorderTypes ==
  ASSUME ~RecordAgain
  PROVE  Spec => []TypeOK
<1>1. IInv => TypeOK
  BY DEF IInv
<1>. QED  BY <1>1, RecorderInvariant, PTL

\* What shows as recording is recorded, what shows as a pause can be stopped.
THEOREM ViewStaysRight ==
  ASSUME ~RecordAgain
  PROVE  Spec => []ViewIsRight
<1>1. IInv => ViewIsRight
  BY DEF IInv
<1>. QED  BY <1>1, RecorderInvariant, PTL

\* The recorder holds all that was played while the view showed that it records.
THEOREM RecorderMissesNothing ==
  ASSUME ~RecordAgain
  PROVE  Spec => []NothingMissed
<1>1. IInv => NothingMissed
  BY DEF IInv
<1>. QED  BY <1>1, RecorderInvariant, PTL

\* The file written by a stop is read as what was heard, for recordings of any
\* number of events, with times of up to 28 bits.
THEOREM FileSoundsAsHeard ==
  ASSUME ~RecordAgain
  PROVE  Spec => []FileIsWhatWasHeard
<1>1. IInv => FileIsWhatWasHeard
  BY DEF IInv
<1>. QED  BY <1>1, RecorderInvariant, PTL

\* No click on the stop button meets a recorder without a track.
THEOREM StopAlwaysWrites ==
  ASSUME ~RecordAgain
  PROVE  Spec => []StopWrites
<1>1. IInv => StopWrites
  BY DEF IInv
<1>. QED  BY <1>1, RecorderInvariant, PTL

=============================================================================
