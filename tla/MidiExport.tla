----------------------------- MODULE MidiExport -----------------------------
(***************************************************************************)
(* The numbers of a MIDI track: what CAMidiExport writes                   *)
(* (src/src/export/midiexport.cpp) and what the MIDI reader of Canorus     *)
(* (src/src/import/pmidi/midiread.c) gets out of them.  Every event of a   *)
(* track is preceded by the ticks since the event before it, in one to     *)
(* four bytes of seven bits; all but the last have their high bit set.     *)
(*                                                                         *)
(* Bytes are numbers of 0 .. 255.  What an event says is a value that only *)
(* has to be told from others.                                             *)
(***************************************************************************)
EXTENDS Integers, Sequences

\* A slip: the time may go back.
TimeIncrementSigned(time, trackTime) == time - trackTime

\* The time goes on by this much; there is no way back.
TimeIncrement(time, trackTime) == IF time > trackTime THEN time - trackTime ELSE 0

\* The number without its last k digits to the base 128, and digit k.
Shift(time, k) ==
  IF k = 0 THEN time
  ELSE IF k = 1 THEN time \div 128
  ELSE IF k = 2 THEN (time \div 128) \div 128
  ELSE ((time \div 128) \div 128) \div 128

Digit(time, k) == Shift(time, k) % 128

\* What writeTime can write: it looks at 28 bits.
VariableLengths == {time \in Nat : Shift(time, 3) < 128}

\* Slips: a digit that is 0 is left out, even between others; the last byte is
\* not cut to its seven bits.
WriteTimeGap(time) ==
  LET Part(k) == IF Digit(time, k) = 0 THEN << >> ELSE <<128 + Digit(time, k)>>
  IN Part(3) \o Part(2) \o Part(1) \o <<Digit(time, 0)>>

WriteTimeWide(time) ==
  LET Part(k) == IF Digit(time, k) = 0 THEN << >> ELSE <<128 + Digit(time, k)>>
  IN Part(3) \o Part(2) \o Part(1) \o <<time>>

\* The digits from the first that is not 0.
WriteTime(time) ==
  LET d(k) == Digit(time, k)
      last == d(0)
  IN IF d(3) # 0 THEN <<128 + d(3), 128 + d(2), 128 + d(1), last>>
     ELSE IF d(2) # 0 THEN <<128 + d(2), 128 + d(1), last>>
     ELSE IF d(1) # 0 THEN <<128 + d(1), last>>
     ELSE <<last>>

\* The bytes up to the first without the high bit are one number; the reader
\* is for at most four of them.
VarLength(bytes) ==
  CHOOSE n \in DOMAIN bytes :
    bytes[n] < 128 /\ \A k \in 1 .. n - 1 : bytes[k] >= 128

ReadVar(bytes) ==
  LET n == VarLength(bytes)
      d(k) == IF k < n THEN bytes[n - k] % 128 ELSE 0
  IN d(0) + 128 * (d(1) + 128 * (d(2) + 128 * d(3)))

-----------------------------------------------------------------------------
\* send and sendMetaEvent: the delta time and the event.
EventAt(time, trackTime, event) ==
  [delta |-> WriteTime(TimeIncrement(time, trackTime)), event |-> event]

\* trackEnd
TrackEnd == [delta |-> WriteTime(0), event |-> "trackEnd"]

=============================================================================
