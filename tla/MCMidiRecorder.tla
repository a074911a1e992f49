--------------------------- MODULE MCMidiRecorder ---------------------------
(* Recordings whose events come at once or after 8250 or 16385 ticks, or     *)
(* sums of these: times of one, two and three bytes, with a zero inside.     *)
EXTENDS MidiRecorder

Pauses == {1650, 3277}
=============================================================================
