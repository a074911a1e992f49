----------------------------- MODULE MCPlayback -----------------------------
(* Sheets for Playback: a few voices of a few elements each; and two notes   *)
(* for PlayNow, one longer than the other.                                  *)
EXTENDS PlayNow

CONSTANTS n1, n2, clef

El(k, s, e, p, tied, held) ==
  [kind |-> k, start |-> s, end |-> e, pitch |-> p, tied |-> tied, held |-> held]

Note(s, e, p) == El("note", s, e, p, FALSE, FALSE)
Tied(s, e, p) == El("note", s, e, p, TRUE, FALSE)
Held(s, e, p) == El("note", s, e, p, FALSE, TRUE)
Rest(s, e) == El("rest", s, e, 0, FALSE, FALSE)
Sign(s) == El("sign", s, s, 0, FALSE, FALSE)
Open(s) == El("repeatOpen", s, s, 0, FALSE, FALSE)
Close(s) == El("repeatClose", s, s, 0, FALSE, FALSE)

\* A sheet without voices, and one with an empty voice.
Nothing == << >>
Empty == << << >> >>

\* Two voices in different rhythms, a chord, a rest and a final bar line.
Plain == << <<Sign(0), Note(0, 2, 1), Note(2, 3, 2), Sign(3)>>,
            <<Sign(0), Note(0, 1, 1), Note(0, 1, 3), Rest(1, 2), Note(2, 3, 1), Sign(3)>> >>

\* A section that is repeated, in both voices, with an upbeat before it.
Repeated == << <<Note(0, 1, 1), Open(1), Note(1, 2, 2), Note(2, 3, 1), Close(3), Note(3, 4, 3)>>,
               <<Note(0, 1, 2), Open(1), Note(1, 3, 1), Close(3), Rest(3, 4)>> >>

\* A repeat from the beginning, that ends the sheet.
FromStart == << <<Sign(0), Note(0, 1, 1), Note(1, 2, 2), Close(2)>> >>

\* Tied notes, alone and across the end of a repeat.
Ties == << <<Tied(0, 1, 1), Held(1, 2, 1), Note(2, 3, 2)>>,
           <<Note(0, 1, 1), Rest(1, 3)>> >>
TieOverRepeat == << <<Note(0, 1, 1), Tied(1, 2, 2), Close(2), Held(2, 3, 2)>> >>

\* The repeat is marked in the lower voice only.
LowerRepeat == << <<Note(0, 1, 1), Note(1, 2, 2), Note(2, 3, 3)>>,
                  <<Note(0, 1, 1), Open(1), Note(1, 2, 2), Close(2), Note(2, 3, 3)>> >>

\* Two sections, each repeated.
TwoRepeats == << <<Note(0, 1, 1), Close(1), Open(1), Note(1, 2, 2), Close(2), Note(2, 3, 1)>> >>

\* Voices that start the next note while a note of the other lasts.
Overlapping == << <<Note(0, 2, 1), Note(2, 3, 2), Note(3, 4, 1)>>,
                  <<Note(0, 1, 3), Note(1, 4, 1)>> >>

GoodSheets ==
  {Nothing, Empty, Plain, Repeated, FromStart, Ties, TieOverRepeat, Overlapping}
ASSUME GoodSheetsAreWellMade == \A sh \in GoodSheets : WellMade(sh)

TiedSheets == {Ties}
LowerSheets == {LowerRepeat}
TwiceSheets == {TwoRepeats}
NoSheets == {Nothing}
PlainSheets == {Plain}

Lengths == n1 :> 2 @@ n2 :> 1
Pitches == n1 :> 1 @@ n2 :> 2
Inserted == {<< >>, <<n1>>, <<n2, clef>>, <<n1, n2>>}
=============================================================================
