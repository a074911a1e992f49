------------------------------- MODULE Staff -------------------------------
(* The voices of one staff and what the editor does to them: the handlers of
   the main window that insert, lengthen, replace and delete elements
   (src/src/ui/mainwin.cpp), the operations of CAVoice they call
   (src/src/score/voice.cpp), and the walk of CAStaff::synchronizeVoices
   (src/src/score/staff.cpp) that has to repair what they disturb.

   A voice is a list of elements. Notes and rests are playable and belong to
   one voice: they are values here, with their start and length. A sign (clef,
   key or time signature, bar line) is one object that the lists of all voices
   share: it is named, and at[s] is its only start time.

   A handler is one step. synchronizeVoices at its end is a loop that has to be
   shown to end, so each of its passes is a step of its own, counted in
   walk.passes, and no handler runs before the last of them.

   Pitches, marks, slurs, lyrics and tuplets are left out, and automatic bar
   lines are switched off. *)
EXTENDS Naturals, Integers, Sequences, FiniteSets, SequencesExt, FiniteSetsExt

CONSTANTS
    Signs,        \* the signs a user may insert
    Lengths,      \* lengths of the notes that can be chosen, without dots
    ShortestDotted, \* bound: no shorter note or rest gets a dot
    MaxVoices,    \* bound on the voices of the staff
    MaxTime,      \* bound on the time at which the last element of a voice ends
    MaxChord,     \* bound on the notes of a chord
    DotAnyNote    \* FALSE: the dot key is pressed only on the last note of a chord

ASSUME LengthsAssumption == Lengths \subseteq {16, 32, 64, 128, 256, 512, 1024, 2048}
ASSUME BoundsAssumption == {MaxVoices, MaxTime, MaxChord, ShortestDotted} \subseteq Nat \ {0}
ASSUME DotAssumption == DotAnyNote \in BOOLEAN

\* voices: CAStaff::_voiceList with the element list of each voice.
\* at: the start time of each sign.
\* walk: the locals pidx and timeStart of synchronizeVoices.
VARIABLES voices, at, walk

vars == <<voices, at, walk>>

-----------------------------------------------------------------------------
(* Loops: what base has become after n rounds. Recursive functions, where a fold
   of the library would do, so that the proofs can follow them. *)
Loop(Round(_, _), base, n) ==
    LET after[k \in 0 .. n] == IF k = 0 THEN base ELSE Round(after[k - 1], k)
    IN  after[n]

Only(list, Test(_)) ==
    Loop(LAMBDA acc, k : IF Test(list[k]) THEN Append(acc, list[k]) ELSE acc, <<>>, Len(list))

Total(lens) == Loop(LAMBDA sum, k : sum + lens[k], 0, Len(lens))

-----------------------------------------------------------------------------
(* Elements *)

Playable(kind, start, len) == [kind |-> kind, start |-> start, len |-> len]
Sign(s) == [kind |-> "sign", id |-> s]
IsSign(e) == e.kind = "sign"
IsNote(e) == e.kind = "note"

(* What the operations below work on: the lists and the times of the signs. *)
Score == [voices |-> voices, at |-> at]

At(seq, i, x) == SubSeq(seq, 1, i - 1) \o <<x>> \o SubSeq(seq, i + 1, Len(seq))
WithList(sc, v, list) == [sc EXCEPT !.voices = At(sc.voices, v, list)]

Start(sc, e) == IF IsSign(e) THEN sc.at[e.id] ELSE e.start
End(sc, e) == IF IsSign(e) THEN sc.at[e.id] ELSE e.start + e.len

LastTimeEnd(sc, v) ==
    IF sc.voices[v] = <<>> THEN 0 ELSE End(sc, Last(sc.voices[v]))

(* CANote::getChord: the positions of the notes around i that start together. *)
ChordAt(sc, v, i) ==
    LET list == sc.voices[v]
        with(j) == \A k \in Min({i, j}) .. Max({i, j}) :
                       IsNote(list[k]) /\ list[k].start = list[i].start
    IN  {j \in DOMAIN list : with(j)}

RestLengths == <<2048, 1024, 512, 256, 128, 64, 32, 16, 8>>

(* CARest::composeRests: the lengths of the rests that fill a gap, the longest
   first. Nothing shorter than a 128th, 8, is written. *)
ComposeRests(gap) ==
    LET breves == IF gap > 2048 THEN (gap - 1) \div 2048 ELSE 0
        write(acc, k) ==
            IF RestLengths[k] <= acc.left
            THEN [left |-> acc.left - RestLengths[k], lens |-> Append(acc.lens, RestLengths[k])]
            ELSE acc
    IN  Loop(write, [left |-> gap - 2048 * breves, lens |-> [k \in 1 .. breves |-> 2048]],
             Len(RestLengths)).lens

-----------------------------------------------------------------------------
(* The operations of CAVoice *)

(* CAVoice::updateTimes: the elements of voice v from position i on start later
   by delta; signs only if signsToo, but those then for every voice. *)
UpdateTimes(sc, v, i, delta, signsToo) ==
    LET list == sc.voices[v]
        later(e) == IF IsSign(e) THEN e ELSE Playable(e.kind, e.start + delta, e.len)
        moves(s) == signsToo /\ \E k \in i .. Len(list) : list[k] = Sign(s)
    IN  [WithList(sc, v, [k \in DOMAIN list |-> IF k >= i THEN later(list[k]) ELSE list[k]])
         EXCEPT !.at = [s \in Signs |-> sc.at[s] + IF moves(s) THEN delta ELSE 0]]

(* CAVoice::insertMusElement: before position i, or at the end. *)
InsertElement(sc, v, i, e) == WithList(sc, v, InsertAt(sc.voices[v], i, e))

(* CAVoice::insert before position i (Len + 1 stands for a null eltAfter); an
   element is never put inside a chord. *)
FrontOfChord(sc, v, i) ==
    IF i \in DOMAIN sc.voices[v] /\ IsNote(sc.voices[v][i])
    THEN Min(ChordAt(sc, v, i)) ELSE i

TimeBefore(sc, v, i) ==
    IF i \in DOMAIN sc.voices[v] THEN Start(sc, sc.voices[v][i]) ELSE LastTimeEnd(sc, v)

InsertPlayable(sc, v, i, kind, len) ==
    LET j == FrontOfChord(sc, v, i)
        e == Playable(kind, TimeBefore(sc, v, j), len)
    IN  UpdateTimes(InsertElement(sc, v, j, e), v, j + 1, len, TRUE)

InsertSign(sc, v, i, s) ==
    LET j == FrontOfChord(sc, v, i)
    IN  InsertElement([sc EXCEPT !.at[s] = TimeBefore(sc, v, j)], v, j, Sign(s))

(* CAVoice::addNoteToChord: the new note takes start and length of the chord. *)
AddToChord(sc, v, i) ==
    InsertElement(sc, v, i, [sc.voices[v][i] EXCEPT !.kind = "note"])

(* Rests inserted one after another before the element at position i. *)
InsertRests(sc, v, i, lens) ==
    Loop(LAMBDA acc, k : InsertPlayable(acc, v, i + k - 1, "rest", lens[k]), sc, Len(lens))

(* CAVoice::remove of a playable: what follows moves back, unless the rest of
   its chord stays. *)
RemovePlayable(sc, v, i, signsToo) ==
    LET e == sc.voices[v][i]
        moved == IF IsNote(e) /\ Cardinality(ChordAt(sc, v, i)) > 1 THEN sc
                 ELSE UpdateTimes(sc, v, i + 1, -e.len, signsToo)
    IN  WithList(moved, v, RemoveAt(moved.voices[v], i))

(* The same for each of the positions in is, the last first. *)
RemoveEach(sc, v, is) ==
    LET n == Len(sc.voices[v])
        round(acc, k) == IF n + 1 - k \in is THEN RemovePlayable(acc, v, n + 1 - k, TRUE) ELSE acc
    IN  Loop(round, sc, n)

(* CAVoice::remove of a sign, called for the first voice by CAStaff::remove. *)
\* A slip: the other voices keep it.
RemoveFromFirst(sc, s) ==
    IF Sign(s) \in ToSet(sc.voices[1])
    THEN WithList(sc, 1, Only(sc.voices[1], LAMBDA e : e # Sign(s)))
    ELSE sc

RemoveSign(sc, s) ==
    IF Sign(s) \in ToSet(sc.voices[1])
    THEN [voices |-> [v \in DOMAIN sc.voices |-> Only(sc.voices[v], LAMBDA e : e # Sign(s))],
          at |-> [sc.at EXCEPT ![s] = 0]]
    ELSE sc

-----------------------------------------------------------------------------
(* CAStaff::synchronizeVoices *)

NoWalk == [idx |-> <<>>, now |-> 0, passes |-> 0]
Walking == walk # NoWalk
StartOfWalk(sc) == [NoWalk EXCEPT !.idx = [v \in DOMAIN sc.voices |-> 0]]

(* A pass works on sc with the walk's idx and now added. *)
Current(p, v) == p.voices[v][p.idx[v]]
HasNext(p, v) == p.idx[v] < Len(p.voices[v])
NextStart(p, v) == Start(p, p.voices[v][p.idx[v] + 1])
OnSign(p, v) == p.idx[v] # 0 /\ IsSign(Current(p, v))
OnSignNow(p, v) == OnSign(p, v) /\ Start(p, Current(p, v)) = p.now

(* The end and start of plastPlayable; 0 if there is none yet. *)
LastPlayable(p, v) == SelectLastInSubSeq(p.voices[v], 1, p.idx[v], LAMBDA e : ~IsSign(e))
LastEnd(p, v) == IF LastPlayable(p, v) = 0 THEN 0 ELSE End(p, p.voices[v][LastPlayable(p, v)])

(* The signs at now that come next in voice v. *)
SignsNext(p, v) ==
    LET list == p.voices[v]
        isRun(n) == \A k \in p.idx[v] + 1 .. n : IsSign(list[k]) /\ Start(p, list[k]) = p.now
    IN  SubSeq(list, p.idx[v] + 1, Max({n \in p.idx[v] .. Len(list) : isRun(n)}))

SharedSigns(p) ==
    Loop(LAMBDA acc, v : acc \o Only(SignsNext(p, v), LAMBDA e : e \notin ToSet(acc)),
         <<>>, Len(p.voices))

(* All voices get the signs that any of them has next. *)
\* A slip: one element too many is taken from each list.
ShareOneTooMany(p, shared) ==
    LET with(v) == SubSeq(p.voices[v], 1, p.idx[v]) \o shared
                   \o SubSeq(p.voices[v], p.idx[v] + Len(SignsNext(p, v)) + 2, Len(p.voices[v]))
    IN  [p EXCEPT !.voices = [v \in DOMAIN p.voices |-> with(v)],
                  !.idx = [v \in DOMAIN p.idx |-> p.idx[v] + 1]]

ShareSigns(p, shared) ==
    LET with(v) == SubSeq(p.voices[v], 1, p.idx[v]) \o shared
                   \o SubSeq(p.voices[v], p.idx[v] + Len(SignsNext(p, v)) + 1, Len(p.voices[v]))
    IN  [p EXCEPT !.voices = [v \in DOMAIN p.voices |-> with(v)],
                  !.idx = [v \in DOMAIN p.idx |-> p.idx[v] + 1]]

(* No sign is next: the voices whose next playable starts now move on to it. *)
\* A slip: the walk waits for the first voice.
StepFirst(p) ==
    [p EXCEPT !.idx = [v \in DOMAIN p.idx |->
        p.idx[v] + IF v = 1 /\ HasNext(p, v) /\ NextStart(p, v) = p.now THEN 1 ELSE 0]]

StepPlayables(p) ==
    [p EXCEPT !.idx = [v \in DOMAIN p.idx |->
        p.idx[v] + IF HasNext(p, v) /\ NextStart(p, v) = p.now THEN 1 ELSE 0]]

(* Rests that start at from go before the sign voice v is on, and the playables
   after it start later. *)
FillGap(p, v, from, gap) ==
    LET lens == ComposeRests(gap)
        rests == [k \in DOMAIN lens |->
                    Playable("rest", from + Total(SubSeq(lens, 1, k - 1)), lens[k])]
        list == p.voices[v]
        filled == WithList(p, v, SubSeq(list, 1, p.idx[v] - 1) \o rests
                                 \o SubSeq(list, p.idx[v], Len(list)))
    IN  [UpdateTimes(filled, v, p.idx[v] + Len(lens), gap, FALSE)
         EXCEPT !.idx = At(p.idx, v, p.idx[v] + Len(lens))]

(* A sign of voice v inside the last playable of voice w moves to its end. *)
MoveSignBehind(p, v, w) ==
    IF /\ v # w /\ OnSignNow(p, v) /\ p.idx[w] # 0
       /\ LastPlayable(p, w) # 0
       /\ Start(p, p.voices[w][LastPlayable(p, w)]) < p.now
       /\ LastEnd(p, w) > p.now
    THEN FillGap([p EXCEPT !.at[Current(p, v).id] = LastEnd(p, w)],
                 v, p.now, LastEnd(p, w) - p.now)
    ELSE p

MoveSigns(p) ==
    LET n == Len(p.voices)
        moveOf(acc, v) == Loop(LAMBDA acc2, w : MoveSignBehind(acc2, v, w), acc, n)
    IN  Loop(moveOf, p, n)

(* A voice that ends before the sign it is on is filled up with rests. *)
\* A slip: a voice with nothing playable before the sign is left empty.
FillStarted(p, v) ==
    IF OnSignNow(p, v) /\ LastPlayable(p, v) # 0 /\ LastEnd(p, v) < p.now
    THEN FillGap(p, v, LastEnd(p, v), p.now - LastEnd(p, v))
    ELSE p

FillVoice(p, v) ==
    IF OnSignNow(p, v) /\ LastEnd(p, v) < p.now
    THEN FillGap(p, v, LastEnd(p, v), p.now - LastEnd(p, v))
    ELSE p

FillVoices(p) == Loop(FillVoice, p, Len(p.voices))

(* To the last of the shared signs. *)
BehindSigns(p, shared) ==
    IF shared = <<>> THEN p
    ELSE [p EXCEPT !.idx = [v \in DOMAIN p.idx |-> p.idx[v] + Len(shared) - 1]]

(* The step in time to the nearest next element. shortestTime = -1 stands for
   "none yet" in the code, so a step of -1 is forgotten. *)
ShortestTime(p) ==
    Loop(LAMBDA acc, v :
             IF HasNext(p, v) /\ (acc = -1 \/ NextStart(p, v) - p.now < acc)
             THEN NextStart(p, v) - p.now ELSE acc,
         -1, Len(p.voices))

Pass(p) ==
    LET shared == SharedSigns(p)
        moved == IF shared = <<>> THEN StepPlayables(p) ELSE ShareSigns(p, shared)
        behind == BehindSigns(FillVoices(MoveSigns(moved)), shared)
        delta == IF ShortestTime(behind) = -1 THEN 0 ELSE ShortestTime(behind)
    IN  [behind EXCEPT !.now = @ + delta]

IsDone(p, q) == q.now = p.now /\ \A v \in DOMAIN q.voices : ~HasNext(q, v)

-----------------------------------------------------------------------------
(* What the handlers do to the score *)

AllLengths == Lengths \cup {len + len \div 2 : len \in Lengths}

(* Rests in a row from the element at i on that together make up len, or all
   there are. The element at i itself is always taken. *)
TakenFor(sc, v, i, len) ==
    LET list == sc.voices[v]
        isRun(n) == /\ i + n - 1 <= Len(list)
                    /\ \A k \in i + 1 .. i + n - 1 : list[k].kind = "rest"
        total(n) == Total([k \in 1 .. n |-> list[i + k - 1].len])
    IN  Min({n \in 1 .. Len(list) : /\ isRun(n)
                                    /\ ~isRun(n + 1) \/ total(n) >= len})

(* The n elements from i on give way to a new playable; what it does not need
   is filled with rests again. *)
ReplaceRun(sc, v, i, n, kind, len) ==
    LET taken == Total([k \in 1 .. n |-> sc.voices[v][i + k - 1].len])
        filled == InsertRests(RemoveEach(sc, v, i .. i + n - 1), v, i, Reverse(ComposeRests(taken - len)))
    IN  InsertPlayable(filled, v, i, kind, len)

(* A rest takes the place of a chord: its other notes go first. *)
OneOfChord(sc, v, i) ==
    LET chord == ChordAt(sc, v, i)
        list == sc.voices[v]
    IN  WithList(sc, v, SubSeq(list, 1, Min(chord)) \o SubSeq(list, Max(chord) + 1, Len(list)))

ReplaceByRest(sc, v, i, len) ==
    IF IsNote(sc.voices[v][i])
    THEN ReplaceRun(OneOfChord(sc, v, i), v, Min(ChordAt(sc, v, i)),
                    TakenFor(sc, v, i, len), "rest", len)
    ELSE ReplaceRun(sc, v, i, TakenFor(sc, v, i, len), "rest", len)

(* A chord or rest leaves, gets its new length and enters again before next. *)
Resized(sc, v, i, len, atEnd) ==
    LET chord == IF IsNote(sc.voices[v][i]) THEN ChordAt(sc, v, i) ELSE {i}
        kind == sc.voices[v][i].kind
        old == sc.voices[v][i].len
        removed == RemoveEach(sc, v, chord)
        next == IF atEnd THEN Len(removed.voices[v]) + 1 ELSE Min(chord)
        first == InsertPlayable(removed, v, next, kind, len)
        entered == Loop(LAMBDA acc, k : AddToChord(acc, v, next), first, Cardinality(chord) - 1)
    IN  IF len < old
        THEN InsertRests(entered, v, next + Cardinality(chord), Reverse(ComposeRests(old - len)))
        ELSE entered

(* The playables of voice w at and after the start of p, up to its end. *)
Below(sc, w, p) ==
    LET list == sc.voices[w]
        playables == {j \in DOMAIN list : ~IsSign(list[j]) /\ End(sc, list[j]) > p.start}
    IN  {j \in playables : j = Min(playables) \/ list[j].start < p.start + p.len}

(* Notes of another voice, or rests after which that voice ends too early, keep
   p from being taken out. *)
Blocks(sc, w, p) ==
    LET list == sc.voices[w]
        below == Below(sc, w, p)
    IN  below # {} /\ \/ \E j \in below : IsNote(list[j])
                      \/ /\ \A j \in DOMAIN list : j > Max(below) => IsSign(list[j])
                         /\ End(sc, list[Max(below)]) < p.start + p.len

(* The rests `below` of voice w lose the time of p: they become rests before,
   below and after it, and those below go without moving the signs. *)
CutBelow(sc, w, p, below) ==
    LET from == sc.voices[w][Min(below)].start
        full == End(sc, sc.voices[w][Max(below)]) - from
        before == ComposeRests(p.start - from)
        under == ComposeRests(p.len)
        after == ComposeRests(full - (p.start - from + p.len))
        i == Max(below) + 1 - Cardinality(below)
        rests == InsertRests(RemoveEach(sc, w, below), w, i, before \o under \o after)
    IN  Loop(LAMBDA acc, k : RemovePlayable(acc, w, i + Len(before), FALSE), rests, Len(under))

(* The other voices, the last first. The loop over their rests counts twice
   after each voice it cut, so it skips the first rest of the next one. *)
CutOthers(sc, v, p) ==
    LET cut(acc, w) ==
            LET below == Below(acc.sc, w, p)
                taken == IF acc.skips THEN below \ {Min(below)} ELSE below
            IN  IF w = v \/ below = {} THEN acc
                ELSE [sc |-> IF taken = {} THEN acc.sc ELSE CutBelow(acc.sc, w, p, taken),
                      skips |-> taken # {}]
        n == Len(sc.voices)
    IN  Loop(LAMBDA acc, k : cut(acc, n + 1 - k), [sc |-> sc, skips |-> FALSE], n).sc

(* CAMainWin::deleteSelection of one playable. *)
DeletePlayable(sc, v, i, takeOut) ==
    LET p == sc.voices[v][i]
        others == DOMAIN sc.voices \ {v}
        rests == ComposeRests(p.len)
    IN  CASE IsNote(p) /\ Cardinality(ChordAt(sc, v, i)) > 1 ->
               RemovePlayable(sc, v, i, TRUE)
          [] (takeOut \/ ~IsNote(p)) /\ \A w \in others : ~Blocks(sc, w, p) ->
               RemovePlayable(CutOthers(sc, v, p), v, i, TRUE)
          [] OTHER ->
               RemovePlayable(InsertRests(sc, v, i, rests), v, i + Len(rests), TRUE)

-----------------------------------------------------------------------------
(* The handlers *)

Becomes(sc) == voices' = sc.voices /\ at' = sc.at
Fits(sc) == \A v \in DOMAIN sc.voices : LastTimeEnd(sc, v) <= MaxTime

(* A handler ends here, or goes on into synchronizeVoices. *)
Done(sc) == Fits(sc) /\ Becomes(sc) /\ UNCHANGED walk
Synchronized(sc) == Fits(sc) /\ Becomes(sc) /\ walk' = StartOfWalk(sc)

Unused == {s \in Signs : \A v \in DOMAIN voices : Sign(s) \notin ToSet(voices[v])}

(* The user clicks with a clef, key, time signature or bar line: the sign goes
   into the first voice, before an element of it or at the end. An element of
   another voice is not found there, and nothing is inserted. The key B puts a
   bar line into the current voice v instead. *)
PlaceSign(s, v, i) ==
    /\ ~Walking /\ s \in Unused
    /\ i \in 1 .. Len(voices[v]) + 1
    /\ Synchronized(InsertSign(Score, v, i, s))

(* A click beside the notes and rests inserts a new one. *)
PlacePlayable(v, i, kind, len) ==
    /\ ~Walking
    /\ i \in 1 .. Len(voices[v]) + 1
    /\ Synchronized(InsertPlayable(Score, v, i, kind, len))

(* A click on a note adds a note to its chord. *)
PlaceInChord(v, i) ==
    /\ ~Walking
    /\ i \in DOMAIN voices[v] /\ IsNote(voices[v][i])
    /\ Cardinality(ChordAt(Score, v, i)) < MaxChord
    /\ Synchronized(AddToChord(Score, v, i))

(* A click on a rest replaces it, and rests after it, by a note; one on a note
   or rest replaces it by a rest. *)
ReplaceByNote(v, i, len) ==
    /\ ~Walking
    /\ i \in DOMAIN voices[v] /\ voices[v][i].kind = "rest"
    /\ Synchronized(ReplaceRun(Score, v, i, TakenFor(Score, v, i, len), "note", len))

ReplaceWithRest(v, i, len) ==
    /\ ~Walking
    /\ i \in DOMAIN voices[v] /\ ~IsSign(voices[v][i])
    /\ Synchronized(ReplaceByRest(Score, v, i, len))

(* A length is chosen for the selected element. Only a longer one disturbs the
   other voices. *)
Resize(v, i, len, atEnd) ==
    /\ ~Walking
    /\ i \in DOMAIN voices[v] /\ ~IsSign(voices[v][i])
    /\ LET sc == Resized(Score, v, i, len, atEnd)
       IN  IF len < voices[v][i].len THEN Done(sc) ELSE Synchronized(sc)

SetLength(v, i, len) == Resize(v, i, len, FALSE)

(* The dot key: the element that follows is looked up before each note of the
   chord leaves, and is none once the selected note itself has left. One dot is
   set, or taken away; a dotted length is divisible by three. *)
SetDotted(v, i) ==
    /\ i \in DOMAIN voices[v] /\ ~IsSign(voices[v][i]) /\ voices[v][i].len >= ShortestDotted
    /\ LET e == voices[v][i]
           len == IF e.len % 3 = 0 THEN (e.len * 2) \div 3 ELSE e.len + e.len \div 2
           isInner == IsNote(e) /\ i # Max(ChordAt(Score, v, i))
       IN  /\ isInner => DotAnyNote
           /\ Resize(v, i, len, isInner)

DeleteElement(v, i, takeOut) ==
    /\ ~Walking
    /\ i \in DOMAIN voices[v] /\ ~IsSign(voices[v][i])
    /\ Done(DeletePlayable(Score, v, i, takeOut))

DeleteSign(s) ==
    /\ ~Walking /\ s \notin Unused
    /\ Done(RemoveSign(Score, s))

(* A key of the MIDI keyboard: a note at the end of the current voice, or in its
   last chord while the chord timer runs. *)
PlayKey(v, len, addToChord) ==
    /\ ~Walking
    /\ IF addToChord /\ voices[v] # <<>> /\ IsNote(Last(voices[v]))
       THEN /\ Cardinality(ChordAt(Score, v, Len(voices[v]))) < MaxChord
            /\ Done(AddToChord(Score, v, Len(voices[v])))
       ELSE Done(InsertElement(Score, v, Len(voices[v]) + 1,
                               Playable("note", LastTimeEnd(Score, v), len)))

NewVoice ==
    /\ ~Walking /\ Len(voices) < MaxVoices
    /\ Synchronized([Score EXCEPT !.voices = Append(@, <<>>)])

(* The signs stay in the other voices. The last voice cannot be removed. *)
RemoveVoice(v) ==
    /\ ~Walking /\ Len(voices) > 1
    /\ Done([Score EXCEPT !.voices = RemoveAt(@, v)])

(* One pass of synchronizeVoices. *)
SynchronizePass ==
    /\ Walking
    /\ LET p == [voices |-> voices, at |-> at, idx |-> walk.idx, now |-> walk.now]
           q == Pass(p)
       IN  /\ Becomes(q)
           /\ walk' = IF IsDone(p, q) THEN NoWalk
                     ELSE [idx |-> q.idx, now |-> q.now, passes |-> walk.passes + 1]

Init == voices = <<<<>>>> /\ at = [s \in Signs |-> 0] /\ walk = NoWalk

Edit ==
    \/ NewVoice
    \/ \E s \in Signs : DeleteSign(s)
    \/ \E v \in DOMAIN voices :
        \/ RemoveVoice(v)
        \/ \E len \in AllLengths, addToChord \in BOOLEAN : PlayKey(v, len, addToChord)
        \/ \E i \in 1 .. Len(voices[v]) + 1 :
            \/ \E s \in Signs : PlaceSign(s, v, i)
            \/ \E kind \in {"note", "rest"}, len \in AllLengths : PlacePlayable(v, i, kind, len)
            \/ PlaceInChord(v, i)
            \/ \E len \in AllLengths : ReplaceByNote(v, i, len) \/ ReplaceWithRest(v, i, len)
            \/ \E len \in Lengths : SetLength(v, i, len)
            \/ SetDotted(v, i)
            \/ \E takeOut \in BOOLEAN : DeleteElement(v, i, takeOut)

Next == Edit \/ SynchronizePass

Spec == Init /\ [][Next]_vars

-----------------------------------------------------------------------------
(* Properties *)

SignsOf(v) == Only(voices[v], IsSign)

TypeOK ==
    /\ Len(voices) \in 1 .. MaxVoices
    /\ \A v \in DOMAIN voices : \A e \in ToSet(voices[v]) :
          IF IsSign(e) THEN e.id \in Signs
          ELSE e.kind \in {"note", "rest"} /\ e.start \in Nat /\ e.len \in Nat \ {0}
    /\ at \in [Signs -> Nat]
    /\ Walking => /\ walk.now \in Nat
                  /\ \A v \in DOMAIN voices : walk.idx[v] \in 0 .. Len(voices[v])

(* Between two handlers all voices hold the same signs, each once and in the
   same order: no handler, and no walk of synchronizeVoices, drops one from a
   voice or leaves two copies behind. *)
SignsShared ==
    ~Walking => \A v, w \in DOMAIN voices :
        SignsOf(v) = SignsOf(w) /\ IsInjective(SignsOf(v))

(* What the comment of synchronizeVoices promises: between two handlers each
   element of a voice starts where the one before it ends, or with it in a
   chord.  As the signs are shared, none is inside a note of any voice. *)
Linear ==
    ~Walking => \A v \in DOMAIN voices : \A i \in DOMAIN voices[v] :
        LET e == voices[v][i]
            previous == voices[v][i - 1]
            inChord == IsNote(e) /\ IsNote(previous) /\ e.start = previous.start
                       /\ e.len = previous.len
        IN  IF i = 1 THEN Start(Score, e) = 0
            ELSE Start(Score, e) = End(Score, previous) \/ inChord

(* The loop of synchronizeVoices ends: each pass but the first takes an element
   of some voice, those it adds included. *)
WalkEnds == walk.passes <= 1 + Total([v \in DOMAIN voices |-> Len(voices[v])])

(* synchronizeVoices repairs with rests alone: a pass keeps the notes of each
   voice and their lengths, in their order, and moves none of them back. *)
NotesOf(list) == Only(list, IsNote)
OnlyDelays(old, new) ==
    Len(new) = Len(old) /\ \A k \in DOMAIN new : new[k].len = old[k].len /\ new[k].start >= old[k].start

KeepsNotes ==
    [][Walking => \A v \in DOMAIN voices : OnlyDelays(NotesOf(voices[v]), NotesOf(voices'[v]))]_vars
=============================================================================
