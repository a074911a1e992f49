---------------------------- MODULE StaffProofs ----------------------------
(***************************************************************************)
(* Proofs about Staff, for any signs and lengths and any number of voices, *)
(* of elements in them and of notes in a chord.                            *)
(***************************************************************************)
EXTENDS Staff, SequenceTheorems, FiniteSetTheorems, WellFoundedInduction, TLAPS

-----------------------------------------------------------------------------
(* Numbers, sets and sequences *)

\* A set of numbers that is not empty has a least one.
LEMMA Least ==
  ASSUME NEW S \in SUBSET Nat, S # {}
  PROVE  \E m \in S : \A k \in S : m <= k
<1> DEFINE R == OpToRel(<, Nat)
<1>1. IsWellFoundedOn(R, Nat)
  BY NatLessThanWellFounded
<1>2. \A x, y \in Nat : x < y => <<x, y>> \in R
  BY DEF OpToRel
<1> HIDE DEF R
<1>3. S \subseteq Nat
  OBVIOUS
<1>4. PICK m \in S : \A k \in S : <<k, m>> \notin R
  BY <1>1, <1>3, WFMin
<1>5. ASSUME NEW k \in S PROVE m <= k
  <2>1. m \in Nat /\ k \in Nat /\ ~(k < m)
    BY <1>2, <1>3, <1>4
  <2> QED
    BY <2>1
<1> QED
  BY <1>5

\* What Min and Max choose.
LEMMA MinIs ==
  ASSUME NEW S \in SUBSET Nat, S # {}
  PROVE  Min(S) \in S /\ \A k \in S : Min(S) <= k
BY Least DEF Min

LEMMA MaxIs ==
  ASSUME NEW n \in Nat, NEW S \in SUBSET (0 .. n), S # {}
  PROVE  Max(S) \in S /\ \A k \in S : k <= Max(S)
<1> DEFINE T == {n - k : k \in S}
<1>1. T \in SUBSET Nat
  OBVIOUS
<1>2. T # {}
  OBVIOUS
<1>3. PICK m \in T : \A k \in T : m <= k
  <2> HIDE DEF T
  <2> QED BY <1>1, <1>2, Least
<1>4. PICK x \in S : m = n - x
  BY <1>3
<1>5. \A k \in S : x >= k
  BY <1>3, <1>4
<1> QED
  BY <1>5 DEF Max

\* A function on 1 .. n is a sequence.
LEMMA IsSequence ==
  ASSUME NEW S, NEW n \in Nat, NEW f \in [1 .. n -> S]
  PROVE  f \in Seq(S) /\ Len(f) = n
<1>1. f \in Seq(S)
  BY SeqDef
<1>2. Len(f) \in Nat /\ DOMAIN f = 1 .. Len(f)
  BY <1>1, LenProperties
<1> QED
  BY <1>1, <1>2


\* What holds at 0 and at each number up to n if it holds at the one before.
LEMMA Upward ==
  ASSUME NEW n \in Nat, NEW P, 0 \in P,
         \A k \in 1 .. n : k - 1 \in P => k \in P
  PROVE  \A k \in 0 .. n : k \in P
<1> DEFINE S == {k \in 0 .. n : k \notin P}
<1> SUFFICES S = {}
  OBVIOUS
<1>1. S \in SUBSET Nat
  OBVIOUS
<1>2. CASE S # {}
  <2>1. PICK m \in S : \A k \in S : m <= k
    <3> HIDE DEF S
    <3> QED BY <1>1, <1>2, Least
  <2>2. m \in 1 .. n /\ m - 1 \notin S
    BY <2>1
  <2> QED
    BY <2>1, <2>2
<1> QED
  BY <1>2

\* Of two numbers.
LEMMA MinMaxOfTwo ==
  ASSUME NEW i \in Nat, NEW j \in Nat, j <= i
  PROVE  Min({i, j}) = j /\ Max({i, j}) = i
<1>1. Min({i, j}) \in {i, j} /\ \A k \in {i, j} : Min({i, j}) <= k
  BY MinIs
<1>2. Max({i, j}) \in {i, j} /\ \A k \in {i, j} : k <= Max({i, j})
  <2>1. {i, j} \in SUBSET (0 .. i) /\ {i, j} # {}
    OBVIOUS
  <2> QED
    BY <2>1, MaxIs
<1> QED
  BY <1>1, <1>2

\* Replacing an element changes it alone.
LEMMA AtIs ==
  ASSUME NEW S, NEW s \in Seq(S), NEW i \in DOMAIN s, NEW x \in S
  PROVE  /\ At(s, i, x) = [s EXCEPT ![i] = x]
         /\ At(s, i, x) \in Seq(S)
         /\ Len(At(s, i, x)) = Len(s)
<1> DEFINE a == SubSeq(s, 1, i - 1)
           b == SubSeq(s, i + 1, Len(s))
           r == a \o <<x>> \o b
<1>0. i \in 1 .. Len(s) /\ Len(s) \in Nat
  OBVIOUS
<1>1. a \in Seq(S) /\ Len(a) = i - 1 /\ \A j \in 1 .. i - 1 : a[j] = s[j]
  BY <1>0
<1>2. b \in Seq(S) /\ Len(b) = Len(s) - i /\ \A j \in 1 .. Len(s) - i : b[j] = s[i + j]
  BY <1>0
<1> HIDE DEF a, b
<1>3. a \o <<x>> \in Seq(S) /\ Len(a \o <<x>>) = i
      /\ \A j \in 1 .. i : (a \o <<x>>)[j] = IF j < i THEN s[j] ELSE x
  BY <1>0, <1>1
<1> DEFINE c == a \o <<x>>
<1> HIDE DEF c
<1>4. r = c \o b
  BY DEF c
<1>5. c \in Seq(S) /\ Len(c) = i /\ \A j \in 1 .. i : c[j] = IF j < i THEN s[j] ELSE x
  BY <1>3 DEF c
<1> HIDE DEF r
<1>6. r \in Seq(S) /\ Len(r) = Len(s)
  BY <1>0, <1>2, <1>4, <1>5
<1>7. ASSUME NEW j \in 1 .. Len(s) PROVE r[j] = IF j = i THEN x ELSE s[j]
  <2>1. CASE j <= i
    BY <1>0, <1>2, <1>4, <1>5, <2>1
  <2>2. CASE j > i
    <3>1. r[j] = b[j - i]
      BY <1>0, <1>2, <1>4, <1>5, <2>2
    <3>2. j - i \in 1 .. Len(s) - i /\ i + (j - i) = j
      BY <1>0, <2>2
    <3>3. b[j - i] = s[j]
      BY <1>2, <3>2
    <3> QED
      BY <2>2, <3>1, <3>3, <1>0
  <2> QED
    BY <2>1, <2>2, <1>0
<1>8. DOMAIN r = 1 .. Len(s) /\ r = [j \in 1 .. Len(s) |-> r[j]]
  BY <1>6
<1>9. r = [s EXCEPT ![i] = x]
  <2>1. [s EXCEPT ![i] = x] = [j \in 1 .. Len(s) |-> IF j = i THEN x ELSE s[j]]
    BY <1>0
  <2> QED
    BY <1>7, <1>8, <2>1
<1> QED
  BY <1>6, <1>9 DEF At, r, a, b

\* Without its k-th element a list is the elements before and behind it.
LEMMA WithoutOne ==
  ASSUME NEW S, NEW s \in Seq(S), NEW k \in 1 .. Len(s)
  PROVE  /\ RemoveAt(s, k) \in Seq(S)
         /\ Len(RemoveAt(s, k)) = Len(s) - 1
         /\ \A j \in 1 .. Len(s) - 1 :
              RemoveAt(s, k)[j] = IF j < k THEN s[j] ELSE s[j + 1]
<1> DEFINE before == SubSeq(s, 1, k - 1)
           behind == SubSeq(s, k + 1, Len(s))
<1>1. /\ before \in Seq(S) /\ Len(before) = k - 1
      /\ \A j \in 1 .. k - 1 : before[j] = s[j]
  OBVIOUS
<1>2. /\ behind \in Seq(S) /\ Len(behind) = Len(s) - k
      /\ \A j \in 1 .. Len(s) - k : behind[j] = s[k + j]
  OBVIOUS
<1> HIDE DEF before, behind
<1>3. /\ before \o behind \in Seq(S)
      /\ Len(before \o behind) = Len(s) - 1
  <2>1. /\ before \o behind \in Seq(S)
        /\ Len(before \o behind) = Len(before) + Len(behind)
    BY <1>1, <1>2, ConcatProperties
  <2> QED
    BY <1>1, <1>2, <2>1
<1>4. ASSUME NEW j \in 1 .. Len(s) - 1
      PROVE  (before \o behind)[j] = IF j < k THEN s[j] ELSE s[j + 1]
  <2>1. CASE j < k
    BY <1>1, <1>2, <2>1
  <2>2. CASE ~(j < k)
    <3>1. (before \o behind)[j] = behind[j - (k - 1)]
      BY <1>1, <1>2, <2>2
    <3>2. j - (k - 1) \in 1 .. Len(s) - k /\ k + (j - (k - 1)) = j + 1
      BY <2>2
    <3>3. behind[j - (k - 1)] = s[k + (j - (k - 1))]
      BY <1>2, <3>2
    <3>4. behind[j - (k - 1)] = s[j + 1]
      BY <3>2, <3>3, Zenon
    <3> QED
      BY <2>2, <3>1, <3>4
  <2> QED
    BY <2>1, <2>2
<1> QED
  BY <1>3, <1>4 DEF RemoveAt, before, behind

\* With e at position i a list is the elements before it, e and those behind.
LEMMA WithOne ==
  ASSUME NEW S, NEW s \in Seq(S), NEW i \in 1 .. Len(s) + 1, NEW e \in S
  PROVE  /\ InsertAt(s, i, e) \in Seq(S)
         /\ Len(InsertAt(s, i, e)) = Len(s) + 1
         /\ \A j \in 1 .. Len(s) + 1 :
              InsertAt(s, i, e)[j] = IF j < i THEN s[j] ELSE IF j = i THEN e ELSE s[j - 1]
<1> DEFINE a == SubSeq(s, 1, i - 1)
           b == SubSeq(s, i, Len(s))
           r == a \o <<e>> \o b
<1>0. Len(s) \in Nat
  OBVIOUS
<1>1. a \in Seq(S) /\ Len(a) = i - 1 /\ \A j \in 1 .. i - 1 : a[j] = s[j]
  BY <1>0
<1>2. b \in Seq(S) /\ Len(b) = Len(s) + 1 - i
      /\ \A j \in 1 .. Len(s) + 1 - i : b[j] = s[i + j - 1]
  BY <1>0
<1> HIDE DEF a, b
<1>3. a \o <<e>> \in Seq(S) /\ Len(a \o <<e>>) = i
      /\ \A j \in 1 .. i : (a \o <<e>>)[j] = IF j < i THEN s[j] ELSE e
  BY <1>0, <1>1
<1> DEFINE c == a \o <<e>>
<1> HIDE DEF c
<1>4. r = c \o b
  BY DEF c
<1>5. c \in Seq(S) /\ Len(c) = i /\ \A j \in 1 .. i : c[j] = IF j < i THEN s[j] ELSE e
  BY <1>3 DEF c
<1> HIDE DEF r
<1>6. r \in Seq(S) /\ Len(r) = Len(s) + 1
  BY <1>0, <1>2, <1>4, <1>5
<1>7. ASSUME NEW j \in 1 .. Len(s) + 1
      PROVE  r[j] = IF j < i THEN s[j] ELSE IF j = i THEN e ELSE s[j - 1]
  <2>1. CASE j <= i
    BY <1>0, <1>2, <1>4, <1>5, <2>1
  <2>2. CASE j > i
    <3>1. r[j] = b[j - i]
      BY <1>0, <1>2, <1>4, <1>5, <2>2
    <3>2. j - i \in 1 .. Len(s) + 1 - i /\ i + (j - i) - 1 = j - 1
      BY <1>0, <2>2
    <3>3. b[j - i] = s[j - 1]
      BY <1>2, <3>2
    <3> QED
      BY <2>2, <3>1, <3>3, <1>0
  <2> QED
    BY <2>1, <2>2, <1>0
<1> QED
  BY <1>6, <1>7 DEF InsertAt, r, a, b

\* The same, of one position.
LEMMA WithOneAt ==
  ASSUME NEW S, NEW s \in Seq(S), NEW i \in 1 .. Len(s) + 1, NEW e \in S,
         NEW j \in 1 .. Len(s) + 1
  PROVE  InsertAt(s, i, e)[j] = IF j < i THEN s[j] ELSE IF j = i THEN e ELSE s[j - 1]
BY WithOne

\* Two lists, one behind the other.
LEMMA BehindIs ==
  ASSUME NEW S, NEW a \in Seq(S), NEW b \in Seq(S)
  PROVE  /\ a \o b \in Seq(S) /\ Len(a \o b) = Len(a) + Len(b)
         /\ Len(a) \in Nat /\ Len(b) \in Nat
         /\ \A k \in 1 .. Len(a) : (a \o b)[k] = a[k]
         /\ \A k \in 1 .. Len(b) : (a \o b)[Len(a) + k] = b[k]
<1>1. /\ a \o b \in Seq(S) /\ Len(a \o b) = Len(a) + Len(b)
      /\ \A i \in 1 .. Len(a) + Len(b) : (a \o b)[i] = IF i <= Len(a) THEN a[i] ELSE b[i - Len(a)]
  BY ConcatProperties
<1>2. Len(a) \in Nat /\ Len(b) \in Nat
  OBVIOUS
<1> DEFINE c == a \o b
           m == Len(a)
           n == Len(b)
<1> HIDE DEF c, m, n
<1>3. ASSUME NEW k \in 1 .. m PROVE c[k] = a[k]
  <2>1. k \in 1 .. m + n /\ k <= m
    BY <1>2 DEF m, n
  <2> QED
    BY <1>1, <2>1 DEF c, m, n
<1>4. ASSUME NEW k \in 1 .. n PROVE c[m + k] = b[k]
  <2> DEFINE i == m + k
  <2>1. i \in 1 .. m + n /\ ~(i <= m) /\ i - m = k
    BY <1>2 DEF m, n
  <2> HIDE DEF i
  <2>2. c[i] = b[i - m]
    BY <1>1, <2>1 DEF c, m, n
  <2> QED
    BY <2>1, <2>2 DEF i
<1> QED
  BY <1>1, <1>2, <1>3, <1>4 DEF c, m, n

-----------------------------------------------------------------------------
(* Elements and scores *)

\* All times are even, so no two of them differ by one.
Times == {t \in Int : t % 2 = 0}

\* The lengths of notes and rests: those that can be chosen, those of composed
\* rests, and these with a dot.
Lens == {8, 12, 16, 24, 32, 48, 64, 96, 128, 192, 256, 384, 512, 768, 1024, 1536, 2048, 3072}

Elements == {Sign(s) : s \in Signs}
            \cup {Playable(kind, start, len) :
                    kind \in {"note", "rest"}, start \in Times, len \in Lens}
Lists == Seq(Elements)

\* What the handlers and what the passes of synchronizeVoices work on.
Scores == [voices : Seq(Lists), at : [Signs -> Times]]
Passes == [voices : Seq(Lists), at : [Signs -> Times], idx : Seq(Nat), now : Times]

\* The parts of r that are no voices are of the same kind as those of sc.
Alike(sc, r) ==
  /\ r.voices \in Seq(Lists) /\ Len(r.voices) = Len(sc.voices)
  /\ r.at \in [Signs -> Times]
  /\ sc \in Scores => r \in Scores
  /\ sc \in Passes => r \in Passes /\ r.idx = sc.idx /\ r.now = sc.now

LEMMA TimesAdd ==
  /\ 0 \in Times
  /\ \A a \in Times : -a \in Times
  /\ \A a, b \in Times : a + b \in Times /\ a - b \in Times /\ a - b # -1
BY DEF Times

LEMMA TimesAreIntegers == Times \subseteq Int
BY DEF Times

LEMMA LensAreTimes ==
  \A len \in Lens : len \in Nat \ {0} /\ len \in Times
BY DEF Lens, Times

\* A sign is known by its name, a playable by its kind, start and length.
LEMMA ElementIs ==
  ASSUME NEW e \in Elements
  PROVE  /\ IsSign(e) => e.id \in Signs /\ e = Sign(e.id) /\ ~IsNote(e)
         /\ ~IsSign(e) => /\ e.kind \in {"note", "rest"} /\ e.start \in Times /\ e.len \in Lens
                          /\ e = Playable(e.kind, e.start, e.len)
         /\ IsNote(e) => e.kind = "note"
<1>1. CASE \E s \in Signs : e = Sign(s)
  BY <1>1 DEF IsSign, IsNote, Sign
<1>2. CASE \E kind \in {"note", "rest"}, start \in Times, len \in Lens :
             e = Playable(kind, start, len)
  BY <1>2 DEF IsSign, IsNote, Playable
<1> QED
  BY <1>1, <1>2 DEF Elements

LEMMA PlayableIs ==
  ASSUME NEW kind \in {"note", "rest"}, NEW start \in Times, NEW len \in Lens
  PROVE  /\ Playable(kind, start, len) \in Elements
         /\ Playable(kind, start, len).kind = kind
         /\ Playable(kind, start, len).start = start
         /\ Playable(kind, start, len).len = len
         /\ ~IsSign(Playable(kind, start, len))
         /\ IsNote(Playable(kind, start, len)) <=> kind = "note"
BY DEF Playable, Elements, IsSign, IsNote

LEMMA SignIs ==
  ASSUME NEW s \in Signs
  PROVE  /\ Sign(s) \in Elements /\ IsSign(Sign(s)) /\ ~IsNote(Sign(s)) /\ Sign(s).id = s
BY DEF Sign, Elements, IsSign, IsNote

LEMMA ScoreIs ==
  ASSUME NEW sc \in Scores \cup Passes
  PROVE  sc.voices \in Seq(Lists) /\ sc.at \in [Signs -> Times]
BY DEF Scores, Passes

LEMMA VoiceIs ==
  ASSUME NEW sc \in Scores \cup Passes, NEW v \in DOMAIN sc.voices
  PROVE  /\ sc.voices[v] \in Lists
         /\ Len(sc.voices[v]) \in Nat
         /\ DOMAIN sc.voices[v] = 1 .. Len(sc.voices[v])
         /\ \A i \in 1 .. Len(sc.voices[v]) : sc.voices[v][i] \in Elements
<1>1. sc.voices[v] \in Lists
  BY ScoreIs
<1> QED
  BY <1>1 DEF Lists

\* Alike is reflexive and transitive.
LEMMA AlikeSelf ==
  ASSUME NEW sc \in Scores \cup Passes
  PROVE  Alike(sc, sc)
BY ScoreIs DEF Alike

LEMMA AlikeTrans ==
  ASSUME NEW a \in Scores \cup Passes, NEW b, NEW c, Alike(a, b), Alike(b, c)
  PROVE  Alike(a, c)
BY DEF Alike

LEMMA AlikeIn ==
  ASSUME NEW sc \in Scores \cup Passes, NEW r, Alike(sc, r)
  PROVE  r \in Scores \cup Passes /\ DOMAIN r.voices = DOMAIN sc.voices
<1>1. sc.voices \in Seq(Lists) /\ r.voices \in Seq(Lists) /\ Len(r.voices) = Len(sc.voices)
  BY ScoreIs DEF Alike
<1>2. DOMAIN r.voices = DOMAIN sc.voices
  BY <1>1
<1> QED
  BY <1>2 DEF Alike

\* Where an element starts and ends.
LEMMA StartIs ==
  ASSUME NEW sc \in Scores \cup Passes, NEW e \in Elements
  PROVE  /\ Start(sc, e) \in Times /\ End(sc, e) \in Times
         /\ ~IsSign(e) => Start(sc, e) = e.start
<1>1. sc.at \in [Signs -> Times]
  BY ScoreIs
<1>2. CASE IsSign(e)
  <2>1. e.id \in Signs
    BY <1>2, ElementIs
  <2> QED
    BY <1>1, <1>2, <2>1 DEF Start, End
<1>3. CASE ~IsSign(e)
  <2>1. e.start \in Times /\ e.len \in Times
    BY <1>3, ElementIs, LensAreTimes
  <2> QED
    BY <1>3, <2>1, TimesAdd DEF Start, End
<1> QED
  BY <1>2, <1>3

LEMMA LastTimeEndIs ==
  ASSUME NEW sc \in Scores \cup Passes, NEW v \in DOMAIN sc.voices
  PROVE  LastTimeEnd(sc, v) \in Times
<1>1. CASE sc.voices[v] = <<>>
  BY <1>1, TimesAdd DEF LastTimeEnd
<1>2. CASE sc.voices[v] # <<>>
  <2>1. Last(sc.voices[v]) \in Elements
    <3>1. Len(sc.voices[v]) \in 1 .. Len(sc.voices[v])
      BY <1>2, VoiceIs DEF Lists
    <3> QED
      BY <3>1, VoiceIs DEF Last
  <2> QED
    BY <1>2, <2>1, StartIs DEF LastTimeEnd
<1> QED
  BY <1>1, <1>2

\* A voice with another list.
LEMMA WithListIs ==
  ASSUME NEW sc \in Scores \cup Passes, NEW v \in DOMAIN sc.voices, NEW list \in Lists
  PROVE  /\ WithList(sc, v, list).voices = [sc.voices EXCEPT ![v] = list]
         /\ WithList(sc, v, list).at = sc.at
         /\ Alike(sc, WithList(sc, v, list))
<1> DEFINE new == At(sc.voices, v, list)
<1>1. sc.voices \in Seq(Lists) /\ sc.at \in [Signs -> Times]
  BY ScoreIs
<1>2. /\ new = [sc.voices EXCEPT ![v] = list]
      /\ new \in Seq(Lists) /\ Len(new) = Len(sc.voices)
  <2> DEFINE all == sc.voices
  <2>1. all \in Seq(Lists) /\ v \in DOMAIN all
    BY <1>1
  <2> HIDE DEF all
  <2>2. /\ At(all, v, list) = [all EXCEPT ![v] = list]
        /\ At(all, v, list) \in Seq(Lists) /\ Len(At(all, v, list)) = Len(all)
    BY <2>1, AtIs
  <2> QED
    BY <2>2 DEF all
<1> HIDE DEF new
<1>3. WithList(sc, v, list) = [sc EXCEPT !.voices = new]
  BY DEF WithList, new
<1>4. /\ WithList(sc, v, list).voices = new /\ WithList(sc, v, list).at = sc.at
      /\ sc \in Scores => WithList(sc, v, list) \in Scores
      /\ sc \in Passes => /\ WithList(sc, v, list) \in Passes
                          /\ WithList(sc, v, list).idx = sc.idx
                          /\ WithList(sc, v, list).now = sc.now
  BY <1>2, <1>3 DEF Scores, Passes
<1> QED
  BY <1>1, <1>2, <1>4 DEF Alike

\* The list of a voice whose playables from position i on start later by delta.
Moved(e, delta) == IF IsSign(e) THEN e ELSE Playable(e.kind, e.start + delta, e.len)
Later(list, i, delta) ==
  [k \in DOMAIN list |-> IF k >= i THEN Moved(list[k], delta) ELSE list[k]]

LEMMA MovedIs ==
  ASSUME NEW e \in Elements, NEW delta \in Times
  PROVE  /\ Moved(e, delta) \in Elements
         /\ IsSign(Moved(e, delta)) <=> IsSign(e)
         /\ IsNote(Moved(e, delta)) <=> IsNote(e)
         /\ IsSign(e) => Moved(e, delta) = e
         /\ ~IsSign(e) => /\ Moved(e, delta).len = e.len
                          /\ Moved(e, delta).start = e.start + delta
<1>1. CASE IsSign(e)
  BY <1>1 DEF Moved
<1>2. CASE ~IsSign(e)
  <2>1. e.kind \in {"note", "rest"} /\ e.start + delta \in Times /\ e.len \in Lens
    BY <1>2, ElementIs, TimesAdd
  <2>2. Moved(e, delta) = Playable(e.kind, e.start + delta, e.len)
    BY <1>2 DEF Moved
  <2> QED
    BY <1>2, <2>1, <2>2, PlayableIs DEF IsNote
<1> QED
  BY <1>1, <1>2

LEMMA LaterIs ==
  ASSUME NEW list \in Lists, NEW i \in Int, NEW delta \in Times
  PROVE  /\ Later(list, i, delta) \in Lists
         /\ Len(Later(list, i, delta)) = Len(list)
         /\ \A k \in 1 .. Len(list) :
              Later(list, i, delta)[k] = IF k >= i THEN Moved(list[k], delta) ELSE list[k]
<1>1. Len(list) \in Nat /\ DOMAIN list = 1 .. Len(list)
      /\ \A k \in 1 .. Len(list) : list[k] \in Elements
  BY DEF Lists
<1>2. Later(list, i, delta) \in [1 .. Len(list) -> Elements]
  BY <1>1, MovedIs DEF Later
<1> QED
  BY <1>1, <1>2, IsSequence DEF Later, Lists

\* CAVoice::updateTimes changes the list of one voice, and the signs only if it
\* is told to.
LEMMA UpdateTimesIs ==
  ASSUME NEW sc \in Scores \cup Passes, NEW v \in DOMAIN sc.voices,
         NEW i \in Int, NEW delta \in Times, NEW signsToo \in BOOLEAN
  PROVE  LET r == UpdateTimes(sc, v, i, delta, signsToo)
         IN  /\ Alike(sc, r)
             /\ r.voices = [sc.voices EXCEPT ![v] = Later(sc.voices[v], i, delta)]
             /\ ~signsToo => r.at = sc.at
<1> DEFINE list == sc.voices[v]
           new == Later(list, i, delta)
           w == WithList(sc, v, new)
           moves(s) == signsToo /\ \E k \in i .. Len(list) : list[k] = Sign(s)
           times == [s \in Signs |-> sc.at[s] + IF moves(s) THEN delta ELSE 0]
           r == UpdateTimes(sc, v, i, delta, signsToo)
<1>1. list \in Lists
  BY VoiceIs
<1>2. new \in Lists
  BY <1>1, LaterIs
<1>3. r = [w EXCEPT !.at = times]
  BY DEF UpdateTimes, Later, Moved
<1>4. sc.at \in [Signs -> Times]
  BY ScoreIs
<1>5. times \in [Signs -> Times]
  <2>1. ASSUME NEW s \in Signs, NEW d \in {delta, 0} PROVE sc.at[s] + d \in Times
    BY <1>4, TimesAdd
  <2> QED
    BY <2>1
<1>6. ~signsToo => times = sc.at
  <2>1. ASSUME ~signsToo, NEW s \in Signs PROVE sc.at[s] + (IF moves(s) THEN delta ELSE 0) = sc.at[s]
    <3>1. ~moves(s) /\ sc.at[s] \in Int
      BY <1>4, <2>1, TimesAreIntegers
    <3> QED
      BY <3>1
  <2> QED
    BY <1>4, <2>1
<1> HIDE DEF times, new
<1>7. w.voices = [sc.voices EXCEPT ![v] = new] /\ Alike(sc, w)
  BY <1>2, WithListIs
<1> HIDE DEF w, r
<1>8. /\ r.voices = w.voices /\ r.at = times
      /\ w \in Scores => r \in Scores
      /\ w \in Passes => r \in Passes /\ r.idx = w.idx /\ r.now = w.now
  <2>1. w \in Scores \cup Passes
    BY <1>7 DEF Alike
  <2> QED
    BY <1>3, <1>5, <2>1 DEF Scores, Passes
<1>9. Alike(sc, r)
  BY <1>5, <1>7, <1>8 DEF Alike
<1> QED
  BY <1>6, <1>7, <1>8, <1>9 DEF r, new

-----------------------------------------------------------------------------
(* The loops, round by round *)

\* Loops of Staff that have no name there.
Without(list, s) == Only(list, LAMBDA e : e # Sign(s))
NotYetIn(acc, list) == Only(list, LAMBDA e : e \notin ToSet(acc))
AddTimes(sc, v, i, n) == Loop(LAMBDA acc, k : AddToChord(acc, v, i), sc, n)
RemoveTimes(sc, v, i, n, signsToo) ==
  Loop(LAMBDA acc, k : RemovePlayable(acc, v, i, signsToo), sc, n)
MovesOf(p, v, n) == Loop(LAMBDA acc, w : MoveSignBehind(acc, v, w), p, n)

\* One position of RemoveEach.
RemoveOne(acc, v, is, i) == IF i \in is THEN RemovePlayable(acc, v, i, TRUE) ELSE acc

\* One voice of CutOthers, and before the first.
Uncut(sc) == [sc |-> sc, skips |-> FALSE]
CutOne(acc, v, p, w) ==
  LET below == Below(acc.sc, w, p)
      taken == IF acc.skips THEN below \ {Min(below)} ELSE below
  IN  IF w = v \/ below = {} THEN acc
      ELSE [sc |-> IF taken = {} THEN acc.sc ELSE CutBelow(acc.sc, w, p, taken),
            skips |-> taken # {}]

\* One length of ComposeRests.
Write(acc, k) ==
  IF RestLengths[k] <= acc.left
  THEN [left |-> acc.left - RestLengths[k], lens |-> Append(acc.lens, RestLengths[k])]
  ELSE acc
Breves(gap) == IF gap > 2048 THEN (gap - 1) \div 2048 ELSE 0

\* Total adds up the lengths.
LEMMA TotalLoop ==
  ASSUME NEW lens, Len(lens) \in Nat
  PROVE  \E f : /\ f[0] = 0
                /\ \A k \in 1 .. Len(lens) : f[k] = f[k - 1] + lens[k]
                /\ Total(lens) = f[Len(lens)]
<1> DEFINE n == Len(lens)
           base == 0
           round(acc, k) == acc + lens[k]
           rounds(f, m) == [k \in 0 .. m |-> IF k = 0 THEN base ELSE round(f[k - 1], k)]
           P == {m \in 0 .. n : \E f : f = rounds(f, m)}
<1>1. n \in Nat
  OBVIOUS
<1>2. Total(lens) = (CHOOSE f : f = rounds(f, n))[n]
  BY DEF Total, Loop
<1> HIDE DEF n, base, round
<1>3. 0 \in P
  <2> DEFINE g == [k \in 0 .. 0 |-> base]
  <2>1. g = rounds(g, 0)
    OBVIOUS
  <2> HIDE DEF rounds, g
  <2> QED
    BY <1>1, <2>1
<1>4. ASSUME NEW m \in 1 .. n, m - 1 \in P
      PROVE  m \in P
  <2>1. PICK f : f = rounds(f, m - 1)
    BY <1>4
  <2>2. m \in Nat /\ m - 1 \in Nat /\ DOMAIN f = 0 .. m - 1
    BY <1>1, <2>1
  <2> DEFINE g == [k \in 0 .. m |-> IF k < m THEN f[k] ELSE round(f[m - 1], m)]
  <2>3. ASSUME NEW k \in 0 .. m
        PROVE  g[k] = IF k = 0 THEN base ELSE round(g[k - 1], k)
    <3>1. CASE k = m
      BY <2>2, <3>1
    <3>2. CASE k < m
      <4>1. f[k] = IF k = 0 THEN base ELSE round(f[k - 1], k)
        BY <2>1, <2>2, <3>2
      <4> QED
        BY <2>2, <3>2, <4>1
    <3> QED
      BY <2>2, <3>1, <3>2
  <2>4. g = rounds(g, m)
    BY <2>3
  <2> HIDE DEF rounds, g
  <2> QED
    BY <1>1, <2>4
<1>5. n \in P
  <2> HIDE DEF P
  <2>1. \A m \in 1 .. n : m - 1 \in P => m \in P
    BY <1>4
  <2>2. \A m \in 0 .. n : m \in P
    BY <1>1, <1>3, <2>1, Upward
  <2> QED
    BY <1>1, <2>2
<1> DEFINE f == CHOOSE f : f = rounds(f, n)
<1>6. f = rounds(f, n)
  <2>1. \E h : h = rounds(h, n)
    BY <1>5
  <2> HIDE DEF rounds
  <2> QED
    BY <2>1
<1> HIDE DEF f
<1>7. f[0] = base /\ \A k \in 1 .. n : f[k] = round(f[k - 1], k)
  BY <1>1, <1>6
<1>8. Total(lens) = f[n]
  BY <1>2 DEF f
<1> QED
  BY <1>7, <1>8 DEF n, base, round

\* NotesOf takes the notes of a list.
LEMMA NotesOfLoop ==
  ASSUME NEW list, Len(list) \in Nat
  PROVE  \E f : /\ f[0] = <<>>
                /\ \A k \in 1 .. Len(list) : f[k] = IF IsNote(list[k]) THEN Append(f[k - 1], list[k]) ELSE f[k - 1]
                /\ NotesOf(list) = f[Len(list)]
<1> DEFINE n == Len(list)
           base == <<>>
           round(acc, k) == IF IsNote(list[k]) THEN Append(acc, list[k]) ELSE acc
           rounds(f, m) == [k \in 0 .. m |-> IF k = 0 THEN base ELSE round(f[k - 1], k)]
           P == {m \in 0 .. n : \E f : f = rounds(f, m)}
<1>1. n \in Nat
  OBVIOUS
<1>2. NotesOf(list) = (CHOOSE f : f = rounds(f, n))[n]
  BY DEF NotesOf, Only, Loop
<1> HIDE DEF n, base, round
<1>3. 0 \in P
  <2> DEFINE g == [k \in 0 .. 0 |-> base]
  <2>1. g = rounds(g, 0)
    OBVIOUS
  <2> HIDE DEF rounds, g
  <2> QED
    BY <1>1, <2>1
<1>4. ASSUME NEW m \in 1 .. n, m - 1 \in P
      PROVE  m \in P
  <2>1. PICK f : f = rounds(f, m - 1)
    BY <1>4
  <2>2. m \in Nat /\ m - 1 \in Nat /\ DOMAIN f = 0 .. m - 1
    BY <1>1, <2>1
  <2> DEFINE g == [k \in 0 .. m |-> IF k < m THEN f[k] ELSE round(f[m - 1], m)]
  <2>3. ASSUME NEW k \in 0 .. m
        PROVE  g[k] = IF k = 0 THEN base ELSE round(g[k - 1], k)
    <3>1. CASE k = m
      BY <2>2, <3>1
    <3>2. CASE k < m
      <4>1. f[k] = IF k = 0 THEN base ELSE round(f[k - 1], k)
        BY <2>1, <2>2, <3>2
      <4> QED
        BY <2>2, <3>2, <4>1
    <3> QED
      BY <2>2, <3>1, <3>2
  <2>4. g = rounds(g, m)
    BY <2>3
  <2> HIDE DEF rounds, g
  <2> QED
    BY <1>1, <2>4
<1>5. n \in P
  <2> HIDE DEF P
  <2>1. \A m \in 1 .. n : m - 1 \in P => m \in P
    BY <1>4
  <2>2. \A m \in 0 .. n : m \in P
    BY <1>1, <1>3, <2>1, Upward
  <2> QED
    BY <1>1, <2>2
<1> DEFINE f == CHOOSE f : f = rounds(f, n)
<1>6. f = rounds(f, n)
  <2>1. \E h : h = rounds(h, n)
    BY <1>5
  <2> HIDE DEF rounds
  <2> QED
    BY <2>1
<1> HIDE DEF f
<1>7. f[0] = base /\ \A k \in 1 .. n : f[k] = round(f[k - 1], k)
  BY <1>1, <1>6
<1>8. NotesOf(list) = f[n]
  BY <1>2 DEF f
<1> QED
  BY <1>7, <1>8 DEF n, base, round

\* A list without a sign.
LEMMA WithoutLoop ==
  ASSUME NEW list, NEW s, Len(list) \in Nat
  PROVE  \E f : /\ f[0] = <<>>
                /\ \A k \in 1 .. Len(list) : f[k] = IF list[k] # Sign(s) THEN Append(f[k - 1], list[k]) ELSE f[k - 1]
                /\ Without(list, s) = f[Len(list)]
<1> DEFINE n == Len(list)
           base == <<>>
           round(acc, k) == IF list[k] # Sign(s) THEN Append(acc, list[k]) ELSE acc
           rounds(f, m) == [k \in 0 .. m |-> IF k = 0 THEN base ELSE round(f[k - 1], k)]
           P == {m \in 0 .. n : \E f : f = rounds(f, m)}
<1>1. n \in Nat
  OBVIOUS
<1>2. Without(list, s) = (CHOOSE f : f = rounds(f, n))[n]
  BY DEF Without, Only, Loop
<1> HIDE DEF n, base, round
<1>3. 0 \in P
  <2> DEFINE g == [k \in 0 .. 0 |-> base]
  <2>1. g = rounds(g, 0)
    OBVIOUS
  <2> HIDE DEF rounds, g
  <2> QED
    BY <1>1, <2>1
<1>4. ASSUME NEW m \in 1 .. n, m - 1 \in P
      PROVE  m \in P
  <2>1. PICK f : f = rounds(f, m - 1)
    BY <1>4
  <2>2. m \in Nat /\ m - 1 \in Nat /\ DOMAIN f = 0 .. m - 1
    BY <1>1, <2>1
  <2> DEFINE g == [k \in 0 .. m |-> IF k < m THEN f[k] ELSE round(f[m - 1], m)]
  <2>3. ASSUME NEW k \in 0 .. m
        PROVE  g[k] = IF k = 0 THEN base ELSE round(g[k - 1], k)
    <3>1. CASE k = m
      BY <2>2, <3>1
    <3>2. CASE k < m
      <4>1. f[k] = IF k = 0 THEN base ELSE round(f[k - 1], k)
        BY <2>1, <2>2, <3>2
      <4> QED
        BY <2>2, <3>2, <4>1
    <3> QED
      BY <2>2, <3>1, <3>2
  <2>4. g = rounds(g, m)
    BY <2>3
  <2> HIDE DEF rounds, g
  <2> QED
    BY <1>1, <2>4
<1>5. n \in P
  <2> HIDE DEF P
  <2>1. \A m \in 1 .. n : m - 1 \in P => m \in P
    BY <1>4
  <2>2. \A m \in 0 .. n : m \in P
    BY <1>1, <1>3, <2>1, Upward
  <2> QED
    BY <1>1, <2>2
<1> DEFINE f == CHOOSE f : f = rounds(f, n)
<1>6. f = rounds(f, n)
  <2>1. \E h : h = rounds(h, n)
    BY <1>5
  <2> HIDE DEF rounds
  <2> QED
    BY <2>1
<1> HIDE DEF f
<1>7. f[0] = base /\ \A k \in 1 .. n : f[k] = round(f[k - 1], k)
  BY <1>1, <1>6
<1>8. Without(list, s) = f[n]
  BY <1>2 DEF f
<1> QED
  BY <1>7, <1>8 DEF n, base, round

\* What of a list is not yet in another.
LEMMA NotYetInLoop ==
  ASSUME NEW list, NEW other, Len(list) \in Nat
  PROVE  \E f : /\ f[0] = <<>>
                /\ \A k \in 1 .. Len(list) : f[k] = IF list[k] \notin ToSet(other) THEN Append(f[k - 1], list[k]) ELSE f[k - 1]
                /\ NotYetIn(other, list) = f[Len(list)]
<1> DEFINE n == Len(list)
           base == <<>>
           round(acc, k) == IF list[k] \notin ToSet(other) THEN Append(acc, list[k]) ELSE acc
           rounds(f, m) == [k \in 0 .. m |-> IF k = 0 THEN base ELSE round(f[k - 1], k)]
           P == {m \in 0 .. n : \E f : f = rounds(f, m)}
<1>1. n \in Nat
  OBVIOUS
<1>2. NotYetIn(other, list) = (CHOOSE f : f = rounds(f, n))[n]
  BY DEF NotYetIn, Only, Loop
<1> HIDE DEF n, base, round
<1>3. 0 \in P
  <2> DEFINE g == [k \in 0 .. 0 |-> base]
  <2>1. g = rounds(g, 0)
    OBVIOUS
  <2> HIDE DEF rounds, g
  <2> QED
    BY <1>1, <2>1
<1>4. ASSUME NEW m \in 1 .. n, m - 1 \in P
      PROVE  m \in P
  <2>1. PICK f : f = rounds(f, m - 1)
    BY <1>4
  <2>2. m \in Nat /\ m - 1 \in Nat /\ DOMAIN f = 0 .. m - 1
    BY <1>1, <2>1
  <2> DEFINE g == [k \in 0 .. m |-> IF k < m THEN f[k] ELSE round(f[m - 1], m)]
  <2>3. ASSUME NEW k \in 0 .. m
        PROVE  g[k] = IF k = 0 THEN base ELSE round(g[k - 1], k)
    <3>1. CASE k = m
      BY <2>2, <3>1
    <3>2. CASE k < m
      <4>1. f[k] = IF k = 0 THEN base ELSE round(f[k - 1], k)
        BY <2>1, <2>2, <3>2
      <4> QED
        BY <2>2, <3>2, <4>1
    <3> QED
      BY <2>2, <3>1, <3>2
  <2>4. g = rounds(g, m)
    BY <2>3
  <2> HIDE DEF rounds, g
  <2> QED
    BY <1>1, <2>4
<1>5. n \in P
  <2> HIDE DEF P
  <2>1. \A m \in 1 .. n : m - 1 \in P => m \in P
    BY <1>4
  <2>2. \A m \in 0 .. n : m \in P
    BY <1>1, <1>3, <2>1, Upward
  <2> QED
    BY <1>1, <2>2
<1> DEFINE f == CHOOSE f : f = rounds(f, n)
<1>6. f = rounds(f, n)
  <2>1. \E h : h = rounds(h, n)
    BY <1>5
  <2> HIDE DEF rounds
  <2> QED
    BY <2>1
<1> HIDE DEF f
<1>7. f[0] = base /\ \A k \in 1 .. n : f[k] = round(f[k - 1], k)
  BY <1>1, <1>6
<1>8. NotYetIn(other, list) = f[n]
  BY <1>2 DEF f
<1> QED
  BY <1>7, <1>8 DEF n, base, round

\* The lengths a gap is divided into.
LEMMA ComposeRestsLoop ==
  ASSUME NEW gap
  PROVE  \E f : /\ f[0] = [left |-> gap - 2048 * Breves(gap), lens |-> [k \in 1 .. Breves(gap) |-> 2048]]
                /\ \A k \in 1 .. 9 : f[k] = Write(f[k - 1], k)
                /\ ComposeRests(gap) = f[9].lens
<1> DEFINE n == 9
           base == [left |-> gap - 2048 * Breves(gap), lens |-> [k \in 1 .. Breves(gap) |-> 2048]]
           round(acc, k) == Write(acc, k)
           rounds(f, m) == [k \in 0 .. m |-> IF k = 0 THEN base ELSE round(f[k - 1], k)]
           P == {m \in 0 .. n : \E f : f = rounds(f, m)}
<1>1. n \in Nat
  OBVIOUS
<1>2. ComposeRests(gap) = (CHOOSE f : f = rounds(f, n))[n].lens
  <2>1. Len(RestLengths) = n
    BY DEF RestLengths
  <2> HIDE DEF n
  <2> QED
    BY <2>1 DEF ComposeRests, Write, Breves, Loop
<1> HIDE DEF n, base, round
<1>3. 0 \in P
  <2> DEFINE g == [k \in 0 .. 0 |-> base]
  <2>1. g = rounds(g, 0)
    OBVIOUS
  <2> HIDE DEF rounds, g
  <2> QED
    BY <1>1, <2>1
<1>4. ASSUME NEW m \in 1 .. n, m - 1 \in P
      PROVE  m \in P
  <2>1. PICK f : f = rounds(f, m - 1)
    BY <1>4
  <2>2. m \in Nat /\ m - 1 \in Nat /\ DOMAIN f = 0 .. m - 1
    BY <1>1, <2>1
  <2> DEFINE g == [k \in 0 .. m |-> IF k < m THEN f[k] ELSE round(f[m - 1], m)]
  <2>3. ASSUME NEW k \in 0 .. m
        PROVE  g[k] = IF k = 0 THEN base ELSE round(g[k - 1], k)
    <3>1. CASE k = m
      BY <2>2, <3>1
    <3>2. CASE k < m
      <4>1. f[k] = IF k = 0 THEN base ELSE round(f[k - 1], k)
        BY <2>1, <2>2, <3>2
      <4> QED
        BY <2>2, <3>2, <4>1
    <3> QED
      BY <2>2, <3>1, <3>2
  <2>4. g = rounds(g, m)
    BY <2>3
  <2> HIDE DEF rounds, g
  <2> QED
    BY <1>1, <2>4
<1>5. n \in P
  <2> HIDE DEF P
  <2>1. \A m \in 1 .. n : m - 1 \in P => m \in P
    BY <1>4
  <2>2. \A m \in 0 .. n : m \in P
    BY <1>1, <1>3, <2>1, Upward
  <2> QED
    BY <1>1, <2>2
<1> DEFINE f == CHOOSE f : f = rounds(f, n)
<1>6. f = rounds(f, n)
  <2>1. \E h : h = rounds(h, n)
    BY <1>5
  <2> HIDE DEF rounds
  <2> QED
    BY <2>1
<1> HIDE DEF f
<1>7. f[0] = base /\ \A k \in 1 .. n : f[k] = round(f[k - 1], k)
  BY <1>1, <1>6
<1>8. ComposeRests(gap) = f[n].lens
  BY <1>2 DEF f
<1> QED
  BY <1>7, <1>8 DEF n, base, round

\* Rests are inserted one behind another.
LEMMA InsertRestsLoop ==
  ASSUME NEW sc, NEW v, NEW i, NEW lens, Len(lens) \in Nat
  PROVE  \E f : /\ f[0] = sc
                /\ \A k \in 1 .. Len(lens) : f[k] = InsertPlayable(f[k - 1], v, i + k - 1, "rest", lens[k])
                /\ InsertRests(sc, v, i, lens) = f[Len(lens)]
<1> DEFINE n == Len(lens)
           base == sc
           round(acc, k) == InsertPlayable(acc, v, i + k - 1, "rest", lens[k])
           rounds(f, m) == [k \in 0 .. m |-> IF k = 0 THEN base ELSE round(f[k - 1], k)]
           P == {m \in 0 .. n : \E f : f = rounds(f, m)}
<1>1. n \in Nat
  OBVIOUS
<1>2. InsertRests(sc, v, i, lens) = (CHOOSE f : f = rounds(f, n))[n]
  BY DEF InsertRests, Loop
<1> HIDE DEF n, base, round
<1>3. 0 \in P
  <2> DEFINE g == [k \in 0 .. 0 |-> base]
  <2>1. g = rounds(g, 0)
    OBVIOUS
  <2> HIDE DEF rounds, g
  <2> QED
    BY <1>1, <2>1
<1>4. ASSUME NEW m \in 1 .. n, m - 1 \in P
      PROVE  m \in P
  <2>1. PICK f : f = rounds(f, m - 1)
    BY <1>4
  <2>2. m \in Nat /\ m - 1 \in Nat /\ DOMAIN f = 0 .. m - 1
    BY <1>1, <2>1
  <2> DEFINE g == [k \in 0 .. m |-> IF k < m THEN f[k] ELSE round(f[m - 1], m)]
  <2>3. ASSUME NEW k \in 0 .. m
        PROVE  g[k] = IF k = 0 THEN base ELSE round(g[k - 1], k)
    <3>1. CASE k = m
      BY <2>2, <3>1
    <3>2. CASE k < m
      <4>1. f[k] = IF k = 0 THEN base ELSE round(f[k - 1], k)
        BY <2>1, <2>2, <3>2
      <4> QED
        BY <2>2, <3>2, <4>1
    <3> QED
      BY <2>2, <3>1, <3>2
  <2>4. g = rounds(g, m)
    BY <2>3
  <2> HIDE DEF rounds, g
  <2> QED
    BY <1>1, <2>4
<1>5. n \in P
  <2> HIDE DEF P
  <2>1. \A m \in 1 .. n : m - 1 \in P => m \in P
    BY <1>4
  <2>2. \A m \in 0 .. n : m \in P
    BY <1>1, <1>3, <2>1, Upward
  <2> QED
    BY <1>1, <2>2
<1> DEFINE f == CHOOSE f : f = rounds(f, n)
<1>6. f = rounds(f, n)
  <2>1. \E h : h = rounds(h, n)
    BY <1>5
  <2> HIDE DEF rounds
  <2> QED
    BY <2>1
<1> HIDE DEF f
<1>7. f[0] = base /\ \A k \in 1 .. n : f[k] = round(f[k - 1], k)
  BY <1>1, <1>6
<1>8. InsertRests(sc, v, i, lens) = f[n]
  BY <1>2 DEF f
<1> QED
  BY <1>7, <1>8 DEF n, base, round

\* Elements are removed from the last to the first.
LEMMA RemoveEachLoop ==
  ASSUME NEW sc, NEW v, NEW is, Len(sc.voices[v]) \in Nat
  PROVE  \E f : /\ f[0] = sc
                /\ \A k \in 1 .. Len(sc.voices[v]) : f[k] = RemoveOne(f[k - 1], v, is, Len(sc.voices[v]) + 1 - k)
                /\ RemoveEach(sc, v, is) = f[Len(sc.voices[v])]
<1> DEFINE n == Len(sc.voices[v])
           base == sc
           round(acc, k) == RemoveOne(acc, v, is, Len(sc.voices[v]) + 1 - k)
           rounds(f, m) == [k \in 0 .. m |-> IF k = 0 THEN base ELSE round(f[k - 1], k)]
           P == {m \in 0 .. n : \E f : f = rounds(f, m)}
<1>1. n \in Nat
  OBVIOUS
<1>2. RemoveEach(sc, v, is) = (CHOOSE f : f = rounds(f, n))[n]
  BY DEF RemoveEach, RemoveOne, Loop
<1> HIDE DEF n, base, round
<1>3. 0 \in P
  <2> DEFINE g == [k \in 0 .. 0 |-> base]
  <2>1. g = rounds(g, 0)
    OBVIOUS
  <2> HIDE DEF rounds, g
  <2> QED
    BY <1>1, <2>1
<1>4. ASSUME NEW m \in 1 .. n, m - 1 \in P
      PROVE  m \in P
  <2>1. PICK f : f = rounds(f, m - 1)
    BY <1>4
  <2>2. m \in Nat /\ m - 1 \in Nat /\ DOMAIN f = 0 .. m - 1
    BY <1>1, <2>1
  <2> DEFINE g == [k \in 0 .. m |-> IF k < m THEN f[k] ELSE round(f[m - 1], m)]
  <2>3. ASSUME NEW k \in 0 .. m
        PROVE  g[k] = IF k = 0 THEN base ELSE round(g[k - 1], k)
    <3>1. CASE k = m
      BY <2>2, <3>1
    <3>2. CASE k < m
      <4>1. f[k] = IF k = 0 THEN base ELSE round(f[k - 1], k)
        BY <2>1, <2>2, <3>2
      <4> QED
        BY <2>2, <3>2, <4>1
    <3> QED
      BY <2>2, <3>1, <3>2
  <2>4. g = rounds(g, m)
    BY <2>3
  <2> HIDE DEF rounds, g
  <2> QED
    BY <1>1, <2>4
<1>5. n \in P
  <2> HIDE DEF P
  <2>1. \A m \in 1 .. n : m - 1 \in P => m \in P
    BY <1>4
  <2>2. \A m \in 0 .. n : m \in P
    BY <1>1, <1>3, <2>1, Upward
  <2> QED
    BY <1>1, <2>2
<1> DEFINE f == CHOOSE f : f = rounds(f, n)
<1>6. f = rounds(f, n)
  <2>1. \E h : h = rounds(h, n)
    BY <1>5
  <2> HIDE DEF rounds
  <2> QED
    BY <2>1
<1> HIDE DEF f
<1>7. f[0] = base /\ \A k \in 1 .. n : f[k] = round(f[k - 1], k)
  BY <1>1, <1>6
<1>8. RemoveEach(sc, v, is) = f[n]
  BY <1>2 DEF f
<1> QED
  BY <1>7, <1>8 DEF n, base, round

\* Notes are added to a chord.
LEMMA AddTimesLoop ==
  ASSUME NEW sc, NEW v, NEW i, NEW count, count \in Nat
  PROVE  \E f : /\ f[0] = sc
                /\ \A k \in 1 .. count : f[k] = AddToChord(f[k - 1], v, i)
                /\ AddTimes(sc, v, i, count) = f[count]
<1> DEFINE n == count
           base == sc
           round(acc, k) == AddToChord(acc, v, i)
           rounds(f, m) == [k \in 0 .. m |-> IF k = 0 THEN base ELSE round(f[k - 1], k)]
           P == {m \in 0 .. n : \E f : f = rounds(f, m)}
<1>1. n \in Nat
  OBVIOUS
<1>2. AddTimes(sc, v, i, count) = (CHOOSE f : f = rounds(f, n))[n]
  BY DEF AddTimes, Loop
<1> HIDE DEF n, base, round
<1>3. 0 \in P
  <2> DEFINE g == [k \in 0 .. 0 |-> base]
  <2>1. g = rounds(g, 0)
    OBVIOUS
  <2> HIDE DEF rounds, g
  <2> QED
    BY <1>1, <2>1
<1>4. ASSUME NEW m \in 1 .. n, m - 1 \in P
      PROVE  m \in P
  <2>1. PICK f : f = rounds(f, m - 1)
    BY <1>4
  <2>2. m \in Nat /\ m - 1 \in Nat /\ DOMAIN f = 0 .. m - 1
    BY <1>1, <2>1
  <2> DEFINE g == [k \in 0 .. m |-> IF k < m THEN f[k] ELSE round(f[m - 1], m)]
  <2>3. ASSUME NEW k \in 0 .. m
        PROVE  g[k] = IF k = 0 THEN base ELSE round(g[k - 1], k)
    <3>1. CASE k = m
      BY <2>2, <3>1
    <3>2. CASE k < m
      <4>1. f[k] = IF k = 0 THEN base ELSE round(f[k - 1], k)
        BY <2>1, <2>2, <3>2
      <4> QED
        BY <2>2, <3>2, <4>1
    <3> QED
      BY <2>2, <3>1, <3>2
  <2>4. g = rounds(g, m)
    BY <2>3
  <2> HIDE DEF rounds, g
  <2> QED
    BY <1>1, <2>4
<1>5. n \in P
  <2> HIDE DEF P
  <2>1. \A m \in 1 .. n : m - 1 \in P => m \in P
    BY <1>4
  <2>2. \A m \in 0 .. n : m \in P
    BY <1>1, <1>3, <2>1, Upward
  <2> QED
    BY <1>1, <2>2
<1> DEFINE f == CHOOSE f : f = rounds(f, n)
<1>6. f = rounds(f, n)
  <2>1. \E h : h = rounds(h, n)
    BY <1>5
  <2> HIDE DEF rounds
  <2> QED
    BY <2>1
<1> HIDE DEF f
<1>7. f[0] = base /\ \A k \in 1 .. n : f[k] = round(f[k - 1], k)
  BY <1>1, <1>6
<1>8. AddTimes(sc, v, i, count) = f[n]
  BY <1>2 DEF f
<1> QED
  BY <1>7, <1>8 DEF n, base, round

\* Elements are removed at one position.
LEMMA RemoveTimesLoop ==
  ASSUME NEW sc, NEW v, NEW i, NEW signsToo, NEW count, count \in Nat
  PROVE  \E f : /\ f[0] = sc
                /\ \A k \in 1 .. count : f[k] = RemovePlayable(f[k - 1], v, i, signsToo)
                /\ RemoveTimes(sc, v, i, count, signsToo) = f[count]
<1> DEFINE n == count
           base == sc
           round(acc, k) == RemovePlayable(acc, v, i, signsToo)
           rounds(f, m) == [k \in 0 .. m |-> IF k = 0 THEN base ELSE round(f[k - 1], k)]
           P == {m \in 0 .. n : \E f : f = rounds(f, m)}
<1>1. n \in Nat
  OBVIOUS
<1>2. RemoveTimes(sc, v, i, count, signsToo) = (CHOOSE f : f = rounds(f, n))[n]
  BY DEF RemoveTimes, Loop
<1> HIDE DEF n, base, round
<1>3. 0 \in P
  <2> DEFINE g == [k \in 0 .. 0 |-> base]
  <2>1. g = rounds(g, 0)
    OBVIOUS
  <2> HIDE DEF rounds, g
  <2> QED
    BY <1>1, <2>1
<1>4. ASSUME NEW m \in 1 .. n, m - 1 \in P
      PROVE  m \in P
  <2>1. PICK f : f = rounds(f, m - 1)
    BY <1>4
  <2>2. m \in Nat /\ m - 1 \in Nat /\ DOMAIN f = 0 .. m - 1
    BY <1>1, <2>1
  <2> DEFINE g == [k \in 0 .. m |-> IF k < m THEN f[k] ELSE round(f[m - 1], m)]
  <2>3. ASSUME NEW k \in 0 .. m
        PROVE  g[k] = IF k = 0 THEN base ELSE round(g[k - 1], k)
    <3>1. CASE k = m
      BY <2>2, <3>1
    <3>2. CASE k < m
      <4>1. f[k] = IF k = 0 THEN base ELSE round(f[k - 1], k)
        BY <2>1, <2>2, <3>2
      <4> QED
        BY <2>2, <3>2, <4>1
    <3> QED
      BY <2>2, <3>1, <3>2
  <2>4. g = rounds(g, m)
    BY <2>3
  <2> HIDE DEF rounds, g
  <2> QED
    BY <1>1, <2>4
<1>5. n \in P
  <2> HIDE DEF P
  <2>1. \A m \in 1 .. n : m - 1 \in P => m \in P
    BY <1>4
  <2>2. \A m \in 0 .. n : m \in P
    BY <1>1, <1>3, <2>1, Upward
  <2> QED
    BY <1>1, <2>2
<1> DEFINE f == CHOOSE f : f = rounds(f, n)
<1>6. f = rounds(f, n)
  <2>1. \E h : h = rounds(h, n)
    BY <1>5
  <2> HIDE DEF rounds
  <2> QED
    BY <2>1
<1> HIDE DEF f
<1>7. f[0] = base /\ \A k \in 1 .. n : f[k] = round(f[k - 1], k)
  BY <1>1, <1>6
<1>8. RemoveTimes(sc, v, i, count, signsToo) = f[n]
  BY <1>2 DEF f
<1> QED
  BY <1>7, <1>8 DEF n, base, round

AddRounds(f, sc, v, i, n) ==
  /\ f[0] = sc
  /\ \A k \in 1 .. n : f[k] = AddToChord(f[k - 1], v, i)
  /\ AddTimes(sc, v, i, n) = f[n]

RemoveRounds(f, sc, v, i, n, signsToo) ==
  /\ f[0] = sc
  /\ \A k \in 1 .. n : f[k] = RemovePlayable(f[k - 1], v, i, signsToo)
  /\ RemoveTimes(sc, v, i, n, signsToo) = f[n]

LEMMA AddRoundsExist ==
  ASSUME NEW sc, NEW v, NEW i, NEW n, n \in Nat
  PROVE  \E f : AddRounds(f, sc, v, i, n)
BY AddTimesLoop DEF AddRounds

LEMMA RemoveRoundsExist ==
  ASSUME NEW sc, NEW v, NEW i, NEW signsToo, NEW n, n \in Nat
  PROVE  \E f : RemoveRounds(f, sc, v, i, n, signsToo)
<1>1. \E f : /\ f[0] = sc
             /\ \A k \in 1 .. n : f[k] = RemovePlayable(f[k - 1], v, i, signsToo)
             /\ RemoveTimes(sc, v, i, n, signsToo) = f[n]
  BY RemoveTimesLoop, Z3
<1> QED
  BY <1>1, Zenon DEF RemoveRounds

\* The voices are cut from the last to the first.
LEMMA CutOthersLoop ==
  ASSUME NEW sc, NEW v, NEW p, Len(sc.voices) \in Nat
  PROVE  \E f : /\ f[0] = Uncut(sc)
                /\ \A k \in 1 .. Len(sc.voices) : f[k] = CutOne(f[k - 1], v, p, Len(sc.voices) + 1 - k)
                /\ CutOthers(sc, v, p) = f[Len(sc.voices)].sc
<1> DEFINE n == Len(sc.voices)
           base == Uncut(sc)
           round(acc, k) == CutOne(acc, v, p, Len(sc.voices) + 1 - k)
           rounds(f, m) == [k \in 0 .. m |-> IF k = 0 THEN base ELSE round(f[k - 1], k)]
           P == {m \in 0 .. n : \E f : f = rounds(f, m)}
<1>1. n \in Nat
  OBVIOUS
<1>2. CutOthers(sc, v, p) = (CHOOSE f : f = rounds(f, n))[n].sc
  BY DEF CutOthers, CutOne, Uncut, Loop
<1> HIDE DEF n, base, round
<1>3. 0 \in P
  <2> DEFINE g == [k \in 0 .. 0 |-> base]
  <2>1. g = rounds(g, 0)
    OBVIOUS
  <2> HIDE DEF rounds, g
  <2> QED
    BY <1>1, <2>1
<1>4. ASSUME NEW m \in 1 .. n, m - 1 \in P
      PROVE  m \in P
  <2>1. PICK f : f = rounds(f, m - 1)
    BY <1>4
  <2>2. m \in Nat /\ m - 1 \in Nat /\ DOMAIN f = 0 .. m - 1
    BY <1>1, <2>1
  <2> DEFINE g == [k \in 0 .. m |-> IF k < m THEN f[k] ELSE round(f[m - 1], m)]
  <2>3. ASSUME NEW k \in 0 .. m
        PROVE  g[k] = IF k = 0 THEN base ELSE round(g[k - 1], k)
    <3>1. CASE k = m
      BY <2>2, <3>1
    <3>2. CASE k < m
      <4>1. f[k] = IF k = 0 THEN base ELSE round(f[k - 1], k)
        BY <2>1, <2>2, <3>2
      <4> QED
        BY <2>2, <3>2, <4>1
    <3> QED
      BY <2>2, <3>1, <3>2
  <2>4. g = rounds(g, m)
    BY <2>3
  <2> HIDE DEF rounds, g
  <2> QED
    BY <1>1, <2>4
<1>5. n \in P
  <2> HIDE DEF P
  <2>1. \A m \in 1 .. n : m - 1 \in P => m \in P
    BY <1>4
  <2>2. \A m \in 0 .. n : m \in P
    BY <1>1, <1>3, <2>1, Upward
  <2> QED
    BY <1>1, <2>2
<1> DEFINE f == CHOOSE f : f = rounds(f, n)
<1>6. f = rounds(f, n)
  <2>1. \E h : h = rounds(h, n)
    BY <1>5
  <2> HIDE DEF rounds
  <2> QED
    BY <2>1
<1> HIDE DEF f
<1>7. f[0] = base /\ \A k \in 1 .. n : f[k] = round(f[k - 1], k)
  BY <1>1, <1>6
<1>8. CutOthers(sc, v, p) = f[n].sc
  BY <1>2 DEF f
<1> QED
  BY <1>7, <1>8 DEF n, base, round

\* The shared signs are collected voice by voice.
LEMMA SharedSignsLoop ==
  ASSUME NEW p, Len(p.voices) \in Nat
  PROVE  \E f : /\ f[0] = <<>>
                /\ \A k \in 1 .. Len(p.voices) : f[k] = f[k - 1] \o NotYetIn(f[k - 1], SignsNext(p, k))
                /\ SharedSigns(p) = f[Len(p.voices)]
<1> DEFINE n == Len(p.voices)
           base == <<>>
           round(acc, k) == acc \o NotYetIn(acc, SignsNext(p, k))
           rounds(f, m) == [k \in 0 .. m |-> IF k = 0 THEN base ELSE round(f[k - 1], k)]
           P == {m \in 0 .. n : \E f : f = rounds(f, m)}
<1>1. n \in Nat
  OBVIOUS
<1>2. SharedSigns(p) = (CHOOSE f : f = rounds(f, n))[n]
  BY DEF SharedSigns, NotYetIn, Loop
<1> HIDE DEF n, base, round
<1>3. 0 \in P
  <2> DEFINE g == [k \in 0 .. 0 |-> base]
  <2>1. g = rounds(g, 0)
    OBVIOUS
  <2> HIDE DEF rounds, g
  <2> QED
    BY <1>1, <2>1
<1>4. ASSUME NEW m \in 1 .. n, m - 1 \in P
      PROVE  m \in P
  <2>1. PICK f : f = rounds(f, m - 1)
    BY <1>4
  <2>2. m \in Nat /\ m - 1 \in Nat /\ DOMAIN f = 0 .. m - 1
    BY <1>1, <2>1
  <2> DEFINE g == [k \in 0 .. m |-> IF k < m THEN f[k] ELSE round(f[m - 1], m)]
  <2>3. ASSUME NEW k \in 0 .. m
        PROVE  g[k] = IF k = 0 THEN base ELSE round(g[k - 1], k)
    <3>1. CASE k = m
      BY <2>2, <3>1
    <3>2. CASE k < m
      <4>1. f[k] = IF k = 0 THEN base ELSE round(f[k - 1], k)
        BY <2>1, <2>2, <3>2
      <4> QED
        BY <2>2, <3>2, <4>1
    <3> QED
      BY <2>2, <3>1, <3>2
  <2>4. g = rounds(g, m)
    BY <2>3
  <2> HIDE DEF rounds, g
  <2> QED
    BY <1>1, <2>4
<1>5. n \in P
  <2> HIDE DEF P
  <2>1. \A m \in 1 .. n : m - 1 \in P => m \in P
    BY <1>4
  <2>2. \A m \in 0 .. n : m \in P
    BY <1>1, <1>3, <2>1, Upward
  <2> QED
    BY <1>1, <2>2
<1> DEFINE f == CHOOSE f : f = rounds(f, n)
<1>6. f = rounds(f, n)
  <2>1. \E h : h = rounds(h, n)
    BY <1>5
  <2> HIDE DEF rounds
  <2> QED
    BY <2>1
<1> HIDE DEF f
<1>7. f[0] = base /\ \A k \in 1 .. n : f[k] = round(f[k - 1], k)
  BY <1>1, <1>6
<1>8. SharedSigns(p) = f[n]
  BY <1>2 DEF f
<1> QED
  BY <1>7, <1>8 DEF n, base, round

\* The signs of a voice are held against each voice.
LEMMA MovesOfLoop ==
  ASSUME NEW p, NEW v, NEW count, count \in Nat
  PROVE  \E f : /\ f[0] = p
                /\ \A k \in 1 .. count : f[k] = MoveSignBehind(f[k - 1], v, k)
                /\ MovesOf(p, v, count) = f[count]
<1> DEFINE n == count
           base == p
           round(acc, k) == MoveSignBehind(acc, v, k)
           rounds(f, m) == [k \in 0 .. m |-> IF k = 0 THEN base ELSE round(f[k - 1], k)]
           P == {m \in 0 .. n : \E f : f = rounds(f, m)}
<1>1. n \in Nat
  OBVIOUS
<1>2. MovesOf(p, v, count) = (CHOOSE f : f = rounds(f, n))[n]
  BY DEF MovesOf, Loop
<1> HIDE DEF n, base, round
<1>3. 0 \in P
  <2> DEFINE g == [k \in 0 .. 0 |-> base]
  <2>1. g = rounds(g, 0)
    OBVIOUS
  <2> HIDE DEF rounds, g
  <2> QED
    BY <1>1, <2>1
<1>4. ASSUME NEW m \in 1 .. n, m - 1 \in P
      PROVE  m \in P
  <2>1. PICK f : f = rounds(f, m - 1)
    BY <1>4
  <2>2. m \in Nat /\ m - 1 \in Nat /\ DOMAIN f = 0 .. m - 1
    BY <1>1, <2>1
  <2> DEFINE g == [k \in 0 .. m |-> IF k < m THEN f[k] ELSE round(f[m - 1], m)]
  <2>3. ASSUME NEW k \in 0 .. m
        PROVE  g[k] = IF k = 0 THEN base ELSE round(g[k - 1], k)
    <3>1. CASE k = m
      BY <2>2, <3>1
    <3>2. CASE k < m
      <4>1. f[k] = IF k = 0 THEN base ELSE round(f[k - 1], k)
        BY <2>1, <2>2, <3>2
      <4> QED
        BY <2>2, <3>2, <4>1
    <3> QED
      BY <2>2, <3>1, <3>2
  <2>4. g = rounds(g, m)
    BY <2>3
  <2> HIDE DEF rounds, g
  <2> QED
    BY <1>1, <2>4
<1>5. n \in P
  <2> HIDE DEF P
  <2>1. \A m \in 1 .. n : m - 1 \in P => m \in P
    BY <1>4
  <2>2. \A m \in 0 .. n : m \in P
    BY <1>1, <1>3, <2>1, Upward
  <2> QED
    BY <1>1, <2>2
<1> DEFINE f == CHOOSE f : f = rounds(f, n)
<1>6. f = rounds(f, n)
  <2>1. \E h : h = rounds(h, n)
    BY <1>5
  <2> HIDE DEF rounds
  <2> QED
    BY <2>1
<1> HIDE DEF f
<1>7. f[0] = base /\ \A k \in 1 .. n : f[k] = round(f[k - 1], k)
  BY <1>1, <1>6
<1>8. MovesOf(p, v, count) = f[n]
  BY <1>2 DEF f
<1> QED
  BY <1>7, <1>8 DEF n, base, round

MoveRounds(f, p, v, n) ==
  /\ f[0] = p
  /\ \A k \in 1 .. n : f[k] = MoveSignBehind(f[k - 1], v, k)
  /\ MovesOf(p, v, n) = f[n]

LEMMA MoveRoundsExist ==
  ASSUME NEW p, NEW v, NEW n, n \in Nat
  PROVE  \E f : MoveRounds(f, p, v, n)
BY MovesOfLoop, Z3 DEF MoveRounds

\* The signs of each voice are moved.
LEMMA MoveSignsLoop ==
  ASSUME NEW p, Len(p.voices) \in Nat
  PROVE  \E f : /\ f[0] = p
                /\ \A k \in 1 .. Len(p.voices) : f[k] = MovesOf(f[k - 1], k, Len(p.voices))
                /\ MoveSigns(p) = f[Len(p.voices)]
<1> DEFINE n == Len(p.voices)
           base == p
           round(acc, k) == MovesOf(acc, k, Len(p.voices))
           rounds(f, m) == [k \in 0 .. m |-> IF k = 0 THEN base ELSE round(f[k - 1], k)]
           P == {m \in 0 .. n : \E f : f = rounds(f, m)}
<1>1. n \in Nat
  OBVIOUS
<1>2. MoveSigns(p) = (CHOOSE f : f = rounds(f, n))[n]
  BY DEF MoveSigns, MovesOf, Loop
<1> HIDE DEF n, base, round
<1>3. 0 \in P
  <2> DEFINE g == [k \in 0 .. 0 |-> base]
  <2>1. g = rounds(g, 0)
    OBVIOUS
  <2> HIDE DEF rounds, g
  <2> QED
    BY <1>1, <2>1
<1>4. ASSUME NEW m \in 1 .. n, m - 1 \in P
      PROVE  m \in P
  <2>1. PICK f : f = rounds(f, m - 1)
    BY <1>4
  <2>2. m \in Nat /\ m - 1 \in Nat /\ DOMAIN f = 0 .. m - 1
    BY <1>1, <2>1
  <2> DEFINE g == [k \in 0 .. m |-> IF k < m THEN f[k] ELSE round(f[m - 1], m)]
  <2>3. ASSUME NEW k \in 0 .. m
        PROVE  g[k] = IF k = 0 THEN base ELSE round(g[k - 1], k)
    <3>1. CASE k = m
      BY <2>2, <3>1
    <3>2. CASE k < m
      <4>1. f[k] = IF k = 0 THEN base ELSE round(f[k - 1], k)
        BY <2>1, <2>2, <3>2
      <4> QED
        BY <2>2, <3>2, <4>1
    <3> QED
      BY <2>2, <3>1, <3>2
  <2>4. g = rounds(g, m)
    BY <2>3
  <2> HIDE DEF rounds, g
  <2> QED
    BY <1>1, <2>4
<1>5. n \in P
  <2> HIDE DEF P
  <2>1. \A m \in 1 .. n : m - 1 \in P => m \in P
    BY <1>4
  <2>2. \A m \in 0 .. n : m \in P
    BY <1>1, <1>3, <2>1, Upward
  <2> QED
    BY <1>1, <2>2
<1> DEFINE f == CHOOSE f : f = rounds(f, n)
<1>6. f = rounds(f, n)
  <2>1. \E h : h = rounds(h, n)
    BY <1>5
  <2> HIDE DEF rounds
  <2> QED
    BY <2>1
<1> HIDE DEF f
<1>7. f[0] = base /\ \A k \in 1 .. n : f[k] = round(f[k - 1], k)
  BY <1>1, <1>6
<1>8. MoveSigns(p) = f[n]
  BY <1>2 DEF f
<1> QED
  BY <1>7, <1>8 DEF n, base, round

\* The voices are filled one by one.
LEMMA FillVoicesLoop ==
  ASSUME NEW p, Len(p.voices) \in Nat
  PROVE  \E f : /\ f[0] = p
                /\ \A k \in 1 .. Len(p.voices) : f[k] = FillVoice(f[k - 1], k)
                /\ FillVoices(p) = f[Len(p.voices)]
<1> DEFINE n == Len(p.voices)
           base == p
           round(acc, k) == FillVoice(acc, k)
           rounds(f, m) == [k \in 0 .. m |-> IF k = 0 THEN base ELSE round(f[k - 1], k)]
           P == {m \in 0 .. n : \E f : f = rounds(f, m)}
<1>1. n \in Nat
  OBVIOUS
<1>2. FillVoices(p) = (CHOOSE f : f = rounds(f, n))[n]
  BY DEF FillVoices, Loop
<1> HIDE DEF n, base, round
<1>3. 0 \in P
  <2> DEFINE g == [k \in 0 .. 0 |-> base]
  <2>1. g = rounds(g, 0)
    OBVIOUS
  <2> HIDE DEF rounds, g
  <2> QED
    BY <1>1, <2>1
<1>4. ASSUME NEW m \in 1 .. n, m - 1 \in P
      PROVE  m \in P
  <2>1. PICK f : f = rounds(f, m - 1)
    BY <1>4
  <2>2. m \in Nat /\ m - 1 \in Nat /\ DOMAIN f = 0 .. m - 1
    BY <1>1, <2>1
  <2> DEFINE g == [k \in 0 .. m |-> IF k < m THEN f[k] ELSE round(f[m - 1], m)]
  <2>3. ASSUME NEW k \in 0 .. m
        PROVE  g[k] = IF k = 0 THEN base ELSE round(g[k - 1], k)
    <3>1. CASE k = m
      BY <2>2, <3>1
    <3>2. CASE k < m
      <4>1. f[k] = IF k = 0 THEN base ELSE round(f[k - 1], k)
        BY <2>1, <2>2, <3>2
      <4> QED
        BY <2>2, <3>2, <4>1
    <3> QED
      BY <2>2, <3>1, <3>2
  <2>4. g = rounds(g, m)
    BY <2>3
  <2> HIDE DEF rounds, g
  <2> QED
    BY <1>1, <2>4
<1>5. n \in P
  <2> HIDE DEF P
  <2>1. \A m \in 1 .. n : m - 1 \in P => m \in P
    BY <1>4
  <2>2. \A m \in 0 .. n : m \in P
    BY <1>1, <1>3, <2>1, Upward
  <2> QED
    BY <1>1, <2>2
<1> DEFINE f == CHOOSE f : f = rounds(f, n)
<1>6. f = rounds(f, n)
  <2>1. \E h : h = rounds(h, n)
    BY <1>5
  <2> HIDE DEF rounds
  <2> QED
    BY <2>1
<1> HIDE DEF f
<1>7. f[0] = base /\ \A k \in 1 .. n : f[k] = round(f[k - 1], k)
  BY <1>1, <1>6
<1>8. FillVoices(p) = f[n]
  BY <1>2 DEF f
<1> QED
  BY <1>7, <1>8 DEF n, base, round

\* The shortest time is found voice by voice.
LEMMA ShortestTimeLoop ==
  ASSUME NEW p, Len(p.voices) \in Nat
  PROVE  \E f : /\ f[0] = -1
                /\ \A k \in 1 .. Len(p.voices) : f[k] = IF HasNext(p, k) /\ (f[k - 1] = -1 \/ NextStart(p, k) - p.now < f[k - 1]) THEN NextStart(p, k) - p.now ELSE f[k - 1]
                /\ ShortestTime(p) = f[Len(p.voices)]
<1> DEFINE n == Len(p.voices)
           base == -1
           round(acc, k) == IF HasNext(p, k) /\ (acc = -1 \/ NextStart(p, k) - p.now < acc) THEN NextStart(p, k) - p.now ELSE acc
           rounds(f, m) == [k \in 0 .. m |-> IF k = 0 THEN base ELSE round(f[k - 1], k)]
           P == {m \in 0 .. n : \E f : f = rounds(f, m)}
<1>1. n \in Nat
  OBVIOUS
<1>2. ShortestTime(p) = (CHOOSE f : f = rounds(f, n))[n]
  BY DEF ShortestTime, Loop
<1> HIDE DEF n, base, round
<1>3. 0 \in P
  <2> DEFINE g == [k \in 0 .. 0 |-> base]
  <2>1. g = rounds(g, 0)
    OBVIOUS
  <2> HIDE DEF rounds, g
  <2> QED
    BY <1>1, <2>1
<1>4. ASSUME NEW m \in 1 .. n, m - 1 \in P
      PROVE  m \in P
  <2>1. PICK f : f = rounds(f, m - 1)
    BY <1>4
  <2>2. m \in Nat /\ m - 1 \in Nat /\ DOMAIN f = 0 .. m - 1
    BY <1>1, <2>1
  <2> DEFINE g == [k \in 0 .. m |-> IF k < m THEN f[k] ELSE round(f[m - 1], m)]
  <2>3. ASSUME NEW k \in 0 .. m
        PROVE  g[k] = IF k = 0 THEN base ELSE round(g[k - 1], k)
    <3>1. CASE k = m
      BY <2>2, <3>1
    <3>2. CASE k < m
      <4>1. f[k] = IF k = 0 THEN base ELSE round(f[k - 1], k)
        BY <2>1, <2>2, <3>2
      <4> QED
        BY <2>2, <3>2, <4>1
    <3> QED
      BY <2>2, <3>1, <3>2
  <2>4. g = rounds(g, m)
    BY <2>3
  <2> HIDE DEF rounds, g
  <2> QED
    BY <1>1, <2>4
<1>5. n \in P
  <2> HIDE DEF P
  <2>1. \A m \in 1 .. n : m - 1 \in P => m \in P
    BY <1>4
  <2>2. \A m \in 0 .. n : m \in P
    BY <1>1, <1>3, <2>1, Upward
  <2> QED
    BY <1>1, <2>2
<1> DEFINE f == CHOOSE f : f = rounds(f, n)
<1>6. f = rounds(f, n)
  <2>1. \E h : h = rounds(h, n)
    BY <1>5
  <2> HIDE DEF rounds
  <2> QED
    BY <2>1
<1> HIDE DEF f
<1>7. f[0] = base /\ \A k \in 1 .. n : f[k] = round(f[k - 1], k)
  BY <1>1, <1>6
<1>8. ShortestTime(p) = f[n]
  BY <1>2 DEF f
<1> QED
  BY <1>7, <1>8 DEF n, base, round

-----------------------------------------------------------------------------
(* What the loops over lists return *)

LEMMA TotalIs ==
  ASSUME NEW S, S = Nat \/ S = Times, NEW lens \in Seq(S)
  PROVE  Total(lens) \in S
<1>1. Len(lens) \in Nat /\ \A k \in 1 .. Len(lens) : lens[k] \in S
  OBVIOUS
<1>2. PICK f : /\ f[0] = 0
               /\ \A k \in 1 .. Len(lens) : f[k] = f[k - 1] + lens[k]
               /\ Total(lens) = f[Len(lens)]
  BY <1>1, TotalLoop
<1> DEFINE P == {k \in 0 .. Len(lens) : f[k] \in S}
<1>3. 0 \in P
  BY <1>1, <1>2, TimesAdd
<1>4. \A k \in 1 .. Len(lens) : k - 1 \in P => k \in P
  <2> SUFFICES ASSUME NEW k \in 1 .. Len(lens), k - 1 \in P PROVE k \in P
    OBVIOUS
  <2>1. f[k - 1] \in S /\ lens[k] \in S /\ f[k] = f[k - 1] + lens[k]
    BY <1>1, <1>2
  <2>2. f[k] \in S
    <3>1. CASE S = Nat
      BY <2>1, <3>1
    <3>2. CASE S = Times
      BY <2>1, <3>2, TimesAdd
    <3> QED
      BY <3>1, <3>2
  <2> QED
    BY <1>1, <2>2
<1> HIDE DEF P
<1>5. \A k \in 0 .. Len(lens) : k \in P
  BY <1>1, <1>3, <1>4, Upward
<1> QED
  BY <1>1, <1>2, <1>5 DEF P

\* If no number of a list is greater than that of another, its total is not
\* greater; it is less if one number is less.
LEMMA TotalGrows ==
  ASSUME NEW a \in Seq(Nat), NEW b \in Seq(Nat), Len(a) = Len(b),
         \A k \in 1 .. Len(a) : a[k] <= b[k]
  PROVE  /\ Total(a) <= Total(b)
         /\ (\E k \in 1 .. Len(a) : a[k] < b[k]) => Total(a) < Total(b)
<1>1. Len(a) \in Nat /\ \A k \in 1 .. Len(a) : a[k] \in Nat /\ b[k] \in Nat
  OBVIOUS
<1>2. PICK f : /\ f[0] = 0
               /\ \A k \in 1 .. Len(a) : f[k] = f[k - 1] + a[k]
               /\ Total(a) = f[Len(a)]
  BY <1>1, TotalLoop
<1>3. PICK g : /\ g[0] = 0
               /\ \A k \in 1 .. Len(a) : g[k] = g[k - 1] + b[k]
               /\ Total(b) = g[Len(a)]
  BY <1>1, TotalLoop
<1> DEFINE less(k) == \E j \in 1 .. k : a[j] < b[j]
           P == {k \in 0 .. Len(a) : /\ f[k] \in Nat /\ g[k] \in Nat /\ f[k] <= g[k]
                                     /\ less(k) => f[k] < g[k]}
<1>4. 0 \in P
  BY <1>1, <1>2, <1>3
<1>5. \A k \in 1 .. Len(a) : k - 1 \in P => k \in P
  <2> SUFFICES ASSUME NEW k \in 1 .. Len(a), k - 1 \in P PROVE k \in P
    OBVIOUS
  <2>1. /\ f[k - 1] \in Nat /\ g[k - 1] \in Nat /\ f[k - 1] <= g[k - 1]
        /\ less(k - 1) => f[k - 1] < g[k - 1]
    OBVIOUS
  <2>2. f[k] = f[k - 1] + a[k] /\ g[k] = g[k - 1] + b[k] /\ a[k] <= b[k]
    BY <1>2, <1>3
  <2>3. less(k) => less(k - 1) \/ a[k] < b[k]
    <3> SUFFICES ASSUME NEW j \in 1 .. k, a[j] < b[j] PROVE less(k - 1) \/ a[k] < b[k]
      OBVIOUS
    <3>1. CASE j = k
      BY <3>1
    <3>2. CASE j \in 1 .. k - 1
      BY <3>2
    <3> QED
      BY <1>1, <3>1, <3>2
  <2>4. a[k] \in Nat /\ b[k] \in Nat /\ k \in 0 .. Len(a)
    BY <1>1
  <2> HIDE DEF less
  <2> DEFINE fk == f[k]
             fl == f[k - 1]
             gk == g[k]
             gl == g[k - 1]
             ak == a[k]
             bk == b[k]
             lk == less(k)
             ll == less(k - 1)
             ab == a[k] < b[k]
  <2>7. fl \in Nat /\ gl \in Nat /\ fl <= gl /\ (ll => fl < gl)
    BY <2>1
  <2>8. fk = fl + ak /\ gk = gl + bk /\ ak <= bk /\ ak \in Nat /\ bk \in Nat
    BY <2>2, <2>4
  <2>9. (lk => ll \/ ab) /\ (ab => ak < bk)
    BY <2>3
  <2> HIDE DEF fk, fl, gk, gl, ak, bk, lk, ll, ab
  <2>10. fk \in Nat /\ gk \in Nat /\ fk <= gk
    BY <2>7, <2>8
  <2>11. ll \/ ab => fk < gk
    <3>1. CASE ll
      BY <3>1, <2>7, <2>8
    <3>2. CASE ab
      BY <3>2, <2>7, <2>8, <2>9
    <3> QED
      BY <3>1, <3>2
  <2>5. f[k] \in Nat /\ g[k] \in Nat /\ f[k] <= g[k]
    BY <2>10 DEF fk, gk
  <2>6. less(k) => f[k] < g[k]
    BY <2>9, <2>11 DEF fk, gk, lk
  <2> QED
    BY <2>4, <2>5, <2>6
<1> HIDE DEF P
<1>6. \A k \in 0 .. Len(a) : k \in P
  BY <1>1, <1>4, <1>5, Upward
<1>7. Len(a) \in P
  BY <1>1, <1>6
<1> QED
  BY <1>1, <1>2, <1>3, <1>7 DEF P

LEMMA RestLengthsAre ==
  \A k \in 1 .. 9 : RestLengths[k] \in Lens /\ RestLengths[k] \in Nat
BY DEF RestLengths, Lens

\* CARest::composeRests writes lengths of rests, whatever the gap is.
LEMMA ComposeRestsIs ==
  ASSUME NEW gap \in Int
  PROVE  ComposeRests(gap) \in Seq(Lens)
<1> DEFINE states == [left : Int, lens : Seq(Lens)]
           base == [left |-> gap - 2048 * Breves(gap), lens |-> [k \in 1 .. Breves(gap) |-> 2048]]
<1>1. PICK f : /\ f[0] = base
               /\ \A k \in 1 .. 9 : f[k] = Write(f[k - 1], k)
               /\ ComposeRests(gap) = f[9].lens
  BY ComposeRestsLoop
<1>2. base \in states
  <2>1. Breves(gap) \in Nat
    BY DEF Breves
  <2>2. [k \in 1 .. Breves(gap) |-> 2048] \in [1 .. Breves(gap) -> Lens]
    BY DEF Lens
  <2>3. [k \in 1 .. Breves(gap) |-> 2048] \in Seq(Lens)
    BY <2>1, <2>2, IsSequence
  <2>4. gap - 2048 * Breves(gap) \in Int
    BY <2>1
  <2> QED
    BY <2>3, <2>4
<1> HIDE DEF base
<1> DEFINE P == {k \in 0 .. 9 : f[k] \in states}
<1>3. 0 \in P
  BY <1>1, <1>2
<1>4. \A k \in 1 .. 9 : k - 1 \in P => k \in P
  <2> SUFFICES ASSUME NEW k \in 1 .. 9, k - 1 \in P PROVE k \in P
    OBVIOUS
  <2>1. f[k - 1].left \in Int /\ f[k - 1].lens \in Seq(Lens) /\ f[k - 1] \in states
    OBVIOUS
  <2>2. RestLengths[k] \in Nat /\ RestLengths[k] \in Lens
    BY RestLengthsAre, Zenon
  <2>3. Append(f[k - 1].lens, RestLengths[k]) \in Seq(Lens)
    BY <2>1, <2>2
  <2>4. Write(f[k - 1], k) \in states
    BY <2>1, <2>2, <2>3 DEF Write
  <2>5. f[k] = Write(f[k - 1], k)
    BY <1>1
  <2> HIDE DEF states
  <2> QED
    BY <2>4, <2>5
<1> HIDE DEF P
<1>5. \A k \in 0 .. 9 : k \in P
  BY <1>3, <1>4, Upward
<1>6. f[9] \in states
  BY <1>5 DEF P
<1> QED
  BY <1>1, <1>6

LEMMA WithoutIs ==
  ASSUME NEW list \in Lists, NEW s
  PROVE  Without(list, s) \in Lists
<1>1. Len(list) \in Nat /\ \A k \in 1 .. Len(list) : list[k] \in Elements
  BY DEF Lists
<1>2. PICK f : /\ f[0] = <<>>
               /\ \A k \in 1 .. Len(list) :
                    f[k] = IF list[k] # Sign(s) THEN Append(f[k - 1], list[k]) ELSE f[k - 1]
               /\ Without(list, s) = f[Len(list)]
  BY <1>1, WithoutLoop
<1> DEFINE P == {k \in 0 .. Len(list) : f[k] \in Lists}
<1>3. 0 \in P
  <2>1. <<>> \in Lists /\ 0 \in 0 .. Len(list)
    BY <1>1 DEF Lists
  <2> QED
    BY <1>2, <2>1
<1>4. \A k \in 1 .. Len(list) : k - 1 \in P => k \in P
  <2> SUFFICES ASSUME NEW k \in 1 .. Len(list), k - 1 \in P PROVE k \in P
    OBVIOUS
  <2>1. f[k - 1] \in Lists /\ list[k] \in Elements
    BY <1>1
  <2>2. Append(f[k - 1], list[k]) \in Lists
    BY <2>1 DEF Lists
  <2> QED
    BY <1>1, <1>2, <2>1, <2>2
<1> HIDE DEF P
<1>5. \A k \in 0 .. Len(list) : k \in P
  BY <1>1, <1>3, <1>4, Upward
<1> QED
  BY <1>1, <1>2, <1>5 DEF P

LEMMA NotYetInIs ==
  ASSUME NEW S, NEW list \in Seq(S), NEW other
  PROVE  /\ NotYetIn(other, list) \in Seq(S)
         /\ other = <<>> => NotYetIn(other, list) = list
<1>1. Len(list) \in Nat /\ \A k \in 1 .. Len(list) : list[k] \in S
  OBVIOUS
<1>2. PICK f : /\ f[0] = <<>>
               /\ \A k \in 1 .. Len(list) :
                    f[k] = IF list[k] \notin ToSet(other) THEN Append(f[k - 1], list[k]) ELSE f[k - 1]
               /\ NotYetIn(other, list) = f[Len(list)]
  BY <1>1, NotYetInLoop
<1> DEFINE P == {k \in 0 .. Len(list) :
                   /\ f[k] \in Seq(S)
                   /\ other = <<>> => Len(f[k]) = k /\ \A j \in 1 .. k : f[k][j] = list[j]}
<1>3. 0 \in P
  <2>1. <<>> \in Seq(S) /\ Len(<<>>) = 0 /\ 0 \in 0 .. Len(list) /\ 1 .. 0 = {}
    BY <1>1
  <2> QED
    BY <1>2, <2>1
<1>4. \A k \in 1 .. Len(list) : k - 1 \in P => k \in P
  <2> SUFFICES ASSUME NEW k \in 1 .. Len(list), k - 1 \in P PROVE k \in P
    OBVIOUS
  <2>1. /\ f[k - 1] \in Seq(S) /\ list[k] \in S
        /\ other = <<>> => Len(f[k - 1]) = k - 1 /\ \A j \in 1 .. k - 1 : f[k - 1][j] = list[j]
    BY <1>1
  <2>2. f[k] = IF list[k] \notin ToSet(other) THEN Append(f[k - 1], list[k]) ELSE f[k - 1]
    BY <1>2
  <2>3. f[k] \in Seq(S)
    BY <2>1, <2>2
  <2>4. ASSUME other = <<>>
        PROVE  Len(f[k]) = k /\ \A j \in 1 .. k : f[k][j] = list[j]
    <3>1. f[k] = Append(f[k - 1], list[k])
      BY <2>2, <2>4 DEF ToSet
    <3> QED
      BY <1>1, <2>1, <2>4, <3>1
  <2> QED
    BY <1>1, <2>3, <2>4
<1> HIDE DEF P
<1>5. \A k \in 0 .. Len(list) : k \in P
  BY <1>1, <1>3, <1>4, Upward
<1>6. Len(list) \in P
  BY <1>1, <1>5
<1> QED
  BY <1>1, <1>2, <1>6 DEF P

-----------------------------------------------------------------------------
(* The operations of CAVoice *)

\* Voice v alone has another list.
OnlyVoice(sc, r, v) ==
  Alike(sc, r) /\ \A w \in DOMAIN sc.voices : w # v => r.voices[w] = sc.voices[w]

\* A playable more at i; what was playable before it and from it on still is.
Inserted(sc, r, v, i) ==
  LET old == sc.voices[v]
      new == r.voices[v]
  IN  /\ OnlyVoice(sc, r, v)
      /\ Len(new) = Len(old) + 1
      /\ ~IsSign(new[i])
      /\ \A k \in 1 .. i - 1 : ~IsSign(old[k]) => ~IsSign(new[k])
      /\ \A k \in i .. Len(old) : ~IsSign(old[k]) => ~IsSign(new[k + 1])

\* The element at i is gone.
Removed(sc, r, v, i) ==
  LET old == sc.voices[v]
      new == r.voices[v]
  IN  /\ OnlyVoice(sc, r, v)
      /\ Len(new) = Len(old) - 1
      /\ \A k \in 1 .. i - 1 : ~IsSign(old[k]) => ~IsSign(new[k])
      /\ \A k \in i + 1 .. Len(old) : ~IsSign(old[k]) => ~IsSign(new[k - 1])

LEMMA OnlyVoiceTrans ==
  ASSUME NEW a \in Scores \cup Passes, NEW b, NEW c, NEW v,
         OnlyVoice(a, b, v), OnlyVoice(b, c, v)
  PROVE  OnlyVoice(a, c, v)
<1>1. Alike(a, c) /\ DOMAIN b.voices = DOMAIN a.voices
  BY AlikeTrans, AlikeIn DEF OnlyVoice
<1> QED
  BY <1>1 DEF OnlyVoice

LEMMA OnlyVoiceIn ==
  ASSUME NEW sc \in Scores, NEW r, NEW v \in DOMAIN sc.voices, OnlyVoice(sc, r, v)
  PROVE  r \in Scores /\ DOMAIN r.voices = DOMAIN sc.voices /\ v \in DOMAIN r.voices
<1>1. Alike(sc, r) /\ sc \in Scores \cup Passes
  BY DEF OnlyVoice
<1>2. DOMAIN r.voices = DOMAIN sc.voices
  BY <1>1, AlikeIn
<1> QED
  BY <1>1, <1>2 DEF Alike

LEMMA OnlyVoiceSelf ==
  ASSUME NEW sc \in Scores \cup Passes, NEW v
  PROVE  OnlyVoice(sc, sc, v)
BY AlikeSelf DEF OnlyVoice

LEMMA ChordAtIs ==
  ASSUME NEW sc \in Scores \cup Passes, NEW v \in DOMAIN sc.voices,
         NEW i \in 1 .. Len(sc.voices[v]), IsNote(sc.voices[v][i])
  PROVE  /\ ChordAt(sc, v, i) \in SUBSET (1 .. Len(sc.voices[v]))
         /\ i \in ChordAt(sc, v, i)
         /\ \A j \in ChordAt(sc, v, i) : IsNote(sc.voices[v][j])
         /\ \A j \in ChordAt(sc, v, i) : j <= i => \A k \in j .. i : IsNote(sc.voices[v][k])
         /\ \A j \in ChordAt(sc, v, i) : j >= i => \A k \in i .. j : IsNote(sc.voices[v][k])
<1> DEFINE list == sc.voices[v]
           with(j) == \A k \in Min({i, j}) .. Max({i, j}) :
                         IsNote(list[k]) /\ list[k].start = list[i].start
<1>1. Len(list) \in Nat /\ DOMAIN list = 1 .. Len(list)
  BY VoiceIs
<1>2. ChordAt(sc, v, i) = {j \in 1 .. Len(list) : with(j)}
  BY <1>1 DEF ChordAt
<1>3. ASSUME NEW j \in 1 .. Len(list), j <= i
      PROVE  Min({i, j}) = j /\ Max({i, j}) = i
  <2>1. i \in Nat /\ j \in Nat /\ j <= i
    BY <1>1, <1>3
  <2> HIDE DEF list
  <2> QED
    BY <2>1, MinMaxOfTwo
<1>4. ASSUME NEW j \in 1 .. Len(list), j >= i
      PROVE  Min({i, j}) = i /\ Max({i, j}) = j
  <2> HIDE DEF list
  <2>a. i \in Nat /\ j \in Nat /\ i <= j
    BY <1>1, <1>4
  <2>1. Min({j, i}) = i /\ Max({j, i}) = j
    BY <2>a, MinMaxOfTwo
  <2>2. {i, j} = {j, i}
    OBVIOUS
  <2> QED
    BY <2>1, <2>2
<1>5. with(i)
  BY <1>1, <1>3
<1>6. ASSUME NEW j \in ChordAt(sc, v, i)
      PROVE  /\ IsNote(list[j])
             /\ j <= i => \A k \in j .. i : IsNote(list[k])
             /\ j >= i => \A k \in i .. j : IsNote(list[k])
  <2>1. j \in 1 .. Len(list) /\ with(j)
    BY <1>2
  <2>2. j <= i => \A k \in j .. i : IsNote(list[k])
    BY <1>3, <2>1
  <2>3. j >= i => \A k \in i .. j : IsNote(list[k])
    BY <1>1, <1>4, <2>1
  <2> QED
    BY <1>1, <2>1, <2>2, <2>3
<1> QED
  BY <1>1, <1>2, <1>5, <1>6

\* From the front of a chord on there are notes.
LEMMA FrontOfChordIs ==
  ASSUME NEW sc \in Scores \cup Passes, NEW v \in DOMAIN sc.voices,
         NEW i \in 1 .. Len(sc.voices[v]) + 1
  PROVE  /\ FrontOfChord(sc, v, i) \in 1 .. i
         /\ FrontOfChord(sc, v, i) # i =>
              /\ i <= Len(sc.voices[v])
              /\ \A k \in FrontOfChord(sc, v, i) .. i : IsNote(sc.voices[v][k])
<1> DEFINE list == sc.voices[v]
           chord == ChordAt(sc, v, i)
<1>1. Len(list) \in Nat /\ DOMAIN list = 1 .. Len(list)
  BY VoiceIs
<1>2. CASE i \in DOMAIN list /\ IsNote(list[i])
  <2>1. FrontOfChord(sc, v, i) = Min(chord)
    BY <1>2 DEF FrontOfChord
  <2>2. /\ chord \in SUBSET (1 .. Len(list)) /\ i \in chord
        /\ \A j \in chord : j <= i => \A k \in j .. i : IsNote(list[k])
    BY <1>1, <1>2, ChordAtIs
  <2> HIDE DEF chord
  <2>3. chord \in SUBSET Nat /\ chord # {}
    BY <2>2
  <2>4. Min(chord) \in chord /\ Min(chord) <= i
    BY <2>2, <2>3, MinIs
  <2> QED
    BY <1>1, <1>2, <2>1, <2>2, <2>4
<1>3. CASE ~(i \in DOMAIN list /\ IsNote(list[i]))
  BY <1>1, <1>3 DEF FrontOfChord
<1> QED
  BY <1>2, <1>3

LEMMA TimeBeforeIs ==
  ASSUME NEW sc \in Scores \cup Passes, NEW v \in DOMAIN sc.voices, NEW i
  PROVE  TimeBefore(sc, v, i) \in Times
<1>1. CASE i \in DOMAIN sc.voices[v]
  BY <1>1, VoiceIs, StartIs DEF TimeBefore
<1>2. CASE i \notin DOMAIN sc.voices[v]
  BY <1>2, LastTimeEndIs DEF TimeBefore
<1> QED
  BY <1>1, <1>2

LEMMA InsertElementIs ==
  ASSUME NEW sc \in Scores \cup Passes, NEW v \in DOMAIN sc.voices,
         NEW i \in 1 .. Len(sc.voices[v]) + 1, NEW e \in Elements
  PROVE  LET r == InsertElement(sc, v, i, e)
         IN  /\ OnlyVoice(sc, r, v)
             /\ r.at = sc.at
             /\ r.voices[v] = InsertAt(sc.voices[v], i, e)
             /\ Len(r.voices[v]) = Len(sc.voices[v]) + 1
             /\ \A j \in 1 .. Len(sc.voices[v]) + 1 :
                  r.voices[v][j] = IF j < i THEN sc.voices[v][j]
                                   ELSE IF j = i THEN e ELSE sc.voices[v][j - 1]
<1> DEFINE list == sc.voices[v]
           new == InsertAt(list, i, e)
<1>1. list \in Seq(Elements)
  BY VoiceIs DEF Lists
<1>2. /\ new \in Seq(Elements) /\ Len(new) = Len(list) + 1
      /\ \A j \in 1 .. Len(list) + 1 :
           new[j] = IF j < i THEN list[j] ELSE IF j = i THEN e ELSE list[j - 1]
  <2>1. i \in 1 .. Len(list) + 1
    OBVIOUS
  <2> DEFINE S == Elements
             pos == i
             one == e
  <2>2. list \in Seq(S) /\ pos \in 1 .. Len(list) + 1 /\ one \in S
    BY <1>1, <2>1
  <2> HIDE DEF list, S, pos, one
  <2>3. /\ InsertAt(list, pos, one) \in Seq(S)
        /\ Len(InsertAt(list, pos, one)) = Len(list) + 1
    BY <2>2, WithOne
  <2>5. ASSUME NEW j \in 1 .. Len(list) + 1
        PROVE  InsertAt(list, pos, one)[j] = IF j < pos THEN list[j]
                                            ELSE IF j = pos THEN one ELSE list[j - 1]
    BY <2>2, <2>5, WithOneAt
  <2>4. /\ InsertAt(list, i, e) \in Seq(Elements) /\ Len(InsertAt(list, i, e)) = Len(list) + 1
        /\ \A j \in 1 .. Len(list) + 1 :
             InsertAt(list, i, e)[j] = IF j < i THEN list[j] ELSE IF j = i THEN e ELSE list[j - 1]
    BY <2>3, <2>5 DEF S, pos, one
  <2> QED
    BY <2>4
<1> HIDE DEF new
<1>3. InsertElement(sc, v, i, e) = WithList(sc, v, new)
  BY DEF InsertElement, new
<1>4. sc.voices \in Seq(Lists)
  BY ScoreIs
<1>5. /\ WithList(sc, v, new).voices = [sc.voices EXCEPT ![v] = new]
      /\ WithList(sc, v, new).at = sc.at
      /\ Alike(sc, WithList(sc, v, new))
  BY <1>2, WithListIs DEF Lists
<1> QED
  BY <1>2, <1>3, <1>4, <1>5 DEF OnlyVoice, new

\* CAVoice::insert of a playable.
LEMMA InsertPlayableIs ==
  ASSUME NEW sc \in Scores, NEW v \in DOMAIN sc.voices,
         NEW i \in 1 .. Len(sc.voices[v]) + 1,
         NEW kind \in {"note", "rest"}, NEW len \in Lens
  PROVE  Inserted(sc, InsertPlayable(sc, v, i, kind, len), v, i)
<1> DEFINE list == sc.voices[v]
           j == FrontOfChord(sc, v, i)
           e == Playable(kind, TimeBefore(sc, v, j), len)
           s == InsertElement(sc, v, j, e)
           r == UpdateTimes(s, v, j + 1, len, TRUE)
<1>0. sc \in Scores \cup Passes
  OBVIOUS
<1>1. /\ j \in 1 .. i
      /\ j # i => i <= Len(list) /\ \A k \in j .. i : IsNote(list[k])
  BY <1>0, FrontOfChordIs
<1>2. e \in Elements /\ ~IsSign(e)
  BY <1>0, TimeBeforeIs, PlayableIs
<1>3. Len(list) \in Nat /\ list \in Lists /\ \A k \in 1 .. Len(list) : list[k] \in Elements
  BY <1>0, VoiceIs
<1>4. len \in Times
  BY LensAreTimes
<1>5. InsertPlayable(sc, v, i, kind, len) = r
  BY DEF InsertPlayable
<1> HIDE DEF j, e
<1>6. j \in 1 .. Len(list) + 1
  BY <1>1, <1>3
<1>7. /\ OnlyVoice(sc, s, v)
      /\ Len(s.voices[v]) = Len(list) + 1
      /\ \A k \in 1 .. Len(list) + 1 :
           s.voices[v][k] = IF k < j THEN list[k] ELSE IF k = j THEN e ELSE list[k - 1]
  BY <1>0, <1>2, <1>6, InsertElementIs
<1> HIDE DEF s
<1>8. s \in Scores /\ v \in DOMAIN s.voices
  BY <1>7, OnlyVoiceIn
<1>9. s \in Scores \cup Passes /\ s.voices[v] \in Lists /\ j + 1 \in Int /\ TRUE \in BOOLEAN
  BY <1>1, <1>8, VoiceIs
<1>10. /\ Alike(s, r)
       /\ r.voices = [s.voices EXCEPT ![v] = Later(s.voices[v], j + 1, len)]
  <2> DEFINE yes == TRUE
             from == j + 1
  <2>1. from \in Int /\ yes \in BOOLEAN
    BY <1>9
  <2> HIDE DEF yes, from, j
  <2>2. /\ Alike(s, UpdateTimes(s, v, from, len, yes))
        /\ UpdateTimes(s, v, from, len, yes).voices
             = [s.voices EXCEPT ![v] = Later(s.voices[v], from, len)]
    BY <1>4, <1>8, <1>9, <2>1, UpdateTimesIs
  <2> QED
    BY <2>2 DEF yes, from
<1> HIDE DEF r
<1>11. OnlyVoice(s, r, v)
  BY <1>8, <1>10 DEF OnlyVoice
<1>12. OnlyVoice(sc, r, v)
  BY <1>0, <1>7, <1>11, OnlyVoiceTrans
<1> DEFINE new == r.voices[v]
<1>13. new = Later(s.voices[v], j + 1, len)
  BY <1>8, <1>10, ScoreIs
<1>14. /\ Len(new) = Len(list) + 1
       /\ \A k \in 1 .. Len(list) + 1 :
            new[k] = IF k >= j + 1 THEN Moved(s.voices[v][k], len) ELSE s.voices[v][k]
  BY <1>4, <1>7, <1>9, <1>13, LaterIs
<1> HIDE DEF new
<1>15. ASSUME NEW k \in 1 .. Len(list) + 1
       PROVE  IsSign(new[k]) <=> IsSign(s.voices[v][k])
  <2>1. s.voices[v][k] \in Elements
    BY <1>7, <1>8, <1>9, VoiceIs
  <2> QED
    BY <1>4, <1>14, <2>1, MovedIs
<1>16. ~IsSign(new[i])
  <2>1. i \in 1 .. Len(list) + 1
    OBVIOUS
  <2>2. CASE j = i
    BY <1>2, <1>7, <1>15, <2>1, <2>2
  <2>3. CASE j # i
    <3>1. s.voices[v][i] = list[i - 1] /\ IsNote(list[i - 1]) /\ i - 1 \in 1 .. Len(list)
      BY <1>1, <1>3, <1>7, <2>1, <2>3
    <3>2. ~IsSign(list[i - 1])
      BY <1>3, <3>1, ElementIs
    <3> QED
      BY <1>15, <2>1, <3>1, <3>2
  <2> QED
    BY <2>2, <2>3
<1>17. ASSUME NEW k \in 1 .. i - 1, ~IsSign(list[k])
       PROVE  ~IsSign(new[k])
  <2>1. k \in 1 .. Len(list) + 1 /\ k \in 1 .. Len(list) /\ k < i
    BY <1>3
  <2>2. CASE k < j
    BY <1>7, <1>15, <1>17, <2>1, <2>2
  <2>3. CASE k = j
    BY <1>2, <1>7, <1>15, <2>1, <2>3
  <2>4. CASE k > j
    <3>0. k - 1 \in 1 .. Len(list) /\ k - 1 \in j .. i - 1 /\ k \in j + 1 .. i
      BY <1>1, <1>3, <1>7, <2>1, <2>4
    <3>1. s.voices[v][k] = list[k - 1] /\ IsNote(list[k - 1]) /\ k - 1 \in 1 .. Len(list)
      BY <1>1, <1>3, <1>7, <2>1, <2>4, <3>0, SMTT(60)
    <3>2. ~IsSign(list[k - 1])
      BY <1>3, <3>1, ElementIs
    <3> QED
      BY <1>15, <2>1, <3>1, <3>2
  <2> QED
    BY <1>1, <2>2, <2>3, <2>4
<1>18. ASSUME NEW k \in i .. Len(list), ~IsSign(list[k])
       PROVE  ~IsSign(new[k + 1])
  <2>1. k + 1 \in 1 .. Len(list) + 1 /\ k + 1 > j /\ (k + 1) - 1 = k
    BY <1>1, <1>3
  <2>2. s.voices[v][k + 1] = list[k]
    BY <1>1, <1>7, <2>1
  <2> QED
    BY <1>15, <1>18, <2>1, <2>2
<1> QED
  BY <1>5, <1>12, <1>14, <1>16, <1>17, <1>18 DEF Inserted, new

\* CAVoice::remove of a playable.
LEMMA RemovePlayableIs ==
  ASSUME NEW sc \in Scores, NEW v \in DOMAIN sc.voices,
         NEW i \in 1 .. Len(sc.voices[v]), ~IsSign(sc.voices[v][i]), NEW signsToo \in BOOLEAN
  PROVE  Removed(sc, RemovePlayable(sc, v, i, signsToo), v, i)
<1> DEFINE list == sc.voices[v]
           e == list[i]
           later == UpdateTimes(sc, v, i + 1, -e.len, signsToo)
           moved == IF IsNote(e) /\ Cardinality(ChordAt(sc, v, i)) > 1 THEN sc ELSE later
<1>0. sc \in Scores \cup Passes
  OBVIOUS
<1>1. /\ Len(list) \in Nat /\ list \in Lists /\ e \in Elements
      /\ \A k \in 1 .. Len(list) : list[k] \in Elements
  BY <1>0, VoiceIs
<1>2. -e.len \in Times /\ i + 1 \in Int
  <2>1. e.len \in Lens
    BY <1>1, ElementIs
  <2>2. e.len \in Times
    BY <2>1, LensAreTimes
  <2> HIDE DEF e
  <2> QED
    BY <2>2, TimesAdd
<1>3. RemovePlayable(sc, v, i, signsToo) = WithList(moved, v, RemoveAt(moved.voices[v], i))
  BY DEF RemovePlayable
<1>4. /\ Alike(sc, later)
      /\ later.voices = [sc.voices EXCEPT ![v] = Later(list, i + 1, -e.len)]
  BY <1>0, <1>2, UpdateTimesIs
<1> HIDE DEF later
<1>5. sc.voices \in Seq(Lists)
  BY <1>0, ScoreIs
<1>6. /\ OnlyVoice(sc, moved, v) /\ Len(moved.voices[v]) = Len(list)
      /\ \A k \in 1 .. Len(list) : IsSign(moved.voices[v][k]) <=> IsSign(list[k])
  <2>1. CASE moved = sc
    BY <1>0, <2>1, OnlyVoiceSelf
  <2>2. CASE moved = later
    <3> DEFINE new == Later(list, i + 1, -e.len)
    <3>1. OnlyVoice(sc, later, v) /\ later.voices[v] = new
      BY <1>4, <1>5 DEF OnlyVoice
    <3>2. /\ Len(new) = Len(list)
          /\ \A k \in 1 .. Len(list) :
               new[k] = IF k >= i + 1 THEN Moved(list[k], -e.len) ELSE list[k]
      BY <1>1, <1>2, LaterIs
    <3> HIDE DEF new
    <3>3. \A k \in 1 .. Len(list) : IsSign(new[k]) <=> IsSign(list[k])
      <4> SUFFICES ASSUME NEW k \in 1 .. Len(list) PROVE IsSign(new[k]) <=> IsSign(list[k])
        OBVIOUS
      <4>1. list[k] \in Elements
        BY <1>1
      <4> QED
        BY <1>2, <3>2, <4>1, MovedIs
    <3> QED
      BY <2>2, <3>1, <3>2, <3>3
  <2> QED
    BY <2>1, <2>2
<1> HIDE DEF moved
<1>7. moved \in Scores /\ v \in DOMAIN moved.voices
  BY <1>6, OnlyVoiceIn
<1> DEFINE ml == moved.voices[v]
           new == RemoveAt(ml, i)
           r == WithList(moved, v, new)
<1>8. moved \in Scores \cup Passes /\ ml \in Seq(Elements) /\ moved.voices \in Seq(Lists)
  BY <1>7, VoiceIs, ScoreIs DEF Lists
<1>9. /\ new \in Seq(Elements) /\ Len(new) = Len(ml) - 1
      /\ \A k \in 1 .. Len(ml) - 1 : new[k] = IF k < i THEN ml[k] ELSE ml[k + 1]
  <2>1. i \in 1 .. Len(ml)
    BY <1>6
  <2> HIDE DEF ml
  <2> QED
    BY <1>8, <2>1, WithoutOne
<1> HIDE DEF new
<1>10. /\ r.voices = [moved.voices EXCEPT ![v] = new]
       /\ Alike(moved, r)
  BY <1>7, <1>8, <1>9, WithListIs DEF Lists
<1> HIDE DEF r
<1>11. OnlyVoice(moved, r, v) /\ r.voices[v] = new
  BY <1>7, <1>8, <1>10 DEF OnlyVoice
<1>12. OnlyVoice(sc, r, v)
  BY <1>0, <1>6, <1>11, OnlyVoiceTrans
<1>13. ASSUME NEW k \in 1 .. i - 1, ~IsSign(list[k]) PROVE ~IsSign(new[k])
  <2>1. k \in 1 .. Len(ml) - 1 /\ k < i /\ k \in 1 .. Len(list)
    BY <1>1, <1>6
  <2> QED
    BY <1>6, <1>9, <1>13, <2>1
<1>14. ASSUME NEW k \in i + 1 .. Len(list), ~IsSign(list[k]) PROVE ~IsSign(new[k - 1])
  <2>1. k - 1 \in 1 .. Len(ml) - 1 /\ ~(k - 1 < i) /\ k \in 1 .. Len(list) /\ (k - 1) + 1 = k
    BY <1>1, <1>6
  <2>2. new[k - 1] = ml[k]
    BY <1>9, <2>1
  <2> QED
    BY <1>6, <1>14, <2>1, <2>2
<1> QED
  BY <1>3, <1>6, <1>9, <1>11, <1>12, <1>13, <1>14 DEF Removed, r, new

-----------------------------------------------------------------------------
(* Rests put in and elements taken out in a row *)

\* n playables more from i on; what was playable behind them still is.
RestsIn(sc, r, v, i, n) ==
  LET old == sc.voices[v]
      new == r.voices[v]
  IN  /\ OnlyVoice(sc, r, v)
      /\ Len(new) = Len(old) + n
      /\ \A k \in i .. i + n - 1 : ~IsSign(new[k])
      /\ \A k \in i .. Len(old) : ~IsSign(old[k]) => ~IsSign(new[k + n])

LEMMA InsertRestsIs ==
  ASSUME NEW sc \in Scores, NEW v \in DOMAIN sc.voices,
         NEW i \in 1 .. Len(sc.voices[v]) + 1, NEW lens \in Seq(Lens)
  PROVE  RestsIn(sc, InsertRests(sc, v, i, lens), v, i, Len(lens))
<1>1. /\ Len(lens) \in Nat /\ \A k \in 1 .. Len(lens) : lens[k] \in Lens
      /\ sc \in Scores \cup Passes
  OBVIOUS
<1>2. PICK f : /\ f[0] = sc
               /\ \A k \in 1 .. Len(lens) :
                    f[k] = InsertPlayable(f[k - 1], v, i + k - 1, "rest", lens[k])
               /\ InsertRests(sc, v, i, lens) = f[Len(lens)]
  BY <1>1, InsertRestsLoop
<1> DEFINE P == {k \in 0 .. Len(lens) : RestsIn(sc, f[k], v, i, k)}
<1>3. Len(sc.voices[v]) \in Nat
  BY <1>1, VoiceIs
<1>4. 0 \in P
  <2>1. OnlyVoice(sc, sc, v) /\ 0 \in 0 .. Len(lens)
    BY <1>1, OnlyVoiceSelf
  <2>2. RestsIn(sc, sc, v, i, 0)
    BY <1>3, <2>1 DEF RestsIn
  <2> QED
    BY <1>2, <2>1, <2>2
<1>5. \A k \in 1 .. Len(lens) : k - 1 \in P => k \in P
  <2> SUFFICES ASSUME NEW k \in 1 .. Len(lens), k - 1 \in P PROVE k \in P
    OBVIOUS
  <2> DEFINE a == f[k - 1]
             at1 == i + k - 1
             len == lens[k]
             b == InsertPlayable(a, v, at1, "rest", len)
             old == sc.voices[v]
             mid == a.voices[v]
             new == b.voices[v]
  <2>1. RestsIn(sc, a, v, i, k - 1)
    OBVIOUS
  <2>2. f[k] = b /\ len \in Lens /\ k \in 0 .. Len(lens)
    BY <1>1, <1>2
  <2>3. at1 = i + (k - 1) /\ at1 \in Int /\ at1 - 1 = i + (k - 1) - 1
    BY <1>1, <1>3
  <2> HIDE DEF a, len
  <2>4. OnlyVoice(sc, a, v) /\ Len(mid) = Len(old) + (k - 1)
    BY <2>1 DEF RestsIn
  <2>5. a \in Scores /\ v \in DOMAIN a.voices
    BY <2>4, OnlyVoiceIn
  <2>6. at1 \in 1 .. Len(mid) + 1
    BY <1>1, <1>3, <2>3, <2>4
  <2> HIDE DEF at1
  <2>7. Inserted(a, b, v, at1)
    BY <2>2, <2>5, <2>6, InsertPlayableIs
  <2> HIDE DEF b
  <2>8. /\ OnlyVoice(a, b, v) /\ Len(new) = Len(mid) + 1 /\ ~IsSign(new[at1])
        /\ \A j \in 1 .. at1 - 1 : ~IsSign(mid[j]) => ~IsSign(new[j])
        /\ \A j \in at1 .. Len(mid) : ~IsSign(mid[j]) => ~IsSign(new[j + 1])
    BY <2>7 DEF Inserted
  <2>9. /\ \A j \in i .. i + (k - 1) - 1 : ~IsSign(mid[j])
        /\ \A j \in i .. Len(old) : ~IsSign(old[j]) => ~IsSign(mid[j + (k - 1)])
    BY <2>1 DEF RestsIn
  <2> HIDE DEF old, mid, new
  <2>10. OnlyVoice(sc, b, v)
    BY <1>1, <2>4, <2>8, OnlyVoiceTrans
  <2>11. Len(new) = Len(old) + k /\ Len(old) \in Nat
    BY <1>1, <1>3, <2>4, <2>8 DEF old
  <2>12. ASSUME NEW j \in i .. i + k - 1 PROVE ~IsSign(new[j])
    <3>1. CASE j = at1
      BY <2>8, <3>1
    <3>2. CASE j # at1
      <4>1. j \in i .. i + (k - 1) - 1 /\ j \in 1 .. at1 - 1
        BY <1>1, <1>3, <2>3, <3>2
      <4> QED
        BY <2>8, <2>9, <4>1
    <3> QED
      BY <3>1, <3>2
  <2>13. ASSUME NEW j \in i .. Len(old), ~IsSign(old[j]) PROVE ~IsSign(new[j + k])
    <3>1. ~IsSign(mid[j + (k - 1)])
      BY <2>9, <2>13
    <3>2. j + (k - 1) \in at1 .. Len(mid) /\ (j + (k - 1)) + 1 = j + k
      BY <1>1, <1>3, <2>3, <2>4, <2>11
    <3> QED
      BY <2>8, <3>1, <3>2
  <2>14. RestsIn(sc, b, v, i, k)
    BY <2>10, <2>11, <2>12, <2>13 DEF RestsIn, old, new
  <2> QED
    BY <2>2, <2>14
<1> HIDE DEF P
<1>6. \A k \in 0 .. Len(lens) : k \in P
  BY <1>1, <1>4, <1>5, Upward
<1> QED
  BY <1>1, <1>2, <1>6 DEF P

\* The numbers of a set up to n, from m + 1 on.
LEMMA CountDown ==
  ASSUME NEW n \in Nat, NEW m \in 1 .. n, NEW S \in SUBSET (1 .. n)
  PROVE  /\ Cardinality(S \cap (m + 1 .. n)) \in Nat
         /\ Cardinality(S \cap (m .. n)) \in Nat
         /\ m \in S => Cardinality(S \cap (m .. n)) = Cardinality(S \cap (m + 1 .. n)) + 1
         /\ m \notin S => Cardinality(S \cap (m .. n)) = Cardinality(S \cap (m + 1 .. n))
<1> DEFINE above == S \cap (m + 1 .. n)
           from == S \cap (m .. n)
<1>1. IsFiniteSet(1 .. n)
  BY FS_Interval
<1>2. IsFiniteSet(above) /\ Cardinality(above) \in Nat
  <2>1. above \subseteq 1 .. n
    OBVIOUS
  <2> HIDE DEF above
  <2> QED
    BY <1>1, <2>1, FS_Subset, FS_CardinalityType
<1>3. m \in S => from = above \cup {m} /\ m \notin above
  OBVIOUS
<1>4. m \notin S => from = above
  OBVIOUS
<1> HIDE DEF above, from
<1>5. m \in S => Cardinality(from) = Cardinality(above) + 1
  BY <1>2, <1>3, FS_AddElement
<1>6. m \notin S => Cardinality(from) = Cardinality(above)
  BY <1>4
<1>7. Cardinality(from) \in Nat
  BY <1>2, <1>5, <1>6
<1> QED
  BY <1>2, <1>5, <1>6, <1>7 DEF above, from

\* Playables at the positions of a set are removed: one element less for each.
LEMMA RemoveEachIs ==
  ASSUME NEW sc \in Scores, NEW v \in DOMAIN sc.voices,
         NEW is \in SUBSET (1 .. Len(sc.voices[v])),
         \A i \in is : ~IsSign(sc.voices[v][i])
  PROVE  /\ OnlyVoice(sc, RemoveEach(sc, v, is), v)
         /\ Cardinality(is) \in Nat
         /\ Len(RemoveEach(sc, v, is).voices[v]) = Len(sc.voices[v]) - Cardinality(is)
<1> DEFINE old == sc.voices[v]
           n == Len(old)
           count(k) == Cardinality(is \cap (n + 1 - k .. n))
<1>1. n \in Nat /\ sc \in Scores \cup Passes
  BY VoiceIs
<1>2. PICK f : /\ f[0] = sc
               /\ \A k \in 1 .. n : f[k] = RemoveOne(f[k - 1], v, is, n + 1 - k)
               /\ RemoveEach(sc, v, is) = f[n]
  BY <1>1, RemoveEachLoop
<1>0. is \in SUBSET (1 .. n) /\ \A i \in is : ~IsSign(old[i])
  OBVIOUS
<1> HIDE DEF n
<1> DEFINE P == {k \in 0 .. n :
                   /\ OnlyVoice(sc, f[k], v)
                   /\ count(k) \in Nat
                   /\ Len(f[k].voices[v]) = n - count(k)
                   /\ count(k) <= k
                   /\ \A j \in 1 .. n - k : ~IsSign(old[j]) => ~IsSign(f[k].voices[v][j])}
<1>3. 0 \in P
  <2>1. is \cap (n + 1 - 0 .. n) = {}
    BY <1>1
  <2>2. count(0) = 0
    BY <2>1, FS_EmptySet
  <2>3. OnlyVoice(sc, sc, v)
    BY <1>1, OnlyVoiceSelf
  <2>4. Len(sc.voices[v]) = n - 0 /\ 0 \in 0 .. n
    BY <1>1 DEF n
  <2> HIDE DEF count
  <2> QED
    BY <1>1, <1>2, <2>2, <2>3, <2>4
<1>4. \A k \in 1 .. n : k - 1 \in P => k \in P
  <2> SUFFICES ASSUME NEW k \in 1 .. n, k - 1 \in P PROVE k \in P
    OBVIOUS
  <2> DEFINE m == n + 1 - k
             a == f[k - 1]
             b == f[k]
             mid == a.voices[v]
             new == b.voices[v]
  <2>1. /\ OnlyVoice(sc, a, v) /\ count(k - 1) \in Nat
        /\ Len(mid) = n - count(k - 1) /\ count(k - 1) <= k - 1
        /\ \A j \in 1 .. n - (k - 1) : ~IsSign(old[j]) => ~IsSign(mid[j])
    OBVIOUS
  <2>2. /\ m \in 1 .. n /\ n - (k - 1) = m /\ n - k = m - 1 /\ k \in 0 .. n
        /\ n + 1 - (k - 1) = m + 1
    BY <1>1
  <2>3. /\ count(k) \in Nat
        /\ count(k) = count(k - 1) + IF m \in is THEN 1 ELSE 0
    <3>1. is \cap (n + 1 - (k - 1) .. n) = is \cap (m + 1 .. n)
      BY <2>2
    <3> HIDE DEF m
    <3>2. /\ Cardinality(is \cap (m .. n)) \in Nat
          /\ m \in is => Cardinality(is \cap (m .. n)) = Cardinality(is \cap (m + 1 .. n)) + 1
          /\ m \notin is => Cardinality(is \cap (m .. n)) = Cardinality(is \cap (m + 1 .. n))
      BY <1>0, <1>1, <2>2, CountDown
    <3>3. count(k) = Cardinality(is \cap (m .. n)) /\ count(k - 1) = Cardinality(is \cap (m + 1 .. n))
      BY <3>1 DEF m
    <3> HIDE DEF count
    <3> QED
      BY <2>1, <3>2, <3>3
  <2>4. b = IF m \in is THEN RemovePlayable(a, v, m, TRUE) ELSE a
    BY <1>2 DEF RemoveOne
  <2> HIDE DEF m, a, b, count
  <2>5. a \in Scores /\ v \in DOMAIN a.voices
    BY <2>1, OnlyVoiceIn
  <2>6. CASE m \notin is
    <3>1. b = a /\ count(k) = count(k - 1)
      BY <2>1, <2>3, <2>4, <2>6
    <3>2. \A j \in 1 .. n - k : ~IsSign(old[j]) => ~IsSign(new[j])
      BY <1>1, <2>1, <2>2, <3>1
    <3>3. count(k) <= k
      BY <1>1, <2>1, <3>1
    <3> QED
      BY <2>1, <2>2, <2>3, <3>1, <3>2, <3>3 DEF b
  <2>7. CASE m \in is
    <3>1. m \in 1 .. Len(mid) /\ ~IsSign(mid[m])
      BY <1>0, <1>1, <2>1, <2>2, <2>7
    <3> DEFINE yes == TRUE
    <3>2. yes \in BOOLEAN
      OBVIOUS
    <3> HIDE DEF yes
    <3>3. Removed(a, RemovePlayable(a, v, m, yes), v, m)
      BY <2>5, <3>1, <3>2, RemovePlayableIs
    <3>4. Removed(a, b, v, m)
      BY <2>4, <2>7, <3>3 DEF yes
    <3>5. /\ OnlyVoice(a, b, v) /\ Len(new) = Len(mid) - 1
          /\ \A j \in 1 .. m - 1 : ~IsSign(mid[j]) => ~IsSign(new[j])
      BY <3>4 DEF Removed
    <3>6. OnlyVoice(sc, b, v)
      BY <1>1, <2>1, <3>5, OnlyVoiceTrans
    <3> HIDE DEF mid, new, old
    <3>7. /\ Len(new) = n - count(k) /\ count(k) <= k
      BY <1>1, <2>1, <2>3, <2>7, <3>5
    <3>8. \A j \in 1 .. n - k : ~IsSign(old[j]) => ~IsSign(new[j])
      BY <1>1, <2>1, <2>2, <3>5
    <3> QED
      BY <2>2, <2>3, <3>6, <3>7, <3>8 DEF b, new, old
  <2> QED
    BY <2>6, <2>7
<1> HIDE DEF P
<1>5. \A k \in 0 .. n : k \in P
  BY <1>1, <1>3, <1>4, Upward
<1>6. n \in P
  BY <1>1, <1>5
<1>7. is \cap (n + 1 - n .. n) = is
  <2>1. n + 1 - n = 1
    BY <1>1
  <2> QED
    BY <1>0, <2>1
<1> QED
  BY <1>2, <1>6, <1>7 DEF P, n

\* A chord takes the notes that are added to it.
LEMMA AddToChordIs ==
  ASSUME NEW sc \in Scores, NEW v \in DOMAIN sc.voices,
         NEW i \in 1 .. Len(sc.voices[v]), ~IsSign(sc.voices[v][i])
  PROVE  LET r == AddToChord(sc, v, i)
         IN  /\ OnlyVoice(sc, r, v)
             /\ Len(r.voices[v]) = Len(sc.voices[v]) + 1
             /\ ~IsSign(r.voices[v][i])
<1> DEFINE list == sc.voices[v]
           e == list[i]
           note == [e EXCEPT !.kind = "note"]
<1>0. sc \in Scores \cup Passes
  OBVIOUS
<1>1. Len(list) \in Nat /\ e \in Elements
  BY <1>0, VoiceIs
<1>2. note \in Elements /\ ~IsSign(note)
  <2>1. e.start \in Times /\ e.len \in Lens /\ e = Playable(e.kind, e.start, e.len)
    BY <1>1, ElementIs
  <2>2. note = Playable("note", e.start, e.len)
    <3> DEFINE kind == e.kind
               start == e.start
               len == e.len
    <3>1. e = [kind |-> kind, start |-> start, len |-> len]
      BY <2>1 DEF Playable
    <3> HIDE DEF kind, start, len, e
    <3>2. [e EXCEPT !.kind = "note"] = [kind |-> "note", start |-> start, len |-> len]
      BY <3>1
    <3> QED
      BY <3>2 DEF Playable, start, len
  <2> HIDE DEF note, e
  <2> QED
    BY <2>1, <2>2, PlayableIs
<1> HIDE DEF note
<1>3. i \in 1 .. Len(list) + 1
  BY <1>1
<1> DEFINE r == InsertElement(sc, v, i, note)
<1>4. /\ OnlyVoice(sc, r, v) /\ Len(r.voices[v]) = Len(list) + 1
      /\ r.voices[v][i] = note
  <2>1. /\ OnlyVoice(sc, r, v) /\ Len(r.voices[v]) = Len(list) + 1
        /\ \A j \in 1 .. Len(list) + 1 :
             r.voices[v][j] = IF j < i THEN list[j] ELSE IF j = i THEN note ELSE list[j - 1]
    <3> DEFINE p == i
    <3>1. p \in 1 .. Len(list) + 1
      BY <1>3
    <3> HIDE DEF p
    <3>2. LET q == InsertElement(sc, v, p, note)
          IN  /\ OnlyVoice(sc, q, v) /\ Len(q.voices[v]) = Len(list) + 1
              /\ \A j \in 1 .. Len(list) + 1 :
                   q.voices[v][j] = IF j < p THEN list[j] ELSE IF j = p THEN note ELSE list[j - 1]
      BY <1>0, <1>2, <3>1, InsertElementIs
    <3> QED
      BY <3>2 DEF p
  <2> HIDE DEF r
  <2> QED
    BY <1>3, <2>1
<1> QED
  BY <1>2, <1>4 DEF AddToChord, note

LEMMA AddTimesIs ==
  ASSUME NEW sc \in Scores, NEW v \in DOMAIN sc.voices,
         NEW i \in 1 .. Len(sc.voices[v]), ~IsSign(sc.voices[v][i]), NEW n \in Nat
  PROVE  LET r == AddTimes(sc, v, i, n)
         IN  /\ OnlyVoice(sc, r, v)
             /\ Len(r.voices[v]) = Len(sc.voices[v]) + n
<1> DEFINE old == sc.voices[v]
<1>1. sc \in Scores \cup Passes /\ Len(old) \in Nat /\ n \in Nat
  BY VoiceIs
<1>0. PICK f : AddRounds(f, sc, v, i, n)
  BY <1>1, AddRoundsExist
<1>2. /\ f[0] = sc
      /\ \A k \in 1 .. n : f[k] = AddToChord(f[k - 1], v, i)
      /\ AddTimes(sc, v, i, n) = f[n]
  BY <1>0 DEF AddRounds
<1> DEFINE P == {k \in 0 .. n : /\ OnlyVoice(sc, f[k], v)
                                /\ Len(f[k].voices[v]) = Len(old) + k
                                /\ ~IsSign(f[k].voices[v][i])}
<1>3. 0 \in P
  <2>1. OnlyVoice(sc, sc, v)
    BY <1>1, OnlyVoiceSelf
  <2> QED
    BY <1>1, <1>2, <2>1
<1>4. \A k \in 1 .. n : k - 1 \in P => k \in P
  <2> SUFFICES ASSUME NEW k \in 1 .. n, k - 1 \in P PROVE k \in P
    OBVIOUS
  <2> DEFINE a == f[k - 1]
             b == f[k]
  <2>1. OnlyVoice(sc, a, v) /\ Len(a.voices[v]) = Len(old) + (k - 1) /\ ~IsSign(a.voices[v][i])
    OBVIOUS
  <2>2. b = AddToChord(a, v, i) /\ k \in 0 .. n
    BY <1>2
  <2> HIDE DEF a, b
  <2>3. a \in Scores /\ v \in DOMAIN a.voices
    BY <2>1, OnlyVoiceIn
  <2>4. i \in 1 .. Len(a.voices[v])
    BY <1>1, <2>1
  <2>5. /\ OnlyVoice(a, b, v) /\ Len(b.voices[v]) = Len(a.voices[v]) + 1
        /\ ~IsSign(b.voices[v][i])
    BY <2>1, <2>2, <2>3, <2>4, AddToChordIs
  <2>6. OnlyVoice(sc, b, v)
    BY <1>1, <2>1, <2>5, OnlyVoiceTrans
  <2>7. Len(b.voices[v]) = Len(old) + k
    <3> HIDE DEF old
    <3> QED BY <1>1, <2>1, <2>5
  <2> QED
    BY <2>2, <2>5, <2>6, <2>7 DEF b
<1> HIDE DEF P
<1>5. \A k \in 0 .. n : k \in P
  BY <1>3, <1>4, Upward
<1>6. n \in P
  BY <1>5
<1> QED
  BY <1>2, <1>6 DEF P

\* The n playables from i on are removed.
LEMMA RemoveTimesIs ==
  ASSUME NEW sc \in Scores, NEW v \in DOMAIN sc.voices, NEW i \in Nat \ {0}, NEW n \in Nat,
         NEW signsToo \in BOOLEAN, i + n <= Len(sc.voices[v]) + 1,
         \A k \in i .. i + n - 1 : ~IsSign(sc.voices[v][k])
  PROVE  OnlyVoice(sc, RemoveTimes(sc, v, i, n, signsToo), v)
<1> DEFINE old == sc.voices[v]
<1>1. sc \in Scores \cup Passes /\ Len(old) \in Nat /\ n \in Nat
  BY VoiceIs
<1>0. PICK f : RemoveRounds(f, sc, v, i, n, signsToo)
  BY <1>1, RemoveRoundsExist
<1>2. /\ f[0] = sc
      /\ \A k \in 1 .. n : f[k] = RemovePlayable(f[k - 1], v, i, signsToo)
      /\ RemoveTimes(sc, v, i, n, signsToo) = f[n]
  BY <1>0 DEF RemoveRounds
<1> DEFINE P == {k \in 0 .. n : /\ OnlyVoice(sc, f[k], v)
                                /\ Len(f[k].voices[v]) = Len(old) - k
                                /\ \A j \in i .. i + n - 1 - k : ~IsSign(f[k].voices[v][j])}
<1>3. 0 \in P
  <2>1. OnlyVoice(sc, sc, v)
    BY <1>1, OnlyVoiceSelf
  <2>2. i + n - 1 - 0 = i + n - 1 /\ Len(old) - 0 = Len(old)
    BY <1>1
  <2> QED
    BY <1>1, <1>2, <2>1, <2>2
<1>4. \A k \in 1 .. n : k - 1 \in P => k \in P
  <2> SUFFICES ASSUME NEW k \in 1 .. n, k - 1 \in P PROVE k \in P
    OBVIOUS
  <2> DEFINE a == f[k - 1]
             b == f[k]
             mid == a.voices[v]
             new == b.voices[v]
  <2>1. /\ OnlyVoice(sc, a, v) /\ Len(mid) = Len(old) - (k - 1)
        /\ \A j \in i .. i + n - 1 - (k - 1) : ~IsSign(mid[j])
    OBVIOUS
  <2>2. b = RemovePlayable(a, v, i, signsToo) /\ k \in 0 .. n
    BY <1>2
  <2> HIDE DEF a, b
  <2>3. a \in Scores /\ v \in DOMAIN a.voices
    BY <2>1, OnlyVoiceIn
  <2>4. i \in 1 .. Len(mid) /\ i \in i .. i + n - 1 - (k - 1)
    <3> HIDE DEF old, mid
    <3>1. i + n <= Len(old) + 1
      BY DEF old
    <3> QED
      BY <1>1, <2>1, <3>1
  <2>5. Removed(a, b, v, i)
    BY <2>1, <2>2, <2>3, <2>4, RemovePlayableIs
  <2>6. /\ OnlyVoice(a, b, v) /\ Len(new) = Len(mid) - 1
        /\ \A j \in i + 1 .. Len(mid) : ~IsSign(mid[j]) => ~IsSign(new[j - 1])
    BY <2>5 DEF Removed
  <2>7. OnlyVoice(sc, b, v)
    BY <1>1, <2>1, <2>6, OnlyVoiceTrans
  <2>8. i + n <= Len(old) + 1
    OBVIOUS
  <2> HIDE DEF old, mid, new
  <2>9. Len(new) = Len(old) - k
    BY <1>1, <2>1, <2>6
  <2>10. ASSUME NEW j \in i .. i + n - 1 - k PROVE ~IsSign(new[j])
    <3>1. j + 1 \in i + 1 .. Len(mid) /\ j + 1 \in i .. i + n - 1 - (k - 1) /\ (j + 1) - 1 = j
      BY <1>1, <2>1, <2>8
    <3> QED
      BY <2>1, <2>6, <3>1
  <2> QED
    BY <2>2, <2>7, <2>9, <2>10 DEF b, new
<1> HIDE DEF P
<1>5. \A k \in 0 .. n : k \in P
  BY <1>3, <1>4, Upward
<1>6. n \in P
  BY <1>5
<1> QED
  BY <1>2, <1>6 DEF P

-----------------------------------------------------------------------------
(* What the handlers do to the score *)

LEMMA InsertSignIs ==
  ASSUME NEW sc \in Scores, NEW v \in DOMAIN sc.voices,
         NEW i \in 1 .. Len(sc.voices[v]) + 1, NEW s \in Signs
  PROVE  /\ InsertSign(sc, v, i, s) \in Scores
         /\ Len(InsertSign(sc, v, i, s).voices) = Len(sc.voices)
<1> DEFINE j == FrontOfChord(sc, v, i)
           t == TimeBefore(sc, v, j)
           a == [sc EXCEPT !.at[s] = t]
<1>0. sc \in Scores \cup Passes
  OBVIOUS
<1>1. j \in 1 .. i /\ t \in Times
  BY <1>0, FrontOfChordIs, TimeBeforeIs
<1>2. Len(sc.voices[v]) \in Nat
  BY <1>0, VoiceIs
<1>3. InsertSign(sc, v, i, s) = InsertElement(a, v, j, Sign(s))
  BY DEF InsertSign
<1> HIDE DEF t, j
<1>4. a \in Scores /\ a.voices = sc.voices
  BY <1>1 DEF Scores
<1> HIDE DEF a
<1>5. a \in Scores \cup Passes /\ j \in 1 .. Len(a.voices[v]) + 1 /\ v \in DOMAIN a.voices
  BY <1>1, <1>2, <1>4
<1>6. Sign(s) \in Elements
  BY SignIs
<1>7. Alike(a, InsertElement(a, v, j, Sign(s)))
  BY <1>5, <1>6, InsertElementIs DEF OnlyVoice
<1> QED
  BY <1>3, <1>4, <1>7 DEF Alike

LEMMA RemoveSignIs ==
  ASSUME NEW sc \in Scores, NEW s \in Signs, 1 \in DOMAIN sc.voices
  PROVE  RemoveSign(sc, s) \in Scores /\ Len(RemoveSign(sc, s).voices) = Len(sc.voices)
<1> DEFINE n == Len(sc.voices)
           lists == [v \in 1 .. n |-> Without(sc.voices[v], s)]
           times == [sc.at EXCEPT ![s] = 0]
<1>0. sc \in Scores \cup Passes /\ n \in Nat /\ DOMAIN sc.voices = 1 .. n
  BY ScoreIs
<1>1. lists \in [1 .. n -> Lists]
  <2> SUFFICES ASSUME NEW v \in 1 .. n PROVE Without(sc.voices[v], s) \in Lists
    OBVIOUS
  <2>1. sc.voices[v] \in Lists
    BY <1>0, VoiceIs
  <2> QED
    BY <2>1, WithoutIs
<1>2. lists \in Seq(Lists) /\ Len(lists) = n
  <2> HIDE DEF lists
  <2> QED BY <1>0, <1>1, IsSequence
<1>3. times \in [Signs -> Times]
  BY <1>0, ScoreIs, TimesAdd
<1>4. \/ RemoveSign(sc, s) = [voices |-> lists, at |-> times]
      \/ RemoveSign(sc, s) = sc
  BY <1>0 DEF RemoveSign, Without
<1> HIDE DEF lists, times
<1> QED
  BY <1>2, <1>3, <1>4 DEF Scores

LEMMA ReverseIs ==
  ASSUME NEW S, NEW s \in Seq(S)
  PROVE  Reverse(s) \in Seq(S) /\ Len(Reverse(s)) = Len(s)
<1>1. Len(s) \in Nat
  OBVIOUS
<1>2. Reverse(s) \in [1 .. Len(s) -> S]
  <2>1. \A i \in 1 .. Len(s) : (Len(s) - i) + 1 \in 1 .. Len(s)
    BY <1>1
  <2> QED
    BY <2>1 DEF Reverse
<1> QED
  BY <1>1, <1>2, IsSequence

\* What is taken for a length: playables in a row, in the list.
Run(sc, v, i, n) ==
  /\ n \in Nat \ {0} /\ i + n - 1 <= Len(sc.voices[v])
  /\ \A k \in i .. i + n - 1 : ~IsSign(sc.voices[v][k])

LEMMA TakenForIs ==
  ASSUME NEW sc \in Scores, NEW v \in DOMAIN sc.voices,
         NEW i \in 1 .. Len(sc.voices[v]), ~IsSign(sc.voices[v][i]), NEW len
  PROVE  LET n == TakenFor(sc, v, i, len)
         IN  /\ Run(sc, v, i, n)
             /\ \A k \in i + 1 .. i + n - 1 : sc.voices[v][k].kind = "rest"
<1> DEFINE list == sc.voices[v]
           isRun(n) == /\ i + n - 1 <= Len(list)
                       /\ \A k \in i + 1 .. i + n - 1 : list[k].kind = "rest"
           total(n) == Total([k \in 1 .. n |-> list[i + k - 1].len])
           S == {n \in 1 .. Len(list) : /\ isRun(n)
                                        /\ ~isRun(n + 1) \/ total(n) >= len}
<1>1. Len(list) \in Nat /\ i \in 1 .. Len(list)
  BY VoiceIs
<1>2. ~IsSign(list[i])
  OBVIOUS
<1>3. TakenFor(sc, v, i, len) = Min(S)
  BY DEF TakenFor
<1> HIDE DEF list, total
<1>4. S # {}
  <2> SUFFICES ASSUME S = {} PROVE FALSE
    OBVIOUS
  <2> DEFINE P == {k \in 0 .. Len(list) : isRun(k + 1)}
  <2>1. isRun(1)
    BY <1>1
  <2>2. \A n \in 1 .. Len(list) : isRun(n) => isRun(n + 1)
    OBVIOUS
  <2> HIDE DEF isRun
  <2>3. 0 \in P
    BY <1>1, <2>1
  <2>4. \A k \in 1 .. Len(list) : k - 1 \in P => k \in P
    <3> SUFFICES ASSUME NEW k \in 1 .. Len(list), k - 1 \in P PROVE k \in P
      OBVIOUS
    <3>1. (k - 1) + 1 = k /\ k \in 0 .. Len(list)
      BY <1>1
    <3> QED
      BY <2>2, <3>1
  <2> HIDE DEF P
  <2>5. \A k \in 0 .. Len(list) : k \in P
    BY <1>1, <2>3, <2>4, Upward
  <2>6. isRun(Len(list) + 1)
    BY <1>1, <2>5 DEF P
  <2> QED
    BY <1>1, <2>6 DEF isRun
<1>5. Min(S) \in S
  <2>1. S \in SUBSET Nat
    BY <1>1
  <2> HIDE DEF S
  <2> QED
    BY <1>4, <2>1, MinIs
<1> DEFINE n == Min(S)
<1>6. n \in 1 .. Len(list) /\ isRun(n)
  BY <1>5
<1> HIDE DEF n
<1>7. ASSUME NEW k \in i .. i + n - 1 PROVE ~IsSign(list[k])
  <2>1. CASE k = i
    BY <1>2, <2>1
  <2>2. CASE k # i
    <3>1. k \in i + 1 .. i + n - 1
      BY <1>1, <1>6, <2>2
    <3> QED
      BY <1>6, <3>1 DEF IsSign
  <2> QED
    BY <2>1, <2>2
<1>8. n \in Nat \ {0} /\ i + n - 1 <= Len(list)
  BY <1>1, <1>6
<1> QED
  BY <1>3, <1>6, <1>7, <1>8 DEF n, Run, list

\* A run gives way to a playable and rests.
LEMMA ReplaceRunIs ==
  ASSUME NEW sc \in Scores, NEW v \in DOMAIN sc.voices,
         NEW i \in 1 .. Len(sc.voices[v]), NEW n, Run(sc, v, i, n),
         NEW kind \in {"note", "rest"}, NEW len \in Lens
  PROVE  OnlyVoice(sc, ReplaceRun(sc, v, i, n, kind, len), v)
<1> DEFINE list == sc.voices[v]
           lens == [k \in 1 .. n |-> list[i + k - 1].len]
           removed == RemoveEach(sc, v, i .. i + n - 1)
           rests == Reverse(ComposeRests(Total(lens) - len))
           filled == InsertRests(removed, v, i, rests)
           r == InsertPlayable(filled, v, i, kind, len)
<1>0. /\ n \in Nat \ {0} /\ i + n - 1 <= Len(list)
      /\ \A k \in i .. i + n - 1 : ~IsSign(list[k])
  BY DEF Run
<1>1. /\ Len(list) \in Nat /\ sc \in Scores \cup Passes
      /\ \A k \in 1 .. Len(list) : list[k] \in Elements
  BY VoiceIs
<1>2. ReplaceRun(sc, v, i, n, kind, len) = r
  BY DEF ReplaceRun
<1>3. rests \in Seq(Lens)
  <2>1. lens \in [1 .. n -> Times]
    <3> SUFFICES ASSUME NEW k \in 1 .. n PROVE list[i + k - 1].len \in Times
      OBVIOUS
    <3>1. i + k - 1 \in i .. i + n - 1 /\ i + k - 1 \in 1 .. Len(list)
      BY <1>0, <1>1
    <3>2. list[i + k - 1].len \in Lens
      BY <1>0, <1>1, <3>1, ElementIs
    <3> QED
      BY <3>2, LensAreTimes
  <2> HIDE DEF lens
  <2>2. lens \in Seq(Times)
    BY <1>0, <2>1, IsSequence
  <2>3. Total(lens) \in Times
    BY <2>2, TotalIs
  <2>4. Total(lens) - len \in Int
    <3>1. len \in Int
      BY LensAreTimes
    <3>2. Total(lens) \in Int
      BY <2>3, TimesAreIntegers
    <3> QED
      BY <3>1, <3>2
  <2> QED
    BY <2>4, ComposeRestsIs, ReverseIs
<1>4. /\ OnlyVoice(sc, removed, v)
      /\ Len(removed.voices[v]) = Len(list) - n
  <2> DEFINE is == i .. i + n - 1
  <2>1. is \in SUBSET (1 .. Len(list)) /\ \A k \in is : ~IsSign(list[k])
    BY <1>0, <1>1
  <2>2. Cardinality(is) = n
    <3>1. i \in Int /\ i + n - 1 \in Int /\ i + n - 1 >= i
      BY <1>0
    <3>2. Cardinality(is) = (i + n - 1) - i + 1
      BY <3>1, FS_Interval
    <3> QED
      BY <1>0, <3>2
  <2> HIDE DEF is
  <2>3. /\ OnlyVoice(sc, RemoveEach(sc, v, is), v)
        /\ Len(RemoveEach(sc, v, is).voices[v]) = Len(list) - Cardinality(is)
    BY <2>1, RemoveEachIs
  <2> QED
    BY <2>2, <2>3 DEF is
<1> HIDE DEF removed, rests
<1>5. removed \in Scores /\ v \in DOMAIN removed.voices
  BY <1>4, OnlyVoiceIn
<1>6. i \in 1 .. Len(removed.voices[v]) + 1
  BY <1>0, <1>1, <1>4
<1>7. Len(rests) \in Nat
  BY <1>3
<1>8. RestsIn(removed, filled, v, i, Len(rests))
  BY <1>3, <1>5, <1>6, InsertRestsIs
<1>9. OnlyVoice(removed, filled, v) /\ Len(filled.voices[v]) = Len(removed.voices[v]) + Len(rests)
  BY <1>8 DEF RestsIn
<1> HIDE DEF filled
<1>10. filled \in Scores /\ v \in DOMAIN filled.voices /\ removed \in Scores \cup Passes
  BY <1>5, <1>9, OnlyVoiceIn
<1>11. i \in 1 .. Len(filled.voices[v]) + 1
  <2>1. Len(removed.voices[v]) \in Nat
    BY <1>5, VoiceIs
  <2> QED
    BY <1>6, <1>7, <1>9, <2>1
<1>12. OnlyVoice(filled, r, v)
  BY <1>10, <1>11, InsertPlayableIs DEF Inserted
<1> HIDE DEF r
<1>13. OnlyVoice(sc, filled, v)
  BY <1>1, <1>4, <1>9, OnlyVoiceTrans
<1> QED
  BY <1>1, <1>2, <1>12, <1>13, OnlyVoiceTrans

\* The elements to which a handler turns when one is selected: its chord.
Chord(sc, v, i) == IF IsNote(sc.voices[v][i]) THEN ChordAt(sc, v, i) ELSE {i}

LEMMA ChordIs ==
  ASSUME NEW sc \in Scores, NEW v \in DOMAIN sc.voices,
         NEW i \in 1 .. Len(sc.voices[v]), ~IsSign(sc.voices[v][i])
  PROVE  LET chord == Chord(sc, v, i)
             n == Len(sc.voices[v])
         IN  /\ chord \in SUBSET (1 .. n) /\ i \in chord
             /\ \A k \in chord : ~IsSign(sc.voices[v][k])
             /\ Min(chord) \in chord /\ \A k \in chord : Min(chord) <= k
             /\ Max(chord) \in chord /\ \A k \in chord : k <= Max(chord)
             /\ Cardinality(chord) \in Nat \ {0}
             /\ Cardinality(chord) <= n + 1 - Min(chord)
<1> DEFINE chord == Chord(sc, v, i)
           list == sc.voices[v]
           n == Len(list)
<1>0. sc \in Scores \cup Passes
  OBVIOUS
<1>1. n \in Nat /\ i \in 1 .. n /\ \A k \in 1 .. n : list[k] \in Elements
  BY <1>0, VoiceIs
<1>2. chord \in SUBSET (1 .. n) /\ i \in chord /\ \A k \in chord : ~IsSign(list[k])
  <2>1. CASE IsNote(list[i])
    <3> DEFINE p == ChordAt(sc, v, i)
    <3>1. p \in SUBSET (1 .. n) /\ i \in p /\ \A k \in p : IsNote(list[k])
      BY <1>0, <1>1, <2>1, ChordAtIs
    <3>2. chord = p
      BY <2>1 DEF Chord
    <3> HIDE DEF p, chord
    <3>3. \A k \in p : ~IsSign(list[k])
      BY <1>1, <3>1, ElementIs
    <3> QED
      BY <3>1, <3>2, <3>3
  <2>2. CASE ~IsNote(list[i])
    <3>1. chord = {i}
      BY <2>2 DEF Chord
    <3> HIDE DEF chord
    <3> QED
      BY <1>1, <3>1
  <2> QED
    BY <2>1, <2>2
<1> HIDE DEF chord, n
<1>3. Min(chord) \in chord /\ \A k \in chord : Min(chord) <= k
  <2>1. chord \in SUBSET Nat /\ chord # {}
    BY <1>1, <1>2
  <2> QED
    BY <2>1, MinIs
<1>4. Max(chord) \in chord /\ \A k \in chord : k <= Max(chord)
  <2>1. chord \in SUBSET (0 .. n) /\ chord # {}
    BY <1>1, <1>2
  <2> QED
    BY <1>1, <2>1, MaxIs
<1> DEFINE m == Min(chord)
<1> HIDE DEF m
<1>5. Cardinality(chord) \in Nat \ {0} /\ Cardinality(chord) <= n + 1 - m
  <2>0. m \in chord /\ \A k \in chord : m <= k
    BY <1>3 DEF m
  <2>1. m \in 1 .. n /\ chord \subseteq m .. n
    <3>1. \A k \in chord : k \in 1 .. n
      BY <1>2
    <3>2. m \in 1 .. n
      BY <2>0, <3>1
    <3>3. ASSUME NEW k \in chord PROVE k \in m .. n
      BY <1>1, <2>0, <3>1, <3>2
    <3> QED
      BY <3>2, <3>3
  <2>2. IsFiniteSet(m .. n) /\ Cardinality(m .. n) = n - m + 1
    <3>1. m \in Int /\ n \in Int /\ m <= n
      BY <1>1, <2>1
    <3>2. IsFiniteSet(m .. n) /\ Cardinality(m .. n) = IF m > n THEN 0 ELSE n - m + 1
      BY <3>1, FS_Interval
    <3> QED
      BY <3>1, <3>2
  <2>3. IsFiniteSet(chord) /\ Cardinality(chord) <= Cardinality(m .. n)
    BY <2>1, <2>2, FS_Subset
  <2>4. Cardinality(chord) \in Nat /\ Cardinality(chord) # 0
    BY <1>2, <2>3, FS_CardinalityType, FS_EmptySet
  <2> QED
    BY <1>1, <2>1, <2>2, <2>3, <2>4
<1> QED
  BY <1>2, <1>3, <1>4, <1>5 DEF chord, n, m

\* One note of a chord is left, at the place of the first.
LEMMA OneOfChordIs ==
  ASSUME NEW sc \in Scores, NEW v \in DOMAIN sc.voices,
         NEW i \in 1 .. Len(sc.voices[v]), IsNote(sc.voices[v][i])
  PROVE  LET r == OneOfChord(sc, v, i)
             first == Min(ChordAt(sc, v, i))
             last == Max(ChordAt(sc, v, i))
             old == sc.voices[v]
             new == r.voices[v]
         IN  /\ OnlyVoice(sc, r, v)
             /\ first \in 1 .. i /\ last \in i .. Len(old)
             /\ Len(new) = first + (Len(old) - last)
             /\ ~IsSign(new[first])
             /\ \A k \in 1 .. Len(old) - last : new[first + k] = old[last + k]
             /\ \A k \in i .. last : IsNote(old[k])
<1> DEFINE chord == ChordAt(sc, v, i)
           old == sc.voices[v]
           first == Min(chord)
           last == Max(chord)
           a == SubSeq(old, 1, first)
           b == SubSeq(old, last + 1, Len(old))
           new == a \o b
<1>0. sc \in Scores \cup Passes
  OBVIOUS
<1>1. /\ Len(old) \in Nat /\ i \in 1 .. Len(old) /\ old \in Seq(Elements)
      /\ \A k \in 1 .. Len(old) : old[k] \in Elements
  BY <1>0, VoiceIs DEF Lists
<1>2. ~IsSign(old[i])
  BY <1>1, ElementIs
<1>3. chord = Chord(sc, v, i)
  BY DEF Chord
<1>4. /\ chord \in SUBSET (1 .. Len(old)) /\ i \in chord
      /\ \A k \in chord : ~IsSign(old[k])
      /\ first \in chord /\ first <= i /\ last \in chord /\ i <= last
  <2> HIDE DEF chord
  <2> QED
    BY <1>2, <1>3, ChordIs
<1>5. \A k \in i .. last : IsNote(old[k])
  <2>1. \A j \in chord : j >= i => \A k \in i .. j : IsNote(old[k])
    BY <1>0, <1>1, ChordAtIs
  <2> HIDE DEF chord
  <2> QED
    BY <1>4, <2>1
<1>6. OneOfChord(sc, v, i) = WithList(sc, v, new)
  BY DEF OneOfChord
<1> HIDE DEF first, last, chord
<1>7. first \in 1 .. i /\ last \in i .. Len(old)
  BY <1>1, <1>4
<1>8. /\ a \in Seq(Elements) /\ Len(a) = first /\ \A k \in 1 .. first : a[k] = old[k]
      /\ b \in Seq(Elements) /\ Len(b) = Len(old) - last
      /\ \A k \in 1 .. Len(old) - last : b[k] = old[last + k]
  <2> HIDE DEF old
  <2> QED BY <1>1, <1>7
<1> HIDE DEF a, b
<1>9. /\ new \in Lists /\ Len(new) = first + (Len(old) - last)
      /\ new[first] = old[first]
      /\ \A k \in 1 .. Len(old) - last : new[first + k] = old[last + k]
  <2>1. new \in Lists /\ Len(new) = first + (Len(old) - last)
    <3>1. a \in Seq(Elements) /\ b \in Seq(Elements)
      BY <1>8
    <3>2. new \in Seq(Elements) /\ Len(new) = Len(a) + Len(b)
      BY <3>1, ConcatProperties
    <3>3. Len(new) = first + (Len(old) - last)
      BY <1>8, <3>2
    <3> QED
      BY <3>2, <3>3 DEF Lists
  <2>2. new[first] = a[first]
    BY <1>7, <1>8
  <2>3. a[first] = old[first]
    BY <1>7, <1>8
  <2>4. ASSUME NEW k \in 1 .. Len(old) - last PROVE new[first + k] = old[last + k]
    <3>1. new[first + k] = b[(first + k) - first] /\ (first + k) - first = k
      BY <1>1, <1>7, <1>8, SMTT(60)
    <3> QED
      BY <1>8, <3>1
  <2> QED
    BY <2>1, <2>2, <2>3, <2>4
<1> HIDE DEF new
<1> DEFINE r == WithList(sc, v, new)
<1>10. r.voices = [sc.voices EXCEPT ![v] = new] /\ Alike(sc, r)
  BY <1>0, <1>9, WithListIs
<1> HIDE DEF r
<1>11. OnlyVoice(sc, r, v) /\ r.voices[v] = new
  <2>1. sc.voices \in Seq(Lists)
    BY <1>0, ScoreIs
  <2> QED
    BY <1>10, <2>1 DEF OnlyVoice
<1>12. ~IsSign(new[first])
  BY <1>4, <1>9
<1> QED
  BY <1>5, <1>6, <1>7, <1>9, <1>11, <1>12 DEF first, last, chord, r

LEMMA ReplaceByRestIs ==
  ASSUME NEW sc \in Scores, NEW v \in DOMAIN sc.voices,
         NEW i \in 1 .. Len(sc.voices[v]), ~IsSign(sc.voices[v][i]), NEW len \in Lens
  PROVE  OnlyVoice(sc, ReplaceByRest(sc, v, i, len), v)
<1> DEFINE list == sc.voices[v]
           n == TakenFor(sc, v, i, len)
<1>0. sc \in Scores \cup Passes
  OBVIOUS
<1>1. /\ Len(list) \in Nat /\ i \in 1 .. Len(list)
      /\ \A k \in 1 .. Len(list) : list[k] \in Elements
  BY <1>0, VoiceIs
<1>2. /\ n \in Nat \ {0} /\ i + n - 1 <= Len(list)
      /\ \A k \in i .. i + n - 1 : ~IsSign(list[k])
      /\ \A k \in i + 1 .. i + n - 1 : list[k].kind = "rest"
      /\ Run(sc, v, i, n)
  BY TakenForIs DEF Run
<1>3. CASE ~IsNote(list[i])
  <2>1. ReplaceByRest(sc, v, i, len) = ReplaceRun(sc, v, i, n, "rest", len)
    BY <1>3 DEF ReplaceByRest
  <2> DEFINE rest == "rest"
  <2>2. rest \in {"note", "rest"}
    OBVIOUS
  <2> HIDE DEF n, rest
  <2>3. OnlyVoice(sc, ReplaceRun(sc, v, i, n, rest, len), v)
    BY <1>2, <2>2, ReplaceRunIs
  <2> QED
    BY <2>1, <2>3 DEF rest
<1>4. CASE IsNote(list[i])
  <2> DEFINE r == OneOfChord(sc, v, i)
             first == Min(ChordAt(sc, v, i))
             last == Max(ChordAt(sc, v, i))
             new == r.voices[v]
             rest == "rest"
  <2>1. ReplaceByRest(sc, v, i, len) = ReplaceRun(r, v, first, n, rest, len)
    BY <1>4 DEF ReplaceByRest
  <2>2. /\ OnlyVoice(sc, r, v)
        /\ first \in 1 .. i /\ last \in i .. Len(list)
        /\ Len(new) = first + (Len(list) - last)
        /\ ~IsSign(new[first])
        /\ \A k \in 1 .. Len(list) - last : new[first + k] = list[last + k]
        /\ \A k \in i .. last : IsNote(list[k])
    BY <1>4, OneOfChordIs
  <2>3. rest \in {"note", "rest"}
    OBVIOUS
  <2> HIDE DEF n, rest, r, first, last
  <2>4. r \in Scores /\ v \in DOMAIN r.voices
    BY <2>2, OnlyVoiceIn
  <2>5. n # 1 => i = last
    <3> SUFFICES ASSUME n # 1, i # last PROVE FALSE
      OBVIOUS
    <3>1. i + 1 \in i .. last /\ i + 1 \in i + 1 .. i + n - 1 /\ i + 1 \in 1 .. Len(list)
      BY <1>1, <1>2, <2>2
    <3>2. IsNote(list[i + 1]) /\ list[i + 1].kind = "rest"
      BY <1>2, <2>2, <3>1
    <3> QED
      BY <3>2 DEF IsNote
  <2>6. first + n - 1 <= Len(new) /\ first \in 1 .. Len(new)
    <3> HIDE DEF list, new
    <3>1. CASE n = 1
      BY <1>1, <2>2, <3>1
    <3>2. CASE n # 1
      BY <1>1, <1>2, <2>2, <2>5, <3>2
    <3> QED
      BY <3>1, <3>2
  <2>7. ASSUME NEW k \in first .. first + n - 1 PROVE ~IsSign(new[k])
    <3>1. CASE k = first
      BY <2>2, <3>1
    <3>2. CASE k # first
      <4> DEFINE t == k - first
      <4>1. n # 1 /\ t \in 1 .. n - 1 /\ first + t = k
        BY <1>2, <2>2, <3>2
      <4> HIDE DEF t
      <4>2. i = last /\ t \in 1 .. Len(list) - last /\ last + t \in i .. i + n - 1
        BY <1>1, <1>2, <2>2, <2>5, <4>1
      <4>3. new[k] = list[last + t]
        BY <2>2, <4>1, <4>2
      <4> QED
        BY <1>2, <4>2, <4>3
    <3> QED
      BY <3>1, <3>2
  <2>8. Run(r, v, first, n)
    BY <1>2, <2>6, <2>7 DEF Run
  <2>9. OnlyVoice(r, ReplaceRun(r, v, first, n, rest, len), v)
    BY <2>3, <2>4, <2>6, <2>8, ReplaceRunIs
  <2> QED
    BY <1>0, <2>1, <2>2, <2>9, OnlyVoiceTrans
<1> QED
  BY <1>3, <1>4


LEMMA ResizedIs ==
  ASSUME NEW sc \in Scores, NEW v \in DOMAIN sc.voices,
         NEW i \in 1 .. Len(sc.voices[v]), ~IsSign(sc.voices[v][i]),
         NEW len \in Lens, NEW atEnd
  PROVE  OnlyVoice(sc, Resized(sc, v, i, len, atEnd), v)
<1> DEFINE chord == Chord(sc, v, i)
           kind == sc.voices[v][i].kind
           old == sc.voices[v][i].len
           many == Cardinality(chord)
           removed == RemoveEach(sc, v, chord)
           next == IF atEnd THEN Len(removed.voices[v]) + 1 ELSE Min(chord)
           first == InsertPlayable(removed, v, next, kind, len)
           entered == AddTimes(first, v, next, many - 1)
           lens == Reverse(ComposeRests(old - len))
           filled == InsertRests(entered, v, next + many, lens)
<1>0. Resized(sc, v, i, len, atEnd) = IF len < old THEN filled ELSE entered
  BY DEF Resized, Chord, AddTimes
<1>1. sc \in Scores \cup Passes /\ Len(sc.voices[v]) \in Nat
  <2>1. sc \in Scores \cup Passes
    OBVIOUS
  <2> QED
    BY <2>1, VoiceIs
<1>2. kind \in {"note", "rest"} /\ old \in Lens
  BY <1>1, VoiceIs, ElementIs
<1>3. /\ chord \in SUBSET (1 .. Len(sc.voices[v]))
      /\ \A k \in chord : ~IsSign(sc.voices[v][k])
      /\ Min(chord) \in chord /\ many \in Nat \ {0}
      /\ many <= Len(sc.voices[v]) + 1 - Min(chord)
  <2> HIDE DEF chord
  <2> QED
    BY ChordIs DEF chord
<1> HIDE DEF chord
<1>4. /\ OnlyVoice(sc, removed, v)
      /\ Len(removed.voices[v]) = Len(sc.voices[v]) - many
  BY <1>3, RemoveEachIs
<1> HIDE DEF removed, many
<1>5. removed \in Scores /\ v \in DOMAIN removed.voices
  BY <1>4, OnlyVoiceIn
<1>6. Len(removed.voices[v]) \in Nat /\ next \in 1 .. Len(removed.voices[v]) + 1
  <2> DEFINE n == Len(sc.voices[v])
             m == Len(removed.voices[v])
             c == Min(chord)
  <2>1. n \in Nat /\ m = n - many /\ many \in Nat \ {0} /\ c \in 1 .. n /\ many <= n + 1 - c
    BY <1>1, <1>3, <1>4
  <2> HIDE DEF n, m, c
  <2>2. m \in Nat /\ m + 1 \in 1 .. m + 1 /\ c \in 1 .. m + 1
    BY <2>1
  <2> QED
    BY <2>2 DEF n, m, c
<1> HIDE DEF next, kind, old
<1>7. Inserted(removed, first, v, next)
  BY <1>2, <1>5, <1>6, InsertPlayableIs
<1> HIDE DEF first
<1>8. /\ OnlyVoice(removed, first, v) /\ Len(first.voices[v]) = Len(removed.voices[v]) + 1
      /\ ~IsSign(first.voices[v][next])
  BY <1>7 DEF Inserted
<1>9. first \in Scores /\ v \in DOMAIN first.voices
  BY <1>5, <1>8, OnlyVoiceIn
<1>10. next \in 1 .. Len(first.voices[v]) /\ many - 1 \in Nat
  BY <1>3, <1>6, <1>8
<1>11. /\ OnlyVoice(first, entered, v)
       /\ Len(entered.voices[v]) = Len(first.voices[v]) + (many - 1)
  <2> DEFINE less == many - 1
  <2> HIDE DEF less
  <2>1. less \in Nat
    BY <1>10 DEF less
  <2> QED
    BY <1>8, <1>9, <1>10, <2>1, AddTimesIs DEF less
<1> HIDE DEF entered
<1>12. entered \in Scores /\ v \in DOMAIN entered.voices
  BY <1>9, <1>11, OnlyVoiceIn
<1>13. OnlyVoice(sc, entered, v)
  BY <1>1, <1>4, <1>5, <1>8, <1>9, <1>11, OnlyVoiceTrans
<1>14. OnlyVoice(sc, filled, v)
  <2>1. lens \in Seq(Lens)
    <3>1. old - len \in Int
      BY <1>2, LensAreTimes
    <3> DEFINE gap == old - len
               composed == ComposeRests(gap)
    <3> HIDE DEF gap
    <3>2. composed \in Seq(Lens)
      BY <3>1, ComposeRestsIs DEF gap
    <3> HIDE DEF composed
    <3>3. Reverse(composed) \in Seq(Lens)
      BY <3>2, ReverseIs
    <3> QED
      BY <3>3 DEF gap, composed
  <2> HIDE DEF lens
  <2> DEFINE at1 == next + many
  <2>2. at1 \in 1 .. Len(entered.voices[v]) + 1
    BY <1>3, <1>6, <1>8, <1>10, <1>11
  <2> HIDE DEF at1
  <2>3. RestsIn(entered, InsertRests(entered, v, at1, lens), v, at1, Len(lens))
    BY <1>12, <2>1, <2>2, InsertRestsIs
  <2>4. OnlyVoice(entered, filled, v)
    BY <2>3 DEF RestsIn, at1
  <2> QED
    BY <1>1, <1>13, <2>4, OnlyVoiceTrans
<1> QED
  BY <1>0, <1>13, <1>14

-----------------------------------------------------------------------------
(* Elements are deleted *)

\* What lies below a playable are playables of the voice.
LEMMA BelowIs ==
  ASSUME NEW sc \in Scores, NEW w \in DOMAIN sc.voices, NEW p
  PROVE  /\ Below(sc, w, p) \in SUBSET (1 .. Len(sc.voices[w]))
         /\ \A j \in Below(sc, w, p) : ~IsSign(sc.voices[w][j])
<1>1. DOMAIN sc.voices[w] = 1 .. Len(sc.voices[w])
  <2>1. sc \in Scores \cup Passes
    OBVIOUS
  <2> QED
    BY <2>1, VoiceIs
<1> QED
  BY <1>1 DEF Below

LEMMA CutBelowIs ==
  ASSUME NEW sc \in Scores, NEW w \in DOMAIN sc.voices,
         NEW p, p.start \in Times, p.len \in Lens,
         NEW below \in SUBSET (1 .. Len(sc.voices[w])), below # {},
         \A j \in below : ~IsSign(sc.voices[w][j])
  PROVE  OnlyVoice(sc, CutBelow(sc, w, p, below), w)
<1> DEFINE list == sc.voices[w]
           from == list[Min(below)].start
           full == End(sc, list[Max(below)]) - from
           before == ComposeRests(p.start - from)
           under == ComposeRests(p.len)
           after == ComposeRests(full - (p.start - from + p.len))
           i == Max(below) + 1 - Cardinality(below)
           no == FALSE
           removed == RemoveEach(sc, w, below)
           lens == before \o under \o after
           rests == InsertRests(removed, w, i, lens)
<1>0. CutBelow(sc, w, p, below) = RemoveTimes(rests, w, i + Len(before), Len(under), no)
  BY DEF CutBelow, RemoveTimes
<1>1. sc \in Scores \cup Passes /\ Len(list) \in Nat /\ \A k \in 1 .. Len(list) : list[k] \in Elements
  <2>1. sc \in Scores \cup Passes
    OBVIOUS
  <2> QED
    BY <2>1, VoiceIs
<1> DEFINE n == Len(list)
<1>2. Min(below) \in below /\ Max(below) \in below /\ \A k \in below : k <= Max(below)
  <2>1. below \in SUBSET Nat /\ below \in SUBSET (0 .. n) /\ n \in Nat
    BY <1>1
  <2> HIDE DEF n, list
  <2>2. Min(below) \in below
    BY <2>1, MinIs
  <2>3. Max(below) \in below /\ \A k \in below : k <= Max(below)
    BY <2>1, MaxIs
  <2> QED
    BY <2>2, <2>3
<1> DEFINE many == Cardinality(below)
           last == Max(below)
<1>3. many \in Nat \ {0} /\ many <= last
  <2>1. last \in 1 .. n /\ below \subseteq 1 .. last
    <3>1. \A k \in below : k \in 1 .. n /\ k <= last
      BY <1>2
    <3>2. last \in 1 .. n
      BY <1>2
    <3> HIDE DEF last, n
    <3> QED
      BY <1>1, <3>1, <3>2
  <2>2. IsFiniteSet(1 .. last) /\ Cardinality(1 .. last) = last
    <3>1. last \in Int /\ 1 <= last
      BY <2>1
    <3> HIDE DEF last
    <3>2. IsFiniteSet(1 .. last) /\ Cardinality(1 .. last) = IF 1 > last THEN 0 ELSE last - 1 + 1
      BY <3>1, FS_Interval
    <3> QED
      BY <3>1, <3>2
  <2>3. IsFiniteSet(below) /\ many <= Cardinality(1 .. last)
    BY <2>1, <2>2, FS_Subset
  <2>4. many \in Nat /\ many # 0
    BY <2>3, FS_CardinalityType, FS_EmptySet
  <2> QED
    BY <2>2, <2>3, <2>4
<1>4. OnlyVoice(sc, removed, w) /\ Len(removed.voices[w]) = n - many
  BY RemoveEachIs
<1>5. before \in Seq(Lens) /\ under \in Seq(Lens) /\ after \in Seq(Lens)
  <2>1. from \in Int /\ full \in Int
    <3>1. list[Min(below)] \in Elements /\ ~IsSign(list[Min(below)]) /\ list[last] \in Elements
      BY <1>1, <1>2
    <3>2. from \in Times
      BY <3>1, ElementIs
    <3>3. End(sc, list[last]) \in Times
      BY <1>1, <3>1, StartIs
    <3> DEFINE end == End(sc, list[last])
    <3>4. full = end - from
      OBVIOUS
    <3> HIDE DEF from, end, full
    <3>5. from \in Int /\ end \in Int
      BY <3>2, <3>3, TimesAreIntegers DEF end
    <3> QED
      BY <3>4, <3>5
  <2>2. p.start - from \in Int /\ p.len \in Int /\ full - (p.start - from + p.len) \in Int
    <3>1. p.start \in Int /\ p.len \in Int
      BY TimesAreIntegers, LensAreTimes
    <3> HIDE DEF from, full
    <3> QED
      BY <2>1, <3>1
  <2> DEFINE a == p.start - from
             b == p.len
             c == full - (p.start - from + p.len)
  <2> HIDE DEF a, b, c
  <2>3. a \in Int /\ b \in Int /\ c \in Int
    BY <2>2 DEF a, b, c
  <2>4. ComposeRests(a) \in Seq(Lens) /\ ComposeRests(b) \in Seq(Lens) /\ ComposeRests(c) \in Seq(Lens)
    BY <2>3, ComposeRestsIs
  <2> QED
    BY <2>4 DEF a, b, c
<1> HIDE DEF before, under, after
<1>6. /\ lens \in Seq(Lens) /\ Len(lens) = Len(before) + Len(under) + Len(after)
      /\ Len(before) \in Nat /\ Len(under) \in Nat /\ Len(after) \in Nat
  <2>1. before \o under \in Seq(Lens) /\ Len(before \o under) = Len(before) + Len(under)
    BY <1>5, ConcatProperties
  <2> DEFINE both == before \o under
  <2> HIDE DEF both
  <2>2. both \in Seq(Lens) /\ Len(both) = Len(before) + Len(under)
    BY <2>1 DEF both
  <2>3. both \o after \in Seq(Lens) /\ Len(both \o after) = Len(both) + Len(after)
    BY <1>5, <2>2, ConcatProperties
  <2> QED
    BY <1>5, <2>2, <2>3 DEF both
<1> HIDE DEF lens, removed, many
<1>7. removed \in Scores /\ w \in DOMAIN removed.voices
  BY <1>4, OnlyVoiceIn
<1>8. i \in 1 .. Len(removed.voices[w]) + 1
  <2>1. last \in 1 .. n /\ n \in Nat /\ i = last + 1 - many
    BY <1>1, <1>2 DEF many
  <2> HIDE DEF i, n, last
  <2> QED
    BY <1>3, <1>4, <2>1
<1> HIDE DEF i
<1>9. RestsIn(removed, rests, w, i, Len(lens))
  BY <1>6, <1>7, <1>8, InsertRestsIs
<1> HIDE DEF rests
<1>10. /\ OnlyVoice(removed, rests, w)
       /\ Len(rests.voices[w]) = Len(removed.voices[w]) + Len(lens)
       /\ \A k \in i .. i + Len(lens) - 1 : ~IsSign(rests.voices[w][k])
  BY <1>9 DEF RestsIn
<1>11. rests \in Scores /\ w \in DOMAIN rests.voices
  BY <1>7, <1>10, OnlyVoiceIn
<1>12. no \in BOOLEAN
  OBVIOUS
<1> DEFINE at1 == i + Len(before)
           count == Len(under)
<1>13. /\ at1 \in Nat \ {0} /\ count \in Nat /\ at1 + count <= Len(rests.voices[w]) + 1
       /\ \A k \in at1 .. at1 + count - 1 : ~IsSign(rests.voices[w][k])
  <2>1. n - many \in Nat
    <3>1. n \in Nat /\ last \in 1 .. n
      BY <1>1, <1>2
    <3> HIDE DEF n, last
    <3> QED
      BY <1>3, <3>1
  <2>2. at1 \in Nat \ {0} /\ count \in Nat
    BY <1>6, <1>8
  <2>3. at1 + count <= Len(rests.voices[w]) + 1
    <3> HIDE DEF n
    <3> QED
      BY <1>4, <1>6, <1>8, <1>10, <2>1
  <2>4. ASSUME NEW k \in at1 .. at1 + count - 1 PROVE ~IsSign(rests.voices[w][k])
    <3>1. k \in i .. i + Len(lens) - 1
      BY <1>6, <1>8
    <3> QED
      BY <1>10, <3>1
  <2> QED
    BY <2>2, <2>3, <2>4
<1> HIDE DEF no, at1, count
<1>14. OnlyVoice(rests, RemoveTimes(rests, w, at1, count, no), w)
  BY <1>11, <1>12, <1>13, RemoveTimesIs
<1>15. OnlyVoice(sc, rests, w)
  BY <1>1, <1>4, <1>10, OnlyVoiceTrans
<1>16. OnlyVoice(sc, RemoveTimes(rests, w, at1, count, no), w)
  BY <1>1, <1>14, <1>15, OnlyVoiceTrans
<1>17. CutBelow(sc, w, p, below) = RemoveTimes(rests, w, at1, count, no)
  BY <1>0 DEF at1, count, rests, removed, lens, i, no
<1> QED
  BY <1>16, <1>17

\* The list of voice v is the same.
ButVoice(sc, r, v) == Alike(sc, r) /\ r.voices[v] = sc.voices[v]

LEMMA CutOthersIs ==
  ASSUME NEW sc \in Scores, NEW v \in DOMAIN sc.voices,
         NEW p, p.start \in Times, p.len \in Lens
  PROVE  ButVoice(sc, CutOthers(sc, v, p), v)
<1> DEFINE n == Len(sc.voices)
<1>0. sc \in Scores \cup Passes
  OBVIOUS
<1>1. n \in Nat /\ DOMAIN sc.voices = 1 .. n
  BY <1>0, ScoreIs
<1>2. PICK f : /\ f[0] = Uncut(sc)
               /\ \A k \in 1 .. n : f[k] = CutOne(f[k - 1], v, p, n + 1 - k)
               /\ CutOthers(sc, v, p) = f[n].sc
  BY <1>1, CutOthersLoop
<1> HIDE DEF n
<1> DEFINE P == {k \in 0 .. n : ButVoice(sc, f[k].sc, v)}
<1>3. 0 \in P
  <2>1. f[0].sc = sc
    BY <1>2 DEF Uncut
  <2>2. ButVoice(sc, sc, v)
    BY <1>0, AlikeSelf DEF ButVoice
  <2> QED
    BY <1>1, <2>1, <2>2
<1>4. ASSUME NEW k \in 1 .. n, k - 1 \in P
      PROVE  k \in P
  <2> DEFINE w == n + 1 - k
             acc == f[k - 1]
             below == Below(acc.sc, w, p)
             taken == IF acc.skips THEN below \ {Min(below)} ELSE below
             cut == CutBelow(acc.sc, w, p, taken)
  <2>1. ButVoice(sc, acc.sc, v)
    BY <1>4
  <2>2. acc.sc \in Scores /\ DOMAIN acc.sc.voices = DOMAIN sc.voices
    BY <1>0, <2>1, AlikeIn DEF ButVoice, Alike
  <2>3. w \in DOMAIN acc.sc.voices
    BY <1>1, <2>2
  <2>4. f[k] = CutOne(acc, v, p, w)
    BY <1>2
  <2>5. k \in 0 .. n
    BY <1>1
  <2> HIDE DEF w, acc, P
  <2>6. CASE w = v \/ below = {}
    <3>1. f[k] = acc
      BY <2>4, <2>6 DEF CutOne
    <3> QED
      BY <2>1, <2>5, <3>1 DEF P
  <2>7. CASE w # v /\ below # {}
    <3>1. f[k].sc = IF taken = {} THEN acc.sc ELSE cut
      BY <2>4, <2>7 DEF CutOne
    <3>2. taken \in SUBSET below
      OBVIOUS
    <3>3. below \in SUBSET (1 .. Len(acc.sc.voices[w])) /\ \A j \in below : ~IsSign(acc.sc.voices[w][j])
      BY <2>2, <2>3, BelowIs
    <3> HIDE DEF taken, below
    <3>4. ASSUME taken # {} PROVE ButVoice(sc, cut, v)
      <4>1. taken \in SUBSET (1 .. Len(acc.sc.voices[w])) /\ \A j \in taken : ~IsSign(acc.sc.voices[w][j])
        BY <3>2, <3>3
      <4>2. OnlyVoice(acc.sc, cut, w)
        BY <2>2, <2>3, <3>4, <4>1, CutBelowIs
      <4> HIDE DEF cut
      <4>3. Alike(sc, acc.sc) /\ Alike(acc.sc, cut)
        BY <2>1, <4>2 DEF ButVoice, OnlyVoice
      <4>4. Alike(sc, cut)
        BY <1>0, <4>3, AlikeTrans
      <4>5. cut.voices[v] = acc.sc.voices[v]
        BY <2>2, <2>7, <4>2 DEF OnlyVoice
      <4> QED
        BY <2>1, <4>4, <4>5 DEF ButVoice
    <3>5. ButVoice(sc, f[k].sc, v)
      BY <2>1, <3>1, <3>4
    <3> QED
      BY <2>5, <3>5 DEF P
  <2> QED
    BY <2>6, <2>7
<1>5. n \in P
  <2> HIDE DEF P
  <2>1. \A k \in 1 .. n : k - 1 \in P => k \in P
    BY <1>4
  <2>2. \A k \in 0 .. n : k \in P
    BY <1>1, <1>3, <2>1, Upward
  <2> QED
    BY <1>1, <2>2
<1> QED
  BY <1>2, <1>5

LEMMA DeletePlayableIs ==
  ASSUME NEW sc \in Scores, NEW v \in DOMAIN sc.voices,
         NEW i \in 1 .. Len(sc.voices[v]), ~IsSign(sc.voices[v][i]), NEW takeOut
  PROVE  Alike(sc, DeletePlayable(sc, v, i, takeOut))
<1> DEFINE p == sc.voices[v][i]
           rests == ComposeRests(p.len)
           cut == CutOthers(sc, v, p)
           filled == InsertRests(sc, v, i, rests)
           yes == TRUE
<1>0. sc \in Scores \cup Passes /\ yes \in BOOLEAN
  OBVIOUS
<1>1. \/ DeletePlayable(sc, v, i, takeOut) = RemovePlayable(sc, v, i, yes)
      \/ DeletePlayable(sc, v, i, takeOut) = RemovePlayable(cut, v, i, yes)
      \/ DeletePlayable(sc, v, i, takeOut) = RemovePlayable(filled, v, i + Len(rests), yes)
  <2> DEFINE inChord == IsNote(p) /\ Cardinality(ChordAt(sc, v, i)) > 1
             isFree == (takeOut \/ ~IsNote(p)) /\ \A w \in DOMAIN sc.voices \ {v} : ~Blocks(sc, w, p)
             a == RemovePlayable(sc, v, i, yes)
             b == RemovePlayable(cut, v, i, yes)
             c == RemovePlayable(filled, v, i + Len(rests), yes)
  <2>1. DeletePlayable(sc, v, i, takeOut) = CASE inChord -> a [] isFree -> b [] OTHER -> c
    BY DEF DeletePlayable
  <2> HIDE DEF inChord, isFree, a, b, c
  <2>2. inChord \/ (~inChord /\ isFree) \/ (~inChord /\ ~isFree)
    OBVIOUS
  <2>3. \/ DeletePlayable(sc, v, i, takeOut) = a
        \/ DeletePlayable(sc, v, i, takeOut) = b
        \/ DeletePlayable(sc, v, i, takeOut) = c
    BY <2>1
  <2> QED
    BY <2>3 DEF a, b, c
<1> HIDE DEF yes
<1>2. /\ Len(sc.voices[v]) \in Nat /\ p.start \in Times /\ p.len \in Lens
      /\ rests \in Seq(Lens) /\ Len(rests) \in Nat
  <2>1. Len(sc.voices[v]) \in Nat /\ p \in Elements
    BY <1>0, VoiceIs
  <2>2. p.start \in Times /\ p.len \in Lens
    BY <2>1, ElementIs
  <2> DEFINE len == p.len
  <2> HIDE DEF len
  <2>3. len \in Int
    BY <2>2, LensAreTimes DEF len
  <2>4. ComposeRests(len) \in Seq(Lens)
    BY <2>3, ComposeRestsIs
  <2> QED
    BY <2>1, <2>2, <2>4 DEF len
<1> HIDE DEF rests
<1>3. Alike(sc, RemovePlayable(sc, v, i, yes))
  BY <1>0, RemovePlayableIs DEF Removed, OnlyVoice
<1>4. Alike(sc, RemovePlayable(cut, v, i, yes))
  <2>1. ButVoice(sc, cut, v)
    BY <1>2, CutOthersIs
  <2> HIDE DEF cut
  <2>2. Alike(sc, cut) /\ cut.voices[v] = sc.voices[v]
    BY <2>1 DEF ButVoice
  <2>3. cut \in Scores /\ v \in DOMAIN cut.voices
    BY <1>0, <2>2, AlikeIn DEF Alike
  <2>4. Alike(cut, RemovePlayable(cut, v, i, yes))
    BY <1>0, <2>2, <2>3, RemovePlayableIs DEF Removed, OnlyVoice
  <2> QED
    BY <1>0, <2>2, <2>4, AlikeTrans
<1>5. Alike(sc, RemovePlayable(filled, v, i + Len(rests), yes))
  <2> DEFINE n == Len(rests)
             old == sc.voices[v]
             new == filled.voices[v]
  <2>1. RestsIn(sc, filled, v, i, n)
    <3>1. i \in 1 .. Len(sc.voices[v]) + 1
      BY <1>2
    <3> QED
      BY <1>2, <3>1, InsertRestsIs
  <2> HIDE DEF filled
  <2>2. /\ OnlyVoice(sc, filled, v) /\ Len(new) = Len(old) + n
        /\ \A k \in i .. Len(old) : ~IsSign(old[k]) => ~IsSign(new[k + n])
    BY <2>1 DEF RestsIn
  <2>3. filled \in Scores /\ v \in DOMAIN filled.voices
    BY <2>2, OnlyVoiceIn
  <2> DEFINE j == i + n
  <2>4. j \in 1 .. Len(new) /\ ~IsSign(new[j])
    <3>1. i \in i .. Len(old)
      BY <1>2
    <3>2. ~IsSign(new[j])
      BY <2>2, <3>1
    <3>3. j \in 1 .. Len(new)
      BY <1>2, <2>2
    <3> QED
      BY <3>2, <3>3
  <2> HIDE DEF j
  <2>5. Alike(filled, RemovePlayable(filled, v, j, yes))
    BY <1>0, <2>3, <2>4, RemovePlayableIs DEF Removed, OnlyVoice
  <2>6. Alike(sc, filled)
    BY <2>2 DEF OnlyVoice
  <2>7. Alike(sc, RemovePlayable(filled, v, j, yes))
    BY <1>0, <2>5, <2>6, AlikeTrans
  <2> QED
    BY <2>7 DEF j
<1> QED
  BY <1>1, <1>3, <1>4, <1>5

-----------------------------------------------------------------------------
(* The notes of a list *)

Notes == {e \in Elements : IsNote(e)}

LEMMA NotesOfIs ==
  ASSUME NEW list \in Lists
  PROVE  NotesOf(list) \in Seq(Notes)
<1> DEFINE n == Len(list)
<1>1. n \in Nat /\ \A k \in 1 .. n : list[k] \in Elements
  BY DEF Lists
<1>2. PICK f : /\ f[0] = <<>>
               /\ \A k \in 1 .. n : f[k] = IF IsNote(list[k]) THEN Append(f[k - 1], list[k]) ELSE f[k - 1]
               /\ NotesOf(list) = f[n]
  BY <1>1, NotesOfLoop
<1> HIDE DEF n
<1> DEFINE P == {k \in 0 .. n : f[k] \in Seq(Notes)}
<1>3. 0 \in P
  <2>1. f[0] \in Seq(Notes)
    <3>1. <<>> \in Seq(Notes)
      OBVIOUS
    <3> QED
      BY <1>2, <3>1
  <2> QED
    BY <1>1, <2>1
<1>4. ASSUME NEW k \in 1 .. n, k - 1 \in P
      PROVE  k \in P
  <2>1. f[k - 1] \in Seq(Notes) /\ k \in 0 .. n
    BY <1>1, <1>4
  <2>2. CASE IsNote(list[k])
    <3>1. list[k] \in Notes /\ f[k] = Append(f[k - 1], list[k])
      BY <1>1, <1>2, <2>2 DEF Notes
    <3> DEFINE acc == f[k - 1]
               e == list[k]
    <3> HIDE DEF acc, e
    <3>2. Append(acc, e) \in Seq(Notes)
      BY <2>1, <3>1, AppendProperties DEF acc, e
    <3> QED
      BY <2>1, <3>1, <3>2 DEF acc, e
  <2>3. CASE ~IsNote(list[k])
    BY <1>2, <2>1, <2>3
  <2> QED
    BY <2>2, <2>3
<1>5. n \in P
  <2> HIDE DEF P
  <2>1. \A k \in 1 .. n : k - 1 \in P => k \in P
    BY <1>4
  <2>2. \A k \in 0 .. n : k \in P
    BY <1>1, <1>3, <2>1, Upward
  <2> QED
    BY <1>1, <2>2
<1> QED
  BY <1>2, <1>5

\* Behind the first i elements, m of old that are no notes have given way to n
\* of new that are none; the others are the same.
Exchanged(old, new, i, m, n) ==
  /\ i + m <= Len(old) /\ Len(new) = Len(old) - m + n
  /\ \A k \in 1 .. i : new[k] = old[k]
  /\ \A k \in i + 1 .. i + m : ~IsNote(old[k])
  /\ \A k \in i + 1 .. i + n : ~IsNote(new[k])
  /\ \A k \in 1 .. Len(old) - i - m : new[i + n + k] = old[i + m + k]

\* Then the notes are the same.
LEMMA ExchangedNotes ==
  ASSUME NEW old \in Lists, NEW new \in Lists, NEW i \in Nat, NEW m \in Nat, NEW n \in Nat,
         Exchanged(old, new, i, m, n)
  PROVE  NotesOf(new) = NotesOf(old)
<1> DEFINE a == Len(old)
           b == Len(new)
<1>1. a \in Nat /\ b \in Nat
  BY DEF Lists
<1>2. /\ i + m <= a /\ b = a - m + n
      /\ \A k \in 1 .. i : new[k] = old[k]
      /\ \A k \in i + 1 .. i + m : ~IsNote(old[k])
      /\ \A k \in i + 1 .. i + n : ~IsNote(new[k])
      /\ \A k \in 1 .. a - i - m : new[i + n + k] = old[i + m + k]
  BY DEF Exchanged
<1>3. PICK f : /\ f[0] = <<>>
               /\ \A k \in 1 .. a : f[k] = IF IsNote(old[k]) THEN Append(f[k - 1], old[k]) ELSE f[k - 1]
               /\ NotesOf(old) = f[a]
  BY <1>1, NotesOfLoop
<1>4. PICK g : /\ g[0] = <<>>
               /\ \A k \in 1 .. b : g[k] = IF IsNote(new[k]) THEN Append(g[k - 1], new[k]) ELSE g[k - 1]
               /\ NotesOf(new) = g[b]
  BY <1>1, NotesOfLoop
<1> HIDE DEF a, b
<1>5. g[i] = f[i]
  <2> DEFINE P == {k \in 0 .. i : g[k] = f[k]}
  <2>1. 0 \in P
    BY <1>3, <1>4
  <2>2. ASSUME NEW k \in 1 .. i, k - 1 \in P
        PROVE  k \in P
    <3>1. k \in 1 .. a /\ k \in 1 .. b /\ new[k] = old[k] /\ g[k - 1] = f[k - 1]
      BY <1>1, <1>2, <2>2
    <3>2. g[k] = f[k]
      BY <1>3, <1>4, <3>1
    <3> QED
      BY <3>2
  <2> HIDE DEF P
  <2>3. \A k \in 0 .. i : k \in P
    BY <2>1, <2>2, Upward
  <2> QED
    BY <2>3 DEF P
<1>6. f[i + m] = f[i]
  <2> DEFINE P == {k \in 0 .. m : f[i + k] = f[i]}
  <2>1. 0 \in P
    OBVIOUS
  <2>2. ASSUME NEW k \in 1 .. m, k - 1 \in P
        PROVE  k \in P
    <3>1. i + k \in 1 .. a /\ i + k \in i + 1 .. i + m /\ (i + k) - 1 = i + (k - 1)
      BY <1>1, <1>2
    <3>2. f[i + k] = f[(i + k) - 1]
      BY <1>2, <1>3, <3>1
    <3> QED
      BY <2>2, <3>1, <3>2
  <2> HIDE DEF P
  <2>3. \A k \in 0 .. m : k \in P
    BY <2>1, <2>2, Upward
  <2> QED
    BY <2>3 DEF P
<1>7. g[i + n] = g[i]
  <2> DEFINE P == {k \in 0 .. n : g[i + k] = g[i]}
  <2>1. 0 \in P
    OBVIOUS
  <2>2. ASSUME NEW k \in 1 .. n, k - 1 \in P
        PROVE  k \in P
    <3>1. i + k \in 1 .. b /\ i + k \in i + 1 .. i + n /\ (i + k) - 1 = i + (k - 1)
      BY <1>1, <1>2
    <3>2. g[i + k] = g[(i + k) - 1]
      BY <1>2, <1>4, <3>1
    <3> QED
      BY <2>2, <3>1, <3>2
  <2> HIDE DEF P
  <2>3. \A k \in 0 .. n : k \in P
    BY <2>1, <2>2, Upward
  <2> QED
    BY <2>3 DEF P
<1>8. g[b] = f[a]
  <2> DEFINE rest == a - i - m
             P == {k \in 0 .. rest : g[i + n + k] = f[i + m + k]}
  <2>0. rest \in Nat /\ i + n + rest = b /\ i + m + rest = a
    BY <1>1, <1>2
  <2>1. 0 \in P
    BY <1>5, <1>6, <1>7, <2>0
  <2>2. ASSUME NEW k \in 1 .. rest, k - 1 \in P
        PROVE  k \in P
    <3> DEFINE x == i + n + k
               y == i + m + k
    <3>1. /\ x \in 1 .. b /\ y \in 1 .. a
          /\ x - 1 = i + n + (k - 1) /\ y - 1 = i + m + (k - 1)
      BY <1>1, <2>0
    <3>2. new[x] = old[y] /\ g[x - 1] = f[y - 1]
      BY <1>2, <2>2, <3>1
    <3> HIDE DEF x, y
    <3>3. g[x] = f[y]
      BY <1>3, <1>4, <3>1, <3>2
    <3> QED
      BY <2>0, <3>3 DEF x, y
  <2> HIDE DEF P, rest
  <2>3. \A k \in 0 .. rest : k \in P
    BY <2>0, <2>1, <2>2, Upward
  <2>4. rest \in P
    BY <2>0, <2>3
  <2>5. g[i + n + rest] = f[i + m + rest]
    BY <2>4 DEF P
  <2> QED
    BY <2>0, <2>5
<1> QED
  BY <1>3, <1>4, <1>8

\* OnlyDelays is reflexive and transitive.
LEMMA DelaysSelf ==
  ASSUME NEW list \in Seq(Notes)
  PROVE  OnlyDelays(list, list)
<1>1. ASSUME NEW k \in DOMAIN list PROVE list[k].start >= list[k].start
  <2>1. list[k] \in Elements /\ ~IsSign(list[k])
    BY ElementIs DEF Notes
  <2>2. list[k].start \in Int
    BY <2>1, ElementIs, TimesAreIntegers
  <2> QED
    BY <2>2
<1> QED
  BY <1>1 DEF OnlyDelays

LEMMA DelaysTrans ==
  ASSUME NEW a \in Seq(Notes), NEW b \in Seq(Notes), NEW c \in Seq(Notes),
         OnlyDelays(a, b), OnlyDelays(b, c)
  PROVE  OnlyDelays(a, c)
<1>1. Len(a) = Len(b) /\ Len(b) = Len(c)
  BY DEF OnlyDelays
<1>2. ASSUME NEW k \in DOMAIN c PROVE c[k].len = a[k].len /\ c[k].start >= a[k].start
  <2>1. k \in DOMAIN a /\ k \in DOMAIN b
    BY <1>1
  <2>2. a[k] \in Notes /\ b[k] \in Notes /\ c[k] \in Notes
    BY <2>1
  <2>3. a[k].start \in Int /\ b[k].start \in Int /\ c[k].start \in Int
    BY <2>2, ElementIs, TimesAreIntegers DEF Notes
  <2>4. b[k].len = a[k].len /\ b[k].start >= a[k].start /\ c[k].len = b[k].len /\ c[k].start >= b[k].start
    BY <2>1 DEF OnlyDelays
  <2> QED
    BY <2>3, <2>4
<1> QED
  BY <1>1, <1>2 DEF OnlyDelays

\* A note more on both sides.
LEMMA DelaysAppend ==
  ASSUME NEW a \in Seq(Notes), NEW b \in Seq(Notes), NEW x \in Notes, NEW y \in Notes,
         OnlyDelays(a, b), y.len = x.len, y.start >= x.start
  PROVE  OnlyDelays(Append(a, x), Append(b, y))
<1>1. Len(a) = Len(b) /\ \A k \in DOMAIN b : b[k].len = a[k].len /\ b[k].start >= a[k].start
  BY DEF OnlyDelays
<1>2. /\ Len(Append(a, x)) = Len(a) + 1 /\ Len(Append(b, y)) = Len(b) + 1
      /\ DOMAIN Append(b, y) = 1 .. Len(b) + 1
      /\ Append(a, x)[Len(a) + 1] = x /\ Append(b, y)[Len(b) + 1] = y
      /\ \A k \in 1 .. Len(a) : Append(a, x)[k] = a[k]
      /\ \A k \in 1 .. Len(b) : Append(b, y)[k] = b[k]
  OBVIOUS
<1> DEFINE s == Append(a, x)
           t == Append(b, y)
<1> HIDE DEF s, t
<1>3. ASSUME NEW k \in 1 .. Len(b) + 1 PROVE t[k].len = s[k].len /\ t[k].start >= s[k].start
  <2>1. CASE k = Len(b) + 1
    BY <1>1, <1>2, <2>1 DEF s, t
  <2>2. CASE k # Len(b) + 1
    <3>1. k \in 1 .. Len(b) /\ k \in DOMAIN b
      BY <2>2
    <3> QED
      BY <1>1, <1>2, <3>1 DEF s, t
  <2> QED
    BY <2>1, <2>2
<1>4. DOMAIN t = 1 .. Len(b) + 1 /\ Len(s) = Len(t)
  BY <1>1, <1>2 DEF s, t
<1> QED
  BY <1>3, <1>4 DEF OnlyDelays, s, t

\* Playables that start later delay the notes and do nothing else to them.
LEMMA LaterDelays ==
  ASSUME NEW list \in Lists, NEW i \in Int, NEW delta \in Times, delta >= 0
  PROVE  OnlyDelays(NotesOf(list), NotesOf(Later(list, i, delta)))
<1> DEFINE n == Len(list)
           new == Later(list, i, delta)
<1>1. n \in Nat /\ \A k \in 1 .. n : list[k] \in Elements
  BY DEF Lists
<1>2. /\ new \in Lists /\ Len(new) = n
      /\ \A k \in 1 .. n : new[k] = IF k >= i THEN Moved(list[k], delta) ELSE list[k]
  BY LaterIs
<1> HIDE DEF new
<1>3. PICK f : /\ f[0] = <<>>
               /\ \A k \in 1 .. n : f[k] = IF IsNote(list[k]) THEN Append(f[k - 1], list[k]) ELSE f[k - 1]
               /\ NotesOf(list) = f[n]
  BY <1>1, NotesOfLoop
<1>4. PICK g : /\ g[0] = <<>>
               /\ \A k \in 1 .. n : g[k] = IF IsNote(new[k]) THEN Append(g[k - 1], new[k]) ELSE g[k - 1]
               /\ NotesOf(new) = g[n]
  BY <1>1, <1>2, NotesOfLoop
<1> HIDE DEF n
<1>5. ASSUME NEW k \in 1 .. n
      PROVE  /\ IsNote(new[k]) <=> IsNote(list[k])
             /\ IsNote(list[k]) => /\ list[k] \in Notes /\ new[k] \in Notes
                                   /\ new[k].len = list[k].len /\ new[k].start >= list[k].start
  <2>1. list[k] \in Elements
    BY <1>1
  <2>2. IsNote(list[k]) => ~IsSign(list[k]) /\ list[k].start \in Int /\ delta \in Int
    BY <2>1, ElementIs, TimesAreIntegers
  <2>3. CASE k >= i
    <3>1. new[k] = Moved(list[k], delta)
      BY <1>2, <2>3
    <3> DEFINE e == list[k]
    <3> HIDE DEF e
    <3>2. /\ Moved(e, delta) \in Elements /\ (IsNote(Moved(e, delta)) <=> IsNote(e))
          /\ ~IsSign(e) => Moved(e, delta).len = e.len /\ Moved(e, delta).start = e.start + delta
      BY <2>1, MovedIs DEF e
    <3> QED
      BY <2>1, <2>2, <3>1, <3>2 DEF e, Notes
  <2>4. CASE ~(k >= i)
    <3>1. new[k] = list[k]
      BY <1>2, <2>4
    <3> QED
      BY <2>1, <2>2, <3>1 DEF Notes
  <2> QED
    BY <2>3, <2>4
<1> DEFINE P == {k \in 0 .. n : f[k] \in Seq(Notes) /\ g[k] \in Seq(Notes) /\ OnlyDelays(f[k], g[k])}
<1>6. 0 \in P
  <2> DEFINE none == <<>>
  <2>1. none \in Seq(Notes) /\ f[0] = none /\ g[0] = none
    BY <1>3, <1>4
  <2> HIDE DEF none
  <2>2. OnlyDelays(none, none)
    BY <2>1, DelaysSelf
  <2> QED
    BY <1>1, <2>1, <2>2
<1>7. ASSUME NEW k \in 1 .. n, k - 1 \in P
      PROVE  k \in P
  <2> DEFINE a == f[k - 1]
             b == g[k - 1]
             x == list[k]
             y == new[k]
  <2>1. a \in Seq(Notes) /\ b \in Seq(Notes) /\ OnlyDelays(a, b) /\ k \in 0 .. n
    BY <1>1, <1>7
  <2>2. CASE IsNote(list[k])
    <3>1. f[k] = Append(a, x) /\ g[k] = Append(b, y)
      BY <1>3, <1>4, <1>5, <2>2
    <3>2. x \in Notes /\ y \in Notes /\ y.len = x.len /\ y.start >= x.start
      BY <1>5, <2>2
    <3> HIDE DEF a, b, x, y
    <3>3. OnlyDelays(Append(a, x), Append(b, y))
      BY <2>1, <3>2, DelaysAppend
    <3>4. Append(a, x) \in Seq(Notes) /\ Append(b, y) \in Seq(Notes)
      BY <2>1, <3>2, AppendProperties
    <3> QED
      BY <2>1, <3>1, <3>3, <3>4
  <2>3. CASE ~IsNote(list[k])
    <3>1. f[k] = a /\ g[k] = b
      BY <1>3, <1>4, <1>5, <2>3
    <3> HIDE DEF a, b
    <3> QED
      BY <2>1, <3>1
  <2> QED
    BY <2>2, <2>3
<1>8. n \in P
  <2> HIDE DEF P
  <2>1. \A k \in 1 .. n : k - 1 \in P => k \in P
    BY <1>7
  <2>2. \A k \in 0 .. n : k \in P
    BY <1>1, <1>6, <2>1, Upward
  <2> QED
    BY <1>1, <2>2
<1> QED
  BY <1>3, <1>4, <1>8 DEF new

-----------------------------------------------------------------------------
(* The steps of a pass of synchronizeVoices *)

\* The walk is inside its voices.
Sound(p) ==
  /\ p \in Passes /\ Len(p.idx) = Len(p.voices)
  /\ \A v \in 1 .. Len(p.voices) : p.idx[v] <= Len(p.voices[v])

\* The walk is at the same time, as far from the end of each voice and not
\* nearer to its start; the notes only start later.
Repairs(p, q) ==
  /\ Sound(q) /\ Len(q.voices) = Len(p.voices) /\ q.now = p.now
  /\ \A v \in 1 .. Len(p.voices) :
       /\ q.idx[v] >= p.idx[v]
       /\ Len(q.voices[v]) - q.idx[v] = Len(p.voices[v]) - p.idx[v]
       /\ OnlyDelays(NotesOf(p.voices[v]), NotesOf(q.voices[v]))

LEMMA SoundVoiceIs ==
  ASSUME NEW p, Sound(p), NEW v \in 1 .. Len(p.voices)
  PROVE  /\ p.voices[v] \in Lists /\ Len(p.voices[v]) \in Nat
         /\ p.idx[v] \in Nat /\ p.idx[v] <= Len(p.voices[v])
         /\ NotesOf(p.voices[v]) \in Seq(Notes)
<1>1. p.voices \in Seq(Lists) /\ p.idx \in Seq(Nat) /\ Len(p.idx) = Len(p.voices)
  BY DEF Sound, Passes
<1>2. p.voices[v] \in Lists /\ p.idx[v] \in Nat
  BY <1>1
<1>3. Len(p.voices[v]) \in Nat
  BY <1>2 DEF Lists
<1>4. p.idx[v] <= Len(p.voices[v])
  BY DEF Sound
<1>5. NotesOf(p.voices[v]) \in Seq(Notes)
  BY <1>2, NotesOfIs
<1> QED
  BY <1>2, <1>3, <1>4, <1>5

LEMMA SoundIs ==
  ASSUME NEW p, Sound(p)
  PROVE  /\ p \in Passes /\ p \in Scores \cup Passes
         /\ p.voices \in Seq(Lists) /\ p.at \in [Signs -> Times]
         /\ p.idx \in Seq(Nat) /\ p.now \in Times /\ p.now \in Int
         /\ Len(p.voices) \in Nat /\ DOMAIN p.voices = 1 .. Len(p.voices)
         /\ DOMAIN p.idx = 1 .. Len(p.voices)
<1>1. p \in Passes /\ Len(p.idx) = Len(p.voices)
  BY DEF Sound
<1>2. p.voices \in Seq(Lists) /\ p.at \in [Signs -> Times] /\ p.idx \in Seq(Nat) /\ p.now \in Times
  BY <1>1 DEF Passes
<1>3. Len(p.voices) \in Nat /\ DOMAIN p.voices = 1 .. Len(p.voices)
  BY <1>2
<1>4. DOMAIN p.idx = 1 .. Len(p.idx)
  BY <1>2
<1>5. p.now \in Int
  BY <1>2, TimesAreIntegers
<1> QED
  BY <1>1, <1>2, <1>3, <1>4, <1>5

LEMMA RepairsSelf ==
  ASSUME NEW p, Sound(p)
  PROVE  Repairs(p, p)
<1>1. ASSUME NEW v \in 1 .. Len(p.voices)
      PROVE  p.idx[v] >= p.idx[v] /\ OnlyDelays(NotesOf(p.voices[v]), NotesOf(p.voices[v]))
  BY SoundVoiceIs, DelaysSelf
<1> QED
  BY <1>1 DEF Repairs

LEMMA RepairsTrans ==
  ASSUME NEW a, NEW b, NEW c, Sound(a), Repairs(a, b), Repairs(b, c)
  PROVE  Repairs(a, c)
<1>1. Sound(b) /\ Sound(c) /\ Len(b.voices) = Len(a.voices) /\ Len(c.voices) = Len(a.voices) /\ c.now = a.now
  BY DEF Repairs
<1>2. ASSUME NEW v \in 1 .. Len(a.voices)
      PROVE  /\ c.idx[v] >= a.idx[v]
             /\ Len(c.voices[v]) - c.idx[v] = Len(a.voices[v]) - a.idx[v]
             /\ OnlyDelays(NotesOf(a.voices[v]), NotesOf(c.voices[v]))
  <2>0. v \in 1 .. Len(b.voices) /\ v \in 1 .. Len(c.voices)
    BY <1>1
  <2>1. /\ a.idx[v] \in Nat /\ NotesOf(a.voices[v]) \in Seq(Notes)
        /\ b.idx[v] \in Nat /\ NotesOf(b.voices[v]) \in Seq(Notes)
        /\ c.idx[v] \in Nat /\ NotesOf(c.voices[v]) \in Seq(Notes)
        /\ Len(a.voices[v]) \in Nat /\ Len(b.voices[v]) \in Nat /\ Len(c.voices[v]) \in Nat
    BY <1>1, <2>0, SoundVoiceIs
  <2>2. /\ b.idx[v] >= a.idx[v] /\ c.idx[v] >= b.idx[v]
        /\ Len(b.voices[v]) - b.idx[v] = Len(a.voices[v]) - a.idx[v]
        /\ Len(c.voices[v]) - c.idx[v] = Len(b.voices[v]) - b.idx[v]
        /\ OnlyDelays(NotesOf(a.voices[v]), NotesOf(b.voices[v]))
        /\ OnlyDelays(NotesOf(b.voices[v]), NotesOf(c.voices[v]))
    BY <1>1 DEF Repairs
  <2>3. OnlyDelays(NotesOf(a.voices[v]), NotesOf(c.voices[v]))
    BY <2>1, <2>2, DelaysTrans
  <2> DEFINE i == a.idx[v]
             j == b.idx[v]
             k == c.idx[v]
             l == Len(a.voices[v])
             m == Len(b.voices[v])
             n == Len(c.voices[v])
  <2>4. i \in Nat /\ j \in Nat /\ k \in Nat /\ l \in Nat /\ m \in Nat /\ n \in Nat
    BY <2>1
  <2>5. j >= i /\ k >= j /\ m - j = l - i /\ n - k = m - j
    BY <2>2
  <2> HIDE DEF i, j, k, l, m, n
  <2>6. k >= i /\ n - k = l - i
    BY <2>4, <2>5
  <2> QED
    BY <2>3, <2>6 DEF i, k, l, n
<1> QED
  BY <1>1, <1>2 DEF Repairs

\* Rests that fill a gap before the sign a voice is on.
LEMMA FillGapRepairs ==
  ASSUME NEW p, Sound(p), NEW v \in 1 .. Len(p.voices), p.idx[v] # 0,
         NEW from \in Times, NEW gap \in Times, gap > 0
  PROVE  Repairs(p, FillGap(p, v, from, gap))
<1> DEFINE lens == ComposeRests(gap)
           n == Len(lens)
           rests == [k \in DOMAIN lens |->
                      Playable("rest", from + Total(SubSeq(lens, 1, k - 1)), lens[k])]
           list == p.voices[v]
           i == p.idx[v]
           a == SubSeq(list, 1, i - 1)
           b == SubSeq(list, i, Len(list))
           new == a \o rests \o b
           filled == WithList(p, v, new)
           no == FALSE
           later == UpdateTimes(filled, v, i + n, gap, no)
           idx == At(p.idx, v, i + n)
           q == [later EXCEPT !.idx = idx]
<1>0. FillGap(p, v, from, gap) = q
  BY DEF FillGap
<1>1. /\ p \in Passes /\ p \in Scores \cup Passes /\ p.idx \in Seq(Nat)
      /\ p.voices \in Seq(Lists) /\ DOMAIN p.voices = 1 .. Len(p.voices)
      /\ DOMAIN p.idx = 1 .. Len(p.voices) /\ Len(p.voices) \in Nat
      /\ list \in Lists /\ Len(list) \in Nat /\ i \in 1 .. Len(list)
  <2>1. p.idx[v] \in Nat /\ p.idx[v] <= Len(p.voices[v]) /\ Len(p.voices[v]) \in Nat /\ p.voices[v] \in Lists
    BY SoundVoiceIs
  <2>2. i \in 1 .. Len(list)
    BY <2>1
  <2> QED
    BY <2>1, <2>2, SoundIs
<1> HIDE DEF list, i
<1>2. /\ rests \in Seq(Elements) /\ Len(rests) = n /\ n \in Nat
      /\ \A k \in 1 .. n : ~IsNote(rests[k])
  <2>1. gap \in Int
    BY TimesAreIntegers
  <2>2. lens \in Seq(Lens)
    BY <2>1, ComposeRestsIs
  <2> HIDE DEF lens
  <2>3. n \in Nat /\ DOMAIN lens = 1 .. n
    BY <2>2
  <2> DEFINE rest == "rest"
             e(k) == Playable(rest, from + Total(SubSeq(lens, 1, k - 1)), lens[k])
  <2>4. ASSUME NEW k \in 1 .. n PROVE e(k) \in Elements /\ ~IsNote(e(k))
    <3> DEFINE s == SubSeq(lens, 1, k - 1)
               t == Total(s)
               len == lens[k]
    <3>1. s \in Seq(Times)
      <4>1. \A j \in 1 .. k - 1 : lens[j] \in Times
        BY <2>2, LensAreTimes
      <4> HIDE DEF lens
      <4> QED
        BY <4>1, SubSeqProperties
    <3> HIDE DEF s
    <3>2. t \in Times
      <4> DEFINE S == Times
      <4>1. S = Nat \/ S = Times
        OBVIOUS
      <4> HIDE DEF S
      <4>2. s \in Seq(S)
        BY <3>1 DEF S
      <4>3. Total(s) \in S
        BY <4>1, <4>2, TotalIs
      <4> QED
        BY <4>3 DEF S
    <3> HIDE DEF t
    <3>3. from + t \in Times
      BY <3>2, TimesAdd
    <3>4. len \in Lens
      BY <2>2
    <3> DEFINE start == from + t
    <3>5. rest \in {"note", "rest"} /\ rest # "note"
      OBVIOUS
    <3> HIDE DEF start, len, rest
    <3>6. Playable(rest, start, len) \in Elements /\ (IsNote(Playable(rest, start, len)) <=> rest = "note")
      BY <3>3, <3>4, <3>5, PlayableIs DEF start
    <3>7. Playable(rest, start, len) \in Elements /\ ~IsNote(Playable(rest, start, len))
      BY <3>5, <3>6
    <3> QED
      BY <3>7 DEF start, len, s, t
  <2>5. rests = [k \in 1 .. n |-> e(k)]
    BY <2>3
  <2> HIDE DEF e, rests, n
  <2>6. rests \in [1 .. n -> Elements] /\ \A k \in 1 .. n : ~IsNote(rests[k])
    BY <2>4, <2>5
  <2> QED
    BY <2>3, <2>6, IsSequence
<1> HIDE DEF rests, n
<1>3. /\ a \in Seq(Elements) /\ Len(a) = i - 1 /\ \A k \in 1 .. i - 1 : a[k] = list[k]
      /\ b \in Seq(Elements) /\ Len(b) = Len(list) - i + 1
      /\ \A k \in 1 .. Len(list) - i + 1 : b[k] = list[i + k - 1]
  <2>1. i - 1 \in Int /\ i \in Int /\ Len(list) \in Int /\ list \in Seq(Elements)
    BY <1>1 DEF Lists
  <2>2. /\ \A k \in 1 .. i - 1 : list[k] \in Elements
        /\ \A k \in i .. Len(list) : list[k] \in Elements
    <3>1. \A k \in 1 .. Len(list) : list[k] \in Elements
      BY <2>1
    <3> QED
      BY <1>1, <3>1
  <2>3. /\ a \in Seq(Elements) /\ Len(a) = i - 1 /\ \A k \in 1 .. i - 1 : a[k] = list[k]
    BY <1>1, <2>1, <2>2, SubSeqProperties
  <2>4. /\ b \in Seq(Elements) /\ Len(b) = Len(list) - i + 1
        /\ \A k \in 1 .. Len(list) - i + 1 : b[k] = list[i + k - 1]
    BY <1>1, <2>1, <2>2, SubSeqProperties
  <2> QED
    BY <2>3, <2>4
<1> HIDE DEF a, b
<1>4. new \in Lists /\ Len(new) = Len(list) + n /\ Exchanged(list, new, i - 1, 0, n)
  <2> DEFINE ar == a \o rests
  <2>1. /\ ar \in Seq(Elements) /\ Len(ar) = i - 1 + n
        /\ \A k \in 1 .. i - 1 : ar[k] = a[k]
        /\ \A k \in 1 .. n : ar[i - 1 + k] = rests[k]
    <3>1. /\ ar \in Seq(Elements) /\ Len(ar) = Len(a) + Len(rests)
          /\ \A k \in 1 .. Len(a) : ar[k] = a[k]
          /\ \A k \in 1 .. Len(rests) : ar[Len(a) + k] = rests[k]
      <4>1. a \in Seq(Elements) /\ rests \in Seq(Elements)
        BY <1>2, <1>3
      <4> QED
        BY <4>1, BehindIs
    <3> HIDE DEF ar
    <3> QED
      BY <1>2, <1>3, <3>1
  <2>2. /\ new \in Seq(Elements) /\ Len(new) = Len(ar) + Len(b)
        /\ \A k \in 1 .. Len(ar) : new[k] = ar[k]
        /\ \A k \in 1 .. Len(b) : new[Len(ar) + k] = b[k]
    <3>1. new = ar \o b
      OBVIOUS
    <3> HIDE DEF ar, new
    <3>2. ar \in Seq(Elements) /\ b \in Seq(Elements)
      BY <1>3, <2>1
    <3> QED
      BY <3>1, <3>2, BehindIs
  <2> HIDE DEF ar
  <2> HIDE DEF new
  <2>3. Len(new) = Len(list) + n
    BY <1>1, <1>2, <1>3, <2>1, <2>2
  <2>4. ASSUME NEW k \in 1 .. i - 1 PROVE new[k] = list[k]
    BY <1>1, <1>2, <1>3, <2>1, <2>2
  <2>5. ASSUME NEW k \in i - 1 + 1 .. i - 1 + n PROVE ~IsNote(new[k])
    <3> DEFINE j == k - (i - 1)
    <3>1. j \in 1 .. n /\ i - 1 + j = k /\ k \in 1 .. Len(ar)
      BY <1>1, <1>2, <2>1, SMTT(60)
    <3> HIDE DEF j
    <3>2. new[k] = ar[k] /\ ar[i - 1 + j] = rests[j]
      BY <2>1, <2>2, <3>1
    <3> QED
      BY <1>2, <3>1, <3>2
  <2>6. ASSUME NEW k \in 1 .. Len(list) - (i - 1) - 0 PROVE new[i - 1 + n + k] = list[i - 1 + 0 + k]
    <3>1. k \in 1 .. Len(b) /\ Len(ar) + k = i - 1 + n + k /\ i + k - 1 = i - 1 + 0 + k /\ k \in 1 .. Len(list) - i + 1
      BY <1>1, <1>2, <1>3, <2>1
    <3>2. new[Len(ar) + k] = b[k] /\ b[k] = list[i + k - 1]
      BY <1>3, <2>2, <3>1
    <3> QED
      BY <3>1, <3>2
  <2>7. Exchanged(list, new, i - 1, 0, n)
    BY <1>1, <1>2, <2>3, <2>4, <2>5, <2>6 DEF Exchanged
  <2> QED
    BY <2>2, <2>3, <2>7 DEF Lists
<1>5. NotesOf(new) = NotesOf(list)
  <2> DEFINE j == i - 1
             zero == 0
  <2>1. j \in Nat /\ zero \in Nat
    BY <1>1
  <2> HIDE DEF j, zero, new, list
  <2>2. Exchanged(list, new, j, zero, n)
    BY <1>4 DEF j, zero
  <2> QED
    BY <1>1, <1>2, <1>4, <2>1, <2>2, ExchangedNotes
<1> HIDE DEF new
<1>6. filled.voices = [p.voices EXCEPT ![v] = new] /\ Alike(p, filled)
  BY <1>1, <1>4, WithListIs
<1> HIDE DEF filled
<1>7. /\ filled \in Passes /\ filled.now = p.now /\ filled \in Scores \cup Passes
      /\ filled.voices[v] = new /\ v \in DOMAIN filled.voices
  BY <1>1, <1>6 DEF Alike
<1>8. no \in BOOLEAN /\ i + n \in Int
  <2>1. no \in BOOLEAN
    OBVIOUS
  <2> HIDE DEF no
  <2> QED
    BY <1>1, <1>2, <2>1
<1> HIDE DEF no
<1>9. /\ Alike(filled, later)
      /\ later.voices = [filled.voices EXCEPT ![v] = Later(new, i + n, gap)]
  <2> DEFINE j == i + n
  <2> HIDE DEF j
  <2>1. j \in Int
    BY <1>8 DEF j
  <2>2. LET r == UpdateTimes(filled, v, j, gap, no)
        IN  Alike(filled, r) /\ r.voices = [filled.voices EXCEPT ![v] = Later(filled.voices[v], j, gap)]
    BY <1>7, <1>8, <2>1, UpdateTimesIs
  <2> QED
    BY <1>7, <2>2 DEF j
<1> HIDE DEF later
<1>10. idx = [p.idx EXCEPT ![v] = i + n] /\ idx \in Seq(Nat) /\ Len(idx) = Len(p.idx)
  <2> DEFINE x == i + n
             S == Nat
             s == p.idx
             t == At(s, v, x)
  <2>1. x \in S /\ v \in DOMAIN s /\ s \in Seq(S)
    BY <1>1, <1>2
  <2>2. idx = t
    OBVIOUS
  <2> HIDE DEF x, S, s
  <2>3. t = [s EXCEPT ![v] = x] /\ t \in Seq(S) /\ Len(t) = Len(s)
    BY <2>1, AtIs
  <2> HIDE DEF t
  <2> QED
    BY <2>2, <2>3 DEF x, S, s
<1> HIDE DEF idx
<1>11. /\ q \in Passes /\ q.idx = idx /\ q.now = p.now /\ q.voices = later.voices
  <2>1. later \in Passes /\ later.now = filled.now
    BY <1>7, <1>9 DEF Alike
  <2> QED
    BY <1>7, <1>10, <2>1 DEF Passes
<1> DEFINE moved == Later(new, i + n, gap)
<1>12. moved \in Lists /\ Len(moved) = Len(list) + n /\ OnlyDelays(NotesOf(list), NotesOf(moved))
  <2> DEFINE j == i + n
  <2>1. j \in Int /\ gap >= 0
    <3>1. gap \in Int
      BY TimesAreIntegers
    <3> QED
      BY <1>8, <3>1
  <2> HIDE DEF j
  <2>2. Later(new, j, gap) \in Lists /\ Len(Later(new, j, gap)) = Len(new)
    BY <1>4, <2>1, LaterIs
  <2>3. OnlyDelays(NotesOf(new), NotesOf(Later(new, j, gap)))
    BY <1>4, <2>1, LaterDelays
  <2> QED
    BY <1>4, <1>5, <2>2, <2>3 DEF j
<1> HIDE DEF q, moved
<1>13. q.voices = [p.voices EXCEPT ![v] = moved]
  <2>1. q.voices = [[p.voices EXCEPT ![v] = new] EXCEPT ![v] = moved]
    BY <1>6, <1>9, <1>11 DEF moved
  <2>2. p.voices \in Seq(Lists)
    BY <1>1
  <2> QED
    BY <2>1, <2>2
<1>14. Len(q.voices) = Len(p.voices) /\ Len(q.idx) = Len(p.voices)
  <2>1. Len(p.idx) = Len(p.voices)
    BY DEF Sound
  <2> QED
    BY <1>1, <1>10, <1>11, <1>13, <2>1
<1>15. ASSUME NEW w \in 1 .. Len(p.voices)
       PROVE  /\ q.idx[w] >= p.idx[w]
              /\ Len(q.voices[w]) - q.idx[w] = Len(p.voices[w]) - p.idx[w]
              /\ q.idx[w] <= Len(q.voices[w])
              /\ OnlyDelays(NotesOf(p.voices[w]), NotesOf(q.voices[w]))
  <2>1. CASE w = v
    <3>1. q.idx[w] = i + n /\ q.voices[w] = moved
      BY <1>1, <1>10, <1>11, <1>13, <2>1
    <3>2. Len(moved) = Len(list) + n /\ Len(list) \in Nat /\ i \in 1 .. Len(list) /\ n \in Nat
      BY <1>1, <1>2, <1>12
    <3>3. p.idx[w] = i /\ p.voices[w] = list
      BY <2>1 DEF i, list
    <3> QED
      BY <1>12, <3>1, <3>2, <3>3
  <2>2. CASE w # v
    <3>1. q.idx[w] = p.idx[w] /\ q.voices[w] = p.voices[w]
      BY <1>1, <1>10, <1>11, <1>13, <2>2
    <3>2. /\ p.idx[w] \in Nat /\ p.idx[w] <= Len(p.voices[w]) /\ Len(p.voices[w]) \in Nat
          /\ NotesOf(p.voices[w]) \in Seq(Notes)
      BY SoundVoiceIs
    <3>3. OnlyDelays(NotesOf(p.voices[w]), NotesOf(p.voices[w]))
      BY <3>2, DelaysSelf
    <3> QED
      BY <3>1, <3>2, <3>3
  <2> QED
    BY <2>1, <2>2
<1>16. Sound(q)
  BY <1>11, <1>14, <1>15 DEF Sound
<1>17. Repairs(p, q)
  BY <1>11, <1>14, <1>15, <1>16 DEF Repairs
<1> QED
  BY <1>0, <1>17

LEMMA LastEndIs ==
  ASSUME NEW p, Sound(p), NEW v \in 1 .. Len(p.voices)
  PROVE  LastEnd(p, v) \in Times
<1> DEFINE list == p.voices[v]
           n == p.idx[v]
           I == {i \in 1 .. n : ~IsSign(list[i])}
           j == LastPlayable(p, v)
<1>1. j = IF I # {} THEN Max(I) ELSE 0
  BY DEF LastPlayable, SelectLastInSubSeq
<1>2. n \in Nat /\ n <= Len(list) /\ list \in Lists /\ Len(list) \in Nat
  BY SoundVoiceIs
<1>3. p \in Scores \cup Passes
  BY SoundIs
<1>4. CASE j = 0
  BY <1>4, TimesAdd DEF LastEnd
<1>5. CASE j # 0
  <2>1. I # {} /\ j = Max(I)
    BY <1>1, <1>5
  <2>2. I \in SUBSET (0 .. n)
    BY <1>2
  <2> HIDE DEF I, n, j
  <2>3. j \in I
    BY <1>2, <2>1, <2>2, MaxIs
  <2>4. j \in 1 .. Len(list)
    BY <1>2, <2>3 DEF I
  <2>5. list[j] \in Elements
    BY <1>2, <2>4 DEF Lists
  <2>6. End(p, list[j]) \in Times
    BY <1>3, <2>5, StartIs
  <2> QED
    BY <1>5, <2>6 DEF LastEnd, j
<1> QED
  BY <1>4, <1>5

\* The sign a voice is on.
LEMMA OnSignIs ==
  ASSUME NEW p, Sound(p), NEW v \in 1 .. Len(p.voices), OnSignNow(p, v)
  PROVE  p.idx[v] # 0 /\ Current(p, v).id \in Signs
<1>1. p.idx[v] # 0 /\ IsSign(Current(p, v)) /\ Current(p, v) = p.voices[v][p.idx[v]]
  BY DEF OnSignNow, OnSign, Current
<1>2. /\ p.idx[v] \in Nat /\ p.idx[v] <= Len(p.voices[v]) /\ Len(p.voices[v]) \in Nat
      /\ p.voices[v] \in Lists
  BY SoundVoiceIs
<1> DEFINE i == p.idx[v]
           list == p.voices[v]
           e == Current(p, v)
<1>3. i \in 1 .. Len(list)
  BY <1>1, <1>2
<1> HIDE DEF i, list
<1>4. list[i] \in Elements
  BY <1>2, <1>3 DEF Lists, list
<1>5. e \in Elements /\ IsSign(e)
  BY <1>1, <1>4 DEF i, list
<1> HIDE DEF e
<1>6. e.id \in Signs
  BY <1>5, ElementIs
<1> QED
  BY <1>1, <1>6 DEF e

LEMMA MoveSignBehindRepairs ==
  ASSUME NEW p, Sound(p), NEW v \in 1 .. Len(p.voices), NEW w \in 1 .. Len(p.voices)
  PROVE  Repairs(p, MoveSignBehind(p, v, w))
<1> DEFINE q == MoveSignBehind(p, v, w)
           end == LastEnd(p, w)
           s == Current(p, v).id
           r == [p EXCEPT !.at[s] = end]
           gap == end - p.now
<1>1. CASE q = p
  BY <1>1, RepairsSelf
<1>2. CASE q # p
  <2>1. q = FillGap(r, v, p.now, gap) /\ OnSignNow(p, v) /\ end > p.now
    BY <1>2 DEF MoveSignBehind
  <2>2. p.idx[v] # 0 /\ s \in Signs
    BY <2>1, OnSignIs
  <2>3. end \in Times /\ p.now \in Times
    BY LastEndIs, SoundIs
  <2>4. gap \in Times /\ gap > 0
    <3>1. gap \in Times
      BY <2>3, TimesAdd
    <3>2. end \in Int /\ p.now \in Int
      BY <2>3, TimesAreIntegers
    <3> HIDE DEF end
    <3> QED
      BY <2>1, <3>1, <3>2
  <2> HIDE DEF q, end, s, gap
  <2>5. /\ r \in Passes /\ r.voices = p.voices /\ r.idx = p.idx /\ r.now = p.now
    <3>1. p \in Passes /\ p.at \in [Signs -> Times]
      BY SoundIs
    <3>2. [p.at EXCEPT ![s] = end] \in [Signs -> Times]
      BY <2>2, <2>3, <3>1
    <3>3. r = [p EXCEPT !.at = [p.at EXCEPT ![s] = end]]
      OBVIOUS
    <3> QED
      BY <3>1, <3>2, <3>3 DEF Passes
  <2> HIDE DEF r
  <2>6. Sound(r)
    BY <2>5 DEF Sound
  <2> DEFINE from == p.now
  <2>7. from \in Times /\ v \in 1 .. Len(r.voices) /\ r.idx[v] # 0
    BY <2>2, <2>3, <2>5
  <2> HIDE DEF from
  <2>8. Repairs(r, FillGap(r, v, from, gap))
    BY <2>4, <2>6, <2>7, FillGapRepairs
  <2>9. Repairs(r, q)
    BY <2>1, <2>8 DEF from
  <2>10. Repairs(p, q)
    BY <2>5, <2>9 DEF Repairs
  <2> QED
    BY <2>10 DEF q
<1> QED
  BY <1>1, <1>2

LEMMA FillVoiceRepairs ==
  ASSUME NEW p, Sound(p), NEW v \in 1 .. Len(p.voices)
  PROVE  Repairs(p, FillVoice(p, v))
<1> DEFINE q == FillVoice(p, v)
           from == LastEnd(p, v)
           gap == p.now - from
<1>1. CASE q = p
  BY <1>1, RepairsSelf
<1>2. CASE q # p
  <2>1. q = FillGap(p, v, from, gap) /\ OnSignNow(p, v) /\ from < p.now
    BY <1>2 DEF FillVoice
  <2>2. p.idx[v] # 0
    BY <2>1, OnSignIs
  <2>3. from \in Times /\ p.now \in Times
    BY LastEndIs, SoundIs
  <2>4. gap \in Times /\ gap > 0
    <3>1. gap \in Times
      BY <2>3, TimesAdd
    <3>2. from \in Int /\ p.now \in Int
      BY <2>3, TimesAreIntegers
    <3> HIDE DEF from
    <3> QED
      BY <2>1, <3>1, <3>2
  <2> HIDE DEF q, from, gap
  <2>5. Repairs(p, FillGap(p, v, from, gap))
    BY <2>2, <2>3, <2>4, FillGapRepairs
  <2>6. Repairs(p, q)
    BY <2>1, <2>5
  <2> QED
    BY <2>6 DEF q
<1> QED
  BY <1>1, <1>2

\* The signs of a voice are held against those up to n.
LEMMA MovesOfRepairs ==
  ASSUME NEW p, Sound(p), NEW v \in 1 .. Len(p.voices)
  PROVE  Repairs(p, MovesOf(p, v, Len(p.voices)))
<1> DEFINE n == Len(p.voices)
<1>1. n \in Nat
  BY SoundIs
<1> HIDE DEF n
<1>2. PICK f : MoveRounds(f, p, v, n)
  BY <1>1, MoveRoundsExist
<1> DEFINE P == {k \in 0 .. n : Repairs(p, f[k])}
<1>3. 0 \in P
  BY <1>1, <1>2, RepairsSelf DEF MoveRounds
<1>4. ASSUME NEW k \in 1 .. n, k - 1 \in P
      PROVE  k \in P
  <2> DEFINE a == f[k - 1]
  <2>1. Repairs(p, a) /\ f[k] = MoveSignBehind(a, v, k) /\ k \in 0 .. n
    BY <1>1, <1>2, <1>4 DEF MoveRounds
  <2> HIDE DEF a, P
  <2>2. Sound(a) /\ v \in 1 .. Len(a.voices) /\ k \in 1 .. Len(a.voices)
    BY <2>1 DEF Repairs, n
  <2>3. Repairs(a, f[k])
    BY <2>1, <2>2, MoveSignBehindRepairs
  <2>4. Repairs(p, f[k])
    BY <2>1, <2>3, RepairsTrans
  <2> QED
    BY <2>1, <2>4 DEF P
<1>5. n \in P
  <2> HIDE DEF P
  <2>1. \A k \in 1 .. n : k - 1 \in P => k \in P
    BY <1>4
  <2>2. \A k \in 0 .. n : k \in P
    BY <1>1, <1>3, <2>1, Upward
  <2> QED
    BY <1>1, <2>2
<1> QED
  BY <1>2, <1>5 DEF n, MoveRounds

LEMMA MoveSignsRepairs ==
  ASSUME NEW p, Sound(p)
  PROVE  Repairs(p, MoveSigns(p))
<1> DEFINE n == Len(p.voices)
<1>1. n \in Nat
  BY SoundIs
<1>2. PICK f : /\ f[0] = p
               /\ \A k \in 1 .. n : f[k] = MovesOf(f[k - 1], k, n)
               /\ MoveSigns(p) = f[n]
  BY <1>1, MoveSignsLoop
<1> HIDE DEF n
<1> DEFINE P == {k \in 0 .. n : Repairs(p, f[k])}
<1>3. 0 \in P
  BY <1>1, <1>2, RepairsSelf
<1>4. ASSUME NEW k \in 1 .. n, k - 1 \in P
      PROVE  k \in P
  <2> DEFINE a == f[k - 1]
  <2>1. Repairs(p, a) /\ f[k] = MovesOf(a, k, n) /\ k \in 0 .. n
    BY <1>1, <1>2, <1>4
  <2> HIDE DEF a, P
  <2>2. Sound(a) /\ Len(a.voices) = n /\ k \in 1 .. Len(a.voices)
    BY <2>1 DEF Repairs, n
  <2>3. Repairs(a, MovesOf(a, k, Len(a.voices)))
    BY <2>2, MovesOfRepairs
  <2>4. Repairs(a, f[k])
    BY <2>1, <2>2, <2>3
  <2>5. Repairs(p, f[k])
    BY <2>1, <2>4, RepairsTrans
  <2> QED
    BY <2>1, <2>5 DEF P
<1>5. n \in P
  <2> HIDE DEF P
  <2>1. \A k \in 1 .. n : k - 1 \in P => k \in P
    BY <1>4
  <2>2. \A k \in 0 .. n : k \in P
    BY <1>1, <1>3, <2>1, Upward
  <2> QED
    BY <1>1, <2>2
<1> QED
  BY <1>2, <1>5

LEMMA FillVoicesRepairs ==
  ASSUME NEW p, Sound(p)
  PROVE  Repairs(p, FillVoices(p))
<1> DEFINE n == Len(p.voices)
<1>1. n \in Nat
  BY SoundIs
<1>2. PICK f : /\ f[0] = p
               /\ \A k \in 1 .. n : f[k] = FillVoice(f[k - 1], k)
               /\ FillVoices(p) = f[n]
  BY <1>1, FillVoicesLoop
<1> HIDE DEF n
<1> DEFINE P == {k \in 0 .. n : Repairs(p, f[k])}
<1>3. 0 \in P
  BY <1>1, <1>2, RepairsSelf
<1>4. ASSUME NEW k \in 1 .. n, k - 1 \in P
      PROVE  k \in P
  <2> DEFINE a == f[k - 1]
  <2>1. Repairs(p, a) /\ f[k] = FillVoice(a, k) /\ k \in 0 .. n
    BY <1>1, <1>2, <1>4
  <2> HIDE DEF a, P
  <2>2. Sound(a) /\ k \in 1 .. Len(a.voices)
    BY <2>1 DEF Repairs, n
  <2>3. Repairs(a, f[k])
    BY <2>1, <2>2, FillVoiceRepairs
  <2>4. Repairs(p, f[k])
    BY <2>1, <2>3, RepairsTrans
  <2> QED
    BY <2>1, <2>4 DEF P
<1>5. n \in P
  <2> HIDE DEF P
  <2>1. \A k \in 1 .. n : k - 1 \in P => k \in P
    BY <1>4
  <2>2. \A k \in 0 .. n : k \in P
    BY <1>1, <1>3, <2>1, Upward
  <2> QED
    BY <1>1, <2>2
<1> QED
  BY <1>2, <1>5

-----------------------------------------------------------------------------
(* A pass of synchronizeVoices *)

SignElements == {Sign(s) : s \in Signs}

LEMMA SignElementsAre ==
  \A e \in SignElements : e \in Elements /\ ~IsNote(e)
BY SignIs DEF SignElements

\* The signs that come next are a part of the list of the voice.
LEMMA SignsNextIs ==
  ASSUME NEW p, Sound(p), NEW v \in 1 .. Len(p.voices)
  PROVE  LET next == SignsNext(p, v)
             list == p.voices[v]
         IN  /\ next \in Seq(SignElements) /\ Len(next) \in Nat
             /\ p.idx[v] + Len(next) <= Len(list)
             /\ \A k \in 1 .. Len(next) : next[k] = list[p.idx[v] + k]
<1> DEFINE list == p.voices[v]
           i == p.idx[v]
           isRun(n) == \A k \in i + 1 .. n : IsSign(list[k]) /\ Start(p, list[k]) = p.now
           runs == {n \in i .. Len(list) : isRun(n)}
           m == Max(runs)
           next == SubSeq(list, i + 1, m)
<1>0. SignsNext(p, v) = next
  BY DEF SignsNext
<1>1. list \in Lists /\ Len(list) \in Nat /\ i \in Nat /\ i <= Len(list)
  BY SoundVoiceIs
<1> HIDE DEF list, i
<1>2. m \in runs
  <2>1. runs \in SUBSET (0 .. Len(list))
    BY <1>1
  <2>2. i \in runs
    BY <1>1
  <2> HIDE DEF runs
  <2> QED
    BY <1>1, <2>1, <2>2, MaxIs
<1>3. m \in i .. Len(list) /\ \A k \in i + 1 .. m : IsSign(list[k])
  BY <1>2
<1> HIDE DEF m, runs, isRun
<1>4. ASSUME NEW k \in i + 1 .. m PROVE list[k] \in SignElements
  <2>1. list[k] \in Elements /\ IsSign(list[k])
    BY <1>1, <1>3 DEF Lists
  <2> DEFINE e == list[k]
  <2> HIDE DEF e
  <2>2. e.id \in Signs /\ e = Sign(e.id)
    BY <2>1, ElementIs DEF e
  <2> QED
    BY <2>2 DEF SignElements, e
<1>5. i + 1 \in Int /\ m \in Int /\ m - (i + 1) + 1 = m - i
  BY <1>1, <1>3
<1>6. /\ next \in Seq(SignElements) /\ Len(next) = m - i
      /\ \A k \in 1 .. m - i : next[k] = list[(i + 1) + k - 1]
  BY <1>1, <1>3, <1>4, <1>5, SubSeqProperties
<1> HIDE DEF next
<1>7. ASSUME NEW k \in 1 .. Len(next) PROVE next[k] = list[i + k]
  <2>1. k \in 1 .. m - i /\ (i + 1) + k - 1 = i + k
    BY <1>1, <1>3, <1>6
  <2> QED
    BY <1>6, <2>1
<1>8. Len(next) \in Nat /\ i + Len(next) <= Len(list)
  BY <1>1, <1>3, <1>6
<1> QED
  BY <1>0, <1>6, <1>7, <1>8 DEF list, i

LEMMA SharedSignsIs ==
  ASSUME NEW p, Sound(p)
  PROVE  SharedSigns(p) \in Seq(SignElements)
<1> DEFINE n == Len(p.voices)
<1>1. n \in Nat
  BY SoundIs
<1>2. PICK f : /\ f[0] = <<>>
               /\ \A k \in 1 .. n : f[k] = f[k - 1] \o NotYetIn(f[k - 1], SignsNext(p, k))
               /\ SharedSigns(p) = f[n]
  BY <1>1, SharedSignsLoop
<1> HIDE DEF n
<1> DEFINE P == {k \in 0 .. n : f[k] \in Seq(SignElements)}
<1>3. 0 \in P
  <2>1. f[0] \in Seq(SignElements)
    <3>1. <<>> \in Seq(SignElements)
      OBVIOUS
    <3> QED
      BY <1>2, <3>1
  <2> QED
    BY <1>1, <2>1
<1>4. ASSUME NEW k \in 1 .. n, k - 1 \in P
      PROVE  k \in P
  <2> DEFINE a == f[k - 1]
             next == SignsNext(p, k)
             new == NotYetIn(a, next)
  <2>1. a \in Seq(SignElements) /\ f[k] = a \o new /\ k \in 0 .. n
    <3>1. a \in Seq(SignElements)
      BY <1>4
    <3>2. f[k] = a \o new
      BY <1>2
    <3>3. k \in 0 .. n
      BY <1>1
    <3> QED
      BY <3>1, <3>2, <3>3
  <2>2. next \in Seq(SignElements)
    BY SignsNextIs DEF n
  <2> HIDE DEF a, next
  <2>3. new \in Seq(SignElements)
    BY <2>2, NotYetInIs
  <2> HIDE DEF new
  <2>4. a \o new \in Seq(SignElements)
    BY <2>1, <2>3, BehindIs
  <2> QED
    BY <2>1, <2>4
<1>5. n \in P
  <2> HIDE DEF P
  <2>1. \A k \in 1 .. n : k - 1 \in P => k \in P
    BY <1>4
  <2>2. \A k \in 0 .. n : k \in P
    BY <1>1, <1>3, <2>1, Upward
  <2> QED
    BY <1>1, <2>2
<1> QED
  BY <1>2, <1>5

\* The first step of a pass: no voice moves back, and m elements from the next
\* on are behind the walk or can be; the notes are the same.
Steps(p, q, m) ==
  /\ Sound(q) /\ Len(q.voices) = Len(p.voices) /\ q.now = p.now
  /\ \A v \in 1 .. Len(p.voices) :
       /\ q.idx[v] \in p.idx[v] .. p.idx[v] + 1
       /\ q.idx[v] + m <= Len(q.voices[v])
       /\ NotesOf(q.voices[v]) = NotesOf(p.voices[v])

LEMMA ShareSignsSteps ==
  ASSUME NEW p, Sound(p), NEW shared \in Seq(SignElements), shared # <<>>
  PROVE  /\ Steps(p, ShareSigns(p, shared), Len(shared) - 1)
         /\ \A v \in 1 .. Len(p.voices) : ShareSigns(p, shared).idx[v] = p.idx[v] + 1
<1> DEFINE q == ShareSigns(p, shared)
           n == Len(p.voices)
           m == Len(shared)
           a(v) == SubSeq(p.voices[v], 1, p.idx[v])
           b(v) == SubSeq(p.voices[v], p.idx[v] + Len(SignsNext(p, v)) + 1, Len(p.voices[v]))
           with(v) == a(v) \o shared \o b(v)
           lists == [v \in DOMAIN p.voices |-> with(v)]
           idx == [v \in DOMAIN p.idx |-> p.idx[v] + 1]
<1>0. q = [p EXCEPT !.voices = lists, !.idx = idx]
  BY DEF ShareSigns
<1>1. /\ p \in Passes /\ n \in Nat /\ DOMAIN p.voices = 1 .. n /\ DOMAIN p.idx = 1 .. n
      /\ p.idx \in Seq(Nat) /\ p.voices \in Seq(Lists)
  BY SoundIs
<1>2. m \in Nat \ {0} /\ shared \in Seq(Elements) /\ \A k \in 1 .. m : ~IsNote(shared[k])
  <2>1. m \in Nat \ {0}
    OBVIOUS
  <2>2. \A k \in 1 .. m : shared[k] \in Elements /\ ~IsNote(shared[k])
    BY SignElementsAre
  <2>3. shared \in [1 .. m -> Elements]
    BY <2>2
  <2>4. shared \in Seq(Elements)
    <3> HIDE DEF m
    <3> QED
      BY <2>1, <2>3, IsSequence
  <2> QED
    BY <2>1, <2>2, <2>4
<1>3. ASSUME NEW v \in 1 .. n
      PROVE  /\ with(v) \in Lists /\ p.idx[v] + m <= Len(with(v)) /\ p.idx[v] \in Nat
             /\ NotesOf(with(v)) = NotesOf(p.voices[v])
  <2> DEFINE list == p.voices[v]
             i == p.idx[v]
             next == SignsNext(p, v)
             j == Len(next)
             x == a(v)
             y == b(v)
             z == x \o shared
             new == with(v)
  <2>1. list \in Lists /\ list \in Seq(Elements) /\ Len(list) \in Nat /\ i \in Nat /\ i <= Len(list)
    BY SoundVoiceIs DEF Lists
  <2>2. /\ next \in Seq(SignElements) /\ j \in Nat /\ i + j <= Len(list)
        /\ \A k \in 1 .. j : next[k] = list[i + k]
    BY SignsNextIs
  <2>3. \A k \in 1 .. j : ~IsNote(list[i + k])
    <3>1. \A k \in 1 .. j : next[k] \in SignElements
      BY <2>2
    <3> QED
      BY <2>2, <3>1, SignElementsAre
  <2> HIDE DEF next, j
  <2>4. /\ x \in Seq(Elements) /\ Len(x) = i /\ \A k \in 1 .. i : x[k] = list[k]
        /\ y \in Seq(Elements) /\ Len(y) = Len(list) - (i + j)
        /\ \A k \in 1 .. Len(list) - (i + j) : y[k] = list[(i + j) + k]
    <3> DEFINE c == i + j + 1
               d == Len(list)
    <3>0. y = SubSeq(list, c, d)
      BY DEF j, next
    <3>1. x = SubSeq(list, 1, i)
      OBVIOUS
    <3> HIDE DEF list, i, x, y, d, c
    <3>2. d \in Nat /\ i \in Int /\ c \in Int /\ d \in Int /\ \A k \in 1 .. d : list[k] \in Elements
      BY <2>1, <2>2 DEF c, d
    <3>3. (\A k \in 1 .. i : list[k] \in Elements) /\ (\A k \in c .. d : list[k] \in Elements)
      BY <2>1, <2>2, <3>2 DEF c, d
    <3>4. x \in Seq(Elements) /\ Len(x) = i /\ \A k \in 1 .. i : x[k] = list[k]
      BY <2>1, <3>1, <3>2, <3>3, SubSeqProperties
    <3>5. /\ y \in Seq(Elements) /\ Len(y) = (IF c <= d THEN d - c + 1 ELSE 0)
          /\ \A k \in 1 .. d - c + 1 : y[k] = list[c + k - 1]
      BY <3>0, <3>2, <3>3, SubSeqProperties
    <3>6. Len(y) = d - (i + j) /\ d - c + 1 = d - (i + j)
      BY <2>1, <2>2, <3>5 DEF c, d
    <3>7. ASSUME NEW k \in 1 .. d - (i + j) PROVE y[k] = list[(i + j) + k]
      <4>1. c + k - 1 = (i + j) + k
        BY <2>1, <2>2 DEF c
      <4> QED
        BY <3>5, <3>6, <4>1
    <3> QED
      BY <3>4, <3>5, <3>6, <3>7 DEF d
  <2>5. new = z \o y
    OBVIOUS
  <2> HIDE DEF list, i, x, y, new
  <2>6. /\ z \in Seq(Elements) /\ Len(z) = i + m
        /\ \A k \in 1 .. i : z[k] = x[k]
        /\ \A k \in 1 .. m : z[i + k] = shared[k]
    <3>1. x \in Seq(Elements) /\ shared \in Seq(Elements)
      BY <1>2, <2>4
    <3>2. /\ z \in Seq(Elements) /\ Len(z) = Len(x) + Len(shared)
          /\ \A k \in 1 .. Len(x) : z[k] = x[k]
          /\ \A k \in 1 .. Len(shared) : z[Len(x) + k] = shared[k]
      BY <3>1, BehindIs
    <3> HIDE DEF z
    <3> QED
      BY <2>4, <3>2
  <2> HIDE DEF z
  <2> HIDE DEF m
  <2>7. /\ new \in Seq(Elements) /\ Len(new) = i + m + Len(y)
        /\ \A k \in 1 .. i + m : new[k] = z[k]
        /\ \A k \in 1 .. Len(y) : new[i + m + k] = y[k]
    <3>1. z \in Seq(Elements) /\ y \in Seq(Elements)
      BY <2>4, <2>6
    <3>2. /\ new \in Seq(Elements) /\ Len(new) = Len(z) + Len(y)
          /\ \A k \in 1 .. Len(z) : new[k] = z[k]
          /\ \A k \in 1 .. Len(y) : new[Len(z) + k] = y[k]
      BY <2>5, <3>1, BehindIs
    <3> QED
      BY <2>6, <3>2 DEF m
  <2>8. Exchanged(list, new, i, j, m)
    <3>1. i + j <= Len(list) /\ Len(new) = Len(list) - j + m
      BY <1>2, <2>1, <2>2, <2>4, <2>7
    <3>2. ASSUME NEW k \in 1 .. i PROVE new[k] = list[k]
      <4>1. k \in 1 .. i + m
        BY <1>2, <2>1
      <4> QED
        BY <2>4, <2>6, <2>7, <4>1
    <3>3. ASSUME NEW k \in i + 1 .. i + j PROVE ~IsNote(list[k])
      <4> DEFINE t == k - i
      <4>1. t \in 1 .. j /\ i + t = k
        BY <2>1, <2>2
      <4> HIDE DEF t
      <4> QED
        BY <2>3, <4>1
    <3>4. ASSUME NEW k \in i + 1 .. i + m PROVE ~IsNote(new[k])
      <4> DEFINE t == k - i
      <4>1. t \in 1 .. m /\ i + t = k /\ k \in 1 .. i + m
        BY <1>2, <2>1
      <4> HIDE DEF t
      <4>2. new[k] = z[i + t] /\ z[i + t] = shared[t]
        BY <2>6, <2>7, <4>1
      <4> QED
        BY <1>2, <4>1, <4>2
    <3>5. ASSUME NEW k \in 1 .. Len(list) - i - j PROVE new[i + m + k] = list[i + j + k]
      <4>1. k \in 1 .. Len(y) /\ k \in 1 .. Len(list) - (i + j)
        BY <2>1, <2>2, <2>4
      <4> QED
        BY <2>4, <2>7, <4>1
    <3> QED
      BY <3>1, <3>2, <3>3, <3>4, <3>5 DEF Exchanged
  <2>9. NotesOf(new) = NotesOf(list)
    <3>1. m \in Nat /\ new \in Lists
      BY <1>2, <2>7 DEF Lists
    <3> QED
      BY <2>1, <2>2, <2>8, <3>1, ExchangedNotes
  <2>10. new \in Lists /\ i + m <= Len(new)
    <3>1. Len(y) \in Nat
      BY <2>4
    <3> QED
      BY <1>2, <2>1, <2>7, <3>1 DEF Lists
  <2> QED
    BY <2>1, <2>9, <2>10 DEF new, list, i, m
<1> HIDE DEF with, m
<1>4. lists \in Seq(Lists) /\ Len(lists) = n /\ \A v \in 1 .. n : lists[v] = with(v)
  <2>1. lists = [v \in 1 .. n |-> with(v)]
    BY <1>1
  <2> HIDE DEF lists, n
  <2>2. lists \in [1 .. n -> Lists] /\ \A v \in 1 .. n : lists[v] = with(v)
    BY <1>3, <2>1
  <2> QED
    BY <1>1, <2>2, IsSequence
<1>5. idx \in Seq(Nat) /\ Len(idx) = n /\ \A v \in 1 .. n : idx[v] = p.idx[v] + 1
  <2>1. idx = [v \in 1 .. n |-> p.idx[v] + 1]
    BY <1>1
  <2> HIDE DEF idx, n
  <2>2. idx \in [1 .. n -> Nat] /\ \A v \in 1 .. n : idx[v] = p.idx[v] + 1
    BY <1>3, <2>1
  <2> QED
    BY <1>1, <2>2, IsSequence
<1> HIDE DEF lists, idx, q
<1>6. q \in Passes /\ q.voices = lists /\ q.idx = idx /\ q.now = p.now
  <2>1. p.at \in [Signs -> Times] /\ p.now \in Times
    BY SoundIs
  <2> QED
    BY <1>0, <1>1, <1>4, <1>5, <2>1 DEF Passes
<1> DEFINE more == m - 1
<1>7. ASSUME NEW v \in 1 .. n
      PROVE  /\ q.idx[v] = p.idx[v] + 1 /\ q.idx[v] \in p.idx[v] .. p.idx[v] + 1
             /\ q.idx[v] + more <= Len(q.voices[v]) /\ q.idx[v] <= Len(q.voices[v])
             /\ NotesOf(q.voices[v]) = NotesOf(p.voices[v])
  <2> DEFINE i == p.idx[v]
             l == Len(with(v))
  <2>1. i \in Nat /\ i + m <= l /\ l \in Nat
    <3>1. with(v) \in Lists
      BY <1>3
    <3> QED
      BY <1>3, <3>1 DEF Lists
  <2>2. q.idx[v] = i + 1 /\ q.voices[v] = with(v)
    BY <1>4, <1>5, <1>6
  <2> HIDE DEF i, l
  <2>3. i + 1 \in i .. i + 1 /\ (i + 1) + more <= l /\ i + 1 <= l
    BY <1>2, <2>1 DEF m
  <2> QED
    BY <1>3, <2>2, <2>3 DEF i, l
<1>8. Len(q.voices) = n /\ Len(q.idx) = n
  BY <1>4, <1>5, <1>6
<1>9. Sound(q)
  BY <1>6, <1>7, <1>8 DEF Sound
<1> HIDE DEF more
<1>10. Steps(p, q, more)
  BY <1>6, <1>7, <1>8, <1>9 DEF Steps
<1> QED
  BY <1>7, <1>10 DEF q, more, m

\* A voice has an element at the time of the walk that comes next.
Pending(p) == \E v \in 1 .. Len(p.voices) : HasNext(p, v) /\ NextStart(p, v) = p.now

LEMMA StepPlayablesSteps ==
  ASSUME NEW p, Sound(p)
  PROVE  /\ Steps(p, StepPlayables(p), 0)
         /\ \A v \in 1 .. Len(p.voices) :
              HasNext(p, v) /\ NextStart(p, v) = p.now => StepPlayables(p).idx[v] = p.idx[v] + 1
<1> DEFINE q == StepPlayables(p)
           n == Len(p.voices)
           on(v) == HasNext(p, v) /\ NextStart(p, v) = p.now
           step(v) == p.idx[v] + IF on(v) THEN 1 ELSE 0
           idx == [v \in DOMAIN p.idx |-> step(v)]
<1>0. q = [p EXCEPT !.idx = idx]
  BY DEF StepPlayables
<1>1. /\ p \in Passes /\ n \in Nat /\ DOMAIN p.idx = 1 .. n
  BY SoundIs
<1>2. ASSUME NEW v \in 1 .. n
      PROVE  /\ step(v) \in Nat /\ step(v) \in p.idx[v] .. p.idx[v] + 1
             /\ on(v) => step(v) = p.idx[v] + 1
             /\ step(v) <= Len(p.voices[v]) /\ step(v) + 0 <= Len(p.voices[v])
  <2>1. p.idx[v] \in Nat /\ p.idx[v] <= Len(p.voices[v]) /\ Len(p.voices[v]) \in Nat
    BY SoundVoiceIs
  <2>2. on(v) => p.idx[v] < Len(p.voices[v])
    BY DEF HasNext
  <2> HIDE DEF on
  <2> QED
    BY <2>1, <2>2
<1> HIDE DEF step
<1>3. idx \in Seq(Nat) /\ Len(idx) = n /\ \A v \in 1 .. n : idx[v] = step(v)
  <2>1. idx = [v \in 1 .. n |-> step(v)]
    BY <1>1
  <2> HIDE DEF idx, n
  <2>2. idx \in [1 .. n -> Nat] /\ \A v \in 1 .. n : idx[v] = step(v)
    BY <1>2, <2>1
  <2> QED
    BY <1>1, <2>2, IsSequence
<1> HIDE DEF idx, q
<1>4. q \in Passes /\ q.voices = p.voices /\ q.idx = idx /\ q.now = p.now
  BY <1>0, <1>1, <1>3 DEF Passes
<1>5. Sound(q)
  BY <1>2, <1>3, <1>4 DEF Sound
<1>6. Steps(p, q, 0)
  BY <1>2, <1>3, <1>4, <1>5 DEF Steps
<1>7. \A v \in 1 .. n : on(v) => q.idx[v] = p.idx[v] + 1
  BY <1>2, <1>3, <1>4
<1> QED
  BY <1>6, <1>7 DEF q

LEMMA BehindSignsIs ==
  ASSUME NEW p, Sound(p), NEW shared \in Seq(SignElements),
         shared # <<>> => \A v \in 1 .. Len(p.voices) : p.idx[v] + (Len(shared) - 1) <= Len(p.voices[v])
  PROVE  LET q == BehindSigns(p, shared)
         IN  /\ Sound(q) /\ q.voices = p.voices /\ q.now = p.now
             /\ \A v \in 1 .. Len(p.voices) : q.idx[v] >= p.idx[v]
<1> DEFINE q == BehindSigns(p, shared)
           n == Len(p.voices)
           m == Len(shared)
           step(v) == p.idx[v] + m - 1
           idx == [v \in DOMAIN p.idx |-> step(v)]
<1>1. CASE shared = <<>>
  <2>1. q = p
    BY <1>1 DEF BehindSigns
  <2>2. \A v \in 1 .. n : p.idx[v] >= p.idx[v]
    BY SoundVoiceIs
  <2> QED
    BY <2>1, <2>2
<1>2. CASE shared # <<>>
  <2>0. q = [p EXCEPT !.idx = idx]
    BY <1>2 DEF BehindSigns
  <2>1. p \in Passes /\ n \in Nat /\ DOMAIN p.idx = 1 .. n
    BY SoundIs
  <2>2. m \in Nat \ {0}
    BY <1>2
  <2> HIDE DEF m
  <2>3. ASSUME NEW v \in 1 .. n
        PROVE  step(v) \in Nat /\ step(v) >= p.idx[v] /\ step(v) <= Len(p.voices[v])
    <3>1. p.idx[v] \in Nat /\ Len(p.voices[v]) \in Nat
      BY SoundVoiceIs
    <3>2. p.idx[v] + (m - 1) <= Len(p.voices[v])
      BY <1>2 DEF m
    <3> QED
      BY <2>2, <3>1, <3>2
  <2> HIDE DEF step
  <2>4. idx \in Seq(Nat) /\ Len(idx) = n /\ \A v \in 1 .. n : idx[v] = step(v)
    <3>1. idx = [v \in 1 .. n |-> step(v)]
      BY <2>1
    <3> HIDE DEF idx, n
    <3>2. idx \in [1 .. n -> Nat] /\ \A v \in 1 .. n : idx[v] = step(v)
      BY <2>3, <3>1
    <3> QED
      BY <2>1, <3>2, IsSequence
  <2> HIDE DEF idx, q
  <2>5. q \in Passes /\ q.voices = p.voices /\ q.idx = idx /\ q.now = p.now
    BY <2>0, <2>1, <2>4 DEF Passes
  <2>6. Sound(q)
    BY <2>3, <2>4, <2>5 DEF Sound
  <2>7. \A v \in 1 .. n : q.idx[v] >= p.idx[v]
    BY <2>3, <2>4, <2>5
  <2> QED
    BY <2>5, <2>6, <2>7 DEF q
<1> QED
  BY <1>1, <1>2

LEMMA NextStartIs ==
  ASSUME NEW p, Sound(p), NEW v \in 1 .. Len(p.voices), HasNext(p, v)
  PROVE  NextStart(p, v) \in Times
<1> DEFINE list == p.voices[v]
           i == p.idx[v] + 1
<1>1. list \in Lists /\ i \in 1 .. Len(list) /\ p \in Scores \cup Passes
  <2>1. /\ p.idx[v] \in Nat /\ p.idx[v] < Len(p.voices[v]) /\ Len(p.voices[v]) \in Nat
        /\ p.voices[v] \in Lists
    BY SoundVoiceIs DEF HasNext
  <2> QED
    BY <2>1, SoundIs
<1>2. NextStart(p, v) = Start(p, list[i])
  BY DEF NextStart
<1> HIDE DEF list, i
<1>3. list[i] \in Elements
  BY <1>1 DEF Lists
<1>4. Start(p, list[i]) \in Times
  BY <1>1, <1>3, StartIs
<1> QED
  BY <1>2, <1>4

\* The shortest time is that to the next element of a voice.
LEMMA ShortestTimeIs ==
  ASSUME NEW p, Sound(p)
  PROVE  \/ ShortestTime(p) = -1 /\ \A v \in 1 .. Len(p.voices) : ~HasNext(p, v)
         \/ \E v \in 1 .. Len(p.voices) : HasNext(p, v) /\ ShortestTime(p) = NextStart(p, v) - p.now
<1> DEFINE n == Len(p.voices)
           none == -1
           time(v) == NextStart(p, v) - p.now
<1>1. n \in Nat
  BY SoundIs
<1>2. PICK f : /\ f[0] = -1
               /\ \A k \in 1 .. n : f[k] = IF HasNext(p, k) /\ (f[k - 1] = -1 \/ NextStart(p, k) - p.now < f[k - 1])
                                           THEN NextStart(p, k) - p.now ELSE f[k - 1]
               /\ ShortestTime(p) = f[n]
  BY <1>1, ShortestTimeLoop
<1>3. /\ f[0] = none
      /\ \A k \in 1 .. n : \/ f[k] = time(k) /\ HasNext(p, k)
                           \/ f[k] = f[k - 1] /\ ~(HasNext(p, k) /\ f[k - 1] = none)
  BY <1>2
<1> HIDE DEF n, none, time
<1> DEFINE P == {k \in 0 .. n : \/ f[k] = none /\ \A v \in 1 .. k : ~HasNext(p, v)
                                \/ \E v \in 1 .. k : HasNext(p, v) /\ f[k] = time(v)}
<1>4. 0 \in P
  BY <1>1, <1>3
<1>5. ASSUME NEW k \in 1 .. n, k - 1 \in P
      PROVE  k \in P
  <2>1. k \in 0 .. n /\ k \in 1 .. k /\ \A v \in 1 .. k : v = k \/ v \in 1 .. k - 1
    BY <1>1
  <2>2. \A v \in 1 .. k - 1 : v \in 1 .. k
    BY <1>1
  <2>3. CASE f[k] = time(k) /\ HasNext(p, k)
    BY <2>1, <2>3
  <2>4. CASE f[k] = f[k - 1] /\ ~(HasNext(p, k) /\ f[k - 1] = none)
    <3>1. CASE f[k - 1] = none /\ \A v \in 1 .. k - 1 : ~HasNext(p, v)
      BY <2>1, <2>4, <3>1
    <3>2. CASE \E v \in 1 .. k - 1 : HasNext(p, v) /\ f[k - 1] = time(v)
      BY <2>1, <2>2, <2>4, <3>2
    <3> QED
      BY <1>5, <3>1, <3>2
  <2> QED
    BY <1>3, <2>3, <2>4
<1>6. n \in P
  <2> HIDE DEF P
  <2>1. \A k \in 1 .. n : k - 1 \in P => k \in P
    BY <1>5
  <2>2. \A k \in 0 .. n : k \in P
    BY <1>1, <1>4, <2>1, Upward
  <2> QED
    BY <1>1, <2>2
<1>7. \/ f[n] = none /\ \A v \in 1 .. n : ~HasNext(p, v)
      \/ \E v \in 1 .. n : HasNext(p, v) /\ f[n] = time(v)
  BY <1>6
<1> QED
  BY <1>2, <1>7 DEF n, none, time

\* A pass keeps the walk inside its voices, takes an element if one was pending,
\* and leaves one pending unless the walk is done. The notes only start later.
Passed(p, q) ==
  /\ Sound(q) /\ Len(q.voices) = Len(p.voices)
  /\ \A v \in 1 .. Len(p.voices) :
       q.idx[v] >= p.idx[v] /\ OnlyDelays(NotesOf(p.voices[v]), NotesOf(q.voices[v]))
  /\ Pending(p) => \E v \in 1 .. Len(p.voices) : q.idx[v] > p.idx[v]
  /\ IsDone(p, q) \/ Pending(q)

LEMMA PassIs ==
  ASSUME NEW p, Sound(p)
  PROVE  Passed(p, Pass(p))
<1> DEFINE n == Len(p.voices)
           shared == SharedSigns(p)
           moved == IF shared = <<>> THEN StepPlayables(p) ELSE ShareSigns(p, shared)
           signs == MoveSigns(moved)
           filled == FillVoices(signs)
           behind == BehindSigns(filled, shared)
           time == ShortestTime(behind)
           delta == IF time = -1 THEN 0 ELSE time
           q == [behind EXCEPT !.now = @ + delta]
<1>0. Pass(p) = q
  BY DEF Pass
<1>1. shared \in Seq(SignElements)
  BY SharedSignsIs
<1> HIDE DEF shared
<1> DEFINE m == IF shared = <<>> THEN 0 ELSE Len(shared) - 1
<1>2. /\ Steps(p, moved, m)
      /\ Pending(p) => \E v \in 1 .. n : moved.idx[v] = p.idx[v] + 1
  <2>1. CASE shared = <<>>
    BY <2>1, StepPlayablesSteps DEF Pending
  <2>2. CASE shared # <<>>
    BY <1>1, <2>2, ShareSignsSteps DEF Pending
  <2> QED
    BY <2>1, <2>2
<1>3. m \in Nat
  BY <1>1
<1> HIDE DEF moved
<1>4. Sound(moved) /\ Len(moved.voices) = n /\ moved.now = p.now
  BY <1>2 DEF Steps
<1>5. Repairs(moved, signs)
  BY <1>4, MoveSignsRepairs
<1> HIDE DEF signs
<1>6. Repairs(moved, filled)
  <2>1. Sound(signs)
    BY <1>5 DEF Repairs
  <2>2. Repairs(signs, filled)
    BY <2>1, FillVoicesRepairs
  <2> QED
    BY <1>4, <1>5, <2>2, RepairsTrans
<1> HIDE DEF filled
<1>7. Sound(filled) /\ Len(filled.voices) = n /\ filled.now = p.now
  BY <1>4, <1>6 DEF Repairs
<1>8. ASSUME NEW v \in 1 .. n
      PROVE  /\ filled.idx[v] >= moved.idx[v] /\ moved.idx[v] >= p.idx[v]
             /\ filled.idx[v] + m <= Len(filled.voices[v])
             /\ OnlyDelays(NotesOf(p.voices[v]), NotesOf(filled.voices[v]))
             /\ p.idx[v] \in Nat /\ moved.idx[v] \in Nat /\ filled.idx[v] \in Nat
  <2> DEFINE i == moved.idx[v]
             j == filled.idx[v]
             a == Len(moved.voices[v])
             b == Len(filled.voices[v])
  <2>1. p.idx[v] \in Nat
    BY SoundVoiceIs
  <2>2. i \in Nat /\ j \in Nat /\ a \in Nat /\ b \in Nat
    BY <1>4, <1>7, SoundVoiceIs
  <2>3. j >= i /\ b - j = a - i /\ OnlyDelays(NotesOf(moved.voices[v]), NotesOf(filled.voices[v]))
    BY <1>4, <1>6 DEF Repairs
  <2>4. i \in p.idx[v] .. p.idx[v] + 1 /\ i + m <= a /\ NotesOf(moved.voices[v]) = NotesOf(p.voices[v])
    BY <1>2 DEF Steps
  <2> HIDE DEF i, j, a, b, m
  <2>5. j + m <= b /\ i >= p.idx[v]
    BY <1>3, <2>1, <2>2, <2>3, <2>4
  <2>6. OnlyDelays(NotesOf(p.voices[v]), NotesOf(filled.voices[v]))
    BY <2>3, <2>4
  <2> QED
    BY <2>1, <2>2, <2>3, <2>5, <2>6 DEF i, j, b
<1>9. /\ Sound(behind) /\ behind.voices = filled.voices /\ behind.now = p.now
      /\ \A v \in 1 .. n : behind.idx[v] >= filled.idx[v]
  <2>1. shared # <<>> => \A v \in 1 .. Len(filled.voices) : filled.idx[v] + (Len(shared) - 1) <= Len(filled.voices[v])
    BY <1>7, <1>8
  <2> HIDE DEF m
  <2> QED
    BY <1>1, <1>7, <2>1, BehindSignsIs
<1> HIDE DEF behind, m
<1>10. \/ time = -1 /\ \A v \in 1 .. n : ~HasNext(behind, v)
       \/ \E v \in 1 .. n : HasNext(behind, v) /\ time = NextStart(behind, v) - behind.now
  BY <1>7, <1>9, ShortestTimeIs
<1> HIDE DEF time
<1>11. behind \in Passes /\ behind.now \in Times /\ Len(behind.voices) = n
  BY <1>7, <1>9, SoundIs
<1>12. \/ delta = 0 /\ \A v \in 1 .. n : ~HasNext(behind, v)
       \/ \E v \in 1 .. n : HasNext(behind, v) /\ behind.now + delta = NextStart(behind, v)
                            /\ NextStart(behind, v) \in Times
  <2>1. CASE \A v \in 1 .. n : ~HasNext(behind, v)
    BY <1>10, <2>1
  <2>2. CASE ~ \A v \in 1 .. n : ~HasNext(behind, v)
    <3>1. PICK v \in 1 .. n : HasNext(behind, v) /\ time = NextStart(behind, v) - behind.now
      BY <1>10, <2>2
    <3> DEFINE next == NextStart(behind, v)
               now == behind.now
    <3>2. next \in Times
      BY <1>9, <1>11, <3>1, NextStartIs
    <3>3. time = next - now /\ now \in Times
      BY <1>11, <3>1
    <3> HIDE DEF next, now
    <3>4. next - now # -1
      BY <3>2, <3>3, TimesAdd
    <3>5. delta = next - now
      BY <3>3, <3>4
    <3>6. next \in Int /\ now \in Int
      BY <3>2, <3>3, TimesAreIntegers
    <3> HIDE DEF delta
    <3>7. now + delta = next
      BY <3>5, <3>6
    <3> QED
      BY <3>1, <3>2, <3>7 DEF next, now
  <2> QED
    BY <2>1, <2>2
<1>13. behind.now + delta \in Times
  <2>1. behind.now + 0 = behind.now
    <3>1. behind.now \in Int
      BY <1>11, TimesAreIntegers
    <3> QED
      BY <3>1
  <2> HIDE DEF delta
  <2> QED
    BY <1>11, <1>12, <2>1
<1> HIDE DEF delta
<1>14. /\ q \in Passes /\ q.voices = behind.voices /\ q.idx = behind.idx /\ q.at = behind.at
       /\ q.now = behind.now + delta
  BY <1>11, <1>13 DEF Passes
<1> HIDE DEF q
<1>15. Sound(q) /\ Len(q.voices) = n
  BY <1>9, <1>11, <1>14 DEF Sound
<1>16. ASSUME NEW v \in 1 .. n
       PROVE  /\ HasNext(q, v) <=> HasNext(behind, v)
              /\ NextStart(q, v) = NextStart(behind, v)
  BY <1>14 DEF HasNext, NextStart, Start
<1>17. IsDone(p, q) \/ Pending(q)
  <2>1. CASE delta = 0 /\ \A v \in 1 .. n : ~HasNext(behind, v)
    <3>1. q.now = p.now
      <4>1. behind.now \in Int
        BY <1>11, TimesAreIntegers
      <4> QED
        BY <1>9, <1>14, <2>1, <4>1
    <3>2. \A v \in 1 .. n : ~HasNext(q, v)
      BY <1>16, <2>1
    <3>3. DOMAIN q.voices = 1 .. n
      BY <1>15, SoundIs
    <3> QED
      BY <3>1, <3>2, <3>3 DEF IsDone
  <2>2. CASE \E v \in 1 .. n : HasNext(behind, v) /\ behind.now + delta = NextStart(behind, v)
    BY <1>14, <1>15, <1>16, <2>2 DEF Pending
  <2> QED
    BY <1>12, <2>1, <2>2
<1>18. ASSUME NEW v \in 1 .. n
       PROVE  /\ q.idx[v] >= p.idx[v] /\ (moved.idx[v] = p.idx[v] + 1 => q.idx[v] > p.idx[v])
              /\ OnlyDelays(NotesOf(p.voices[v]), NotesOf(q.voices[v]))
  <2> DEFINE h == p.idx[v]
             i == moved.idx[v]
             j == filled.idx[v]
             k == q.idx[v]
  <2>1. h \in Nat /\ i \in Nat /\ j \in Nat /\ j >= i /\ i >= h
    BY <1>8
  <2>2. k \in Nat /\ k >= j
    BY <1>9, <1>14, <1>15, SoundVoiceIs
  <2> HIDE DEF h, i, j, k
  <2>3. k >= h /\ (i = h + 1 => k > h)
    BY <2>1, <2>2
  <2>4. OnlyDelays(NotesOf(p.voices[v]), NotesOf(q.voices[v]))
    BY <1>8, <1>9, <1>14
  <2> QED
    BY <2>3, <2>4 DEF h, i, k
<1>19. Pending(p) => \E v \in 1 .. n : q.idx[v] > p.idx[v]
  BY <1>2, <1>18
<1>20. Passed(p, q)
  BY <1>15, <1>17, <1>18, <1>19 DEF Passed
<1> QED
  BY <1>0, <1>20

-----------------------------------------------------------------------------
(* The invariant *)

\* What the next pass of synchronizeVoices works on.
Position == [voices |-> voices, at |-> at, idx |-> walk.idx, now |-> walk.now]

\* The walk has taken an element for each pass but the first, and has one
\* pending for the next.
WalkInvariant ==
  /\ walk = [idx |-> walk.idx, now |-> walk.now, passes |-> walk.passes]
  /\ Sound(Position)
  /\ walk.passes \in Nat /\ walk.passes <= 1 + Total(walk.idx)
  /\ walk.passes # 0 => Pending(Position)

Invariant ==
  /\ Score \in Scores /\ Len(voices) \in 1 .. MaxVoices
  /\ Walking => WalkInvariant

LEMMA AllLengthsAreLens == Lengths \subseteq Lens /\ AllLengths \subseteq Lens
<1>1. ASSUME NEW len \in Lengths PROVE len \in Lens /\ len + len \div 2 \in Lens
  <2>1. len \in {16, 32, 64, 128, 256, 512, 1024, 2048}
    BY LengthsAssumption
  <2> QED
    BY <2>1 DEF Lens
<1> QED
  BY <1>1 DEF AllLengths

\* The dot key sets a dot or takes it away.
LEMMA DottedIsLen ==
  ASSUME NEW len \in Lens
  PROVE  (IF len % 3 = 0 THEN (len * 2) \div 3 ELSE len + len \div 2) \in Lens
<1>1. CASE len \in {8, 16, 32, 64, 128, 256, 512, 1024, 2048}
  BY <1>1 DEF Lens
<1>2. CASE len \in {12, 24, 48, 96, 192, 384, 768, 1536, 3072}
  BY <1>2 DEF Lens
<1> QED
  BY <1>1, <1>2 DEF Lens

LEMMA TotalOfNats ==
  ASSUME NEW lens \in Seq(Nat)
  PROVE  Total(lens) \in Nat
<1> DEFINE S == Nat
<1>1. (S = Nat \/ S = Times) /\ lens \in Seq(S)
  OBVIOUS
<1> HIDE DEF S
<1>2. Total(lens) \in S
  BY <1>1, TotalIs
<1> QED
  BY <1>2 DEF S

\* A handler leaves a score behind, and a walk at its start or none.
LEMMA HandlerKeeps ==
  ASSUME Invariant, ~Walking, NEW sc \in Scores, Len(sc.voices) \in 1 .. MaxVoices,
         Done(sc) \/ Synchronized(sc)
  PROVE  Invariant'
<1>1. voices' = sc.voices /\ at' = sc.at /\ (walk' = walk \/ walk' = StartOfWalk(sc))
  BY DEF Done, Synchronized, Becomes
<1>2. Score' \in Scores /\ Len(voices') \in 1 .. MaxVoices
  BY <1>1 DEF Score, Scores
<1>3. CASE walk' = walk
  <2>1. ~Walking'
    BY <1>3 DEF Walking
  <2> QED
    BY <1>2, <2>1 DEF Invariant
<1>4. CASE walk' = StartOfWalk(sc)
  <2> DEFINE idx == [v \in DOMAIN sc.voices |-> 0]
             n == Len(sc.voices)
  <2>1. walk' = [idx |-> idx, now |-> 0, passes |-> 0]
    BY <1>4 DEF StartOfWalk, NoWalk
  <2>2. DOMAIN sc.voices = 1 .. n /\ n \in Nat /\ sc.voices \in Seq(Lists) /\ sc.at \in [Signs -> Times]
    BY DEF Scores
  <2>3. idx \in Seq(Nat) /\ Len(idx) = n /\ \A v \in 1 .. n : idx[v] = 0
    <3>1. idx = [v \in 1 .. n |-> 0]
      BY <2>2
    <3> HIDE DEF idx, n
    <3>2. idx \in [1 .. n -> Nat] /\ \A v \in 1 .. n : idx[v] = 0
      BY <3>1
    <3> QED
      BY <2>2, <3>2, IsSequence
  <2> HIDE DEF idx, n
  <2>4. /\ walk' = [idx |-> walk'.idx, now |-> walk'.now, passes |-> walk'.passes]
        /\ walk'.idx = idx /\ walk'.now = 0 /\ walk'.passes = 0
    BY <2>1
  <2> DEFINE p == [voices |-> sc.voices, at |-> sc.at, idx |-> idx, now |-> 0]
  <2>5. Position' = p
    BY <1>1, <2>4 DEF Position
  <2>6. Sound(p)
    <3>1. p \in Passes
      BY <2>2, <2>3, TimesAdd DEF Passes
    <3>2. ASSUME NEW v \in 1 .. n PROVE idx[v] <= Len(sc.voices[v])
      <4>1. sc.voices[v] \in Lists
        BY <2>2
      <4>2. Len(sc.voices[v]) \in Nat
        BY <4>1 DEF Lists
      <4> QED
        BY <2>3, <4>2
    <3> QED
      BY <2>3, <3>1, <3>2 DEF Sound, n
  <2>7. Total(idx) \in Nat
    BY <2>3, TotalOfNats
  <2>8. WalkInvariant'
    <3> HIDE DEF p
    <3>1. Sound(Position)'
      BY <2>5, <2>6
    <3>2. walk'.passes \in Nat /\ walk'.passes <= 1 + Total(walk'.idx) /\ walk'.passes = 0
      BY <2>4, <2>7
    <3> QED
      BY <2>4, <3>1, <3>2 DEF WalkInvariant
  <2> QED
    BY <1>2, <2>8 DEF Invariant
<1> QED
  BY <1>1, <1>3, <1>4

\* The same of a handler that changes lists and times only.
LEMMA AlikeKeeps ==
  ASSUME Invariant, ~Walking, NEW sc, Alike(Score, sc), Done(sc) \/ Synchronized(sc)
  PROVE  Invariant'
<1>1. sc \in Scores /\ Len(sc.voices) = Len(voices) /\ Len(voices) \in 1 .. MaxVoices
  BY DEF Invariant, Alike, Score
<1>2. Len(sc.voices) \in 1 .. MaxVoices
  BY <1>1
<1> QED
  BY <1>1, <1>2, HandlerKeeps

LEMMA InvariantIs ==
  ASSUME Invariant
  PROVE  /\ Score \in Scores /\ Score \in Scores \cup Passes /\ Score.voices = voices
         /\ voices \in Seq(Lists) /\ DOMAIN voices = 1 .. Len(voices)
         /\ Len(voices) \in 1 .. MaxVoices /\ MaxVoices \in Nat
         /\ \A v \in DOMAIN voices : /\ voices[v] \in Lists /\ Len(voices[v]) \in Nat
                                     /\ DOMAIN voices[v] = 1 .. Len(voices[v])
<1>1. Score \in Scores /\ Len(voices) \in 1 .. MaxVoices
  BY DEF Invariant
<1>2. Score.voices = voices
  BY DEF Score
<1>3. voices \in Seq(Lists)
  BY <1>1, <1>2 DEF Scores
<1>4. ASSUME NEW v \in DOMAIN voices
      PROVE  voices[v] \in Lists /\ Len(voices[v]) \in Nat /\ DOMAIN voices[v] = 1 .. Len(voices[v])
  <2>1. voices[v] \in Lists
    BY <1>3
  <2> QED
    BY <2>1 DEF Lists
<1>5. MaxVoices \in Nat
  BY BoundsAssumption
<1> QED
  BY <1>1, <1>2, <1>3, <1>4, <1>5

-----------------------------------------------------------------------------
(* The handlers keep the invariant *)

LEMMA NewVoiceKeeps ==
  ASSUME Invariant, NewVoice
  PROVE  Invariant'
<1> DEFINE sc == [Score EXCEPT !.voices = Append(@, <<>>)]
<1>1. ~Walking /\ Len(voices) < MaxVoices /\ Synchronized(sc)
  BY DEF NewVoice
<1>2. Score \in Scores /\ Score.voices = voices /\ Len(voices) \in 1 .. MaxVoices /\ MaxVoices \in Nat
      /\ voices \in Seq(Lists)
  BY InvariantIs
<1>3. sc.voices = Append(voices, <<>>)
  BY <1>2 DEF Scores
<1>4. <<>> \in Lists
  BY DEF Lists
<1>5. sc \in Scores
  <2>1. Append(voices, <<>>) \in Seq(Lists)
    BY <1>2, <1>4, AppendProperties
  <2>2. sc = [Score EXCEPT !.voices = Append(voices, <<>>)]
    BY <1>2
  <2> QED
    BY <1>2, <2>1, <2>2 DEF Scores
<1>6. Len(sc.voices) \in 1 .. MaxVoices
  <2>1. Len(Append(voices, <<>>)) = Len(voices) + 1
    BY <1>2, <1>4, AppendProperties
  <2> QED
    BY <1>1, <1>2, <1>3, <2>1
<1> HIDE DEF sc
<1> QED
  BY <1>1, <1>5, <1>6, HandlerKeeps

LEMMA RemoveVoiceKeeps ==
  ASSUME Invariant, NEW v \in DOMAIN voices, RemoveVoice(v)
  PROVE  Invariant'
<1> DEFINE sc == [Score EXCEPT !.voices = RemoveAt(@, v)]
           less == RemoveAt(voices, v)
<1>1. ~Walking /\ Len(voices) > 1 /\ Done(sc)
  BY DEF RemoveVoice
<1>2. /\ Score \in Scores /\ Score.voices = voices /\ Len(voices) \in 1 .. MaxVoices
      /\ MaxVoices \in Nat /\ voices \in Seq(Lists) /\ v \in 1 .. Len(voices)
  BY InvariantIs
<1>3. less \in Seq(Lists) /\ Len(less) = Len(voices) - 1
  BY <1>2, WithoutOne
<1>4. sc = [Score EXCEPT !.voices = less]
  BY <1>2
<1> HIDE DEF sc, less
<1>5. sc \in Scores /\ sc.voices = less
  BY <1>2, <1>3, <1>4 DEF Scores
<1>6. Len(sc.voices) \in 1 .. MaxVoices
  BY <1>1, <1>2, <1>3, <1>5
<1> QED
  BY <1>1, <1>5, <1>6, HandlerKeeps

LEMMA DeleteSignKeeps ==
  ASSUME Invariant, NEW s \in Signs, DeleteSign(s)
  PROVE  Invariant'
<1> DEFINE sc == RemoveSign(Score, s)
<1>1. ~Walking /\ Done(sc)
  BY DEF DeleteSign
<1>2. Score \in Scores /\ 1 \in DOMAIN Score.voices /\ Score.voices = voices /\ Len(voices) \in 1 .. MaxVoices
  BY InvariantIs
<1>3. sc \in Scores /\ Len(sc.voices) = Len(voices)
  BY <1>2, RemoveSignIs
<1> HIDE DEF sc
<1> QED
  BY <1>1, <1>2, <1>3, HandlerKeeps

LEMMA PlaceSignKeeps ==
  ASSUME Invariant, NEW s \in Signs, NEW v \in DOMAIN voices,
         NEW i \in 1 .. Len(voices[v]) + 1, PlaceSign(s, v, i)
  PROVE  Invariant'
<1> DEFINE sc == InsertSign(Score, v, i, s)
<1>1. ~Walking /\ Synchronized(sc)
  BY DEF PlaceSign
<1>2. /\ Score \in Scores /\ Score.voices = voices /\ Len(voices) \in 1 .. MaxVoices
      /\ v \in DOMAIN Score.voices /\ i \in 1 .. Len(Score.voices[v]) + 1
  BY InvariantIs
<1>3. sc \in Scores /\ Len(sc.voices) = Len(voices)
  BY <1>2, InsertSignIs
<1> HIDE DEF sc
<1> QED
  BY <1>1, <1>2, <1>3, HandlerKeeps

LEMMA PlacePlayableKeeps ==
  ASSUME Invariant, NEW v \in DOMAIN voices, NEW i \in 1 .. Len(voices[v]) + 1,
         NEW kind \in {"note", "rest"}, NEW len \in AllLengths, PlacePlayable(v, i, kind, len)
  PROVE  Invariant'
<1> DEFINE sc == InsertPlayable(Score, v, i, kind, len)
<1>1. ~Walking /\ Synchronized(sc)
  BY DEF PlacePlayable
<1>2. Score \in Scores /\ v \in DOMAIN Score.voices /\ i \in 1 .. Len(Score.voices[v]) + 1
  BY InvariantIs
<1>3. len \in Lens
  BY AllLengthsAreLens
<1>4. Inserted(Score, sc, v, i)
  BY <1>2, <1>3, InsertPlayableIs
<1> HIDE DEF sc
<1>5. Alike(Score, sc)
  BY <1>4 DEF Inserted, OnlyVoice
<1> QED
  BY <1>1, <1>5, AlikeKeeps

LEMMA PlayKeyKeeps ==
  ASSUME Invariant, NEW v \in DOMAIN voices, NEW len \in AllLengths, NEW addToChord \in BOOLEAN,
         PlayKey(v, len, addToChord)
  PROVE  Invariant'
<1> DEFINE n == Len(voices[v])
           added == AddToChord(Score, v, n)
           e == Playable("note", LastTimeEnd(Score, v), len)
           longer == InsertElement(Score, v, n + 1, e)
<1>1. /\ ~Walking
      /\ \/ voices[v] # <<>> /\ IsNote(Last(voices[v])) /\ Done(added)
         \/ Done(longer)
  BY DEF PlayKey
<1>2. /\ Score \in Scores /\ Score \in Scores \cup Passes /\ Score.voices = voices
      /\ v \in DOMAIN Score.voices /\ n \in Nat /\ voices[v] \in Lists
  BY InvariantIs
<1>3. CASE voices[v] # <<>> /\ IsNote(Last(voices[v])) /\ Done(added)
  <2>1. n # 0 /\ Last(voices[v]) = voices[v][n]
    BY <1>2, <1>3, EmptySeq DEF Last, Lists
  <2>2. n \in 1 .. Len(Score.voices[v]) /\ n \in 1 .. n
    BY <1>2, <2>1
  <2> DEFINE last == voices[v][n]
  <2>3. last \in Elements /\ IsNote(last)
    BY <1>2, <1>3, <2>1, <2>2 DEF Lists
  <2> HIDE DEF last
  <2>4. ~IsSign(last)
    BY <2>3, ElementIs
  <2>5. ~IsSign(Score.voices[v][n])
    BY <1>2, <2>4 DEF last
  <2> HIDE DEF n
  <2>6. OnlyVoice(Score, added, v)
    BY <1>2, <2>2, <2>5, AddToChordIs
  <2> HIDE DEF added
  <2>7. Alike(Score, added)
    BY <2>6 DEF OnlyVoice
  <2> QED
    BY <1>1, <1>3, <2>7, AlikeKeeps
<1>4. CASE Done(longer)
  <2> DEFINE start == LastTimeEnd(Score, v)
             note == "note"
  <2>1. start \in Times /\ len \in Lens
    BY <1>2, LastTimeEndIs, AllLengthsAreLens
  <2>2. note \in {"note", "rest"}
    OBVIOUS
  <2>3. e = Playable(note, start, len)
    OBVIOUS
  <2> HIDE DEF start, note, e
  <2>4. e \in Elements
    BY <2>1, <2>2, <2>3, PlayableIs
  <2> DEFINE i == n + 1
  <2>5. i \in 1 .. Len(Score.voices[v]) + 1
    BY <1>2
  <2> HIDE DEF i, n
  <2>6. OnlyVoice(Score, InsertElement(Score, v, i, e), v)
    BY <1>2, <2>4, <2>5, InsertElementIs
  <2>7. Alike(Score, longer)
    BY <2>6 DEF OnlyVoice, i
  <2> HIDE DEF longer
  <2> QED
    BY <1>1, <1>4, <2>7, AlikeKeeps
<1> QED
  BY <1>1, <1>3, <1>4

LEMMA PlaceInChordKeeps ==
  ASSUME Invariant, NEW v \in DOMAIN voices, NEW i, PlaceInChord(v, i)
  PROVE  Invariant'
<1> DEFINE sc == AddToChord(Score, v, i)
<1>1. ~Walking /\ i \in DOMAIN voices[v] /\ IsNote(voices[v][i]) /\ Synchronized(sc)
  BY DEF PlaceInChord
<1>2. /\ Score \in Scores /\ Score \in Scores \cup Passes /\ v \in DOMAIN Score.voices
      /\ i \in 1 .. Len(Score.voices[v]) /\ Score.voices = voices
  BY <1>1, InvariantIs
<1> DEFINE e == Score.voices[v][i]
<1>3. e \in Elements /\ IsNote(e)
  BY <1>1, <1>2, VoiceIs
<1> HIDE DEF e
<1>4. ~IsSign(e)
  BY <1>3, ElementIs
<1>5. OnlyVoice(Score, sc, v)
  BY <1>2, <1>4, AddToChordIs DEF e
<1> HIDE DEF sc
<1>6. Alike(Score, sc)
  BY <1>5 DEF OnlyVoice
<1> QED
  BY <1>1, <1>6, AlikeKeeps

LEMMA ReplaceKeeps ==
  ASSUME Invariant, NEW v \in DOMAIN voices, NEW i, NEW len \in AllLengths,
         ReplaceByNote(v, i, len) \/ ReplaceWithRest(v, i, len)
  PROVE  Invariant'
<1> DEFINE n == TakenFor(Score, v, i, len)
           note == "note"
           noted == ReplaceRun(Score, v, i, n, note, len)
           rested == ReplaceByRest(Score, v, i, len)
<1>1. /\ ~Walking /\ i \in DOMAIN voices[v]
      /\ \/ voices[v][i].kind = "rest" /\ Synchronized(noted)
         \/ ~IsSign(voices[v][i]) /\ Synchronized(rested)
  BY DEF ReplaceByNote, ReplaceWithRest
<1>2. /\ Score \in Scores /\ v \in DOMAIN Score.voices
      /\ i \in 1 .. Len(Score.voices[v]) /\ Score.voices = voices
  BY <1>1, InvariantIs
<1>3. len \in Lens /\ note \in {"note", "rest"}
  BY AllLengthsAreLens
<1>4. ~IsSign(Score.voices[v][i])
  BY <1>1, <1>2 DEF IsSign
<1>5. Run(Score, v, i, n)
  BY <1>2, <1>4, TakenForIs
<1> HIDE DEF n, note
<1>6. OnlyVoice(Score, noted, v)
  BY <1>2, <1>3, <1>5, ReplaceRunIs
<1>7. OnlyVoice(Score, rested, v)
  BY <1>2, <1>3, <1>4, ReplaceByRestIs
<1> HIDE DEF noted, rested
<1>8. Alike(Score, noted) /\ Alike(Score, rested)
  BY <1>6, <1>7 DEF OnlyVoice
<1> QED
  BY <1>1, <1>8, AlikeKeeps

LEMMA ResizeKeeps ==
  ASSUME Invariant, NEW v \in DOMAIN voices, NEW i, NEW len \in Lens, NEW atEnd,
         Resize(v, i, len, atEnd)
  PROVE  Invariant'
<1> DEFINE sc == Resized(Score, v, i, len, atEnd)
<1>1. /\ ~Walking /\ i \in DOMAIN voices[v] /\ ~IsSign(voices[v][i])
      /\ Done(sc) \/ Synchronized(sc)
  BY DEF Resize
<1>2. /\ Score \in Scores /\ v \in DOMAIN Score.voices
      /\ i \in 1 .. Len(Score.voices[v]) /\ Score.voices = voices
  BY <1>1, InvariantIs
<1>3. ~IsSign(Score.voices[v][i])
  BY <1>1, <1>2
<1>4. OnlyVoice(Score, sc, v)
  BY <1>2, <1>3, ResizedIs
<1> HIDE DEF sc
<1>5. Alike(Score, sc)
  BY <1>4 DEF OnlyVoice
<1> QED
  BY <1>1, <1>5, AlikeKeeps

LEMMA SetDottedKeeps ==
  ASSUME Invariant, NEW v \in DOMAIN voices, NEW i, SetDotted(v, i)
  PROVE  Invariant'
<1> DEFINE old == voices[v][i].len
           len == IF old % 3 = 0 THEN (old * 2) \div 3 ELSE old + old \div 2
           atEnd == IsNote(voices[v][i]) /\ i # Max(ChordAt(Score, v, i))
<1>1. i \in DOMAIN voices[v] /\ ~IsSign(voices[v][i]) /\ Resize(v, i, len, atEnd)
  BY DEF SetDotted
<1>2. old \in Lens
  <2> DEFINE e == voices[v][i]
  <2>1. e \in Elements
    BY <1>1, InvariantIs DEF Lists
  <2> HIDE DEF e
  <2>2. e.len \in Lens
    BY <1>1, <2>1, ElementIs DEF e
  <2> QED
    BY <2>2 DEF e
<1> HIDE DEF old
<1>3. len \in Lens
  BY <1>2, DottedIsLen
<1> HIDE DEF len, atEnd
<1> QED
  BY <1>1, <1>3, ResizeKeeps

LEMMA DeleteElementKeeps ==
  ASSUME Invariant, NEW v \in DOMAIN voices, NEW i, NEW takeOut, DeleteElement(v, i, takeOut)
  PROVE  Invariant'
<1> DEFINE sc == DeletePlayable(Score, v, i, takeOut)
<1>1. ~Walking /\ i \in DOMAIN voices[v] /\ ~IsSign(voices[v][i]) /\ Done(sc)
  BY DEF DeleteElement
<1>2. /\ Score \in Scores /\ v \in DOMAIN Score.voices
      /\ i \in 1 .. Len(Score.voices[v]) /\ Score.voices = voices
  BY <1>1, InvariantIs
<1>3. ~IsSign(Score.voices[v][i])
  BY <1>1, <1>2
<1>4. Alike(Score, sc)
  BY <1>2, <1>3, DeletePlayableIs
<1> HIDE DEF sc
<1> QED
  BY <1>1, <1>4, AlikeKeeps

LEMMA EditKeeps ==
  ASSUME Invariant, Edit
  PROVE  Invariant'
<1>1. CASE NewVoice
  BY <1>1, NewVoiceKeeps
<1>2. CASE \E s \in Signs : DeleteSign(s)
  BY <1>2, DeleteSignKeeps
<1>3. ASSUME NEW v \in DOMAIN voices, RemoveVoice(v) PROVE Invariant'
  BY <1>3, RemoveVoiceKeeps
<1>4. ASSUME NEW v \in DOMAIN voices, NEW len \in AllLengths, NEW addToChord \in BOOLEAN,
             PlayKey(v, len, addToChord)
      PROVE  Invariant'
  BY <1>4, PlayKeyKeeps
<1>5. ASSUME NEW v \in DOMAIN voices, NEW i \in 1 .. Len(voices[v]) + 1,
             \/ \E s \in Signs : PlaceSign(s, v, i)
             \/ \E kind \in {"note", "rest"}, len \in AllLengths : PlacePlayable(v, i, kind, len)
             \/ PlaceInChord(v, i)
             \/ \E len \in AllLengths : ReplaceByNote(v, i, len) \/ ReplaceWithRest(v, i, len)
             \/ \E len \in Lengths : SetLength(v, i, len)
             \/ SetDotted(v, i)
             \/ \E takeOut \in BOOLEAN : DeleteElement(v, i, takeOut)
      PROVE  Invariant'
  <2>1. CASE \E s \in Signs : PlaceSign(s, v, i)
    BY <2>1, PlaceSignKeeps
  <2>2. CASE \E kind \in {"note", "rest"}, len \in AllLengths : PlacePlayable(v, i, kind, len)
    BY <2>2, PlacePlayableKeeps
  <2>3. CASE PlaceInChord(v, i)
    BY <2>3, PlaceInChordKeeps
  <2>4. CASE \E len \in AllLengths : ReplaceByNote(v, i, len) \/ ReplaceWithRest(v, i, len)
    BY <2>4, ReplaceKeeps
  <2>5. CASE \E len \in Lengths : SetLength(v, i, len)
    <3> DEFINE no == FALSE
    <3>1. PICK len \in Lengths : Resize(v, i, len, no)
      BY <2>5 DEF SetLength
    <3> HIDE DEF no
    <3>2. len \in Lens
      BY AllLengthsAreLens
    <3> QED
      BY <3>1, <3>2, ResizeKeeps
  <2>6. CASE SetDotted(v, i)
    BY <2>6, SetDottedKeeps
  <2>7. CASE \E takeOut \in BOOLEAN : DeleteElement(v, i, takeOut)
    BY <2>7, DeleteElementKeeps
  <2> QED
    BY <1>5, <2>1, <2>2, <2>3, <2>4, <2>5, <2>6, <2>7
<1>6. CASE \E v \in DOMAIN voices :
             \/ RemoveVoice(v)
             \/ \E len \in AllLengths, addToChord \in BOOLEAN : PlayKey(v, len, addToChord)
             \/ \E i \in 1 .. Len(voices[v]) + 1 :
                 \/ \E s \in Signs : PlaceSign(s, v, i)
                 \/ \E kind \in {"note", "rest"}, len \in AllLengths : PlacePlayable(v, i, kind, len)
                 \/ PlaceInChord(v, i)
                 \/ \E len \in AllLengths : ReplaceByNote(v, i, len) \/ ReplaceWithRest(v, i, len)
                 \/ \E len \in Lengths : SetLength(v, i, len)
                 \/ SetDotted(v, i)
                 \/ \E takeOut \in BOOLEAN : DeleteElement(v, i, takeOut)
  BY <1>3, <1>4, <1>5, <1>6
<1> QED
  BY <1>1, <1>2, <1>6 DEF Edit

\* Handlers wait for the end of the walk.
LEMMA EditOnlyBetweenWalks ==
  ASSUME Edit
  PROVE  ~Walking
<1>1. NewVoice => ~Walking
  BY DEF NewVoice
<1>2. \A s : DeleteSign(s) => ~Walking
  BY DEF DeleteSign
<1>3. \A v : RemoveVoice(v) => ~Walking
  BY DEF RemoveVoice
<1>4. \A v, len, addToChord : PlayKey(v, len, addToChord) => ~Walking
  BY DEF PlayKey
<1>5. \A s, v, i : PlaceSign(s, v, i) => ~Walking
  BY DEF PlaceSign
<1>6. \A v, i, kind, len : PlacePlayable(v, i, kind, len) => ~Walking
  BY DEF PlacePlayable
<1>7. \A v, i : PlaceInChord(v, i) => ~Walking
  BY DEF PlaceInChord
<1>8. \A v, i, len : ReplaceByNote(v, i, len) \/ ReplaceWithRest(v, i, len) => ~Walking
  BY DEF ReplaceByNote, ReplaceWithRest
<1>9. \A v, i, len, atEnd : Resize(v, i, len, atEnd) => ~Walking
  BY DEF Resize
<1>10. \A v, i, len : SetLength(v, i, len) => ~Walking
  BY <1>9 DEF SetLength
<1>11. \A v, i : SetDotted(v, i) => ~Walking
  BY <1>9 DEF SetDotted
<1>12. \A v, i, takeOut : DeleteElement(v, i, takeOut) => ~Walking
  BY DEF DeleteElement
<1> QED
  BY <1>1, <1>2, <1>3, <1>4, <1>5, <1>6, <1>7, <1>8, <1>10, <1>11, <1>12 DEF Edit

-----------------------------------------------------------------------------
(* The theorems *)

\* One pass of synchronizeVoices keeps the invariant and only delays notes.
LEMMA SynchronizePassKeeps ==
  ASSUME Invariant, SynchronizePass
  PROVE  /\ Invariant'
         /\ \A v \in DOMAIN voices : OnlyDelays(NotesOf(voices[v]), NotesOf(voices'[v]))
<1> DEFINE p == Position
           q == Pass(p)
           n == Len(voices)
           next == [idx |-> q.idx, now |-> q.now, passes |-> walk.passes + 1]
<1>1. Walking /\ voices' = q.voices /\ at' = q.at /\ walk' = IF IsDone(p, q) THEN NoWalk ELSE next
  BY DEF SynchronizePass, Becomes, Position
<1>2. /\ Sound(p) /\ walk.passes \in Nat /\ walk.passes <= 1 + Total(walk.idx)
      /\ walk.passes # 0 => Pending(p)
  BY <1>1 DEF Invariant, WalkInvariant
<1>3. p.voices = voices /\ p.idx = walk.idx
  BY DEF Position
<1> HIDE DEF p
<1>4. Passed(p, q)
  BY <1>2, PassIs
<1> HIDE DEF q
<1>5. /\ Sound(q) /\ Len(q.voices) = n
      /\ \A v \in 1 .. n : /\ q.idx[v] >= p.idx[v]
                           /\ OnlyDelays(NotesOf(p.voices[v]), NotesOf(q.voices[v]))
      /\ Pending(p) => \E v \in 1 .. n : q.idx[v] > p.idx[v]
      /\ IsDone(p, q) \/ Pending(q)
  BY <1>3, <1>4 DEF Passed
<1>6. /\ q \in Passes /\ q.voices \in Seq(Lists) /\ q.at \in [Signs -> Times] /\ q.idx \in Seq(Nat)
      /\ Len(q.idx) = n
  BY <1>5, SoundIs DEF Sound
<1>7. Score' \in Scores /\ Len(voices') \in 1 .. MaxVoices
  <2>1. Len(voices) \in 1 .. MaxVoices
    BY DEF Invariant
  <2> QED
    BY <1>1, <1>5, <1>6, <2>1 DEF Score, Scores
<1>8. Walking' => WalkInvariant'
  <2> SUFFICES ASSUME Walking' PROVE WalkInvariant'
    OBVIOUS
  <2>1. walk' = next /\ Pending(q)
    BY <1>1, <1>5 DEF Walking
  <2>2. /\ walk' = [idx |-> walk'.idx, now |-> walk'.now, passes |-> walk'.passes]
        /\ walk'.idx = q.idx /\ walk'.now = q.now /\ walk'.passes = walk.passes + 1
    BY <2>1
  <2>3. Position' = q
    BY <1>1, <1>6, <2>2 DEF Position, Passes
  <2>4. walk.passes + 1 <= 1 + Total(q.idx)
    <3> DEFINE a == p.idx
               b == q.idx
    <3>1. a \in Seq(Nat) /\ Len(a) = n
      BY <1>2, <1>3, SoundIs DEF Sound
    <3>2. /\ b \in Seq(Nat) /\ Len(a) = Len(b)
          /\ \A v \in 1 .. Len(a) : a[v] <= b[v]
          /\ Pending(p) => \E v \in 1 .. Len(a) : a[v] < b[v]
      <4>1. \A v \in 1 .. n : a[v] \in Nat /\ b[v] \in Nat
        BY <1>6, <3>1, SMTT(60)
      <4> HIDE DEF a, b
      <4>2. \A v \in 1 .. n : a[v] <= b[v]
        BY <1>5, <4>1 DEF a, b
      <4>3. Pending(p) => \E v \in 1 .. n : a[v] < b[v]
        BY <1>5, <4>1 DEF a, b
      <4>4. b \in Seq(Nat) /\ Len(a) = Len(b)
        BY <1>6, <3>1 DEF a, b
      <4> QED
        BY <3>1, <4>2, <4>3, <4>4
    <3> HIDE DEF a, b
    <3>3. Total(a) \in Nat /\ Total(b) \in Nat
      BY <3>1, <3>2, TotalOfNats
    <3>4. Total(a) <= Total(b) /\ ((\E v \in 1 .. Len(a) : a[v] < b[v]) => Total(a) < Total(b))
      BY <3>1, <3>2, TotalGrows
    <3>5. walk.passes <= 1 + Total(a)
      BY <1>2, <1>3 DEF a
    <3> DEFINE m == walk.passes
               s == Total(a)
               t == Total(b)
    <3>6. m \in Nat /\ s \in Nat /\ t \in Nat /\ m <= 1 + s /\ s <= t /\ (m # 0 => s < t)
      BY <1>2, <3>2, <3>3, <3>4, <3>5
    <3> HIDE DEF m, s, t
    <3>7. m + 1 <= 1 + t
      BY <3>6
    <3> QED
      BY <3>7 DEF m, t, b
  <2>5. Sound(Position)' /\ Pending(Position)'
    BY <1>5, <2>1, <2>3
  <2> QED
    BY <1>2, <2>2, <2>4, <2>5 DEF WalkInvariant
<1>9. Invariant'
  BY <1>7, <1>8 DEF Invariant
<1>10. DOMAIN voices = 1 .. n
  BY InvariantIs
<1> QED
  BY <1>1, <1>3, <1>5, <1>9, <1>10

\* The lists hold signs, notes and rests with even times and lengths that can
\* be written, the staff has a voice, and a walk stays inside the voices,
\* whatever the handlers do and synchronizeVoices repairs.
THEOREM StaffInvariant == Spec => []Invariant
<1>1. Init => Invariant
  <2> SUFFICES ASSUME Init PROVE Invariant
    OBVIOUS
  <2>1. voices = <<<<>>>> /\ at = [s \in Signs |-> 0] /\ walk = NoWalk
    BY DEF Init
  <2>2. <<>> \in Lists
    BY DEF Lists
  <2>3. <<<<>>>> \in Seq(Lists) /\ Len(<<<<>>>>) = 1
    BY <2>2
  <2>4. at \in [Signs -> Times]
    BY <2>1, TimesAdd
  <2>5. Score \in Scores
    BY <2>1, <2>3, <2>4 DEF Score, Scores
  <2>6. Len(voices) \in 1 .. MaxVoices
    BY <2>1, <2>3, BoundsAssumption
  <2> QED
    BY <2>1, <2>5, <2>6 DEF Invariant, Walking
<1>2. Invariant /\ [Next]_vars => Invariant'
  <2> SUFFICES ASSUME Invariant, [Next]_vars PROVE Invariant'
    OBVIOUS
  <2>1. CASE Edit
    BY <2>1, EditKeeps
  <2>2. CASE SynchronizePass
    BY <2>2, SynchronizePassKeeps
  <2>3. CASE UNCHANGED vars
    BY <2>3 DEF vars, Invariant, WalkInvariant, Walking, Score, Position, Pending, HasNext, NextStart, Start
  <2> QED
    BY <2>1, <2>2, <2>3 DEF Next
<1> QED
  BY <1>1, <1>2, PTL DEF Spec

\* The loop of synchronizeVoices ends: its passes are never more than the
\* elements of the voices, those it adds included, and one.
LEMMA InvariantEndsWalks == Invariant => WalkEnds
<1> SUFFICES ASSUME Invariant PROVE WalkEnds
  OBVIOUS
<1> DEFINE lens == [v \in DOMAIN voices |-> Len(voices[v])]
           n == Len(voices)
<1>1. /\ n \in Nat /\ DOMAIN voices = 1 .. n
      /\ \A v \in 1 .. n : Len(voices[v]) \in Nat
  BY InvariantIs
<1>2. lens \in Seq(Nat) /\ Len(lens) = n /\ \A v \in 1 .. n : lens[v] = Len(voices[v])
  <2>1. lens = [v \in 1 .. n |-> Len(voices[v])]
    BY <1>1
  <2> HIDE DEF lens, n
  <2>2. lens \in [1 .. n -> Nat] /\ \A v \in 1 .. n : lens[v] = Len(voices[v])
    BY <1>1, <2>1
  <2> QED
    BY <1>1, <2>2, IsSequence
<1>3. WalkEnds <=> walk.passes <= 1 + Total(lens)
  BY DEF WalkEnds
<1> HIDE DEF lens
<1>4. Total(lens) \in Nat
  BY <1>2, TotalOfNats
<1>5. CASE ~Walking
  <2>1. walk.passes = 0
    BY <1>5 DEF Walking, NoWalk
  <2> QED
    BY <1>3, <1>4, <2>1
<1>6. CASE Walking
  <2>1. Sound(Position) /\ walk.passes \in Nat /\ walk.passes <= 1 + Total(walk.idx)
    BY <1>6 DEF Invariant, WalkInvariant
  <2> DEFINE idx == walk.idx
  <2>2. Position.voices = voices /\ Position.idx = idx
    BY DEF Position
  <2>3. idx \in Seq(Nat) /\ Len(idx) = n /\ \A v \in 1 .. n : idx[v] <= lens[v]
    BY <1>2, <2>1, <2>2, SoundIs DEF Sound
  <2> HIDE DEF idx, n
  <2>4. Total(idx) <= Total(lens)
    BY <1>2, <2>3, TotalGrows
  <2>5. Total(idx) \in Nat
    BY <2>3, TotalOfNats
  <2> QED
    BY <1>3, <1>4, <2>1, <2>4, <2>5 DEF idx
<1> QED
  BY <1>5, <1>6

THEOREM WalksEnd == Spec => []WalkEnds
BY StaffInvariant, InvariantEndsWalks, PTL

\* synchronizeVoices repairs with rests alone: a pass keeps the notes of each
\* voice and their lengths, in their order, and moves none of them back.
THEOREM NotesAreKept == Spec => KeepsNotes
<1>1. Invariant /\ [Next]_vars =>
        [Walking => \A v \in DOMAIN voices : OnlyDelays(NotesOf(voices[v]), NotesOf(voices'[v]))]_vars
  <2> SUFFICES ASSUME Invariant, Next, Walking
               PROVE  \A v \in DOMAIN voices : OnlyDelays(NotesOf(voices[v]), NotesOf(voices'[v]))
    OBVIOUS
  <2>1. SynchronizePass
    BY EditOnlyBetweenWalks DEF Next
  <2> QED
    BY <2>1, SynchronizePassKeeps
<1> QED
  BY <1>1, StaffInvariant, PTL DEF Spec, KeepsNotes
=============================================================================
