--------------------------- MODULE TypesetProofs ---------------------------
(***************************************************************************)
(* Proofs about Typeset, for any exporters and any number of clicks.  The  *)
(* invariants that TLC checks say what was answered; they rest on what is  *)
(* still to be answered: the posted signals, the control and the dialogs   *)
(* of an exporter belong to its last request, unless that was hasty.       *)
(***************************************************************************)
EXTENDS Typeset, SequenceTheorems, TLAPS

\* No two exporters make the same file.
OwnFile == \A e, f \in Exporters : File[e] = File[f] => e = f

Posted == [exporter : Exporters, code : {0, 1}]
Opened == [exporter : Exporters, output : 0 .. requests]

\* While the window waits, it is for the last request, and no dialog is open.
WaitsForLast ==
  gui = "waiting" =>
    /\ dialogs = << >> /\ requests \in Requests
    /\ asked[working] = requests /\ answer[working] = "none"
    /\ \A e \in Exporters \ {working} : asked[e] < requests

\* No typesetter has ended that is to be started, or is running.
Unended ==
  \A n \in Requests :
    n > requests \/ (n = requests /\ gui = "waiting") => ended[n] = "none"

\* An output was made by a typesetter that started and ended.
OutputsEnded ==
  \A n \in outputs : n \in Requests /\ ended[n] \notin {"none", "notStarted", "notOpened"}

\* A signal tells how the last request ended, unless that was hasty.
SignalIsRight(m) ==
  LET e == m.exporter
  IN /\ asked[e] > 0
     /\ \/ hasty[e]
        \/ /\ gui = "waiting" => working # e
           /\ m.code = 0 => ended[asked[e]] \in {"ok", "notStarted"}
           /\ m.code # 0 => ended[asked[e]] # "ok"

SignalsRight == \A m \in Range(queue) : SignalIsRight(m)

\* The file of its last request was not opened.
Unopened(e) == asked[e] \in Requests /\ ended[asked[e]] = "notOpened"

\* The control is that of the last request, unless the next one is under way, or
\* ended before there was a control for it.
ControlOfLast ==
  \A e \in Exporters :
    \/ ctl[e] = 0 \/ ctl[e] = asked[e]
    \/ gui = "waiting" /\ working = e
    \/ Unopened(e)

\* So is the output that is removed behind a dialog.
DialogOfLast(d) ==
  \/ d.output = asked[d.exporter]
  \/ d.output = 0 /\ ctl[d.exporter] = 0
  \/ Unopened(d.exporter)

DialogsOfLast == \A d \in Range(dialogs) : DialogOfLast(d)

\* The output of a last request is removed behind a dialog that is open, or when
\* a signal comes that finds it and no file in its way, unless that failed before.
WillBeRemoved(e) ==
  \/ [exporter |-> e, output |-> asked[e]] \in Range(dialogs)
  \/ /\ ctl[e] = asked[e]
     /\ \E m \in Range(queue) : m.exporter = e
     /\ File[e] \notin present

OutputsWait ==
  OwnFile => \A e \in Exporters : asked[e] \in outputs \ silent => WillBeRemoved(e)

AnswersAsked == \A e \in Exporters : answer[e] # "none" => asked[e] > 0

\* What the properties rest on, ...
Others ==
  /\ WaitsForLast /\ Unended /\ OutputsEnded /\ SignalsRight
  /\ ControlOfLast /\ DialogsOfLast /\ OutputsWait /\ AnswersAsked /\ AnswersAreRight

\* ... which is inductive.
IInv == TypeOK /\ Others

-----------------------------------------------------------------------------
(* The signals and the dialogs as sets.                                    *)

LEMMA RangeOfEmpty == Range(<< >>) = {}
BY DEF Range

LEMMA RangeOfAppend ==
  ASSUME NEW S, NEW s \in Seq(S), NEW x \in S
  PROVE  Append(s, x) \in Seq(S) /\ Range(Append(s, x)) = Range(s) \cup {x}
<1>1. /\ Append(s, x) \in Seq(S) /\ Len(Append(s, x)) = Len(s) + 1
      /\ \A i \in 1 .. Len(s) : Append(s, x)[i] = s[i]
      /\ Append(s, x)[Len(s) + 1] = x
  BY AppendProperties
<1>2. DOMAIN s = 1 .. Len(s) /\ DOMAIN Append(s, x) = 1 .. Len(s) + 1 /\ Len(s) \in Nat
  BY <1>1
<1>. QED  BY <1>1, <1>2 DEF Range

LEMMA RangeOfHead ==
  ASSUME NEW S, NEW s \in Seq(S), s # << >>
  PROVE  /\ Head(s) \in S /\ Tail(s) \in Seq(S)
         /\ Range(s) = Range(Tail(s)) \cup {Head(s)}
<1>1. /\ Head(s) \in S /\ Tail(s) \in Seq(S) /\ Len(Tail(s)) = Len(s) - 1
      /\ \A i \in 1 .. Len(Tail(s)) : Tail(s)[i] = s[i + 1]
  BY HeadTailProperties
<1>2. Len(s) \in Nat \ {0} /\ DOMAIN s = 1 .. Len(s) /\ DOMAIN Tail(s) = 1 .. Len(s) - 1
  BY <1>1, EmptySeq
<1>3. Head(s) = s[1]
  OBVIOUS
<1>4. ASSUME NEW i \in DOMAIN s PROVE s[i] \in Range(Tail(s)) \cup {Head(s)}
  <2>1. CASE i = 1
    BY <2>1, <1>3
  <2>2. CASE i # 1
    <3>1. i - 1 \in DOMAIN Tail(s) /\ Tail(s)[i - 1] = s[i]
      BY <2>2, <1>1, <1>2
    <3>. QED  BY <3>1 DEF Range
  <2>. QED  BY <2>1, <2>2
<1>5. Range(s) \subseteq Range(Tail(s)) \cup {Head(s)}
  BY <1>4 DEF Range
<1>6. Range(Tail(s)) \cup {Head(s)} \subseteq Range(s)
  BY <1>1, <1>2, <1>3 DEF Range
<1>. QED  BY <1>1, <1>5, <1>6

LEMMA RangeOfLast ==
  ASSUME NEW S, NEW s \in Seq(S), s # << >>
  PROVE  /\ Last(s) \in S /\ Front(s) \in Seq(S)
         /\ Range(s) = Range(Front(s)) \cup {Last(s)}
<1>1. Len(s) \in Nat \ {0} /\ DOMAIN s = 1 .. Len(s)
  BY EmptySeq
<1>2. \A i \in 1 .. Len(s) : s[i] \in S
  BY ElementOfSeq
<1>3. /\ Front(s) \in Seq(S) /\ Len(Front(s)) = Len(s) - 1
      /\ \A i \in 1 .. Len(s) - 1 : Front(s)[i] = s[i]
  BY <1>1, <1>2, SubSeqProperties DEF Front
<1>4. DOMAIN Front(s) = 1 .. Len(s) - 1
  BY <1>3
<1>. QED  BY <1>1, <1>2, <1>3, <1>4 DEF Last, Range

LEMMA RangeOfConcat ==
  ASSUME NEW S, NEW s \in Seq(S), NEW t \in Seq(S)
  PROVE  s \o t \in Seq(S) /\ Range(s \o t) = Range(s) \cup Range(t)
<1>1. /\ s \o t \in Seq(S) /\ Len(s \o t) = Len(s) + Len(t)
      /\ \A i \in 1 .. Len(s) + Len(t) :
           (s \o t)[i] = IF i <= Len(s) THEN s[i] ELSE t[i - Len(s)]
  BY ConcatProperties
<1>2. /\ Len(s) \in Nat /\ Len(t) \in Nat
      /\ DOMAIN s = 1 .. Len(s) /\ DOMAIN t = 1 .. Len(t)
      /\ DOMAIN (s \o t) = 1 .. Len(s) + Len(t)
  BY <1>1
<1>3. \A i \in DOMAIN (s \o t) : (s \o t)[i] \in Range(s) \cup Range(t)
  BY <1>1, <1>2 DEF Range
<1>4. \A i \in DOMAIN s : (s \o t)[i] = s[i] /\ i \in DOMAIN (s \o t)
  BY <1>1, <1>2
<1>5. \A i \in DOMAIN t : (s \o t)[i + Len(s)] = t[i] /\ i + Len(s) \in DOMAIN (s \o t)
  BY <1>1, <1>2
<1>6. Range(s) \subseteq Range(s \o t)
  BY <1>4, Zenon DEF Range
<1>7. Range(t) \subseteq Range(s \o t)
  BY <1>5, Zenon DEF Range
<1>8. Range(s \o t) \subseteq Range(s) \cup Range(t)
  BY <1>3, Zenon DEF Range
<1>. QED  BY <1>1, <1>6, <1>7, <1>8

\* CAExternProgram::programExited signals at least once, unless there was no
\* program to run, and 0 only if it has succeeded or did not start.
LEMMA SignalsOf ==
  ASSUME NEW r \in Results
  PROVE  /\ Signals(r) \in Seq({0, 1}) /\ (r # "noProgram" => Signals(r) # << >>)
         /\ \A k \in DOMAIN Signals(r) :
              /\ Signals(r)[k] = 0 => r \in {"ok", "notStarted"}
              /\ Signals(r)[k] = 1 => r # "ok"
<1>1. CASE r = "ok"
  BY <1>1 DEF Signals
<1>2. CASE r = "error"
  BY <1>2 DEF Signals
<1>3. CASE r = "crash"
  BY <1>3 DEF Signals
<1>4. CASE r = "notStarted"
  BY <1>4 DEF Signals
<1>5. CASE r = "noProgram"
  BY <1>5 DEF Signals
<1>. QED  BY <1>1, <1>2, <1>3, <1>4, <1>5 DEF Results

LEMMA PostedSignals ==
  ASSUME NEW r \in Results, NEW e \in Exporters
  PROVE  LET q == [k \in DOMAIN Signals(r) |-> [exporter |-> e, code |-> Signals(r)[k]]]
         IN /\ q \in Seq(Posted)
            /\ r # "noProgram" => \E m \in Range(q) : m.exporter = e
            /\ \A m \in Range(q) :
                 /\ m.exporter = e
                 /\ m.code = 0 => r \in {"ok", "notStarted"}
                 /\ m.code # 0 => r # "ok"
<1>. DEFINE q == [k \in DOMAIN Signals(r) |-> [exporter |-> e, code |-> Signals(r)[k]]]
<1>1. /\ Signals(r) \in Seq({0, 1}) /\ DOMAIN Signals(r) = 1 .. Len(Signals(r))
      /\ Len(Signals(r)) \in Nat /\ (r # "noProgram" => Len(Signals(r)) # 0)
  BY SignalsOf, EmptySeq
<1>2. \A k \in DOMAIN Signals(r) : Signals(r)[k] \in {0, 1}
  BY <1>1, ElementOfSeq
<1>3. q \in Seq(Posted)
  BY <1>1, <1>2 DEF Posted
<1>4. r # "noProgram" => 1 \in DOMAIN q /\ q[1].exporter = e
  BY <1>1
<1>5. \A m \in Range(q) :
        /\ m.exporter = e
        /\ m.code = 0 => r \in {"ok", "notStarted"}
        /\ m.code # 0 => r # "ok"
  BY <1>2, SignalsOf DEF Range
<1>. QED  BY <1>3, <1>4, <1>5 DEF Range


LEMMA RangeInSet ==
  ASSUME NEW S, NEW s \in Seq(S)
  PROVE  Range(s) \subseteq S
BY ElementOfSeq DEF Range

LEMMA PostedAndOpened ==
  ASSUME TypeOK
  PROVE  /\ queue \in Seq(Posted) /\ Range(queue) \subseteq Posted
         /\ dialogs \in Seq(Opened) /\ Range(dialogs) \subseteq Opened
<1>1. queue \in Seq(Posted) /\ dialogs \in Seq(Opened)
  BY DEF TypeOK, Posted, Opened
<1>. QED  BY <1>1, RangeInSet

-----------------------------------------------------------------------------
LEMMA InitInvariant == Init => IInv
<1>. SUFFICES ASSUME Init PROVE IInv
  OBVIOUS
<1>. USE DEF Init
<1>1. requests \in 0 .. MaxRequests /\ queue \in Seq(Posted)
      /\ dialogs \in Seq([exporter : Exporters, output : 0 .. requests])
  BY TypesetAssumption
<1>2. TypeOK
  <2>1. /\ asked \in [Exporters -> 0 .. requests] /\ hasty \in [Exporters -> BOOLEAN]
        /\ ctl \in [Exporters -> 0 .. requests] /\ shown \in [Exporters -> 0 .. requests]
        /\ content \in [Files -> 0 .. requests] /\ ended \in [Requests -> {"none"}]
        /\ answer \in [Exporters -> {"none"}]
    BY <1>1
  <2>2. /\ gui \in {"idle", "waiting"} /\ working \in Exporters /\ repeats \in BOOLEAN
        /\ present \subseteq Files /\ outputs \subseteq 1 .. requests
        /\ silent \subseteq 1 .. requests
    OBVIOUS
  <2>3. /\ ended \in [Requests -> Results \cup {"none", "notOpened"}]
        /\ answer \in [Exporters -> {"none", "shown", "failed", "unable"}]
    BY <2>1
  <2>. HIDE DEF Init
  <2>. QED  BY <1>1, <2>1, <2>2, <2>3 DEF TypeOK, Posted
<1>3. WaitsForLast /\ Unended /\ OutputsEnded /\ ControlOfLast /\ OutputsWait
  BY DEF WaitsForLast, Unended, OutputsEnded, ControlOfLast, OutputsWait
<1>4. SignalsRight /\ DialogsOfLast
  BY RangeOfEmpty DEF SignalsRight, DialogsOfLast
<1>5. AnswersAsked /\ AnswersAreRight
  BY DEF AnswersAsked, AnswersAreRight
<1>. QED  BY <1>2, <1>3, <1>4, <1>5 DEF IInv, Others

\* A request that was made is one of Requests.
LEMMA AskedIsRequest ==
  ASSUME TypeOK
  PROVE  \A e \in Exporters : asked[e] \in Nat /\ (asked[e] > 0 => asked[e] \in Requests)
BY TypesetAssumption DEF TypeOK, Requests

\* What a handler does first, whether or not its file is opened.
LEMMA AskTypes ==
  ASSUME TypeOK, NEW e \in Exporters, Ask(e)
  PROVE  /\ requests \in Nat /\ requests' = requests + 1 /\ requests' \in 1 .. MaxRequests
         /\ working' \in Exporters /\ repeats' \in BOOLEAN
         /\ asked' \in [Exporters -> 0 .. requests'] /\ hasty' \in [Exporters -> BOOLEAN]
         /\ ctl' \in [Exporters -> 0 .. requests']
         /\ shown' \in [Exporters -> 0 .. requests']
         /\ content \in [Files -> 0 .. requests'] /\ File[e] \in Files
         /\ queue' \in Seq([exporter : Exporters, code : {0, 1}])
         /\ dialogs' \in Seq([exporter : Exporters, output : 0 .. requests'])
         /\ outputs' \subseteq 1 .. requests' /\ silent \subseteq 1 .. requests'
         /\ answer' \in [Exporters -> {"none", "shown", "failed", "unable"}]
<1>. USE TypesetAssumption DEF TypeOK, Ask
<1>1. requests \in Nat /\ requests' = requests + 1 /\ requests' \in 1 .. MaxRequests
  OBVIOUS
<1>2. 0 .. requests \subseteq 0 .. requests' /\ requests' \in 0 .. requests'
  BY <1>1
<1>3. asked' \in [Exporters -> 0 .. requests']
  BY <1>2
<1>4. hasty' \in [Exporters -> BOOLEAN]
  BY DEF Waits
<1>5. /\ ctl' \in [Exporters -> 0 .. requests'] /\ shown' \in [Exporters -> 0 .. requests']
      /\ content \in [Files -> 0 .. requests']
  BY <1>2
<1>6. dialogs' \in Seq([exporter : Exporters, output : 0 .. requests'])
  OBVIOUS
<1>7. outputs' \subseteq 1 .. requests' /\ silent \subseteq 1 .. requests'
  BY <1>1
<1>8. answer' \in [Exporters -> {"none", "shown", "failed", "unable"}]
  OBVIOUS
<1>9. /\ working' \in Exporters /\ repeats' \in BOOLEAN
      /\ queue' \in Seq([exporter : Exporters, code : {0, 1}])
  OBVIOUS
<1>10. File[e] \in Files
  BY DEF Files
<1>. HIDE DEF Ask, TypeOK
<1>. QED  BY <1>1, <1>3, <1>4, <1>5, <1>6, <1>7, <1>8, <1>9, <1>10

\* A handler that begins makes the signals that wait for it hasty ones, and keeps
\* those of the others.
LEMMA AskInvariant ==
  ASSUME IInv, NEW e \in Exporters, Ask(e),
         \A n \in 1 .. requests : ended'[n] = ended[n],
         gui' = "idle" \/ working' = e,
         present' \subseteq present \cup {File[e]}, silent \subseteq silent'
  PROVE  /\ requests \in Nat /\ requests' = requests + 1 /\ requests' \in Requests
         /\ gui = "idle" /\ working' = e /\ dialogs' = << >>
         /\ asked'[e] = requests' /\ answer'[e] = "none"
         /\ \A f \in Exporters \ {e} : asked'[f] = asked[f] /\ asked'[f] < requests'
         /\ UNCHANGED <<ctl, queue, outputs>> /\ requests' \notin outputs
         /\ OutputsEnded' /\ SignalsRight' /\ DialogsOfLast' /\ OutputsWait'
         /\ AnswersAsked' /\ AnswersAreRight'
<1>1. TypeOK
  BY DEF IInv
<1>2. /\ requests \in Nat /\ requests' = requests + 1 /\ requests' \in Requests
      /\ gui = "idle" /\ working' = e /\ dialogs' = << >>
      /\ asked'[e] = requests' /\ answer'[e] = "none"
      /\ hasty'[e] = Waits(e)
      /\ \A f \in Exporters \ {e} :
           asked'[f] = asked[f] /\ hasty'[f] = hasty[f] /\ answer'[f] = answer[f]
      /\ \A f \in Exporters : asked[f] \in 0 .. requests
      /\ UNCHANGED <<ctl, queue, dialogs, outputs, shown>>
  BY <1>1, TypesetAssumption DEF TypeOK, Ask, Requests
<1>3. \A f \in Exporters \ {e} :
        /\ asked'[f] < requests'
        /\ asked[f] > 0 => ended'[asked[f]] = ended[asked[f]]
  BY <1>2
<1>4. outputs \subseteq 1 .. requests /\ requests' \notin outputs
  BY <1>1, <1>2 DEF TypeOK
<1>5. OutputsEnded'
  BY <1>2, <1>4 DEF IInv, Others, OutputsEnded
<1>6. SignalsRight'
  <2>. SUFFICES ASSUME NEW m \in Range(queue) PROVE SignalIsRight(m)'
    BY <1>2 DEF SignalsRight
  <2>1. SignalIsRight(m) /\ m.exporter \in Exporters
    BY <1>1, PostedAndOpened DEF IInv, Others, SignalsRight, Posted
  <2>2. CASE m.exporter = e
    <3>1. Waits(e)
      BY <2>2 DEF Waits, Range
    <3>2. hasty'[m.exporter]
      BY <1>2, <2>2, <3>1, Zenon
    <3>3. asked'[m.exporter] > 0
      BY <1>2, <2>2
    <3>. QED  BY <3>2, <3>3, Zenon DEF SignalIsRight
  <2>3. CASE m.exporter # e
    BY <1>2, <1>3, <2>1, <2>3 DEF SignalIsRight
  <2>. QED  BY <2>2, <2>3
<1>7. DialogsOfLast'
  BY <1>2, RangeOfEmpty DEF DialogsOfLast
<1>8. OutputsWait'
  <2>. SUFFICES ASSUME OwnFile, NEW f \in Exporters, asked'[f] \in outputs \ silent'
                PROVE  WillBeRemoved(f)'
    BY <1>2 DEF OutputsWait
  <2>1. f # e
    BY <1>2, <1>4
  <2>2. asked'[f] = asked[f] /\ WillBeRemoved(f)
    BY <1>2, <2>1 DEF IInv, Others, OutputsWait
  <2>3. File[f] # File[e]
    BY <2>1 DEF OwnFile
  <2>. QED  BY <1>2, <2>2, <2>3 DEF WillBeRemoved
<1>9. AnswersAsked'
  BY <1>2 DEF IInv, Others, AnswersAsked
<1>10. AnswersAreRight'
  BY <1>2, <1>3 DEF IInv, Others, AnswersAsked, AnswersAreRight
<1>. QED  BY <1>2, <1>3, <1>4, <1>5, <1>6, <1>7, <1>8, <1>9, <1>10

LEMMA ClickInvariant ==
  ASSUME IInv, NEW e \in Exporters, Click(e)
  PROVE  IInv'
<1>1. /\ Ask(e) /\ TypeOK /\ gui' = "waiting" /\ working' = e
      /\ present' = present \cup {File[e]} /\ content' = [content EXCEPT ![File[e]] = 0]
      /\ ended' = ended /\ silent' = silent
  BY DEF Click, Ask, IInv
<1>2. TypeOK'
  <2>1. content' \in [Files -> 0 .. requests']
    BY <1>1, AskTypes
  <2>2. present' \subseteq Files /\ ended' \in [Requests -> Results \cup {"none", "notOpened"}]
    BY <1>1, AskTypes DEF TypeOK
  <2>3. requests' \in 0 .. MaxRequests
    BY <1>1, AskTypes
  <2>. QED  BY <1>1, <2>1, <2>2, <2>3, AskTypes DEF TypeOK
<1>3. /\ requests \in Nat /\ requests' = requests + 1 /\ requests' \in Requests
      /\ gui = "idle" /\ dialogs' = << >> /\ asked'[e] = requests' /\ answer'[e] = "none"
      /\ \A f \in Exporters \ {e} : asked'[f] = asked[f] /\ asked'[f] < requests'
      /\ ctl' = ctl
      /\ OutputsEnded' /\ SignalsRight' /\ DialogsOfLast' /\ OutputsWait'
      /\ AnswersAsked' /\ AnswersAreRight'
  BY <1>1, AskInvariant
<1>4. WaitsForLast'
  BY <1>1, <1>3 DEF WaitsForLast
<1>5. Unended'
  BY <1>1, <1>3 DEF IInv, Others, Unended, Requests
<1>6. ControlOfLast'
  BY <1>1, <1>3 DEF IInv, Others, ControlOfLast, Unopened
<1>. QED  BY <1>2, <1>3, <1>4, <1>5, <1>6 DEF IInv, Others

LEMMA NotOpenedInvariant ==
  ASSUME IInv, NEW e \in Exporters, NotOpened(e)
  PROVE  IInv'
<1>1. /\ Ask(e) /\ TypeOK /\ gui' = "idle" /\ gui = "idle"
      /\ present' \subseteq present /\ content' = content
      /\ ended' = [ended EXCEPT ![requests'] = "notOpened"]
      /\ silent' = silent \cup {requests'}
  BY DEF NotOpened, Ask, IInv
<1>2. requests \in Nat /\ requests' = requests + 1 /\ requests' \in Requests
  BY <1>1, AskTypes DEF Requests
<1>3. /\ ended' \in [Requests -> Results \cup {"none", "notOpened"}]
      /\ ended'[requests'] = "notOpened"
      /\ \A n \in Requests \ {requests'} : ended'[n] = ended[n]
  BY <1>1, <1>2 DEF TypeOK
<1>4. \A n \in 1 .. requests : n \in Requests \ {requests'}
  BY <1>2, TypesetAssumption DEF Requests
<1>5. TypeOK'
  <2>1. present' \subseteq Files
    BY <1>1 DEF TypeOK
  <2>2. silent' \subseteq 1 .. requests' /\ requests' \in 0 .. MaxRequests
    BY <1>1, <1>2, AskTypes DEF Requests
  <2>. QED  BY <1>1, <1>3, <2>1, <2>2, AskTypes DEF TypeOK
<1>6. /\ asked'[e] = requests'
      /\ \A f \in Exporters \ {e} : asked'[f] = asked[f] /\ asked'[f] < requests'
      /\ ctl' = ctl
      /\ OutputsEnded' /\ SignalsRight' /\ DialogsOfLast' /\ OutputsWait'
      /\ AnswersAsked' /\ AnswersAreRight'
  BY <1>1, <1>3, <1>4, AskInvariant
<1>7. WaitsForLast'
  BY <1>1 DEF WaitsForLast
<1>8. Unended'
  <2>. SUFFICES ASSUME NEW n \in Requests, n > requests' PROVE ended'[n] = "none"
    BY <1>1 DEF Unended
  <2>1. n # requests' /\ n > requests
    BY <1>2, TypesetAssumption DEF Requests
  <2>. QED  BY <1>3, <2>1 DEF IInv, Others, Unended
<1>9. ControlOfLast'
  BY <1>1, <1>2, <1>3, <1>6 DEF IInv, Others, ControlOfLast, Unopened
<1>. QED  BY <1>5, <1>6, <1>7, <1>8, <1>9 DEF IInv, Others

-----------------------------------------------------------------------------
LEMMA TypesetterInvariant ==
  ASSUME IInv, NEW r \in Results, Typesetter(r)
  PROVE  IInv'
<1>. DEFINE e == working
            q == [k \in DOMAIN Signals(r) |-> [exporter |-> e, code |-> Signals(r)[k]]]
<1>1. /\ TypeOK /\ e \in Exporters /\ queue \in Seq(Posted) /\ Range(queue) \subseteq Posted
      /\ requests \in Nat
  <2>1. TypeOK
    BY DEF IInv
  <2>2. e \in Exporters /\ requests \in Nat
    BY <2>1, TypesetAssumption DEF TypeOK
  <2>. QED  BY <2>1, <2>2, PostedAndOpened
<1>2. /\ gui = "waiting" /\ gui' = "idle"
      /\ dialogs = << >> /\ requests \in Requests /\ asked[e] = requests
      /\ answer[e] = "none"
      /\ \A f \in Exporters \ {e} : asked[f] < requests
      /\ ctl' = [ctl EXCEPT ![e] = requests]
      /\ present' = present \ {File[e]}
      /\ ended' = [ended EXCEPT ![requests] = r]
      /\ outputs' \subseteq outputs \cup {requests}
      /\ r \in {"notStarted", "noProgram"} => outputs' = outputs
      /\ outputs \subseteq outputs'
      /\ silent \subseteq silent' /\ silent' \subseteq silent \cup {requests}
      /\ queue' = queue \o q
      /\ UNCHANGED <<working, repeats, requests, asked, hasty, dialogs, content, answer,
                     shown>>
  BY DEF Typesetter, RemoveOld, IInv, Others, WaitsForLast
<1>3. /\ q \in Seq(Posted)
      /\ r # "noProgram" => \E m \in Range(q) : m.exporter = e
      /\ \A m \in Range(q) :
           /\ m.exporter = e
           /\ m.code = 0 => r \in {"ok", "notStarted"}
           /\ m.code # 0 => r # "ok"
  BY <1>1, PostedSignals
<1>4. queue' \in Seq(Posted) /\ Range(queue') = Range(queue) \cup Range(q)
  BY <1>1, <1>2, <1>3, RangeOfConcat
<1>. HIDE DEF q
<1>5. requests \in 1 .. requests
  BY <1>1, <1>2 DEF Requests
<1>6. /\ ctl \in [Exporters -> 0 .. requests] /\ ended \in [Requests -> Results \cup {"none", "notOpened"}]
      /\ requests \in 0 .. requests
  BY <1>1, <1>5 DEF TypeOK
<1>7. /\ ctl' \in [Exporters -> 0 .. requests]
      /\ ended' \in [Requests -> Results \cup {"none", "notOpened"}]
      /\ ctl'[e] = requests /\ \A f \in Exporters \ {e} : ctl'[f] = ctl[f]
      /\ ended'[requests] = r /\ \A n \in Requests \ {requests} : ended'[n] = ended[n]
  BY <1>1, <1>2, <1>6
<1>8. TypeOK'
  BY <1>1, <1>2, <1>4, <1>5, <1>7 DEF TypeOK, Posted
<1>9. r \notin {"none", "notOpened"} /\ ended[requests] = "none" /\ requests \notin outputs
  BY <1>2 DEF IInv, Others, Unended, OutputsEnded, Results
<1>10. WaitsForLast' /\ Unended'
  BY <1>1, <1>2, <1>7 DEF IInv, Others, WaitsForLast, Unended, Requests
<1>11. OutputsEnded'
  BY <1>2, <1>7, <1>9 DEF IInv, Others, OutputsEnded
<1>12. \A f \in Exporters \ {e} : asked[f] > 0 => ended'[asked[f]] = ended[asked[f]]
  BY <1>1, <1>2, <1>7, AskedIsRequest
<1>13. SignalsRight'
  <2>1. ASSUME NEW m \in Range(q) PROVE SignalIsRight(m)'
    BY <1>1, <1>2, <1>3, <1>5, <1>7 DEF SignalIsRight
  <2>2. ASSUME NEW m \in Range(queue) PROVE SignalIsRight(m)'
    <3>1. SignalIsRight(m) /\ m.exporter \in Exporters
      BY <1>1 DEF IInv, Others, SignalsRight, Posted
    <3>2. CASE m.exporter = e
      <4>1. hasty[e] /\ asked[e] > 0
        BY <1>2, <3>1, <3>2 DEF SignalIsRight
      <4>. QED  BY <1>2, <3>2, <4>1 DEF SignalIsRight
    <3>3. CASE m.exporter # e
      BY <1>2, <1>12, <3>1, <3>3 DEF SignalIsRight
    <3>. QED  BY <3>2, <3>3
  <2>. QED  BY <1>4, <2>1, <2>2 DEF SignalsRight
<1>14. ControlOfLast'
  BY <1>2, <1>7 DEF IInv, Others, ControlOfLast, Unopened
<1>15. DialogsOfLast'
  BY <1>2, RangeOfEmpty DEF DialogsOfLast
<1>16. OutputsWait'
  <2>. SUFFICES ASSUME OwnFile, NEW f \in Exporters, asked[f] \in outputs' \ silent'
                PROVE  WillBeRemoved(f)'
    BY <1>2 DEF OutputsWait
  <2>1. CASE f = e
    <3>1. r # "noProgram"
      BY <1>2, <1>9, <2>1
    <3>. QED  BY <1>2, <1>3, <1>4, <1>7, <2>1, <3>1 DEF WillBeRemoved
  <2>2. CASE f # e
    <3>1. asked[f] \in outputs \ silent
      BY <1>1, <1>2, <2>2 DEF TypeOK
    <3>2. WillBeRemoved(f)
      BY <3>1 DEF IInv, Others, OutputsWait
    <3>. QED  BY <1>2, <1>4, <1>7, <2>2, <3>2 DEF WillBeRemoved
  <2>. QED  BY <2>1, <2>2
<1>17. AnswersAsked' /\ AnswersAreRight'
  BY <1>2, <1>12 DEF IInv, Others, AnswersAsked, AnswersAreRight
<1>. QED  BY <1>8, <1>10, <1>11, <1>13, <1>14, <1>15, <1>16, <1>17 DEF IInv, Others

\* The next signal, and what is known of it.
LEMMA NextSignal ==
  ASSUME IInv, gui = "idle", queue # << >>, queue' = Tail(queue)
  PROVE  /\ Head(queue) \in Posted /\ queue' \in Seq(Posted)
         /\ Range(queue) = Range(queue') \cup {Head(queue)}
         /\ SignalIsRight(Head(queue))
<1>1. queue \in Seq(Posted)
  BY PostedAndOpened DEF IInv
<1>2. /\ Head(queue) \in Posted /\ Tail(queue) \in Seq(Posted)
      /\ Range(queue) = Range(Tail(queue)) \cup {Head(queue)}
  BY <1>1, RangeOfHead
<1>. QED  BY <1>2 DEF IInv, Others, SignalsRight

\* While signals are delivered, no request is made and no typesetter ends.
Frame ==
  /\ gui = "idle" /\ silent \subseteq silent'
  /\ UNCHANGED <<gui, working, repeats, requests, asked, hasty, ended>>

LEMMA FrameKeeps ==
  ASSUME IInv, Frame, Range(queue') \subseteq Range(queue), outputs' \subseteq outputs,
         \A f \in Exporters : ctl'[f] \in {0, ctl[f]}
  PROVE  WaitsForLast' /\ Unended' /\ OutputsEnded' /\ SignalsRight' /\ ControlOfLast'
<1>1. WaitsForLast' /\ Unended' /\ OutputsEnded'
  BY DEF Frame, IInv, Others, WaitsForLast, Unended, OutputsEnded
<1>2. SignalsRight'
  BY DEF Frame, IInv, Others, SignalsRight, SignalIsRight
<1>3. ControlOfLast'
  BY DEF Frame, IInv, Others, ControlOfLast, Unopened
<1>. QED  BY <1>1, <1>2, <1>3

LEMMA FinishRemoves ==
  ASSUME TypeOK, NEW e \in Exporters, NEW t, Finish(e, t)
  PROVE  /\ outputs' = outputs \ {t}
         /\ ctl' \in [Exporters -> 0 .. requests]
         /\ ctl'[e] = 0 /\ \A f \in Exporters \ {e} : ctl'[f] = ctl[f]
<1>1. ctl \in [Exporters -> 0 .. requests] /\ 0 \in 0 .. requests
  BY TypesetAssumption DEF TypeOK
<1>. QED  BY <1>1 DEF Finish, Removed

LEMMA OpensOne ==
  ASSUME TypeOK, NEW e \in Exporters, Opens(e)
  PROVE  /\ dialogs' \in Seq(Opened)
         /\ Range(dialogs') = Range(dialogs) \cup {[exporter |-> e, output |-> ctl[e]]}
         /\ ctl' = ctl /\ outputs' = outputs
<1>1. dialogs \in Seq(Opened)
  BY PostedAndOpened
<1>2. [exporter |-> e, output |-> ctl[e]] \in Opened
  BY DEF TypeOK, Opened
<1>. QED  BY <1>1, <1>2, RangeOfAppend DEF Opens

\* A dialog that is opened for the exporter of a signal is of its last request.
LEMMA OpensKeeps ==
  ASSUME IInv, Frame, NEW e \in Exporters, Opens(e)
  PROVE  DialogsOfLast'
<1>1. /\ Range(dialogs') = Range(dialogs) \cup {[exporter |-> e, output |-> ctl[e]]}
      /\ ctl' = ctl /\ asked' = asked
  BY OpensOne DEF IInv, Frame
<1>2. (ctl[e] = 0 \/ ctl[e] = asked[e] \/ Unopened(e)) /\ ended' = ended
  BY DEF IInv, Others, ControlOfLast, Frame
<1>3. \A d \in Range(dialogs) : DialogOfLast(d)'
  BY <1>1, <1>2 DEF IInv, Others, DialogsOfLast, DialogOfLast, Unopened
<1>4. DialogOfLast([exporter |-> e, output |-> ctl[e]])'
  BY <1>1, <1>2 DEF DialogOfLast, Unopened
<1>. QED  BY <1>1, <1>3, <1>4 DEF DialogsOfLast

\* The same for dialogs that are left when one is closed or none is opened.
LEMMA FinishKeeps ==
  ASSUME IInv, Frame, NEW e \in Exporters, NEW t, Finish(e, t),
         Range(dialogs') \subseteq Range(dialogs)
  PROVE  DialogsOfLast'
<1>1. \A d \in Range(dialogs) : d.exporter \in Exporters
  BY PostedAndOpened DEF IInv, Opened
<1>2. \A f \in Exporters : ctl[f] = 0 => ctl'[f] = 0
  BY FinishRemoves DEF IInv
<1>. QED  BY <1>1, <1>2 DEF IInv, Others, DialogsOfLast, DialogOfLast, Unopened, Frame

\* What is still to be removed for the exporters no signal is delivered to.
LEMMA OthersWait ==
  ASSUME IInv, Frame, NEW e \in Exporters, OwnFile,
         NEW f \in Exporters \ {e}, asked'[f] \in outputs' \ silent',
         outputs' \subseteq outputs,
         \A m \in Range(queue) : m.exporter # e => m \in Range(queue'),
         \A d \in Range(dialogs) : d.exporter # e => d \in Range(dialogs'),
         present' \subseteq present \cup {File[e]}, ctl'[f] = ctl[f]
  PROVE  WillBeRemoved(f)'
<1>1. asked' = asked /\ asked[f] \in outputs \ silent
  BY DEF Frame
<1>2. WillBeRemoved(f)
  BY <1>1 DEF IInv, Others, OutputsWait
<1>3. File[f] # File[e]
  BY DEF OwnFile
<1>. QED  BY <1>1, <1>2, <1>3 DEF WillBeRemoved

-----------------------------------------------------------------------------
\* A signal for e is handled: the others wait as before, and so does e, if what
\* it opens or removes is the output of its last request.
LEMMA HandledInvariant ==
  ASSUME IInv, Frame, NEW e \in Exporters, NEW m \in Posted, m.exporter = e,
         TypeOK', Range(queue) = Range(queue') \cup {m},
         present' \subseteq present \cup {File[e]},
         \/ Opens(e)
         \/ Finish(e, ctl[e]) /\ UNCHANGED dialogs
         \/ /\ UNCHANGED <<ctl, outputs, dialogs>>
            /\ ctl[e] \notin outputs \/ File[e] \in present \/ ctl[e] \in silent',
         AnswersAsked' /\ AnswersAreRight'
  PROVE  IInv'
<1>1. TypeOK /\ asked' = asked /\ ended' = ended /\ silent \subseteq silent'
  BY DEF IInv, Frame
<1>3. 0 \notin outputs
  BY <1>1, TypesetAssumption DEF TypeOK
<1>4. \A n \in Range(queue) : n.exporter # e => n \in Range(queue')
  OBVIOUS
<1>5. CASE Opens(e)
  <2>1. /\ Range(dialogs') = Range(dialogs) \cup {[exporter |-> e, output |-> ctl[e]]}
        /\ ctl' = ctl /\ outputs' = outputs
    BY <1>1, <1>5, OpensOne
  <2>2. WaitsForLast' /\ Unended' /\ OutputsEnded' /\ SignalsRight' /\ ControlOfLast'
    BY <2>1, FrameKeeps
  <2>3. DialogsOfLast'
    BY <1>5, OpensKeeps
  <2>4. OutputsWait'
    <3>. SUFFICES ASSUME OwnFile, NEW f \in Exporters, asked'[f] \in outputs' \ silent'
                  PROVE  WillBeRemoved(f)'
      BY DEF OutputsWait
    <3>1. CASE f # e
      BY <1>4, <2>1, <3>1, OthersWait
    <3>2. CASE f = e
      <4>1. WillBeRemoved(e)
        BY <1>1, <2>1, <3>2 DEF IInv, Others, OutputsWait
      <4>. QED  BY <1>1, <2>1, <3>2, <4>1 DEF WillBeRemoved
    <3>. QED  BY <3>1, <3>2
  <2>. QED  BY <2>2, <2>3, <2>4 DEF IInv, Others
<1>6. CASE Finish(e, ctl[e]) /\ UNCHANGED dialogs
  <2>1. /\ outputs' = outputs \ {ctl[e]}
        /\ ctl'[e] = 0 /\ \A f \in Exporters \ {e} : ctl'[f] = ctl[f]
    BY <1>1, <1>6, FinishRemoves
  <2>2. WaitsForLast' /\ Unended' /\ OutputsEnded' /\ SignalsRight' /\ ControlOfLast'
    BY <2>1, FrameKeeps
  <2>3. DialogsOfLast'
    BY <1>6, FinishKeeps
  <2>4. OutputsWait'
    <3>. SUFFICES ASSUME OwnFile, NEW f \in Exporters, asked'[f] \in outputs' \ silent'
                  PROVE  WillBeRemoved(f)'
      BY DEF OutputsWait
    <3>1. CASE f # e
      BY <1>4, <1>6, <2>1, <3>1, OthersWait
    <3>2. CASE f = e
      \* Its control is gone, so what it waits for can only be a dialog.
      <4>1. WillBeRemoved(e) /\ asked[e] \in outputs /\ asked[e] # ctl[e]
        BY <1>1, <2>1, <3>2 DEF IInv, Others, OutputsWait
      <4>. QED  BY <1>1, <1>6, <3>2, <4>1 DEF WillBeRemoved
    <3>. QED  BY <3>1, <3>2
  <2>. QED  BY <2>2, <2>3, <2>4 DEF IInv, Others
<1>7. CASE /\ UNCHANGED <<ctl, outputs, dialogs>>
           /\ ctl[e] \notin outputs \/ File[e] \in present \/ ctl[e] \in silent'
  <2>1. WaitsForLast' /\ Unended' /\ OutputsEnded' /\ SignalsRight' /\ ControlOfLast'
    BY <1>7, FrameKeeps
  <2>2. DialogsOfLast'
    BY <1>1, <1>7 DEF IInv, Others, DialogsOfLast, DialogOfLast, Unopened
  <2>3. OutputsWait'
    <3>. SUFFICES ASSUME OwnFile, NEW f \in Exporters, asked'[f] \in outputs' \ silent'
                  PROVE  WillBeRemoved(f)'
      BY DEF OutputsWait
    <3>1. CASE f # e
      BY <1>4, <1>7, <3>1, OthersWait
    <3>2. CASE f = e
      \* The signal finds its output if that is there, and no file in its way, or
      \* its copy fails.
      <4>1. WillBeRemoved(e) /\ asked[e] \in outputs /\ asked[e] \notin silent'
        BY <1>1, <1>7, <3>2 DEF IInv, Others, OutputsWait
      <4>2. [exporter |-> e, output |-> asked[e]] \in Range(dialogs)
        BY <1>7, <4>1 DEF WillBeRemoved
      <4>. QED  BY <1>1, <1>7, <3>2, <4>2 DEF WillBeRemoved
    <3>. QED  BY <3>1, <3>2
  <2>. QED  BY <2>1, <2>2, <2>3 DEF IInv, Others
<1>. QED  BY <1>5, <1>6, <1>7

\* The answer that Deliver gives to e is that of its last request.
LEMMA AnswerIsRight ==
  ASSUME IInv, Frame, NEW e \in Exporters, asked[e] > 0,
         NEW a \in {"shown", "failed", "unable"}, NEW s \in [Exporters -> 0 .. requests],
         answer' = [answer EXCEPT ![e] = a], shown' = s,
         \A f \in Exporters \ {e} : s[f] = shown[f],
         a = "shown" => \/ s[e] = asked[e] /\ (hasty[e] \/ ended[asked[e]] = "ok")
                        \/ hasty[e] /\ ended[asked[e]] = "notOpened",
         a = "failed" => hasty[e] \/ ended[asked[e]] # "ok"
  PROVE  AnswersAsked' /\ AnswersAreRight'
<1>1. /\ answer'[e] = a /\ \A f \in Exporters \ {e} : answer'[f] = answer[f]
      /\ asked' = asked /\ hasty' = hasty /\ ended' = ended
  BY DEF IInv, TypeOK, Frame
<1>2. AnswersAsked'
  BY <1>1 DEF IInv, Others, AnswersAsked
<1>3. AnswersAreRight'
  BY <1>1 DEF IInv, Others, AnswersAreRight
<1>. QED  BY <1>2, <1>3

LEMMA DeliverInvariant == ASSUME IInv, Deliver PROVE IInv'
<1>. DEFINE m == Head(queue)
            e == m.exporter
<1>1. /\ TypeOK /\ queue # << >> /\ queue' = Tail(queue)
      /\ m \in Posted /\ queue' \in Seq(Posted) /\ Range(queue) = Range(queue') \cup {m}
      /\ SignalIsRight(m) /\ gui = "idle"
      /\ UNCHANGED <<gui, working, repeats, requests, asked, hasty, ended>>
  BY NextSignal DEF Deliver, IInv
<1>2. /\ e \in Exporters /\ ctl[e] \in 0 .. requests /\ asked[e] \in 0 .. requests
      /\ requests \in Nat /\ shown \in [Exporters -> 0 .. requests]
  BY <1>1, TypesetAssumption, SMTT(30) DEF Posted, TypeOK
<1>3. /\ ctl[e] = 0 \/ ctl[e] = asked[e] \/ Unopened(e)
      /\ asked[e] > 0
      /\ m.code = 0 => hasty[e] \/ ended[asked[e]] \in {"ok", "notStarted"}
      /\ m.code # 0 => hasty[e] \/ ended[asked[e]] # "ok"
  BY <1>1, <1>2 DEF IInv, Others, ControlOfLast, SignalIsRight
<1>4. CASE m.code # 0
  <2>1. Failed(e) /\ Frame
    BY <1>1, <1>4 DEF Deliver, Failed, Frame
  <2>2. dialogs' \in Seq(Opened) /\ ctl' = ctl /\ outputs' = outputs
    BY <1>1, <1>2, <2>1, OpensOne DEF Failed
  <2>3. TypeOK'
    BY <1>1, <1>2, <2>1, <2>2 DEF TypeOK, Failed, Frame, Posted, Opened
  <2>4. AnswersAsked' /\ AnswersAreRight'
    BY <1>1, <1>2, <1>3, <1>4, <2>1, AnswerIsRight DEF Failed
  <2>5. Opens(e) /\ present' = present
    BY <2>1 DEF Failed
  <2>. QED  BY <1>1, <1>2, <2>1, <2>3, <2>4, <2>5, HandledInvariant
<1>5. CASE m.code = 0 /\ Copies(e)
  <2>1. /\ ctl[e] \in outputs /\ ctl[e] \in 1 .. requests /\ File[e] \in Files
        /\ Shows(e) \/ CopyFails(e)
    BY <1>1, <1>2, <1>5 DEF Copies, Files, Deliver, TypeOK
  <2>2. Frame
    BY <1>1, <2>1 DEF Frame, Shows, CopyFails
  <2>3. silent' \subseteq 1 .. requests
    BY <1>1, <2>1 DEF Shows, CopyFails, TypeOK
  <2>4. CASE Shows(e)
    <3>1. \/ ctl[e] = asked[e] /\ (hasty[e] \/ ended[asked[e]] = "ok")
          \/ hasty[e] /\ ended[asked[e]] = "notOpened"
      <4>1. ctl[e] = asked[e] \/ Unopened(e)
        BY <1>3, <2>1
      <4>2. ctl[e] = asked[e] => ended[asked[e]] # "notStarted"
        BY <2>1 DEF IInv, Others, OutputsEnded
      <4>. QED  BY <1>3, <1>5, <4>1, <4>2 DEF Unopened
    <3>2. /\ content' = [content EXCEPT ![File[e]] = ctl[e]] /\ content'[File[e]] = ctl[e]
          /\ content' \in [Files -> 0 .. requests]
          /\ present' = present \cup {File[e]} /\ present' \subseteq Files
      BY <1>1, <1>2, <2>1, <2>4 DEF Shows, TypeOK
    <3>3. \/ Opens(e)
          \/ Finish(e, ctl[e]) /\ UNCHANGED dialogs
      BY <2>4 DEF Shows
    <3>4. /\ ctl' \in [Exporters -> 0 .. requests] /\ outputs' \subseteq outputs
          /\ dialogs' \in Seq(Opened)
      BY <1>1, <1>2, <3>3, OpensOne, FinishRemoves, PostedAndOpened DEF TypeOK
    <3>5. \/ answer' = [answer EXCEPT ![e] = "shown"] /\ shown' = [shown EXCEPT ![e] = ctl[e]]
          \/ answer' = [answer EXCEPT ![e] = "unable"] /\ shown' = shown
          \/ UNCHANGED <<answer, shown>>
      BY <2>4, <3>2 DEF Shows
    <3>6. AnswersAsked' /\ AnswersAreRight'
      <4>1. CASE /\ answer' = [answer EXCEPT ![e] = "shown"]
                 /\ shown' = [shown EXCEPT ![e] = ctl[e]]
        <5>. DEFINE s == [shown EXCEPT ![e] = ctl[e]]
        <5>1. /\ s \in [Exporters -> 0 .. requests] /\ s[e] = ctl[e]
              /\ \A f \in Exporters \ {e} : s[f] = shown[f]
          BY <1>2
        <5>. HIDE DEF s
        <5>. QED  BY <1>2, <1>3, <2>2, <3>1, <4>1, <5>1, AnswerIsRight DEF s
      <4>2. CASE answer' = [answer EXCEPT ![e] = "unable"] /\ shown' = shown
        BY <1>2, <1>3, <2>2, <4>2, AnswerIsRight
      <4>3. CASE UNCHANGED <<answer, shown>>
        BY <2>2, <4>3 DEF IInv, Others, AnswersAsked, AnswersAreRight, Frame
      <4>. QED  BY <3>5, <4>1, <4>2, <4>3
    <3>7. TypeOK'
      BY <1>1, <1>2, <2>3, <3>2, <3>4, <3>5 DEF TypeOK, Posted, Opened
    <3>. QED  BY <1>1, <1>2, <2>2, <3>2, <3>3, <3>6, <3>7, HandledInvariant
  <2>5. CASE CopyFails(e)
    <3>1. /\ UNCHANGED <<ctl, dialogs, present, content, outputs, answer, shown>>
          /\ ctl[e] \in silent'
      BY <2>5 DEF CopyFails
    <3>2. TypeOK'
      BY <1>1, <2>3, <3>1 DEF TypeOK, Posted
    <3>3. AnswersAsked' /\ AnswersAreRight'
      BY <2>2, <3>1 DEF IInv, Others, AnswersAsked, AnswersAreRight, Frame
    <3>. QED  BY <1>1, <1>2, <2>2, <3>1, <3>2, <3>3, HandledInvariant
  <2>. QED  BY <2>1, <2>4, <2>5
<1>6. CASE m.code = 0 /\ ~Copies(e)
  <2>1. UNCHANGED <<ctl, dialogs, present, content, outputs, answer, shown, silent>>
    BY <1>6 DEF Deliver
  <2>2. Frame /\ TypeOK'
    BY <1>1, <2>1 DEF TypeOK, Frame, Posted
  <2>3. AnswersAsked' /\ AnswersAreRight'
    BY <2>1, <2>2 DEF IInv, Others, AnswersAsked, AnswersAreRight, Frame
  <2>. QED  BY <1>1, <1>2, <1>6, <2>1, <2>2, <2>3, HandledInvariant DEF Copies
<1>. QED  BY <1>4, <1>5, <1>6

LEMMA CloseDialogInvariant == ASSUME IInv, CloseDialog PROVE IInv'
<1>. DEFINE d == Last(dialogs)
            e == d.exporter
<1>1. /\ TypeOK /\ Frame /\ dialogs # << >> /\ Finish(e, d.output)
      /\ UNCHANGED <<queue, present, content, answer, shown, silent>>
  BY DEF CloseDialog, Frame, IInv
<1>2. /\ d \in Opened /\ dialogs' \in Seq(Opened)
      /\ Range(dialogs) = Range(dialogs') \cup {d}
  BY <1>1, PostedAndOpened, RangeOfLast DEF CloseDialog
<1>3. e \in Exporters /\ DialogOfLast(d)
  BY <1>2 DEF Opened, IInv, Others, DialogsOfLast
<1>4. /\ outputs' = outputs \ {d.output} /\ ctl' \in [Exporters -> 0 .. requests]
      /\ ctl'[e] = 0 /\ \A f \in Exporters \ {e} : ctl'[f] = ctl[f]
  BY <1>1, <1>3, FinishRemoves
<1>5. TypeOK'
  BY <1>1, <1>2, <1>4 DEF TypeOK, Frame, Opened
<1>6. WaitsForLast' /\ Unended' /\ OutputsEnded' /\ SignalsRight' /\ ControlOfLast'
  BY <1>1, <1>4, FrameKeeps
<1>7. DialogsOfLast'
  BY <1>1, <1>2, <1>3, FinishKeeps
<1>8. OutputsWait'
  <2>. SUFFICES ASSUME OwnFile, NEW f \in Exporters, asked'[f] \in outputs' \ silent'
                PROVE  WillBeRemoved(f)'
    BY DEF OutputsWait
  <2>1. CASE f # e
    BY <1>1, <1>2, <1>3, <1>4, <2>1, OthersWait
  <2>2. CASE f = e
    \* The output is still there, so the dialog was opened without one.
    <3>1. /\ asked' = asked /\ asked[e] \in outputs \ silent /\ ~Unopened(e)
      BY <1>1, <1>4, <2>2 DEF Frame, Unopened, IInv, Others, OutputsEnded
    <3>2. asked[e] # 0 /\ d.output = 0 /\ ctl[e] = 0
      BY <1>1, <1>3, <1>4, <2>2, <3>1, TypesetAssumption DEF DialogOfLast, TypeOK
    <3>3. [exporter |-> e, output |-> asked[e]] \in Range(dialogs)
      BY <1>3, <3>1, <3>2 DEF IInv, Others, OutputsWait, WillBeRemoved
    <3>. QED  BY <1>2, <2>2, <3>1, <3>2, <3>3 DEF WillBeRemoved
  <2>. QED  BY <2>1, <2>2
<1>9. AnswersAsked' /\ AnswersAreRight'
  BY <1>1 DEF IInv, Others, AnswersAsked, AnswersAreRight, Frame
<1>. QED  BY <1>5, <1>6, <1>7, <1>8, <1>9 DEF IInv, Others

LEMMA NextInvariant == ASSUME IInv, [Next]_vars PROVE IInv'
<1>1. CASE Next
  BY <1>1, ClickInvariant, NotOpenedInvariant, TypesetterInvariant, DeliverInvariant,
     CloseDialogInvariant
     DEF Next, Clicks, Typesetters
<1>2. CASE UNCHANGED vars
  <2>1. TypeOK'
    BY <1>2 DEF vars, IInv, TypeOK
  <2>2. WaitsForLast' /\ Unended' /\ OutputsEnded' /\ ControlOfLast'
    BY <1>2 DEF vars, IInv, Others, WaitsForLast, Unended, OutputsEnded, ControlOfLast,
                Unopened
  <2>3. SignalsRight' /\ DialogsOfLast'
    BY <1>2 DEF vars, IInv, Others, SignalsRight, SignalIsRight, DialogsOfLast,
                DialogOfLast, Unopened
  <2>4. OutputsWait' /\ AnswersAsked' /\ AnswersAreRight'
    BY <1>2 DEF vars, IInv, Others, OutputsWait, WillBeRemoved, AnswersAsked,
                AnswersAreRight
  <2>. QED  BY <2>1, <2>2, <2>3, <2>4 DEF IInv, Others
<1>. QED  BY <1>1, <1>2

\* However often the user clicks on preview and print: the control, the signals
\* and the dialogs of an exporter belong to its last request (pdfFinished and
\* svgFinished, src/src/export/pdfexport.cpp and svgexport.cpp).
THEOREM TypesetInvariant == Spec => []IInv
<1>1. Init => IInv
  BY InitInvariant
<1>2. IInv /\ [Next]_vars => IInv'
  BY NextInvariant
<1>. QED  BY <1>1, <1>2, PTL DEF Spec

\* The sheet that is shown or printed is that of the last request, and what the
\* user is told is how its typesetter ended, unless that request was hasty
\* (showPDF, src/src/control/previewctl.cpp; printSVG, printctl.cpp).
THEOREM LastIsAnswered == Spec => []AnswersAreRight
<1>1. IInv => AnswersAreRight
  BY DEF IInv, Others
<1>. QED  BY <1>1, TypesetInvariant, PTL

\* When all is handled, the output of no last request is left ("Remove temporary
\* files", pdfexport.cpp:156), unless it could not be copied, if no two exporters
\* make the same file.
THEOREM OutputsAreRemoved ==
  ASSUME OwnFile
  PROVE  Spec => []OutputsRemoved
<1>1. IInv => OutputsRemoved
  <2>. SUFFICES ASSUME IInv, queue = << >>, dialogs = << >>, NEW e \in Exporters,
                       asked[e] \in outputs \ silent
                PROVE  FALSE
    BY DEF OutputsRemoved
  <2>1. WillBeRemoved(e)
    BY OwnFile DEF IInv, Others, OutputsWait
  <2>. QED  BY <2>1, RangeOfEmpty DEF WillBeRemoved
<1>. QED  BY <1>1, TypesetInvariant, PTL

=============================================================================
