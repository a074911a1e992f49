--------------------------- MODULE ImportProofs ---------------------------
(***************************************************************************)
(* Proofs about Import, for any bound on the imports.  The invariants that *)
(* TLC checks are not inductive: they say nothing of the import that is    *)
(* under way, nor of the question that is open.                            *)
(***************************************************************************)
EXTENDS Import, TLAPS

\* A question that is open while a thread runs was put by something risky: no
\* thread is started while a dialog is open.  A new document is harmless.
AskedIsRisky ==
  gui \in {"asking", "choosing"} /\ UnderWay /\ then # "new" => "risky" \in did

\* The progress control has lost its file only to an unknown name.
DeletedIsRisky == ctlFile = "deleted" => "risky" \in did

\* A sheet that is read has a document to go to.
SheetHasTarget ==
  UnderWay /\ job.part = "sheet" => document.shown \/ "risky" \in did

\* The document that one being read, or about to be chosen, will replace: the
\* user has agreed to drop it, or has edited it since.
AgreedOrEdited ==
  (UnderWay /\ job.part = "document") \/ gui = "choosing" =>
    (document.unsaved => document.agreed \/ "edit" \in did \/ "sheet" \in did)

\* What no file holds is marked as modified, unless it is an imported sheet.
UnsavedIsMarked == document.unsaved => document.modified \/ "sheet" \in did

\* What the properties and the program's own decisions rest on, ...
Others ==
  /\ NothingLost /\ UnsavedIsMarked /\ NoCrash
  /\ AskedIsRisky /\ DeletedIsRisky /\ SheetHasTarget /\ AgreedOrEdited

\* ... which is inductive.
IInv == TypeOK /\ Others

\* A document the user has been asked about, if that was to be asked.
Droppable(d) ==
  /\ d \in Documents
  /\ d.shown = document.shown
  /\ ~d.shown => d = NoDocument
  /\ d.unsaved => d.modified \/ "sheet" \in did
  /\ d.unsaved => d.agreed \/ "edit" \in did \/ "sheet" \in did

-----------------------------------------------------------------------------
LEMMA DocumentValues ==
  /\ NoDocument \in Documents /\ CleanDocument \in Documents
  /\ ~NoDocument.shown /\ ~NoDocument.unsaved
  /\ CleanDocument.shown /\ ~CleanDocument.unsaved
BY DEF NoDocument, CleanDocument, Documents

LEMMA JobValues ==
  /\ NoJob \in Jobs /\ NoJob.thread = "none" /\ NoJob.part = "none"
  /\ \A part \in {"document", "sheet"}, op \in Operations :
       LET j == [NoJob EXCEPT !.part = part, !.op = op, !.thread = "reading"]
       IN  j \in Jobs /\ j.thread = "reading" /\ j.part = part
BY DEF NoJob, Jobs, Operations

LEMMA InitInvariant == Init => IInv
<1>. SUFFICES ASSUME Init PROVE IInv
  OBVIOUS
<1>1. document \in Documents /\ document.shown /\ ~document.unsaved
  BY DocumentValues DEF Init
<1>2. started \in 0 .. MaxImports
  BY ImportAssumption DEF Init
<1>3. job \in Jobs /\ job.thread = "none" /\ job.part = "none"
  BY JobValues DEF Init
<1>4. TypeOK
  BY <1>1, <1>2, <1>3 DEF Init, TypeOK, Documents, Jobs
<1>5. Others
  BY <1>1, <1>3 DEF Init, Others, NothingLost, UnsavedIsMarked, NoCrash, AskedIsRisky,
         DeletedIsRisky, SheetHasTarget, AgreedOrEdited, UnderWay, ThreadRuns
<1>. QED  BY <1>4, <1>5 DEF IInv

\* An import that could be started: no dialog is open, and nothing is known
\* yet of what it reads.
Started(part) ==
  /\ gui' = "idle" /\ then' = "none"
  /\ started < MaxImports /\ started' = started + 1
  /\ job' \in Jobs /\ job'.thread = "reading" /\ job'.part = part
  /\ queued' = FALSE /\ bar' = TRUE /\ timer' = TRUE /\ ctlFile' = "job"

LEMMA StartStarts ==
  ASSUME NEW part \in {"document", "sheet"}, NEW op \in Operations,
         Start(part, op), GoesOn(op), ~ThreadRuns
  PROVE  Started(part)
<1>. DEFINE j == [NoJob EXCEPT !.part = part, !.op = op, !.thread = "reading"]
<1>1. j \in Jobs /\ j.thread = "reading" /\ j.part = part
  BY JobValues
<1>2. job' = j
  BY DEF Start
<1>. HIDE DEF j
<1>. QED  BY <1>1, <1>2 DEF Start, Started, GoesOn

LEMMA OneMore ==
  ASSUME TypeOK, started < MaxImports
  PROVE  started + 1 \in 0 .. MaxImports
BY ImportAssumption DEF TypeOK

\* What op does with a document that may be dropped.  A thread that runs makes
\* it risky, which the caller has noted.
LEMMA PerformInvariant ==
  ASSUME IInv, NEW op \in Operations, NEW d, Droppable(d),
         Perform(op, d), GoesOn(op),
         did \subseteq did', did' \subseteq {"edit", "sheet", "risky"},
         UnderWay /\ op # "new" => "risky" \in did'
  PROVE  IInv'
<1>. USE DEF IInv
<1>1. CASE op \in {"close", "new"}
  <2>1. /\ gui' = "idle" /\ then' = "none"
        /\ document' \in {NoDocument, CleanDocument}
        /\ op = "new" => document' = CleanDocument
        /\ lost' = (lost \/ (d.unsaved /\ ~d.agreed))
        /\ UNCHANGED <<job, queued, bar, timer, ctlFile, recent, started>>
    BY <1>1 DEF Perform, Replaces, GoesOn, progress
  <2>2. /\ document' \in Documents /\ ~document'.unsaved
        /\ ~document'.shown => document' = NoDocument
        /\ op = "new" => document'.shown
    BY <2>1, DocumentValues
  <2>3. TypeOK'
    BY <2>1, <2>2 DEF TypeOK
  <2>4. NothingLost'
    BY <2>1 DEF NothingLost, Droppable, Others
  <2>5. UnsavedIsMarked' /\ NoCrash' /\ AskedIsRisky' /\ AgreedOrEdited'
    BY <2>1, <2>2 DEF UnsavedIsMarked, NoCrash, AskedIsRisky, AgreedOrEdited
  <2>6. DeletedIsRisky'
    BY <2>1 DEF DeletedIsRisky, Others
  <2>7. SheetHasTarget'
    BY <1>1, <2>1, <2>2 DEF SheetHasTarget, UnderWay, ThreadRuns
  <2>. QED  BY <2>3, <2>4, <2>5, <2>6, <2>7 DEF Others
<1>2. CASE op \in {"open", "import"}
  <2>1. /\ gui' = "choosing" /\ then' = op /\ document' = d
        /\ UNCHANGED <<job, queued, bar, timer, ctlFile, recent, started, lost>>
    BY <1>2 DEF Perform, Stays, GoesOn, progress
  <2>2. TypeOK'
    BY <2>1 DEF TypeOK, Droppable
  <2>3. NothingLost' /\ NoCrash' /\ DeletedIsRisky'
    BY <2>1 DEF NothingLost, NoCrash, DeletedIsRisky, Others
  <2>4. UnsavedIsMarked' /\ AgreedOrEdited'
    BY <2>1 DEF UnsavedIsMarked, AgreedOrEdited, Droppable
  <2>5. AskedIsRisky' /\ SheetHasTarget'
    BY <1>2, <2>1 DEF AskedIsRisky, SheetHasTarget, UnderWay, ThreadRuns
  <2>. QED  BY <2>2, <2>3, <2>4, <2>5 DEF Others
<1>3. CASE op = "recent"
  <2>1. /\ document' = d /\ lost' = lost
        /\ Start("document", "recent") /\ recent' \in {recent, FALSE}
    BY <1>3 DEF Perform, Stays
  <2>2. NothingLost' /\ UnsavedIsMarked'
    BY <2>1 DEF NothingLost, UnsavedIsMarked, Droppable, Others
  <2>3. AgreedOrEdited'
    BY <2>1 DEF AgreedOrEdited, Droppable
  <2>4. CASE ThreadRuns
    <3>1. /\ gui' = "crashed" /\ then' = "none"
          /\ UNCHANGED <<job, queued, bar, timer, ctlFile, started>>
          /\ "risky" \in did'
      BY <1>3, <2>1, <2>4 DEF Start, GoesOn, UnderWay, progress
    <3>2. TypeOK'
      BY <2>1, <3>1 DEF TypeOK, Droppable
    <3>3. NoCrash' /\ AskedIsRisky' /\ DeletedIsRisky' /\ SheetHasTarget'
      BY <3>1 DEF NoCrash, AskedIsRisky, DeletedIsRisky, SheetHasTarget
    <3>. QED  BY <2>2, <2>3, <3>2, <3>3 DEF Others
  <2>5. CASE ~ThreadRuns
    <3>1. Started("document")
      BY <1>3, <2>1, <2>5, StartStarts DEF Operations
    <3>2. /\ document' \in Documents
          /\ ~document'.shown => document' = NoDocument
          /\ recent' \in BOOLEAN /\ lost' \in BOOLEAN
      BY <2>1 DEF Droppable, TypeOK
    <3>3. TypeOK'
      BY <3>1, <3>2, OneMore DEF Started, TypeOK
    <3>4. NoCrash' /\ AskedIsRisky' /\ DeletedIsRisky' /\ SheetHasTarget'
      BY <3>1 DEF Started, NoCrash, AskedIsRisky, DeletedIsRisky, SheetHasTarget
    <3>. QED  BY <2>2, <2>3, <3>3, <3>4 DEF Others
  <2>. QED  BY <2>4, <2>5
<1>4. CASE op = "quit"
  <2>1. /\ document' = NoDocument /\ then' = "none"
        /\ lost' = (lost \/ (d.unsaved /\ ~d.agreed))
        /\ gui' = IF ThreadRuns THEN "crashed" ELSE "off"
        /\ job' = NoJob /\ queued' = FALSE
        /\ bar' = FALSE /\ timer' = FALSE /\ ctlFile' = "null"
        /\ UNCHANGED <<recent, started>>
    BY <1>4 DEF Perform, Replaces, Destroy, GoesOn
  <2>2. TypeOK'
    BY <2>1, DocumentValues, JobValues DEF TypeOK, Droppable
  <2>3. NothingLost'
    BY <2>1 DEF NothingLost, Droppable, Others
  <2>4. UnsavedIsMarked' /\ AgreedOrEdited'
    BY <2>1, DocumentValues DEF UnsavedIsMarked, AgreedOrEdited
  <2>5. NoCrash'
    BY <1>4, <2>1 DEF NoCrash, UnderWay
  <2>6. AskedIsRisky' /\ DeletedIsRisky' /\ SheetHasTarget'
    BY <2>1, JobValues DEF AskedIsRisky, DeletedIsRisky, SheetHasTarget
  <2>. QED  BY <2>2, <2>3, <2>4, <2>5, <2>6 DEF Others
<1>. QED  BY <1>1, <1>2, <1>3, <1>4 DEF Operations

-----------------------------------------------------------------------------
\* What the event loop and the user do besides: whatever leaves the document,
\* and at most ends the import that is under way.
LEMMA HarmlessInvariant ==
  ASSUME IInv, TypeOK',
         UNCHANGED <<document, ctlFile, lost>>,
         UnderWay' => UnderWay, job'.part = job.part, did \subseteq did',
         gui' = "choosing" => gui = "choosing",
         gui' \in {"asking", "choosing"} => gui' = gui /\ then' = then,
         gui' = "crashed" => "risky" \in did'
  PROVE  IInv'
<1>1. NothingLost' /\ UnsavedIsMarked' /\ NoCrash'
  BY DEF IInv, Others, NothingLost, UnsavedIsMarked, NoCrash
<1>2. AskedIsRisky' /\ DeletedIsRisky'
  BY DEF IInv, Others, AskedIsRisky, DeletedIsRisky
<1>3. SheetHasTarget' /\ AgreedOrEdited'
  BY DEF IInv, Others, SheetHasTarget, AgreedOrEdited
<1>. QED  BY <1>1, <1>2, <1>3 DEF IInv, Others

LEMMA ReadInvariant == ASSUME IInv, Read PROVE IInv'
<1>1. /\ job' \in Jobs /\ job'.thread = "emitted" /\ job'.part = job.part
      /\ queued' = TRUE /\ job.thread = "reading"
      /\ UNCHANGED <<gui, then, document, bar, timer, ctlFile, recent, lost, started, did>>
  BY DEF Read, IInv, TypeOK, Jobs, progress
<1>2. TypeOK'
  BY <1>1 DEF IInv, TypeOK
<1>3. UnderWay
  BY <1>1 DEF UnderWay, ThreadRuns
<1>4. gui' = "crashed" => "risky" \in did'
  BY <1>1 DEF IInv, Others, NoCrash
<1>. QED  BY <1>1, <1>2, <1>3, <1>4, HarmlessInvariant

LEMMA FinishInvariant == ASSUME IInv, Finish PROVE IInv'
<1>1. /\ job' \in Jobs /\ job'.thread = "finished" /\ job'.part = job.part
      /\ job.thread = "emitted"
      /\ UNCHANGED <<gui, then, document, queued, bar, timer, ctlFile, recent, lost,
                     started, did>>
  BY DEF Finish, IInv, TypeOK, Jobs, progress
<1>2. TypeOK'
  BY <1>1 DEF IInv, TypeOK
<1>3. UnderWay
  BY <1>1 DEF UnderWay, ThreadRuns
<1>4. gui' = "crashed" => "risky" \in did'
  BY <1>1 DEF IInv, Others, NoCrash
<1>. QED  BY <1>1, <1>2, <1>3, <1>4, HarmlessInvariant

LEMMA TickInvariant == ASSUME IInv, Tick PROVE IInv'
<1>1. /\ UNCHANGED <<then, document, job, queued, ctlFile, recent, lost, started, did>>
      /\ \/ gui' = "crashed" /\ ctlFile = "deleted" /\ bar' = bar /\ timer' = timer
         \/ gui' = gui /\ bar' = FALSE /\ timer' = FALSE
      /\ gui \in {"idle", "asking", "choosing"}
  BY DEF Tick, Listening
<1>2. TypeOK'
  <2>1. CASE gui' = "crashed" /\ bar' = bar /\ timer' = timer
    BY <1>1, <2>1 DEF IInv, TypeOK
  <2>2. CASE gui' = gui /\ bar' = FALSE /\ timer' = FALSE
    BY <1>1, <2>2 DEF IInv, TypeOK
  <2>. QED  BY <1>1, <2>1, <2>2
<1>3. UnderWay' => UnderWay
  BY <1>1 DEF UnderWay, ThreadRuns
<1>4. gui' = "crashed" => "risky" \in did'
  BY <1>1 DEF IInv, Others, DeletedIsRisky
<1>. QED  BY <1>1, <1>2, <1>3, <1>4, HarmlessInvariant

LEMMA WaitedInvariant == ASSUME IInv, Waited PROVE IInv'
<1>1. /\ UNCHANGED <<then, document, job, queued, bar, timer, ctlFile, recent, lost,
                     started, did>>
      /\ gui' = "idle"
  BY DEF Waited, progress
<1>2. TypeOK'
  BY <1>1 DEF IInv, TypeOK
<1>3. UnderWay' => UnderWay
  BY <1>1 DEF UnderWay, ThreadRuns
<1>. QED  BY <1>1, <1>2, <1>3, HarmlessInvariant

LEMMA CancelInvariant == ASSUME IInv, Cancel PROVE IInv'
<1>1. /\ UNCHANGED <<then, document, queued, ctlFile, recent, lost, started, did>>
      /\ bar' = FALSE /\ timer' = FALSE
      /\ gui' \in {"crashed", "waiting", "idle"}
      /\ gui' = "crashed" => ctlFile = "deleted"
  BY DEF Cancel
<1>2. job' \in Jobs /\ job'.thread = job.thread /\ job'.part = job.part
  BY DEF Cancel, IInv, TypeOK, Jobs
<1>3. TypeOK'
  BY <1>1, <1>2 DEF IInv, TypeOK
<1>4. UnderWay' => UnderWay
  BY <1>1, <1>2 DEF UnderWay, ThreadRuns
<1>5. gui' = "crashed" => "risky" \in did'
  BY <1>1 DEF IInv, Others, DeletedIsRisky
<1>. QED  BY <1>1, <1>2, <1>3, <1>4, <1>5, HarmlessInvariant

LEMMA DialogClosedInvariant ==
  ASSUME IInv, AnswerCancel \/ ChooseNone PROVE IInv'
<1>1. /\ UNCHANGED <<document, job, queued, bar, timer, ctlFile, recent, lost, started, did>>
      /\ gui' = "idle" /\ then' = "none"
  BY DEF AnswerCancel, ChooseNone, GoesOn, progress
<1>2. TypeOK'
  BY <1>1 DEF IInv, TypeOK
<1>3. UnderWay' => UnderWay
  BY <1>1 DEF UnderWay, ThreadRuns
<1>. QED  BY <1>1, <1>2, <1>3, HarmlessInvariant

LEMMA OpenArgumentInvariant == ASSUME IInv, OpenArgument PROVE IInv'
<1>1. /\ UNCHANGED <<then, document, job, queued, bar, timer, ctlFile, recent, lost, started>>
      /\ gui' \in {"crashed", "off"} /\ did' = did \cup {"risky"}
  BY DEF OpenArgument, progress
<1>2. TypeOK'
  BY <1>1 DEF IInv, TypeOK
<1>3. UnderWay' => UnderWay
  BY <1>1 DEF UnderWay, ThreadRuns
<1>. QED  BY <1>1, <1>2, <1>3, HarmlessInvariant

-----------------------------------------------------------------------------
LEMMA EditInvariant == ASSUME IInv, Edit PROVE IInv'
<1>1. /\ UNCHANGED <<gui, then, job, queued, bar, timer, ctlFile, recent, lost, started>>
      /\ gui = "idle" /\ did \subseteq did' /\ did' \subseteq did \cup {"edit"}
      /\ UnderWay => "edit" \in did'
  BY DEF Edit, UserDoes, progress
<1>2. document' \in Documents /\ document'.shown /\ document'.modified
  BY DEF Edit, Edited, CleanDocument, NoDocument, Documents
<1>3. TypeOK'
  BY <1>1, <1>2 DEF IInv, TypeOK
<1>4. UnderWay' => UnderWay
  BY <1>1 DEF UnderWay, ThreadRuns
<1>5. NothingLost' /\ UnsavedIsMarked' /\ NoCrash'
  BY <1>1, <1>2 DEF IInv, Others, NothingLost, UnsavedIsMarked, NoCrash
<1>6. AskedIsRisky' /\ DeletedIsRisky' /\ SheetHasTarget'
  BY <1>1, <1>2 DEF IInv, Others, AskedIsRisky, DeletedIsRisky, SheetHasTarget
<1>7. AgreedOrEdited'
  BY <1>1, <1>4 DEF AgreedOrEdited
<1>. QED  BY <1>3, <1>5, <1>6, <1>7 DEF IInv, Others

LEMMA SaveInvariant == ASSUME IInv, Save PROVE IInv'
<1>1. /\ UNCHANGED <<gui, then, job, queued, bar, timer, ctlFile, recent, lost, started, did>>
      /\ gui = "idle" /\ document' \in Documents
      /\ document'.shown /\ ~document'.unsaved
  BY DocumentValues DEF Save, progress
<1>2. TypeOK'
  BY <1>1 DEF IInv, TypeOK
<1>3. NothingLost' /\ UnsavedIsMarked' /\ NoCrash'
  BY <1>1 DEF IInv, Others, NothingLost, UnsavedIsMarked, NoCrash
<1>4. AskedIsRisky' /\ DeletedIsRisky' /\ SheetHasTarget' /\ AgreedOrEdited'
  BY <1>1 DEF IInv, Others, AskedIsRisky, DeletedIsRisky, SheetHasTarget, AgreedOrEdited
<1>. QED  BY <1>2, <1>3, <1>4 DEF IInv, Others

LEMMA ChooseInvariant ==
  ASSUME IInv, NEW op \in Operations, Choose(op) PROVE IInv'
<1>1. /\ gui = "idle" /\ did \subseteq did' /\ did' \subseteq {"edit", "sheet", "risky"}
      /\ UnderWay /\ op # "new" => "risky" \in did'
  BY DEF Choose, UserDoes, IInv, TypeOK
<1>2. CASE Asks(op)
  <2>1. /\ UNCHANGED <<document, job, queued, bar, timer, ctlFile, recent, lost, started>>
        /\ gui' = "asking" /\ then' = op
    BY <1>2 DEF Choose, GoesOn, progress
  <2>2. TypeOK'
    BY <1>1, <2>1 DEF IInv, TypeOK
  <2>3. UnderWay' => UnderWay
    BY <2>1 DEF UnderWay, ThreadRuns
  <2>4. NothingLost' /\ UnsavedIsMarked' /\ NoCrash'
    BY <1>1, <2>1 DEF IInv, Others, NothingLost, UnsavedIsMarked, NoCrash
  <2>5. AskedIsRisky' /\ DeletedIsRisky'
    BY <1>1, <2>1, <2>3 DEF IInv, Others, AskedIsRisky, DeletedIsRisky
  <2>6. SheetHasTarget' /\ AgreedOrEdited'
    BY <1>1, <2>1, <2>3 DEF IInv, Others, SheetHasTarget, AgreedOrEdited
  <2>. QED  BY <2>2, <2>4, <2>5, <2>6 DEF IInv, Others
<1>3. CASE ~Asks(op)
  <2>1. Perform(op, document) /\ GoesOn(op)
    BY <1>3 DEF Choose
  <2>2. Droppable(document)
    BY <1>3, DocumentValues DEF Asks, Droppable, IInv, Others, TypeOK, UnsavedIsMarked, Documents
  <2>. QED  BY <1>1, <2>1, <2>2, PerformInvariant
<1>. QED  BY <1>2, <1>3

LEMMA AnswerYesInvariant == ASSUME IInv, AnswerYes PROVE IInv'
<1>1. /\ gui = "asking" /\ did' = did /\ document.shown
      /\ Perform(then, CleanDocument) /\ GoesOn(then)
  BY DEF AnswerYes
<1>2. then \in Operations
  BY <1>1 DEF Perform, Operations
<1>3. Droppable(CleanDocument)
  BY <1>1, DocumentValues DEF Droppable
<1>4. /\ did' \subseteq {"edit", "sheet", "risky"}
      /\ UnderWay /\ then # "new" => "risky" \in did'
  BY <1>1 DEF IInv, TypeOK, Others, AskedIsRisky
<1>. QED  BY <1>1, <1>2, <1>3, <1>4, PerformInvariant

LEMMA AnswerNoInvariant == ASSUME IInv, AnswerNo PROVE IInv'
<1>. DEFINE d == [document EXCEPT !.agreed = document.shown]
<1>1. /\ gui = "asking" /\ did' = did
      /\ Perform(then, d) /\ GoesOn(then)
  BY DEF AnswerNo
<1>2. then \in Operations
  BY <1>1 DEF Perform, Operations
<1>3. Droppable(d)
  <2>1. document \in Documents /\ (~document.shown => document = NoDocument)
    BY DEF IInv, TypeOK
  <2>2. /\ d \in Documents /\ d.shown = document.shown
        /\ d.modified = document.modified /\ d.unsaved = document.unsaved
        /\ d.agreed = document.shown
    BY <2>1 DEF Documents
  <2>3. ~d.shown => d = NoDocument
    <3>1. d = [shown |-> document.shown, modified |-> document.modified,
               unsaved |-> document.unsaved, agreed |-> document.shown]
      BY <2>1 DEF Documents
    <3>2. ASSUME ~d.shown PROVE d = NoDocument
      <4>1. /\ document.shown = FALSE /\ document.modified = FALSE
            /\ document.unsaved = FALSE
        BY <2>1, <2>2, <3>2 DEF NoDocument
      <4>. QED  BY <3>1, <4>1 DEF NoDocument
    <3>. QED  BY <3>2
  <2>4. d.unsaved => d.modified \/ "sheet" \in did
    BY <2>2 DEF IInv, Others, UnsavedIsMarked
  <2>5. d.unsaved => d.agreed
    BY <2>1, <2>2, DocumentValues
  <2>. HIDE DEF d
  <2>. QED  BY <2>2, <2>3, <2>4, <2>5 DEF Droppable
<1>4. /\ did' \subseteq {"edit", "sheet", "risky"}
      /\ UnderWay /\ then # "new" => "risky" \in did'
  BY <1>1 DEF IInv, TypeOK, Others, AskedIsRisky
<1>. HIDE DEF d
<1>. QED  BY <1>1, <1>2, <1>3, <1>4, PerformInvariant

LEMMA ChooseFileInvariant == ASSUME IInv, ChooseFile PROVE IInv'
<1>1. gui = "choosing" /\ GoesOn(then) /\ recent' = recent /\ then # "new"
  BY DEF ChooseFile
<1>2. UnderWay => "risky" \in did
  BY <1>1 DEF IInv, Others, AskedIsRisky
<1>3. document.unsaved => document.agreed \/ "edit" \in did \/ "sheet" \in did
  BY <1>1 DEF IInv, Others, AgreedOrEdited
<1>4. ASSUME NEW part \in {"document", "sheet"}, then \in Operations,
             Start(part, then), did' = did, lost' = lost,
             document' = IF part = "sheet" THEN SheetTarget ELSE document
      PROVE  IInv'
  <2>1. /\ document' \in {document, CleanDocument}
        /\ part = "sheet" => document'.shown
    BY <1>4, DocumentValues DEF SheetTarget
  <2>2. /\ document' \in Documents
        /\ ~document'.shown => document' = NoDocument
        /\ document'.unsaved => document' = document
    BY <2>1, DocumentValues DEF IInv, TypeOK
  <2>3. NothingLost' /\ UnsavedIsMarked' /\ AgreedOrEdited'
    BY <1>3, <1>4, <2>2
       DEF IInv, Others, NothingLost, UnsavedIsMarked, AgreedOrEdited
  <2>4. CASE ThreadRuns
    <3>1. /\ gui' = "crashed" /\ then' = "none" /\ "risky" \in did'
          /\ UNCHANGED <<job, queued, bar, timer, ctlFile, started>>
      BY <1>1, <1>2, <1>4, <2>4 DEF Start, GoesOn, UnderWay, progress
    <3>2. TypeOK'
      BY <1>1, <1>4, <2>2, <3>1 DEF IInv, TypeOK
    <3>3. NoCrash' /\ AskedIsRisky' /\ DeletedIsRisky' /\ SheetHasTarget'
      BY <3>1 DEF NoCrash, AskedIsRisky, DeletedIsRisky, SheetHasTarget
    <3>. QED  BY <2>3, <3>2, <3>3 DEF IInv, Others
  <2>5. CASE ~ThreadRuns
    <3>1. Started(part)
      BY <1>1, <1>4, <2>5, StartStarts
    <3>2. TypeOK'
      BY <1>1, <1>4, <2>2, <3>1, OneMore DEF IInv, TypeOK, Started
    <3>3. NoCrash' /\ AskedIsRisky' /\ DeletedIsRisky' /\ SheetHasTarget'
      BY <2>1, <3>1
         DEF Started, NoCrash, AskedIsRisky, DeletedIsRisky, SheetHasTarget
    <3>. QED  BY <2>3, <3>2, <3>3 DEF IInv, Others
  <2>. QED  BY <2>4, <2>5
<1>5. ASSUME StartNone, document' = document, lost' = lost, did' = did \cup {"risky"}
      PROVE  IInv'
  <2>1. /\ gui' \in {"crashed", "idle"} /\ then' = "none"
        /\ job' = NoJob /\ queued' = FALSE
        /\ ctlFile' \in {"null", "deleted"}
        /\ bar' = bar /\ timer' = timer /\ started' = started
    BY <1>1, <1>5 DEF StartNone, GoesOn, IInv, TypeOK
  <2>2. TypeOK'
    BY <1>1, <1>5, <2>1, JobValues DEF IInv, TypeOK
  <2>3. NothingLost' /\ UnsavedIsMarked' /\ NoCrash'
    BY <1>5 DEF IInv, Others, NothingLost, UnsavedIsMarked, NoCrash
  <2>4. AskedIsRisky' /\ DeletedIsRisky' /\ SheetHasTarget'
    BY <1>5 DEF AskedIsRisky, DeletedIsRisky, SheetHasTarget
  <2>5. AgreedOrEdited'
    BY <1>3, <1>5 DEF AgreedOrEdited
  <2>. QED  BY <2>2, <2>3, <2>4, <2>5 DEF IInv, Others
<1>6. CASE Start("document", then) /\ Stays(document) /\ did' = did /\ then \in {"open", "import"}
  BY <1>4, <1>6 DEF Stays, Operations
<1>7. CASE Start("sheet", then) /\ Stays(SheetTarget) /\ did' = did /\ then = "import"
  BY <1>4, <1>7 DEF Stays, Operations
<1>8. CASE StartNone /\ Stays(document) /\ did' = did \cup {"risky"}
  BY <1>5, <1>8 DEF Stays
<1>. QED  BY <1>6, <1>7, <1>8 DEF ChooseFile

LEMMA ImportDoneInvariant == ASSUME IInv, ImportDone PROVE IInv'
<1>1. /\ gui \in {"idle", "asking", "choosing"} /\ queued /\ queued' = FALSE
      /\ UNCHANGED <<then, bar, timer, ctlFile, started>>
  BY DEF ImportDone, Listening, progress
<1>2. job' \in Jobs /\ job'.thread = job.thread /\ job'.part = job.part
  BY DEF ImportDone, JobAfter, IInv, TypeOK, Jobs
<1>3. UnderWay /\ (UnderWay' => ThreadRuns)
  BY <1>1, <1>2 DEF UnderWay, ThreadRuns
<1>4. CASE job.result # "good"
  <2>1. UNCHANGED <<gui, document, recent, lost, did>>
    BY <1>4 DEF ImportDone
  <2>2. TypeOK'
    BY <1>1, <1>2, <2>1 DEF IInv, TypeOK
  <2>3. gui' # "crashed"
    BY <1>1, <2>1
  <2>. QED  BY <1>1, <1>2, <1>3, <2>1, <2>2, <2>3, HarmlessInvariant
<1>5. CASE /\ job.part = "document" /\ Replaces(CleanDocument, document)
           /\ recent' = (recent \/ job.op = "recent") /\ gui' = gui /\ did' = did
  <2>1. document' \in Documents /\ document'.shown /\ ~document'.unsaved
    BY <1>5, DocumentValues DEF Replaces
  <2>2. recent' \in BOOLEAN /\ lost' \in BOOLEAN
    BY <1>5 DEF Replaces
  <2>3. TypeOK'
    BY <1>1, <1>2, <1>5, <2>1, <2>2 DEF IInv, TypeOK
  <2>4. NothingLost'
    BY <1>3, <1>5 DEF Replaces, IInv, Others, NothingLost, AgreedOrEdited
  <2>5. UnsavedIsMarked' /\ SheetHasTarget' /\ AgreedOrEdited'
    BY <2>1 DEF UnsavedIsMarked, SheetHasTarget, AgreedOrEdited
  <2>6. NoCrash' /\ AskedIsRisky' /\ DeletedIsRisky'
    BY <1>1, <1>3, <1>5 DEF IInv, Others, NoCrash, AskedIsRisky, DeletedIsRisky
  <2>. QED  BY <2>3, <2>4, <2>5, <2>6 DEF IInv, Others
<1>6. CASE /\ job.part = "sheet"
           /\ Stays(IF document.shown
                    THEN [document EXCEPT !.unsaved = TRUE, !.agreed = FALSE]
                    ELSE document)
           /\ gui' = IF document.shown THEN gui ELSE "crashed"
           /\ did' = did \cup {"sheet"} /\ recent' = recent
  <2>1. document' \in Documents /\ document'.shown = document.shown
    BY <1>6 DEF Stays, IInv, TypeOK, Documents
  <2>2. ~document'.shown => document' = NoDocument
    BY <1>6, <2>1 DEF Stays, IInv, TypeOK
  <2>3. TypeOK'
    BY <1>1, <1>2, <1>6, <2>1, <2>2 DEF Stays, IInv, TypeOK
  <2>4. NothingLost' /\ UnsavedIsMarked' /\ AgreedOrEdited'
    BY <1>6 DEF NothingLost, UnsavedIsMarked, AgreedOrEdited
  <2>5. document.shown \/ "risky" \in did
    BY <1>3, <1>6 DEF IInv, Others, SheetHasTarget
  <2>6. NoCrash' /\ SheetHasTarget'
    BY <1>1, <1>6, <2>1, <2>5 DEF NoCrash, SheetHasTarget
  <2>7. AskedIsRisky' /\ DeletedIsRisky'
    BY <1>1, <1>3, <1>6 DEF IInv, Others, AskedIsRisky, DeletedIsRisky
  <2>. QED  BY <2>3, <2>4, <2>6, <2>7 DEF IInv, Others
<1>. QED  BY <1>4, <1>5, <1>6 DEF ImportDone

-----------------------------------------------------------------------------
LEMMA NextInvariant == ASSUME IInv, [Next]_vars PROVE IInv'
<1>1. CASE Thread
  BY <1>1, ReadInvariant, FinishInvariant DEF Thread
<1>2. CASE EventLoop
  BY <1>2, ImportDoneInvariant, TickInvariant, WaitedInvariant DEF EventLoop
<1>3. CASE User
  BY <1>3, EditInvariant, SaveInvariant, CancelInvariant, OpenArgumentInvariant,
     ChooseInvariant, AnswerYesInvariant, AnswerNoInvariant, DialogClosedInvariant,
     ChooseFileInvariant DEF User
<1>4. CASE UNCHANGED vars
  <2>1. TypeOK'
    BY <1>4 DEF vars, progress, IInv, TypeOK
  <2>2. UnderWay' <=> UnderWay
    BY <1>4 DEF vars, UnderWay, ThreadRuns
  <2>3. gui' = "crashed" => "risky" \in did'
    BY <1>4 DEF vars, IInv, Others, NoCrash
  <2>. QED  BY <1>4, <2>1, <2>2, <2>3, HarmlessInvariant DEF vars, progress
<1>. QED  BY <1>1, <1>2, <1>3, <1>4 DEF Next

\* Whatever the user does while a file is read, and however many are: the
\* window knows its document, its import and what the user has agreed to
\* (handleUnsavedChanges, onImportDone and the progress control,
\* src/src/ui/mainwin.cpp and src/src/control/mainwinprogressctl.cpp).
THEOREM ImportInvariant == Spec => []IInv
<1>1. Init => IInv
  BY InitInvariant
<1>2. IInv /\ [Next]_vars => IInv'
  BY NextInvariant
<1>. QED  BY <1>1, <1>2, PTL DEF Spec

\* The state of the window, of the import and of the progress control has its
\* type; the control has a file exactly when there is an import with a thread.
THEOREM ImportTypes == Spec => []TypeOK
<1>1. IInv => TypeOK
  BY DEF IInv
<1>. QED  BY <1>1, ImportInvariant, PTL

\* Work that no file holds is dropped only if the user was asked about it
\* (handleUnsavedChanges), or did it while a file was read, or imported it.
THEOREM AskedBeforeLost == Spec => []NothingLost
<1>1. IInv => NothingLost
  BY DEF IInv, Others
<1>. QED  BY <1>1, ImportInvariant, PTL

\* No import, and no document that is missing, is used after it is deleted,
\* unless the user does one of the risky things while a file is read
\* (onImportDone, on_updateTimer_timeout and the destructor of the import).
THEOREM CrashIsRisky == Spec => []NoCrash
<1>1. IInv => NoCrash
  BY DEF IInv, Others
<1>. QED  BY <1>1, ImportInvariant, PTL

=============================================================================
