-------------------------------- MODULE Import --------------------------------
(***************************************************************************)
(* Opening and importing files in a main window (src/src/ui/mainwin.cpp):  *)
(* a CAImport (src/src/import/import.cpp) is a thread that reads the file  *)
(* and tells the window with the queued signal importDone, while the user  *)
(* goes on working, and CAMainWinProgressCtl                               *)
(* (src/src/control/mainwinprogressctl.cpp) shows how far it is.           *)
(*                                                                         *)
(* There is one main window, so the document is shown by no other.  The    *)
(* GUI thread runs one handler at a time, but a handler that shows a       *)
(* dialog (a question, a file dialog) lets signals and timers in before it *)
(* goes on.  That a QThread which is destroyed while it runs aborts the    *)
(* program, and that signals of a destroyed object are not delivered, is   *)
(* what Qt does.                                                           *)
(***************************************************************************)
EXTENDS Naturals

CONSTANT MaxImports  \* bound on the imports that are started

Operations == {"close", "new", "open", "recent", "import", "quit"}

ASSUME ImportAssumption == MaxImports \in Nat

VARIABLES
  gui,      \* what the GUI thread does
  then,     \* what it goes on with after a dialog
  document, \* document(): null, or is it modified, and does it hold what ...
            \* ... no file holds, and did the user agree to drop that?
  job,      \* _importFile, its thread and what it has read
  queued,   \* importDone of this job, not yet delivered
  bar,      \* is the progress bar shown?
  timer,    \* does _updateTimer run?
  ctlFile,  \* _file of the progress control: null, this job or a deleted one
  recent,   \* is the file the user has opened before in the list?
  lost,     \* was work dropped that the user was not asked about?
  started,  \* how many imports were started
  did       \* did the user edit while an import was under way, was a sheet ...
            \* ... imported, and did what is risky happen?

progress == <<bar, timer, ctlFile>>
vars == <<gui, then, document, job, queued, progress, recent, lost, started, did>>

NoDocument == [shown |-> FALSE, modified |-> FALSE, unsaved |-> FALSE, agreed |-> FALSE]
CleanDocument == [NoDocument EXCEPT !.shown = TRUE]
NoJob == [part |-> "none", op |-> "none", thread |-> "none", result |-> "none",
          canceled |-> FALSE, opened |-> FALSE]

Documents == [shown : BOOLEAN, modified : BOOLEAN, unsaved : BOOLEAN, agreed : BOOLEAN]
Jobs == [part : {"none", "document", "sheet"},
         op : Operations \cup {"none"},
         thread : {"none", "reading", "emitted", "finished"},
         result : {"none", "good", "empty", "bad"},
         canceled : BOOLEAN, opened : BOOLEAN]

TypeOK ==
  /\ gui \in {"starting", "idle", "asking", "choosing", "waiting", "crashed", "off"}
  /\ then \in Operations \cup {"none"}
  /\ document \in Documents /\ job \in Jobs
  /\ ctlFile \in {"null", "job", "deleted"}
  /\ queued \in BOOLEAN /\ bar \in BOOLEAN /\ timer \in BOOLEAN
  /\ recent \in BOOLEAN /\ lost \in BOOLEAN
  /\ started \in 0 .. MaxImports
  /\ did \subseteq {"edit", "sheet", "risky"}
  /\ ~document.shown => document = NoDocument
  /\ queued => job.thread \in {"emitted", "finished"}
  /\ timer => bar
  /\ ctlFile = "job" <=> job.thread # "none"

ThreadRuns == job.thread \in {"reading", "emitted"}
UnderWay == ThreadRuns \/ queued

\* The event loop of the GUI thread runs, in the program or in a dialog.
Listening == gui \in {"idle", "asking", "choosing"}

\* The user does now what is x if it is done while an import is under way.
UserDoes(x) ==
  /\ gui = "idle"
  /\ did' = IF UnderWay THEN did \cup x ELSE did

\* A dialog about op goes on if the window is still busy with it.
GoesOn(op) == then' = IF gui' \in {"asking", "choosing"} THEN op ELSE "none"

\* The document d is deleted, and n takes its place.
Replaces(n, d) ==
  /\ document' = n
  /\ lost' = (lost \/ (d.unsaved /\ ~d.agreed))

Stays(d) == document' = d /\ UNCHANGED lost

-----------------------------------------------------------------------------
(* The thread.                                                             *)

\* run(): the file is read, or cannot be opened or understood, or it holds
\* nothing of what is asked for.
Read ==
  /\ job.thread = "reading"
  /\ \E r \in {"good", "empty", "bad"} :
       job' = [job EXCEPT !.thread = "emitted", !.result = r]
  /\ queued' = TRUE
  /\ UNCHANGED <<gui, then, document, progress, recent, lost, started, did>>

\* The thread returns from run().
Finish ==
  /\ job.thread = "emitted"
  /\ job' = [job EXCEPT !.thread = "finished"]
  /\ UNCHANGED <<gui, then, document, queued, progress, recent, lost, started, did>>

-----------------------------------------------------------------------------
(* Parts of the handlers of the main window.                               *)

\* The old import is deleted, a new one started, and startProgress shows it.
Start(part, op) ==
  IF ThreadRuns
  THEN gui' = "crashed" /\ UNCHANGED <<job, queued, progress, started>>
  ELSE /\ started < MaxImports
       /\ started' = started + 1
       /\ gui' = "idle"
       /\ job' = [NoJob EXCEPT !.part = part, !.op = op, !.thread = "reading"]
       /\ queued' = FALSE
       /\ bar' = TRUE /\ timer' = TRUE /\ ctlFile' = "job"

\* openDocument with a name it does not know: the old import is deleted, and
\* the progress control is not told.
StartNone ==
  /\ gui' = IF ThreadRuns THEN "crashed" ELSE "idle"
  /\ job' = NoJob
  /\ queued' = FALSE
  /\ ctlFile' = IF ctlFile = "job" THEN "deleted" ELSE ctlFile
  /\ UNCHANGED <<bar, timer, started>>

\* The window is destroyed, and with it the import.
Destroy ==
  /\ gui' = IF ThreadRuns THEN "crashed" ELSE "off"
  /\ job' = NoJob
  /\ queued' = FALSE
  /\ bar' = FALSE /\ timer' = FALSE /\ ctlFile' = "null"

\* The operation op goes on with document d, about which the user was asked.
Perform(op, d) ==
  \/ /\ op = "close" /\ Replaces(NoDocument, d)
     /\ gui' = "idle"
     /\ UNCHANGED <<job, queued, progress, recent, started>>
  \/ /\ op = "new" /\ Replaces(CleanDocument, d)
     /\ gui' = "idle"
     /\ UNCHANGED <<job, queued, progress, recent, started>>
  \/ /\ op \in {"open", "import"} /\ Stays(d)
     /\ gui' = "choosing"
     /\ UNCHANGED <<job, queued, progress, recent, started>>
  \/ /\ op = "recent" /\ Stays(d)
     /\ Start("document", "recent")
     \* openDocument returns what has been imported at once: most often null
     /\ recent' \in {recent, FALSE}
  \/ /\ op = "quit" /\ Replaces(NoDocument, d)
     /\ Destroy
     /\ UNCHANGED <<recent, started>>

-----------------------------------------------------------------------------
(* The user.                                                               *)

Edited == [CleanDocument EXCEPT !.modified = TRUE, !.unsaved = TRUE]

\* An edit is pushed on the undo stack.
Edit ==
  /\ UserDoes({"edit"})
  /\ document.shown
  /\ document' = Edited
  /\ UNCHANGED <<gui, then, job, queued, progress, recent, lost, started>>

Save ==
  /\ gui = "idle"
  /\ document.shown
  /\ document' = CleanDocument
  /\ UNCHANGED <<gui, then, job, queued, progress, recent, lost, started, did>>

\* A slip: nobody is asked.
AsksNever(op) == FALSE

\* handleUnsavedChanges asks, as every operation begins with it.
Asks(op) == document.shown /\ document.modified

Choose(op) ==
  /\ UserDoes(IF op = "new" THEN {} ELSE {"risky"})
  /\ op = "close" => document.shown
  /\ op = "recent" => recent
  /\ IF Asks(op)
     THEN /\ gui' = "asking"
          /\ UNCHANGED <<document, job, queued, progress, recent, lost, started>>
     ELSE Perform(op, document)
  /\ GoesOn(op)

\* "Yes", and the document was saved.
AnswerYes ==
  /\ gui = "asking"
  /\ document.shown
  /\ Perform(then, CleanDocument)
  /\ GoesOn(then)
  /\ UNCHANGED did

AnswerNo ==
  /\ gui = "asking"
  /\ Perform(then, [document EXCEPT !.agreed = document.shown])
  /\ GoesOn(then)
  /\ UNCHANGED did

\* "Cancel", or "Yes" and the document was not saved.
AnswerCancel ==
  /\ gui = "asking"
  /\ gui' = "idle"
  /\ GoesOn(then)
  /\ UNCHANGED <<document, job, queued, progress, recent, lost, started, did>>

\* A slip: nothing is done about a missing document.
NoTarget == document

SheetTarget == IF document.shown THEN document ELSE CleanDocument

\* A file is chosen to be opened, or to be imported: a sheet is imported into
\* a document, a new one if there is none.
ChooseFile ==
  /\ gui = "choosing"
  /\ \/ /\ then = "open"
        /\ Start("document", then)
        /\ Stays(document)
        /\ UNCHANGED did
     \/ /\ then = "open"
        /\ StartNone
        /\ Stays(document)
        /\ did' = did \cup {"risky"}
     \/ /\ then = "import"
        /\ Start("document", then)
        /\ Stays(document)
        /\ UNCHANGED did
     \/ /\ then = "import"
        /\ Start("sheet", then)
        /\ Stays(SheetTarget)
        /\ UNCHANGED did
  /\ GoesOn(then)
  /\ UNCHANGED recent

ChooseNone ==
  /\ gui = "choosing"
  /\ gui' = "idle"
  /\ GoesOn(then)
  /\ UNCHANGED <<document, job, queued, progress, recent, lost, started, did>>

\* The button of the progress bar: the thread has no event loop to exit from,
\* so this only waits for it.
Cancel ==
  /\ gui = "idle"
  /\ bar
  /\ bar' = FALSE /\ timer' = FALSE
  /\ gui' = IF ctlFile = "deleted" THEN "crashed"
            ELSE IF ThreadRuns THEN "waiting" ELSE "idle"
  /\ job' = [job EXCEPT !.canceled = ~job.opened]
  /\ UNCHANGED <<then, document, queued, ctlFile, recent, lost, started, did>>

\* parseOpenFileArguments: the window lives until the end of its block only.
OpenArgument ==
  /\ gui = "starting"
  /\ gui' \in {"crashed", "off"}
  /\ did' = did \cup {"risky"}
  /\ UNCHANGED <<then, document, job, queued, progress, recent, lost, started>>

-----------------------------------------------------------------------------
(* The event loop.                                                         *)

\* A slip: the window deletes an import it has been told about.
DeletedAfter(j) == NoJob

JobAfter(j) == [j EXCEPT !.opened = (j.result = "good")]

\* onImportDone.  A sheet is added to the document, which is not marked as
\* modified; without a document the null pointer is used.
ImportDone ==
  /\ Listening
  /\ queued
  /\ queued' = FALSE
  /\ job' = JobAfter(job)
  /\ IF job.result # "good"
     THEN UNCHANGED <<gui, document, recent, lost, did>>
     ELSE \/ /\ job.part = "document"
             /\ Replaces(CleanDocument, document)
             /\ recent' = (recent \/ job.op = "recent")
             /\ UNCHANGED <<gui, did>>
          \/ /\ job.part = "sheet"
             /\ Stays(IF document.shown
                      THEN [document EXCEPT !.unsaved = TRUE, !.agreed = FALSE]
                      ELSE document)
             /\ gui' = IF document.shown THEN gui ELSE "crashed"
             /\ did' = did \cup {"sheet"}
             /\ UNCHANGED recent
  /\ UNCHANGED <<then, progress, started>>

\* A slip: the timer waits for the thread to succeed.
EndsWhenGood == job.result = "good"

EndsWhen == job.thread = "finished"

\* on_updateTimer_timeout.
Tick ==
  /\ Listening
  /\ timer
  /\ \/ /\ ctlFile = "deleted"
        /\ gui' = "crashed"
        /\ UNCHANGED <<bar, timer>>
     \/ /\ ctlFile = "job"
        /\ EndsWhen
        /\ bar' = FALSE /\ timer' = FALSE
        /\ UNCHANGED gui
  /\ UNCHANGED <<then, document, job, queued, ctlFile, recent, lost, started, did>>

\* The wait of the cancel button is over.
Waited ==
  /\ gui = "waiting"
  /\ ~ThreadRuns
  /\ gui' = "idle"
  /\ UNCHANGED <<then, document, job, queued, progress, recent, lost, started, did>>

-----------------------------------------------------------------------------
Init ==
  /\ gui \in {"idle", "starting"}
  /\ then = "none"
  /\ document = CleanDocument
  /\ job = NoJob
  /\ queued = FALSE
  /\ bar = FALSE /\ timer = FALSE /\ ctlFile = "null"
  /\ recent = TRUE
  /\ lost = FALSE
  /\ started = 0
  /\ did = {}

Thread == Read \/ Finish
EventLoop == ImportDone \/ Tick \/ Waited

User ==
  \/ Edit \/ Save \/ Cancel \/ OpenArgument
  \/ \E op \in Operations : Choose(op)
  \/ AnswerYes \/ AnswerNo \/ AnswerCancel
  \/ ChooseFile \/ ChooseNone

Next == Thread \/ EventLoop \/ User

\* The thread ends, and the event loop runs, also in a dialog.
Spec ==
  /\ Init /\ [][Next]_vars
  /\ WF_vars(Thread) /\ WF_vars(ImportDone) /\ WF_vars(Tick) /\ WF_vars(Waited)

-----------------------------------------------------------------------------
(* Properties.                                                             *)

\* Work that no file holds is dropped only if the user was asked about it
\* (handleUnsavedChanges, src/src/ui/mainwin.cpp:930-936), unless it was done
\* while a file was read, or is an imported sheet.
NothingLost == lost => "edit" \in did \/ "sheet" \in did

\* The same, however late the work is done.
NeverLost == ~lost

\* A document that holds what no file holds is marked as modified
\* (src/src/score/document.h:97, "unsaved changes"), so that the user will be
\* asked.  An imported sheet is not (onImportDone).
UnsavedIsModified == document.unsaved => document.modified

\* No import is deleted while its thread runs, and neither a deleted import
\* nor a null document is used, unless the user starts another import, closes
\* the document or quits while a file is read, or chooses a name the window
\* does not know, or starts Canorus with the name of a file.
NoCrash == gui = "crashed" => "risky" \in did

\* What the user has canceled is not opened
\* (src/src/widgets/progressstatusbar.cpp:18).
CanceledIsNotOpened == ~(job.canceled /\ job.opened)

\* A file leaves the list of recent documents only if opening it has failed
\* (src/src/ui/mainwin.cpp:3242, 6258).
RecentFailed == ~recent => job.op = "recent" /\ job.result \in {"empty", "bad"}

\* The progress bar goes, whatever comes of the import and whatever the user
\* does meanwhile.
ProgressEnds == bar ~> (~bar \/ gui \in {"crashed", "off"})

=============================================================================
