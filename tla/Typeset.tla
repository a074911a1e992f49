------------------------------ MODULE Typeset ------------------------------
(***************************************************************************)
(* Preview and print: CAPreviewCtl and CAPrintCtl (src/src/control) export *)
(* the current sheet with a CAPDFExport or CASVGExport (src/src/export).   *)
(* That is a thread, in which a CATypesetCtl runs the typesetter, an       *)
(* external program (CAExternProgram), while the window waits.             *)
(*                                                                         *)
(* The exporter object belongs to the thread of the window, so the signal  *)
(* typesetterFinished of the export thread is posted to the event loop of  *)
(* the window: pdfFinished runs after the click has been handled.  It      *)
(* shows or prints the sheet, or a message; what it shows as a dialog lets *)
(* the event loop go on inside it.  The preview action is connected twice  *)
(* to its handler (mainwin.cpp:615 and, by name, previewctl.cpp:30), which *)
(* so runs twice in a row.                                                 *)
(*                                                                         *)
(* Where the code gives up and only writes to the console, the request is  *)
(* noted in silent, which nothing reads but the properties.                *)
(*                                                                         *)
(* Requests are numbered, and a sheet is the number of its request.  The   *)
(* status of the exporter is left out: nobody reads it here.               *)
(***************************************************************************)
EXTENDS Naturals, SequencesExt

CONSTANTS
  Exporters,    \* the exporters of the controls
  Prints,       \* those that print, in a dialog, instead of showing
  File,         \* the name of the file each of them makes
  Twice,        \* those whose handler runs twice at a click
  MaxRequests,  \* bound on the requests
  Hasty         \* may a click come before the last one is answered?

ASSUME TypesetAssumption ==
  /\ Prints \subseteq Exporters /\ Twice \subseteq Exporters
  /\ DOMAIN File = Exporters
  /\ MaxRequests \in Nat
  /\ Hasty \in BOOLEAN

VARIABLES
  gui,        \* does the window wait for the export thread?
  working,    \* the exporter whose thread was started last
  repeats,    \* is its handler to run again?
  requests,   \* the number of times a handler has run
  asked,      \* the last request of each exporter
  hasty,      \* was that made before the one before it was answered?
  ended,      \* how the typesetter ended, by request
  ctl,        \* _poTypesetCtl: the request it is for, 0 if it is null
  queue,      \* typesetterFinished, posted to the exporters
  dialogs,    \* the dialogs that are open inside pdfFinished
  present,    \* the files there are
  content,    \* and what is in them: a sheet, or 0
  outputs,    \* the temporary files of the typesetter
  answer,     \* what the user was told about the last request
  shown,      \* the sheet that was shown or printed last
  silent      \* the requests that were given up without a word

vars == <<gui, working, repeats, requests, asked, hasty, ended, ctl, queue, dialogs,
          present, content, outputs, answer, shown, silent>>

Files == {File[e] : e \in Exporters}
Requests == 1 .. MaxRequests
Results == {"ok", "error", "crash", "notStarted", "noProgram"}

TypeOK ==
  /\ gui \in {"idle", "waiting"} /\ working \in Exporters /\ repeats \in BOOLEAN
  /\ requests \in 0 .. MaxRequests
  /\ asked \in [Exporters -> 0 .. requests] /\ hasty \in [Exporters -> BOOLEAN]
  /\ ended \in [Requests -> Results \cup {"none", "notOpened"}]
  /\ ctl \in [Exporters -> 0 .. requests]
  /\ queue \in Seq([exporter : Exporters, code : {0, 1}])
  /\ dialogs \in Seq([exporter : Exporters, output : 0 .. requests])
  /\ present \subseteq Files /\ content \in [Files -> 0 .. requests]
  /\ outputs \subseteq 1 .. requests
  /\ answer \in [Exporters -> {"none", "shown", "failed", "unable"}]
  /\ shown \in [Exporters -> 0 .. requests] /\ silent \subseteq 1 .. requests

Waits(e) == \E i \in DOMAIN queue : queue[i].exporter = e

-----------------------------------------------------------------------------
\* A handler begins, at a click in a window with a sheet, or again after itself.
Ask(e) ==
  /\ gui = "idle" /\ dialogs = << >>
  /\ IF repeats THEN e = working ELSE Hasty \/ queue = << >>
  /\ repeats' = (e \in Twice /\ ~repeats)
  /\ requests + (IF repeats' THEN 2 ELSE 1) <= MaxRequests
  /\ requests' = requests + 1
  /\ working' = e
  /\ asked' = [asked EXCEPT ![e] = requests']
  /\ hasty' = [hasty EXCEPT ![e] = Waits(e)]
  /\ answer' = [answer EXCEPT ![e] = "none"]
  /\ UNCHANGED <<ctl, queue, dialogs, outputs, shown>>

\* The file is opened, and with it emptied, the thread is started, and the window
\* waits for it.
Click(e) ==
  /\ Ask(e)
  /\ gui' = "waiting"
  /\ present' = present \cup {File[e]}
  /\ content' = [content EXCEPT ![File[e]] = 0]
  /\ UNCHANGED <<ended, silent>>

\* The file, which may have been removed, cannot be opened: the thread finds no
\* stream, and ends.
NotOpened(e) ==
  /\ Ask(e)
  /\ present' \in {present, present \ {File[e]}}
  /\ ended' = [ended EXCEPT ![requests'] = "notOpened"]
  /\ silent' = silent \cup {requests'}
  /\ UNCHANGED <<gui, content>>

\* CAExternProgram::programExited: what has crashed is reported twice; what did
\* not start as failed, and then with an exit code, which is 0.  Without the name
\* of a program execProgram returns before there is anything to signal.
Signals(r) ==
  CASE r = "ok" -> <<0>>
    [] r = "error" -> <<1>>
    [] r = "crash" -> <<1, 1>>
    [] r = "notStarted" -> <<1, 0>>
    [] r = "noProgram" -> << >>

\* A slip: the file of the last request stays.
KeepOld(e) == present

RemoveOld(e) == present \ {File[e]}

\* The rest of the thread: the typesetter runs and ends, perhaps with a part of
\* its output, perhaps, also after a success, with none, and the window goes on.
Typesetter(r) ==
  LET e == working
  IN /\ gui = "waiting"
     /\ gui' = "idle"
     /\ ctl' = [ctl EXCEPT ![e] = requests]
     /\ present' = RemoveOld(e)
     /\ ended' = [ended EXCEPT ![requests] = r]
     /\ \/ /\ r \notin {"notStarted", "noProgram"}
           /\ outputs' = outputs \cup {requests}
           /\ UNCHANGED silent
        \/ /\ UNCHANGED outputs
           /\ silent' = IF r \in {"ok", "noProgram"} THEN silent \cup {requests} ELSE silent
     /\ queue' = queue \o [k \in DOMAIN Signals(r) |->
                             [exporter |-> e, code |-> Signals(r)[k]]]
     /\ UNCHANGED <<working, repeats, requests, asked, hasty, dialogs, content, answer,
                    shown>>

\* A slip: it is shown whether or not it was copied.
CopiesAlways(e) == TRUE

\* QFile::copy, of the output of the control that is there by now; it does not
\* replace a file.
Copies(e) == ctl[e] \in outputs /\ File[e] \notin present

\* A slip: the output of a typesetter that failed is kept.
RemovedIfShown(t) == IF t \in {shown[e] : e \in Exporters} THEN outputs \ {t} ELSE outputs

Removed(t) == outputs \ {t}

\* The end of pdfFinished: the output is removed, and finishExport deletes the
\* control that is there by now.
Finish(e, t) ==
  /\ outputs' = Removed(t)
  /\ ctl' = [ctl EXCEPT ![e] = 0]

\* pdfFinished up to the message, or the print dialog, in which it stays.
Opens(e) ==
  /\ dialogs' = Append(dialogs, [exporter |-> e, output |-> ctl[e]])
  /\ UNCHANGED <<ctl, outputs>>

\* pdfFinished with another code than 0: a message is shown.
Failed(e) ==
  /\ answer' = [answer EXCEPT ![e] = "failed"]
  /\ Opens(e)
  /\ UNCHANGED <<present, content, shown, silent>>

\* pdfFinished with the code 0, when the output is copied: it is shown in a viewer,
\* or there is none, or it is printed, in a dialog or at once, or not, if it is no
\* SVG that can be loaded.
Shows(e) ==
  /\ present' = present \cup {File[e]}
  /\ content' = [content EXCEPT ![File[e]] = ctl[e]]
  /\ \/ /\ answer' = [answer EXCEPT ![e] = "shown"]
        /\ shown' = [shown EXCEPT ![e] = content'[File[e]]]
        /\ \/ Finish(e, ctl[e]) /\ UNCHANGED dialogs
           \/ e \in Prints /\ Opens(e)
        /\ UNCHANGED silent
     \/ /\ e \notin Prints
        /\ answer' = [answer EXCEPT ![e] = "unable"]
        /\ Opens(e)
        /\ UNCHANGED <<shown, silent>>
     \/ /\ e \in Prints
        /\ silent' = silent \cup {ctl[e]}
        /\ Finish(e, ctl[e])
        /\ UNCHANGED <<dialogs, answer, shown>>

\* The output is there, and no file in its way, but reading or writing fails:
\* pdfFinished returns, and the output and the control stay.
CopyFails(e) ==
  /\ silent' = silent \cup {ctl[e]}
  /\ UNCHANGED <<ctl, dialogs, present, content, outputs, answer, shown>>

\* The event loop, in the window or in a dialog, delivers the next signal.
Deliver ==
  /\ gui = "idle" /\ ~repeats
  /\ queue # << >>
  /\ queue' = Tail(queue)
  /\ LET e == Head(queue).exporter
     IN IF Head(queue).code # 0 THEN Failed(e)
        ELSE IF Copies(e) THEN Shows(e) \/ CopyFails(e)
        ELSE UNCHANGED <<ctl, dialogs, present, content, outputs, answer, shown, silent>>
  /\ UNCHANGED <<gui, working, repeats, requests, asked, hasty, ended>>

\* The user closes the dialog on top, and pdfFinished goes on behind it.
CloseDialog ==
  /\ gui = "idle"
  /\ dialogs # << >>
  /\ dialogs' = Front(dialogs)
  /\ Finish(Last(dialogs).exporter, Last(dialogs).output)
  /\ UNCHANGED <<gui, working, repeats, requests, asked, hasty, ended, queue, present,
                 content, answer, shown, silent>>

Init ==
  /\ gui = "idle" /\ working \in Exporters /\ repeats = FALSE
  /\ requests = 0 /\ silent = {}
  /\ asked = [e \in Exporters |-> 0] /\ hasty = [e \in Exporters |-> FALSE]
  /\ ended = [n \in Requests |-> "none"]
  /\ ctl = [e \in Exporters |-> 0]
  /\ queue = << >> /\ dialogs = << >>
  /\ present = {} /\ content = [f \in Files |-> 0] /\ outputs = {}
  /\ answer = [e \in Exporters |-> "none"] /\ shown = [e \in Exporters |-> 0]

Typesetters == \E r \in Results : Typesetter(r)

Clicks == \E e \in Exporters : Click(e) \/ NotOpened(e)

Next == Clicks \/ Typesetters \/ Deliver \/ CloseDialog

\* A handler that is connected twice runs again, the typesetter ends, and the event
\* loop delivers what is posted, also while a dialog is open; the user need not
\* close it.
Spec ==
  /\ Init /\ [][Next]_vars
  /\ WF_vars(repeats /\ Clicks) /\ WF_vars(Typesetters) /\ WF_vars(Deliver)

-----------------------------------------------------------------------------
(* Properties.                                                             *)

\* What is shown is the sheet of the last request, and what is told is how its
\* typesetter ended ("When the typesetter is finished copy the pdf file to the
\* defined destination", pdfexport.cpp:141), unless that request was hasty: then
\* the answer may be that of the one before, and if in addition its own file was
\* not opened, so may be the sheet.
AnswersAreRight ==
  \A e \in Exporters :
    LET end == ended[asked[e]]
    IN /\ answer[e] = "shown" => \/ shown[e] = asked[e] /\ (end = "ok" \/ hasty[e])
                                 \/ hasty[e] /\ end = "notOpened"
       /\ answer[e] = "failed" => end # "ok" \/ hasty[e]

\* "Remove temporary files" (pdfexport.cpp:156): when all is handled, the only
\* outputs left are those of requests which were followed by a hasty one, and those
\* that could not be copied.
OutputsRemoved ==
  gui = "idle" /\ queue = << >> /\ dialogs = << >> =>
    \A t \in outputs \ silent : \A e \in Exporters : t # asked[e]

\* The same for all outputs, when nothing runs twice and no click is hasty.
NoOutputLeft ==
  gui = "idle" /\ queue = << >> /\ dialogs = << >> => outputs \subseteq silent

\* A click is answered, the sheet is shown or printed, or there is a message, unless
\* the code gave the last request up without a word: its file was not opened, there
\* was no program to run, the program succeeded without an output, the output was
\* not copied, or what was copied could not be loaded.
Answered ==
  \A e \in Exporters :
    asked[e] > 0 /\ answer[e] = "none" ~> answer[e] # "none" \/ asked[e] \in silent

\* "on a successful finish the exit code of the typesetter is set to 0"
\* (typesetctl.cpp:274): only a success is reported as one.
ZeroIsSuccess ==
  \A i \in DOMAIN queue :
    queue[i].code = 0 => \E n \in 1 .. requests : ended[n] = "ok"
=============================================================================
