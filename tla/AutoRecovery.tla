---------------------------- MODULE AutoRecovery ----------------------------
(***************************************************************************)
(* Recovery files: CAAutoRecovery (src/src/core/autorecovery.cpp) writes   *)
(* the open documents of a running Canorus to the files recovery0,         *)
(* recovery1, ... of the settings folder, deletes the files when Canorus   *)
(* is closed, and opens the files it finds when Canorus is started.        *)
(*                                                                         *)
(* A process is one run of the program after another; all processes share  *)
(* the folder.  A process may crash.  Its GUI thread waits while it writes *)
(* a file, so the steps of one process are in the order of the code, but   *)
(* each file operation is a step of its own: the process may crash before  *)
(* it, and another process may run.                                        *)
(***************************************************************************)
EXTENDS Integers, FiniteSets

CONSTANTS
  Processes,  \* the Canorus programs of one user
  Docs,       \* what the user works on
  NoFile,     \* a file that does not exist
  Blank,      \* the null document of a window, and the empty file for it
  CrashAt,    \* where a process may crash: some of Places
  MaxContent, \* bound on the edits of a document
  MaxIndex    \* bound on the recovery files

Places == {"open", "clean", "save", "idle"}

ASSUME RecoveryAssumption ==
  /\ NoFile # Blank
  /\ CrashAt \subseteq Places
  /\ {MaxContent, MaxIndex} \subseteq Nat

Index == 0 .. MaxIndex

\* The content of a document is the number of its edits; Part is a piece of
\* a document, written by a process that crashed.
Part == -1
Contents == {Part} \cup 0 .. MaxContent
Work == [doc : Docs, content : Contents]

ASSUME FilesAssumption == {NoFile, Blank} \cap Work = {}

VARIABLES
  file,      \* the recovery files
  pc,        \* what a process does
  idx,       \* the counter of its loop
  after,     \* what it does once the files are deleted
  work,      \* the documents that are open in it
  bare,      \* has it a window without a document?
  toWrite,   \* what saveRecovery has yet to write
  writing,   \* is the file idx being written?
  saved,     \* what was last written of each document open in it
  owed,      \* what the recovery files held of a process that crashed
  crashed    \* has a process crashed since the last recovery?

vars == <<file, pc, idx, after, work, bare, toWrite, writing, saved, owed, crashed>>

TypeOK ==
  /\ file \in [Index -> Work \cup {NoFile, Blank}]
  /\ pc \in [Processes -> Places \cup {"off"}]
  /\ idx \in [Processes -> Nat]
  /\ after \in [Processes -> {"idle", "save", "off"}]
  /\ work \in [Processes -> SUBSET Work]
  /\ bare \in [Processes -> BOOLEAN]
  /\ toWrite \in [Processes -> SUBSET (Work \cup {Blank})]
  /\ writing \in [Processes -> BOOLEAN]
  /\ saved \in [Processes -> SUBSET Work]
  /\ owed \subseteq Work
  /\ crashed \in BOOLEAN

Exists(i) == i \in Index /\ file[i] # NoFile

-----------------------------------------------------------------------------
(* cleanupRecovery: from the first file to the first that does not exist.  *)

\* A slip: the first file is forgotten.
SecondFile == 1

FirstFile == 0

\* Process p, whose other variables are next, begins to delete the files.
StartClean(p, then) ==
  /\ pc' = [pc EXCEPT ![p] = "clean"]
  /\ idx' = [idx EXCEPT ![p] = FirstFile]
  /\ after' = [after EXCEPT ![p] = then]

CleanFile(p) ==
  /\ pc[p] = "clean"
  /\ Exists(idx[p])
  /\ file' = [file EXCEPT ![idx[p]] = NoFile]
  /\ idx' = [idx EXCEPT ![p] = @ + 1]
  /\ UNCHANGED <<pc, after, work, bare, toWrite, writing, saved, owed, crashed>>

\* A slip: windows are saved until one without a document is met.
SavedUntilBare(p) == IF bare[p] THEN {Blank} ELSE work[p]

\* The set of the documents of all windows, the null pointer included.
DocumentsToSave(p) == work[p] \cup (IF bare[p] THEN {Blank} ELSE {})

\* The loop ends at the first file that does not exist.  A Canorus that has
\* recovered nothing shows a window with a new document, which counts as none
\* until the user works on it.
Cleaned(p) ==
  /\ pc[p] = "clean"
  /\ ~Exists(idx[p])
  /\ pc' = [pc EXCEPT ![p] = after[p]]
  /\ idx' = [idx EXCEPT ![p] = 0]
  /\ toWrite' = [toWrite EXCEPT ![p] =
                   IF after[p] = "save" THEN DocumentsToSave(p) ELSE {}]
  /\ IF after[p] = "idle"
     THEN /\ owed' = owed \ work[p]
          /\ crashed' = FALSE
          /\ bare' = [bare EXCEPT ![p] = (work[p] = {})]
     ELSE UNCHANGED <<owed, crashed, bare>>
  /\ UNCHANGED <<file, after, work, writing, saved>>

-----------------------------------------------------------------------------
(* saveRecovery, called by the timer.                                      *)

SaveRecovery(p) ==
  /\ pc[p] = "idle"
  /\ StartClean(p, "save")
  /\ UNCHANGED <<file, work, bare, toWrite, writing, saved, owed, crashed>>

\* setStreamToFile: the file is there, and empty.
CreateFile(p) ==
  /\ pc[p] = "save"
  /\ ~writing[p]
  /\ idx[p] \in Index
  /\ \E d \in toWrite[p] :
       /\ file' = [file EXCEPT ![idx[p]] =
                     IF d = Blank THEN Blank ELSE [d EXCEPT !.content = Part]]
       /\ toWrite' = [toWrite EXCEPT ![p] = @ \ {d}]
  /\ writing' = [writing EXCEPT ![p] = TRUE]
  /\ UNCHANGED <<pc, idx, after, work, bare, saved, owed, crashed>>

\* What goes into the file idx: nothing for the null document, and nothing if
\* another process has deleted the file or writes another document to it.
ToFile(p) ==
  {w \in work[p] : LET f == file[idx[p]]
                   IN f \notin {NoFile, Blank} /\ f.doc = w.doc}

\* The export thread is done.
WriteFile(p) ==
  /\ pc[p] = "save"
  /\ writing[p]
  /\ IF ToFile(p) = {}
     THEN UNCHANGED <<file, saved>>
     ELSE \E w \in ToFile(p) :
            /\ file' = [file EXCEPT ![idx[p]] = w]
            /\ saved' = [saved EXCEPT ![p] = {v \in @ : v.doc # w.doc} \cup {w}]
  /\ writing' = [writing EXCEPT ![p] = FALSE]
  /\ idx' = [idx EXCEPT ![p] = @ + 1]
  /\ UNCHANGED <<pc, after, work, bare, toWrite, owed, crashed>>

Saved(p) ==
  /\ pc[p] = "save"
  /\ ~writing[p]
  /\ toWrite[p] = {}
  /\ pc' = [pc EXCEPT ![p] = "idle"]
  /\ idx' = [idx EXCEPT ![p] = 0]
  /\ UNCHANGED <<file, after, work, bare, toWrite, writing, saved, owed, crashed>>

-----------------------------------------------------------------------------
(* openRecovery, called when Canorus starts.                               *)

Start(p) ==
  /\ pc[p] = "off"
  /\ pc' = [pc EXCEPT ![p] = "open"]
  /\ idx' = [idx EXCEPT ![p] = 0]
  /\ bare' = [bare EXCEPT ![p] = FALSE]
  /\ UNCHANGED <<file, after, work, toWrite, writing, saved, owed, crashed>>

\* What importing f opens: of a piece of a document, that piece or nothing.
Imports(f) ==
  IF f = Blank THEN {{}}
  ELSE IF f.content = Part THEN {{}, {f}}
  ELSE {{f}}

\* A slip: the loop ends at a file that cannot be read.
StopAtUnread(i, docs) == IF docs = {} THEN MaxIndex + 1 ELSE i + 1

NextToOpen(i, docs) == i + 1

OpenFile(p) ==
  /\ pc[p] = "open"
  /\ Exists(idx[p])
  /\ \E docs \in Imports(file[idx[p]]) :
       /\ work' = [work EXCEPT ![p] = @ \cup docs]
       /\ idx' = [idx EXCEPT ![p] = NextToOpen(@, docs)]
  /\ UNCHANGED <<file, pc, after, bare, toWrite, writing, saved, owed, crashed>>

\* All files are opened: they are deleted.
OpenedAll(p) ==
  /\ pc[p] = "open"
  /\ ~Exists(idx[p])
  /\ StartClean(p, "idle")
  /\ UNCHANGED <<file, work, bare, toWrite, writing, saved, owed, crashed>>

-----------------------------------------------------------------------------
(* The user.                                                               *)

Edit(p) ==
  /\ pc[p] = "idle"
  /\ \E w \in work[p] :
       /\ w.content \in 0 .. MaxContent - 1
       /\ work' = [work EXCEPT ![p] = (@ \ {w}) \cup {[w EXCEPT !.content = @ + 1]}]
  /\ UNCHANGED <<file, pc, idx, after, bare, toWrite, writing, saved, owed, crashed>>

\* A document nobody has worked on is created or opened.
OpenDoc(p, d) ==
  /\ pc[p] = "idle"
  /\ \A q \in Processes : \A w \in work[q] \cup owed : w.doc # d
  /\ \A i \in Index : file[i] \notin {NoFile, Blank} => file[i].doc # d
  /\ work' = [work EXCEPT ![p] = @ \cup {[doc |-> d, content |-> 0]}]
  /\ \E b \in {bare[p], FALSE} : bare' = [bare EXCEPT ![p] = b]
  /\ UNCHANGED <<file, pc, idx, after, toWrite, writing, saved, owed, crashed>>

\* A document is closed, and its window stays, or goes if it is not the last.
CloseDoc(p) ==
  /\ pc[p] = "idle"
  /\ \E w \in work[p], stays \in BOOLEAN :
       /\ stays \/ bare[p] \/ work[p] # {w}
       /\ work' = [work EXCEPT ![p] = @ \ {w}]
       /\ saved' = [saved EXCEPT ![p] = {v \in @ : v.doc # w.doc}]
       /\ bare' = [bare EXCEPT ![p] = @ \/ stays]
  /\ UNCHANGED <<file, pc, idx, after, toWrite, writing, owed, crashed>>

\* The last window is closed: CACanorus::cleanUp.
Quit(p) ==
  /\ pc[p] = "idle"
  /\ work' = [work EXCEPT ![p] = {}]
  /\ bare' = [bare EXCEPT ![p] = FALSE]
  /\ saved' = [saved EXCEPT ![p] = {}]
  /\ StartClean(p, "off")
  /\ UNCHANGED <<file, toWrite, writing, owed, crashed>>

Crash(p) ==
  /\ pc[p] \in CrashAt
  /\ pc' = [pc EXCEPT ![p] = "off"]
  /\ owed' = owed \cup saved[p]
  /\ crashed' = TRUE
  /\ work' = [work EXCEPT ![p] = {}]
  /\ saved' = [saved EXCEPT ![p] = {}]
  /\ toWrite' = [toWrite EXCEPT ![p] = {}]
  /\ writing' = [writing EXCEPT ![p] = FALSE]
  /\ UNCHANGED <<file, idx, after, bare>>

-----------------------------------------------------------------------------
Init ==
  /\ file = [i \in Index |-> NoFile]
  /\ pc = [p \in Processes |-> "off"]
  /\ idx = [p \in Processes |-> 0]
  /\ after = [p \in Processes |-> "idle"]
  /\ work = [p \in Processes |-> {}]
  /\ bare = [p \in Processes |-> FALSE]
  /\ toWrite = [p \in Processes |-> {}]
  /\ writing = [p \in Processes |-> FALSE]
  /\ saved = [p \in Processes |-> {}]
  /\ owed = {}
  /\ crashed = FALSE

Step(p) ==
  \/ CleanFile(p) \/ Cleaned(p)
  \/ CreateFile(p) \/ WriteFile(p) \/ Saved(p)
  \/ OpenFile(p) \/ OpenedAll(p)

User(p) ==
  \/ Start(p) \/ Edit(p) \/ CloseDoc(p) \/ Quit(p)
  \/ \E d \in Docs : OpenDoc(p, d)

Next == \E p \in Processes : Step(p) \/ SaveRecovery(p) \/ User(p) \/ Crash(p)

\* A process goes on, and its timer runs: the interval is not 0.
Spec ==
  /\ Init /\ [][Next]_vars
  /\ \A p \in Processes : WF_vars(Step(p)) /\ WF_vars(SaveRecovery(p))

-----------------------------------------------------------------------------
(* Properties.                                                             *)

Held == {file[i] : i \in Index} \ {NoFile, Blank}

\* When Canorus is started after a crash, it opens the last written recovery
\* of every document that was open, before it deletes the files
\* (CAAutoRecovery, "Otherwise Canorus looks for recovery files").
CrashedWorkIsRecovered ==
  \A p \in Processes :
    pc[p] = "clean" /\ after[p] = "idle" => owed \subseteq work[p]

\* A Canorus that is closed nicely leaves no recovery file behind
\* ("recovery files must be cleaned by calling cleanupRecovery()").
CleanExitLeavesNone ==
  ~crashed /\ (\A p \in Processes : pc[p] = "off") =>
    \A i \in Index : file[i] = NoFile

\* After a save the recovery files hold the documents of all windows as they
\* are, and nothing of what was saved before.
SavedIsComplete ==
  \A p \in Processes :
    pc[p] = "save" /\ toWrite[p] = {} /\ ~writing[p] => Held = work[p]

\* What is opened as recovered was left by a session that ended ("Previous
\* session of Canorus was unexpectedly closed."): nobody works on it.
OnlyEndedIsRecovered ==
  \A p, q \in Processes :
    p # q => \A v \in work[p], w \in work[q] : v.doc # w.doc

\* Every edit is written to a recovery file, as long as the document stays
\* open and the program runs.
EventuallySaved ==
  \A p \in Processes, d \in Docs, c \in 0 .. MaxContent :
    [doc |-> d, content |-> c] \in work[p] /\ pc[p] = "idle" ~>
      \/ \E w \in saved[p] : w.doc = d /\ w.content >= c
      \/ \A w \in work[p] : w.doc # d

=============================================================================
