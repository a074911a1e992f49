-------------------------------- MODULE Undo --------------------------------
(***************************************************************************)
(* The undo core of Canorus: CAUndo and CAUndoCommand (src/src/core), the  *)
(* CADocument objects they clone, relink and delete, and the main windows  *)
(* that show them (src/src/ui/mainwin.cpp).                                *)
(*                                                                         *)
(* An undo command keeps two whole documents.  An edit clones the shown    *)
(* document and then changes the shown object in place, so that the clone  *)
(* is the older version; the command before it is relinked to the clone.   *)
(* Undo and redo point the windows at another object.  Everything runs on  *)
(* the GUI thread, so one action is one whole handler of a main window.    *)
(*                                                                         *)
(* Documents, stacks and windows are objects with an identity; the id of a *)
(* deleted object may be used again, as its address may.  The content of a *)
(* document is a member of Scores and a flag for the two properties        *)
(* (text translator, dedication) that CADocument::clone does not copy.     *)
(***************************************************************************)
EXTENDS Integers, Sequences, FiniteSets, SequencesExt

CONSTANTS
  Docs,        \* the CADocument objects (addresses)
  Stacks,      \* the QList<CAUndoCommand*> objects
  Windows,     \* the CAMainWin objects
  Scores,      \* what the sheets of a document may hold
  Blank,       \* the score of a new document
  Dedications, \* whether a dedication may be set: a subset of BOOLEAN
  Names,       \* file names
  NoDoc, NoStack, NoName, NoCommand, NoFile, \* null pointers, empty strings
  MaxCommands  \* bound on the length of an undo stack

Command == [undo : Docs, redo : Docs]
File == [score : Scores, dedication : BOOLEAN, writer : Docs]

ASSUME NullAssumption ==
  /\ NoDoc \notin Docs
  /\ NoStack \notin Stacks
  /\ NoCommand \notin Command
  /\ NoFile \notin File
  /\ Blank \in Scores
  /\ Dedications \subseteq BOOLEAN
  /\ MaxCommands \in Nat

VARIABLES
  live,         \* the documents that are allocated
  score,        \* CADocument::_sheetList, as a member of Scores
  dedication,   \* is CADocument::_dedication (or _textTranslator) set?
  modified,     \* CADocument::_modified
  fileName,     \* CADocument::_fileName
  mainWinDoc,   \* CAMainWin::_document; NoDoc also for a window not open
  undoStack,    \* CAUndo::_undoStack: the stack a document belongs to
  commands,     \* the commands of a stack, oldest first
  undoIndex,    \* CAUndo::_undoIndex + 1: how many commands are done
  undoCommand,  \* CAUndo::_undoCommand, created and not yet pushed
  disk          \* the files, and which object each was written from

docVars == <<live, score, dedication, modified, fileName>>
undoVars == <<undoStack, commands, undoIndex, undoCommand>>
vars == <<docVars, mainWinDoc, undoVars, disk>>

TypeOK ==
  /\ live \subseteq Docs
  /\ score \in [Docs -> Scores]
  /\ dedication \in [Docs -> BOOLEAN]
  /\ modified \in [Docs -> BOOLEAN]
  /\ fileName \in [Docs -> Names \cup {NoName}]
  /\ mainWinDoc \in [Windows -> Docs \cup {NoDoc}]
  /\ undoStack \in [Docs -> Stacks \cup {NoStack}]
  /\ commands \in [Stacks -> Seq(Command)]
  /\ undoIndex \in [Stacks -> Nat]
  /\ undoCommand \in Command \cup {NoCommand}
  /\ disk \in [Names -> File \cup {NoFile}]

-----------------------------------------------------------------------------
(* Destroying documents and commands.                                      *)

Shown == {mainWinDoc[w] : w \in Windows} \ {NoDoc}

\* mainWinCount(document()) == 1
OnlyWindow(w) ==
  /\ mainWinDoc[w] # NoDoc
  /\ \A v \in Windows \ {w} : mainWinDoc[v] # mainWinDoc[w]

\* list.indexOf(c) == list.count() - 1; a command that is not on an empty
\* list has index -1 = count - 1
IsLastOn(c, list) == IF c \in Range(list) THEN c = Last(list) ELSE list = << >>

\* A slip: the destructor does not ask whether a window shows the document.
FreedEvenIfShown(c, stk, list) ==
  {c.undo} \cup (IF stk # NoStack /\ IsLastOn(c, list) THEN {c.redo} ELSE {})

\* The documents that ~CAUndoCommand deletes, when redoDoc's stack is stk
\* and holds list.
FreedByCommand(c, stk, list) ==
  ({c.undo} \cup (IF stk # NoStack /\ IsLastOn(c, list) THEN {c.redo} ELSE {}))
    \ Shown

FreedByClear ==
  IF undoCommand = NoCommand THEN {}
  ELSE LET stk == undoStack[undoCommand.redo]
       IN FreedByCommand(undoCommand, stk,
                         IF stk = NoStack THEN << >> ELSE commands[stk])

\* deleteUndoStack destroys the first command of what is left, each time
FreedByDeleteStack(s) ==
  UNION {LET c == commands[s][i]
         IN FreedByCommand(c, undoStack[c.redo],
                           SubSeq(commands[s], i, Len(commands[s])))
         : i \in DOMAIN commands[s]}

\* pushUndoCommand removes the redo document of an undone command from
\* _undoStack before it destroys the command
FreedByDiscard(s) ==
  UNION {FreedByCommand(commands[s][i], NoStack, << >>)
         : i \in undoIndex[s] + 1 .. Len(commands[s])}

-----------------------------------------------------------------------------
(* Creating and pushing commands.                                          *)

\* CADocument::clone: the object u becomes a copy of d.  The new document is
\* unmodified, and its translator and dedication are left empty.
Cloned(u, d) ==
  [score      |-> [score EXCEPT ![u] = score[d]],
   dedication |-> [dedication EXCEPT ![u] = FALSE],
   modified   |-> [modified EXCEPT ![u] = FALSE],
   fileName   |-> [fileName EXCEPT ![u] = fileName[d]]]

\* The documents there are room for once createUndoCommand has deleted the
\* command created before it.
CanClone == Docs \ (live \ FreedByClear)

\* Slips: no relinking at all; relinking to null; relinking the wrong end.
NotRelinked(s, u) == SubSeq(commands[s], 1, undoIndex[s])

RelinkedToNull(s, u) ==
  [i \in 1 .. undoIndex[s] |->
     IF i = undoIndex[s] THEN [commands[s][i] EXCEPT !.redo = NoDoc]
                         ELSE commands[s][i]]

RelinkedUndo(s, u) ==
  [i \in 1 .. undoIndex[s] |->
     IF i = undoIndex[s] THEN [commands[s][i] EXCEPT !.undo = u]
                         ELSE commands[s][i]]

\* The done commands of s, the last of them relinked to the new clone u.
Relinked(s, u) ==
  [i \in 1 .. undoIndex[s] |->
     IF i = undoIndex[s] THEN [commands[s][i] EXCEPT !.redo = u]
                         ELSE commands[s][i]]

\* A slip: the undone commands stay on the stack.
AppendedOnly(s, c) == Append(commands[s], c)

CommandsAfterPush(s, c) == Append(Relinked(s, c.undo), c)

\* The documents whose entry in _undoStack a push removes.
DiscardedRedo(s) ==
  {commands[s][i].redo : i \in undoIndex[s] + 1 .. Len(commands[s])}

\* A slip: the clone is not entered.
CloneNotEntered(s, c) ==
  [d \in Docs |-> IF d \in DiscardedRedo(s) THEN NoStack ELSE undoStack[d]]

\* _undoStack loses the redo documents of the discarded commands and gains
\* the clone of the new one.
UndoStackAfterPush(s, c) ==
  [d \in Docs |-> IF d = c.undo THEN s
                  ELSE IF d \in DiscardedRedo(s) THEN NoStack
                  ELSE undoStack[d]]

\* A slip: only the clone is marked.
OnlyCloneModified(c, m) == [m EXCEPT ![c.undo] = TRUE]

ModifiedAfterPush(c, m) == [m EXCEPT ![c.undo] = TRUE, ![c.redo] = TRUE]

\* The commands of s that were undone go, c comes last, and no command is
\* waiting; the documents freed by the former are not in live.
Push(s, c, m) ==
  /\ undoIndex[s] < MaxCommands
  /\ modified' = ModifiedAfterPush(c, m)
  /\ undoStack' = UndoStackAfterPush(s, c)
  /\ commands' = [commands EXCEPT ![s] = CommandsAfterPush(s, c)]
  /\ undoIndex' = [undoIndex EXCEPT ![s] = Len(CommandsAfterPush(s, c))]
  /\ undoCommand' = NoCommand

\* A handler that changes the document of window w: it creates a command,
\* changes the shown document in place to sc and dd, and pushes.
Edit(w, u, sc, dd) ==
  LET d == mainWinDoc[w]
      s == undoStack[d]
      cl == Cloned(u, d)
  IN /\ d # NoDoc
     /\ u \in CanClone
     /\ live' = ((live \ FreedByClear) \ FreedByDiscard(s)) \cup {u}
     /\ score' = [cl.score EXCEPT ![d] = sc]
     /\ dedication' = [cl.dedication EXCEPT ![d] = dd]
     /\ fileName' = cl.fileName
     /\ Push(s, [undo |-> u, redo |-> d], cl.modified)
     /\ UNCHANGED <<mainWinDoc, disk>>

\* A handler that creates a command and then finds nothing to change: the
\* command is left where it is.
AbandonEdit(w, u) ==
  LET d == mainWinDoc[w]
      cl == Cloned(u, d)
  IN /\ d # NoDoc
     /\ u \in CanClone
     /\ live' = (live \ FreedByClear) \cup {u}
     /\ score' = cl.score
     /\ dedication' = cl.dedication
     /\ modified' = cl.modified
     /\ fileName' = cl.fileName
     /\ undoCommand' = [undo |-> u, redo |-> d]
     /\ UNCHANGED <<mainWinDoc, undoStack, commands, undoIndex, disk>>

-----------------------------------------------------------------------------
(* Undo and redo.                                                          *)

CanUndo(d) == undoStack[d] # NoStack /\ undoIndex[undoStack[d]] > 0

CanRedo(d) ==
  /\ undoStack[d] # NoStack
  /\ undoIndex[undoStack[d]] < Len(commands[undoStack[d]])

\* A slip: only the first window that is found is switched.
SwitchOneWindow(old, new) ==
  [mainWinDoc EXCEPT ![CHOOSE w \in Windows : mainWinDoc[w] = old] = new]

\* CAUndoCommand::undoDocument: every window that shows old shows new.
SwitchWindows(old, new) ==
  [w \in Windows |-> IF mainWinDoc[w] = old THEN new ELSE mainWinDoc[w]]

\* A slip: the file name stays with the version.
FileNameKept(new, old) == fileName

\* The file name is handed over to the version that will be shown.
FileNameTo(new, old) == [fileName EXCEPT ![new] = fileName[old]]

\* on_uiUndo_toggled calls this row + 1 times.
UndoOne(w) ==
  LET d == mainWinDoc[w]
      s == undoStack[d]
      c == commands[s][undoIndex[s]]
  IN /\ d # NoDoc
     /\ CanUndo(d)
     /\ fileName' = FileNameTo(c.undo, c.redo)
     /\ mainWinDoc' = SwitchWindows(c.redo, c.undo)
     /\ undoIndex' = [undoIndex EXCEPT ![s] = @ - 1]
     /\ UNCHANGED <<live, score, dedication, modified, undoStack, commands,
                    undoCommand, disk>>

RedoOne(w) ==
  LET d == mainWinDoc[w]
      s == undoStack[d]
      c == commands[s][undoIndex[s] + 1]
  IN /\ d # NoDoc
     /\ CanRedo(d)
     /\ fileName' = FileNameTo(c.redo, c.undo)
     /\ mainWinDoc' = SwitchWindows(c.undo, c.redo)
     /\ undoIndex' = [undoIndex EXCEPT ![s] = @ + 1]
     /\ UNCHANGED <<live, score, dedication, modified, undoStack, commands,
                    undoCommand, disk>>

-----------------------------------------------------------------------------
(* Documents and windows.                                                  *)

\* What the last window of a document deletes when it leaves it: the created
\* command, the stack with its commands, and then the document.
FreedByLeaving(w) ==
  IF OnlyWindow(w)
  THEN FreedByClear \cup FreedByDeleteStack(undoStack[mainWinDoc[w]])
         \cup {mainWinDoc[w]}
  ELSE {}

UndoStackAfterLeaving(w) ==
  [d \in Docs |->
     IF OnlyWindow(w) /\ undoStack[d] = undoStack[mainWinDoc[w]]
     THEN NoStack ELSE undoStack[d]]

CommandsAfterLeaving(w) ==
  IF OnlyWindow(w) THEN [commands EXCEPT ![undoStack[mainWinDoc[w]]] = << >>]
                   ELSE commands

CommandAfterLeaving(w) == IF OnlyWindow(w) THEN NoCommand ELSE undoCommand

\* Window w leaves its document and shows d, new on the heap, with an empty
\* stack s: newDocument and openDocument.  A modified document that is left
\* may be saved first (Save) or discarded, as handleUnsavedChanges asks.
Show(w, d, s, sc, dd, f) ==
  /\ d \in Docs \ (live \ FreedByLeaving(w))
  /\ s \in Stacks \ Range(UndoStackAfterLeaving(w))
  /\ live' = (live \ FreedByLeaving(w)) \cup {d}
  /\ score' = [score EXCEPT ![d] = sc]
  /\ dedication' = [dedication EXCEPT ![d] = dd]
  /\ modified' = [modified EXCEPT ![d] = FALSE]
  /\ fileName' = [fileName EXCEPT ![d] = f]
  /\ mainWinDoc' = [mainWinDoc EXCEPT ![w] = d]
  /\ undoStack' = [UndoStackAfterLeaving(w) EXCEPT ![d] = s]
  /\ commands' = [CommandsAfterLeaving(w) EXCEPT ![s] = << >>]
  /\ undoIndex' = [undoIndex EXCEPT ![s] = 0]
  /\ undoCommand' = CommandAfterLeaving(w)

NewDocument(w, d, s) ==
  /\ Show(w, d, s, Blank, FALSE, NoName)
  /\ UNCHANGED disk

\* The document read from a file; d is now the object that agrees with it.
OpenDocument(w, d, s, n) ==
  /\ disk[n] # NoFile
  /\ Show(w, d, s, disk[n].score, disk[n].dedication, n)
  /\ disk' = [disk EXCEPT ![n].writer = d]

NewWindow(v, w) ==
  /\ mainWinDoc[v] # NoDoc
  /\ mainWinDoc[w] = NoDoc
  /\ mainWinDoc' = [mainWinDoc EXCEPT ![w] = mainWinDoc[v]]
  /\ UNCHANGED <<docVars, undoVars, disk>>

\* on_uiCloseDocument_triggered, and ~CAMainWin for a window that is closed.
CloseDocument(w) ==
  /\ mainWinDoc[w] # NoDoc
  /\ live' = live \ FreedByLeaving(w)
  /\ mainWinDoc' = [mainWinDoc EXCEPT ![w] = NoDoc]
  /\ undoStack' = UndoStackAfterLeaving(w)
  /\ commands' = CommandsAfterLeaving(w)
  /\ undoCommand' = CommandAfterLeaving(w)
  /\ UNCHANGED <<score, dedication, modified, fileName, undoIndex, disk>>

\* saveDocument that succeeds: under the document's own name, or another one
\* with Save As.  One that fails changes nothing here.
Save(w, n) ==
  LET d == mainWinDoc[w]
  IN /\ d # NoDoc
     /\ disk' = [disk EXCEPT ![n] = [score |-> score[d],
                                     dedication |-> dedication[d],
                                     writer |-> d]]
     /\ fileName' = [fileName EXCEPT ![d] = n]
     /\ modified' = [modified EXCEPT ![d] = FALSE]
     /\ UNCHANGED <<live, score, dedication, mainWinDoc, undoVars>>

-----------------------------------------------------------------------------
Init ==
  /\ live = {}
  /\ score = [d \in Docs |-> Blank]
  /\ dedication = [d \in Docs |-> FALSE]
  /\ modified = [d \in Docs |-> FALSE]
  /\ fileName = [d \in Docs |-> NoName]
  /\ mainWinDoc = [w \in Windows |-> NoDoc]
  /\ undoStack = [d \in Docs |-> NoStack]
  /\ commands = [s \in Stacks |-> << >>]
  /\ undoIndex = [s \in Stacks |-> 0]
  /\ undoCommand = NoCommand
  /\ disk = [n \in Names |-> NoFile]

WindowNext(w) ==
  \/ \E u \in Docs : AbandonEdit(w, u)
  \/ \E u \in Docs, sc \in Scores, dd \in Dedications : Edit(w, u, sc, dd)
  \/ UndoOne(w)
  \/ RedoOne(w)
  \/ \E d \in Docs, s \in Stacks : NewDocument(w, d, s)
  \/ \E d \in Docs, s \in Stacks, n \in Names : OpenDocument(w, d, s, n)
  \/ \E v \in Windows : NewWindow(v, w)
  \/ CloseDocument(w)
  \/ \E n \in Names : Save(w, n)

Next == \E w \in Windows : WindowNext(w)

Spec == Init /\ [][Next]_vars

-----------------------------------------------------------------------------
(* Properties.                                                             *)

\* The documents that a window or a command refers to.
Referenced ==
  Shown \cup UNION {UNION {{c.undo, c.redo} : c \in Range(commands[s])} : s \in Stacks}
    \cup (IF undoCommand = NoCommand THEN {}
          ELSE {undoCommand.undo, undoCommand.redo})

\* The stacks that some document belongs to.
OpenStacks == Range(undoStack) \ {NoStack}

\* The stack holds one chain of versions: what a command redoes to is what
\* the next one undoes to (pushUndoCommand relinks them), and the window of
\* the stack shows the version between the done and the undone commands.
Chained ==
  \A s \in OpenStacks :
    /\ undoIndex[s] \in 0 .. Len(commands[s])
    /\ \A i \in 1 .. Len(commands[s]) - 1 :
         commands[s][i].redo = commands[s][i + 1].undo
    /\ commands[s] # << >> =>
         \A w \in Windows :
           mainWinDoc[w] # NoDoc /\ undoStack[mainWinDoc[w]] = s =>
             /\ undoIndex[s] > 0 => mainWinDoc[w] = commands[s][undoIndex[s]].redo
             /\ undoIndex[s] < Len(commands[s]) =>
                  mainWinDoc[w] = commands[s][undoIndex[s] + 1].undo

\* Two commands never keep the same older version, in one stack or in two,
\* and the newest version is none of them: destroying the commands of a
\* stack deletes no document twice and none of another stack
\* (~CAUndoCommand, deleteUndoStack).
VersionsDistinct ==
  \A s, t \in Stacks :
    \A i \in DOMAIN commands[s], j \in DOMAIN commands[t] :
      /\ commands[s][i].undo = commands[t][j].undo => s = t /\ i = j
      /\ commands[s][i].undo # Last(commands[t]).redo
      /\ Last(commands[s]).redo = Last(commands[t]).redo => s = t

\* Nothing that a window or a command points to has been deleted.
NoDangling ==
  /\ Shown \subseteq live
  /\ \A s \in Stacks : \A i \in DOMAIN commands[s] :
       {commands[s][i].undo, commands[s][i].redo} \subseteq live
  /\ undoCommand # NoCommand =>
       {undoCommand.undo, undoCommand.redo} \subseteq live

\* Every document that is shown or kept by a command finds its own stack in
\* _undoStack, so undo, push and the closing of the last window reach it.
StackFound ==
  /\ \A d \in Shown : undoStack[d] # NoStack
  /\ \A s \in Stacks : \A i \in DOMAIN commands[s] :
       undoStack[commands[s][i].undo] = s /\ undoStack[commands[s][i].redo] = s

\* Windows that share a stack show the same version, whichever of them
\* edited, undid or redid last; and no stack is left without a window.
WindowsAgree ==
  /\ \A v, w \in Windows :
       /\ mainWinDoc[v] # NoDoc /\ mainWinDoc[w] # NoDoc
       /\ undoStack[mainWinDoc[v]] = undoStack[mainWinDoc[w]]
       => mainWinDoc[v] = mainWinDoc[w]
  /\ \A d \in Docs : undoStack[d] # NoStack =>
       \E e \in Shown : undoStack[e] = undoStack[d]

\* What makes these five inductive: the documents in _undoStack are exactly
\* the live versions of a stack, and the waiting command's clone is in none.
Ownership ==
  /\ \A s \in Stacks : s \notin OpenStacks => commands[s] = << >>
  /\ \A d \in Docs : undoStack[d] # NoStack =>
       /\ d \in live
       /\ IF commands[undoStack[d]] = << >>
          THEN d \in Shown /\ \A e \in Docs : undoStack[e] = undoStack[d] => e = d
          ELSE \E i \in DOMAIN commands[undoStack[d]] :
                 d \in {commands[undoStack[d]][i].undo, commands[undoStack[d]][i].redo}
  /\ undoCommand # NoCommand =>
       /\ undoCommand.undo \in live
       /\ undoStack[undoCommand.undo] = NoStack
       /\ undoStack[undoCommand.redo] # NoStack

IInv ==
  /\ TypeOK /\ Chained /\ VersionsDistinct /\ NoDangling
  /\ StackFound /\ WindowsAgree /\ Ownership

\* A shown document that is not marked modified is what the file it is named
\* after holds, as long as that file was last written from this object.
CleanMeansSaved ==
  \A d \in Shown :
    ~modified[d] /\ fileName[d] # NoName =>
      LET f == disk[fileName[d]]
      IN f # NoFile /\ (f.writer = d =>
           f.score = score[d] /\ f.dedication = dedication[d])

\* The same of every version of the stack, shown or not: once an undo or a
\* redo shows it under the name the stack has now, it is either marked
\* modified or, if it wrote that file, what the file holds.
SavedMembers ==
  \A e \in Shown, d \in Docs :
    fileName[e] # NoName =>
      LET f == disk[fileName[e]]
      IN /\ f # NoFile
         /\ undoStack[d] = undoStack[e] /\ ~modified[d] /\ f.writer = d
              => f.score = score[d] /\ f.dedication = dedication[d]

\* What a step does to a window that comes to show another version of the
\* same stack: the file name is handed over.
HandsOverFileName ==
  \A w \in Windows :
    LET old == mainWinDoc[w]
        new == mainWinDoc'[w]
    IN (/\ NoDoc \notin {old, new} /\ old # new
        /\ old \in live' /\ undoStack'[old] = undoStack'[new])
         => fileName'[new] = fileName[old]

\* Undo and redo keep the file name of what the window shows: saving after
\* an undo writes to the same file (CAUndoCommand::undo, redo).
KeepsFileName == [][HandsOverFileName]_vars

\* A document that is not marked modified has no unsaved changes: closing it
\* unasked loses nothing (handleUnsavedChanges, CADocument::_modified).
UnmodifiedIsSaved ==
  \A d \in Shown :
    ~modified[d] /\ fileName[d] # NoName =>
      disk[fileName[d]].score = score[d]

\* The clone that a pushed command keeps for undo holds everything the
\* document held ("Clones this document", CADocument::clone).
CloneKeepsDedication ==
  [][\A s \in Stacks :
       Len(commands'[s]) > 0 /\ Last(commands'[s]).undo \in live' \ live =>
         dedication'[Last(commands'[s]).undo]
           = dedication[Last(commands'[s]).redo]]_vars

\* Every document object is shown or kept by a command: discarding undone
\* commands deletes their documents (~CAUndoCommand, "delete also
\* redoDocument, if the last on the stack").
NoLeak == live \subseteq Referenced


-----------------------------------------------------------------------------
(* The history that a stack stands for.                                    *)

\* The document a stack without commands belongs to, if any.
Members(s) == {d \in Shown : undoStack[d] = s}

\* The versions of stack s, oldest first.
Chain(s) ==
  IF commands[s] # << >>
  THEN [i \in 1 .. Len(commands[s]) + 1 |->
          IF i <= Len(commands[s]) THEN commands[s][i].undo
                                   ELSE Last(commands[s]).redo]
  ELSE IF Members(s) = {} THEN << >>
  ELSE << CHOOSE d \in Members(s) : TRUE >>

History(s) ==
  INSTANCE EditHistory
    WITH Version <- Scores,
         versions <- [i \in DOMAIN Chain(s) |-> score[Chain(s)[i]]],
         current <- IF Chain(s) = << >> THEN 0 ELSE undoIndex[s] + 1

\* With respect to the sheets, every stack implements the history of edits,
\* undos and redos its user expects, whatever the other windows do.
KeepsHistory ==
  /\ \A s \in Stacks : History(s)!Init
  /\ [][\A s \in Stacks : [History(s)!Next]_(History(s)!vars)]_vars

=============================================================================
