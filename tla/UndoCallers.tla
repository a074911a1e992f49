----------------------------- MODULE UndoCallers -----------------------------
(***************************************************************************)
(* The handlers of the main window that do not follow the protocol of      *)
(* CAUndo (core/undo.cpp:32-44): pushes of a command that another handler  *)
(* created, changes without a command, and the commit of a CanorusML       *)
(* source view, which replaces the document object.                        *)
(*                                                                         *)
(* A use of a null or deleted object ends the behaviour: crashed is set.   *)
(***************************************************************************)
EXTENDS Undo

CONSTANTS
  CommitAfterUndo, \* may a source be committed while a redo is possible?
  PushLate         \* may a waiting command be pushed once its document is
                   \* no longer shown?

ASSUME CallersAssumption == {CommitAfterUndo, PushLate} \subseteq BOOLEAN

VARIABLE crashed

allVars == <<vars, crashed>>

\* pushUndoCommand for a command that is waiting, whoever created it: the
\* release of the mouse after a resize, or a tempo field left unchanged.  If
\* the push removes the command's own document from _undoStack, the lookup
\* after it dereferences null.
PushCreated ==
  LET c == undoCommand
      s == undoStack[c.redo]
  IN /\ ~crashed
     /\ c # NoCommand
     /\ PushLate \/ c.redo \in Shown
     /\ IF s = NoStack \/ c.redo \in DiscardedRedo(s)
        THEN crashed' = TRUE /\ UNCHANGED vars
        ELSE /\ live' = live \ (FreedByDiscard(s) \ {c.undo})
             /\ Push(s, c, modified)
             /\ UNCHANGED <<score, dedication, fileName, mainWinDoc, disk, crashed>>

\* Handlers that change the shown document and create no command: the beats
\* of a time signature, the text and the volume of a dynamic, a drag.
ChangeInPlace(w, sc) ==
  /\ ~crashed
  /\ mainWinDoc[w] # NoDoc
  /\ score' = [score EXCEPT ![mainWinDoc[w]] = sc]
  /\ UNCHANGED <<live, dedication, modified, fileName, mainWinDoc, undoVars,
                 disk, crashed>>

\* A slip: the command behind the shown version is relinked, not the one before.
ReplacedNext(s, old, new) ==
  LET i == undoIndex[s] + 1
  IN IF i > 0 /\ i <= Len(commands[s]) /\ commands[s][i].undo = old
     THEN [commands[s] EXCEPT ![i].undo = new]
     ELSE commands[s]

\* replaceDocument: only the command before the shown version is relinked.
Replaced(s, old, new) ==
  LET i == undoIndex[s]
  IN IF i > 0 /\ i <= Len(commands[s]) /\ commands[s][i].redo = old
     THEN [commands[s] EXCEPT ![i].redo = new]
     ELSE commands[s]

\* sourceViewCommit of a source that can be read: window w shows the parsed
\* document n.  The command created for it is deleted by replaceDocument, the
\* push finds nothing, and the old document is deleted.
SourceCommit(w, n, sc) ==
  LET old == mainWinDoc[w]
      s == undoStack[old]
  IN /\ ~crashed
     /\ old # NoDoc
     /\ n \in CanClone
     /\ CommitAfterUndo \/ undoIndex[s] = Len(commands[s])
     /\ live' = ((live \ FreedByClear) \cup {n}) \ {old}
     /\ score' = [score EXCEPT ![n] = sc]
     /\ dedication' = [dedication EXCEPT ![n] = FALSE]
     /\ modified' = [modified EXCEPT ![n] = FALSE]
     /\ fileName' = [fileName EXCEPT ![n] = NoName]
     /\ mainWinDoc' = [mainWinDoc EXCEPT ![w] = n]
     /\ undoStack' = [undoStack EXCEPT ![old] = NoStack, ![n] = s]
     /\ commands' = [commands EXCEPT ![s] = Replaced(s, old, n)]
     /\ undoCommand' = NoCommand
     /\ UNCHANGED <<undoIndex, disk, crashed>>

\* The same for a text without a document element: the command is pushed,
\* and then the document that is still shown is deleted.
SourceCommitInvalid(w, u) ==
  LET d == mainWinDoc[w]
      s == undoStack[d]
      cl == Cloned(u, d)
  IN /\ ~crashed
     /\ d # NoDoc
     /\ u \in CanClone
     /\ live' = (((live \ FreedByClear) \ FreedByDiscard(s)) \cup {u}) \ {d}
     /\ score' = cl.score
     /\ dedication' = cl.dedication
     /\ fileName' = cl.fileName
     /\ Push(s, [undo |-> u, redo |-> d], cl.modified)
     /\ crashed' = TRUE
     /\ UNCHANGED <<mainWinDoc, disk>>

\* A handler of Undo.  It is not modelled what one does that meets a deleted
\* document: RunningSound fails in the state before.
Protocol == ~crashed /\ Next /\ UNCHANGED crashed

CallersInit == Init /\ crashed = FALSE

CallersNext ==
  \/ Protocol
  \/ PushCreated
  \/ \E w \in Windows, sc \in Scores : ChangeInPlace(w, sc)
  \/ \E w \in Windows, n \in Docs, sc \in Scores : SourceCommit(w, n, sc)
  \/ \E w \in Windows, u \in Docs : SourceCommitInvalid(w, u)

CallersSpec == CallersInit /\ [][CallersNext]_allVars

-----------------------------------------------------------------------------
(* Properties.                                                             *)

\* Unless it has crashed, the program keeps every stack one chain that the
\* shown version is part of, no two commands keep the same version, and nothing
\* a window or a command refers to is deleted, even when changes are not
\* recorded, commands of other handlers are pushed and sources are committed,
\* which leaves no reference to the document that is replaced
\* (core/undo.cpp:205-206, "the old document should be forgotten").
RunningSound == crashed \/ (Chained /\ VersionsDistinct /\ NoDangling)

\* A source that cannot be read leaves the window its document.
ShowsLiveDocument == Shown \subseteq live

\* A committed source can be undone: sourceViewCommit creates a command for
\* it and pushes it.
CommitIsUndoable ==
  [][\A w \in Windows, n \in Docs, sc \in Scores :
       SourceCommit(w, n, sc) => CanUndo(n)']_allVars

=============================================================================
