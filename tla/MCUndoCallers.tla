---------------------------- MODULE MCUndoCallers ----------------------------
(* Small instances of UndoCallers for TLC.                                 *)
EXTENDS UndoCallers

Symmetry == Permutations(Docs) \cup Permutations(Stacks)

\* As in MCUndo: the fields of what nothing refers to are never read again.
View ==
  LET Seen(f) == [d \in Referenced \cap Docs |-> f[d]]
  IN <<live, Seen(score), Seen(dedication), Seen(modified), Seen(fileName),
       mainWinDoc, undoStack, commands, [s \in OpenStacks |-> undoIndex[s]],
       undoCommand, disk, crashed>>
=============================================================================
