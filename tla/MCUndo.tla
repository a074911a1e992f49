------------------------------- MODULE MCUndo -------------------------------
(* Small instances of Undo for TLC.                                        *)
EXTENDS Undo

Symmetry == Permutations(Docs) \cup Permutations(Stacks)

\* The fields of a document that nothing refers to are never read again, because an object
\* is given all of them when it is allocated; so is the index of a stack.
View ==
  LET Seen(f) == [d \in Referenced \cap Docs |-> f[d]]
  IN <<live, Seen(score), Seen(dedication), Seen(modified), Seen(fileName),
       mainWinDoc, undoStack, commands, [s \in OpenStacks |-> undoIndex[s]],
       undoCommand, disk>>
=============================================================================
