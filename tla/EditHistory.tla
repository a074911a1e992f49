---------------------------- MODULE EditHistory ----------------------------
(***************************************************************************)
(* What undo and redo promise the user of one document: the versions that  *)
(* the edits made, in order, and the one on the screen.  An edit drops the *)
(* versions that were undone before it and adds one; undo and redo move    *)
(* along the versions and change none of them.  Saving is not an edit.     *)
(*                                                                         *)
(* core/undo.cpp:27-41 describes this protocol; module Undo is the code    *)
(* that keeps it with clones of CADocument.                                *)
(***************************************************************************)
EXTENDS Integers, Sequences

CONSTANT Version  \* what a version of a document holds

VARIABLES versions,  \* the versions that undo and redo can show
          current    \* the position in versions of the one on the screen

vars == <<versions, current>>

TypeOK ==
  /\ versions \in Seq(Version)
  /\ current \in 0 .. Len(versions)

Init == versions = << >> /\ current = 0

Open(v) == versions' = <<v>> /\ current' = 1

Close == versions' = << >> /\ current' = 0

Edit(v) ==
  /\ current > 0
  /\ versions' = Append(SubSeq(versions, 1, current), v)
  /\ current' = current + 1

Undo ==
  /\ current > 1
  /\ current' = current - 1
  /\ UNCHANGED versions

Redo ==
  /\ current \in 1 .. Len(versions) - 1
  /\ current' = current + 1
  /\ UNCHANGED versions

Next ==
  \/ Close \/ Undo \/ Redo
  \/ \E v \in Version : Open(v) \/ Edit(v)

Spec == Init /\ [][Next]_vars
=============================================================================
