----------------------------- MODULE UndoProofs -----------------------------
(***************************************************************************)
(* Proofs about Undo, for any number of documents, stacks and windows, and *)
(* at the end about UndoCallers: the handlers that do not follow the       *)
(* protocol keep the invariant of Undo in a program with one window, as    *)
(* long as it does not crash.                                              *)
(***************************************************************************)
EXTENDS UndoCallers, SequenceTheorems, TLAPS

\* A function on 1 .. n is a sequence of length n.
LEMMA FunctionIsSeq ==
  ASSUME NEW S, NEW n \in Nat, NEW f \in [1 .. n -> S]
  PROVE  f \in Seq(S) /\ Len(f) = n
<1>1. f \in Seq(S)
  BY SeqDef
<1>2. DOMAIN f = 1 .. n
  OBVIOUS
<1>3. Len(f) \in Nat /\ DOMAIN f = 1 .. Len(f)
  BY <1>1, LenProperties
<1>4. Len(f) = n
  BY <1>2, <1>3
<1>5. QED
  BY <1>1, <1>4

\* The stack after a push: the done commands keep their older versions and
\* their links, but the last one, which is linked to the new clone; the new
\* command comes last.
LEMMA PushShape ==
  ASSUME NEW s \in Stacks, NEW c \in Command,
         commands[s] \in Seq(Command),
         undoIndex[s] \in 0 .. Len(commands[s])
  PROVE  LET old == commands[s]
             new == CommandsAfterPush(s, c)
             k == undoIndex[s]
         IN /\ new \in Seq(Command)
            /\ Len(new) = k + 1
            /\ \A i \in 1 .. k : new[i].undo = old[i].undo
            /\ \A i \in 1 .. k : i # k => new[i].redo = old[i].redo
            /\ k > 0 => new[k].redo = c.undo
            /\ new[k + 1] = c
<1> DEFINE old == commands[s]
           k == undoIndex[s]
           rel == Relinked(s, c.undo)
<1>1. k \in Nat /\ k <= Len(old) /\ c.undo \in Docs
  BY LenProperties DEF Command
<1>2. ASSUME NEW i \in 1 .. k
      PROVE  old[i] \in Command
  BY <1>1, <1>2, ElementOfSeq, LenProperties
<1>3. ASSUME NEW i \in 1 .. k
      PROVE  /\ rel[i] \in Command
             /\ rel[i].undo = old[i].undo
             /\ rel[i].redo = IF i = k THEN c.undo ELSE old[i].redo
  BY <1>1, <1>2 DEF Relinked, Command
<1>4. rel \in [1 .. k -> Command]
  BY <1>3 DEF Relinked
<1>5. rel \in Seq(Command) /\ Len(rel) = k
  BY <1>1, <1>4, FunctionIsSeq
<1> HIDE DEF rel, k, old
<1>6. /\ Append(rel, c) \in Seq(Command)
      /\ Len(Append(rel, c)) = k + 1
      /\ Append(rel, c)[k + 1] = c
      /\ \A i \in 1 .. k : Append(rel, c)[i] = rel[i]
  BY <1>1, <1>5
<1>7. QED
  BY <1>1, <1>3, <1>6 DEF CommandsAfterPush, old, k, rel

-----------------------------------------------------------------------------
(* What the invariant says of one document, one stack, one command.        *)

\* The stack of a document that has one.
LEMMA StackOf ==
  ASSUME IInv, NEW d \in Docs, undoStack[d] # NoStack
  PROVE  /\ undoStack[d] \in Stacks
         /\ undoStack[d] \in OpenStacks
         /\ d \in live
         /\ commands[undoStack[d]] \in Seq(Command)
         /\ Len(commands[undoStack[d]]) \in Nat
         /\ undoIndex[undoStack[d]] \in 0 .. Len(commands[undoStack[d]])
BY LenProperties DEF IInv, TypeOK, Ownership, Chained, OpenStacks, Range

\* A command of a stack: both its documents belong to the stack.
LEMMA CommandOf ==
  ASSUME IInv, NEW s \in Stacks, NEW i \in 1 .. Len(commands[s])
  PROVE  /\ commands[s][i] \in Command
         /\ commands[s][i].undo \in Docs /\ undoStack[commands[s][i].undo] = s
         /\ commands[s][i].redo \in Docs /\ undoStack[commands[s][i].redo] = s
         /\ s \in OpenStacks
<1>1. commands[s] \in Seq(Command) /\ DOMAIN commands[s] = 1 .. Len(commands[s])
  BY LenProperties DEF IInv, TypeOK
<1>2. commands[s][i] \in Command
  BY <1>1, ElementOfSeq
<1>3. undoStack[commands[s][i].undo] = s /\ undoStack[commands[s][i].redo] = s
  BY <1>1 DEF IInv, StackFound
<1>4. commands[s][i].undo \in Docs /\ commands[s][i].redo \in Docs
  BY <1>2 DEF Command
<1>5. undoStack \in [Docs -> Stacks \cup {NoStack}] /\ s # NoStack
  BY NullAssumption DEF IInv, TypeOK
<1>6. s \in OpenStacks
  BY <1>3, <1>4, <1>5 DEF OpenStacks, Range
<1>7. QED
  BY <1>2, <1>3, <1>4, <1>6

\* The versions of a stack are linked and pairwise different.
LEMMA ChainOf ==
  ASSUME IInv, NEW s \in Stacks
  PROVE  LET cs == commands[s]
             n == Len(commands[s])
         IN /\ \A i \in 1 .. n : i < n => cs[i].redo = cs[i + 1].undo
            /\ \A i, j \in 1 .. n : cs[i].undo = cs[j].undo => i = j
            /\ \A i \in 1 .. n : cs[i].undo # cs[n].redo
            /\ \A i, j \in 1 .. n : cs[i].undo = cs[j].redo => i = j + 1
<1> DEFINE cs == commands[s]
           n == Len(commands[s])
<1>1. cs \in Seq(Command) /\ n \in Nat /\ DOMAIN cs = 1 .. n
  BY LenProperties DEF IInv, TypeOK
<1>2. ASSUME NEW i \in 1 .. n, i < n
      PROVE  cs[i].redo = cs[i + 1].undo
  BY <1>1, <1>2, CommandOf DEF IInv, Chained
<1>3. ASSUME NEW i \in 1 .. n, NEW j \in 1 .. n, cs[i].undo = cs[j].undo
      PROVE  i = j
  BY <1>1, <1>3 DEF IInv, VersionsDistinct
<1>4. ASSUME NEW i \in 1 .. n
      PROVE  cs[i].undo # cs[n].redo
  BY <1>1, <1>4 DEF IInv, VersionsDistinct, Last
<1>5. ASSUME NEW i \in 1 .. n, NEW j \in 1 .. n, cs[i].undo = cs[j].redo
      PROVE  i = j + 1
  <2>1. CASE j = n
    BY <1>4, <1>5, <2>1
  <2>2. CASE j # n
    <3>1. j < n /\ j + 1 \in 1 .. n
      BY <1>1, <2>2
    <3>2. cs[i].undo = cs[j + 1].undo
      BY <1>2, <1>5, <3>1
    <3>3. QED
      BY <1>3, <3>1, <3>2
  <2>3. QED
    BY <2>1, <2>2
<1>6. QED
  BY <1>2, <1>3, <1>4, <1>5

\* A shown document is the version between the done and the undone commands.
LEMMA ShownAt ==
  ASSUME IInv, NEW d \in Shown
  PROVE  LET s == undoStack[d]
         IN /\ d \in Docs /\ d \in live
            /\ s \in Stacks
            /\ undoIndex[s] > 0 => commands[s][undoIndex[s]].redo = d
            /\ undoIndex[s] < Len(commands[s]) =>
                 commands[s][undoIndex[s] + 1].undo = d
<1> DEFINE s == undoStack[d]
<1>1. PICK w \in Windows : mainWinDoc[w] = d /\ d # NoDoc
  BY DEF Shown
<1>2. d \in Docs
  BY <1>1 DEF IInv, TypeOK
<1>3. s # NoStack
  BY DEF IInv, StackFound
<1>4. /\ s \in Stacks /\ s \in OpenStacks /\ d \in live
      /\ commands[s] \in Seq(Command)
      /\ Len(commands[s]) \in Nat
      /\ undoIndex[s] \in 0 .. Len(commands[s])
  BY <1>2, <1>3, StackOf
<1>5. commands[s] # << >> =>
        /\ undoIndex[s] > 0 => d = commands[s][undoIndex[s]].redo
        /\ undoIndex[s] < Len(commands[s]) => d = commands[s][undoIndex[s] + 1].undo
  BY <1>1, <1>4 DEF IInv, Chained
<1>6. commands[s] = << >> => Len(commands[s]) = 0
  BY EmptySeq
<1>7. QED
  BY <1>2, <1>4, <1>5, <1>6

\* A document with a stack is one of the versions of the stack.
LEMMA MemberAt ==
  ASSUME IInv, NEW d \in Docs, undoStack[d] # NoStack
  PROVE  LET s == undoStack[d]
             n == Len(commands[s])
         IN /\ n = 0 => d \in Shown
            /\ n > 0 => \E i \in 1 .. n : d = commands[s][i].undo \/ d = commands[s][i].redo
            /\ \E e \in Shown : undoStack[e] = s
<1> DEFINE s == undoStack[d]
<1>1. s \in Stacks /\ commands[s] \in Seq(Command) /\ Len(commands[s]) \in Nat
  BY StackOf
<1>2. /\ DOMAIN commands[s] = 1 .. Len(commands[s])
      /\ commands[s] = << >> <=> Len(commands[s]) = 0
  BY <1>1, LenProperties, EmptySeq
<1>3. \E e \in Shown : undoStack[e] = s
  BY DEF IInv, WindowsAgree
<1>4. QED
  BY <1>2, <1>3 DEF IInv, Ownership

\* Windows of one stack show one document.
LEMMA ShownOnce ==
  ASSUME IInv, NEW d \in Shown, NEW e \in Shown, undoStack[d] = undoStack[e]
  PROVE  d = e
BY DEF IInv, WindowsAgree, Shown

\* Deleting the waiting command deletes at most its own clone.
LEMMA ClearFrees ==
  ASSUME IInv, NEW e \in FreedByClear
  PROVE  /\ undoCommand # NoCommand
         /\ e = undoCommand.undo
         /\ e \in Docs
         /\ undoStack[e] = NoStack
<1> DEFINE c == undoCommand
           s == undoStack[c.redo]
<1>1. /\ c # NoCommand /\ c \in Command /\ c.undo \in Docs /\ c.redo \in Docs
      /\ undoStack[c.undo] = NoStack /\ s # NoStack
  BY DEF FreedByClear, IInv, TypeOK, Ownership, Command
<1>2. s \in Stacks /\ commands[s] \in Seq(Command) /\ Len(commands[s]) \in Nat
  BY <1>1, StackOf
<1>3. c \notin Range(commands[s])
  <2>1. DOMAIN commands[s] = 1 .. Len(commands[s])
    BY <1>2, LenProperties
  <2>2. \A i \in 1 .. Len(commands[s]) : undoStack[commands[s][i].undo] = s
    BY <1>2, CommandOf
  <2>3. QED
    BY <1>1, <2>1, <2>2 DEF Range
<1>4. commands[s] = << >> => c.redo \in Shown
  BY <1>1, MemberAt, EmptySeq
<1>5. e = c.undo
  BY <1>1, <1>3, <1>4 DEF FreedByClear, FreedByCommand, IsLastOn
<1>6. QED
  BY <1>1, <1>5

\* The address of a new clone belongs to no stack and is not shown.
LEMMA CloneIsNew ==
  ASSUME IInv, NEW u \in CanClone
  PROVE  u \in Docs /\ undoStack[u] = NoStack /\ u \notin Shown
<1>1. u \in Docs
  BY DEF CanClone
<1>2. undoStack[u] = NoStack
  BY <1>1, ClearFrees, StackOf DEF CanClone
<1>3. u \notin Shown
  BY <1>2 DEF IInv, StackFound
<1>4. QED
  BY <1>1, <1>2, <1>3

-----------------------------------------------------------------------------
(* The steps.                                                              *)

LEMMA InitInvariant == Init => IInv
<1> SUFFICES ASSUME Init PROVE IInv
  OBVIOUS
<1>1. Shown = {} /\ OpenStacks = {}
  BY DEF Init, Shown, OpenStacks, Range
<1>2. TypeOK
  BY NullAssumption, EmptySeq DEF Init, TypeOK
<1>3. \A s \in Stacks : commands[s] = << >> /\ DOMAIN commands[s] = {}
  BY DEF Init
<1>4. Chained /\ VersionsDistinct /\ NoDangling /\ StackFound /\ WindowsAgree /\ Ownership
  BY <1>1, <1>3 DEF Init, Chained, VersionsDistinct, NoDangling, StackFound,
                    WindowsAgree, Ownership
<1>5. QED
  BY <1>2, <1>4 DEF IInv

\* Moving along the versions of a stack: every window that shows old shows
\* new, the next version on either side.
LEMMA MoveInvariant ==
  ASSUME IInv,
         NEW old \in Shown, NEW new \in Docs, NEW k \in Nat,
         undoStack[new] = undoStack[old],
         k \in 0 .. Len(commands[undoStack[old]]),
         k > 0 => commands[undoStack[old]][k].redo = new,
         k < Len(commands[undoStack[old]]) => commands[undoStack[old]][k + 1].undo = new,
         Len(commands[undoStack[old]]) > 0,
         fileName' \in [Docs -> Names \cup {NoName}],
         mainWinDoc' = SwitchWindows(old, new),
         undoIndex' = [undoIndex EXCEPT ![undoStack[old]] = k],
         UNCHANGED <<live, score, dedication, modified, undoStack, commands,
                     undoCommand, disk>>
  PROVE  IInv'
<1> DEFINE s == undoStack[old]
<1>1. s \in Stacks /\ old \in Docs
  BY ShownAt
<1>2. undoIndex'[s] = k /\ \A t \in Stacks \ {s} : undoIndex'[t] = undoIndex[t]
  BY <1>1 DEF IInv, TypeOK
<1>3. \A w \in Windows : mainWinDoc'[w] = IF mainWinDoc[w] = old THEN new ELSE mainWinDoc[w]
  BY DEF SwitchWindows
<1>4. new # NoDoc /\ old # NoDoc
  BY <1>1, NullAssumption
<1>5. Shown' = (Shown \ {old}) \cup {new}
  BY <1>3, <1>4 DEF Shown
<1>6. OpenStacks' = OpenStacks
  BY DEF OpenStacks
<1>7. TypeOK'
  BY <1>1, NullAssumption DEF IInv, TypeOK, SwitchWindows
<1>8. \A d \in Shown' : d # new => d \in Shown /\ undoStack[d] # s
  BY <1>5, ShownOnce
<1>9. Chained'
  <2> SUFFICES ASSUME NEW t \in OpenStacks
               PROVE  /\ undoIndex'[t] \in 0 .. Len(commands[t])
                      /\ \A i \in 1 .. Len(commands[t]) - 1 :
                           commands[t][i].redo = commands[t][i + 1].undo
                      /\ commands[t] # << >> =>
                           \A w \in Windows :
                             mainWinDoc'[w] # NoDoc /\ undoStack[mainWinDoc'[w]] = t =>
                               /\ undoIndex'[t] > 0 => mainWinDoc'[w] = commands[t][undoIndex'[t]].redo
                               /\ undoIndex'[t] < Len(commands[t]) =>
                                    mainWinDoc'[w] = commands[t][undoIndex'[t] + 1].undo
    BY <1>6 DEF Chained
  <2>1. t \in Stacks
    BY DEF OpenStacks, Range, IInv, TypeOK
  <2>2. undoIndex'[t] \in 0 .. Len(commands[t])
    BY <1>2, <2>1 DEF IInv, Chained
  <2>3. ASSUME NEW w \in Windows, mainWinDoc'[w] # NoDoc, undoStack[mainWinDoc'[w]] = t
        PROVE  /\ undoIndex'[t] > 0 => mainWinDoc'[w] = commands[t][undoIndex'[t]].redo
               /\ undoIndex'[t] < Len(commands[t]) =>
                    mainWinDoc'[w] = commands[t][undoIndex'[t] + 1].undo
    <3>1. CASE mainWinDoc'[w] = new
      BY <1>2, <2>3, <3>1
    <3>2. CASE mainWinDoc'[w] # new
      <4>1. mainWinDoc'[w] \in Shown'
        BY <2>3 DEF Shown
      <4>2. mainWinDoc'[w] \in Shown /\ t # s
        BY <1>8, <2>3, <3>2, <4>1
      <4>3. undoIndex'[t] = undoIndex[t]
        BY <1>2, <2>1, <4>2
      <4>4. QED
        BY <2>3, <4>2, <4>3, ShownAt
    <3>3. QED
      BY <3>1, <3>2
  <2>4. QED
    BY <2>2, <2>3 DEF IInv, Chained
<1>10. VersionsDistinct' /\ StackFound'
  BY <1>4, <1>5 DEF IInv, VersionsDistinct, StackFound
<1>11. NoDangling'
  <2>1. new \in live
    BY StackOf, NullAssumption, <1>1
  <2>2. QED
    BY <1>5, <2>1 DEF IInv, NoDangling
<1>12. WindowsAgree'
  <2>1. \A d, e \in Shown' : undoStack[d] = undoStack[e] => d = e
    BY <1>5, <1>8, ShownOnce
  <2>2. ASSUME NEW d \in Docs, undoStack[d] # NoStack
        PROVE  \E e \in Shown' : undoStack[e] = undoStack[d]
    BY <1>5, <2>2, MemberAt
  <2>3. ASSUME NEW v \in Windows, NEW w \in Windows,
               mainWinDoc'[v] # NoDoc, mainWinDoc'[w] # NoDoc,
               undoStack[mainWinDoc'[v]] = undoStack[mainWinDoc'[w]]
        PROVE  mainWinDoc'[v] = mainWinDoc'[w]
    BY <2>1, <2>3 DEF Shown
  <2>4. QED
    BY <2>2, <2>3 DEF WindowsAgree
<1>13. Ownership'
  <2>1. ASSUME NEW d \in Docs, undoStack[d] # NoStack, commands[undoStack[d]] = << >>
        PROVE  d \in Shown'
    <3>1. d \in Shown
      BY <2>1 DEF IInv, Ownership
    <3>2. d # old
      BY <2>1, EmptySeq
    <3>3. QED
      BY <1>5, <3>1, <3>2
  <2>2. QED
    BY <1>6, <2>1 DEF IInv, Ownership
<1>14. QED
  BY <1>7, <1>9, <1>10, <1>11, <1>12, <1>13 DEF IInv

LEMMA UndoInvariant ==
  ASSUME IInv, NEW w \in Windows, UndoOne(w)
  PROVE  IInv'
<1> DEFINE d == mainWinDoc[w]
           s == undoStack[d]
           k == undoIndex[s]
           c == commands[s][k]
<1>1. d \in Shown /\ k > 0
  BY DEF UndoOne, CanUndo, Shown
<1>2. d \in Docs /\ s \in Stacks /\ k \in 0 .. Len(commands[s]) /\ Len(commands[s]) \in Nat
      /\ c.redo = d
  BY <1>1, ShownAt, StackOf DEF IInv, StackFound
<1>3. k \in 1 .. Len(commands[s]) /\ k - 1 \in Nat
  BY <1>1, <1>2
<1>4. c.undo \in Docs /\ undoStack[c.undo] = s
  BY <1>2, <1>3, CommandOf
<1>5. /\ k - 1 > 0 => commands[s][k - 1].redo = c.undo
      /\ commands[s][(k - 1) + 1].undo = c.undo
      /\ k - 1 \in 0 .. Len(commands[s]) /\ Len(commands[s]) > 0
  <2>1. (k - 1) + 1 = k
    BY <1>3
  <2>2. k - 1 > 0 => k - 1 \in 1 .. Len(commands[s]) /\ k - 1 < Len(commands[s])
    BY <1>2, <1>3
  <2>3. k - 1 > 0 => commands[s][k - 1].redo = commands[s][(k - 1) + 1].undo
    BY <1>2, <2>2, ChainOf
  <2>4. QED
    BY <1>2, <1>3, <2>1, <2>3
<1>6. fileName' \in [Docs -> Names \cup {NoName}]
  BY <1>2, <1>4 DEF UndoOne, FileNameTo, IInv, TypeOK
<1>7. /\ mainWinDoc' = SwitchWindows(d, c.undo)
      /\ undoIndex' = [undoIndex EXCEPT ![s] = k - 1]
      /\ UNCHANGED <<live, score, dedication, modified, undoStack, commands,
                     undoCommand, disk>>
  BY <1>2 DEF UndoOne
<1> HIDE DEF d, k, c
<1>8. QED
  BY <1>1, <1>2, <1>3, <1>4, <1>5, <1>6, <1>7, MoveInvariant

LEMMA RedoInvariant ==
  ASSUME IInv, NEW w \in Windows, RedoOne(w)
  PROVE  IInv'
<1> DEFINE d == mainWinDoc[w]
           s == undoStack[d]
           k == undoIndex[s] + 1
           c == commands[s][k]
<1>1. d \in Shown /\ undoIndex[s] < Len(commands[s])
  BY DEF RedoOne, CanRedo, Shown
<1>2. d \in Docs /\ s \in Stacks /\ undoIndex[s] \in 0 .. Len(commands[s])
      /\ Len(commands[s]) \in Nat /\ c.undo = d
  BY <1>1, ShownAt, StackOf DEF IInv, StackFound
<1>3. k \in 1 .. Len(commands[s])
  BY <1>1, <1>2
<1>4. c.redo \in Docs /\ undoStack[c.redo] = s
  BY <1>2, <1>3, CommandOf
<1>5. /\ k < Len(commands[s]) => commands[s][k + 1].undo = c.redo
      /\ k \in Nat /\ k \in 0 .. Len(commands[s]) /\ Len(commands[s]) > 0
  <2>1. k \in Nat /\ k \in 0 .. Len(commands[s]) /\ Len(commands[s]) > 0
    BY <1>2, <1>3
  <2>2. k < Len(commands[s]) => commands[s][k + 1].undo = c.redo
    BY <1>2, <1>3, ChainOf
  <2> QED
    BY <2>1, <2>2
<1>6. fileName' \in [Docs -> Names \cup {NoName}]
  BY <1>2, <1>4 DEF RedoOne, FileNameTo, IInv, TypeOK
<1>7. /\ mainWinDoc' = SwitchWindows(d, c.redo)
      /\ undoIndex' = [undoIndex EXCEPT ![s] = k]
      /\ UNCHANGED <<live, score, dedication, modified, undoStack, commands,
                     undoCommand, disk>>
  BY <1>2 DEF RedoOne
<1>8. c.redo = commands[s][k].redo
  OBVIOUS
<1> HIDE DEF d, k, c
<1>9. QED
  BY <1>1, <1>2, <1>3, <1>4, <1>5, <1>6, <1>7, <1>8, MoveInvariant

LEMMA SaveInvariant ==
  ASSUME IInv, NEW w \in Windows, NEW n \in Names, Save(w, n)
  PROVE  IInv'
<1> USE DEF Save, undoVars
<1>1. mainWinDoc[w] \in Docs
  BY DEF IInv, TypeOK
<1>2. TypeOK'
  BY <1>1 DEF IInv, TypeOK, File
<1>3. Shown' = Shown /\ OpenStacks' = OpenStacks
  BY DEF Shown, OpenStacks
<1>4. QED
  BY <1>2, <1>3 DEF IInv, Chained, VersionsDistinct, NoDangling, StackFound,
                    WindowsAgree, Ownership

LEMMA NewWindowInvariant ==
  ASSUME IInv, NEW v \in Windows, NEW w \in Windows, NewWindow(v, w)
  PROVE  IInv'
<1> USE DEF NewWindow, undoVars, docVars
<1>1. TypeOK'
  BY DEF IInv, TypeOK
<1>2. \A x \in Windows : mainWinDoc'[x] = IF x = w THEN mainWinDoc[v] ELSE mainWinDoc[x]
  BY DEF IInv, TypeOK
<1>3. Shown' = Shown /\ OpenStacks' = OpenStacks
  BY <1>2 DEF Shown, OpenStacks
<1>4. \A x \in Windows : \E y \in Windows : mainWinDoc'[x] = mainWinDoc[y]
  BY <1>2
<1>5. Chained'
  BY <1>3, <1>4 DEF IInv, Chained
<1>6. WindowsAgree'
  <2>1. \A x, y \in Windows :
          /\ mainWinDoc'[x] # NoDoc /\ mainWinDoc'[y] # NoDoc
          /\ undoStack[mainWinDoc'[x]] = undoStack[mainWinDoc'[y]]
          => mainWinDoc'[x] = mainWinDoc'[y]
    BY <1>2 DEF IInv, WindowsAgree
  <2>2. QED
    BY <1>3, <2>1 DEF IInv, WindowsAgree
<1>7. VersionsDistinct' /\ NoDangling' /\ StackFound' /\ Ownership'
  BY <1>3 DEF IInv, VersionsDistinct, NoDangling, StackFound, Ownership
<1>8. QED
  BY <1>1, <1>5, <1>6, <1>7 DEF IInv

LEMMA AbandonInvariant ==
  ASSUME IInv, NEW w \in Windows, NEW u \in Docs, AbandonEdit(w, u)
  PROVE  IInv'
<1> DEFINE d == mainWinDoc[w]
<1>1. d \in Shown /\ d \in Docs
  BY DEF AbandonEdit, Shown, IInv, TypeOK
<1>2. undoStack[u] = NoStack /\ u \notin Shown
  BY CloneIsNew DEF AbandonEdit
<1>3. undoStack[d] # NoStack /\ d \in live
  BY <1>1 DEF IInv, StackFound, NoDangling
<1>4. /\ live' = (live \ FreedByClear) \cup {u}
      /\ undoCommand' = [undo |-> u, redo |-> d]
      /\ UNCHANGED <<mainWinDoc, undoStack, commands, undoIndex, disk>>
  BY DEF AbandonEdit
<1>5. \A e \in Docs : e \in live /\ undoStack[e] # NoStack => e \in live'
  BY <1>4, ClearFrees
<1>6. Shown' = Shown /\ OpenStacks' = OpenStacks
  BY <1>4 DEF Shown, OpenStacks
<1>7. TypeOK'
  BY <1>1, <1>4 DEF AbandonEdit, Cloned, IInv, TypeOK, Command
<1>8. NoDangling'
  <2>1. Shown \subseteq live'
    BY <1>5, ShownAt DEF IInv, StackFound
  <2>2. ASSUME NEW s \in Stacks, NEW i \in DOMAIN commands[s]
        PROVE  {commands[s][i].undo, commands[s][i].redo} \subseteq live'
    <3>1. DOMAIN commands[s] = 1 .. Len(commands[s])
      BY LenProperties DEF IInv, TypeOK
    <3>2. s # NoStack
      BY NullAssumption
    <3>3. QED
      BY <1>5, <3>1, <3>2, CommandOf, StackOf
  <2>3. {u, d} \subseteq live'
    BY <1>3, <1>4, <1>5, <1>1
  <2>4. QED
    BY <1>4, <1>6, <2>1, <2>2, <2>3 DEF NoDangling
<1>9. Ownership'
  <2>1. undoCommand'.undo = u /\ undoCommand'.redo = d
    BY <1>4
  <2>2. u \in live'
    BY <1>4
  <2>3. QED
    BY <1>2, <1>3, <1>4, <1>5, <1>6, <2>1, <2>2 DEF IInv, Ownership
<1>10. Chained' /\ VersionsDistinct' /\ StackFound' /\ WindowsAgree'
  BY <1>4, <1>6 DEF IInv, Chained, VersionsDistinct, StackFound, WindowsAgree
<1>11. QED
  BY <1>7, <1>8, <1>9, <1>10 DEF IInv

\* A push: the clone u becomes the version before the shown document d, and
\* the undone commands of the stack go with their versions.
LEMMA PushInvariant ==
  ASSUME IInv, NEW d \in Shown, NEW u \in Docs, undoStack[u] = NoStack,
         NEW m \in [Docs -> BOOLEAN],
         Push(undoStack[d], [undo |-> u, redo |-> d], m),
         u \in live', live' \subseteq Docs,
         (live \ FreedByClear) \ FreedByDiscard(undoStack[d]) \subseteq live',
         score' \in [Docs -> Scores], dedication' \in [Docs -> BOOLEAN],
         fileName' \in [Docs -> Names \cup {NoName}],
         UNCHANGED <<mainWinDoc, disk>>
  PROVE  IInv'
<1> DEFINE s == undoStack[d]
           k == undoIndex[s]
           n == Len(commands[s])
           c == [undo |-> u, redo |-> d]
           cs == commands[s]
           new == CommandsAfterPush(s, c)
<1>1. d \in Shown /\ d \in Docs /\ d # NoDoc
  BY DEF Shown, IInv, TypeOK
<1>2. undoStack[u] = NoStack /\ u \notin Shown /\ u # d
  BY <1>1 DEF IInv, StackFound
<1>3. /\ s \in Stacks /\ s \in OpenStacks /\ s # NoStack
      /\ cs \in Seq(Command) /\ n \in Nat /\ k \in 0 .. n /\ k \in Nat
      /\ DOMAIN cs = 1 .. n
  BY <1>1, StackOf, LenProperties, NullAssumption DEF IInv, StackFound
<1>4. /\ k > 0 => cs[k].redo = d
      /\ k < n => cs[k + 1].undo = d
  BY <1>1, ShownAt
<1>5. c \in Command /\ c.undo = u /\ c.redo = d
  BY <1>1 DEF Command
<1>6. /\ new \in Seq(Command) /\ Len(new) = k + 1 /\ DOMAIN new = 1 .. k + 1
      /\ \A i \in 1 .. k : new[i].undo = cs[i].undo
      /\ \A i \in 1 .. k : i # k => new[i].redo = cs[i].redo
      /\ k > 0 => new[k].redo = u
      /\ new[k + 1].undo = u /\ new[k + 1].redo = d
  <2> HIDE DEF c
  <2>1. /\ new \in Seq(Command) /\ Len(new) = k + 1
        /\ \A i \in 1 .. k : new[i].undo = cs[i].undo
        /\ \A i \in 1 .. k : i # k => new[i].redo = cs[i].redo
        /\ k > 0 => new[k].redo = c.undo
        /\ new[k + 1] = c
    BY <1>3, <1>5, PushShape, ZenonT(60)
  <2>2. DOMAIN new = 1 .. k + 1
    BY <2>1, LenProperties
  <2>3. QED
    BY <1>5, <2>1, <2>2
<1>7. /\ commands' = [commands EXCEPT ![s] = new]
      /\ undoIndex' = [undoIndex EXCEPT ![s] = Len(new)]
      /\ undoStack' = UndoStackAfterPush(s, c)
      /\ undoCommand' = NoCommand
      /\ UNCHANGED <<mainWinDoc, disk>>
  BY DEF Push
<1>8. /\ commands'[s] = new /\ \A t \in Stacks \ {s} : commands'[t] = commands[t]
      /\ undoIndex'[s] = k + 1 /\ \A t \in Stacks \ {s} : undoIndex'[t] = undoIndex[t]
  BY <1>3, <1>6, <1>7 DEF IInv, TypeOK
<1>9. \A e \in Docs : undoStack'[e] = IF e = u THEN s
                                       ELSE IF e \in DiscardedRedo(s) THEN NoStack
                                       ELSE undoStack[e]
  BY <1>5, <1>7 DEF UndoStackAfterPush
<1>10. \A e \in DiscardedRedo(s) : \E i \in k + 1 .. n : e = cs[i].redo
  BY DEF DiscardedRedo
<1>11. \A i \in k + 1 .. n : cs[i].redo \in DiscardedRedo(s)
  BY DEF DiscardedRedo
<1>12. \A e \in DiscardedRedo(s) : e \in Docs /\ undoStack[e] = s /\ e # d /\ e # u
  <2> SUFFICES ASSUME NEW i \in k + 1 .. n
               PROVE  LET e == cs[i].redo
                      IN e \in Docs /\ undoStack[e] = s /\ e # d /\ e # u
    BY <1>10
  <2>1. i \in 1 .. n /\ k < n /\ k + 1 \in 1 .. n
    BY <1>3
  <2>2. cs[i].redo \in Docs /\ undoStack[cs[i].redo] = s
    BY <1>3, <2>1, CommandOf
  <2>3. cs[i].redo # d
    BY <1>3, <1>4, <2>1, ChainOf
  <2>4. QED
    BY <1>2, <1>3, <2>2, <2>3
<1>13. \A i \in 1 .. k : cs[i].undo \notin DiscardedRedo(s) /\ cs[i].undo # d /\ cs[i].undo # u
  <2> SUFFICES ASSUME NEW i \in 1 .. k
               PROVE  cs[i].undo \notin DiscardedRedo(s) /\ cs[i].undo # d /\ cs[i].undo # u
    OBVIOUS
  <2>1. i \in 1 .. n /\ i \in Nat
    BY <1>3
  <2>2. cs[i].undo \notin DiscardedRedo(s)
    BY <1>3, <1>10, <2>1, ChainOf, SMTT(30)
  <2>3. cs[i].undo # d
    <3>1. CASE k < n
      BY <1>3, <1>4, <2>1, <3>1, ChainOf
    <3>2. CASE k = n
      BY <1>3, <1>4, <2>1, <3>2, ChainOf
    <3>3. QED
      BY <1>3, <3>1, <3>2
  <2>4. cs[i].undo # u
    BY <1>2, <1>3, <2>1, CommandOf
  <2>5. QED
    BY <2>2, <2>3, <2>4
<1>14. Shown' = Shown
  BY <1>7 DEF Shown
<1>15. /\ undoStack'[d] = s /\ undoStack'[u] = s
       /\ \A e \in Docs : undoStack[e] # NoStack /\ undoStack[e] # s => undoStack'[e] = undoStack[e]
       /\ \A e \in Docs : undoStack'[e] # NoStack => e = u \/ undoStack'[e] = undoStack[e]
       /\ \A e \in Docs : undoStack'[e] = s => e = u \/ (undoStack[e] = s /\ e \notin DiscardedRedo(s))
       /\ \A e \in Docs : undoStack'[e] # s /\ undoStack'[e] # NoStack => undoStack[e] = undoStack'[e]
  BY <1>1, <1>2, <1>3, <1>9, <1>12
<1>16. OpenStacks' = OpenStacks
  <2>1. /\ OpenStacks = {undoStack[e] : e \in Docs} \ {NoStack}
        /\ OpenStacks' = {undoStack'[e] : e \in Docs} \ {NoStack}
    BY <1>7 DEF OpenStacks, Range, IInv, TypeOK, UndoStackAfterPush
  <2>2. \A t \in OpenStacks : t = s \/ \E e \in Docs : undoStack'[e] = t /\ t # NoStack
    BY <1>15, <2>1
  <2>3. \A t \in OpenStacks' : t = s \/ \E e \in Docs : undoStack[e] = t /\ t # NoStack
    BY <1>15, <2>1
  <2>4. QED
    BY <1>1, <1>3, <1>15, <2>1, <2>2, <2>3
<1> HIDE DEF new, c, cs, n, k, s
<1>17. TypeOK'
  <2>1. live' \subseteq Docs /\ mainWinDoc' \in [Windows -> Docs \cup {NoDoc}]
    BY <1>7 DEF IInv, TypeOK
  <2>2. undoStack' \in [Docs -> Stacks \cup {NoStack}]
    BY <1>3, <1>7 DEF IInv, TypeOK, UndoStackAfterPush
  <2>3. commands' \in [Stacks -> Seq(Command)] /\ undoIndex' \in [Stacks -> Nat]
    BY <1>3, <1>6, <1>7 DEF IInv, TypeOK
  <2>4. /\ score' \in [Docs -> Scores]
        /\ dedication' \in [Docs -> BOOLEAN]
        /\ modified' \in [Docs -> BOOLEAN]
        /\ fileName' \in [Docs -> Names \cup {NoName}]
    BY <1>1 DEF Push, ModifiedAfterPush
  <2>5. QED
    BY <1>7, <2>1, <2>2, <2>3, <2>4 DEF IInv, TypeOK
<1>18. Chained'
  <2> SUFFICES ASSUME NEW t \in OpenStacks
               PROVE  /\ undoIndex'[t] \in 0 .. Len(commands'[t])
                      /\ \A i \in 1 .. Len(commands'[t]) - 1 :
                           commands'[t][i].redo = commands'[t][i + 1].undo
                      /\ commands'[t] # << >> =>
                           \A x \in Windows :
                             mainWinDoc'[x] # NoDoc /\ undoStack'[mainWinDoc'[x]] = t =>
                               /\ undoIndex'[t] > 0 => mainWinDoc'[x] = commands'[t][undoIndex'[t]].redo
                               /\ undoIndex'[t] < Len(commands'[t]) =>
                                    mainWinDoc'[x] = commands'[t][undoIndex'[t] + 1].undo
    BY <1>16 DEF Chained
  <2>1. t \in Stacks /\ t # NoStack
    BY DEF OpenStacks, Range, IInv, TypeOK
  <2>2. CASE t = s
    <3>1. undoIndex'[t] \in 0 .. Len(commands'[t]) /\ undoIndex'[t] = Len(commands'[t])
      BY <1>3, <1>6, <1>8, <2>2
    <3>2. ASSUME NEW i \in 1 .. Len(new) - 1
          PROVE  new[i].redo = new[i + 1].undo
      <4>1. i \in 1 .. k /\ i \in 1 .. n
        BY <1>3, <1>6
      <4>2. CASE i = k
        BY <1>6, <4>1, <4>2
      <4>3. CASE i # k
        <5>1. i + 1 \in 1 .. k /\ i < n
          BY <1>3, <4>1, <4>3
        <5>2. cs[i].redo = cs[i + 1].undo
          BY <1>3, <4>1, <5>1, ChainOf DEF cs, n
        <5>3. QED
          BY <1>6, <4>1, <4>3, <5>1, <5>2
      <4>4. QED
        BY <4>2, <4>3
    <3>3. ASSUME NEW x \in Windows, mainWinDoc[x] # NoDoc, undoStack'[mainWinDoc[x]] = s
          PROVE  mainWinDoc[x] = d
      <4>1. mainWinDoc[x] \in Shown /\ mainWinDoc[x] \in Docs
        BY <3>3 DEF Shown, IInv, TypeOK
      <4>2. undoStack[mainWinDoc[x]] = s
        BY <1>2, <1>15, <3>3, <4>1
      <4>3. QED
        BY <1>1, <4>1, <4>2, ShownOnce DEF s
    <3>4. QED
      BY <1>3, <1>6, <1>7, <1>8, <2>2, <3>1, <3>2, <3>3
  <2>3. CASE t # s
    <3>1. commands'[t] = commands[t] /\ undoIndex'[t] = undoIndex[t]
      BY <1>8, <2>1, <2>3
    <3>2. ASSUME NEW x \in Windows, mainWinDoc[x] # NoDoc, undoStack'[mainWinDoc[x]] = t
          PROVE  undoStack[mainWinDoc[x]] = t
      BY <1>15, <2>1, <2>3, <3>2 DEF IInv, TypeOK
    <3>3. QED
      BY <1>7, <3>1, <3>2 DEF IInv, Chained
  <2>4. QED
    BY <2>2, <2>3
<1>19. StackFound'
  <2>1. \A e \in Shown : undoStack'[e] # NoStack
    BY <1>3, <1>15, ShownAt, NullAssumption, <1>1, ShownOnce DEF s, IInv, StackFound
  <2>2. ASSUME NEW i \in 1 .. k + 1
        PROVE  undoStack'[new[i].undo] = s /\ undoStack'[new[i].redo] = s
    <3>1. CASE i = k + 1
      BY <1>6, <1>15, <3>1
    <3>2. CASE i \in 1 .. k
      <4>1. i \in 1 .. n
        BY <1>3, <3>2
      <4>2. cs[i].undo \in Docs /\ undoStack[cs[i].undo] = s
        BY <1>3, <4>1, CommandOf DEF cs, n
      <4>3. undoStack'[new[i].undo] = s
        BY <1>6, <1>9, <1>13, <3>2, <4>2
      <4>4. CASE i = k
        BY <1>6, <1>15, <3>2, <4>3, <4>4
      <4>5. CASE i # k
        <5>1. i + 1 \in 1 .. k /\ i < n /\ i + 1 \in 1 .. n
          BY <1>3, <3>2, <4>5
        <5>2. cs[i].redo = cs[i + 1].undo
          BY <1>3, <4>1, <5>1, ChainOf DEF cs, n
        <5>3. cs[i + 1].undo \in Docs /\ undoStack[cs[i + 1].undo] = s
          BY <1>3, <5>1, CommandOf DEF cs, n
        <5>4. QED
          BY <1>6, <1>9, <1>13, <3>2, <4>3, <4>5, <5>1, <5>2, <5>3
      <4>6. QED
        BY <4>4, <4>5
    <3>3. QED
      BY <1>3, <3>1, <3>2
  <2>3. ASSUME NEW t \in Stacks \ {s}, NEW i \in DOMAIN commands[t]
        PROVE  undoStack'[commands[t][i].undo] = t /\ undoStack'[commands[t][i].redo] = t
    <3>1. DOMAIN commands[t] = 1 .. Len(commands[t]) /\ t # NoStack
      BY LenProperties, NullAssumption DEF IInv, TypeOK
    <3>2. QED
      BY <1>15, <3>1, CommandOf
  <2>4. QED
    BY <1>6, <1>8, <1>14, <2>1, <2>2, <2>3 DEF StackFound
<1>20. VersionsDistinct'
  <2>1. \A i, j \in 1 .. k + 1 : new[i].undo = new[j].undo => i = j
    <3> SUFFICES ASSUME NEW i \in 1 .. k + 1, NEW j \in 1 .. k + 1, new[i].undo = new[j].undo
                 PROVE  i = j
      OBVIOUS
    <3>1. CASE i \in 1 .. k /\ j \in 1 .. k
      <4>1. i \in 1 .. n /\ j \in 1 .. n /\ cs[i].undo = cs[j].undo
        BY <1>3, <1>6, <3>1
      <4>2. QED
        BY <1>3, <4>1, ChainOf DEF cs, n
    <3>2. CASE ~(i \in 1 .. k /\ j \in 1 .. k)
      BY <1>3, <1>6, <1>13, <3>2
    <3>3. QED
      BY <3>1, <3>2
  <2>2. \A i \in 1 .. k + 1 : new[i].undo # new[k + 1].redo
    BY <1>2, <1>3, <1>6, <1>13
  <2>3. ASSUME NEW t \in Stacks, NEW r \in Stacks,
               NEW i \in DOMAIN commands'[t], NEW j \in DOMAIN commands'[r], t # r
        PROVE  /\ commands'[t][i].undo # commands'[r][j].undo
               /\ commands'[t][i].undo # Last(commands'[r]).redo
               /\ Last(commands'[t]).redo # Last(commands'[r]).redo
    <3>1. \A q \in Stacks : commands'[q] \in Seq(Command)
      BY <1>17 DEF TypeOK
    <3>2. /\ Len(commands'[r]) \in DOMAIN commands'[r]
          /\ Len(commands'[t]) \in DOMAIN commands'[t]
      BY <2>3, <3>1, LenProperties
    <3>3. \A q \in Stacks : \A x \in DOMAIN commands'[q] :
            undoStack'[commands'[q][x].undo] = q /\ undoStack'[commands'[q][x].redo] = q
      BY <1>19 DEF StackFound
    <3>4. QED
      BY <2>3, <3>2, <3>3 DEF Last
  <2>4. ASSUME NEW t \in Stacks,
               NEW i \in DOMAIN commands'[t], NEW j \in DOMAIN commands'[t]
        PROVE  /\ commands'[t][i].undo = commands'[t][j].undo => i = j
               /\ commands'[t][i].undo # Last(commands'[t]).redo
    <3>1. CASE t = s
      BY <1>6, <1>8, <2>1, <2>2, <3>1 DEF Last
    <3>2. CASE t # s
      BY <1>8, <3>2 DEF IInv, VersionsDistinct
    <3>3. QED
      BY <3>1, <3>2
  <2>5. QED
    BY <2>3, <2>4 DEF VersionsDistinct
<1>21. \A e \in Docs : undoStack'[e] # NoStack => e \in live'
  <2> SUFFICES ASSUME NEW e \in Docs, undoStack'[e] # NoStack, e # u
               PROVE  e \in live'
    OBVIOUS
  <2>1. undoStack[e] # NoStack /\ e \in live /\ e \notin DiscardedRedo(s)
    BY <1>9, StackOf
  <2>2. e \notin FreedByClear
    BY <2>1, ClearFrees
  <2>3. e \notin FreedByDiscard(s)
    <3> SUFFICES ASSUME NEW i \in k + 1 .. n, e = cs[i].undo, e \notin Shown
                 PROVE  FALSE
      BY DEF FreedByDiscard, FreedByCommand, k, n, cs
    <3>1. CASE i = k + 1
      BY <1>1, <1>3, <1>4, <3>1
    <3>2. CASE i # k + 1
      <4>1. i - 1 \in k + 1 .. n /\ i - 1 \in 1 .. n /\ i - 1 < n /\ (i - 1) + 1 = i
        BY <1>3, <3>2
      <4>2. cs[i - 1].redo = cs[i].undo
        BY <1>3, <4>1, ChainOf DEF cs, n
      <4>3. QED
        BY <1>11, <2>1, <4>1, <4>2
    <3>3. QED
      BY <3>1, <3>2
  <2>4. QED
    BY <2>1, <2>2, <2>3 DEF s
<1>22. NoDangling'
  <2>1. Shown \subseteq live'
    BY <1>14, <1>19, <1>21, ShownAt DEF StackFound
  <2>2. ASSUME NEW t \in Stacks, NEW i \in DOMAIN commands'[t]
        PROVE  {commands'[t][i].undo, commands'[t][i].redo} \subseteq live'
    <3>1. commands'[t][i] \in Command
      BY <1>17, LenProperties, ElementOfSeq DEF TypeOK
    <3>2. undoStack'[commands'[t][i].undo] = t /\ undoStack'[commands'[t][i].redo] = t
      BY <1>19 DEF StackFound
    <3>3. QED
      BY <1>21, <3>1, <3>2, NullAssumption DEF Command
  <2>3. QED
    BY <1>7, <1>14, <2>1, <2>2 DEF NoDangling
<1>23. WindowsAgree'
  <2>1. ASSUME NEW x \in Windows, NEW y \in Windows,
               mainWinDoc[x] # NoDoc, mainWinDoc[y] # NoDoc,
               undoStack'[mainWinDoc[x]] = undoStack'[mainWinDoc[y]]
        PROVE  mainWinDoc[x] = mainWinDoc[y]
    <3>1. mainWinDoc[x] \in Shown /\ mainWinDoc[y] \in Shown
      BY <2>1 DEF Shown
    <3>2. \A e \in Shown : e \in Docs /\ undoStack'[e] = undoStack[e]
      BY <1>2, <1>9, <1>14, <1>15, <1>19, ShownAt DEF StackFound
    <3>3. QED
      BY <2>1, <3>1, <3>2, ShownOnce
  <2>2. ASSUME NEW e \in Docs, undoStack'[e] # NoStack
        PROVE  \E x \in Shown : undoStack'[x] = undoStack'[e]
    <3>1. CASE undoStack'[e] = s
      BY <1>1, <1>15, <3>1
    <3>2. CASE undoStack'[e] # s
      <4>1. undoStack[e] = undoStack'[e]
        BY <1>15, <2>2, <3>2
      <4>2. PICK x \in Shown : undoStack[x] = undoStack[e]
        BY <2>2, <4>1, MemberAt
      <4>3. x \in Docs /\ undoStack'[x] = undoStack[x]
        BY <1>15, <2>2, <3>2, <4>1, <4>2, ShownAt
      <4>4. QED
        BY <4>1, <4>2, <4>3
    <3>3. QED
      BY <3>1, <3>2
  <2>3. QED
    BY <1>7, <1>14, <2>1, <2>2 DEF WindowsAgree
<1>24. Ownership'
  <2>1. \A t \in Stacks : t \notin OpenStacks => commands'[t] = << >>
    BY <1>3, <1>8 DEF IInv, Ownership
  <2>2. ASSUME NEW e \in Docs, undoStack'[e] = s
        PROVE  \E i \in 1 .. k + 1 : e \in {new[i].undo, new[i].redo}
    <3>1. CASE e = u
      BY <1>3, <1>6, <3>1
    <3>2. CASE e = d
      BY <1>3, <1>6, <3>2
    <3>3. CASE e # u /\ e # d
      <4>1. undoStack[e] = s /\ e \notin DiscardedRedo(s) /\ undoStack[e] # NoStack
        BY <1>3, <1>15, <2>2, <3>3
      <4>2. n > 0
        <5>1. n = 0 => e \in Shown
          BY <4>1, MemberAt DEF n
        <5>2. n = 0 => e = d
          BY <1>1, <4>1, <5>1, ShownOnce DEF s
        <5>3. QED
          BY <1>3, <3>3, <5>2
      <4>3. PICK i \in 1 .. n : e = cs[i].undo \/ e = cs[i].redo
        BY <4>1, <4>2, MemberAt DEF n, cs
      <4>4. CASE e = cs[i].undo
        <5>1. CASE i \in 1 .. k
          BY <1>3, <1>6, <4>4, <5>1
        <5>2. CASE i = k + 1
          BY <1>3, <1>4, <3>3, <4>3, <4>4, <5>2
        <5>3. CASE i > k + 1
          <6>1. i - 1 \in k + 1 .. n /\ i - 1 \in 1 .. n /\ i - 1 < n /\ (i - 1) + 1 = i
            BY <1>3, <5>3
          <6>2. cs[i - 1].redo = cs[i].undo
            BY <1>3, <6>1, ChainOf DEF cs, n
          <6>3. QED
            BY <1>11, <4>1, <4>4, <6>1, <6>2
        <5>4. QED
          BY <1>3, <5>1, <5>2, <5>3
      <4>5. CASE e = cs[i].redo
        <5>1. CASE i < k
          <6>1. i \in 1 .. k /\ i \in 1 .. k + 1 /\ i # k
            BY <1>3, <5>1
          <6>2. QED
            BY <1>6, <4>5, <6>1
        <5>2. CASE i = k
          BY <1>3, <1>4, <3>3, <4>3, <4>5, <5>2
        <5>3. CASE i > k
          BY <1>3, <1>11, <4>1, <4>5, <5>3
        <5>4. QED
          BY <1>3, <5>1, <5>2, <5>3
      <4>6. QED
        BY <4>3, <4>4, <4>5
    <3>4. QED
      BY <3>1, <3>2, <3>3
  <2>3. new # << >>
    BY <1>3, <1>6, EmptySeq
  <2>4. ASSUME NEW e \in Docs, undoStack'[e] # NoStack, undoStack'[e] # s
        PROVE  LET t == undoStack'[e]
               IN IF commands'[t] = << >>
                  THEN e \in Shown /\ \A f \in Docs : undoStack'[f] = t => f = e
                  ELSE \E i \in DOMAIN commands'[t] :
                         e \in {commands'[t][i].undo, commands'[t][i].redo}
    <3>1. undoStack[e] = undoStack'[e] /\ undoStack[e] \in Stacks
      BY <1>15, <2>4, StackOf
    <3>2. commands'[undoStack[e]] = commands[undoStack[e]]
      BY <1>8, <2>4, <3>1
    <3>3. \A f \in Docs : undoStack'[f] = undoStack'[e] => undoStack[f] = undoStack[e]
      BY <1>15, <2>4, <3>1
    <3>4. QED
      BY <2>4, <3>1, <3>2, <3>3 DEF IInv, Ownership
  <2>5. QED
    BY <1>6, <1>7, <1>8, <1>14, <1>16, <1>21, <2>1, <2>2, <2>3, <2>4, SMTT(30) DEF Ownership
<1>25. QED
  BY <1>17, <1>18, <1>19, <1>20, <1>22, <1>23, <1>24 DEF IInv

\* An edit clones the shown document and pushes.
LEMMA EditInvariant ==
  ASSUME IInv, NEW w \in Windows, NEW u \in Docs, NEW sc \in Scores,
         NEW dd \in Dedications, Edit(w, u, sc, dd)
  PROVE  IInv'
<1> DEFINE d == mainWinDoc[w]
           s == undoStack[d]
           m == Cloned(u, d).modified
<1>1. d \in Shown /\ d \in Docs
  BY DEF Edit, Shown, IInv, TypeOK
<1>2. undoStack[u] = NoStack
  BY CloneIsNew DEF Edit
<1>3. /\ live' = ((live \ FreedByClear) \ FreedByDiscard(s)) \cup {u}
      /\ live' \subseteq Docs /\ UNCHANGED <<mainWinDoc, disk>>
  BY DEF Edit, IInv, TypeOK
<1>4. /\ score' \in [Docs -> Scores] /\ dedication' \in [Docs -> BOOLEAN]
      /\ fileName' \in [Docs -> Names \cup {NoName}] /\ m \in [Docs -> BOOLEAN]
  BY <1>1, NullAssumption DEF Edit, Cloned, IInv, TypeOK
<1>5. Push(s, [undo |-> u, redo |-> d], m)
  BY DEF Edit
<1> HIDE DEF m
<1>6. QED
  BY <1>1, <1>2, <1>3, <1>4, <1>5, PushInvariant

-----------------------------------------------------------------------------
(* A window leaves its document.                                           *)

\* What the other windows show.
Others(w) == {mainWinDoc[v] : v \in Windows \ {w}} \ {NoDoc}

\* Only the waiting clone and documents of the stack that is left are freed,
\* and those only by the last window of the stack.
LEMMA LeavingFrees ==
  ASSUME IInv, NEW w \in Windows, NEW e \in FreedByLeaving(w)
  PROVE  /\ OnlyWindow(w)
         /\ e \in FreedByClear \/ (e \in Docs /\ undoStack[e] = undoStack[mainWinDoc[w]])
<1> DEFINE d == mainWinDoc[w]
           s == undoStack[d]
<1>1. OnlyWindow(w)
  BY DEF FreedByLeaving
<1>2. d \in Shown /\ d \in Docs /\ s \in Stacks
  BY <1>1, ShownAt DEF OnlyWindow, Shown
<1>3. ASSUME e \in FreedByDeleteStack(s)
      PROVE  e \in Docs /\ undoStack[e] = s
  <2>1. PICK i \in DOMAIN commands[s] : e \in {commands[s][i].undo, commands[s][i].redo}
    BY <1>3 DEF FreedByDeleteStack, FreedByCommand
  <2>2. i \in 1 .. Len(commands[s])
    BY <1>2, LenProperties DEF IInv, TypeOK
  <2>3. QED
    BY <1>2, <2>1, <2>2, CommandOf
<1>4. QED
  BY <1>1, <1>2, <1>3 DEF FreedByLeaving

\* What is left for the other windows, once w has left its document: their
\* documents and stacks as they were, and nothing else in _undoStack.
LEMMA AfterLeaving ==
  ASSUME IInv, NEW w \in Windows
  PROVE  LET key == UndoStackAfterLeaving(w)
             cmds == CommandsAfterLeaving(w)
             kept == live \ FreedByLeaving(w)
             wait == CommandAfterLeaving(w)
         IN /\ key \in [Docs -> Stacks \cup {NoStack}]
            /\ cmds \in [Stacks -> Seq(Command)]
            /\ \A e \in Docs : key[e] # NoStack =>
                 /\ key[e] = undoStack[e]
                 /\ cmds[key[e]] = commands[key[e]]
                 /\ e \in kept
                 /\ \E x \in Others(w) : key[x] = key[e]
                 /\ cmds[key[e]] = << >> => e \in Others(w)
            /\ \A e \in Others(w) : e \in Shown /\ e \in Docs /\ key[e] # NoStack
            /\ \A t \in Stacks : \/ cmds[t] = << >>
                                 \/ cmds[t] = commands[t] /\ \A e \in Docs : undoStack[e] = t => key[e] = t
            /\ \A t \in Stacks : (\A e \in Docs : key[e] # t) => cmds[t] = << >>
            /\ wait # NoCommand =>
                 /\ wait = undoCommand /\ wait.undo \in kept /\ wait.redo \in Docs
                 /\ key[wait.undo] = NoStack /\ key[wait.redo] # NoStack
<1> DEFINE key == UndoStackAfterLeaving(w)
           cmds == CommandsAfterLeaving(w)
           kept == live \ FreedByLeaving(w)
           wait == CommandAfterLeaving(w)
           d == mainWinDoc[w]
           s == undoStack[d]
<1>1. /\ undoStack \in [Docs -> Stacks \cup {NoStack}]
      /\ commands \in [Stacks -> Seq(Command)]
      /\ undoCommand # NoCommand => undoCommand \in Command
      /\ mainWinDoc \in [Windows -> Docs \cup {NoDoc}]
  BY DEF IInv, TypeOK
<1>2. key \in [Docs -> Stacks \cup {NoStack}]
  BY <1>1 DEF UndoStackAfterLeaving
<1>3. \A e \in Others(w) : e \in Shown /\ e \in Docs /\ undoStack[e] # NoStack
  BY ShownAt DEF Others, Shown, IInv, StackFound
<1>4. CASE OnlyWindow(w)
  <2>1. d \in Shown /\ d \in Docs /\ s \in Stacks /\ s # NoStack /\ d \notin Others(w)
    BY <1>4, ShownAt, NullAssumption DEF OnlyWindow, Shown, Others
  <2>2. \A e \in Docs : key[e] = IF undoStack[e] = s THEN NoStack ELSE undoStack[e]
    BY <1>4 DEF UndoStackAfterLeaving
  <2>3. cmds = [commands EXCEPT ![s] = << >>] /\ wait = NoCommand
    BY <1>4 DEF CommandsAfterLeaving, CommandAfterLeaving
  <2>4. /\ cmds \in [Stacks -> Seq(Command)]
        /\ cmds[s] = << >> /\ \A t \in Stacks \ {s} : cmds[t] = commands[t]
    BY <1>1, <2>1, <2>3, EmptySeq
  <2>5. \A e \in Others(w) : undoStack[e] # s
    BY <1>3, <2>1, ShownOnce
  <2>6. Shown = Others(w) \cup {d}
    BY <2>1 DEF Shown, Others
  <2>7. ASSUME NEW e \in Docs, key[e] # NoStack
        PROVE  /\ key[e] = undoStack[e]
               /\ cmds[key[e]] = commands[key[e]]
               /\ e \in kept
               /\ \E x \in Others(w) : key[x] = key[e]
               /\ cmds[key[e]] = << >> => e \in Others(w)
    <3>1. undoStack[e] # s /\ undoStack[e] # NoStack /\ key[e] = undoStack[e]
      BY <2>2, <2>7
    <3>2. undoStack[e] \in Stacks /\ e \in live
      BY <3>1, StackOf
    <3>3. cmds[key[e]] = commands[key[e]]
      BY <2>4, <3>1, <3>2
    <3>4. e \in kept
      BY <3>1, <3>2, LeavingFrees, ClearFrees
    <3>5. PICK x \in Shown : undoStack[x] = undoStack[e]
      BY <3>1, MemberAt
    <3>6. x \in Others(w) /\ key[x] = key[e]
      BY <1>3, <2>2, <2>6, <3>1, <3>5
    <3>7. cmds[key[e]] = << >> => e \in Others(w)
      BY <2>6, <3>1, <3>3 DEF IInv, Ownership
    <3>8. QED
      BY <3>1, <3>3, <3>4, <3>6, <3>7
  <2>8. \A e \in Others(w) : key[e] # NoStack
    BY <1>3, <2>2, <2>5
  <2>9. ASSUME NEW t \in Stacks
        PROVE  /\ \/ cmds[t] = << >>
                  \/ cmds[t] = commands[t] /\ \A e \in Docs : undoStack[e] = t => key[e] = t
               /\ (\A e \in Docs : key[e] # t) => cmds[t] = << >>
    <3>1. CASE t = s
      BY <2>4, <3>1
    <3>2. CASE t # s
      <4>1. cmds[t] = commands[t] /\ \A e \in Docs : undoStack[e] = t => key[e] = t
        BY <2>2, <2>4, <3>2
      <4>2. ASSUME \A e \in Docs : key[e] # t
            PROVE  cmds[t] = << >>
        <5>1. \A e \in Docs : undoStack[e] # t
          BY <4>1, <4>2
        <5>2. t \notin OpenStacks
          BY <1>1, <5>1 DEF OpenStacks, Range
        <5>3. QED
          BY <4>1, <5>2 DEF IInv, Ownership
      <4>3. QED
        BY <4>1, <4>2
    <3>3. QED
      BY <3>1, <3>2
  <2>10. QED
    BY <1>2, <1>3, <2>3, <2>4, <2>7, <2>8, <2>9
<1>5. CASE ~OnlyWindow(w)
  <2>1. key = undoStack
    BY <1>1, <1>5 DEF UndoStackAfterLeaving
  <2>2. cmds = commands /\ kept = live /\ wait = undoCommand
    BY <1>5 DEF CommandsAfterLeaving, FreedByLeaving, CommandAfterLeaving
  <2>3. Shown = Others(w)
    BY <1>5 DEF Shown, Others, OnlyWindow
  <2>4. ASSUME NEW t \in Stacks, \A e \in Docs : key[e] # t
        PROVE  cmds[t] = << >>
    <3>1. t \notin OpenStacks
      BY <1>1, <2>1, <2>4 DEF OpenStacks, Range
    <3>2. QED
      BY <2>2, <3>1 DEF IInv, Ownership
  <2>5. ASSUME NEW e \in Docs, key[e] # NoStack
        PROVE  /\ e \in kept
               /\ \E x \in Others(w) : key[x] = key[e]
               /\ cmds[key[e]] = << >> => e \in Others(w)
    BY <2>1, <2>2, <2>3, <2>5, StackOf, MemberAt DEF IInv, Ownership
  <2>6. wait # NoCommand =>
          /\ wait.undo \in kept /\ wait.redo \in Docs
          /\ key[wait.undo] = NoStack /\ key[wait.redo] # NoStack
    BY <1>1, <2>1, <2>2 DEF IInv, Ownership, Command
  <2>7. QED
    BY <1>1, <1>2, <1>3, <2>1, <2>2, <2>3, <2>4, <2>5, <2>6
<1>6. QED
  BY <1>4, <1>5

\* A window has left its document and shows one of D, which has at most one
\* member, on a stack of its own without commands.
LEMMA LeavingInvariant ==
  ASSUME IInv, NEW w \in Windows, NEW D \in SUBSET Docs,
         TypeOK',
         \A v \in Windows \ {w} : mainWinDoc'[v] = mainWinDoc[v],
         mainWinDoc'[w] \in D \cup {NoDoc},
         D \subseteq {mainWinDoc'[w]},
         live' = (live \ FreedByLeaving(w)) \cup D,
         D \cap (live \ FreedByLeaving(w)) = {},
         \A e \in Docs \ D : undoStack'[e] = UndoStackAfterLeaving(w)[e],
         \A e \in D : /\ undoStack'[e] \in Stacks
                      /\ undoIndex'[undoStack'[e]] = 0
                      /\ \A x \in Docs \ D : undoStack'[x] # undoStack'[e]
                      /\ CommandsAfterLeaving(w)[undoStack'[e]] = << >>,
         commands' = CommandsAfterLeaving(w),
         \A x \in Docs \ D : undoStack'[x] # NoStack =>
           undoIndex'[undoStack'[x]] = undoIndex[undoStack'[x]],
         undoCommand' = CommandAfterLeaving(w)
  PROVE  IInv'
<1> DEFINE key == UndoStackAfterLeaving(w)
           cmds == CommandsAfterLeaving(w)
           kept == live \ FreedByLeaving(w)
           wait == CommandAfterLeaving(w)
<1>1. /\ \A e \in Docs : key[e] # NoStack =>
           /\ key[e] = undoStack[e]
           /\ cmds[key[e]] = commands[key[e]]
           /\ e \in kept
           /\ \E x \in Others(w) : key[x] = key[e]
           /\ cmds[key[e]] = << >> => e \in Others(w)
      /\ \A e \in Others(w) : e \in Shown /\ e \in Docs /\ key[e] # NoStack
  BY AfterLeaving
<1>2. /\ \A t \in Stacks : \/ cmds[t] = << >>
                           \/ cmds[t] = commands[t] /\ \A e \in Docs : undoStack[e] = t => key[e] = t
      /\ \A t \in Stacks : (\A e \in Docs : key[e] # t) => cmds[t] = << >>
  BY AfterLeaving
<1>3. wait # NoCommand =>
        /\ wait = undoCommand /\ wait.undo \in kept /\ wait.redo \in Docs
        /\ key[wait.undo] = NoStack /\ key[wait.redo] # NoStack
  BY AfterLeaving
<1>4. /\ undoStack' \in [Docs -> Stacks \cup {NoStack}]
      /\ cmds \in [Stacks -> Seq(Command)]
      /\ undoCommand' # NoCommand => undoCommand' \in Command
  BY DEF TypeOK
<1> HIDE DEF key, cmds, kept, wait
<1>5. /\ live' = kept \cup D /\ D \cap kept = {}
      /\ \A e \in Docs \ D : undoStack'[e] = key[e]
      /\ commands' = cmds /\ undoCommand' = wait
      /\ \A e \in D : cmds[undoStack'[e]] = << >>
  BY DEF key, cmds, kept, wait
<1>6. Shown' = Others(w) \cup D
  <2>1. \A e \in D : e = mainWinDoc'[w] /\ e # NoDoc
    BY NullAssumption
  <2>2. QED
    BY <2>1 DEF Shown, Others
\* A document with a stack that is not new had the stack before.
<1>7. ASSUME NEW e \in Docs \ D, undoStack'[e] # NoStack
      PROVE  /\ undoStack'[e] = undoStack[e] /\ undoStack'[e] = key[e]
             /\ undoStack[e] \in Stacks
             /\ commands'[undoStack[e]] = commands[undoStack[e]]
             /\ undoIndex'[undoStack[e]] = undoIndex[undoStack[e]]
             /\ e \in kept
             /\ \E x \in Others(w) : key[x] = key[e]
  BY <1>1, <1>4, <1>5, <1>7, NullAssumption
<1>8. \A e \in Others(w) : e \in Docs \ D /\ undoStack'[e] # NoStack /\ e \in Shown
  BY <1>1, <1>5
\* The documents of the commands that are left.
<1>9. ASSUME NEW t \in Stacks, NEW i \in DOMAIN commands'[t]
      PROVE  /\ commands'[t] = commands[t]
             /\ commands'[t][i].undo \in Docs \ D /\ undoStack'[commands'[t][i].undo] = t
             /\ commands'[t][i].redo \in Docs \ D /\ undoStack'[commands'[t][i].redo] = t
  <2>1. cmds[t] # << >>
    BY <1>5, <1>9
  <2>2. cmds[t] = commands[t] /\ \A e \in Docs : undoStack[e] = t => key[e] = t
    BY <1>2, <2>1
  <2>3. DOMAIN commands[t] = 1 .. Len(commands[t]) /\ t # NoStack
    BY LenProperties, NullAssumption DEF IInv, TypeOK
  <2>4. /\ commands[t][i].undo \in Docs /\ undoStack[commands[t][i].undo] = t
        /\ commands[t][i].redo \in Docs /\ undoStack[commands[t][i].redo] = t
    BY <1>5, <1>9, <2>2, <2>3, CommandOf
  <2>5. key[commands[t][i].undo] = t /\ key[commands[t][i].redo] = t
    BY <2>2, <2>4
  <2>6. commands[t][i].undo \notin D /\ commands[t][i].redo \notin D
    BY <1>1, <1>5, <2>3, <2>4, <2>5
  <2>7. QED
    BY <1>5, <2>2, <2>4, <2>5, <2>6
<1>10. Chained'
  <2> SUFFICES ASSUME NEW t \in OpenStacks'
               PROVE  /\ undoIndex'[t] \in 0 .. Len(commands'[t])
                      /\ \A i \in 1 .. Len(commands'[t]) - 1 :
                           commands'[t][i].redo = commands'[t][i + 1].undo
                      /\ commands'[t] # << >> =>
                           \A v \in Windows :
                             mainWinDoc'[v] # NoDoc /\ undoStack'[mainWinDoc'[v]] = t =>
                               /\ undoIndex'[t] > 0 => mainWinDoc'[v] = commands'[t][undoIndex'[t]].redo
                               /\ undoIndex'[t] < Len(commands'[t]) =>
                                    mainWinDoc'[v] = commands'[t][undoIndex'[t] + 1].undo
    BY DEF Chained
  <2>1. PICK e \in Docs : undoStack'[e] = t /\ t # NoStack
    BY <1>4 DEF OpenStacks, Range
  <2>2. CASE e \in D
    <3>1. commands'[t] = << >> /\ undoIndex'[t] = 0 /\ Len(commands'[t]) = 0
      BY <1>5, <2>1, <2>2, EmptySeq
    <3>2. QED
      BY <3>1
  <2>3. CASE e \notin D
    <3>1. /\ t = undoStack[e] /\ t \in OpenStacks
          /\ commands'[t] = commands[t] /\ undoIndex'[t] = undoIndex[t]
      BY <1>7, <2>1, <2>3, StackOf
    <3>2. ASSUME NEW v \in Windows, mainWinDoc'[v] # NoDoc, undoStack'[mainWinDoc'[v]] = t
          PROVE  mainWinDoc'[v] \in Shown /\ undoStack[mainWinDoc'[v]] = t
      <4>1. mainWinDoc'[v] \in Shown'
        BY <3>2 DEF Shown
      <4>2. mainWinDoc'[v] \notin D
        BY <2>1, <2>3, <3>2
      <4>3. QED
        BY <1>6, <1>7, <1>8, <3>2, <4>1, <4>2
    <3>3. QED
      BY <3>1, <3>2, ShownAt, SMTT(30) DEF IInv, Chained
  <2>4. QED
    BY <2>2, <2>3
<1>11. VersionsDistinct'
  BY <1>9 DEF IInv, VersionsDistinct
<1>12. StackFound'
  <2>1. \A e \in Shown' : undoStack'[e] # NoStack
    BY <1>6, <1>8, NullAssumption
  <2>2. QED
    BY <1>9, <2>1 DEF StackFound
<1>13. \A e \in Docs : undoStack'[e] # NoStack => e \in live'
  BY <1>5, <1>7
<1>14. NoDangling'
  <2>1. Shown' \subseteq live'
    BY <1>5, <1>6, <1>7, <1>8
  <2>2. \A t \in Stacks : \A i \in DOMAIN commands'[t] :
          {commands'[t][i].undo, commands'[t][i].redo} \subseteq live'
    BY <1>9, <1>13, NullAssumption
  <2>3. undoCommand' # NoCommand => {undoCommand'.undo, undoCommand'.redo} \subseteq live'
    BY <1>1, <1>3, <1>5
  <2>4. QED
    BY <2>1, <2>2, <2>3 DEF NoDangling
<1>15. WindowsAgree'
  <2>1. \A x, y \in Shown' : undoStack'[x] = undoStack'[y] => x = y
    <3> SUFFICES ASSUME NEW x \in Shown', NEW y \in Shown', undoStack'[x] = undoStack'[y]
                 PROVE  x = y
      OBVIOUS
    <3>1. CASE x \in D \/ y \in D
      BY <1>6, <1>8, <3>1
    <3>2. CASE x \notin D /\ y \notin D
      BY <1>6, <1>7, <1>8, <3>2, ShownOnce
    <3>3. QED
      BY <3>1, <3>2
  <2>2. ASSUME NEW e \in Docs, undoStack'[e] # NoStack
        PROVE  \E x \in Shown' : undoStack'[x] = undoStack'[e]
    <3>1. CASE e \in D
      BY <1>6, <3>1
    <3>2. CASE e \notin D
      <4>1. PICK x \in Others(w) : key[x] = key[e]
        BY <1>7, <2>2, <3>2
      <4>2. QED
        BY <1>5, <1>6, <1>8, <3>2, <4>1
    <3>3. QED
      BY <3>1, <3>2
  <2>3. ASSUME NEW v \in Windows, mainWinDoc'[v] # NoDoc
        PROVE  mainWinDoc'[v] \in Shown'
    BY <2>3 DEF Shown
  <2>4. QED
    BY <2>1, <2>2, <2>3 DEF WindowsAgree
<1>16. Ownership'
  <2>1. ASSUME NEW t \in Stacks, t \notin OpenStacks'
        PROVE  commands'[t] = << >>
    <3>1. DOMAIN commands'[t] = {}
      BY <1>4, <1>9, <2>1, NullAssumption DEF OpenStacks, Range
    <3>2. commands'[t] \in Seq(Command)
      BY <1>4, <1>5
    <3>3. Len(commands'[t]) \in Nat /\ 1 .. Len(commands'[t]) = {}
      BY <3>1, <3>2, LenProperties
    <3>4. Len(commands'[t]) # 0 => 1 \in 1 .. Len(commands'[t])
      BY <3>3
    <3>5. QED
      BY <3>2, <3>3, <3>4, EmptySeq
  <2>2. ASSUME NEW e \in Docs, undoStack'[e] # NoStack
        PROVE  LET t == undoStack'[e]
               IN IF commands'[t] = << >>
                  THEN e \in Shown' /\ \A f \in Docs : undoStack'[f] = t => f = e
                  ELSE \E i \in DOMAIN commands'[t] :
                         e \in {commands'[t][i].undo, commands'[t][i].redo}
    <3>1. CASE e \in D
      BY <1>5, <1>6, <3>1
    <3>2. CASE e \notin D
      <4>1. /\ undoStack'[e] = undoStack[e] /\ undoStack[e] # NoStack
            /\ commands'[undoStack[e]] = commands[undoStack[e]]
            /\ undoStack'[e] = key[e]
        BY <1>7, <2>2, <3>2
      <4>2. ASSUME commands[undoStack[e]] = << >>
            PROVE  e \in Shown'
        BY <1>1, <1>5, <1>6, <2>2, <4>1, <4>2
      <4>3. ASSUME commands[undoStack[e]] = << >>, NEW f \in Docs, undoStack'[f] = undoStack'[e]
            PROVE  f = e
        <5>1. f \notin D
          BY <3>2, <4>3
        <5>2. undoStack[f] = undoStack[e]
          BY <1>7, <2>2, <4>1, <4>3, <5>1
        <5>3. QED
          BY <4>1, <4>3, <5>2 DEF IInv, Ownership
      <4>4. QED
        BY <4>1, <4>2, <4>3 DEF IInv, Ownership
    <3>3. QED
      BY <3>1, <3>2
  <2>3. undoCommand' # NoCommand =>
          /\ undoCommand'.undo \in live'
          /\ undoStack'[undoCommand'.undo] = NoStack
          /\ undoStack'[undoCommand'.redo] # NoStack
    <3> SUFFICES ASSUME undoCommand' # NoCommand
                 PROVE  /\ undoCommand'.undo \in live'
                        /\ undoStack'[undoCommand'.undo] = NoStack
                        /\ undoStack'[undoCommand'.redo] # NoStack
      OBVIOUS
    <3>1. wait.undo \in Docs /\ wait.redo \in Docs
      BY <1>4, <1>5 DEF Command
    <3>2. wait.undo \notin D /\ wait.redo \notin D
      BY <1>1, <1>3, <1>5, <3>1
    <3>3. QED
      BY <1>3, <1>5, <3>1, <3>2
  <2>4. QED
    BY <1>13, <2>1, <2>2, <2>3 DEF Ownership
<1>17. QED
  BY <1>10, <1>11, <1>12, <1>14, <1>15, <1>16 DEF IInv

LEMMA CloseInvariant ==
  ASSUME IInv, NEW w \in Windows, CloseDocument(w)
  PROVE  IInv'
<1>1. /\ UndoStackAfterLeaving(w) \in [Docs -> Stacks \cup {NoStack}]
      /\ CommandsAfterLeaving(w) \in [Stacks -> Seq(Command)]
  BY AfterLeaving
<1>2. mainWinDoc'[w] = NoDoc /\ \A v \in Windows \ {w} : mainWinDoc'[v] = mainWinDoc[v]
  BY DEF CloseDocument, IInv, TypeOK
<1>3. TypeOK'
  BY <1>1 DEF CloseDocument, IInv, TypeOK, CommandAfterLeaving
<1>4. /\ live' = (live \ FreedByLeaving(w)) \cup {}
      /\ undoStack' = UndoStackAfterLeaving(w)
      /\ commands' = CommandsAfterLeaving(w)
      /\ undoCommand' = CommandAfterLeaving(w)
      /\ undoIndex' = undoIndex
  BY DEF CloseDocument
<1> DEFINE D == {}
<1>5. /\ D \in SUBSET Docs
      /\ mainWinDoc'[w] \in D \cup {NoDoc} /\ D \subseteq {mainWinDoc'[w]}
      /\ live' = (live \ FreedByLeaving(w)) \cup D
      /\ D \cap (live \ FreedByLeaving(w)) = {}
      /\ \A e \in Docs \ D : undoStack'[e] = UndoStackAfterLeaving(w)[e]
      /\ \A e \in D : /\ undoStack'[e] \in Stacks
                      /\ undoIndex'[undoStack'[e]] = 0
                      /\ \A x \in Docs \ D : undoStack'[x] # undoStack'[e]
                      /\ CommandsAfterLeaving(w)[undoStack'[e]] = << >>
      /\ \A x \in Docs \ D : undoStack'[x] # NoStack =>
           undoIndex'[undoStack'[x]] = undoIndex[undoStack'[x]]
  BY <1>2, <1>4
<1> HIDE DEF D
<1>6. QED
  BY <1>2, <1>3, <1>4, <1>5, LeavingInvariant

LEMMA ShowInvariant ==
  ASSUME IInv, NEW w \in Windows, NEW d \in Docs, NEW s \in Stacks,
         NEW sc \in Scores, NEW dd \in BOOLEAN, NEW f \in Names \cup {NoName},
         Show(w, d, s, sc, dd, f),
         disk' \in [Names -> File \cup {NoFile}]
  PROVE  IInv'
<1> DEFINE key == UndoStackAfterLeaving(w)
           cmds == CommandsAfterLeaving(w)
           kept == live \ FreedByLeaving(w)
<1>1. /\ key \in [Docs -> Stacks \cup {NoStack}]
      /\ cmds \in [Stacks -> Seq(Command)]
      /\ \A e \in Docs : key[e] # NoStack => e \in kept
      /\ \A t \in Stacks : (\A e \in Docs : key[e] # t) => cmds[t] = << >>
  BY AfterLeaving
<1>2. /\ d \notin kept /\ s \notin Range(key)
      /\ live' = kept \cup {d}
      /\ undoStack' = [key EXCEPT ![d] = s]
      /\ commands' = [cmds EXCEPT ![s] = << >>]
      /\ undoIndex' = [undoIndex EXCEPT ![s] = 0]
      /\ undoCommand' = CommandAfterLeaving(w)
      /\ mainWinDoc' = [mainWinDoc EXCEPT ![w] = d]
  BY DEF Show
<1>3. \A e \in Docs : key[e] # s
  BY <1>1, <1>2 DEF Range
<1>4. cmds[s] = << >> /\ commands' = cmds
  BY <1>1, <1>2, <1>3
<1>5. TypeOK'
  BY <1>1, <1>2, <1>4 DEF Show, IInv, TypeOK, CommandAfterLeaving
<1>6. mainWinDoc'[w] = d /\ \A v \in Windows \ {w} : mainWinDoc'[v] = mainWinDoc[v]
  BY <1>2 DEF IInv, TypeOK
<1>7. /\ undoStack'[d] = s /\ \A e \in Docs \ {d} : undoStack'[e] = key[e]
      /\ undoIndex'[s] = 0 /\ \A t \in Stacks \ {s} : undoIndex'[t] = undoIndex[t]
  BY <1>1, <1>2 DEF IInv, TypeOK
<1>8. \A x \in Docs \ {d} : undoStack'[x] # NoStack =>
        undoIndex'[undoStack'[x]] = undoIndex[undoStack'[x]]
  BY <1>1, <1>3, <1>7
<1> DEFINE D == {d}
<1>9. /\ D \in SUBSET Docs
      /\ mainWinDoc'[w] \in D \cup {NoDoc} /\ D \subseteq {mainWinDoc'[w]}
      /\ live' = kept \cup D /\ D \cap kept = {}
      /\ \A e \in Docs \ D : undoStack'[e] = key[e]
      /\ \A e \in D : /\ undoStack'[e] \in Stacks
                      /\ undoIndex'[undoStack'[e]] = 0
                      /\ \A x \in Docs \ D : undoStack'[x] # undoStack'[e]
                      /\ cmds[undoStack'[e]] = << >>
      /\ \A x \in Docs \ D : undoStack'[x] # NoStack =>
           undoIndex'[undoStack'[x]] = undoIndex[undoStack'[x]]
  BY <1>2, <1>3, <1>4, <1>6, <1>7, <1>8
<1> HIDE DEF D
<1>10. QED
  BY <1>2, <1>4, <1>5, <1>6, <1>9, LeavingInvariant

-----------------------------------------------------------------------------
(* The theorems.                                                           *)

LEMMA NextInvariant == IInv /\ [Next]_vars => IInv'
<1> SUFFICES ASSUME IInv, [Next]_vars PROVE IInv'
  OBVIOUS
<1>1. ASSUME NEW w \in Windows, WindowNext(w)
      PROVE  IInv'
  <2>1. ASSUME NEW u \in Docs, AbandonEdit(w, u) PROVE IInv'
    BY <2>1, AbandonInvariant
  <2>2. ASSUME NEW u \in Docs, NEW sc \in Scores, NEW dd \in Dedications, Edit(w, u, sc, dd)
        PROVE  IInv'
    BY <2>2, EditInvariant, NullAssumption
  <2>3. CASE UndoOne(w)
    BY <2>3, UndoInvariant
  <2>4. CASE RedoOne(w)
    BY <2>4, RedoInvariant
  <2>5. ASSUME NEW d \in Docs, NEW s \in Stacks, NewDocument(w, d, s) PROVE IInv'
    BY <2>5, ShowInvariant, NullAssumption DEF NewDocument, IInv, TypeOK
  <2>6. ASSUME NEW d \in Docs, NEW s \in Stacks, NEW n \in Names, OpenDocument(w, d, s, n)
        PROVE  IInv'
    <3>1. disk[n] \in File /\ disk \in [Names -> File \cup {NoFile}]
      BY <2>6 DEF OpenDocument, IInv, TypeOK
    <3>2. /\ disk[n].score \in Scores /\ disk[n].dedication \in BOOLEAN
          /\ [disk[n] EXCEPT !.writer = d] \in File
      BY <3>1 DEF File
    <3>3. disk' = [disk EXCEPT ![n] = [disk[n] EXCEPT !.writer = d]]
      BY <2>6 DEF OpenDocument
    <3>4. disk' \in [Names -> File \cup {NoFile}]
      BY <3>1, <3>2, <3>3
    <3>5. Show(w, d, s, disk[n].score, disk[n].dedication, n)
      BY <2>6 DEF OpenDocument
    <3>6. QED
      BY <3>2, <3>4, <3>5, ShowInvariant
  <2>7. ASSUME NEW v \in Windows, NewWindow(v, w) PROVE IInv'
    BY <2>7, NewWindowInvariant
  <2>8. CASE CloseDocument(w)
    BY <2>8, CloseInvariant
  <2>9. ASSUME NEW n \in Names, Save(w, n) PROVE IInv'
    BY <2>9, SaveInvariant
  <2>10. QED
    BY <1>1, <2>1, <2>2, <2>3, <2>4, <2>5, <2>6, <2>7, <2>8, <2>9 DEF WindowNext
<1>2. CASE UNCHANGED vars
  <2> USE <1>2 DEF vars, docVars, undoVars
  <2>1. Shown' = Shown /\ OpenStacks' = OpenStacks
    BY DEF Shown, OpenStacks
  <2>2. TypeOK'
    BY DEF IInv, TypeOK
  <2>3. Chained' /\ VersionsDistinct'
    BY <2>1 DEF IInv, Chained, VersionsDistinct
  <2>4. NoDangling' /\ StackFound' /\ WindowsAgree'
    BY <2>1 DEF IInv, NoDangling, StackFound, WindowsAgree
  <2>5. Ownership'
    BY <2>1 DEF IInv, Ownership
  <2>6. QED
    BY <2>2, <2>3, <2>4, <2>5 DEF IInv
<1>3. QED
  BY <1>1, <1>2 DEF Next

\* All the parts of the invariant hold in every reachable state of the undo
\* core, with any number of documents, windows and stacks of any length.
THEOREM InvariantHolds == Spec => []IInv
<1>1. Init => IInv
  BY InitInvariant
<1>2. IInv /\ [Next]_vars => IInv'
  BY NextInvariant
<1>3. QED
  BY <1>1, <1>2, PTL DEF Spec

\* Every variable keeps its type: CAUndo::_undoStack maps documents to
\* stacks, and a command holds two documents.
THEOREM TypeCorrect == Spec => []TypeOK
<1>1. IInv => TypeOK
  BY DEF IInv
<1>2. QED
  BY <1>1, InvariantHolds, PTL

\* Nothing that a window shows or that a command keeps has been deleted, by
\* ~CAUndoCommand, clearUndoCommand, deleteUndoStack or the closing of a
\* window: undo, redo and drawing never reach freed memory.
THEOREM NothingDangles == Spec => []NoDangling
<1>1. IInv => NoDangling
  BY DEF IInv
<1>2. QED
  BY <1>1, InvariantHolds, PTL

\* The relinking in pushUndoCommand keeps each stack one chain of versions,
\* and a window shows the version at _undoIndex.
THEOREM StacksAreChains == Spec => []Chained
<1>1. IInv => Chained
  BY DEF IInv
<1>2. QED
  BY <1>1, InvariantHolds, PTL

\* No document is kept as a version twice, so destroying a stack deletes
\* every document once (~CAUndoCommand, CAUndo::deleteUndoStack).
THEOREM VersionsAreDistinct == Spec => []VersionsDistinct
<1>1. IInv => VersionsDistinct
  BY DEF IInv
<1>2. QED
  BY <1>1, InvariantHolds, PTL

\* Every version finds its stack in CAUndo::_undoStack, whichever pushes and
\* discards came before, and belongs to the stack that holds it.
THEOREM StacksAreFound == Spec => []StackFound
<1>1. IInv => StackFound
  BY DEF IInv
<1>2. QED
  BY <1>1, InvariantHolds, PTL

\* undoDocument moves all the windows of a document at once: the windows of
\* one stack always show one version of it, and a stack outlives none of
\* its windows.
THEOREM WindowsShowOneVersion == Spec => []WindowsAgree
<1>1. IInv => WindowsAgree
  BY DEF IInv
<1>2. QED
  BY <1>1, InvariantHolds, PTL

-----------------------------------------------------------------------------
(* The file name.                                                          *)

\* Undo and redo move windows from one end of a command to the other, and
\* hand the name over in the same direction.
LEMMA UndoHandsOver ==
  ASSUME IInv, NEW w \in Windows, UndoOne(w)
  PROVE  HandsOverFileName
<1> DEFINE s == undoStack[mainWinDoc[w]]
           c == commands[s][undoIndex[s]]
<1>1. mainWinDoc[w] \in Shown /\ undoIndex[s] > 0
  BY DEF UndoOne, CanUndo, Shown
<1>2. s \in Stacks /\ undoIndex[s] \in 1 .. Len(commands[s])
  BY <1>1, ShownAt, StackOf DEF IInv, StackFound
<1>3. c.undo \in Docs
  BY <1>2, CommandOf
<1>4. fileName'[c.undo] = fileName[c.redo]
  BY <1>3 DEF UndoOne, FileNameTo, IInv, TypeOK
<1>5. mainWinDoc' = SwitchWindows(c.redo, c.undo)
  BY DEF UndoOne
<1> HIDE DEF c
<1>6. QED
  BY <1>4, <1>5 DEF HandsOverFileName, SwitchWindows

LEMMA RedoHandsOver ==
  ASSUME IInv, NEW w \in Windows, RedoOne(w)
  PROVE  HandsOverFileName
<1> DEFINE s == undoStack[mainWinDoc[w]]
           c == commands[s][undoIndex[s] + 1]
<1>1. mainWinDoc[w] \in Shown /\ undoIndex[s] < Len(commands[s])
  BY DEF RedoOne, CanRedo, Shown
<1>2. s \in Stacks /\ undoIndex[s] + 1 \in 1 .. Len(commands[s])
  BY <1>1, ShownAt, StackOf DEF IInv, StackFound
<1>3. c.redo \in Docs
  BY <1>2, CommandOf
<1>4. fileName'[c.redo] = fileName[c.undo]
  BY <1>3 DEF RedoOne, FileNameTo, IInv, TypeOK
<1>5. mainWinDoc' = SwitchWindows(c.undo, c.redo)
  BY DEF RedoOne
<1> HIDE DEF c
<1>6. QED
  BY <1>4, <1>5 DEF HandsOverFileName, SwitchWindows

\* A document that is opened or created gets a stack no other document has.
LEMMA ShowHandsOver ==
  ASSUME IInv, NEW w \in Windows, NEW d \in Docs, NEW s \in Stacks,
         NEW sc, NEW dd, NEW f, Show(w, d, s, sc, dd, f)
  PROVE  HandsOverFileName
<1> SUFFICES ASSUME NEW v \in Windows,
                    mainWinDoc[v] # NoDoc, mainWinDoc[v] # mainWinDoc'[v],
                    undoStack'[mainWinDoc[v]] = undoStack'[mainWinDoc'[v]]
             PROVE  FALSE
  BY DEF HandsOverFileName
<1>1. v = w /\ mainWinDoc'[v] = d /\ mainWinDoc[v] \in Docs
  BY DEF Show, IInv, TypeOK
<1>2. undoStack' = [UndoStackAfterLeaving(w) EXCEPT ![d] = s]
  BY DEF Show
<1>3. /\ undoStack'[d] = s
      /\ undoStack'[mainWinDoc[v]] = UndoStackAfterLeaving(w)[mainWinDoc[v]]
  BY <1>1, <1>2 DEF UndoStackAfterLeaving
<1>4. UndoStackAfterLeaving(w)[mainWinDoc[v]] \in Range(UndoStackAfterLeaving(w))
  BY <1>1 DEF Range, UndoStackAfterLeaving
<1>5. s \notin Range(UndoStackAfterLeaving(w))
  BY DEF Show
<1>6. QED
  BY <1>1, <1>3, <1>4, <1>5

LEMMA NextHandsOver == IInv /\ [Next]_vars => HandsOverFileName
<1> SUFFICES ASSUME IInv, [Next]_vars
             PROVE  HandsOverFileName
  OBVIOUS
<1>1. ASSUME mainWinDoc' = mainWinDoc
      PROVE  HandsOverFileName
  BY <1>1 DEF HandsOverFileName
<1>2. CASE UNCHANGED vars
  BY <1>1, <1>2 DEF vars
<1>3. ASSUME NEW w \in Windows, WindowNext(w)
      PROVE  HandsOverFileName
  <2>1. ASSUME NEW u \in Docs, AbandonEdit(w, u)
        PROVE  HandsOverFileName
    BY <1>1, <2>1 DEF AbandonEdit
  <2>2. ASSUME NEW u \in Docs, NEW sc \in Scores, NEW dd \in Dedications,
               Edit(w, u, sc, dd)
        PROVE  HandsOverFileName
    BY <1>1, <2>2 DEF Edit
  <2>3. CASE UndoOne(w)
    BY <2>3, UndoHandsOver
  <2>4. CASE RedoOne(w)
    BY <2>4, RedoHandsOver
  <2>5. ASSUME NEW d \in Docs, NEW s \in Stacks, NewDocument(w, d, s)
        PROVE  HandsOverFileName
    BY <2>5, ShowHandsOver DEF NewDocument
  <2>6. ASSUME NEW d \in Docs, NEW s \in Stacks, NEW n \in Names,
               OpenDocument(w, d, s, n)
        PROVE  HandsOverFileName
    BY <2>6, ShowHandsOver DEF OpenDocument
  <2>7. ASSUME NEW v \in Windows, NewWindow(v, w)
        PROVE  HandsOverFileName
    BY <2>7 DEF NewWindow, HandsOverFileName, IInv, TypeOK
  <2>8. CASE CloseDocument(w)
    BY <2>8 DEF CloseDocument, HandsOverFileName, IInv, TypeOK
  <2>9. ASSUME NEW n \in Names, Save(w, n)
        PROVE  HandsOverFileName
    BY <1>1, <2>9 DEF Save
  <2>10. QED
    BY <1>3, <2>1, <2>2, <2>3, <2>4, <2>5, <2>6, <2>7, <2>8, <2>9 DEF WindowNext
<1>4. QED
  BY <1>2, <1>3 DEF Next

\* Whatever happens to a window that stays on its stack, the name of the
\* file it saves to stays (CAUndoCommand::undo and redo hand it over).
THEOREM FileNameIsKept == Spec => KeepsFileName
<1>1. IInv /\ [Next]_vars => [HandsOverFileName]_vars
  BY NextHandsOver
<1>2. QED
  BY <1>1, InvariantHolds, PTL DEF Spec, KeepsFileName

-----------------------------------------------------------------------------
(* What is saved.                                                          *)

\* What SavedMembers asks of the shown document e and a version d of its
\* stack, as far as the file and the contents go.
LEMMA UndoSaves ==
  ASSUME IInv, SavedMembers, NEW w \in Windows, NEW old \in Shown, NEW new \in Docs,
         undoStack[old] = undoStack[new],
         fileName' = FileNameTo(new, old),
         mainWinDoc' = SwitchWindows(old, new),
         UNCHANGED <<score, dedication, modified, undoStack, disk>>
  PROVE  SavedMembers'
<1> SUFFICES ASSUME NEW e \in Shown', NEW d \in Docs, fileName'[e] # NoName
             PROVE  LET f == disk[fileName'[e]]
                    IN /\ f # NoFile
                       /\ undoStack[d] = undoStack[e] /\ ~modified[d] /\ f.writer = d
                            => f.score = score[d] /\ f.dedication = dedication[d]
  BY DEF SavedMembers
<1>1. fileName'[new] = fileName[old]
  BY DEF FileNameTo, IInv, TypeOK
<1>2. CASE e = new
  BY <1>1, <1>2 DEF SavedMembers
<1>3. CASE e # new
  <2>1. e \in Shown
    BY <1>3 DEF Shown, SwitchWindows
  <2>2. fileName'[e] = fileName[e]
    BY <1>3, <2>1, ShownAt DEF FileNameTo, IInv, TypeOK
  <2>3. QED
    BY <2>1, <2>2 DEF SavedMembers
<1>4. QED
  BY <1>2, <1>3

\* An edit marks the clone and the shown document; a version that is still
\* unmarked has not been touched.
LEMMA EditSaves ==
  ASSUME IInv, IInv', SavedMembers, NEW w \in Windows, NEW u \in Docs,
         NEW sc \in Scores, NEW dd \in Dedications, Edit(w, u, sc, dd)
  PROVE  SavedMembers'
<1> DEFINE r == mainWinDoc[w]
           s == undoStack[r]
           c == [undo |-> u, redo |-> r]
<1>1. r \in Docs /\ u \in Docs /\ c.undo = u /\ c.redo = r
  BY DEF Edit, IInv, TypeOK
<1>2. undoStack[u] = NoStack /\ u \notin Shown
  BY CloneIsNew DEF Edit
<1>3. /\ modified' = ModifiedAfterPush(c, [modified EXCEPT ![u] = FALSE])
      /\ undoStack' = UndoStackAfterPush(s, c)
      /\ score' = [[score EXCEPT ![u] = score[r]] EXCEPT ![r] = sc]
      /\ dedication' = [[dedication EXCEPT ![u] = FALSE] EXCEPT ![r] = dd]
      /\ fileName' = [fileName EXCEPT ![u] = fileName[r]]
      /\ UNCHANGED <<mainWinDoc, disk>>
  BY DEF Edit, Push, Cloned
<1> HIDE DEF c
<1>4. modified'[u] /\ modified'[r]
  BY <1>1, <1>3 DEF ModifiedAfterPush, IInv, TypeOK
<1>5. ASSUME NEW d \in Docs, d # u, d # r
      PROVE  /\ modified'[d] = modified[d]
             /\ score'[d] = score[d] /\ dedication'[d] = dedication[d]
  BY <1>1, <1>3, <1>5 DEF ModifiedAfterPush, IInv, TypeOK
<1>6. ASSUME NEW d \in Docs, d # u
      PROVE  undoStack'[d] \in {undoStack[d], NoStack}
  BY <1>1, <1>3, <1>6 DEF UndoStackAfterPush
<1> SUFFICES ASSUME NEW e \in Shown', NEW d \in Docs, fileName'[e] # NoName
             PROVE  LET f == disk[fileName'[e]]
                    IN /\ f # NoFile
                       /\ undoStack'[d] = undoStack'[e] /\ ~modified'[d] /\ f.writer = d
                            => f.score = score'[d] /\ f.dedication = dedication'[d]
  BY <1>3 DEF SavedMembers
<1>7. e \in Shown /\ e \in Docs /\ e # u
  BY <1>2, <1>3, ShownAt DEF Shown
<1>8. fileName'[e] = fileName[e]
  BY <1>3, <1>7 DEF IInv, TypeOK
<1>9. undoStack'[e] # NoStack /\ undoStack'[e] = undoStack[e]
  BY <1>6, <1>7 DEF IInv, StackFound
<1>10. QED
  BY <1>4, <1>5, <1>6, <1>7, <1>8, <1>9 DEF SavedMembers

LEMMA AbandonSaves ==
  ASSUME IInv, SavedMembers, NEW w \in Windows, NEW u \in Docs, AbandonEdit(w, u)
  PROVE  SavedMembers'
<1> DEFINE r == mainWinDoc[w]
<1>1. undoStack[u] = NoStack /\ u \notin Shown
  BY CloneIsNew DEF AbandonEdit
<1>2. /\ modified' = [modified EXCEPT ![u] = FALSE]
      /\ score' = [score EXCEPT ![u] = score[r]]
      /\ dedication' = [dedication EXCEPT ![u] = FALSE]
      /\ fileName' = [fileName EXCEPT ![u] = fileName[r]]
      /\ UNCHANGED <<mainWinDoc, undoStack, disk>>
  BY DEF AbandonEdit, Cloned
<1>3. \A d \in Docs \ {u} :
        /\ modified'[d] = modified[d] /\ score'[d] = score[d]
        /\ dedication'[d] = dedication[d] /\ fileName'[d] = fileName[d]
  BY <1>2 DEF IInv, TypeOK
<1>4. Shown' = Shown
  BY <1>2 DEF Shown
<1>5. \A e \in Shown : e \in Docs /\ e # u /\ undoStack[e] # NoStack
  BY <1>1, ShownAt DEF IInv, StackFound
<1> SUFFICES ASSUME NEW e \in Shown, NEW d \in Docs, fileName'[e] # NoName
             PROVE  LET f == disk[fileName'[e]]
                    IN /\ f # NoFile
                       /\ undoStack[d] = undoStack[e] /\ ~modified'[d] /\ f.writer = d
                            => f.score = score'[d] /\ f.dedication = dedication'[d]
  BY <1>2, <1>4 DEF SavedMembers
<1>6. fileName'[e] = fileName[e]
  BY <1>3, <1>5
<1>7. undoStack[d] = undoStack[e] => d # u
  BY <1>1, <1>5
<1>8. QED
  BY <1>3, <1>6, <1>7 DEF SavedMembers

\* The file a window saves to is that of its own version; a stack of another
\* window that has the same file did not write it any more.
LEMMA SaveSaves ==
  ASSUME IInv, SavedMembers, NEW w \in Windows, NEW n \in Names, Save(w, n)
  PROVE  SavedMembers'
<1> DEFINE r == mainWinDoc[w]
           file == [score |-> score[r], dedication |-> dedication[r], writer |-> r]
<1>1. r \in Docs /\ r \in Shown
  BY DEF Save, Shown, IInv, TypeOK
<1>2. /\ disk' = [disk EXCEPT ![n] = file]
      /\ fileName' = [fileName EXCEPT ![r] = n]
      /\ modified' = [modified EXCEPT ![r] = FALSE]
      /\ UNCHANGED <<score, dedication, mainWinDoc, undoStack>>
  BY DEF Save, undoVars
<1>3. file # NoFile /\ file.writer = r
      /\ file.score = score[r] /\ file.dedication = dedication[r]
  BY <1>1, NullAssumption DEF File, IInv, TypeOK
<1> HIDE DEF file
<1>4. disk'[n] = file
  BY <1>2 DEF IInv, TypeOK
<1>5. Shown' = Shown
  BY <1>2 DEF Shown
<1> SUFFICES ASSUME NEW e \in Shown, NEW d \in Docs, fileName'[e] # NoName
             PROVE  LET f == disk'[fileName'[e]]
                    IN /\ f # NoFile
                       /\ undoStack[d] = undoStack[e] /\ ~modified'[d] /\ f.writer = d
                            => f.score = score[d] /\ f.dedication = dedication[d]
  BY <1>2, <1>5 DEF SavedMembers
<1>6. e \in Docs
  BY ShownAt
<1>7. CASE fileName'[e] = n
  BY <1>3, <1>4, <1>7
<1>8. CASE fileName'[e] # n
  <2>1. e # r
    BY <1>1, <1>2, <1>8 DEF IInv, TypeOK
  <2>2. fileName'[e] = fileName[e] /\ disk'[fileName'[e]] = disk[fileName[e]]
    BY <1>2, <1>6, <1>8, <2>1 DEF IInv, TypeOK
  <2>3. undoStack[d] = undoStack[e] => d # r
    BY <1>1, <2>1, ShownOnce
  <2>4. d # r => modified'[d] = modified[d]
    BY <1>2 DEF IInv, TypeOK
  <2>5. QED
    BY <2>2, <2>3, <2>4 DEF SavedMembers
<1>9. QED
  BY <1>7, <1>8

LEMMA NewWindowSaves ==
  ASSUME IInv, SavedMembers, NEW v \in Windows, NEW w \in Windows, NewWindow(v, w)
  PROVE  SavedMembers'
<1>1. Shown' \subseteq Shown
  BY DEF NewWindow, Shown, IInv, TypeOK
<1>2. UNCHANGED <<fileName, disk, undoStack, modified, score, dedication>>
  BY DEF NewWindow, docVars, undoVars
<1>3. QED
  BY <1>1, <1>2 DEF SavedMembers

LEMMA CloseSaves ==
  ASSUME IInv, IInv', SavedMembers, NEW w \in Windows, CloseDocument(w)
  PROVE  SavedMembers'
<1>1. Shown' \subseteq Shown
  BY DEF CloseDocument, Shown, IInv, TypeOK
<1>2. /\ undoStack' = UndoStackAfterLeaving(w)
      /\ UNCHANGED <<fileName, disk, modified, score, dedication>>
  BY DEF CloseDocument
<1>3. \A d \in Docs : undoStack'[d] \in {undoStack[d], NoStack}
  BY <1>2 DEF UndoStackAfterLeaving
<1>4. \A e \in Shown' : e \in Docs /\ undoStack'[e] # NoStack
  BY <1>1, ShownAt DEF IInv, StackFound
<1>5. QED
  BY <1>1, <1>2, <1>3, <1>4 DEF SavedMembers

\* The new document d is what its file holds, if it has one, and is no
\* version of another stack.
LEMMA ShowSaves ==
  ASSUME IInv, IInv', SavedMembers, NEW w \in Windows, NEW d \in Docs,
         NEW s \in Stacks, NEW sc, NEW dd, NEW f,
         Show(w, d, s, sc, dd, f),
         f # NoName => /\ disk'[f] # NoFile
                       /\ disk'[f].score = sc /\ disk'[f].dedication = dd,
         \A n \in Names : \/ disk'[n] = disk[n]
                          \/ disk'[n] # NoFile /\ disk'[n].writer = d
  PROVE  SavedMembers'
<1> DEFINE key == UndoStackAfterLeaving(w)
<1>1. /\ mainWinDoc' = [mainWinDoc EXCEPT ![w] = d]
      /\ undoStack' = [key EXCEPT ![d] = s]
      /\ s \notin Range(key)
      /\ score' = [score EXCEPT ![d] = sc]
      /\ dedication' = [dedication EXCEPT ![d] = dd]
      /\ modified' = [modified EXCEPT ![d] = FALSE]
      /\ fileName' = [fileName EXCEPT ![d] = f]
  BY DEF Show
<1>2. \A x \in Docs : key[x] # s /\ key[x] \in {undoStack[x], NoStack}
  BY <1>1 DEF Range, UndoStackAfterLeaving
<1>3. undoStack'[d] = s /\ \A x \in Docs \ {d} : undoStack'[x] = key[x]
  BY <1>1 DEF UndoStackAfterLeaving
<1>4. /\ score'[d] = sc /\ dedication'[d] = dd /\ fileName'[d] = f
      /\ \A x \in Docs \ {d} :
           /\ modified'[x] = modified[x] /\ score'[x] = score[x]
           /\ dedication'[x] = dedication[x] /\ fileName'[x] = fileName[x]
  BY <1>1 DEF IInv, TypeOK
<1> SUFFICES ASSUME NEW e \in Shown', NEW x \in Docs, fileName'[e] # NoName
             PROVE  LET g == disk'[fileName'[e]]
                    IN /\ g # NoFile
                       /\ undoStack'[x] = undoStack'[e] /\ ~modified'[x] /\ g.writer = x
                            => g.score = score'[x] /\ g.dedication = dedication'[x]
  BY DEF SavedMembers
<1>5. CASE e = d
  <2>1. undoStack'[x] = undoStack'[e] => x = d
    BY <1>2, <1>3, <1>5
  <2>2. QED
    BY <1>4, <1>5, <2>1
<1>6. CASE e # d
  <2>1. e \in Shown /\ e \in Docs
    BY <1>1, <1>6, ShownAt DEF Shown, IInv, TypeOK
  <2>2. undoStack'[e] # NoStack
    BY DEF IInv, StackFound
  <2>3. undoStack'[e] = undoStack[e] /\ undoStack'[e] # s
    BY <1>2, <1>3, <1>6, <2>1, <2>2
  <2>4. undoStack'[x] = undoStack'[e] => x # d /\ undoStack[x] = undoStack[e]
    BY <1>2, <1>3, <2>2, <2>3
  <2>5. fileName'[e] = fileName[e] /\ fileName[e] \in Names
    BY <1>4, <1>6, <2>1 DEF IInv, TypeOK
  <2>6. CASE disk'[fileName[e]] = disk[fileName[e]]
    BY <1>4, <2>1, <2>4, <2>5, <2>6 DEF SavedMembers
  <2>7. CASE disk'[fileName[e]] # NoFile /\ disk'[fileName[e]].writer = d
    BY <2>4, <2>5, <2>7
  <2>8. QED
    BY <2>5, <2>6, <2>7
<1>7. QED
  BY <1>5, <1>6

LEMMA NextSaves == IInv /\ SavedMembers /\ [Next]_vars => SavedMembers'
<1> SUFFICES ASSUME IInv, SavedMembers, [Next]_vars
             PROVE  SavedMembers'
  OBVIOUS
<1>1. IInv'
  BY NextInvariant
<1>2. CASE UNCHANGED vars
  BY <1>2 DEF vars, docVars, undoVars, SavedMembers, Shown
<1>3. ASSUME NEW w \in Windows, WindowNext(w)
      PROVE  SavedMembers'
  <2>1. ASSUME NEW u \in Docs, AbandonEdit(w, u)
        PROVE  SavedMembers'
    BY <2>1, AbandonSaves
  <2>2. ASSUME NEW u \in Docs, NEW sc \in Scores, NEW dd \in Dedications,
               Edit(w, u, sc, dd)
        PROVE  SavedMembers'
    BY <1>1, <2>2, EditSaves
  <2>3. CASE UndoOne(w)
    <3> DEFINE s == undoStack[mainWinDoc[w]]
               c == commands[s][undoIndex[s]]
    <3>1. mainWinDoc[w] \in Shown /\ undoIndex[s] > 0
      BY <2>3 DEF UndoOne, CanUndo, Shown
    <3>2. s \in Stacks /\ undoIndex[s] \in 1 .. Len(commands[s]) /\ c.redo \in Shown
      BY <3>1, ShownAt, StackOf DEF IInv, StackFound
    <3>3. c.undo \in Docs /\ undoStack[c.undo] = undoStack[c.redo]
      BY <3>2, CommandOf
    <3>4. /\ fileName' = FileNameTo(c.undo, c.redo)
          /\ mainWinDoc' = SwitchWindows(c.redo, c.undo)
          /\ UNCHANGED <<score, dedication, modified, undoStack, disk>>
      BY <2>3 DEF UndoOne
    <3> HIDE DEF c
    <3>5. QED
      BY <3>2, <3>3, <3>4, UndoSaves
  <2>4. CASE RedoOne(w)
    <3> DEFINE s == undoStack[mainWinDoc[w]]
               c == commands[s][undoIndex[s] + 1]
    <3>1. mainWinDoc[w] \in Shown /\ undoIndex[s] < Len(commands[s])
      BY <2>4 DEF RedoOne, CanRedo, Shown
    <3>2. s \in Stacks /\ undoIndex[s] + 1 \in 1 .. Len(commands[s]) /\ c.undo \in Shown
      BY <3>1, ShownAt, StackOf DEF IInv, StackFound
    <3>3. c.redo \in Docs /\ undoStack[c.undo] = undoStack[c.redo]
      BY <3>2, CommandOf
    <3>4. /\ fileName' = FileNameTo(c.redo, c.undo)
          /\ mainWinDoc' = SwitchWindows(c.undo, c.redo)
          /\ UNCHANGED <<score, dedication, modified, undoStack, disk>>
      BY <2>4 DEF RedoOne
    <3> HIDE DEF c
    <3>5. QED
      BY <3>2, <3>3, <3>4, UndoSaves
  <2>5. ASSUME NEW d \in Docs, NEW s \in Stacks, NewDocument(w, d, s)
        PROVE  SavedMembers'
    <3>1. Show(w, d, s, Blank, FALSE, NoName) /\ disk' = disk
      BY <2>5 DEF NewDocument
    <3>2. QED
      BY <1>1, <3>1, ShowSaves
  <2>6. ASSUME NEW d \in Docs, NEW s \in Stacks, NEW n \in Names,
               OpenDocument(w, d, s, n)
        PROVE  SavedMembers'
    <3> DEFINE file == [disk[n] EXCEPT !.writer = d]
    <3>1. disk[n] \in File /\ disk \in [Names -> File \cup {NoFile}]
      BY <2>6 DEF OpenDocument, IInv, TypeOK
    <3>2. /\ file \in File /\ file.writer = d
          /\ file.score = disk[n].score /\ file.dedication = disk[n].dedication
      BY <3>1 DEF File
    <3>3. disk' = [disk EXCEPT ![n] = file] /\ Show(w, d, s, disk[n].score, disk[n].dedication, n)
      BY <2>6 DEF OpenDocument
    <3> HIDE DEF file
    <3>4. /\ disk'[n] = file /\ file # NoFile
          /\ \A m \in Names \ {n} : disk'[m] = disk[m]
      BY <3>1, <3>2, <3>3, NullAssumption
    <3>5. QED
      BY <1>1, <3>2, <3>3, <3>4, ShowSaves
  <2>7. ASSUME NEW v \in Windows, NewWindow(v, w)
        PROVE  SavedMembers'
    BY <2>7, NewWindowSaves
  <2>8. CASE CloseDocument(w)
    BY <1>1, <2>8, CloseSaves
  <2>9. ASSUME NEW n \in Names, Save(w, n)
        PROVE  SavedMembers'
    BY <2>9, SaveSaves
  <2>10. QED
    BY <1>3, <2>1, <2>2, <2>3, <2>4, <2>5, <2>6, <2>7, <2>8, <2>9 DEF WindowNext
<1>4. QED
  BY <1>2, <1>3 DEF Next

\* No version that an undo or a redo can bring back passes for saved while
\* its file, as it wrote it, holds something else: pushUndoCommand marks
\* both ends of an edit, and saveDocument clears only what it writes.
THEOREM MembersAreSaved == Spec => []SavedMembers
<1>1. Init => SavedMembers
  BY DEF Init, SavedMembers, Shown
<1>2. IInv /\ SavedMembers /\ [Next]_vars => SavedMembers'
  BY NextSaves
<1>3. QED
  BY <1>1, <1>2, InvariantHolds, PTL DEF Spec

\* A window whose document is not marked modified shows what its file holds,
\* if that document wrote it last: as far as _modified can be trusted by
\* handleUnsavedChanges.
THEOREM CleanIsSaved == Spec => []CleanMeansSaved
<1>1. IInv /\ SavedMembers => CleanMeansSaved
  BY ShownAt DEF SavedMembers, CleanMeansSaved
<1>2. QED
  BY <1>1, InvariantHolds, MembersAreSaved, PTL

-----------------------------------------------------------------------------
(* Undo implements EditHistory: whatever a window does, every stack makes  *)
(* a step of the history of edits, undos and redos its user expects, or    *)
(* none, for any number of documents, stacks and windows.                  *)

\* The variables of EditHistory, as History(s) maps them.
Versions(s) == [i \in DOMAIN Chain(s) |-> score[Chain(s)[i]]]
Cursor(s) == IF Chain(s) = << >> THEN 0 ELSE undoIndex[s] + 1

\* What they are: of a stack that some document belongs to, one version more
\* than there are commands.
HistoryIs(s) ==
  LET cs == commands[s]
      n == Len(commands[s])
  IN /\ s \notin OpenStacks => Versions(s) = << >> /\ Cursor(s) = 0
     /\ s \in OpenStacks =>
          /\ n \in Nat /\ undoIndex[s] \in 0 .. n /\ Cursor(s) = undoIndex[s] + 1
          /\ Versions(s) \in Seq(Scores) /\ Len(Versions(s)) = n + 1
          /\ \A i \in 1 .. n : Versions(s)[i] = score[cs[i].undo]
          /\ n > 0 => Versions(s)[n + 1] = score[cs[n].redo]
          /\ n = 0 => \A d \in Docs : undoStack[d] = s => Versions(s)[1] = score[d]

-----------------------------------------------------------------------------
(* The steps of EditHistory, in these terms.                               *)

LEMMA Stutters ==
  ASSUME NEW s \in Stacks, Versions(s)' = Versions(s), Cursor(s)' = Cursor(s)
  PROVE  [History(s)!Next]_(History(s)!vars)
BY DEF History!vars, Versions, Cursor

LEMMA Edits ==
  ASSUME NEW s \in Stacks, NEW v \in Scores, Cursor(s) > 0,
         Versions(s)' = Append(SubSeq(Versions(s), 1, Cursor(s)), v),
         Cursor(s)' = Cursor(s) + 1
  PROVE  [History(s)!Next]_(History(s)!vars)
BY DEF History!Next, History!Edit, Versions, Cursor

LEMMA Undoes ==
  ASSUME NEW s \in Stacks, Cursor(s) > 1, Versions(s)' = Versions(s),
         Cursor(s)' = Cursor(s) - 1
  PROVE  [History(s)!Next]_(History(s)!vars)
BY DEF History!Next, History!Undo, Versions, Cursor

LEMMA Redoes ==
  ASSUME NEW s \in Stacks, Cursor(s) \in 1 .. Len(Versions(s)) - 1,
         Versions(s)' = Versions(s), Cursor(s)' = Cursor(s) + 1
  PROVE  [History(s)!Next]_(History(s)!vars)
BY DEF History!Next, History!Redo, Versions, Cursor

LEMMA Opens ==
  ASSUME NEW s \in Stacks, NEW v \in Scores, Versions(s)' = <<v>>, Cursor(s)' = 1
  PROVE  [History(s)!Next]_(History(s)!vars)
BY DEF History!Next, History!Open, Versions, Cursor

LEMMA Closes ==
  ASSUME NEW s \in Stacks, Versions(s)' = << >>, Cursor(s)' = 0
  PROVE  [History(s)!Next]_(History(s)!vars)
BY DEF History!Next, History!Close, Versions, Cursor

-----------------------------------------------------------------------------
(* The history of a stack.                                                 *)

LEMMA HistoryShape == ASSUME NEW s \in Stacks, IInv PROVE HistoryIs(s)
<1> DEFINE cs == commands[s]
           n == Len(commands[s])
<1>1. /\ cs \in Seq(Command) /\ n \in Nat /\ DOMAIN cs = 1 .. n
      /\ cs = << >> <=> n = 0
  BY LenProperties, EmptySeq DEF IInv, TypeOK
<1>2. s # NoStack /\ score \in [Docs -> Scores]
  BY NullAssumption DEF IInv, TypeOK
<1>3. OpenStacks = {undoStack[d] : d \in Docs} \ {NoStack}
  BY DEF OpenStacks, Range, IInv, TypeOK
<1>4. CASE s \notin OpenStacks
  <2>1. cs = << >>
    BY <1>4 DEF IInv, Ownership
  <2>2. Members(s) = {}
    BY <1>2, <1>3, <1>4 DEF Members, Shown, IInv, TypeOK
  <2>3. Chain(s) = << >>
    BY <2>1, <2>2 DEF Chain
  <2>4. Versions(s) = << >> /\ Cursor(s) = 0
    BY <2>3 DEF Versions, Cursor
  <2>5. QED
    BY <1>4, <2>4 DEF HistoryIs
<1>5. CASE s \in OpenStacks
  <2>1. undoIndex[s] \in 0 .. n
    BY <1>5 DEF IInv, Chained
  <2>2. CASE n > 0
    <3>1. \A i \in 1 .. n : cs[i] \in Command /\ cs[i].undo \in Docs /\ cs[i].redo \in Docs
      BY <1>1, CommandOf
    <3>2. Last(cs) = cs[n] /\ n \in 1 .. n
      BY <1>1, <2>2 DEF Last
    <3>3. Chain(s) = [i \in 1 .. n + 1 |-> IF i <= n THEN cs[i].undo ELSE cs[n].redo]
      BY <1>1, <2>2, <3>2 DEF Chain
    <3> DEFINE v == [i \in 1 .. n + 1 |-> score[IF i <= n THEN cs[i].undo ELSE cs[n].redo]]
    <3>4. Versions(s) = v /\ DOMAIN Chain(s) = 1 .. n + 1
      BY <3>3 DEF Versions
    <3>5. Chain(s) # << >>
      <4>1. 1 \in DOMAIN Chain(s)
        BY <1>1, <3>4
      <4>2. QED
        BY <4>1
    <3>6. \A i \in 1 .. n + 1 : (IF i <= n THEN cs[i].undo ELSE cs[n].redo) \in Docs
      BY <1>1, <3>1, <3>2
    <3>7. v \in [1 .. n + 1 -> Scores]
      BY <1>2, <3>6
    <3>8. n + 1 \in Nat
      BY <1>1
    <3>9. v \in Seq(Scores) /\ Len(v) = n + 1
      <4> HIDE DEF v
      <4>1. QED
        BY <3>7, <3>8, FunctionIsSeq
    <3>10. /\ \A i \in 1 .. n : v[i] = score[cs[i].undo]
           /\ v[n + 1] = score[cs[n].redo]
      BY <1>1
    <3>11. Cursor(s) = undoIndex[s] + 1
      BY <3>5 DEF Cursor
    <3> HIDE DEF v
    <3>12. QED
      BY <1>1, <1>5, <2>1, <2>2, <3>4, <3>9, <3>10, <3>11 DEF HistoryIs
  <2>3. CASE n = 0
    <3>1. cs = << >>
      BY <1>1, <2>3
    <3>2. PICK e \in Shown : undoStack[e] = s
      BY <1>3, <1>5 DEF IInv, WindowsAgree
    <3>3. e \in Docs
      BY <3>2 DEF Shown, IInv, TypeOK
    <3>4. \A d \in Docs : undoStack[d] = s => d = e
      BY <1>2, <3>1, <3>2, <3>3 DEF IInv, Ownership
    <3>5. Members(s) = {e}
      BY <3>2, <3>4 DEF Members, Shown, IInv, TypeOK
    <3>6. Chain(s) = <<e>>
      BY <3>1, <3>5 DEF Chain
    <3>7. Versions(s) = [i \in 1 .. 1 |-> score[e]]
      BY <3>6 DEF Versions
    <3>8. Versions(s) \in Seq(Scores) /\ Len(Versions(s)) = 1 /\ Versions(s)[1] = score[e]
      <4>1. Versions(s) \in [1 .. 1 -> Scores]
        BY <1>2, <3>3, <3>7
      <4>2. QED
        BY <3>7, <4>1, FunctionIsSeq
    <3>9. Cursor(s) = undoIndex[s] + 1
      BY <3>6 DEF Cursor
    <3>10. QED
      BY <1>1, <1>5, <2>1, <2>3, <3>4, <3>8, <3>9 DEF HistoryIs
  <2>4. QED
    BY <1>1, <2>2, <2>3
<1>6. QED
  BY <1>4, <1>5

LEMMA HistoryShapes == \A r \in Stacks : IInv => HistoryIs(r)
BY HistoryShape

LEMMA HistoryShapesNext == (\A r \in Stacks : IInv => HistoryIs(r))'
BY HistoryShapes, PTL

LEMMA OpenIs ==
  IInv => \A t \in Stacks : t \in OpenStacks <=> \E d \in Docs : undoStack[d] = t
BY NullAssumption DEF IInv, TypeOK, OpenStacks, Range

LEMMA OpenIsNext ==
  (IInv => \A t \in Stacks : t \in OpenStacks <=> \E d \in Docs : undoStack[d] = t)'
BY OpenIs, PTL

-----------------------------------------------------------------------------
(* What a step does to the history of a stack.                             *)

\* A step that leaves the commands of a stack, its documents and what they
\* hold as they are is no step of its history.
LEMMA SameHistory ==
  ASSUME IInv, IInv', NEW t \in Stacks,
         commands'[t] = commands[t], undoIndex'[t] = undoIndex[t],
         \A d \in Docs : undoStack'[d] = t <=> undoStack[d] = t,
         \A d \in Docs : undoStack[d] = t => score'[d] = score[d]
  PROVE  /\ Versions(t)' = Versions(t)
         /\ Cursor(t)' = Cursor(t)
         /\ [History(t)!Next]_(History(t)!vars)
<1> DEFINE n == Len(commands[t])
<1>1. HistoryIs(t) /\ HistoryIs(t)'
  BY HistoryShapes, HistoryShapesNext
<1>2. t \in OpenStacks' <=> t \in OpenStacks
  BY OpenIs, OpenIsNext
<1>3. CASE t \notin OpenStacks
  <2>1. Versions(t)' = Versions(t) /\ Cursor(t)' = Cursor(t)
    BY <1>1, <1>2, <1>3 DEF HistoryIs
  <2>2. QED
    BY <2>1, Stutters
<1>4. CASE t \in OpenStacks
  <2> DEFINE a == Versions(t)
             b == Versions(t)'
  <2>1. /\ n \in Nat
        /\ a \in Seq(Scores) /\ Len(a) = n + 1
        /\ \A i \in 1 .. n : a[i] = score[commands[t][i].undo]
        /\ n > 0 => a[n + 1] = score[commands[t][n].redo]
        /\ n = 0 => \A d \in Docs : undoStack[d] = t => a[1] = score[d]
    BY <1>1, <1>4 DEF HistoryIs
  <2>2. /\ b \in Seq(Scores) /\ Len(b) = n + 1
        /\ \A i \in 1 .. n : b[i] = score'[commands[t][i].undo]
        /\ n > 0 => b[n + 1] = score'[commands[t][n].redo]
        /\ n = 0 => \A d \in Docs : undoStack[d] = t => b[1] = score'[d]
    BY <1>1, <1>2, <1>4 DEF HistoryIs
  <2>3. Cursor(t)' = Cursor(t)
    BY <1>1, <1>2, <1>4 DEF HistoryIs
  <2>4. \A i \in 1 .. n : /\ score'[commands[t][i].undo] = score[commands[t][i].undo]
                          /\ score'[commands[t][i].redo] = score[commands[t][i].redo]
    BY CommandOf
  <2>5. PICK e \in Docs : undoStack[e] = t
    BY <1>4, OpenIs
  <2> HIDE DEF a, b, n
  <2>6. ASSUME NEW i \in 1 .. n + 1 PROVE a[i] = b[i]
    <3>1. CASE i \in 1 .. n
      BY <2>1, <2>2, <2>4, <3>1
    <3>2. CASE i = n + 1 /\ n > 0
      <4>1. n \in 1 .. n
        BY <2>1, <3>2
      <4>2. QED
        BY <2>1, <2>2, <2>4, <3>2, <4>1
    <3>3. CASE i = 1 /\ n = 0
      BY <2>1, <2>2, <2>5, <3>3
    <3>4. QED
      BY <2>1, <3>1, <3>2, <3>3
  <2>7. a = b
    BY <2>1, <2>2, <2>6, SeqEqual
  <2>8. QED
    BY <2>3, <2>7, Stutters DEF a, b
<1>5. QED
  BY <1>3, <1>4

-----------------------------------------------------------------------------
(* The steps of Undo.                                                      *)

LEMMA AbandonIsHistory ==
  ASSUME IInv, IInv', NEW w \in Windows, NEW u \in Docs, AbandonEdit(w, u),
         NEW t \in Stacks
  PROVE  [History(t)!Next]_(History(t)!vars)
<1>1. undoStack[u] = NoStack
  BY CloneIsNew DEF AbandonEdit
<1>2. \A e \in Docs : undoStack[e] = t => score'[e] = score[e]
  BY <1>1, NullAssumption DEF AbandonEdit, Cloned, IInv, TypeOK
<1>3. UNCHANGED <<undoStack, commands, undoIndex>>
  BY DEF AbandonEdit
<1>4. QED
  BY <1>2, <1>3, SameHistory

LEMMA QuietIsHistory ==
  ASSUME IInv, IInv', UNCHANGED <<score, undoStack, commands, undoIndex>>,
         NEW t \in Stacks
  PROVE  [History(t)!Next]_(History(t)!vars)
BY SameHistory

\* Undo and redo keep every version and move the cursor of their own stack.
LEMMA MovedIsHistory ==
  ASSUME IInv, IInv', NEW s \in Stacks, s \in OpenStacks, NEW k \in Nat,
         undoIndex' = [undoIndex EXCEPT ![s] = k],
         UNCHANGED <<score, undoStack, commands>>
  PROVE  /\ Versions(s)' = Versions(s)
         /\ Cursor(s)' = k + 1
         /\ Cursor(s) = undoIndex[s] + 1
         /\ Len(Versions(s)) = Len(commands[s]) + 1
         /\ \A t \in Stacks \ {s} : [History(t)!Next]_(History(t)!vars)
<1> DEFINE n == Len(commands[s])
<1>1. HistoryIs(s) /\ HistoryIs(s)'
  BY HistoryShapes, HistoryShapesNext
<1>2. s \in OpenStacks'
  BY DEF OpenStacks
<1>3. undoIndex'[s] = k /\ \A t \in Stacks \ {s} : undoIndex'[t] = undoIndex[t]
  BY DEF IInv, TypeOK
<1> DEFINE a == Versions(s)
           b == Versions(s)'
<1>4. /\ n \in Nat
      /\ a \in Seq(Scores) /\ Len(a) = n + 1
      /\ \A i \in 1 .. n : a[i] = score[commands[s][i].undo]
      /\ n > 0 => a[n + 1] = score[commands[s][n].redo]
      /\ n = 0 => \A d \in Docs : undoStack[d] = s => a[1] = score[d]
      /\ Cursor(s) = undoIndex[s] + 1
  BY <1>1 DEF HistoryIs
<1>5. /\ b \in Seq(Scores) /\ Len(b) = n + 1
      /\ \A i \in 1 .. n : b[i] = score[commands[s][i].undo]
      /\ n > 0 => b[n + 1] = score[commands[s][n].redo]
      /\ n = 0 => \A d \in Docs : undoStack[d] = s => b[1] = score[d]
      /\ Cursor(s)' = k + 1
  BY <1>1, <1>2, <1>3 DEF HistoryIs
<1>6. PICK e \in Docs : undoStack[e] = s
  BY OpenIs
<1>7. \A t \in Stacks \ {s} : [History(t)!Next]_(History(t)!vars)
  BY <1>3, SameHistory
<1> HIDE DEF a, b, n
<1>8. ASSUME NEW i \in 1 .. n + 1 PROVE a[i] = b[i]
  <2>1. CASE i \in 1 .. n
    BY <1>4, <1>5, <2>1
  <2>2. CASE i = n + 1 /\ n > 0
    BY <1>4, <1>5, <2>2
  <2>3. CASE i = 1 /\ n = 0
    BY <1>4, <1>5, <1>6, <2>3
  <2>4. QED
    BY <1>4, <2>1, <2>2, <2>3
<1>9. a = b
  BY <1>4, <1>5, <1>8, SeqEqual
<1>10. QED
  BY <1>4, <1>5, <1>7, <1>9 DEF a, b, n

LEMMA UndoIsHistory ==
  ASSUME IInv, IInv', NEW w \in Windows, UndoOne(w), NEW t \in Stacks
  PROVE  [History(t)!Next]_(History(t)!vars)
<1>1. /\ mainWinDoc[w] \in Docs /\ undoStack[mainWinDoc[w]] # NoStack
      /\ undoIndex[undoStack[mainWinDoc[w]]] > 0
  BY DEF UndoOne, CanUndo, IInv, TypeOK
<1>2. PICK s \in Stacks : s = undoStack[mainWinDoc[w]]
  BY <1>1, StackOf
<1>3. PICK k \in Nat : k = undoIndex[s] /\ k > 0 /\ k - 1 \in Nat
  BY <1>1, <1>2 DEF IInv, TypeOK
<1>4. s \in OpenStacks
  BY <1>1, <1>2, StackOf
<1>5. /\ undoIndex' = [undoIndex EXCEPT ![s] = k - 1]
      /\ UNCHANGED <<score, undoStack, commands>>
  BY <1>2, <1>3 DEF UndoOne
<1>6. /\ Versions(s)' = Versions(s) /\ Cursor(s)' = (k - 1) + 1 /\ Cursor(s) = k + 1
      /\ \A r \in Stacks \ {s} : [History(r)!Next]_(History(r)!vars)
  BY <1>3, <1>4, <1>5, MovedIsHistory
<1>7. Cursor(s) > 1 /\ Cursor(s)' = Cursor(s) - 1
  BY <1>3, <1>6
<1>8. [History(s)!Next]_(History(s)!vars)
  BY <1>6, <1>7, Undoes
<1>9. QED
  BY <1>6, <1>8

LEMMA RedoIsHistory ==
  ASSUME IInv, IInv', NEW w \in Windows, RedoOne(w), NEW t \in Stacks
  PROVE  [History(t)!Next]_(History(t)!vars)
<1>1. /\ mainWinDoc[w] \in Docs /\ undoStack[mainWinDoc[w]] # NoStack
      /\ undoIndex[undoStack[mainWinDoc[w]]] < Len(commands[undoStack[mainWinDoc[w]]])
  BY DEF RedoOne, CanRedo, IInv, TypeOK
<1>2. PICK s \in Stacks : s = undoStack[mainWinDoc[w]]
  BY <1>1, StackOf
<1>3. PICK k \in Nat : k = undoIndex[s] /\ k < Len(commands[s]) /\ k + 1 \in Nat
  BY <1>1, <1>2 DEF IInv, TypeOK
<1>4. s \in OpenStacks /\ Len(commands[s]) \in Nat
  BY <1>1, <1>2, StackOf
<1>5. /\ undoIndex' = [undoIndex EXCEPT ![s] = k + 1]
      /\ UNCHANGED <<score, undoStack, commands>>
  BY <1>2, <1>3 DEF RedoOne
<1>6. /\ Versions(s)' = Versions(s) /\ Cursor(s)' = (k + 1) + 1 /\ Cursor(s) = k + 1
      /\ Len(Versions(s)) = Len(commands[s]) + 1
      /\ \A r \in Stacks \ {s} : [History(r)!Next]_(History(r)!vars)
  BY <1>3, <1>4, <1>5, MovedIsHistory
<1>7. Cursor(s) \in 1 .. Len(Versions(s)) - 1 /\ Cursor(s)' = Cursor(s) + 1
  BY <1>3, <1>4, <1>6
<1>8. [History(s)!Next]_(History(s)!vars)
  BY <1>6, <1>7, Redoes
<1>9. QED
  BY <1>6, <1>8

\* An edit: the versions up to the one shown, and the changed document.
LEMMA EditIsHistory ==
  ASSUME IInv, IInv', NEW w \in Windows, NEW u \in Docs, NEW sc \in Scores,
         NEW dd \in Dedications, Edit(w, u, sc, dd), NEW t \in Stacks
  PROVE  [History(t)!Next]_(History(t)!vars)
<1>1. PICK d \in Docs : d = mainWinDoc[w] /\ d \in Shown
  BY DEF Edit, Shown, IInv, TypeOK
<1>2. undoStack[d] # NoStack /\ undoStack[u] = NoStack /\ u # d
  BY <1>1, CloneIsNew DEF Edit, IInv, StackFound
<1>3. PICK s \in Stacks : s = undoStack[d] /\ s \in OpenStacks
  BY <1>1, <1>2, StackOf
<1>4. PICK k \in Nat : k = undoIndex[s]
  BY DEF IInv, TypeOK
<1>5. PICK old : old = commands[s]
  OBVIOUS
<1>6. PICK n : n = Len(old)
  OBVIOUS
<1>7. n \in Nat /\ k \in 0 .. n /\ old \in Seq(Command)
  BY <1>1, <1>2, <1>3, <1>4, <1>5, <1>6, StackOf
<1>8. PICK c \in Command : c = [undo |-> u, redo |-> d] /\ c.undo = u /\ c.redo = d
  <2>1. [undo |-> u, redo |-> d] \in Command
    BY DEF Command
  <2>2. QED
    BY <2>1
<1>9. PICK new : new = CommandsAfterPush(s, c)
  OBVIOUS
<1>10. /\ Len(new) = k + 1
       /\ \A i \in 1 .. k : new[i].undo = old[i].undo
       /\ new[k + 1] = c
  <2>1. commands[s] \in Seq(Command) /\ undoIndex[s] \in 0 .. Len(commands[s])
    BY <1>4, <1>5, <1>6, <1>7
  <2>2. LET cs == commands[s]
            j == undoIndex[s]
            after == CommandsAfterPush(s, c)
        IN /\ Len(after) = j + 1
           /\ \A i \in 1 .. j : after[i].undo = cs[i].undo
           /\ after[j + 1] = c
    BY <2>1, PushShape
  <2>3. QED
    BY <1>4, <1>5, <1>9, <2>2
<1>11. /\ commands' = [commands EXCEPT ![s] = new]
       /\ undoIndex' = [undoIndex EXCEPT ![s] = k + 1]
       /\ undoStack' = UndoStackAfterPush(s, c)
       /\ score' = [[score EXCEPT ![u] = score[d]] EXCEPT ![d] = sc]
  BY <1>1, <1>3, <1>8, <1>9, <1>10 DEF Edit, Push, Cloned
<1>12. /\ commands'[s] = new /\ undoIndex'[s] = k + 1
       /\ \A r \in Stacks \ {s} : commands'[r] = commands[r] /\ undoIndex'[r] = undoIndex[r]
       /\ score'[u] = score[d] /\ score'[d] = sc
       /\ \A e \in Docs \ {u, d} : score'[e] = score[e]
  BY <1>2, <1>11 DEF IInv, TypeOK
<1>13. \A e \in DiscardedRedo(s) : undoStack[e] = s
  BY <1>4, <1>5, <1>6, <1>7, CommandOf DEF DiscardedRedo
<1>14. \A e \in Docs : undoStack'[e] = IF e = u THEN s
                                       ELSE IF e \in DiscardedRedo(s) THEN NoStack
                                       ELSE undoStack[e]
  BY <1>8, <1>11 DEF UndoStackAfterPush
<1>15. \A r \in Stacks \ {s} : [History(r)!Next]_(History(r)!vars)
  <2>1. ASSUME NEW r \in Stacks \ {s}
        PROVE  [History(r)!Next]_(History(r)!vars)
    <3>1. r \in Stacks /\ r # NoStack /\ r # s
      BY NullAssumption
    <3>2. \A e \in Docs : undoStack'[e] = r <=> undoStack[e] = r
      BY <1>2, <1>13, <1>14, <3>1
    <3>3. \A e \in Docs : undoStack[e] = r => score'[e] = score[e]
      BY <1>2, <1>3, <1>12, <3>1
    <3>4. QED
      BY <1>12, <3>1, <3>2, <3>3, SameHistory
  <2>2. QED
    BY <2>1
<1> DEFINE a == Versions(s)
           b == Versions(s)'
           e == Append(SubSeq(a, 1, k + 1), sc)
<1>16. /\ a \in Seq(Scores) /\ Len(a) = n + 1
       /\ \A i \in 1 .. n : a[i] = score[old[i].undo]
       /\ n > 0 => a[n + 1] = score[old[n].redo]
       /\ n = 0 => a[1] = score[d]
       /\ Cursor(s) = k + 1
  BY <1>3, <1>4, <1>5, <1>6, HistoryShapes DEF HistoryIs
<1>17. s \in OpenStacks'
  BY <1>14, OpenIsNext
<1>18. /\ b \in Seq(Scores) /\ Len(b) = (k + 1) + 1
       /\ \A i \in 1 .. k + 1 : b[i] = score'[new[i].undo]
       /\ b[(k + 1) + 1] = score'[new[k + 1].redo]
       /\ Cursor(s)' = (k + 1) + 1
  <2>1. HistoryIs(s)'
    BY HistoryShapesNext
  <2>2. k + 1 > 0
    OBVIOUS
  <2>3. QED
    BY <1>10, <1>12, <1>17, <2>1, <2>2 DEF HistoryIs
<1>19. a[k + 1] = score[d]
  <2>1. (k > 0 => old[k].redo = d) /\ (k < n => old[k + 1].undo = d)
    BY <1>1, <1>3, <1>4, <1>5, <1>6, ShownAt
  <2>2. CASE k < n
    BY <1>7, <1>16, <2>1, <2>2
  <2>3. CASE k = n
    BY <1>7, <1>16, <2>1, <2>3
  <2>4. QED
    BY <1>7, <2>2, <2>3
<1>20. ASSUME NEW i \in 1 .. k
       PROVE  old[i].undo \in Docs \ {u, d}
  <2>1. i \in 1 .. n
    BY <1>7
  <2>2. old[i].undo \in Docs /\ undoStack[old[i].undo] = s
    BY <1>5, <1>6, <2>1, CommandOf
  <2>3. k \in 1 .. n
    BY <1>7
  <2>4. old[k].redo = d
    BY <1>1, <1>3, <1>4, <1>5, <1>6, <2>3, ShownAt
  <2>5. old[i].undo = old[k].redo => i = k + 1
    BY <1>5, <1>6, <2>1, <2>3, ChainOf
  <2>6. old[i].undo # d
    BY <2>4, <2>5
  <2>7. QED
    BY <1>2, <1>3, <2>2, <2>6
<1> HIDE DEF a, b
<1>21. /\ e \in Seq(Scores) /\ Len(e) = (k + 1) + 1
       /\ \A i \in 1 .. k + 1 : e[i] = a[i]
       /\ e[(k + 1) + 1] = sc
  <2>1. /\ SubSeq(a, 1, k + 1) \in Seq(Scores)
        /\ Len(SubSeq(a, 1, k + 1)) = k + 1
        /\ \A i \in 1 .. k + 1 : SubSeq(a, 1, k + 1)[i] = a[i]
    BY <1>7, <1>16, SubSeqProperties
  <2>2. QED
    BY <2>1, AppendProperties
<1> HIDE DEF e
<1>22. ASSUME NEW i \in 1 .. (k + 1) + 1 PROVE e[i] = b[i]
  <2>1. CASE i \in 1 .. k
    <3>1. e[i] = a[i] /\ i \in 1 .. n /\ i \in 1 .. k + 1
      BY <1>7, <1>21, <2>1
    <3>2. a[i] = score[old[i].undo] /\ b[i] = score'[new[i].undo]
      BY <1>16, <1>18, <3>1
    <3>3. new[i].undo = old[i].undo /\ score'[old[i].undo] = score[old[i].undo]
      BY <1>10, <1>12, <1>20, <2>1
    <3>4. QED
      BY <3>1, <3>2, <3>3
  <2>2. CASE i = k + 1
    BY <1>8, <1>10, <1>12, <1>18, <1>19, <1>21, <2>2
  <2>3. CASE i = (k + 1) + 1
    BY <1>8, <1>10, <1>12, <1>18, <1>21, <2>3
  <2>4. QED
    BY <2>1, <2>2, <2>3
<1>23. b = e
  BY <1>18, <1>21, <1>22, SeqEqual
<1>24. Cursor(s) > 0 /\ Cursor(s)' = Cursor(s) + 1
  BY <1>16, <1>18
<1>25. Versions(s)' = Append(SubSeq(Versions(s), 1, Cursor(s)), sc)
  BY <1>16, <1>23 DEF a, b, e
<1>26. [History(s)!Next]_(History(s)!vars)
  BY <1>24, <1>25, Edits
<1>27. QED
  BY <1>15, <1>26

\* A window leaves its document: its stack closes if no other window shows
\* it, and no other stack is touched.
LEMMA LeavingIsHistory ==
  ASSUME IInv, IInv', NEW w \in Windows, NEW t \in Stacks,
         \A e \in Docs : undoStack'[e] = t <=> UndoStackAfterLeaving(w)[e] = t,
         commands'[t] = CommandsAfterLeaving(w)[t],
         undoIndex'[t] = undoIndex[t],
         \A e \in Docs : UndoStackAfterLeaving(w)[e] = t => score'[e] = score[e]
  PROVE  [History(t)!Next]_(History(t)!vars)
<1>1. t # NoStack
  BY NullAssumption
<1>2. CASE OnlyWindow(w) /\ t = undoStack[mainWinDoc[w]]
  <2>1. \A e \in Docs : undoStack'[e] # t
    BY <1>1, <1>2 DEF UndoStackAfterLeaving
  <2>2. t \notin OpenStacks'
    BY <2>1, OpenIsNext
  <2>3. Versions(t)' = << >> /\ Cursor(t)' = 0
    BY <2>2, HistoryShapesNext DEF HistoryIs
  <2>4. QED
    BY <2>3, Closes
<1>3. CASE ~(OnlyWindow(w) /\ t = undoStack[mainWinDoc[w]])
  <2>1. \A e \in Docs : UndoStackAfterLeaving(w)[e] = t <=> undoStack[e] = t
    BY <1>1, <1>3 DEF UndoStackAfterLeaving
  <2>2. CommandsAfterLeaving(w)[t] = commands[t]
    BY <1>3 DEF CommandsAfterLeaving, IInv, TypeOK
  <2>3. QED
    BY <2>1, <2>2, SameHistory
<1>4. QED
  BY <1>2, <1>3

LEMMA CloseIsHistory ==
  ASSUME IInv, IInv', NEW w \in Windows, CloseDocument(w), NEW t \in Stacks
  PROVE  [History(t)!Next]_(History(t)!vars)
<1>1. /\ undoStack' = UndoStackAfterLeaving(w)
      /\ commands' = CommandsAfterLeaving(w)
      /\ UNCHANGED <<score, undoIndex>>
  BY DEF CloseDocument
<1>2. QED
  BY <1>1, LeavingIsHistory

LEMMA ShowIsHistory ==
  ASSUME IInv, IInv', NEW w \in Windows, NEW d \in Docs, NEW s \in Stacks,
         NEW sc \in Scores, NEW dd \in BOOLEAN, NEW f \in Names \cup {NoName},
         Show(w, d, s, sc, dd, f), NEW t \in Stacks
  PROVE  [History(t)!Next]_(History(t)!vars)
<1> DEFINE key == UndoStackAfterLeaving(w)
           cmds == CommandsAfterLeaving(w)
           kept == live \ FreedByLeaving(w)
<1>1. /\ key \in [Docs -> Stacks \cup {NoStack}]
      /\ cmds \in [Stacks -> Seq(Command)]
      /\ \A e \in Docs : key[e] # NoStack => e \in kept
  BY AfterLeaving
<1>2. /\ d \notin kept
      /\ undoStack' = [key EXCEPT ![d] = s]
      /\ commands' = [cmds EXCEPT ![s] = << >>]
      /\ undoIndex' = [undoIndex EXCEPT ![s] = 0]
      /\ score' = [score EXCEPT ![d] = sc]
  BY DEF Show
<1>3. key[d] = NoStack
  BY <1>1, <1>2
<1>4. /\ undoStack'[d] = s /\ \A e \in Docs \ {d} : undoStack'[e] = key[e]
      /\ commands'[s] = << >> /\ \A r \in Stacks \ {s} : commands'[r] = cmds[r]
      /\ undoIndex'[s] = 0 /\ \A r \in Stacks \ {s} : undoIndex'[r] = undoIndex[r]
      /\ score'[d] = sc /\ \A e \in Docs \ {d} : score'[e] = score[e]
  BY <1>1, <1>2 DEF IInv, TypeOK
<1>5. CASE t # s
  <2>1. t # NoStack
    BY NullAssumption
  <2>2. \A e \in Docs : undoStack'[e] = t <=> key[e] = t
    BY <1>3, <1>4, <1>5, <2>1
  <2>3. \A e \in Docs : key[e] = t => score'[e] = score[e]
    BY <1>3, <1>4, <2>1
  <2>4. commands'[t] = cmds[t] /\ undoIndex'[t] = undoIndex[t]
    BY <1>4, <1>5
  <2> HIDE DEF kept
  <2>5. QED
    BY <2>2, <2>3, <2>4, LeavingIsHistory
<1>6. CASE t = s
  <2>1. s \in OpenStacks'
    BY <1>4, OpenIsNext
  <2>2. Len(commands'[s]) = 0
    BY <1>4
  <2> DEFINE b == Versions(s)'
  <2>3. /\ b \in Seq(Scores) /\ Len(b) = 1 /\ b[1] = sc
        /\ Cursor(s)' = 1
    <3>1. HistoryIs(s)'
      BY HistoryShapesNext
    <3>2. /\ b \in Seq(Scores) /\ Len(b) = Len(commands'[s]) + 1
          /\ Cursor(s)' = undoIndex'[s] + 1
          /\ Len(commands'[s]) = 0 =>
               \A e \in Docs : undoStack'[e] = s => b[1] = score'[e]
      BY <2>1, <3>1 DEF HistoryIs
    <3>3. QED
      BY <1>4, <2>2, <3>2
  <2> HIDE DEF b
  <2>4. b = <<sc>>
    <3>1. <<sc>> \in Seq(Scores) /\ Len(<<sc>>) = 1 /\ <<sc>>[1] = sc
      OBVIOUS
    <3>2. \A i \in 1 .. Len(b) : b[i] = <<sc>>[i]
      BY <2>3, <3>1
    <3>3. QED
      BY <2>3, <3>1, <3>2, SeqEqual
  <2>5. Versions(s)' = <<sc>> /\ Cursor(s)' = 1
    BY <2>3, <2>4 DEF b
  <2>6. QED
    BY <1>6, <2>5, Opens
<1>7. QED
  BY <1>5, <1>6

LEMMA NextIsHistory ==
  ASSUME IInv, IInv', [Next]_vars
  PROVE  \A t \in Stacks : [History(t)!Next]_(History(t)!vars)
<1> SUFFICES ASSUME NEW t \in Stacks PROVE [History(t)!Next]_(History(t)!vars)
  OBVIOUS
<1>1. ASSUME NEW w \in Windows, WindowNext(w)
      PROVE  [History(t)!Next]_(History(t)!vars)
  <2>1. ASSUME NEW u \in Docs, AbandonEdit(w, u)
        PROVE  [History(t)!Next]_(History(t)!vars)
    BY <2>1, AbandonIsHistory
  <2>2. ASSUME NEW u \in Docs, NEW sc \in Scores, NEW dd \in Dedications,
               Edit(w, u, sc, dd)
        PROVE  [History(t)!Next]_(History(t)!vars)
    BY <2>2, EditIsHistory
  <2>3. CASE UndoOne(w)
    BY <2>3, UndoIsHistory
  <2>4. CASE RedoOne(w)
    BY <2>4, RedoIsHistory
  <2>5. ASSUME NEW d \in Docs, NEW s \in Stacks, NewDocument(w, d, s)
        PROVE  [History(t)!Next]_(History(t)!vars)
    BY <2>5, ShowIsHistory, NullAssumption DEF NewDocument
  <2>6. ASSUME NEW d \in Docs, NEW s \in Stacks, NEW n \in Names,
               OpenDocument(w, d, s, n)
        PROVE  [History(t)!Next]_(History(t)!vars)
    <3>1. disk[n] \in File
      BY <2>6 DEF OpenDocument, IInv, TypeOK
    <3>2. /\ disk[n].score \in Scores /\ disk[n].dedication \in BOOLEAN
          /\ Show(w, d, s, disk[n].score, disk[n].dedication, n)
      BY <2>6, <3>1 DEF OpenDocument, File
    <3>3. QED
      BY <3>2, ShowIsHistory
  <2>7. ASSUME NEW v \in Windows, NewWindow(v, w)
        PROVE  [History(t)!Next]_(History(t)!vars)
    BY <2>7, QuietIsHistory DEF NewWindow, docVars, undoVars
  <2>8. CASE CloseDocument(w)
    BY <2>8, CloseIsHistory
  <2>9. ASSUME NEW n \in Names, Save(w, n)
        PROVE  [History(t)!Next]_(History(t)!vars)
    BY <2>9, QuietIsHistory DEF Save, undoVars
  <2>10. QED
    BY <1>1, <2>1, <2>2, <2>3, <2>4, <2>5, <2>6, <2>7, <2>8, <2>9 DEF WindowNext
<1>2. CASE UNCHANGED vars
  BY <1>2, QuietIsHistory DEF vars, docVars, undoVars
<1>3. QED
  BY <1>1, <1>2 DEF Next

LEMMA InitIsHistory == Init => \A s \in Stacks : History(s)!Init
<1> SUFFICES ASSUME Init, NEW s \in Stacks PROVE History(s)!Init
  OBVIOUS
<1>1. commands[s] = << >> /\ Members(s) = {}
  BY DEF Init, Members, Shown
<1>2. Chain(s) = << >>
  BY <1>1 DEF Chain
<1>3. QED
  BY <1>2 DEF History!Init

\* Undo implements EditHistory: for the user of any one stack, each step of
\* any window edits, undoes, redoes, opens or closes that stack's history or
\* leaves it alone, so that undo and redo never change what a version holds
\* and an edit drops exactly the versions after the one shown (CAUndo).
THEOREM HistoryIsKept == Spec => KeepsHistory
<1>1. Init => \A s \in Stacks : History(s)!Init
  BY InitIsHistory
<1>2. IInv /\ [Next]_vars => IInv'
  BY NextInvariant
<1>3. IInv /\ IInv' /\ [Next]_vars =>
        [\A s \in Stacks : [History(s)!Next]_(History(s)!vars)]_vars
  BY NextIsHistory
<1>4. QED
  BY <1>1, <1>2, <1>3, InitInvariant, PTL DEF KeepsHistory, Spec

-----------------------------------------------------------------------------
(* The handlers of UndoCallers *)

\* One window, no commit behind which something can be redone, and no push of a
\* command whose document is no longer shown.
OneWindow(w) == Windows = {w} /\ ~CommitAfterUndo /\ ~PushLate

\* Unless the program has crashed, it is in a state that Undo may be in.
CInv == crashed \/ IInv

\* A push of a command that waits, whoever created it, is one of its clone.
LEMMA PushCreatedInvariant ==
  ASSUME IInv, ~PushLate, PushCreated
  PROVE  crashed' \/ IInv'
<1> DEFINE u == undoCommand.undo
           d == undoCommand.redo
           s == undoStack[d]
<1> SUFFICES ASSUME ~crashed' PROVE IInv'
  OBVIOUS
<1>1. /\ undoCommand # NoCommand /\ undoCommand \in Command
      /\ u \in Docs /\ u \in live /\ undoStack[u] = NoStack /\ d \in Shown
      /\ undoCommand = [undo |-> u, redo |-> d]
  BY DEF PushCreated, IInv, TypeOK, Ownership, Command
<1>2. /\ live' = live \ (FreedByDiscard(s) \ {u})
      /\ Push(s, undoCommand, modified)
      /\ UNCHANGED <<score, dedication, fileName, mainWinDoc, disk>>
  BY DEF PushCreated
<1>3. u \in live' /\ live' \subseteq Docs /\ (live \ FreedByClear) \ FreedByDiscard(s) \subseteq live'
  BY <1>1, <1>2 DEF IInv, TypeOK
<1>4. /\ score' \in [Docs -> Scores] /\ dedication' \in [Docs -> BOOLEAN]
      /\ fileName' \in [Docs -> Names \cup {NoName}] /\ modified \in [Docs -> BOOLEAN]
  BY <1>2 DEF IInv, TypeOK
<1> HIDE DEF u, d
<1>5. Push(undoStack[d], [undo |-> u, redo |-> d], modified)
  BY <1>1, <1>2
<1>6. QED
  BY <1>1, <1>2, <1>3, <1>4, <1>5, PushInvariant

\* A change that no command records touches the score only.
LEMMA ChangeInvariant ==
  ASSUME IInv, NEW w \in Windows, NEW sc \in Scores, ChangeInPlace(w, sc)
  PROVE  IInv'
<1>1. /\ score' = [score EXCEPT ![mainWinDoc[w]] = sc]
      /\ UNCHANGED <<live, dedication, modified, fileName, mainWinDoc, undoStack,
                     commands, undoIndex, undoCommand, disk>>
  BY DEF ChangeInPlace, undoVars
<1>2. TypeOK'
  BY <1>1 DEF IInv, TypeOK
<1>3. Shown' = Shown /\ OpenStacks' = OpenStacks
  BY <1>1 DEF Shown, OpenStacks
<1>4. QED
  BY <1>1, <1>2, <1>3 DEF IInv, Chained, VersionsDistinct, NoDangling, StackFound,
                          WindowsAgree, Ownership

\* A commit puts the parsed document n in the place of the shown one, which was
\* the newest version of its stack.
LEMMA CommitInvariant ==
  ASSUME IInv, NEW w, OneWindow(w), NEW n \in Docs, NEW sc \in Scores,
         SourceCommit(w, n, sc)
  PROVE  IInv'
<1> DEFINE old == mainWinDoc[w]
           s == undoStack[old]
           cs == commands[s]
           k == Len(cs)
           new == commands'[s]
<1>1. Windows = {w} /\ old # NoDoc /\ Shown = {old} /\ old \in Docs
  BY DEF OneWindow, SourceCommit, Shown, IInv, TypeOK
<1>2. undoStack[n] = NoStack /\ n # old
  BY <1>1, CloneIsNew DEF SourceCommit
<1>3. /\ s \in Stacks /\ s # NoStack /\ cs \in Seq(Command) /\ k \in Nat
      /\ DOMAIN cs = 1 .. k /\ undoIndex[s] = k
      /\ k > 0 => cs[k].redo = old
  <2>1. s \in Stacks /\ s # NoStack
    BY <1>1, ShownAt, NullAssumption
  <2>2. undoIndex[s] = k
    BY DEF SourceCommit, OneWindow
  <2>3. cs \in Seq(Command) /\ k \in Nat /\ DOMAIN cs = 1 .. k
    BY <2>1, LenProperties DEF IInv, TypeOK
  <2>4. k > 0 => cs[k].redo = old
    BY <1>1, <2>2, ShownAt
  <2>5. QED
    BY <2>1, <2>2, <2>3, <2>4
<1>4. /\ live' = ((live \ FreedByClear) \cup {n}) \ {old}
      /\ mainWinDoc' = [mainWinDoc EXCEPT ![w] = n]
      /\ undoStack' = [undoStack EXCEPT ![old] = NoStack, ![n] = s]
      /\ commands' = [commands EXCEPT ![s] = Replaced(s, old, n)]
      /\ undoCommand' = NoCommand
      /\ UNCHANGED <<undoIndex, disk>>
  BY DEF SourceCommit
<1>5. Shown' = {n}
  BY <1>1, <1>4, NullAssumption DEF Shown, IInv, TypeOK
<1>6. \A e \in Docs : undoStack'[e] = IF e = n THEN s
                                       ELSE IF e = old THEN NoStack ELSE undoStack[e]
  BY <1>1, <1>2, <1>4 DEF IInv, TypeOK
\* The only stack there is.
<1>7. \A e \in Docs : undoStack[e] # NoStack => undoStack[e] = s
  BY <1>1, MemberAt
<1>8. \A t \in Stacks \ {s} : commands[t] = << >> /\ commands'[t] = << >>
  <2>1. \A t \in Stacks \ {s} : t \notin OpenStacks
    BY <1>7 DEF OpenStacks, Range, IInv, TypeOK
  <2>2. QED
    BY <1>3, <1>4, <2>1 DEF IInv, TypeOK, Ownership
<1>9. /\ new \in Seq(Command) /\ Len(new) = k /\ DOMAIN new = 1 .. k
      /\ \A i \in 1 .. k : new[i].undo = cs[i].undo
      /\ \A i \in 1 .. k : new[i].redo = IF i = k THEN n ELSE cs[i].redo
  <2>1. new = Replaced(s, old, n)
    BY <1>3, <1>4 DEF IInv, TypeOK
  <2>2. CASE k = 0
    BY <1>3, <2>1, <2>2 DEF Replaced
  <2>3. CASE k # 0
    <3>1. cs[k] \in Command /\ k > 0
      BY <1>3, <2>3, ElementOfSeq
    <3>2. new = [cs EXCEPT ![k].redo = n]
      BY <1>3, <2>1, <3>1 DEF Replaced
    <3>3. LET c == [cs[k] EXCEPT !.redo = n]
          IN c \in Command /\ c.undo = cs[k].undo /\ c.redo = n
      BY <3>1 DEF Command
    <3>4. new = [cs EXCEPT ![k] = [cs[k] EXCEPT !.redo = n]]
      BY <3>2
    <3>5. new \in Seq(Command) /\ Len(new) = k /\ DOMAIN new = 1 .. k
      BY <1>3, <2>3, <3>3, <3>4, ExceptSeq
    <3>6. \A i \in 1 .. k : new[i] = IF i = k THEN [cs[k] EXCEPT !.redo = n] ELSE cs[i]
      BY <1>3, <3>4
    <3>7. QED
      BY <3>3, <3>5, <3>6
  <2>4. QED
    BY <2>2, <2>3
\* What the stack keeps of its older versions is neither n nor old.
<1>10. \A i \in 1 .. k : /\ cs[i].undo \in Docs /\ undoStack[cs[i].undo] = s
                         /\ cs[i].undo # old /\ cs[i].undo # n
  BY <1>2, <1>3, CommandOf, ChainOf
<1>11. \A i \in 1 .. k : i # k => i + 1 \in 1 .. k /\ i < k /\ cs[i].redo = cs[i + 1].undo
  <2> SUFFICES ASSUME NEW i \in 1 .. k, i # k
               PROVE  i + 1 \in 1 .. k /\ i < k /\ cs[i].redo = cs[i + 1].undo
    OBVIOUS
  <2>1. i + 1 \in 1 .. k /\ i < k
    BY <1>3
  <2>2. QED
    BY <1>3, <2>1, ChainOf
<1> HIDE DEF new, cs, k, s, old
<1>12. OpenStacks' = {s}
  <2>1. OpenStacks' = {undoStack'[e] : e \in Docs} \ {NoStack}
    BY <1>4 DEF OpenStacks, Range, IInv, TypeOK
  <2>2. QED
    BY <1>3, <1>6, <1>7, <2>1
<1>13. TypeOK'
  <2>1. live' \subseteq Docs /\ undoIndex' \in [Stacks -> Nat]
    BY <1>4 DEF IInv, TypeOK
  <2>2. mainWinDoc' \in [Windows -> Docs \cup {NoDoc}]
    BY <1>4 DEF IInv, TypeOK
  <2>3. undoStack' \in [Docs -> Stacks \cup {NoStack}]
    BY <1>3, <1>4 DEF IInv, TypeOK
  <2>4. commands' \in [Stacks -> Seq(Command)]
    <3>1. Replaced(s, old, n) = new
      BY <1>3, <1>4 DEF new, IInv, TypeOK
    <3>2. QED
      BY <1>4, <1>9, <3>1 DEF IInv, TypeOK
  <2>5. /\ score' \in [Docs -> Scores] /\ dedication' \in [Docs -> BOOLEAN]
        /\ modified' \in [Docs -> BOOLEAN]
        /\ fileName' \in [Docs -> Names \cup {NoName}]
    BY DEF SourceCommit, IInv, TypeOK
  <2>6. QED
    BY <1>4, <2>1, <2>2, <2>3, <2>4, <2>5 DEF IInv, TypeOK
<1>14. Chained'
  <2>1. undoIndex'[s] = k /\ k \in 0 .. Len(new)
    BY <1>3, <1>4, <1>9
  <2>2. ASSUME NEW i \in 1 .. Len(new) - 1
        PROVE  new[i].redo = new[i + 1].undo
    <3>1. i \in 1 .. k /\ i # k
      BY <1>3, <1>9
    <3>2. QED
      BY <1>9, <1>11, <3>1
  <2>3. mainWinDoc'[w] = n
    BY <1>1, <1>4 DEF IInv, TypeOK
  <2>4. k > 0 => new[k].redo = n
    BY <1>3, <1>9
  <2>5. QED
    BY <1>1, <1>3, <1>9, <1>12, <2>1, <2>2, <2>3, <2>4 DEF Chained, new
<1>15. StackFound'
  <2>1. ASSUME NEW i \in 1 .. k
        PROVE  undoStack'[new[i].undo] = s /\ undoStack'[new[i].redo] = s
    <3>1. undoStack'[new[i].undo] = s
      BY <1>6, <1>9, <1>10
    <3>2. CASE i = k
      BY <1>6, <1>9, <3>1, <3>2
    <3>3. CASE i # k
      <4>1. i + 1 \in 1 .. k /\ new[i].redo = cs[i + 1].undo
        BY <1>9, <1>11, <3>3
      <4>2. QED
        BY <1>6, <1>10, <3>1, <4>1
    <3>4. QED
      BY <3>2, <3>3
  <2>2. ASSUME NEW t \in Stacks, NEW i \in DOMAIN commands'[t]
        PROVE  /\ undoStack'[commands'[t][i].undo] = t
               /\ undoStack'[commands'[t][i].redo] = t
    <3>1. t = s
      BY <1>8
    <3>2. QED
      BY <1>9, <2>1, <3>1 DEF new
  <2>3. QED
    BY <1>3, <1>5, <1>6, <2>2 DEF StackFound
<1>16. VersionsDistinct'
  <2>1. \A i, j \in 1 .. k : new[i].undo = new[j].undo => i = j
    BY <1>3, <1>9, ChainOf DEF cs, k
  <2>2. \A i \in 1 .. k : new[i].undo # new[k].redo
    BY <1>3, <1>9, <1>10
  <2>3. Last(new) = new[k]
    BY <1>9 DEF Last
  <2>4. ASSUME NEW t \in Stacks, NEW i \in DOMAIN commands'[t]
        PROVE  t = s /\ i \in 1 .. k
    BY <1>8, <1>9 DEF new
  <2>5. QED
    BY <2>1, <2>2, <2>3, <2>4 DEF VersionsDistinct, new
<1>17. \A e \in Docs : undoStack'[e] # NoStack => e \in live'
  <2> SUFFICES ASSUME NEW e \in Docs, undoStack'[e] # NoStack, e # n
               PROVE  e \in live'
    BY <1>2, <1>4 DEF old
  <2>1. e # old /\ undoStack[e] # NoStack
    BY <1>6
  <2>2. e \in live /\ e \notin FreedByClear
    BY <2>1, StackOf, ClearFrees
  <2>3. QED
    BY <1>4, <2>1, <2>2
<1>18. NoDangling'
  <2>1. Shown' \subseteq live'
    BY <1>2, <1>4, <1>5
  <2>2. ASSUME NEW t \in Stacks, NEW i \in DOMAIN commands'[t]
        PROVE  {commands'[t][i].undo, commands'[t][i].redo} \subseteq live'
    <3>1. commands'[t][i] \in Command
      BY <1>13, LenProperties, ElementOfSeq DEF TypeOK
    <3>2. undoStack'[commands'[t][i].undo] = t /\ undoStack'[commands'[t][i].redo] = t
      BY <1>15 DEF StackFound
    <3>3. QED
      BY <1>17, <3>1, <3>2, NullAssumption DEF Command
  <2>3. QED
    BY <1>4, <2>1, <2>2 DEF NoDangling
<1>19. WindowsAgree'
  <2>1. \A e \in Docs : undoStack'[e] # NoStack => undoStack'[e] = undoStack'[n]
    BY <1>6, <1>7
  <2>2. QED
    BY <1>1, <1>5, <2>1 DEF WindowsAgree
<1>20. Ownership'
  <2>1. \A t \in Stacks : t \notin OpenStacks' => commands'[t] = << >>
    BY <1>8, <1>12
  <2>2. ASSUME NEW e \in Docs, undoStack'[e] # NoStack
        PROVE  undoStack'[e] = s /\ (e = n \/ (e # old /\ undoStack[e] = s))
    BY <1>6, <1>7, <2>2
  <2>3. ASSUME NEW e \in Docs, undoStack'[e] # NoStack
        PROVE  IF new = << >>
               THEN e = n
               ELSE \E i \in 1 .. k : e \in {new[i].undo, new[i].redo}
    <3>1. new = << >> <=> k = 0
      BY <1>9, EmptySeq
    <3>2. CASE e = n
      <4>1. k > 0 => k \in 1 .. k /\ e = new[k].redo
        BY <1>3, <1>9, <3>2
      <4>2. QED
        BY <1>3, <3>1, <3>2, <4>1
    <3>3. CASE e # n
      <4>1. undoStack[e] = s /\ e # old
        BY <2>2, <2>3, <3>3
      <4>2. k > 0
        <5>1. k = 0 => e \in Shown
          BY <1>3, <4>1, MemberAt DEF k, cs
        <5>2. QED
          BY <1>1, <1>3, <4>1, <5>1
      <4>3. PICK i \in 1 .. k : e = cs[i].undo \/ e = cs[i].redo
        BY <1>3, <4>1, <4>2, MemberAt DEF k, cs
      <4>4. CASE i = k
        BY <1>3, <1>9, <3>1, <4>1, <4>2, <4>3, <4>4
      <4>5. CASE i # k
        BY <1>9, <3>1, <4>2, <4>3, <4>5
      <4>6. QED
        BY <4>4, <4>5
    <3>4. QED
      BY <3>2, <3>3
  <2>4. ASSUME NEW e \in Docs, undoStack'[e] # NoStack
        PROVE  /\ e \in live'
               /\ IF commands'[undoStack'[e]] = << >>
                  THEN e \in Shown' /\ \A f \in Docs : undoStack'[f] = undoStack'[e] => f = e
                  ELSE \E i \in DOMAIN commands'[undoStack'[e]] :
                         e \in {commands'[undoStack'[e]][i].undo,
                                commands'[undoStack'[e]][i].redo}
    <3>1. undoStack'[e] = s /\ e \in live'
      BY <1>17, <2>2, <2>4
    <3>2. CASE new = << >>
      <4>1. \A f \in Docs : undoStack'[f] = s => f = n
        BY <1>3, <2>3, <3>2
      <4>2. QED
        BY <1>5, <3>1, <3>2, <4>1 DEF new
    <3>3. CASE new # << >>
      BY <1>9, <2>3, <2>4, <3>1, <3>3 DEF new
    <3>4. QED
      BY <3>2, <3>3
  <2>5. QED
    BY <1>4, <2>1, <2>4 DEF Ownership
<1>21. QED
  BY <1>13, <1>14, <1>15, <1>16, <1>18, <1>19, <1>20 DEF IInv

LEMMA CallersNextInvariant ==
  ASSUME NEW w, OneWindow(w), CInv, [CallersNext]_allVars
  PROVE  CInv'
<1>1. CASE UNCHANGED allVars
  <2>1. crashed' = crashed /\ (IInv => IInv')
    BY <1>1, NextInvariant DEF allVars
  <2>2. QED
    BY <2>1 DEF CInv
<1>2. CASE CallersNext
  <2>1. IInv /\ ~crashed
    BY <1>2 DEF CInv, CallersNext, Protocol, PushCreated, ChangeInPlace, SourceCommit,
                SourceCommitInvalid
  <2>2. CASE Protocol
    BY <2>1, <2>2, NextInvariant DEF Protocol, CInv
  <2>3. CASE PushCreated
    BY <2>1, <2>3, PushCreatedInvariant DEF OneWindow, CInv
  <2>4. ASSUME NEW v \in Windows, NEW sc \in Scores, ChangeInPlace(v, sc)
        PROVE  CInv'
    BY <2>1, <2>4, ChangeInvariant DEF CInv
  <2>5. ASSUME NEW v \in Windows, NEW n \in Docs, NEW sc \in Scores, SourceCommit(v, n, sc)
        PROVE  CInv'
    <3>1. v = w
      BY DEF OneWindow
    <3>2. QED
      BY <2>1, <2>5, <3>1, CommitInvariant DEF CInv
  <2>6. ASSUME NEW v \in Windows, NEW u \in Docs, SourceCommitInvalid(v, u)
        PROVE  CInv'
    BY <2>6 DEF SourceCommitInvalid, CInv
  <2>7. QED
    BY <1>2, <2>2, <2>3, <2>4, <2>5, <2>6 DEF CallersNext
<1>3. QED
  BY <1>1, <1>2

\* With one window, no commit behind which something can be redone, and no late
\* push, the whole invariant of the undo stacks survives the handlers that break
\* the protocol of core/undo.cpp:32-44.
THEOREM CallersInvariant ==
  ASSUME NEW w, OneWindow(w)
  PROVE  CallersSpec => []CInv
<1>1. CallersInit => CInv
  BY InitInvariant DEF CallersInit, CInv
<1>2. CInv /\ [CallersNext]_allVars => CInv'
  BY CallersNextInvariant
<1>3. QED
  BY <1>1, <1>2, PTL DEF CallersSpec

\* Such a program keeps every stack one chain of live, distinct versions, also
\* after a source commit (core/undo.cpp:205-206).
THEOREM RunningStaysSound ==
  ASSUME NEW w, OneWindow(w)
  PROVE  CallersSpec => []RunningSound
<1>1. CInv => RunningSound
  BY DEF CInv, IInv, RunningSound
<1>2. QED
  BY <1>1, CallersInvariant, PTL

=============================================================================
