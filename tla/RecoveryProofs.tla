--------------------------- MODULE RecoveryProofs ---------------------------
(***************************************************************************)
(* Proofs about AutoRecovery, for one program with any documents, files    *)
(* and edits, that crashes while it opens the recovery files or while its  *)
(* user works.  (In between it may not: the run recovery_crash.)  What     *)
(* crashes is recovered because the files always are, between two saves,   *)
(* whole documents without a gap, and because a save leaves no document    *)
(* out that an earlier one has written.                                    *)
(***************************************************************************)
EXTENDS AutoRecovery, TLAPS

\* From an index on, the files are there up to the first that is not.
NoGap(from) ==
  \A i, j \in Index : from <= i /\ i < j /\ file[j] # NoFile => file[i] # NoFile

\* Which files there are.
FilesInOrder(p) ==
  /\ pc[p] \in {"off", "open", "idle"} => NoGap(0)
  /\ pc[p] = "clean" => /\ \A i \in Index : i < idx[p] => file[i] = NoFile
                        /\ NoGap(idx[p])
  /\ pc[p] = "save" => \A i \in Index : file[i] # NoFile <=>
                         i < idx[p] \/ (i = idx[p] /\ writing[p])
  /\ writing[p] => pc[p] = "save" /\ idx[p] \in Index

\* No two hold the same document, and all but the one being written are whole.
FilesDiffer ==
  \A i, j \in Index :
    file[i] \in Work /\ file[j] \in Work /\ file[i].doc = file[j].doc => i = j

FilesWhole(p) ==
  \A i \in Index :
    file[i] \in Work /\ file[i].content = Part => writing[p] /\ i = idx[p]

\* So are the documents of the program.
WorkIsWhole(p) ==
  /\ \A v, w \in work[p] : v.doc = w.doc => v = w
  /\ \A w \in work[p] : w.content # Part
  /\ pc[p] = "off" \/ (pc[p] = "clean" /\ after[p] = "off") => work[p] = {}

\* What is opened are the files up to the one that is next.
OpenedAreFiles(p) ==
  pc[p] = "open" =>
    /\ \A w \in work[p] : \E i \in Index : i < idx[p] /\ file[i] = w
    /\ \A i \in Index : i < idx[p] /\ file[i] \in Work => file[i] \in work[p]

\* Where what was written before a crash is to be found.
OwedIsKept(p) ==
  IF pc[p] \in {"off", "open"} THEN \A w \in owed : \E i \in Index : file[i] = w
  ELSE IF pc[p] = "clean" /\ after[p] = "idle" THEN owed \subseteq work[p]
  ELSE owed = {}

\* What was written of the documents that are open is in the files, but for a
\* save that goes on.
SavedIsKept(p) ==
  /\ pc[p] \in {"off", "open"} \/ (pc[p] = "clean" /\ after[p] = "idle") => saved[p] = {}
  /\ \A v \in saved[p] : \E w \in work[p] : w.doc = v.doc
  /\ pc[p] = "idle" => \A w \in saved[p] : \E i \in Index : file[i] = w

\* What a save has written, writes, and has yet to write.
SaveGoesOn(p) ==
  pc[p] = "save" =>
    /\ toWrite[p] \subseteq work[p] \cup {Blank}
    /\ \A w \in work[p] :
         \/ w \in toWrite[p]
         \/ \E i \in Index : i < idx[p] /\ file[i] = w
         \/ writing[p] /\ file[idx[p]] \in Work /\ file[idx[p]].doc = w.doc
    /\ \A i \in Index :
         file[i] \in Work =>
           \E w \in work[p] : /\ w.doc = file[i].doc /\ w \notin toWrite[p]
                              /\ i < idx[p] => w = file[i]
    /\ \A v \in saved[p], i \in Index :
         i < idx[p] /\ file[i] \in Work /\ file[i].doc = v.doc => v = file[i]

\* A program that was closed, or never started, has left no file.
NoneLeft(p) == pc[p] = "off" /\ ~crashed => \A i \in Index : file[i] = NoFile

Others(p) ==
  /\ FilesInOrder(p) /\ FilesDiffer /\ FilesWhole(p) /\ WorkIsWhole(p)
  /\ OpenedAreFiles(p) /\ OwedIsKept(p) /\ SavedIsKept(p) /\ SaveGoesOn(p) /\ NoneLeft(p)

\* The inductive invariant.
IInv(p) == TypeOK /\ Others(p)

\* One program, which crashes in these places only.
OneProgram(p) == Processes = {p} /\ CrashAt \subseteq {"open", "idle"}

-----------------------------------------------------------------------------
LEMMA WorkIsNoOtherFile == NoFile \notin Work /\ Blank \notin Work /\ NoFile # Blank
BY FilesAssumption, RecoveryAssumption

\* What is typed, for the program.
LEMMA TypesOfOne ==
  ASSUME NEW p, OneProgram(p), TypeOK
  PROVE  /\ p \in Processes /\ \A q \in Processes : q = p
         /\ idx[p] \in Nat /\ MaxIndex \in Nat /\ MaxContent \in Nat
         /\ work[p] \subseteq Work /\ saved[p] \subseteq Work /\ owed \subseteq Work
         /\ toWrite[p] \subseteq Work \cup {Blank}
         /\ \A i \in Index : file[i] \in Work \cup {NoFile, Blank}
         /\ Index = 0 .. MaxIndex
BY RecoveryAssumption DEF TypeOK, OneProgram, Index

LEMMA InitInvariant ==
  ASSUME NEW p, OneProgram(p), Init
  PROVE  IInv(p)
<1>. USE DEF Init
<1>1. p \in Processes
  BY DEF OneProgram
<1>2. TypeOK
  BY DEF TypeOK, Places
<1>3. FilesInOrder(p) /\ FilesDiffer /\ FilesWhole(p) /\ NoneLeft(p)
  BY <1>1, WorkIsNoOtherFile DEF FilesInOrder, NoGap, FilesDiffer, FilesWhole, NoneLeft
<1>4. WorkIsWhole(p) /\ OpenedAreFiles(p) /\ OwedIsKept(p) /\ SavedIsKept(p) /\ SaveGoesOn(p)
  BY <1>1 DEF WorkIsWhole, OpenedAreFiles, OwedIsKept, SavedIsKept, SaveGoesOn
<1>. QED  BY <1>2, <1>3, <1>4 DEF IInv, Others

LEMMA CleanFileInvariant ==
  ASSUME NEW p, OneProgram(p), IInv(p), CleanFile(p)
  PROVE  IInv(p)'
<1>1. /\ TypeOK /\ p \in Processes /\ idx[p] \in Index /\ pc[p] = "clean"
      /\ file' = [file EXCEPT ![idx[p]] = NoFile] /\ idx'[p] = idx[p] + 1
      /\ idx[p] \in Nat /\ Index = 0 .. MaxIndex /\ ~writing[p]
      /\ UNCHANGED <<pc, after, work, bare, toWrite, writing, saved, owed, crashed>>
  BY TypesOfOne DEF CleanFile, Exists, IInv, TypeOK, Others, FilesInOrder
<1>2. TypeOK'
  BY <1>1 DEF TypeOK, CleanFile
<1>3. /\ file'[idx[p]] = NoFile
      /\ \A i \in Index : i # idx[p] => file'[i] = file[i]
  BY <1>1 DEF TypeOK
<1>4. FilesInOrder(p)'
  BY <1>1, <1>3 DEF IInv, Others, FilesInOrder, NoGap
<1>5. FilesDiffer' /\ FilesWhole(p)'
  BY <1>1, <1>3, WorkIsNoOtherFile DEF IInv, Others, FilesDiffer, FilesWhole
<1>6. WorkIsWhole(p)' /\ OpenedAreFiles(p)' /\ SaveGoesOn(p)' /\ NoneLeft(p)'
  BY <1>1 DEF IInv, Others, WorkIsWhole, OpenedAreFiles, SaveGoesOn, NoneLeft
<1>7. OwedIsKept(p)' /\ SavedIsKept(p)'
  BY <1>1 DEF IInv, Others, OwedIsKept, SavedIsKept
<1>. QED  BY <1>2, <1>4, <1>5, <1>6, <1>7 DEF IInv, Others

\* When cleanupRecovery ends, there is no file.
LEMMA CleanedAll ==
  ASSUME NEW p, OneProgram(p), IInv(p), pc[p] = "clean", ~Exists(idx[p])
  PROVE  \A i \in Index : file[i] = NoFile
<1>1. idx[p] \in Nat /\ Index = 0 .. MaxIndex /\ MaxIndex \in Nat
  BY TypesOfOne DEF IInv
<1>. QED  BY <1>1 DEF Exists, IInv, Others, FilesInOrder, NoGap

LEMMA CleanedInvariant ==
  ASSUME NEW p, OneProgram(p), IInv(p), Cleaned(p)
  PROVE  IInv(p)'
<1>1. /\ TypeOK /\ p \in Processes /\ pc[p] = "clean" /\ ~writing[p]
      /\ pc'[p] = after[p] /\ idx'[p] = 0
      /\ toWrite'[p] = IF after[p] = "save" THEN DocumentsToSave(p) ELSE {}
      /\ after[p] \in {"idle", "save", "off"}
      /\ Index = 0 .. MaxIndex /\ MaxIndex \in Nat
      /\ UNCHANGED <<file, after, work, writing, saved>>
  BY TypesOfOne DEF Cleaned, IInv, TypeOK, Others, FilesInOrder
<1>2. \A i \in Index : file[i] = NoFile
  BY CleanedAll DEF Cleaned
<1>3. TypeOK'
  BY <1>1, ZenonT(60) DEF TypeOK, Cleaned, DocumentsToSave, Places
<1>4. FilesInOrder(p)' /\ FilesDiffer' /\ FilesWhole(p)' /\ NoneLeft(p)'
  BY <1>1, <1>2, WorkIsNoOtherFile DEF FilesInOrder, NoGap, FilesDiffer, FilesWhole, NoneLeft
<1>5. WorkIsWhole(p)' /\ OpenedAreFiles(p)'
  BY <1>1 DEF IInv, Others, WorkIsWhole, OpenedAreFiles
<1>6. OwedIsKept(p)' /\ SavedIsKept(p)'
  <2>1. CASE after[p] = "idle"
    BY <1>1, <2>1 DEF Cleaned, IInv, Others, OwedIsKept, SavedIsKept
  <2>2. CASE after[p] = "save"
    BY <1>1, <2>2 DEF Cleaned, IInv, Others, OwedIsKept, SavedIsKept
  <2>3. CASE after[p] = "off"
    BY <1>1, <2>3 DEF Cleaned, IInv, Others, OwedIsKept, SavedIsKept, WorkIsWhole
  <2>. QED  BY <1>1, <2>1, <2>2, <2>3
<1>7. SaveGoesOn(p)'
  BY <1>1, <1>2, WorkIsNoOtherFile DEF SaveGoesOn, DocumentsToSave
<1>. QED  BY <1>3, <1>4, <1>5, <1>6, <1>7 DEF IInv, Others

LEMMA SaveRecoveryInvariant ==
  ASSUME NEW p, OneProgram(p), IInv(p), SaveRecovery(p)
  PROVE  IInv(p)'
<1>1. /\ TypeOK /\ p \in Processes /\ pc[p] = "idle" /\ ~writing[p]
      /\ pc'[p] = "clean" /\ idx'[p] = 0 /\ after'[p] = "save"
      /\ Index = 0 .. MaxIndex
      /\ UNCHANGED <<file, work, bare, toWrite, writing, saved, owed, crashed>>
  BY TypesOfOne
     DEF SaveRecovery, StartClean, FirstFile, IInv, TypeOK, Others, FilesInOrder
<1>2. TypeOK'
  BY <1>1 DEF TypeOK, SaveRecovery, StartClean, FirstFile, Places
<1>3. FilesInOrder(p)' /\ FilesDiffer' /\ FilesWhole(p)' /\ NoneLeft(p)'
  BY <1>1 DEF IInv, Others, FilesInOrder, NoGap, FilesDiffer, FilesWhole, NoneLeft
<1>4. WorkIsWhole(p)' /\ OpenedAreFiles(p)' /\ SaveGoesOn(p)'
  BY <1>1 DEF IInv, Others, WorkIsWhole, OpenedAreFiles, SaveGoesOn
<1>5. OwedIsKept(p)' /\ SavedIsKept(p)'
  BY <1>1 DEF IInv, Others, OwedIsKept, SavedIsKept
<1>. QED  BY <1>2, <1>3, <1>4, <1>5 DEF IInv, Others

LEMMA CreateFileInvariant ==
  ASSUME NEW p, OneProgram(p), IInv(p), CreateFile(p)
  PROVE  IInv(p)'
<1>. PICK d \in toWrite[p] :
       /\ file' = [file EXCEPT ![idx[p]] =
                     IF d = Blank THEN Blank ELSE [d EXCEPT !.content = Part]]
       /\ toWrite' = [toWrite EXCEPT ![p] = @ \ {d}]
  BY DEF CreateFile
<1>. DEFINE f == IF d = Blank THEN Blank ELSE [d EXCEPT !.content = Part]
<1>1. /\ TypeOK /\ p \in Processes /\ pc[p] = "save" /\ ~writing[p] /\ writing'[p]
      /\ idx[p] \in Index /\ idx[p] \in Nat /\ Index = 0 .. MaxIndex
      /\ toWrite'[p] = toWrite[p] \ {d} /\ d \in Work \cup {Blank}
      /\ UNCHANGED <<pc, idx, after, work, bare, saved, owed, crashed>>
  BY TypesOfOne DEF CreateFile, IInv, TypeOK
<1>2. /\ f \in Work \cup {Blank} /\ (f \in Work <=> d \in Work)
      /\ f \in Work => f.doc = d.doc
      /\ file'[idx[p]] = f /\ \A i \in Index : i # idx[p] => file'[i] = file[i]
  BY <1>1, WorkIsNoOtherFile DEF TypeOK, Work, Contents
<1>. HIDE DEF f
<1>3. TypeOK'
  <2>1. file' \in [Index -> Work \cup {NoFile, Blank}]
    BY <1>1, <1>2 DEF TypeOK, f
  <2>. QED  BY <1>1, <2>1 DEF TypeOK, CreateFile
<1>4. f # NoFile /\ file[idx[p]] = NoFile
  BY <1>1, <1>2, WorkIsNoOtherFile DEF IInv, Others, FilesInOrder
<1>5. FilesInOrder(p)'
  BY <1>1, <1>2, <1>4 DEF IInv, Others, FilesInOrder
<1>6. FilesWhole(p)'
  BY <1>1, <1>2 DEF IInv, Others, FilesWhole
<1>7. ASSUME NEW i \in Index, i # idx[p], file[i] \in Work, f \in Work
      PROVE  file[i].doc # f.doc
  <2>1. d \in work[p] /\ d.doc = f.doc
    BY <1>1, <1>2, <1>7, WorkIsNoOtherFile DEF IInv, Others, SaveGoesOn
  <2>2. PICK w \in work[p] : w.doc = file[i].doc /\ w \notin toWrite[p]
    BY <1>1, <1>7 DEF IInv, Others, SaveGoesOn
  <2>. QED  BY <2>1, <2>2 DEF IInv, Others, WorkIsWhole
<1>8. FilesDiffer'
  BY <1>1, <1>2, <1>7 DEF IInv, Others, FilesDiffer
<1>9. WorkIsWhole(p)' /\ OpenedAreFiles(p)' /\ OwedIsKept(p)' /\ SavedIsKept(p)' /\ NoneLeft(p)'
  BY <1>1 DEF IInv, Others, WorkIsWhole, OpenedAreFiles, OwedIsKept, SavedIsKept, NoneLeft
<1>10. SaveGoesOn(p)'
  <2>1. toWrite'[p] \subseteq work[p] \cup {Blank}
    BY <1>1 DEF IInv, Others, SaveGoesOn
  <2>2. ASSUME NEW w \in work[p]
        PROVE  \/ w \in toWrite'[p]
               \/ \E i \in Index : i < idx[p] /\ file'[i] = w
               \/ writing'[p] /\ file'[idx[p]] \in Work /\ file'[idx[p]].doc = w.doc
    <3>1. CASE w = d
      BY <1>1, <1>2, <3>1, TypesOfOne DEF IInv
    <3>2. CASE w # d
      BY <1>1, <1>2, <3>2 DEF IInv, Others, SaveGoesOn
    <3>. QED  BY <3>1, <3>2
  <2>3. ASSUME NEW i \in Index, file'[i] \in Work
        PROVE  \E w \in work[p] : /\ w.doc = file'[i].doc /\ w \notin toWrite'[p]
                                  /\ i < idx[p] => w = file'[i]
    <3>1. CASE i = idx[p]
      <4>1. d \in work[p] /\ d.doc = file'[i].doc /\ d \notin toWrite'[p]
        BY <1>1, <1>2, <2>3, <3>1, WorkIsNoOtherFile DEF IInv, Others, SaveGoesOn
      <4>. QED  BY <1>1, <3>1, <4>1
    <3>2. CASE i # idx[p]
      BY <1>1, <1>2, <2>3, <3>2 DEF IInv, Others, SaveGoesOn
    <3>. QED  BY <3>1, <3>2
  <2>4. \A v \in saved[p], i \in Index :
          i < idx[p] /\ file'[i] \in Work /\ file'[i].doc = v.doc => v = file'[i]
    BY <1>1, <1>2 DEF IInv, Others, SaveGoesOn
  <2>. QED  BY <1>1, <2>1, <2>2, <2>3, <2>4 DEF SaveGoesOn
<1>. QED  BY <1>3, <1>5, <1>6, <1>8, <1>9, <1>10 DEF IInv, Others

\* What WriteFile writes to is the document that CreateFile made the file for.
LEMMA WrittenIsOpen ==
  ASSUME NEW p, OneProgram(p), IInv(p), pc[p] = "save", writing[p]
  PROVE  /\ idx[p] \in Index /\ file[idx[p]] \in Work \cup {Blank}
         /\ ToFile(p) = {} => file[idx[p]] = Blank
         /\ file[idx[p]] = Blank => ToFile(p) = {}
<1>1. idx[p] \in Index /\ file[idx[p]] # NoFile
  BY DEF IInv, Others, FilesInOrder
<1>2. file[idx[p]] \in Work \cup {Blank}
  BY <1>1, TypesOfOne DEF IInv
<1>3. ASSUME file[idx[p]] \in Work PROVE ToFile(p) # {}
  <2>1. PICK w \in work[p] : w.doc = file[idx[p]].doc
    BY <1>1, <1>3 DEF IInv, Others, SaveGoesOn
  <2>. QED  BY <1>3, <2>1, WorkIsNoOtherFile DEF ToFile
<1>. QED  BY <1>1, <1>2, <1>3 DEF ToFile

LEMMA WriteFileInvariant ==
  ASSUME NEW p, OneProgram(p), IInv(p), WriteFile(p)
  PROVE  IInv(p)'
<1>1. /\ TypeOK /\ p \in Processes /\ pc[p] = "save" /\ writing[p] /\ ~writing'[p]
      /\ idx[p] \in Index /\ idx[p] \in Nat /\ idx'[p] = idx[p] + 1
      /\ Index = 0 .. MaxIndex /\ MaxIndex \in Nat
      /\ work[p] \subseteq Work /\ saved[p] \subseteq Work
      /\ UNCHANGED <<pc, after, work, bare, toWrite, owed, crashed>>
  BY TypesOfOne, WrittenIsOpen DEF WriteFile, IInv, TypeOK
<1>2. WorkIsWhole(p)' /\ OpenedAreFiles(p)' /\ OwedIsKept(p)' /\ NoneLeft(p)'
  BY <1>1 DEF IInv, Others, WorkIsWhole, OpenedAreFiles, OwedIsKept, NoneLeft
<1>3. CASE ToFile(p) = {}
  <2>1. file' = file /\ saved' = saved /\ file[idx[p]] = Blank
    BY <1>1, <1>3, WrittenIsOpen DEF WriteFile
  <2>2. TypeOK'
    BY <1>1, <2>1 DEF TypeOK, WriteFile
  <2>3. FilesInOrder(p)'
    BY <1>1, <2>1 DEF IInv, Others, FilesInOrder
  <2>4. FilesDiffer' /\ FilesWhole(p)' /\ SavedIsKept(p)'
    BY <1>1, <2>1, WorkIsNoOtherFile DEF IInv, Others, FilesDiffer, FilesWhole, SavedIsKept
  <2>5. \A i \in Index : i < idx[p] + 1 <=> i < idx[p] \/ i = idx[p]
    BY <1>1
  <2>6. SaveGoesOn(p)'
    BY <1>1, <2>1, <2>5, WorkIsNoOtherFile DEF IInv, Others, SaveGoesOn
  <2>. QED  BY <1>2, <2>2, <2>3, <2>4, <2>6 DEF IInv, Others
<1>4. CASE ToFile(p) # {}
  <2>. PICK w \in ToFile(p) :
         /\ file' = [file EXCEPT ![idx[p]] = w]
         /\ saved' = [saved EXCEPT ![p] = {v \in @ : v.doc # w.doc} \cup {w}]
    BY <1>4 DEF WriteFile
  <2>1. w \in work[p] /\ w \in Work /\ file[idx[p]] \in Work /\ file[idx[p]].doc = w.doc
    BY <1>1, <1>4, WrittenIsOpen DEF ToFile
  <2>2. /\ file'[idx[p]] = w /\ \A i \in Index : i # idx[p] => file'[i] = file[i]
        /\ saved'[p] = {v \in saved[p] : v.doc # w.doc} \cup {w}
    BY <1>1, <2>1 DEF TypeOK
  <2>3. TypeOK'
    <3>1. file' \in [Index -> Work \cup {NoFile, Blank}]
      BY <1>1, <2>1 DEF TypeOK
    <3>2. saved' \in [Processes -> SUBSET Work]
      BY <1>1, <2>1 DEF TypeOK
    <3>. QED  BY <1>1, <3>1, <3>2 DEF TypeOK, WriteFile
  <2>4. FilesInOrder(p)'
    BY <1>1, <2>1, <2>2, WorkIsNoOtherFile DEF IInv, Others, FilesInOrder
  <2>5. FilesDiffer' /\ FilesWhole(p)'
    BY <1>1, <2>1, <2>2 DEF IInv, Others, FilesDiffer, FilesWhole, WorkIsWhole
  <2>6. SavedIsKept(p)'
    BY <1>1, <2>1, <2>2 DEF IInv, Others, SavedIsKept
  <2>7. SaveGoesOn(p)'
    <3>1. \A i \in Index : i < idx[p] + 1 <=> i < idx[p] \/ i = idx[p]
      BY <1>1
    <3>2. w \notin toWrite[p]
      BY <1>1, <2>1 DEF IInv, Others, SaveGoesOn, WorkIsWhole
    <3>3. ASSUME NEW v \in work[p]
          PROVE  v \in toWrite[p] \/ \E i \in Index : i < idx[p] + 1 /\ file'[i] = v
      <4>1. CASE v = w
        BY <1>1, <2>2, <3>1, <4>1
      <4>2. CASE v # w
        <5>1. v.doc # w.doc
          BY <2>1, <4>2 DEF IInv, Others, WorkIsWhole
        <5>2. v \in toWrite[p] \/ \E i \in Index : i < idx[p] /\ file[i] = v
          BY <1>1, <2>1, <5>1 DEF IInv, Others, SaveGoesOn
        <5>. QED  BY <1>1, <2>2, <3>1, <5>2
      <4>. QED  BY <4>1, <4>2
    <3>4. ASSUME NEW i \in Index, file'[i] \in Work
          PROVE  \E v \in work[p] : /\ v.doc = file'[i].doc /\ v \notin toWrite[p]
                                    /\ i < idx[p] + 1 => v = file'[i]
      <4>1. CASE i = idx[p]
        BY <2>1, <2>2, <3>2, <4>1
      <4>2. CASE i # idx[p]
        BY <1>1, <2>2, <3>1, <3>4, <4>2 DEF IInv, Others, SaveGoesOn
      <4>. QED  BY <4>1, <4>2
    <3>5. ASSUME NEW v \in saved'[p], NEW i \in Index,
                 i < idx[p] + 1, file'[i] \in Work, file'[i].doc = v.doc
          PROVE  v = file'[i]
      <4>1. CASE i = idx[p]
        BY <2>2, <3>5, <4>1
      <4>2. CASE i # idx[p]
        <5>1. file'[i] = file[i] /\ i < idx[p] /\ file[i].doc # w.doc
          BY <1>1, <2>1, <2>2, <3>1, <3>5, <4>2 DEF IInv, Others, FilesDiffer
        <5>. QED  BY <1>1, <2>2, <3>5, <5>1 DEF IInv, Others, SaveGoesOn
      <4>. QED  BY <4>1, <4>2
    <3>. QED  BY <1>1, <3>3, <3>4, <3>5 DEF IInv, Others, SaveGoesOn
  <2>. QED  BY <1>2, <2>3, <2>4, <2>5, <2>6, <2>7 DEF IInv, Others
<1>. QED  BY <1>3, <1>4

LEMMA SavedInvariant ==
  ASSUME NEW p, OneProgram(p), IInv(p), Saved(p)
  PROVE  IInv(p)'
<1>1. /\ TypeOK /\ p \in Processes /\ pc[p] = "save" /\ ~writing[p] /\ toWrite[p] = {}
      /\ pc'[p] = "idle" /\ idx'[p] = 0 /\ idx[p] \in Nat /\ Index = 0 .. MaxIndex
      /\ work[p] \subseteq Work
      /\ UNCHANGED <<file, after, work, bare, toWrite, writing, saved, owed, crashed>>
  BY TypesOfOne DEF Saved, IInv, TypeOK
<1>2. TypeOK'
  BY <1>1 DEF TypeOK, Saved, Places
<1>3. FilesInOrder(p)' /\ FilesDiffer' /\ FilesWhole(p)' /\ NoneLeft(p)'
  BY <1>1 DEF IInv, Others, FilesInOrder, NoGap, FilesDiffer, FilesWhole, NoneLeft
<1>4. WorkIsWhole(p)' /\ OpenedAreFiles(p)' /\ SaveGoesOn(p)' /\ OwedIsKept(p)'
  BY <1>1 DEF IInv, Others, WorkIsWhole, OpenedAreFiles, SaveGoesOn, OwedIsKept
<1>5. SavedIsKept(p)'
  <2>1. ASSUME NEW v \in saved[p] PROVE \E i \in Index : file[i] = v
    <3>1. PICK w \in work[p] : w.doc = v.doc
      BY DEF IInv, Others, SavedIsKept
    <3>2. PICK i \in Index : i < idx[p] /\ file[i] = w
      BY <1>1 DEF IInv, Others, SaveGoesOn
    <3>3. v = file[i]
      BY <1>1, <3>1, <3>2 DEF IInv, Others, SaveGoesOn
    <3>. QED  BY <3>3
  <2>. QED  BY <1>1, <2>1 DEF IInv, Others, SavedIsKept
<1>. QED  BY <1>2, <1>3, <1>4, <1>5 DEF IInv, Others

-----------------------------------------------------------------------------
LEMMA StartInvariant ==
  ASSUME NEW p, OneProgram(p), IInv(p), Start(p)
  PROVE  IInv(p)'
<1>1. /\ TypeOK /\ p \in Processes /\ pc[p] = "off" /\ ~writing[p]
      /\ pc'[p] = "open" /\ idx'[p] = 0 /\ Index = 0 .. MaxIndex
      /\ UNCHANGED <<file, after, work, toWrite, writing, saved, owed, crashed>>
  BY TypesOfOne DEF Start, IInv, TypeOK, Others, FilesInOrder
<1>2. TypeOK'
  BY <1>1 DEF TypeOK, Start, Places
<1>3. FilesInOrder(p)' /\ FilesDiffer' /\ FilesWhole(p)' /\ NoneLeft(p)'
  BY <1>1 DEF IInv, Others, FilesInOrder, NoGap, FilesDiffer, FilesWhole, NoneLeft
<1>4. WorkIsWhole(p)' /\ OpenedAreFiles(p)' /\ SaveGoesOn(p)'
  BY <1>1 DEF IInv, Others, WorkIsWhole, OpenedAreFiles, SaveGoesOn
<1>5. OwedIsKept(p)' /\ SavedIsKept(p)'
  BY <1>1 DEF IInv, Others, OwedIsKept, SavedIsKept
<1>. QED  BY <1>2, <1>3, <1>4, <1>5 DEF IInv, Others

LEMMA OpenFileInvariant ==
  ASSUME NEW p, OneProgram(p), IInv(p), OpenFile(p)
  PROVE  IInv(p)'
<1>. DEFINE f == file[idx[p]]
<1>1. /\ TypeOK /\ p \in Processes /\ pc[p] = "open" /\ ~writing[p]
      /\ idx[p] \in Index /\ idx[p] \in Nat /\ Index = 0 .. MaxIndex
      /\ f # NoFile /\ f \in Work \cup {Blank}
      /\ idx' = [idx EXCEPT ![p] = @ + 1] /\ idx'[p] = idx[p] + 1
      /\ saved[p] = {}
      /\ UNCHANGED <<file, pc, after, bare, toWrite, writing, saved, owed, crashed>>
  BY TypesOfOne DEF OpenFile, NextToOpen, Exists, IInv, TypeOK, Others, FilesInOrder,
                    SavedIsKept
<1>2. PICK docs \in Imports(f) : work' = [work EXCEPT ![p] = @ \cup docs]
  BY DEF OpenFile
<1>3. f \in Work => f.content # Part
  BY <1>1 DEF IInv, Others, FilesWhole
<1>4. docs = (IF f \in Work THEN {f} ELSE {}) /\ work'[p] = work[p] \cup docs
  BY <1>1, <1>2, <1>3, WorkIsNoOtherFile DEF Imports, TypeOK
<1>5. TypeOK'
  <2>1. work' \in [Processes -> SUBSET Work]
    BY <1>1, <1>2, <1>4 DEF TypeOK
  <2>2. idx' \in [Processes -> Nat]
    BY <1>1 DEF TypeOK
  <2>. QED  BY <1>1, <2>1, <2>2 DEF TypeOK
<1>6. FilesInOrder(p)' /\ FilesDiffer' /\ FilesWhole(p)' /\ NoneLeft(p)'
  BY <1>1 DEF IInv, Others, FilesInOrder, NoGap, FilesDiffer, FilesWhole, NoneLeft
<1>7. \A w \in work[p] : f \in Work => w.doc # f.doc
  BY <1>1, TypesOfOne DEF IInv, Others, OpenedAreFiles, FilesDiffer
<1>8. WorkIsWhole(p)'
  BY <1>1, <1>3, <1>4, <1>7 DEF IInv, Others, WorkIsWhole
<1>9. OpenedAreFiles(p)'
  <2>1. \A i \in Index : i < idx[p] + 1 <=> i < idx[p] \/ i = idx[p]
    BY <1>1
  <2>. QED  BY <1>1, <1>4, <2>1 DEF IInv, Others, OpenedAreFiles
<1>10. OwedIsKept(p)' /\ SavedIsKept(p)' /\ SaveGoesOn(p)'
  BY <1>1 DEF IInv, Others, OwedIsKept, SavedIsKept, SaveGoesOn
<1>. QED  BY <1>5, <1>6, <1>8, <1>9, <1>10 DEF IInv, Others

LEMMA OpenedAllInvariant ==
  ASSUME NEW p, OneProgram(p), IInv(p), OpenedAll(p)
  PROVE  IInv(p)'
<1>1. /\ TypeOK /\ p \in Processes /\ pc[p] = "open" /\ ~writing[p] /\ saved[p] = {}
      /\ pc'[p] = "clean" /\ idx'[p] = 0 /\ after'[p] = "idle"
      /\ idx[p] \in Nat /\ Index = 0 .. MaxIndex /\ MaxIndex \in Nat
      /\ UNCHANGED <<file, work, bare, toWrite, writing, saved, owed, crashed>>
  BY TypesOfOne DEF OpenedAll, StartClean, FirstFile, IInv, TypeOK, Others, FilesInOrder,
                    SavedIsKept
<1>2. TypeOK'
  BY <1>1 DEF TypeOK, OpenedAll, StartClean, FirstFile, Places
<1>3. FilesInOrder(p)' /\ FilesDiffer' /\ FilesWhole(p)' /\ NoneLeft(p)'
  BY <1>1 DEF IInv, Others, FilesInOrder, NoGap, FilesDiffer, FilesWhole, NoneLeft
<1>4. WorkIsWhole(p)' /\ OpenedAreFiles(p)' /\ SaveGoesOn(p)' /\ SavedIsKept(p)'
  BY <1>1 DEF IInv, Others, WorkIsWhole, OpenedAreFiles, SaveGoesOn, SavedIsKept
<1>5. OwedIsKept(p)'
  <2>1. ASSUME NEW w \in owed PROVE w \in work[p]
    <3>1. PICK i \in Index : file[i] = w
      BY <1>1 DEF IInv, Others, OwedIsKept
    <3>2. w \in Work
      BY TypesOfOne DEF IInv
    <3>3. i < idx[p]
      BY <1>1, <3>1, <3>2, WorkIsNoOtherFile
         DEF OpenedAll, Exists, IInv, Others, FilesInOrder, NoGap
    <3>. QED  BY <1>1, <3>1, <3>2, <3>3 DEF IInv, Others, OpenedAreFiles
  <2>. QED  BY <1>1, <2>1 DEF OwedIsKept
<1>. QED  BY <1>2, <1>3, <1>4, <1>5 DEF IInv, Others

\* What the user does to the documents changes no file.
LEMMA UserKeepsFiles ==
  ASSUME NEW p, OneProgram(p), IInv(p), pc[p] = "idle",
         UNCHANGED <<file, pc, idx, after, toWrite, writing, owed, crashed>>
  PROVE  /\ FilesInOrder(p)' /\ FilesDiffer' /\ FilesWhole(p)' /\ NoneLeft(p)'
         /\ OpenedAreFiles(p)' /\ OwedIsKept(p)' /\ SaveGoesOn(p)'
<1>1. FilesInOrder(p)' /\ FilesDiffer' /\ FilesWhole(p)' /\ NoneLeft(p)'
  BY DEF IInv, Others, FilesInOrder, NoGap, FilesDiffer, FilesWhole, NoneLeft
<1>2. OpenedAreFiles(p)' /\ OwedIsKept(p)' /\ SaveGoesOn(p)'
  BY DEF IInv, Others, OpenedAreFiles, OwedIsKept, SaveGoesOn
<1>. QED  BY <1>1, <1>2

LEMMA EditInvariant ==
  ASSUME NEW p, OneProgram(p), IInv(p), Edit(p)
  PROVE  IInv(p)'
<1>. PICK w \in work[p] :
       /\ w.content \in 0 .. MaxContent - 1
       /\ work' = [work EXCEPT ![p] = (@ \ {w}) \cup {[w EXCEPT !.content = @ + 1]}]
  BY DEF Edit
<1>. DEFINE n == [w EXCEPT !.content = @ + 1]
<1>1. /\ TypeOK /\ p \in Processes /\ pc[p] = "idle" /\ work[p] \subseteq Work
      /\ MaxContent \in Nat
      /\ UNCHANGED <<file, pc, idx, after, bare, toWrite, writing, saved, owed, crashed>>
  BY TypesOfOne DEF Edit, IInv
<1>2. n \in Work /\ n.doc = w.doc /\ n.content # Part
  BY <1>1 DEF Work, Contents, Part
<1>3. work' = [work EXCEPT ![p] = (@ \ {w}) \cup {n}]
  OBVIOUS
<1>. HIDE DEF n
<1>4. work'[p] = (work[p] \ {w}) \cup {n}
  BY <1>1, <1>3 DEF TypeOK
<1>5. TypeOK'
  <2>1. work' \in [Processes -> SUBSET Work]
    BY <1>1, <1>2, <1>3 DEF TypeOK
  <2>. QED  BY <1>1, <2>1 DEF TypeOK
<1>6. WorkIsWhole(p)'
  BY <1>1, <1>2, <1>4 DEF IInv, Others, WorkIsWhole
<1>7. SavedIsKept(p)'
  BY <1>1, <1>2, <1>4 DEF IInv, Others, SavedIsKept
<1>. QED  BY <1>1, <1>5, <1>6, <1>7, UserKeepsFiles DEF IInv, Others

LEMMA OpenDocInvariant ==
  ASSUME NEW p, OneProgram(p), IInv(p), NEW d \in Docs, OpenDoc(p, d)
  PROVE  IInv(p)'
<1>. DEFINE n == [doc |-> d, content |-> 0]
<1>1. /\ TypeOK /\ p \in Processes /\ pc[p] = "idle" /\ work[p] \subseteq Work
      /\ MaxContent \in Nat
      /\ work' = [work EXCEPT ![p] = @ \cup {n}]
      /\ \A w \in work[p] : w.doc # d
      /\ bare' \in [Processes -> BOOLEAN]
      /\ UNCHANGED <<file, pc, idx, after, toWrite, writing, saved, owed, crashed>>
  BY TypesOfOne, ZenonT(60) DEF OpenDoc, IInv, TypeOK
<1>2. n \in Work /\ n.doc = d /\ n.content # Part
  BY <1>1 DEF Work, Contents, Part
<1>. HIDE DEF n
<1>3. work'[p] = work[p] \cup {n}
  BY <1>1 DEF TypeOK
<1>4. TypeOK'
  <2>1. work' \in [Processes -> SUBSET Work]
    BY <1>1, <1>2 DEF TypeOK
  <2>. QED  BY <1>1, <2>1 DEF TypeOK
<1>5. WorkIsWhole(p)'
  BY <1>1, <1>2, <1>3 DEF IInv, Others, WorkIsWhole
<1>6. SavedIsKept(p)'
  BY <1>1, <1>3 DEF IInv, Others, SavedIsKept
<1>. QED  BY <1>1, <1>4, <1>5, <1>6, UserKeepsFiles DEF IInv, Others

LEMMA CloseDocInvariant ==
  ASSUME NEW p, OneProgram(p), IInv(p), CloseDoc(p)
  PROVE  IInv(p)'
<1>. PICK w \in work[p], stays \in BOOLEAN :
       /\ work' = [work EXCEPT ![p] = @ \ {w}]
       /\ saved' = [saved EXCEPT ![p] = {v \in @ : v.doc # w.doc}]
       /\ bare' = [bare EXCEPT ![p] = @ \/ stays]
  BY DEF CloseDoc
<1>1. /\ TypeOK /\ p \in Processes /\ pc[p] = "idle"
      /\ work'[p] = work[p] \ {w} /\ saved'[p] = {v \in saved[p] : v.doc # w.doc}
      /\ bare' \in [Processes -> BOOLEAN]
      /\ UNCHANGED <<file, pc, idx, after, toWrite, writing, owed, crashed>>
  BY TypesOfOne DEF CloseDoc, IInv, TypeOK
<1>2. TypeOK'
  <2>1. work' \in [Processes -> SUBSET Work] /\ saved' \in [Processes -> SUBSET Work]
    BY <1>1 DEF TypeOK
  <2>. QED  BY <1>1, <2>1 DEF TypeOK
<1>3. WorkIsWhole(p)'
  BY <1>1 DEF IInv, Others, WorkIsWhole
<1>4. SavedIsKept(p)'
  BY <1>1 DEF IInv, Others, SavedIsKept
<1>. QED  BY <1>1, <1>2, <1>3, <1>4, UserKeepsFiles DEF IInv, Others

LEMMA QuitInvariant ==
  ASSUME NEW p, OneProgram(p), IInv(p), Quit(p)
  PROVE  IInv(p)'
<1>1. /\ TypeOK /\ p \in Processes /\ pc[p] = "idle" /\ ~writing[p]
      /\ pc'[p] = "clean" /\ idx'[p] = 0 /\ after'[p] = "off"
      /\ work'[p] = {} /\ saved'[p] = {} /\ Index = 0 .. MaxIndex
      /\ UNCHANGED <<file, toWrite, writing, owed, crashed>>
  BY TypesOfOne DEF Quit, StartClean, FirstFile, IInv, TypeOK, Others, FilesInOrder
<1>2. TypeOK'
  BY <1>1 DEF TypeOK, Quit, StartClean, FirstFile, Places
<1>3. FilesInOrder(p)' /\ FilesDiffer' /\ FilesWhole(p)' /\ NoneLeft(p)'
  BY <1>1 DEF IInv, Others, FilesInOrder, NoGap, FilesDiffer, FilesWhole, NoneLeft
<1>4. WorkIsWhole(p)' /\ OpenedAreFiles(p)' /\ SaveGoesOn(p)'
  BY <1>1 DEF WorkIsWhole, OpenedAreFiles, SaveGoesOn
<1>5. OwedIsKept(p)' /\ SavedIsKept(p)'
  BY <1>1 DEF IInv, Others, OwedIsKept, SavedIsKept
<1>. QED  BY <1>2, <1>3, <1>4, <1>5 DEF IInv, Others

LEMMA CrashInvariant ==
  ASSUME NEW p, OneProgram(p), IInv(p), Crash(p)
  PROVE  IInv(p)'
<1>1. /\ TypeOK /\ p \in Processes /\ pc[p] \in {"open", "idle"} /\ ~writing[p]
      /\ pc'[p] = "off" /\ work'[p] = {} /\ saved'[p] = {} /\ crashed'
      /\ ~writing'[p] /\ owed' = owed \cup saved[p] /\ UNCHANGED <<file, idx, after>>
  BY TypesOfOne DEF Crash, OneProgram, IInv, TypeOK, Others, FilesInOrder
<1>2. TypeOK'
  BY <1>1 DEF TypeOK, Crash, Places
<1>3. FilesInOrder(p)' /\ FilesDiffer' /\ FilesWhole(p)' /\ NoneLeft(p)'
  BY <1>1 DEF IInv, Others, FilesInOrder, NoGap, FilesDiffer, FilesWhole, NoneLeft
<1>4. WorkIsWhole(p)' /\ OpenedAreFiles(p)' /\ SaveGoesOn(p)' /\ SavedIsKept(p)'
  BY <1>1 DEF WorkIsWhole, OpenedAreFiles, SaveGoesOn, SavedIsKept
<1>5. OwedIsKept(p)'
  BY <1>1 DEF IInv, Others, OwedIsKept, SavedIsKept
<1>. QED  BY <1>2, <1>3, <1>4, <1>5 DEF IInv, Others

-----------------------------------------------------------------------------
LEMMA NextInvariant ==
  ASSUME NEW p, OneProgram(p), IInv(p), [Next]_vars
  PROVE  IInv(p)'
<1>1. CASE Next
  <2>1. Step(p) \/ SaveRecovery(p) \/ User(p) \/ Crash(p)
    BY <1>1 DEF Next, OneProgram
  <2>2. CASE Step(p)
    BY <2>2, CleanFileInvariant, CleanedInvariant, CreateFileInvariant,
       WriteFileInvariant, SavedInvariant, OpenFileInvariant, OpenedAllInvariant DEF Step
  <2>3. CASE User(p)
    BY <2>3, StartInvariant, EditInvariant, OpenDocInvariant, CloseDocInvariant,
       QuitInvariant DEF User
  <2>. QED  BY <2>1, <2>2, <2>3, SaveRecoveryInvariant, CrashInvariant
<1>2. CASE UNCHANGED vars
  <2>1. TypeOK'
    BY <1>2 DEF vars, IInv, TypeOK
  <2>2. FilesInOrder(p)' /\ FilesDiffer' /\ FilesWhole(p)' /\ NoneLeft(p)'
    BY <1>2 DEF vars, IInv, Others, FilesInOrder, NoGap, FilesDiffer, FilesWhole, NoneLeft
  <2>3. WorkIsWhole(p)' /\ OpenedAreFiles(p)' /\ OwedIsKept(p)' /\ SavedIsKept(p)'
    BY <1>2 DEF vars, IInv, Others, WorkIsWhole, OpenedAreFiles, OwedIsKept, SavedIsKept
  <2>4. SaveGoesOn(p)'
    BY <1>2 DEF vars, IInv, Others, SaveGoesOn
  <2>. QED  BY <2>1, <2>2, <2>3, <2>4 DEF IInv, Others
<1>. QED  BY <1>1, <1>2

\* One program that crashes while it opens the files or while its user works:
\* the recovery files are whole documents without a gap between any two saves
\* (CAAutoRecovery, src/src/core/autorecovery.cpp).
THEOREM RecoveryInvariant ==
  ASSUME NEW p, OneProgram(p)
  PROVE  Spec => []IInv(p)
<1>1. Init => IInv(p)
  BY InitInvariant
<1>2. IInv(p) /\ [Next]_vars => IInv(p)'
  BY NextInvariant
<1>. QED  BY <1>1, <1>2, PTL DEF Spec

\* What was last written of every document that was open is opened at the next
\* start, before the files are deleted (CAAutoRecovery::openRecovery).
THEOREM CrashesAreRecovered ==
  ASSUME NEW p, OneProgram(p)
  PROVE  Spec => []CrashedWorkIsRecovered
<1>1. IInv(p) => CrashedWorkIsRecovered
  BY DEF IInv, Others, OwedIsKept, CrashedWorkIsRecovered, OneProgram
<1>. QED  BY <1>1, RecoveryInvariant, PTL

\* A program that is closed leaves no file (CAAutoRecovery::cleanupRecovery).
THEOREM CleanExits ==
  ASSUME NEW p, OneProgram(p)
  PROVE  Spec => []CleanExitLeavesNone
<1>1. IInv(p) => CleanExitLeavesNone
  BY DEF IInv, Others, NoneLeft, CleanExitLeavesNone, OneProgram
<1>. QED  BY <1>1, RecoveryInvariant, PTL

\* When all is written, the files hold the documents that are open, as they
\* are, and nothing else (CAAutoRecovery::saveRecovery).
THEOREM SavesAreComplete ==
  ASSUME NEW p, OneProgram(p)
  PROVE  Spec => []SavedIsComplete
<1>1. IInv(p) => SavedIsComplete
  <2>. SUFFICES ASSUME IInv(p), pc[p] = "save", toWrite[p] = {}, ~writing[p]
                PROVE  Held = work[p]
    BY DEF SavedIsComplete, OneProgram
  <2>1. /\ work[p] \subseteq Work /\ idx[p] \in Nat /\ Index = 0 .. MaxIndex
        /\ \A i \in Index : file[i] \in Work \cup {NoFile, Blank}
    BY TypesOfOne DEF IInv
  <2>2. ASSUME NEW w \in work[p] PROVE w \in Held
    BY <2>1, WorkIsNoOtherFile DEF IInv, Others, SaveGoesOn, Held
  <2>3. ASSUME NEW i \in Index, file[i] \notin {NoFile, Blank} PROVE file[i] \in work[p]
    <3>1. file[i] \in Work /\ i < idx[p]
      BY <2>1, <2>3 DEF IInv, Others, FilesInOrder
    <3>. QED  BY <3>1 DEF IInv, Others, SaveGoesOn
  <2>. QED  BY <2>2, <2>3 DEF Held
<1>. QED  BY <1>1, RecoveryInvariant, PTL

=============================================================================
