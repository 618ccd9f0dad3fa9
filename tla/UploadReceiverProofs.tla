------------------------ MODULE UploadReceiverProofs ------------------------
(***************************************************************************)
(* Proofs about UploadReceiver, for every value of its constants.           *)
(***************************************************************************)
EXTENDS UploadReceiver, SequenceTheorems, TLAPS

-----------------------------------------------------------------------------
(* Values *)

\* A manifest always has a place in the cache directory, and the blank values
\* of a new process have the types of the variables that hold them.
LEMMA BlankValues ==
    /\ Blank \in Manifest /\ Blank.streaming
    /\ NoMarks \in Marks /\ Holes \in Bytes /\ NoHold \in Local
<1>1. \E m \in Manifest : m.streaming /\ m.sha = None
  <2>1. PICK i \in Ident : TRUE
    BY OffersAssumption
  <2>2. [streaming |-> TRUE, ident |-> i, sha |-> None] \in Manifest
    BY <2>1 DEF Manifest

  <2> QED BY <2>2
<1>2. Blank \in Manifest /\ Blank.streaming
  BY <1>1 DEF Blank

<1> QED BY <1>2 DEF NoMarks, Marks, Mark, Holes, Bytes, NoHold, Local

LEMMA ManifestKey ==
    ASSUME NEW m \in Manifest
    PROVE  KeyOf(m) \in Key /\ m.sha \in Content \cup {None}
BY DEF Manifest, KeyOf, Key

-----------------------------------------------------------------------------
(* Types *)

LEMMA InitType == Init => TypeOK
<1> SUFFICES ASSUME Init PROVE TypeOK
  OBVIOUS
<1> USE DEF Init, NoMemory
<1>1. PullerTypeOK
  BY DEF PullerTypeOK
<1>2. ObjectTypeOK
  BY BlankValues, SizeAssumption DEF ObjectTypeOK, Status
<1>3. IoTypeOK
  BY BlankValues DEF IoTypeOK, IoPc
<1>4. OpenerTypeOK
  BY BlankValues DEF OpenerTypeOK, OpPc
<1>5. DiskTypeOK
  <2>1. <<>> \in Seq(Bytes \cup {Foreign}) /\ <<Foreign>> \in Seq(Bytes \cup {Foreign})
    BY EmptySeq

  <2> QED BY <2>1, PolicyAssumption DEF DiskTypeOK

<1> QED BY <1>1, <1>2, <1>3, <1>4, <1>5, BlankValues
     DEF TypeOK, LegacyDigestKept, BudgetTypeOK

\* A group of variables that a step leaves alone keeps its types.
LEMMA Frames ==
    /\ PullerTypeOK /\ UNCHANGED puller => PullerTypeOK'
    /\ ObjectTypeOK /\ UNCHANGED object => ObjectTypeOK'
    /\ IoTypeOK /\ UNCHANGED io => IoTypeOK'
    /\ OpenerTypeOK /\ UNCHANGED opener => OpenerTypeOK'
    /\ DiskTypeOK /\ UNCHANGED disk => DiskTypeOK'
    /\ BudgetTypeOK /\ UNCHANGED budget => BudgetTypeOK'
    /\ LegacyDigestKept /\ UNCHANGED object => LegacyDigestKept'
    /\ LegacyDigestKept /\ UNCHANGED <<man, sha>> => LegacyDigestKept'
<1>1. PullerTypeOK /\ UNCHANGED puller => PullerTypeOK'
  BY DEF PullerTypeOK, puller
<1>2. ObjectTypeOK /\ UNCHANGED object => ObjectTypeOK'
  BY DEF ObjectTypeOK, object
<1>3. IoTypeOK /\ UNCHANGED io => IoTypeOK'
  BY DEF IoTypeOK, io
<1>4. OpenerTypeOK /\ UNCHANGED opener => OpenerTypeOK'
  BY DEF OpenerTypeOK, opener
<1>5. DiskTypeOK /\ UNCHANGED disk => DiskTypeOK'
  BY DEF DiskTypeOK, disk
<1>6. BudgetTypeOK /\ UNCHANGED budget => BudgetTypeOK'
  BY DEF BudgetTypeOK, budget
<1>7. LegacyDigestKept /\ UNCHANGED <<man, sha>> => LegacyDigestKept'
  BY DEF LegacyDigestKept
<1>8. UNCHANGED object => UNCHANGED <<man, sha>>
  BY DEF object

<1> QED BY <1>1, <1>2, <1>3, <1>4, <1>5, <1>6, <1>7, <1>8

\* Where a handler goes next, and how it releases ioMu.
LEMMA GotoType ==
    ASSUME IoTypeOK, NEW j \in Jobs, NEW label \in IoPc, Goto(j, label)
    PROVE  IoTypeOK'
BY DEF IoTypeOK, Goto

LEMMA ReleaseType ==
    ASSUME IoTypeOK, NEW j \in Jobs, Release(j)
    PROVE  IoTypeOK'
BY BlankValues DEF IoTypeOK, Release, IoPc

\* How an addRecordsMode begins and ends.
LEMMA EndOpenType ==
    ASSUME OpenerTypeOK, NEW ok, EndOpen(ok), UNCHANGED <<keep, swept>>
    PROVE  OpenerTypeOK'
BY BlankValues DEF OpenerTypeOK, EndOpen, OpPc

LEMMA BeginOpenType ==
    ASSUME OpenerTypeOK, PullerTypeOK, ObjectTypeOK,
           NEW m \in Manifest, BeginOpen(m), UNCHANGED <<keep, swept>>
    PROVE  OpenerTypeOK'
<1>1. CASE cur # None /\ Busy(m) /\ m.streaming
  BY <1>1 DEF OpenerTypeOK, BeginOpen, OpPc
<1>2. CASE cur # None /\ Busy(m) /\ ~ m.streaming
  BY <1>2, EndOpenType DEF BeginOpen
<1>3. CASE ~ (cur # None /\ Busy(m))
  <2> DEFINE g == IF m.streaming /\ cur # None THEN gen[cur] + 1 ELSE 0
  <2>1. g \in Nat
    BY DEF ObjectTypeOK, PullerTypeOK
  <2>2. opGen' = g /\ opMan' = m /\ opPrev' = cur
        /\ UNCHANGED <<opDone, opLoaded, opOk>> /\ op' \in {"load", "cancel"}
    BY <1>3 DEF BeginOpen
  <2> HIDE DEF g
  <2> QED BY <2>1, <2>2 DEF OpenerTypeOK, PullerTypeOK, OpPc

<1> QED BY <1>1, <1>2, <1>3

\* What the code writes to disk.
LEMMA CreatedBytes ==
    ASSUME TypeOK
    PROVE  KeyOf(opMan) \in Key /\ Created(KeyOf(opMan)) \in Bytes
BY ManifestKey, BlankValues DEF TypeOK, OpenerTypeOK, DiskTypeOK, Created

LEMMA PartOfKey ==
    ASSUME ObjectTypeOK, NEW j \in Jobs
    PROVE  PartOf(j) \in Key
BY ManifestKey DEF ObjectTypeOK, PartOf

LEMMA SavedJobsType ==
    ASSUME PullerTypeOK, ObjectTypeOK, LegacyDigestKept
    PROVE  SavedJobs \in Manifest \cup {None}
<1>1. CASE cur = None \/ status[cur] \in Settled
  BY <1>1 DEF SavedJobs
<1>2. CASE ~ (cur = None \/ status[cur] \in Settled)
  <2>1. cur \in Jobs /\ man[cur] \in Manifest /\ sha[cur] \in Content \cup {None}
    BY <1>2 DEF PullerTypeOK, ObjectTypeOK
  <2>2. ~ man[cur].streaming => sha[cur] = man[cur].sha
    BY <2>1 DEF LegacyDigestKept
  <2>3. [man[cur] EXCEPT !.sha = sha[cur]] \in Manifest
    BY <2>1, <2>2 DEF Manifest

  <2> QED BY <1>2, <2>3 DEF SavedJobs

<1> QED BY <1>1, <1>2

LEMMA SaveJobsType ==
    ASSUME TypeOK, SaveJobs \/ UNCHANGED jobsFile, UNCHANGED <<part, meta, files>>
    PROVE  DiskTypeOK'
<1>1. jobsFile' \in Manifest \cup {None}
  BY SavedJobsType DEF TypeOK, DiskTypeOK, SaveJobs

<1> QED BY <1>1 DEF TypeOK, DiskTypeOK

LEMMA MetaType ==
    ASSUME TypeOK, NEW j \in Jobs,
           meta' = [meta EXCEPT ![PartOf(j)] = done[j]] \/ UNCHANGED meta,
           UNCHANGED <<part, jobsFile, files>>
    PROVE  DiskTypeOK'
BY DEF TypeOK, DiskTypeOK, ObjectTypeOK

LEMMA NextType == TypeOK /\ [Next]_vars => TypeOK'
<1> SUFFICES ASSUME TypeOK, [Next]_vars PROVE TypeOK'
  OBVIOUS
<1> USE DEF TypeOK
<1>1. CASE Acquire
  <2>1. PullerTypeOK'
    BY <1>1 DEF Acquire, PullerTypeOK

  <2> QED BY <1>1, <2>1, Frames DEF Acquire
<1>2. CASE Crash
  <2>1. PullerTypeOK'
    BY <1>2 DEF Crash, PullerTypeOK
  <2>2. ObjectTypeOK'
    BY <1>2, BlankValues, SizeAssumption DEF Crash, ObjectTypeOK, Status
  <2>3. IoTypeOK'
    BY <1>2 DEF Crash, IoTypeOK, IoPc, Local, NoHold
  <2>4. OpenerTypeOK'
    BY <1>2, BlankValues DEF Crash, OpenerTypeOK, OpPc
  <2>5. LegacyDigestKept'
    BY <1>2, BlankValues DEF Crash, LegacyDigestKept
  <2>6. BudgetTypeOK'
    BY <1>2 DEF Crash, BudgetTypeOK

  <2> QED BY <1>2, <2>1, <2>2, <2>3, <2>4, <2>5, <2>6, Frames DEF Crash
<1>3. ASSUME NEW m \in Offers, Open(m) PROVE TypeOK'
  <2>1. PullerTypeOK'
    BY <1>3 DEF Open, BeginOpen, PullerTypeOK
  <2>2. OpenerTypeOK'
    BY <1>3, BeginOpenType, OffersAssumption DEF Open

  <2> QED BY <1>3, <2>1, <2>2, Frames DEF Open
<1>4. ASSUME NEW m \in Offers, Start(m) PROVE TypeOK'
  <2>1. PullerTypeOK'
    BY <1>4, OffersAssumption DEF Start, PullerTypeOK

  <2> QED BY <1>4, <2>1, Frames DEF Start
<1>5. ASSUME NEW g \in 0 .. MaxGen, NEW c \in Chunk, NEW b \in Body, AcceptChunk(g, c, b) PROVE TypeOK'
  <2>1. ObjectTypeOK'
    BY <1>5 DEF AcceptChunk, ObjectTypeOK, Status
  <2>2. IoTypeOK'
    BY <1>5 DEF AcceptChunk, IoTypeOK, IoPc, ChunkPc, Local, ObjectTypeOK

  <2> QED BY <1>5, <2>1, <2>2, Frames DEF AcceptChunk
<1>6. ASSUME NEW g \in 0 .. MaxGen, NEW s \in Contents, Finish(g, s) PROVE TypeOK'
  <2>1. ObjectTypeOK'
    BY <1>6, ContentsAssumption DEF Finish, ObjectTypeOK
  <2>2. IoTypeOK'
    BY <1>6 DEF Finish, IoTypeOK, IoPc, FinishPc, Local, NoHold, ObjectTypeOK
  <2>3. LegacyDigestKept'
    <3>1. cur \in Jobs /\ man[cur] \in Manifest /\ sha[cur] \in {None, s}
          /\ UNCHANGED man /\ sha' = [sha EXCEPT ![cur] = s]
      BY <1>6 DEF Finish, PullerTypeOK, ObjectTypeOK
    <3>2. ~ man[cur].streaming => man[cur].sha = s
      BY <3>1 DEF Manifest, LegacyDigestKept

    <3> QED BY <3>1, <3>2 DEF LegacyDigestKept

  <2> QED BY <1>6, <2>1, <2>2, <2>3, Frames DEF Finish
<1>7. ASSUME NEW g \in 0 .. MaxGen, FailReport(g) PROVE TypeOK'
  <2>1. ObjectTypeOK'
    BY <1>7 DEF FailReport, FailStatus, ObjectTypeOK, Status

  <2> QED BY <1>7, <2>1, Frames DEF FailReport
<1>8. CASE ReportStatus
  <2>1. ObjectTypeOK'
    BY <1>8 DEF ReportStatus, ObjectTypeOK, PullerTypeOK

  <2> QED BY <1>8, <2>1, Frames DEF ReportStatus
<1>9. CASE ControlNothing
  <2>1. PullerTypeOK'
    BY <1>9 DEF ControlNothing, PullerTypeOK

  <2> QED BY <1>9, <2>1, Frames DEF ControlNothing
<1>10. CASE Pause
  <2>1. PullerTypeOK'
    BY <1>10 DEF Pause, PullerTypeOK
  <2>2. ObjectTypeOK'
    BY <1>10 DEF Pause, ObjectTypeOK, Status

  <2> QED BY <1>10, <2>1, <2>2, Frames DEF Pause
<1>11. CASE Cancel
  <2>1. PullerTypeOK'
    BY <1>11 DEF Cancel, PullerTypeOK
  <2>2. ObjectTypeOK'
    BY <1>11 DEF Cancel, ObjectTypeOK, Status

  <2> QED BY <1>11, <2>1, <2>2, Frames DEF Cancel
<1>12. CASE Resume
  <2>1. PullerTypeOK'
    BY <1>12 DEF Resume, PullerTypeOK
  <2>2. ObjectTypeOK'
    BY <1>12, BlankValues, SizeAssumption
       DEF Resume, ResetCursor, ObjectTypeOK, Status, PullerTypeOK
  <2>3. DiskTypeOK'
    BY <1>12, BlankValues DEF Resume, DiskTypeOK
  <2>4. OpenerTypeOK'
    BY <1>12 DEF Resume, OpenerTypeOK

  <2> QED BY <1>12, <2>1, <2>2, <2>3, <2>4, Frames DEF Resume
<1>13. CASE CleanSnapshot
  <2>1. OpenerTypeOK'
    BY <1>13, PartOfKey DEF CleanSnapshot, OpenerTypeOK, OpPc, PullerTypeOK

  <2> QED BY <1>13, <2>1, Frames DEF CleanSnapshot
<1>14. CASE StartQueued
  <2>1. PullerTypeOK'
    BY <1>14 DEF StartQueued, BeginOpen, EndOpen, PullerTypeOK
  <2>2. OpenerTypeOK'
    BY <1>14, BeginOpenType DEF StartQueued, PullerTypeOK

  <2> QED BY <1>14, <2>1, <2>2, Frames DEF StartQueued
<1>15. CASE Restore
  <2>1. PullerTypeOK'
    BY <1>15 DEF Restore, PullerTypeOK
  <2>2. OpenerTypeOK'
    BY <1>15 DEF Restore, OpenerTypeOK, OpPc, DiskTypeOK

  <2> QED BY <1>15, <2>1, <2>2, Frames DEF Restore
<1>16. CASE OpenCancel
  <2>1. ObjectTypeOK'
    BY <1>16 DEF OpenCancel, ObjectTypeOK
  <2>2. OpenerTypeOK'
    BY <1>16 DEF OpenCancel, Advance, OpenerTypeOK, OpPc

  <2> QED BY <1>16, <2>1, <2>2, Frames DEF OpenCancel
<1>17. CASE OpenBarrier
  <2>1. OpenerTypeOK'
    BY <1>17 DEF OpenBarrier, Advance, OpenerTypeOK, OpPc

  <2> QED BY <1>17, <2>1, Frames DEF OpenBarrier
<1>18. CASE OpenLoad
  <2>1. OpenerTypeOK'
    <3> DEFINE k == KeyOf(opMan)
    <3>1. k \in Key
      BY ManifestKey DEF OpenerTypeOK
    <3>2. meta[k] # None => meta[k] \in Marks
      BY <3>1 DEF DiskTypeOK
    <3> HIDE DEF k
    <3>3. [c \in Chunk |-> IF meta[k][c] = part[k][c] THEN meta[k][c] ELSE None] \in Marks
          \/ meta[k] = None
      BY <3>2 DEF Marks, Mark
    <3>4. opDone' \in Marks /\ opLoaded' \in BOOLEAN
      BY <1>18, <3>3, BlankValues DEF OpenLoad, k

    <3> QED BY <1>18, <3>4 DEF OpenLoad, OpenerTypeOK, OpPc

  <2> QED BY <1>18, <2>1, Frames DEF OpenLoad
<1>19. CASE OpenCreate
  <2>1. OpenerTypeOK'
    BY <1>19 DEF OpenCreate, Advance, OpenerTypeOK, OpPc
  <2>2. DiskTypeOK'
    BY <1>19, CreatedBytes DEF OpenCreate, DiskTypeOK
  <2>3. BudgetTypeOK'
    BY <1>19 DEF OpenCreate, Works, BudgetTypeOK

  <2> QED BY <1>19, <2>1, <2>2, <2>3, Frames DEF OpenCreate
<1>20. CASE OpenRefused
  <2>1. PullerTypeOK'
    BY <1>20 DEF OpenRefused, EndOpen, PullerTypeOK
  <2>2. OpenerTypeOK'
    <3>1. CASE opMan.streaming
      BY <1>20, <3>1 DEF OpenRefused, OpenerTypeOK, OpPc
    <3>2. CASE ~ opMan.streaming
      BY <1>20, <3>2, EndOpenType DEF OpenRefused

    <3> QED BY <3>1, <3>2
  <2>3. DiskTypeOK'
    BY <1>20, CreatedBytes DEF OpenRefused, DiskTypeOK
  <2>4. BudgetTypeOK'
    BY <1>20 DEF OpenRefused, Fails, BudgetTypeOK

  <2> QED BY <1>20, <2>1, <2>2, <2>3, <2>4, Frames DEF OpenRefused
<1>21. CASE OpenSave
  <2>1. PullerTypeOK'
    BY <1>21 DEF OpenSave, EndOpen, PullerTypeOK
  <2>2. OpenerTypeOK'
    BY <1>21, EndOpenType DEF OpenSave
  <2>3. DiskTypeOK'
    BY <1>21, SaveJobsType DEF OpenSave
  <2>4. BudgetTypeOK'
    BY <1>21 DEF OpenSave, EndOpen, Works, Fails, BudgetTypeOK

  <2> QED BY <1>21, <2>1, <2>2, <2>3, <2>4, Frames DEF OpenSave
<1>22. ASSUME NEW j \in Jobs, OpenSkip(j) PROVE TypeOK'
  <2>1. PullerTypeOK'
    BY <1>22 DEF OpenSkip, Install, EndOpen, PullerTypeOK
  <2>2. ObjectTypeOK'
    <3>1. [c \in Chunk |-> Foreign] \in Marks
      BY DEF Marks, Mark
    <3>2. opMan \in Manifest /\ opMan.sha \in Content \cup {None} /\ 0 \in 0 .. NChunks
      BY ManifestKey, SizeAssumption DEF OpenerTypeOK

    <3> QED BY <1>22, <3>1, <3>2 DEF OpenSkip, Install, ObjectTypeOK, Status
  <2>3. OpenerTypeOK'
    <3>1. CASE opMan.streaming
      BY <1>22, <3>1 DEF OpenSkip, Install, OpenerTypeOK, OpPc
    <3>2. CASE ~ opMan.streaming
      <4>1. swept' = FALSE /\ UNCHANGED keep /\ EndOpen(TRUE)
        BY <1>22, <3>2 DEF OpenSkip, Install
      <4> QED BY <4>1, BlankValues DEF EndOpen, OpenerTypeOK, OpPc

    <3> QED BY <3>1, <3>2
  <2>4. LegacyDigestKept'
    BY <1>22 DEF OpenSkip, Install, LegacyDigestKept, ObjectTypeOK

  <2> QED BY <1>22, <2>1, <2>2, <2>3, <2>4, Frames DEF OpenSkip
<1>23. ASSUME NEW j \in Jobs, OpenInstall(j) PROVE TypeOK'
  <2>1. PullerTypeOK'
    BY <1>23 DEF OpenInstall, Install, PullerTypeOK
  <2>2. ObjectTypeOK'
    BY <1>23, ManifestKey, SizeAssumption
       DEF OpenInstall, Install, ObjectTypeOK, Status, OpenerTypeOK
  <2>3. OpenerTypeOK'
    BY <1>23 DEF OpenInstall, Install, OpenerTypeOK, OpPc
  <2>4. LegacyDigestKept'
    BY <1>23 DEF OpenInstall, Install, LegacyDigestKept, ObjectTypeOK

  <2> QED BY <1>23, <2>1, <2>2, <2>3, <2>4, Frames DEF OpenInstall
<1>24. CASE CleanRemove
  <2>1. PullerTypeOK'
    BY <1>24 DEF CleanRemove, PullerTypeOK
  <2>2. OpenerTypeOK'
    BY <1>24 DEF CleanRemove, OpenerTypeOK, OpPc
  <2>3. DiskTypeOK'
    BY <1>24 DEF CleanRemove, DiskTypeOK

  <2> QED BY <1>24, <2>1, <2>2, <2>3, Frames DEF CleanRemove
<1>25. ASSUME NEW j \in Jobs, ChunkWrite(j) PROVE TypeOK'
  <2>1. IoTypeOK'
    BY <1>25, GotoType DEF ChunkWrite, IoPc, ChunkPc
  <2>2. DiskTypeOK'
    <3> DEFINE k == PartOf(j)
             old == IF part[k] = None THEN Holes ELSE part[k]
             new == [old EXCEPT ![hold[j].idx] = hold[j].body]
    <3>1. old \in Bytes
      BY PartOfKey, BlankValues DEF DiskTypeOK
    <3>2. hold[j].body \in Body \cup {None}
      BY DEF IoTypeOK, Local
    <3>3. new \in Bytes
      <4> HIDE DEF old
      <4> QED BY <3>1, <3>2 DEF Bytes
    <3>4. part' = [part EXCEPT ![k] = new] \/ UNCHANGED part
      BY <1>25 DEF ChunkWrite
    <3>5. UNCHANGED <<meta, jobsFile, files>>
      BY <1>25 DEF ChunkWrite
    <3> HIDE DEF new, k
    <3> QED BY <3>3, <3>4, <3>5 DEF DiskTypeOK
  <2>3. BudgetTypeOK'
    BY <1>25 DEF ChunkWrite, Works, Fails, BudgetTypeOK

  <2> QED BY <1>25, <2>1, <2>2, <2>3, Frames DEF ChunkWrite
<1>26. ASSUME NEW j \in Jobs, ChunkMark(j) PROVE TypeOK'
  <2>1. ObjectTypeOK'
    <3> DEFINE marks == [done[j] EXCEPT ![hold[j].idx] = hold[j].body]
    <3>1. marks \in Marks
      BY DEF ObjectTypeOK, IoTypeOK, Local, Marks, Mark
    <3>2. /\ UNCHANGED done \/ done' = [done EXCEPT ![j] = marks]
          /\ UNCHANGED status \/ status' = [status EXCEPT ![j] = "verifying"]
          /\ UNCHANGED <<man, sha, cursor, gen, live>>
      BY <1>26 DEF ChunkMark
    <3> HIDE DEF marks
    <3> QED BY <3>1, <3>2 DEF ObjectTypeOK, Status
  <2>2. IoTypeOK'
    BY <1>26, GotoType, ReleaseType DEF ChunkMark, Abandon, IoPc, ChunkPc

  <2> QED BY <1>26, <2>1, <2>2, Frames DEF ChunkMark
<1>27. ASSUME NEW j \in Jobs, ChunkBroken(j) PROVE TypeOK'
  <2>1. IoTypeOK'
    BY <1>27, GotoType, ReleaseType DEF ChunkBroken, Abandon, IoPc

  <2> QED BY <1>27, <2>1, Frames DEF ChunkBroken
<1>28. ASSUME NEW j \in Jobs, ChunkMeta(j) PROVE TypeOK'
  <2>1. IoTypeOK'
    BY <1>28, GotoType, ReleaseType DEF ChunkMeta, IoPc
  <2>2. DiskTypeOK'
    BY <1>28, MetaType DEF ChunkMeta
  <2>3. BudgetTypeOK'
    BY <1>28 DEF ChunkMeta, Works, Fails, BudgetTypeOK

  <2> QED BY <1>28, <2>1, <2>2, <2>3, Frames DEF ChunkMeta
<1>29. ASSUME NEW j \in Jobs, IoFail(j) PROVE TypeOK'
  <2>1. ObjectTypeOK'
    BY <1>29 DEF IoFail, FailStatus, ObjectTypeOK, Status
  <2>2. IoTypeOK'
    BY <1>29, ReleaseType DEF IoFail

  <2> QED BY <1>29, <2>1, <2>2, Frames DEF IoFail
<1>30. ASSUME NEW j \in Jobs, FinishMeta(j) PROVE TypeOK'
  <2>1. IoTypeOK'
    BY <1>30, GotoType DEF FinishMeta, IoPc, FinishPc
  <2>2. DiskTypeOK'
    BY <1>30, MetaType DEF FinishMeta
  <2>3. BudgetTypeOK'
    BY <1>30 DEF FinishMeta, Works, Fails, BudgetTypeOK

  <2> QED BY <1>30, <2>1, <2>2, <2>3, Frames DEF FinishMeta
<1>31. ASSUME NEW j \in Jobs, FinishJobs(j) PROVE TypeOK'
  <2>1. IoTypeOK'
    BY <1>31, GotoType DEF FinishJobs, IoPc, FinishPc
  <2>2. DiskTypeOK'
    BY <1>31, SaveJobsType DEF FinishJobs
  <2>3. BudgetTypeOK'
    BY <1>31 DEF FinishJobs, Works, Fails, BudgetTypeOK

  <2> QED BY <1>31, <2>1, <2>2, <2>3, Frames DEF FinishJobs
<1>32. ASSUME NEW j \in Jobs, FinishSeal(j) PROVE TypeOK'
  <2>1. ObjectTypeOK'
    BY <1>32 DEF FinishSeal, ObjectTypeOK, Status
  <2>2. IoTypeOK'
    BY <1>32, ReleaseType DEF FinishSeal

  <2> QED BY <1>32, <2>1, <2>2, Frames DEF FinishSeal
<1>33. ASSUME NEW j \in Jobs, FinDigest(j) PROVE TypeOK'
  <2>1. IoTypeOK'
    BY <1>33, GotoType DEF FinDigest, IoPc, FinPc
  <2>2. BudgetTypeOK'
    BY <1>33 DEF FinDigest, Works, Fails, BudgetTypeOK

  <2> QED BY <1>33, <2>1, <2>2, Frames DEF FinDigest
<1>34. ASSUME NEW j \in Jobs, FinMismatch(j) PROVE TypeOK'
  <2>1. ObjectTypeOK'
    BY <1>34, BlankValues, SizeAssumption
       DEF FinMismatch, FailStatus, ResetCursor, ObjectTypeOK, Status
  <2>2. IoTypeOK'
    BY <1>34, GotoType DEF FinMismatch, IoPc, FinPc
  <2>3. LegacyDigestKept'
    BY <1>34 DEF FinMismatch, LegacyDigestKept, ObjectTypeOK

  <2> QED BY <1>34, <2>1, <2>2, <2>3, Frames DEF FinMismatch
<1>35. ASSUME NEW j \in Jobs, FinMetaFix(j) PROVE TypeOK'
  <2>1. IoTypeOK'
    BY <1>35, GotoType DEF FinMetaFix, IoPc, FinPc
  <2>2. DiskTypeOK'
    BY <1>35, MetaType DEF FinMetaFix
  <2>3. BudgetTypeOK'
    BY <1>35 DEF FinMetaFix, Works, Fails, BudgetTypeOK

  <2> QED BY <1>35, <2>1, <2>2, <2>3, Frames DEF FinMetaFix
<1>36. ASSUME NEW j \in Jobs, FinCommit(j) PROVE TypeOK'
  <2>1. IoTypeOK'
    BY <1>36, GotoType DEF FinCommit, IoPc, FinPc
  <2>2. DiskTypeOK'
    <3> DEFINE k == PartOf(j)
    <3>1. CASE MayCommit(j) /\ (part[k] # None \/ KeepsExisting) /\ Publish(k)
      <4>1. CASE KeepsExisting
        BY <1>36, <3>1, <4>1 DEF FinCommit, Publish, DiskTypeOK
      <4>2. CASE ~ KeepsExisting
        <5>1. k \in Key /\ part[k] \in Bytes \cup {Foreign}
          BY <3>1, <4>2, PartOfKey DEF DiskTypeOK
        <5>2. files' \in Seq(Bytes \cup {Foreign})
          <6>1. CASE Policy = "overwrite" /\ files # <<>>
            <7>1. 1 \in 1 .. Len(files)
              BY <6>1, EmptySeq
            <7>2. [files EXCEPT ![1] = part[k]] \in Seq(Bytes \cup {Foreign})
              BY <5>1, <7>1, ExceptSeq DEF DiskTypeOK

            <7> QED BY <3>1, <4>2, <6>1, <7>2 DEF Publish
          <6>2. CASE ~ (Policy = "overwrite" /\ files # <<>>)
            <7>1. Append(files, part[k]) \in Seq(Bytes \cup {Foreign})
              BY <5>1, AppendProperties DEF DiskTypeOK

            <7> QED BY <3>1, <4>2, <6>2, <7>1 DEF Publish

          <6> QED BY <6>1, <6>2
        <5>3. part' = [part EXCEPT ![k] = None]
          BY <3>1, <4>2 DEF Publish

        <5> QED BY <1>36, <5>1, <5>2, <5>3 DEF FinCommit, DiskTypeOK

      <4> QED BY <4>1, <4>2
    <3>2. CASE UNCHANGED <<files, part>>
      BY <1>36, <3>2 DEF FinCommit, DiskTypeOK

    <3> QED BY <1>36, <3>1, <3>2 DEF FinCommit
  <2>3. BudgetTypeOK'
    BY <1>36 DEF FinCommit, Works, Fails, Publish, BudgetTypeOK

  <2> QED BY <1>36, <2>1, <2>2, <2>3, Frames DEF FinCommit, Publish
<1>37. ASSUME NEW j \in Jobs, FinDone(j) PROVE TypeOK'
  <2>1. ObjectTypeOK'
    BY <1>37 DEF FinDone, ObjectTypeOK, Status
  <2>2. IoTypeOK'
    BY <1>37, GotoType DEF FinDone, IoPc, FinPc

  <2> QED BY <1>37, <2>1, <2>2, Frames DEF FinDone
<1>38. ASSUME NEW j \in Jobs, FinCleanup(j) PROVE TypeOK'
  <2>1. IoTypeOK'
    BY <1>38, GotoType DEF FinCleanup, IoPc, FinPc
  <2>2. DiskTypeOK'
    BY <1>38 DEF FinCleanup, DiskTypeOK

  <2> QED BY <1>38, <2>1, <2>2, Frames DEF FinCleanup
<1>39. ASSUME NEW j \in Jobs, FinFail(j) PROVE TypeOK'
  <2>1. ObjectTypeOK'
    BY <1>39 DEF FinFail, FailStatus, ObjectTypeOK, Status
  <2>2. IoTypeOK'
    BY <1>39, GotoType DEF FinFail, IoPc, FinPc

  <2> QED BY <1>39, <2>1, <2>2, Frames DEF FinFail
<1>40. ASSUME NEW j \in Jobs, FinSave(j) PROVE TypeOK'
  <2>1. IoTypeOK'
    BY <1>40, ReleaseType DEF FinSave
  <2>2. DiskTypeOK'
    BY <1>40, SaveJobsType DEF FinSave
  <2>3. BudgetTypeOK'
    BY <1>40 DEF FinSave, Works, Fails, BudgetTypeOK

  <2> QED BY <1>40, <2>1, <2>2, <2>3, Frames DEF FinSave
<1>41. CASE FinalizeReady
  <2>1. PullerTypeOK'
    <3>1. [job |-> cur, gen |-> gen[cur]] \in Work
      BY <1>41 DEF FinalizeReady, PullerTypeOK, ObjectTypeOK, Work

    <3> QED BY <1>41, <3>1 DEF FinalizeReady, PullerTypeOK
  <2>2. ObjectTypeOK'
    BY <1>41 DEF FinalizeReady, ObjectTypeOK, Status

  <2> QED BY <1>41, <2>1, <2>2, Frames DEF FinalizeReady
<1>42. ASSUME NEW w \in ready, FinalizeLock(w) PROVE TypeOK'
  <2>1. PullerTypeOK'
    BY <1>42 DEF FinalizeLock, PullerTypeOK
  <2>2. IoTypeOK'
    <3>1. w.job \in Jobs /\ w.gen \in Nat
      BY DEF PullerTypeOK, Work
    <3>2. [NoHold EXCEPT !.gen = w.gen] \in Local
      BY <3>1 DEF NoHold, Local

    <3> QED BY <1>42, <3>1, <3>2 DEF FinalizeLock, IoTypeOK, IoPc, FinPc

  <2> QED BY <1>42, <2>1, <2>2, Frames DEF FinalizeLock
<1>43. CASE ControlSave
  <2>1. PullerTypeOK'
    BY <1>43 DEF ControlSave, PullerTypeOK
  <2>2. DiskTypeOK'
    BY <1>43, SaveJobsType DEF ControlSave
  <2>3. BudgetTypeOK'
    BY <1>43 DEF ControlSave, Works, Fails, BudgetTypeOK

  <2> QED BY <1>43, <2>1, <2>2, <2>3, Frames DEF ControlSave
<1>44. CASE UNCHANGED vars
  BY <1>44, Frames DEF vars
<1>45. CASE Request
  <2>1. \A c \in Chunk : {s[c] : s \in Contents} \subseteq Body
    BY ContentsAssumption DEF Content
  <2>2. CASE \E g \in 0 .. MaxGen : \E c \in Chunk : \E b \in {s[c] : s \in Contents} : AcceptChunk(g, c, b)
    BY <2>1, <2>2, <1>5
  <2> QED
    BY <1>45, <2>2, <1>1, <1>2, <1>3, <1>4, <1>6, <1>7, <1>8, <1>9, <1>10, <1>11, <1>12,
       <1>13 DEF Request
<1>46. CASE OpenStep
  BY <1>46, <1>14, <1>15, <1>16, <1>17, <1>18, <1>19, <1>20, <1>21, <1>22, <1>23, <1>24
     DEF OpenStep
<1>47. CASE \E j \in Jobs : IoStep(j)
  BY <1>47, <1>25, <1>26, <1>27, <1>28, <1>29, <1>30, <1>31, <1>32, <1>33, <1>34, <1>35,
     <1>36, <1>37, <1>38, <1>39, <1>40 DEF IoStep
<1>48. CASE Finalize \/ ControlSave
  BY <1>48, <1>41, <1>42, <1>43 DEF Finalize

<1> QED BY <1>44, <1>45, <1>46, <1>47, <1>48 DEF Next, Internal

\* Every variable keeps its type, and a legacy job the digest of its manifest.
THEOREM TypeCorrect == Spec => []TypeOK
<1> QED BY InitType, NextType, PTL DEF Spec
=============================================================================
