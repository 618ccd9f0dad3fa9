-------------------------- MODULE UploadReceiverDisk --------------------------
(***************************************************************************)
(* What UploadReceiver has on disk, for every value of its constants: a     *)
(* chunk that is answered 200 is saved, a sealed job survives a restart,     *)
(* and the saved queue loses nothing.                                        *)
(*                                                                         *)
(* All of it is about file operations that work (MaxFaults = 0): the code    *)
(* marks a chunk before saveMeta, and ignores the errors of some saveJobs.   *)
(***************************************************************************)
EXTENDS UploadReceiverSafety

-----------------------------------------------------------------------------
(* The queue file *)

\* Before restoreOnce is through there is nothing to verify, and before it has
\* begun there is nothing at all.
StartsEmpty ==
    /\ phase \in {"down", "fresh"} =>
          /\ cur = None /\ queued = None /\ op \in {"idle", "clean"}
          /\ \A j \in Jobs : pc[j] = "free"
    /\ phase \in {"down", "fresh", "restoring"} =>
          /\ ~ started /\ ready = {} /\ \A j \in Jobs : pc[j] \notin FinPc

\* While restoreJobs runs, the queue file is what it restores from, and it ends
\* with a job.
RestoresSaved ==
    phase = "restoring" =>
        /\ jobsFile # None
        /\ op \in {"load", "create", "install", "save"}
        /\ op = "save" <=> cur # None
        /\ op # "save" => opMan = jobsFile

Beginning == StartsEmpty /\ RestoresSaved

\* Nobody saves the table before restoreJobs has filled it.
NothingToForget ==
    /\ phase \in {"down", "fresh"} => ~ ctl
    /\ phase \in {"stale", "up"} /\ cur = None => jobsFile = None

\* The job that restoreJobs has added is the one of the file.
RestoresDigest == phase = "restoring" /\ cur # None => sha[cur] = jobsFile.sha

\* The finish request that this generation of the job has still to save.
Finishing(j) == pc[j] \in {"finish_meta", "finish_jobs"} /\ hold[j].gen = gen[j]

\* finish has set the digest that it is about to seal the job with.
SealsDigest == \A j \in Jobs : pc[j] \in FinishPc => sha[j] # None

\* The job is in the queue file with its digest, once the saveJobs that are due
\* have run. The exception is the digest that a failed verification took away.
Recorded ==
    cur # None /\ status[cur] \notin Settled /\ (status[cur] = "error" => sha[cur] # None) =>
        \/ ctl \/ op = "save" \/ Finishing(cur)
        \/ jobsFile # None /\ jobsFile.sha = sha[cur]

Persistence == RestoresDigest /\ SealsDigest /\ Recorded

\* Nothing fails where nothing may.
LEMMA NoFailures ==
    ASSUME MaxFaults = 0, TypeOK
    PROVE  ~ Fails
BY DEF Fails, TypeOK, BudgetTypeOK

\* A digest is a digest.
LEMMA NoneIsNoContent == None \notin Content /\ None \notin Contents
BY BodyAssumption, ContentsAssumption DEF Content

\* What a saveJobs that is not suppressed leaves of the present job.
LEMMA SavesRecord ==
    ASSUME TypeOK, SaveJobs, phase # "restoring", cur # None, status[cur] \notin Settled
    PROVE  jobsFile' # None /\ jobsFile'.sha = sha[cur]
<1> DEFINE m == [man[cur] EXCEPT !.sha = sha[cur]]
<1>1. jobsFile' = m /\ SavedJobs = m
  BY DEF SaveJobs, SavedJobs
<1>2. cur \in Jobs /\ man[cur] \in Manifest
  BY DEF TypeOK, PullerTypeOK, ObjectTypeOK
<1>3. m.sha = sha[cur]
  BY <1>2 DEF Manifest
<1>4. m \in Manifest
  <2>1. sha[cur] \in Content \cup {None} /\ (~ man[cur].streaming => sha[cur] = man[cur].sha)
    BY <1>2 DEF TypeOK, ObjectTypeOK, LegacyDigestKept
  <2> QED BY <1>2, <2>1 DEF Manifest
<1> QED BY <1>1, <1>3, <1>4, OffersAssumption

LEMMA InitBeginning == Init => Beginning
BY DEF Init, NoMemory, Beginning, StartsEmpty, RestoresSaved, FinPc

\* Operations that work bring the queue through a restart.
LEMMA NextBeginning ==
    ASSUME MaxFaults = 0, TypeOK, Beginning, [Next]_vars
    PROVE  Beginning'
<1> USE DEF Beginning, StartsEmpty, RestoresSaved, FinPc
<1> USE DEF TypeOK, PullerTypeOK, ObjectTypeOK, IoTypeOK, OpenerTypeOK
<1>1. CASE Acquire
  BY <1>1 DEF Acquire, object, io, opener, disk
<1>2. CASE Crash
  BY <1>2, JobsAssumption DEF Crash, disk
<1>3. ASSUME NEW m \in Offers, Open(m)
      PROVE  Beginning'
  BY <1>3 DEF Open, BeginOpen, object, io, disk
<1>4. ASSUME NEW m \in Offers, Start(m)
      PROVE  Beginning'
  BY <1>4 DEF Start, object, io, opener, disk
<1>5. ASSUME NEW g \in 0 .. MaxGen, NEW c \in Chunk, NEW b \in Body, AcceptChunk(g, c, b)
      PROVE  Beginning'
  BY <1>5 DEF AcceptChunk, puller, opener, disk
<1>6. ASSUME NEW g \in 0 .. MaxGen, NEW s \in Contents, Finish(g, s)
      PROVE  Beginning'
  BY <1>6 DEF Finish, puller, opener, disk
<1>7. ASSUME NEW g \in 0 .. MaxGen, FailReport(g)
      PROVE  Beginning'
  BY <1>7 DEF FailReport, FailStatus, Failable, puller, io, opener, disk
<1>8. CASE ReportStatus
  BY <1>8 DEF ReportStatus, puller, io, opener, disk
<1>9. CASE ControlNothing
  BY <1>9 DEF ControlNothing, object, io, opener, disk
<1>10. CASE Pause
  BY <1>10 DEF Pause, io, opener, disk
<1>11. CASE Cancel
  BY <1>11 DEF Cancel, io, opener, disk
<1>12. CASE Resume
  BY <1>12 DEF Resume, ResetCursor, io, opener
<1>13. CASE CleanSnapshot
  BY <1>13 DEF CleanSnapshot, puller, object, io, disk
<1>14. CASE StartQueued
  BY <1>14 DEF StartQueued, BeginOpen, EndOpen, object, io, disk
<1>15. CASE Restore
  BY <1>15, JobsAssumption DEF Restore, object, io, disk
<1>16. CASE OpenCancel
  BY <1>16 DEF OpenCancel, Advance, puller, io, disk
<1>17. CASE OpenBarrier
  BY <1>17 DEF OpenBarrier, Advance, BarrierOpen, puller, object, io, disk
<1>18. CASE OpenLoad
  BY <1>18 DEF OpenLoad, puller, object, io, disk
<1>19. CASE OpenCreate
  BY <1>19 DEF OpenCreate, Advance, Created, puller, object, io
<1>20. CASE OpenRefused
  BY <1>20, NoFailures DEF OpenRefused, EndOpen, object, io
<1>21. CASE OpenSave
  BY <1>21, NoFailures DEF OpenSave, EndOpen, object, io, SaveJobs, SavedJobs
<1>22. ASSUME NEW j \in Jobs, OpenSkip(j)
      PROVE  Beginning'
  BY <1>22, JobsAssumption DEF OpenSkip, Install, Spare, EndOpen, io, disk
<1>23. ASSUME NEW j \in Jobs, OpenInstall(j)
      PROVE  Beginning'
  BY <1>23, JobsAssumption DEF OpenInstall, Install, Spare, io, disk
<1>24. CASE CleanRemove
  BY <1>24 DEF CleanRemove, object, io
<1>25. ASSUME NEW j \in Jobs, ChunkWrite(j)
      PROVE  Beginning'
  BY <1>25 DEF ChunkWrite, Goto, puller, object, opener
<1>26. ASSUME NEW j \in Jobs, ChunkMark(j)
      PROVE  Beginning'
  BY <1>26 DEF ChunkMark, Goto, Abandon, Release, Stale, Superseded, puller, opener, disk
<1>27. ASSUME NEW j \in Jobs, ChunkBroken(j)
      PROVE  Beginning'
  BY <1>27 DEF ChunkBroken, Abandon, Release, Goto, puller, object, opener, disk
<1>28. ASSUME NEW j \in Jobs, ChunkMeta(j)
      PROVE  Beginning'
  BY <1>28 DEF ChunkMeta, Release, Goto, puller, object, opener
<1>29. ASSUME NEW j \in Jobs, IoFail(j)
      PROVE  Beginning'
  BY <1>29 DEF IoFail, FailStatus, Failable, Release, puller, opener, disk
<1>30. ASSUME NEW j \in Jobs, FinishMeta(j)
      PROVE  Beginning'
  BY <1>30 DEF FinishMeta, Goto, puller, object, opener
<1>31. ASSUME NEW j \in Jobs, FinishJobs(j)
      PROVE  Beginning'
  BY <1>31, NoFailures DEF FinishJobs, Goto, puller, object, opener, SaveJobs, SavedJobs
<1>32. ASSUME NEW j \in Jobs, FinishSeal(j)
      PROVE  Beginning'
  BY <1>32 DEF FinishSeal, Superseded, Release, puller, opener, disk
<1>33. ASSUME NEW j \in Jobs, FinDigest(j)
      PROVE  Beginning'
  BY <1>33 DEF FinDigest, Goto, Superseded, puller, object, opener, disk
<1>34. ASSUME NEW j \in Jobs, FinMismatch(j)
      PROVE  Beginning'
  BY <1>34 DEF FinMismatch, FailStatus, Failable, Goto, ResetCursor, puller, opener, disk
<1>35. ASSUME NEW j \in Jobs, FinMetaFix(j)
      PROVE  Beginning'
  BY <1>35 DEF FinMetaFix, Goto, puller, object, opener
<1>36. ASSUME NEW j \in Jobs, FinCommit(j)
      PROVE  Beginning'
  BY <1>36 DEF FinCommit, Publish, Goto, puller, object, opener
<1>37. ASSUME NEW j \in Jobs, FinDone(j)
      PROVE  Beginning'
  BY <1>37 DEF FinDone, Goto, puller, opener, disk
<1>38. ASSUME NEW j \in Jobs, FinCleanup(j)
      PROVE  Beginning'
  BY <1>38 DEF FinCleanup, Goto, puller, object, opener
<1>39. ASSUME NEW j \in Jobs, FinFail(j)
      PROVE  Beginning'
  BY <1>39 DEF FinFail, FailStatus, Failable, Goto, puller, opener, disk
<1>40. ASSUME NEW j \in Jobs, FinSave(j)
      PROVE  Beginning'
  BY <1>40, NoFailures DEF FinSave, Release, puller, object, opener, SaveJobs, SavedJobs
<1>41. CASE FinalizeReady
  BY <1>41, JobsAssumption DEF FinalizeReady, io, opener, disk
<1>42. ASSUME NEW w \in ready, FinalizeLock(w)
      PROVE  Beginning'
  BY <1>42, JobsAssumption DEF FinalizeLock, object, opener, disk
<1>43. CASE ControlSave
  BY <1>43, NoFailures DEF ControlSave, object, io, opener, SaveJobs, SavedJobs
<1>44. CASE UNCHANGED vars
  BY <1>44 DEF vars, puller, object, io, opener, disk
<1>45. CASE Request
  BY <1>45, RequestBodies, <1>1, <1>2, <1>3, <1>4, <1>5, <1>6, <1>7, <1>8, <1>9, <1>10,
     <1>11, <1>12, <1>13 DEF JobRequest
<1>46. CASE OpenStep
  BY <1>46, <1>14, <1>15, <1>16, <1>17, <1>18, <1>19, <1>20, <1>21, <1>22, <1>23, <1>24 DEF
     OpenStep
<1>47. CASE \E j \in Jobs : IoStep(j)
  BY <1>47, <1>25, <1>26, <1>27, <1>28, <1>29, <1>30, <1>31, <1>32, <1>33, <1>34, <1>35,
     <1>36, <1>37, <1>38, <1>39, <1>40 DEF IoStep
<1>48. CASE Finalize \/ ControlSave
  BY <1>48, <1>41, <1>42, <1>43 DEF Finalize
<1> QED BY <1>44, <1>45, <1>46, <1>47, <1>48 DEF Next, Internal

LEMMA InitPersistence == Init => Persistence
BY DEF Init, NoMemory, Persistence, RestoresDigest, Recorded, SealsDigest, FinishPc

LEMMA NextPersistence ==
    ASSUME MaxFaults = 0, "finish_in_restore" \notin Races,
           TypeOK, Ownership, Beginning, Persistence, [Next]_vars
    PROVE  Persistence'
<1> USE DEF Persistence, RestoresDigest, SealsDigest, Recorded, Finishing, Settled
<1> USE DEF Beginning, StartsEmpty, RestoresSaved
<1> USE DEF TypeOK, PullerTypeOK, ObjectTypeOK, IoTypeOK, OpenerTypeOK, FinPc, FinishPc
<1>1. CASE Acquire
  BY <1>1 DEF Acquire, object, io, opener, disk
<1>2. CASE Crash
  BY <1>2, JobsAssumption DEF Crash, disk
<1>3. ASSUME NEW m \in Offers, Open(m)
      PROVE  Persistence'
  BY <1>3 DEF Open, BeginOpen, object, io, disk
<1>4. ASSUME NEW m \in Offers, Start(m)
      PROVE  Persistence'
  BY <1>4 DEF Start, object, io, opener, disk
<1>5. ASSUME NEW g \in 0 .. MaxGen, NEW c \in Chunk, NEW b \in Body, AcceptChunk(g, c, b)
      PROVE  Persistence'
  BY <1>5 DEF AcceptChunk, puller, opener, disk, Unsealed
<1>6. ASSUME NEW g \in 0 .. MaxGen, NEW s \in Contents, Finish(g, s)
      PROVE  Persistence'
  BY <1>6, NoneIsNoContent DEF Finish, puller, opener, disk, Unsealed
<1>7. ASSUME NEW g \in 0 .. MaxGen, FailReport(g)
      PROVE  Persistence'
  BY <1>7 DEF FailReport, FailStatus, Failable, puller, io, opener, disk
<1>8. CASE ReportStatus
  BY <1>8 DEF ReportStatus, puller, io, opener, disk
<1>9. CASE ControlNothing
  BY <1>9 DEF ControlNothing, object, io, opener, disk
<1>10. CASE Pause
  BY <1>10 DEF Pause, io, opener, disk
<1>11. CASE Cancel
  BY <1>11 DEF Cancel, io, opener, disk
<1>12. CASE Resume
  BY <1>12 DEF Resume, ResetCursor, io, opener
<1>13. CASE CleanSnapshot
  BY <1>13 DEF CleanSnapshot, puller, object, io, disk
<1>14. CASE StartQueued
  BY <1>14 DEF StartQueued, BeginOpen, EndOpen, object, io, disk
<1>15. CASE Restore
  BY <1>15, JobsAssumption DEF Restore, object, io, disk
<1>16. CASE OpenCancel
  BY <1>16 DEF OpenCancel, Advance, puller, io, disk
<1>17. CASE OpenBarrier
  BY <1>17 DEF OpenBarrier, Advance, BarrierOpen, puller, object, io, disk
<1>18. CASE OpenLoad
  BY <1>18 DEF OpenLoad, puller, object, io, disk
<1>19. CASE OpenCreate
  BY <1>19 DEF OpenCreate, Advance, Created, puller, object, io
<1>20. CASE OpenRefused
  BY <1>20, NoFailures DEF OpenRefused, EndOpen, object, io
<1>21. CASE OpenSave
  BY <1>21, SavesRecord, NoFailures DEF OpenSave, EndOpen, object, io, SaveJobs
<1>22. ASSUME NEW j \in Jobs, OpenSkip(j)
      PROVE  Persistence'
  BY <1>22, JobsAssumption DEF OpenSkip, Install, Spare, EndOpen, io, disk
<1>23. ASSUME NEW j \in Jobs, OpenInstall(j)
      PROVE  Persistence'
  BY <1>23, JobsAssumption DEF OpenInstall, Install, Spare, io, disk
<1>24. CASE CleanRemove
  BY <1>24 DEF CleanRemove, object, io
<1>25. ASSUME NEW j \in Jobs, ChunkWrite(j)
      PROVE  Persistence'
  BY <1>25, NoFailures DEF ChunkWrite, Goto, puller, object, opener
<1>26. ASSUME NEW j \in Jobs, ChunkMark(j)
      PROVE  Persistence'
  BY <1>26 DEF ChunkMark, Goto, Abandon, Release, Stale, Superseded, puller, opener, disk,
     Ownership, StoppedNotLive, ReceivingOwns, Receiving
<1>27. ASSUME NEW j \in Jobs, ChunkBroken(j)
      PROVE  Persistence'
  BY <1>27 DEF ChunkBroken, Abandon, Release, Goto, puller, object, opener, disk
<1>28. ASSUME NEW j \in Jobs, ChunkMeta(j)
      PROVE  Persistence'
  BY <1>28, NoFailures DEF ChunkMeta, Release, Goto, puller, object, opener
<1>29. ASSUME NEW j \in Jobs, IoFail(j)
      PROVE  Persistence'
  BY <1>29 DEF IoFail, FailStatus, Failable, Release, puller, opener, disk
<1>30. ASSUME NEW j \in Jobs, FinishMeta(j)
      PROVE  Persistence'
  BY <1>30, NoFailures DEF FinishMeta, Goto, puller, object, opener
<1>31. ASSUME NEW j \in Jobs, FinishJobs(j)
      PROVE  Persistence'
  BY <1>31, SavesRecord, NoFailures DEF FinishJobs, Goto, puller, object, opener, SaveJobs
<1>32. ASSUME NEW j \in Jobs, FinishSeal(j)
      PROVE  Persistence'
  BY <1>32 DEF FinishSeal, Superseded, Release, puller, opener, disk, Ownership,
     StoppedNotLive, ReceivingOwns, Receiving
<1>33. ASSUME NEW j \in Jobs, FinDigest(j)
      PROVE  Persistence'
  BY <1>33, NoFailures DEF FinDigest, Goto, Superseded, puller, object, opener, disk
<1>34. ASSUME NEW j \in Jobs, FinMismatch(j)
      PROVE  Persistence'
  BY <1>34 DEF FinMismatch, FailStatus, Failable, Goto, ResetCursor, puller, opener, disk
<1>35. ASSUME NEW j \in Jobs, FinMetaFix(j)
      PROVE  Persistence'
  BY <1>35, NoFailures DEF FinMetaFix, Goto, puller, object, opener
<1>36. ASSUME NEW j \in Jobs, FinCommit(j)
      PROVE  Persistence'
  BY <1>36, NoFailures DEF FinCommit, Publish, Goto, puller, object, opener
<1>37. ASSUME NEW j \in Jobs, FinDone(j)
      PROVE  Persistence'
  BY <1>37 DEF FinDone, Goto, puller, opener, disk
<1>38. ASSUME NEW j \in Jobs, FinCleanup(j)
      PROVE  Persistence'
  BY <1>38 DEF FinCleanup, Goto, puller, object, opener
<1>39. ASSUME NEW j \in Jobs, FinFail(j)
      PROVE  Persistence'
  BY <1>39 DEF FinFail, FailStatus, Failable, Goto, puller, opener, disk
<1>40. ASSUME NEW j \in Jobs, FinSave(j)
      PROVE  Persistence'
  BY <1>40, SavesRecord, NoFailures DEF FinSave, Release, puller, object, opener, SaveJobs
<1>41. CASE FinalizeReady
  BY <1>41, JobsAssumption DEF FinalizeReady, io, opener, disk
<1>42. ASSUME NEW w \in ready, FinalizeLock(w)
      PROVE  Persistence'
  BY <1>42, JobsAssumption DEF FinalizeLock, object, opener, disk
<1>43. CASE ControlSave
  BY <1>43, SavesRecord, NoFailures DEF ControlSave, object, io, opener, SaveJobs
<1>44. CASE UNCHANGED vars
  BY <1>44 DEF vars, puller, object, io, opener, disk
<1>45. CASE Request
  BY <1>45, RequestBodies, <1>1, <1>2, <1>3, <1>4, <1>5, <1>6, <1>7, <1>8, <1>9, <1>10,
     <1>11, <1>12, <1>13 DEF JobRequest
<1>46. CASE OpenStep
  BY <1>46, <1>14, <1>15, <1>16, <1>17, <1>18, <1>19, <1>20, <1>21, <1>22, <1>23, <1>24 DEF
     OpenStep
<1>47. CASE \E j \in Jobs : IoStep(j)
  BY <1>47, <1>25, <1>26, <1>27, <1>28, <1>29, <1>30, <1>31, <1>32, <1>33, <1>34, <1>35,
     <1>36, <1>37, <1>38, <1>39, <1>40 DEF IoStep
<1>48. CASE Finalize \/ ControlSave
  BY <1>48, <1>41, <1>42, <1>43 DEF Finalize
<1> QED BY <1>44, <1>45, <1>46, <1>47, <1>48 DEF Next, Internal

-----------------------------------------------------------------------------
(* The part file and its metadata *)

\* A job that was replaced, or is about to be, writes no file any more.
RetiredPc == {"free", "fin_digest", "fin_fail", "fin_save"}
Replacing == {"load", "create", "install"}
Retired == \A j \in Jobs : j # cur \/ op \in Replacing => pc[j] \in RetiredPc
\* finalize removes the files of a job that is done.
CleansDone == \A j \in Jobs : pc[j] = "fin_cleanup" => status[j] = "done"
Writers == Retired /\ CleansDone

\* What the opener loaded is what the disk holds, until it installs the job.
LoadedMatches ==
    LET k == KeyOf(opMan)
    IN op \in {"create", "install"} =>
          /\ op = "install" => part[k] # None
          /\ \A c \in Chunk : opDone[c] # None =>
                /\ opLoaded
                /\ part[k] # None /\ part[k][c] = opDone[c]
                /\ meta[k] # None /\ meta[k][c] = opDone[c]

\* A clean keeps the files of a job that may still go on, unless the job was
\* resumed after the clean had looked.
CleanKeeps ==
    op = "clean" /\ ~ swept /\ cur # None /\ (status[cur] \notin Settled \/ pc[cur] = "chunk_write") =>
        PartOf(cur) \in keep

\* There is a part file where chunks are taken; a chunk in flight is not marked
\* yet, and what was written for it is there when it is going to be marked.
PartPresent ==
    \A j \in Jobs : j = cur =>
        /\ ~ swept /\ (status[j] \in Unsealed \/ pc[j] = "chunk_write") =>
              part[PartOf(j)] # None
        /\ pc[j] \in {"chunk_write", "chunk_mark"} => hold[j].idx \in Chunk
        /\ pc[j] = "chunk_write" => done[j][hold[j].idx] = None
        /\ ~ swept /\ pc[j] = "chunk_mark" /\ ~ Superseded(j) =>
              part[PartOf(j)] # None /\ part[PartOf(j)][hold[j].idx] = hold[j].body

\* A marked chunk is in the part file and in the metadata, but for the one whose
\* saveMeta is due: so it is as long as there is a part file, which is what
\* resume looks at.
MarkedSaved ==
    \A j \in Jobs :
      j = cur /\ ~ swept /\ op # "install" /\ status[j] # "done" /\ part[PartOf(j)] # None =>
        \A c \in Chunk : done[j][c] # None =>
            /\ part[PartOf(j)][c] = done[j][c]
            /\ \/ meta[PartOf(j)] # None /\ meta[PartOf(j)][c] = done[j][c]
               \/ pc[j] = "chunk_meta" /\ c = hold[j].idx

Saving == Writers /\ LoadedMatches /\ CleanKeeps /\ PartPresent /\ MarkedSaved

-----------------------------------------------------------------------------
(* What the queue may forget *)

LEMMA InitForgets == Init => NothingToForget
BY DEF Init, NoMemory, NothingToForget

LEMMA NextForgets ==
    ASSUME MaxFaults = 0, "control_before_restore" \notin Races,
           TypeOK, Beginning, NothingToForget, [Next]_vars
    PROVE  NothingToForget'
<1> USE DEF NothingToForget, Beginning, StartsEmpty, RestoresSaved
<1> USE DEF TypeOK, PullerTypeOK, OpenerTypeOK
<1>1. CASE Acquire
  BY <1>1 DEF Acquire, object, io, opener, disk
<1>2. CASE Crash
  BY <1>2, JobsAssumption DEF Crash, disk
<1>3. ASSUME NEW m \in Offers, Open(m)
      PROVE  NothingToForget'
  BY <1>3 DEF Open, BeginOpen, object, io, disk
<1>4. ASSUME NEW m \in Offers, Start(m)
      PROVE  NothingToForget'
  BY <1>4 DEF Start, object, io, opener, disk
<1>5. ASSUME NEW g \in 0 .. MaxGen, NEW c \in Chunk, NEW b \in Body, AcceptChunk(g, c, b)
      PROVE  NothingToForget'
  BY <1>5 DEF AcceptChunk, puller, opener, disk
<1>6. ASSUME NEW g \in 0 .. MaxGen, NEW s \in Contents, Finish(g, s)
      PROVE  NothingToForget'
  BY <1>6 DEF Finish, puller, opener, disk
<1>7. ASSUME NEW g \in 0 .. MaxGen, FailReport(g)
      PROVE  NothingToForget'
  BY <1>7 DEF FailReport, FailStatus, Failable, puller, io, opener, disk
<1>8. CASE ReportStatus
  BY <1>8 DEF ReportStatus, puller, io, opener, disk
<1>9. CASE ControlNothing
  BY <1>9 DEF ControlNothing, object, io, opener, disk
<1>10. CASE Pause
  BY <1>10 DEF Pause, io, opener, disk
<1>11. CASE Cancel
  BY <1>11 DEF Cancel, io, opener, disk
<1>12. CASE Resume
  BY <1>12 DEF Resume, ResetCursor, io, opener
<1>13. CASE CleanSnapshot
  BY <1>13 DEF CleanSnapshot, puller, object, io, disk
<1>14. CASE StartQueued
  BY <1>14 DEF StartQueued, BeginOpen, EndOpen, object, io, disk
<1>15. CASE Restore
  BY <1>15 DEF Restore, object, io, disk
<1>16. CASE OpenCancel
  BY <1>16 DEF OpenCancel, Advance, puller, io, disk
<1>17. CASE OpenBarrier
  BY <1>17 DEF OpenBarrier, Advance, BarrierOpen, puller, object, io, disk
<1>18. CASE OpenLoad
  BY <1>18 DEF OpenLoad, puller, object, io, disk
<1>19. CASE OpenCreate
  BY <1>19 DEF OpenCreate, Advance, Created, puller, object, io
<1>20. CASE OpenRefused
  BY <1>20, NoFailures DEF OpenRefused, EndOpen, object, io
<1>21. CASE OpenSave
  BY <1>21, NoFailures DEF OpenSave, EndOpen, object, io, SaveJobs, SavedJobs
<1>22. ASSUME NEW j \in Jobs, OpenSkip(j)
      PROVE  NothingToForget'
  BY <1>22, JobsAssumption DEF OpenSkip, Install, Spare, EndOpen, io, disk
<1>23. ASSUME NEW j \in Jobs, OpenInstall(j)
      PROVE  NothingToForget'
  BY <1>23, JobsAssumption DEF OpenInstall, Install, Spare, io, disk
<1>24. CASE CleanRemove
  BY <1>24 DEF CleanRemove, object, io
<1>25. ASSUME NEW j \in Jobs, ChunkWrite(j)
      PROVE  NothingToForget'
  BY <1>25 DEF ChunkWrite, Goto, puller, object, opener
<1>26. ASSUME NEW j \in Jobs, ChunkMark(j)
      PROVE  NothingToForget'
  BY <1>26 DEF ChunkMark, Goto, Abandon, Release, Stale, Superseded, puller, opener, disk
<1>27. ASSUME NEW j \in Jobs, ChunkBroken(j)
      PROVE  NothingToForget'
  BY <1>27 DEF ChunkBroken, Abandon, Release, Goto, puller, object, opener, disk
<1>28. ASSUME NEW j \in Jobs, ChunkMeta(j)
      PROVE  NothingToForget'
  BY <1>28 DEF ChunkMeta, Release, Goto, puller, object, opener
<1>29. ASSUME NEW j \in Jobs, IoFail(j)
      PROVE  NothingToForget'
  BY <1>29 DEF IoFail, FailStatus, Failable, Release, puller, opener, disk
<1>30. ASSUME NEW j \in Jobs, FinishMeta(j)
      PROVE  NothingToForget'
  BY <1>30 DEF FinishMeta, Goto, puller, object, opener
<1>31. ASSUME NEW j \in Jobs, FinishJobs(j)
      PROVE  NothingToForget'
  BY <1>31, NoFailures DEF FinishJobs, Goto, puller, object, opener, SaveJobs, SavedJobs
<1>32. ASSUME NEW j \in Jobs, FinishSeal(j)
      PROVE  NothingToForget'
  BY <1>32 DEF FinishSeal, Superseded, Release, puller, opener, disk
<1>33. ASSUME NEW j \in Jobs, FinDigest(j)
      PROVE  NothingToForget'
  BY <1>33 DEF FinDigest, Goto, Superseded, puller, object, opener, disk
<1>34. ASSUME NEW j \in Jobs, FinMismatch(j)
      PROVE  NothingToForget'
  BY <1>34 DEF FinMismatch, FailStatus, Failable, Goto, ResetCursor, puller, opener, disk
<1>35. ASSUME NEW j \in Jobs, FinMetaFix(j)
      PROVE  NothingToForget'
  BY <1>35 DEF FinMetaFix, Goto, puller, object, opener
<1>36. ASSUME NEW j \in Jobs, FinCommit(j)
      PROVE  NothingToForget'
  BY <1>36 DEF FinCommit, Publish, Goto, puller, object, opener
<1>37. ASSUME NEW j \in Jobs, FinDone(j)
      PROVE  NothingToForget'
  BY <1>37 DEF FinDone, Goto, puller, opener, disk
<1>38. ASSUME NEW j \in Jobs, FinCleanup(j)
      PROVE  NothingToForget'
  BY <1>38 DEF FinCleanup, Goto, puller, object, opener
<1>39. ASSUME NEW j \in Jobs, FinFail(j)
      PROVE  NothingToForget'
  BY <1>39 DEF FinFail, FailStatus, Failable, Goto, puller, opener, disk
<1>40. ASSUME NEW j \in Jobs, FinSave(j)
      PROVE  NothingToForget'
  BY <1>40, NoFailures DEF FinSave, Release, puller, object, opener, SaveJobs, SavedJobs
<1>41. CASE FinalizeReady
  BY <1>41 DEF FinalizeReady, io, opener, disk
<1>42. ASSUME NEW w \in ready, FinalizeLock(w)
      PROVE  NothingToForget'
  BY <1>42 DEF FinalizeLock, object, opener, disk
<1>43. CASE ControlSave
  BY <1>43, NoFailures DEF ControlSave, object, io, opener, SaveJobs, SavedJobs
<1>44. CASE UNCHANGED vars
  BY <1>44 DEF vars, puller, object, io, opener, disk
<1>45. CASE Request
  BY <1>45, RequestBodies, <1>1, <1>2, <1>3, <1>4, <1>5, <1>6, <1>7, <1>8, <1>9, <1>10,
     <1>11, <1>12, <1>13 DEF JobRequest
<1>46. CASE OpenStep
  BY <1>46, <1>14, <1>15, <1>16, <1>17, <1>18, <1>19, <1>20, <1>21, <1>22, <1>23, <1>24 DEF
     OpenStep
<1>47. CASE \E j \in Jobs : IoStep(j)
  BY <1>47, <1>25, <1>26, <1>27, <1>28, <1>29, <1>30, <1>31, <1>32, <1>33, <1>34, <1>35,
     <1>36, <1>37, <1>38, <1>39, <1>40 DEF IoStep
<1>48. CASE Finalize \/ ControlSave
  BY <1>48, <1>41, <1>42, <1>43 DEF Finalize
<1> QED BY <1>44, <1>45, <1>46, <1>47, <1>48 DEF Next, Internal

\* Only a saveJobs writes the queue file.
LEMMA SaveSteps ==
    ASSUME [Next]_vars
    PROVE  \/ UNCHANGED jobsFile
           \/ /\ SaveJobs
              /\ op = "save" \/ ctl \/ \E j \in Jobs : pc[j] \in {"finish_jobs", "fin_save"}
<1>1. CASE Request
  BY <1>1
     DEF Request, Acquire, Crash, Open, Start, AcceptChunk, Finish, FailReport,
         ReportStatus, ControlNothing, Pause, Cancel, Resume, CleanSnapshot, disk
<1>2. CASE OpenStep
  BY <1>2
     DEF OpenStep, StartQueued, Restore, OpenCancel, OpenBarrier, OpenLoad, OpenCreate,
         OpenRefused, OpenSave, OpenSkip, OpenInstall, CleanRemove, disk
<1>3. ASSUME NEW j \in Jobs, IoStep(j)
      PROVE  \/ UNCHANGED jobsFile
             \/ SaveJobs /\ pc[j] \in {"finish_jobs", "fin_save"}
  BY <1>3
     DEF IoStep, ChunkWrite, ChunkMark, ChunkBroken, ChunkMeta, IoFail, FinishMeta,
         FinishJobs, FinishSeal, FinDigest, FinMismatch, FinMetaFix, FinCommit, FinDone,
         FinCleanup, FinFail, FinSave, disk
<1>4. CASE Finalize \/ ControlSave
  BY <1>4 DEF Finalize, FinalizeReady, FinalizeLock, ControlSave, disk
<1>5. CASE UNCHANGED vars
  BY <1>5 DEF vars, disk
<1> QED BY <1>1, <1>2, <1>3, <1>4, <1>5 DEF Next, Internal

LEMMA ForgetsSettled ==
    ASSUME TypeOK, Beginning, NothingToForget, [Next]_vars,
           jobsFile # None, jobsFile' = None
    PROVE  cur # None /\ status[cur] \in Settled
<1>1. SaveJobs /\ phase # "restoring"
  BY SaveSteps DEF SaveJobs
<1>2. phase \notin {"down", "fresh"}
  BY SaveSteps DEF Beginning, StartsEmpty, NothingToForget
<1>3. cur # None
  BY <1>1, <1>2 DEF NothingToForget, TypeOK, PullerTypeOK
<1> QED BY <1>1, <1>3, SavesRecord

-----------------------------------------------------------------------------
(* The theorems about the queue file *)

\* QueueNeverForgets: as long as no control request comes before restoreOnce,
\* and file operations work, a job leaves the saved queue only when it is done
\* or canceled, through any number of process deaths.
THEOREM QueueIsKept ==
    ASSUME MaxFaults = 0, "control_before_restore" \notin Races
    PROVE  Spec => QueueNeverForgets
<1>1. Init => TypeOK /\ Beginning /\ NothingToForget
  BY InitType, InitBeginning, InitForgets
<1>2. TypeOK /\ Beginning /\ NothingToForget /\ [Next]_vars
         => (TypeOK /\ Beginning /\ NothingToForget)'
  BY NextType, NextBeginning, NextForgets
<1>3. TypeOK /\ Beginning /\ NothingToForget /\ [Next]_vars
         => [jobsFile # None /\ jobsFile' = None =>
                cur # None /\ status[cur] \in Settled]_jobsFile
  BY ForgetsSettled
<1> QED BY <1>1, <1>2, <1>3, PTL DEF Spec, QueueNeverForgets

\* SealedIsPersisted: as long as no finish comes while restoreJobs runs, and file
\* operations work, a restart finds a job in verification with the digest that
\* it is verified against.
THEOREM SealedIsSaved ==
    ASSUME MaxFaults = 0, "finish_in_restore" \notin Races
    PROVE  Spec => []SealedIsPersisted
<1> DEFINE Inv == TypeOK /\ Ownership /\ Beginning /\ Persistence
<1>1. Init => Inv
  BY InitType, InitOwnership, InitBeginning, InitPersistence
<1>2. Inv /\ [Next]_vars => Inv'
  BY NextType, NextOwnership, NextBeginning, NextPersistence
<1>3. Inv => SealedIsPersisted
  BY DEF Ownership, ReceivingOwns, Receiving, Persistence, Recorded, Finishing, Settled,
         SealedIsPersisted, TypeOK, PullerTypeOK
<1> HIDE DEF Inv
<1> QED BY <1>1, <1>2, <1>3, PTL DEF Spec

LEMMA InitSaving == Init => Saving
BY DEF Init, NoMemory, Saving, Writers, CleansDone, Retired, RetiredPc,
       LoadedMatches, CleanKeeps, PartPresent, MarkedSaved, Unsealed, NoMarks

LEMMA NextWriters ==
    ASSUME TypeOK, Publication, Writers, [Next]_vars
    PROVE  Writers'
<1> USE DEF Writers, CleansDone, Retired, RetiredPc, Replacing
<1> USE DEF Publication, NothingYet, OpenerHolds, CurrentOnly
<1> USE DEF TypeOK, PullerTypeOK, ObjectTypeOK, IoTypeOK, OpenerTypeOK
<1>1. CASE Acquire
  BY <1>1 DEF Acquire, object, io, opener, disk
<1>2. CASE Crash
  BY <1>2, JobsAssumption DEF Crash, disk
<1>3. ASSUME NEW m \in Offers, Open(m)
      PROVE  Writers'
  BY <1>3, JobsAssumption DEF Open, BeginOpen, object, io, disk, Busy
<1>4. ASSUME NEW m \in Offers, Start(m)
      PROVE  Writers'
  BY <1>4 DEF Start, object, io, opener, disk
<1>5. ASSUME NEW g \in 0 .. MaxGen, NEW c \in Chunk, NEW b \in Body, AcceptChunk(g, c, b)
      PROVE  Writers'
  BY <1>5 DEF AcceptChunk, puller, opener, disk, Unsealed, Settled
<1>6. ASSUME NEW g \in 0 .. MaxGen, NEW s \in Contents, Finish(g, s)
      PROVE  Writers'
  BY <1>6 DEF Finish, puller, opener, disk, Unsealed, Settled
<1>7. ASSUME NEW g \in 0 .. MaxGen, FailReport(g)
      PROVE  Writers'
  BY <1>7 DEF FailReport, FailStatus, Failable, puller, io, opener, disk
<1>8. CASE ReportStatus
  BY <1>8 DEF ReportStatus, puller, io, opener, disk
<1>9. CASE ControlNothing
  BY <1>9 DEF ControlNothing, object, io, opener, disk
<1>10. CASE Pause
  BY <1>10 DEF Pause, io, opener, disk
<1>11. CASE Cancel
  BY <1>11 DEF Cancel, io, opener, disk
<1>12. CASE Resume
  BY <1>12 DEF Resume, ResetCursor, io, opener
<1>13. CASE CleanSnapshot
  BY <1>13 DEF CleanSnapshot, puller, object, io, disk
<1>14. CASE StartQueued
  BY <1>14, JobsAssumption DEF StartQueued, BeginOpen, EndOpen, object, io, disk, Busy
<1>15. CASE Restore
  BY <1>15, JobsAssumption DEF Restore, object, io, disk
<1>16. CASE OpenCancel
  BY <1>16 DEF OpenCancel, Advance, puller, io, disk
<1>17. CASE OpenBarrier
  BY <1>17 DEF OpenBarrier, Advance, BarrierOpen, puller, object, io, disk
<1>18. CASE OpenLoad
  BY <1>18 DEF OpenLoad, puller, object, io, disk
<1>19. CASE OpenCreate
  BY <1>19 DEF OpenCreate, Advance, Created, puller, object, io
<1>20. CASE OpenRefused
  BY <1>20 DEF OpenRefused, EndOpen, object, io
<1>21. CASE OpenSave
  BY <1>21 DEF OpenSave, EndOpen, object, io
<1>22. ASSUME NEW j \in Jobs, OpenSkip(j)
      PROVE  Writers'
  BY <1>22, JobsAssumption DEF OpenSkip, Install, Spare, EndOpen, io, disk
<1>23. ASSUME NEW j \in Jobs, OpenInstall(j)
      PROVE  Writers'
  BY <1>23, JobsAssumption DEF OpenInstall, Install, Spare, io, disk
<1>24. CASE CleanRemove
  BY <1>24 DEF CleanRemove, object, io
<1>25. ASSUME NEW j \in Jobs, ChunkWrite(j)
      PROVE  Writers'
  BY <1>25 DEF ChunkWrite, Goto, puller, object, opener
<1>26. ASSUME NEW j \in Jobs, ChunkMark(j)
      PROVE  Writers'
  BY <1>26 DEF ChunkMark, Goto, Abandon, Release, Stale, Superseded, puller, opener, disk
<1>27. ASSUME NEW j \in Jobs, ChunkBroken(j)
      PROVE  Writers'
  BY <1>27 DEF ChunkBroken, Abandon, Release, Goto, puller, object, opener, disk
<1>28. ASSUME NEW j \in Jobs, ChunkMeta(j)
      PROVE  Writers'
  BY <1>28 DEF ChunkMeta, Release, Goto, puller, object, opener
<1>29. ASSUME NEW j \in Jobs, IoFail(j)
      PROVE  Writers'
  BY <1>29 DEF IoFail, FailStatus, Failable, Release, puller, opener, disk
<1>30. ASSUME NEW j \in Jobs, FinishMeta(j)
      PROVE  Writers'
  BY <1>30 DEF FinishMeta, Goto, puller, object, opener
<1>31. ASSUME NEW j \in Jobs, FinishJobs(j)
      PROVE  Writers'
  BY <1>31 DEF FinishJobs, Goto, puller, object, opener
<1>32. ASSUME NEW j \in Jobs, FinishSeal(j)
      PROVE  Writers'
  BY <1>32 DEF FinishSeal, Superseded, Release, puller, opener, disk
<1>33. ASSUME NEW j \in Jobs, FinDigest(j)
      PROVE  Writers'
  <2>1. j # cur \/ op \in Replacing => ~ live[j]
    BY <1>33, JobsAssumption
  <2>2. /\ UNCHANGED <<cur, op, status>>
        /\ \E l \in {"fin_fail", "fin_commit", "fin_mismatch"} : pc' = [pc EXCEPT ![j] = l]
    BY <1>33 DEF FinDigest, Goto, puller, opener, object
  <2>3. ~ live[j] => pc' = [pc EXCEPT ![j] = "fin_fail"]
    BY <1>33 DEF FinDigest, Goto, Superseded
  <2> QED BY <2>1, <2>2, <2>3
<1>34. ASSUME NEW j \in Jobs, FinMismatch(j)
      PROVE  Writers'
  BY <1>34 DEF FinMismatch, FailStatus, Failable, Goto, ResetCursor, puller, opener, disk
<1>35. ASSUME NEW j \in Jobs, FinMetaFix(j)
      PROVE  Writers'
  BY <1>35 DEF FinMetaFix, Goto, puller, object, opener
<1>36. ASSUME NEW j \in Jobs, FinCommit(j)
      PROVE  Writers'
  BY <1>36 DEF FinCommit, Publish, Goto, puller, object, opener
<1>37. ASSUME NEW j \in Jobs, FinDone(j)
      PROVE  Writers'
  BY <1>37 DEF FinDone, Goto, puller, opener, disk
<1>38. ASSUME NEW j \in Jobs, FinCleanup(j)
      PROVE  Writers'
  BY <1>38 DEF FinCleanup, Goto, puller, object, opener
<1>39. ASSUME NEW j \in Jobs, FinFail(j)
      PROVE  Writers'
  BY <1>39 DEF FinFail, FailStatus, Failable, Goto, puller, opener, disk
<1>40. ASSUME NEW j \in Jobs, FinSave(j)
      PROVE  Writers'
  BY <1>40 DEF FinSave, Release, puller, object, opener
<1>41. CASE FinalizeReady
  BY <1>41 DEF FinalizeReady, io, opener, disk
<1>42. ASSUME NEW w \in ready, FinalizeLock(w)
      PROVE  Writers'
  BY <1>42 DEF FinalizeLock, object, opener, disk
<1>43. CASE ControlSave
  BY <1>43 DEF ControlSave, object, io, opener
<1>44. CASE UNCHANGED vars
  BY <1>44 DEF vars, puller, object, io, opener, disk
<1>45. CASE Request
  BY <1>45, RequestBodies, <1>1, <1>2, <1>3, <1>4, <1>5, <1>6, <1>7, <1>8, <1>9, <1>10,
     <1>11, <1>12, <1>13 DEF JobRequest
<1>46. CASE OpenStep
  BY <1>46, <1>14, <1>15, <1>16, <1>17, <1>18, <1>19, <1>20, <1>21, <1>22, <1>23, <1>24 DEF
     OpenStep
<1>47. CASE \E j \in Jobs : IoStep(j)
  BY <1>47, <1>25, <1>26, <1>27, <1>28, <1>29, <1>30, <1>31, <1>32, <1>33, <1>34, <1>35,
     <1>36, <1>37, <1>38, <1>39, <1>40 DEF IoStep
<1>48. CASE Finalize \/ ControlSave
  BY <1>48, <1>41, <1>42, <1>43 DEF Finalize
<1> QED BY <1>44, <1>45, <1>46, <1>47, <1>48 DEF Next, Internal

LEMMA NoneIsNoBytes == None \notin Bytes /\ Holes \in Bytes
BY BodyAssumption DEF Bytes, Holes

LEMMA NextLoaded ==
    ASSUME MaxFaults = 0, "resume_in_queue" \notin Races,
           TypeOK, Writers, LoadedMatches, [Next]_vars
    PROVE  LoadedMatches'
<1> USE DEF Writers, Retired, RetiredPc, Replacing, LoadedMatches
<1> USE DEF TypeOK, PullerTypeOK, ObjectTypeOK, IoTypeOK, OpenerTypeOK, DiskTypeOK
<1>1. CASE Acquire
  BY <1>1 DEF Acquire, object, io, opener, disk
<1>2. CASE Crash
  BY <1>2 DEF Crash, disk
<1>3. ASSUME NEW m \in Offers, Open(m)
      PROVE  LoadedMatches'
  BY <1>3 DEF Open, BeginOpen, object, io, disk
<1>4. ASSUME NEW m \in Offers, Start(m)
      PROVE  LoadedMatches'
  BY <1>4 DEF Start, object, io, opener, disk
<1>5. ASSUME NEW g \in 0 .. MaxGen, NEW c \in Chunk, NEW b \in Body, AcceptChunk(g, c, b)
      PROVE  LoadedMatches'
  BY <1>5 DEF AcceptChunk, puller, opener, disk
<1>6. ASSUME NEW g \in 0 .. MaxGen, NEW s \in Contents, Finish(g, s)
      PROVE  LoadedMatches'
  BY <1>6 DEF Finish, puller, opener, disk
<1>7. ASSUME NEW g \in 0 .. MaxGen, FailReport(g)
      PROVE  LoadedMatches'
  BY <1>7 DEF FailReport, FailStatus, Failable, puller, io, opener, disk
<1>8. CASE ReportStatus
  BY <1>8 DEF ReportStatus, puller, io, opener, disk
<1>9. CASE ControlNothing
  BY <1>9 DEF ControlNothing, object, io, opener, disk
<1>10. CASE Pause
  BY <1>10 DEF Pause, io, opener, disk
<1>11. CASE Cancel
  BY <1>11 DEF Cancel, io, opener, disk
<1>12. CASE Resume
  BY <1>12 DEF Resume, ResetCursor, io, opener
<1>13. CASE CleanSnapshot
  BY <1>13 DEF CleanSnapshot, puller, object, io, disk
<1>14. CASE StartQueued
  BY <1>14 DEF StartQueued, BeginOpen, EndOpen, object, io, disk
<1>15. CASE Restore
  BY <1>15 DEF Restore, object, io, disk
<1>16. CASE OpenCancel
  BY <1>16 DEF OpenCancel, Advance, puller, io, disk
<1>17. CASE OpenBarrier
  BY <1>17 DEF OpenBarrier, Advance, BarrierOpen, puller, object, io, disk
<1>18. CASE OpenLoad
  <2> DEFINE k == KeyOf(opMan)
  <2>1. op' = "create" /\ UNCHANGED <<opMan, part, meta>>
    BY <1>18 DEF OpenLoad, disk
  <2>2. CASE part[k] # None /\ meta[k] # None
    <3>1. /\ opLoaded'
          /\ opDone' = [c \in Chunk |-> IF meta[k][c] = part[k][c] THEN meta[k][c] ELSE None]
      BY <1>18, <2>2 DEF OpenLoad
    <3>2. \A c \in Chunk : opDone'[c] # None => opDone'[c] = meta[k][c] /\ opDone'[c] = part[k][c]
      BY <3>1
    <3> HIDE DEF k
    <3> QED BY <2>1, <2>2, <3>1, <3>2 DEF k
  <2>3. CASE ~ (part[k] # None /\ meta[k] # None)
    <3>1. opDone' = NoMarks
      BY <1>18, <2>3 DEF OpenLoad
    <3> QED BY <2>1, <3>1 DEF NoMarks
  <2> QED BY <2>2, <2>3
<1>19. CASE OpenCreate
  BY <1>19, CreatedBytes, NoneIsNoBytes DEF OpenCreate, Advance, Created, puller, object, io
<1>20. CASE OpenRefused
  BY <1>20, NoFailures DEF OpenRefused, EndOpen, object, io
<1>21. CASE OpenSave
  BY <1>21 DEF OpenSave, EndOpen, object, io
<1>22. ASSUME NEW j \in Jobs, OpenSkip(j)
      PROVE  LoadedMatches'
  BY <1>22 DEF OpenSkip, Install, Spare, EndOpen, io, disk
<1>23. ASSUME NEW j \in Jobs, OpenInstall(j)
      PROVE  LoadedMatches'
  BY <1>23 DEF OpenInstall, Install, Spare, io, disk
<1>24. CASE CleanRemove
  BY <1>24 DEF CleanRemove, object, io
<1>25. ASSUME NEW j \in Jobs, ChunkWrite(j)
      PROVE  LoadedMatches'
  BY <1>25, NoFailures DEF ChunkWrite, Goto, puller, object, opener
<1>26. ASSUME NEW j \in Jobs, ChunkMark(j)
      PROVE  LoadedMatches'
  BY <1>26 DEF ChunkMark, Goto, Abandon, Release, Stale, Superseded, puller, opener, disk
<1>27. ASSUME NEW j \in Jobs, ChunkBroken(j)
      PROVE  LoadedMatches'
  BY <1>27 DEF ChunkBroken, Abandon, Release, Goto, puller, object, opener, disk
<1>28. ASSUME NEW j \in Jobs, ChunkMeta(j)
      PROVE  LoadedMatches'
  BY <1>28, NoFailures DEF ChunkMeta, Release, Goto, puller, object, opener
<1>29. ASSUME NEW j \in Jobs, IoFail(j)
      PROVE  LoadedMatches'
  BY <1>29 DEF IoFail, FailStatus, Failable, Release, puller, opener, disk
<1>30. ASSUME NEW j \in Jobs, FinishMeta(j)
      PROVE  LoadedMatches'
  BY <1>30, NoFailures DEF FinishMeta, Goto, puller, object, opener
<1>31. ASSUME NEW j \in Jobs, FinishJobs(j)
      PROVE  LoadedMatches'
  BY <1>31 DEF FinishJobs, Goto, puller, object, opener
<1>32. ASSUME NEW j \in Jobs, FinishSeal(j)
      PROVE  LoadedMatches'
  BY <1>32 DEF FinishSeal, Superseded, Release, puller, opener, disk
<1>33. ASSUME NEW j \in Jobs, FinDigest(j)
      PROVE  LoadedMatches'
  BY <1>33, NoFailures DEF FinDigest, Goto, Superseded, puller, object, opener, disk
<1>34. ASSUME NEW j \in Jobs, FinMismatch(j)
      PROVE  LoadedMatches'
  BY <1>34 DEF FinMismatch, FailStatus, Failable, Goto, ResetCursor, puller, opener, disk
<1>35. ASSUME NEW j \in Jobs, FinMetaFix(j)
      PROVE  LoadedMatches'
  BY <1>35, NoFailures DEF FinMetaFix, Goto, puller, object, opener
<1>36. ASSUME NEW j \in Jobs, FinCommit(j)
      PROVE  LoadedMatches'
  BY <1>36, NoFailures DEF FinCommit, Publish, Goto, puller, object, opener
<1>37. ASSUME NEW j \in Jobs, FinDone(j)
      PROVE  LoadedMatches'
  BY <1>37 DEF FinDone, Goto, puller, opener, disk
<1>38. ASSUME NEW j \in Jobs, FinCleanup(j)
      PROVE  LoadedMatches'
  BY <1>38 DEF FinCleanup, Goto, puller, object, opener
<1>39. ASSUME NEW j \in Jobs, FinFail(j)
      PROVE  LoadedMatches'
  BY <1>39 DEF FinFail, FailStatus, Failable, Goto, puller, opener, disk
<1>40. ASSUME NEW j \in Jobs, FinSave(j)
      PROVE  LoadedMatches'
  BY <1>40 DEF FinSave, Release, puller, object, opener
<1>41. CASE FinalizeReady
  BY <1>41 DEF FinalizeReady, io, opener, disk
<1>42. ASSUME NEW w \in ready, FinalizeLock(w)
      PROVE  LoadedMatches'
  BY <1>42 DEF FinalizeLock, object, opener, disk
<1>43. CASE ControlSave
  BY <1>43 DEF ControlSave, object, io, opener
<1>44. CASE UNCHANGED vars
  BY <1>44 DEF vars, puller, object, io, opener, disk
<1>45. CASE Request
  BY <1>45, RequestBodies, <1>1, <1>2, <1>3, <1>4, <1>5, <1>6, <1>7, <1>8, <1>9, <1>10,
     <1>11, <1>12, <1>13 DEF JobRequest
<1>46. CASE OpenStep
  BY <1>46, <1>14, <1>15, <1>16, <1>17, <1>18, <1>19, <1>20, <1>21, <1>22, <1>23, <1>24 DEF
     OpenStep
<1>47. CASE \E j \in Jobs : IoStep(j)
  BY <1>47, <1>25, <1>26, <1>27, <1>28, <1>29, <1>30, <1>31, <1>32, <1>33, <1>34, <1>35,
     <1>36, <1>37, <1>38, <1>39, <1>40 DEF IoStep
<1>48. CASE Finalize \/ ControlSave
  BY <1>48, <1>41, <1>42, <1>43 DEF Finalize
<1> QED BY <1>44, <1>45, <1>46, <1>47, <1>48 DEF Next, Internal

LEMMA NextCleanKeeps ==
    ASSUME "clean_in_chunk" \notin Races, "resume_in_queue" \notin Races,
           TypeOK, Ownership, CleanKeeps, [Next]_vars
    PROVE  CleanKeeps'
<1> USE DEF CleanKeeps, PartOf, Settled, Ownership, StoppedNotLive, ReceivingOwns, Receiving
<1> USE DEF TypeOK, PullerTypeOK, ObjectTypeOK, IoTypeOK, OpenerTypeOK
<1>1. CASE Acquire
  BY <1>1 DEF Acquire, object, io, opener, disk
<1>2. CASE Crash
  BY <1>2, JobsAssumption DEF Crash, disk
<1>3. ASSUME NEW m \in Offers, Open(m)
      PROVE  CleanKeeps'
  BY <1>3 DEF Open, BeginOpen, object, io, disk
<1>4. ASSUME NEW m \in Offers, Start(m)
      PROVE  CleanKeeps'
  BY <1>4 DEF Start, object, io, opener, disk
<1>5. ASSUME NEW g \in 0 .. MaxGen, NEW c \in Chunk, NEW b \in Body, AcceptChunk(g, c, b)
      PROVE  CleanKeeps'
  BY <1>5 DEF AcceptChunk, puller, opener, disk, Unsealed
<1>6. ASSUME NEW g \in 0 .. MaxGen, NEW s \in Contents, Finish(g, s)
      PROVE  CleanKeeps'
  BY <1>6 DEF Finish, puller, opener, disk
<1>7. ASSUME NEW g \in 0 .. MaxGen, FailReport(g)
      PROVE  CleanKeeps'
  BY <1>7 DEF FailReport, FailStatus, Failable, puller, io, opener, disk
<1>8. CASE ReportStatus
  BY <1>8 DEF ReportStatus, puller, io, opener, disk
<1>9. CASE ControlNothing
  BY <1>9 DEF ControlNothing, object, io, opener, disk
<1>10. CASE Pause
  BY <1>10 DEF Pause, io, opener, disk
<1>11. CASE Cancel
  BY <1>11 DEF Cancel, io, opener, disk
<1>12. CASE Resume
  BY <1>12 DEF Resume, ResetCursor, io, opener
<1>13. CASE CleanSnapshot
  BY <1>13 DEF CleanSnapshot, puller, object, io, disk
<1>14. CASE StartQueued
  BY <1>14 DEF StartQueued, BeginOpen, EndOpen, object, io, disk
<1>15. CASE Restore
  BY <1>15 DEF Restore, object, io, disk
<1>16. CASE OpenCancel
  BY <1>16 DEF OpenCancel, Advance, puller, io, disk
<1>17. CASE OpenBarrier
  BY <1>17 DEF OpenBarrier, Advance, BarrierOpen, puller, object, io, disk
<1>18. CASE OpenLoad
  BY <1>18 DEF OpenLoad, puller, object, io, disk
<1>19. CASE OpenCreate
  BY <1>19 DEF OpenCreate, Advance, Created, puller, object, io
<1>20. CASE OpenRefused
  BY <1>20 DEF OpenRefused, EndOpen, object, io
<1>21. CASE OpenSave
  BY <1>21 DEF OpenSave, EndOpen, object, io
<1>22. ASSUME NEW j \in Jobs, OpenSkip(j)
      PROVE  CleanKeeps'
  BY <1>22, JobsAssumption DEF OpenSkip, Install, Spare, EndOpen, io, disk
<1>23. ASSUME NEW j \in Jobs, OpenInstall(j)
      PROVE  CleanKeeps'
  BY <1>23, JobsAssumption DEF OpenInstall, Install, Spare, io, disk
<1>24. CASE CleanRemove
  BY <1>24 DEF CleanRemove, object, io
<1>25. ASSUME NEW j \in Jobs, ChunkWrite(j)
      PROVE  CleanKeeps'
  BY <1>25 DEF ChunkWrite, Goto, puller, object, opener
<1>26. ASSUME NEW j \in Jobs, ChunkMark(j)
      PROVE  CleanKeeps'
  BY <1>26 DEF ChunkMark, Goto, Abandon, Release, Stale, Superseded, puller, opener, disk
<1>27. ASSUME NEW j \in Jobs, ChunkBroken(j)
      PROVE  CleanKeeps'
  BY <1>27 DEF ChunkBroken, Abandon, Release, Goto, puller, object, opener, disk
<1>28. ASSUME NEW j \in Jobs, ChunkMeta(j)
      PROVE  CleanKeeps'
  BY <1>28 DEF ChunkMeta, Release, Goto, puller, object, opener
<1>29. ASSUME NEW j \in Jobs, IoFail(j)
      PROVE  CleanKeeps'
  BY <1>29 DEF IoFail, FailStatus, Failable, Release, puller, opener, disk
<1>30. ASSUME NEW j \in Jobs, FinishMeta(j)
      PROVE  CleanKeeps'
  BY <1>30 DEF FinishMeta, Goto, puller, object, opener
<1>31. ASSUME NEW j \in Jobs, FinishJobs(j)
      PROVE  CleanKeeps'
  BY <1>31 DEF FinishJobs, Goto, puller, object, opener
<1>32. ASSUME NEW j \in Jobs, FinishSeal(j)
      PROVE  CleanKeeps'
  BY <1>32 DEF FinishSeal, Superseded, Release, puller, opener, disk
<1>33. ASSUME NEW j \in Jobs, FinDigest(j)
      PROVE  CleanKeeps'
  BY <1>33 DEF FinDigest, Goto, Superseded, puller, object, opener, disk
<1>34. ASSUME NEW j \in Jobs, FinMismatch(j)
      PROVE  CleanKeeps'
  BY <1>34 DEF FinMismatch, FailStatus, Failable, Goto, ResetCursor, puller, opener, disk
<1>35. ASSUME NEW j \in Jobs, FinMetaFix(j)
      PROVE  CleanKeeps'
  BY <1>35 DEF FinMetaFix, Goto, puller, object, opener
<1>36. ASSUME NEW j \in Jobs, FinCommit(j)
      PROVE  CleanKeeps'
  BY <1>36 DEF FinCommit, Publish, Goto, puller, object, opener
<1>37. ASSUME NEW j \in Jobs, FinDone(j)
      PROVE  CleanKeeps'
  BY <1>37 DEF FinDone, Goto, puller, opener, disk
<1>38. ASSUME NEW j \in Jobs, FinCleanup(j)
      PROVE  CleanKeeps'
  BY <1>38 DEF FinCleanup, Goto, puller, object, opener
<1>39. ASSUME NEW j \in Jobs, FinFail(j)
      PROVE  CleanKeeps'
  BY <1>39 DEF FinFail, FailStatus, Failable, Goto, puller, opener, disk
<1>40. ASSUME NEW j \in Jobs, FinSave(j)
      PROVE  CleanKeeps'
  BY <1>40 DEF FinSave, Release, puller, object, opener
<1>41. CASE FinalizeReady
  BY <1>41 DEF FinalizeReady, io, opener, disk
<1>42. ASSUME NEW w \in ready, FinalizeLock(w)
      PROVE  CleanKeeps'
  BY <1>42 DEF FinalizeLock, object, opener, disk
<1>43. CASE ControlSave
  BY <1>43 DEF ControlSave, object, io, opener
<1>44. CASE UNCHANGED vars
  BY <1>44 DEF vars, puller, object, io, opener, disk
<1>45. CASE Request
  BY <1>45, RequestBodies, <1>1, <1>2, <1>3, <1>4, <1>5, <1>6, <1>7, <1>8, <1>9, <1>10,
     <1>11, <1>12, <1>13 DEF JobRequest
<1>46. CASE OpenStep
  BY <1>46, <1>14, <1>15, <1>16, <1>17, <1>18, <1>19, <1>20, <1>21, <1>22, <1>23, <1>24 DEF
     OpenStep
<1>47. CASE \E j \in Jobs : IoStep(j)
  BY <1>47, <1>25, <1>26, <1>27, <1>28, <1>29, <1>30, <1>31, <1>32, <1>33, <1>34, <1>35,
     <1>36, <1>37, <1>38, <1>39, <1>40 DEF IoStep
<1>48. CASE Finalize \/ ControlSave
  BY <1>48, <1>41, <1>42, <1>43 DEF Finalize
<1> QED BY <1>44, <1>45, <1>46, <1>47, <1>48 DEF Next, Internal

\* A new generation is above that of all handlers and workers.
LEMMA ResumeStep ==
    ASSUME TypeOK, Ownership, Resume
    PROVE  /\ cur \in Jobs /\ UNCHANGED <<cur, pc, hold, man, sha>>
           /\ gen' = [gen EXCEPT ![cur] = gen[cur] + 1]
           /\ pc[cur] # "free" => hold[cur].gen # gen'[cur]
<1>1. cur \in Jobs
  BY DEF Resume, TypeOK, PullerTypeOK
<1>2. UNCHANGED <<cur, pc, hold, man, sha>> /\ gen' = [gen EXCEPT ![cur] = gen[cur] + 1]
  BY <1>1 DEF Resume, io
<1>3. gen \in [Jobs -> Nat] /\ hold[cur] \in Local
  BY <1>1 DEF TypeOK, ObjectTypeOK, IoTypeOK
<1>4. gen'[cur] = gen[cur] + 1 /\ gen[cur] \in Nat /\ hold[cur].gen \in Nat
  BY <1>1, <1>2, <1>3 DEF Local
<1>5. pc[cur] # "free" => hold[cur].gen <= gen[cur]
  BY <1>1 DEF Ownership, KnownGenerations
<1> QED BY <1>1, <1>2, <1>4, <1>5

LEMMA NextPartPresent ==
    ASSUME MaxFaults = 0, TypeOK, Ownership, Publication, Writers, LoadedMatches, CleanKeeps,
           PartPresent, [Next]_vars
    PROVE  PartPresent'
<1> USE DEF PartPresent, PartOf, Superseded, Unsealed, Settled
<1> USE DEF Writers, CleansDone, Retired, RetiredPc, Replacing
<1> USE DEF Publication, CurrentOnly
<1> USE DEF Ownership, StoppedNotLive, ReceivingOwns, Receiving, FinalizeOwns, InHand, FinPc
<1> USE DEF TypeOK, PullerTypeOK, ObjectTypeOK, IoTypeOK, OpenerTypeOK, DiskTypeOK
<1>1. CASE Acquire
  BY <1>1 DEF Acquire, object, io, opener, disk
<1>2. CASE Crash
  BY <1>2, JobsAssumption DEF Crash, disk
<1>3. ASSUME NEW m \in Offers, Open(m)
      PROVE  PartPresent'
  BY <1>3 DEF Open, BeginOpen, object, io, disk
<1>4. ASSUME NEW m \in Offers, Start(m)
      PROVE  PartPresent'
  BY <1>4 DEF Start, object, io, opener, disk
<1>5. ASSUME NEW g \in 0 .. MaxGen, NEW c \in Chunk, NEW b \in Body, AcceptChunk(g, c, b)
      PROVE  PartPresent'
  BY <1>5 DEF AcceptChunk, puller, opener, disk
<1>6. ASSUME NEW g \in 0 .. MaxGen, NEW s \in Contents, Finish(g, s)
      PROVE  PartPresent'
  BY <1>6 DEF Finish, puller, opener, disk
<1>7. ASSUME NEW g \in 0 .. MaxGen, FailReport(g)
      PROVE  PartPresent'
  BY <1>7 DEF FailReport, FailStatus, Failable, puller, io, opener, disk
<1>8. CASE ReportStatus
  BY <1>8 DEF ReportStatus, puller, io, opener, disk
<1>9. CASE ControlNothing
  BY <1>9 DEF ControlNothing, object, io, opener, disk
<1>10. CASE Pause
  BY <1>10 DEF Pause, io, opener, disk
<1>11. CASE Cancel
  BY <1>11 DEF Cancel, io, opener, disk
<1>12. CASE Resume
  <2>1. /\ cur \in Jobs /\ UNCHANGED <<cur, pc, hold, man>>
        /\ gen' = [gen EXCEPT ![cur] = gen[cur] + 1]
    BY <1>12, ResumeStep DEF io
  <2>2. pc[cur] = "chunk_mark" => hold[cur].gen # gen'[cur]
    BY <1>12, ResumeStep
  <2>3. KeyOf(man[cur]) \in Key
    BY <2>1, PartOfKey
  <2>4. CASE part[KeyOf(man[cur])] = None
    <3>1. part' = [part EXCEPT ![KeyOf(man[cur])] = Holes]
      BY <1>12, <2>4 DEF Resume
    <3>2. done' = [done EXCEPT ![cur] = NoMarks] /\ (swept => swept')
      BY <1>12, <2>4 DEF Resume
    <3>3. part'[KeyOf(man[cur])] # None
      BY <2>3, <3>1, NoneIsNoBytes
    <3>4. ~ swept => pc[cur] # "chunk_write"
      BY <2>1, <2>4
    <3> QED BY <2>1, <2>2, <3>2, <3>3, <3>4 DEF NoMarks
  <2>5. CASE part[KeyOf(man[cur])] # None
    <3>1. UNCHANGED part /\ done' = [done EXCEPT ![cur] = done[cur]] /\ (swept => swept')
      BY <1>12, <2>5 DEF Resume
    <3> QED BY <2>1, <2>2, <2>5, <3>1
  <2> QED BY <2>4, <2>5
<1>13. CASE CleanSnapshot
  BY <1>13 DEF CleanSnapshot, puller, object, io, disk
<1>14. CASE StartQueued
  BY <1>14 DEF StartQueued, BeginOpen, EndOpen, object, io, disk
<1>15. CASE Restore
  BY <1>15 DEF Restore, object, io, disk
<1>16. CASE OpenCancel
  BY <1>16 DEF OpenCancel, Advance, puller, io, disk
<1>17. CASE OpenBarrier
  BY <1>17 DEF OpenBarrier, Advance, BarrierOpen, puller, object, io, disk
<1>18. CASE OpenLoad
  BY <1>18 DEF OpenLoad, puller, object, io, disk
<1>19. CASE OpenCreate
  BY <1>19, JobsAssumption DEF OpenCreate, Advance, Created, puller, object, io, OpenerHolds
<1>20. CASE OpenRefused
  BY <1>20, NoFailures DEF OpenRefused, EndOpen, object, io
<1>21. CASE OpenSave
  BY <1>21 DEF OpenSave, EndOpen, object, io
<1>22. ASSUME NEW j \in Jobs, OpenSkip(j)
      PROVE  PartPresent'
  BY <1>22, JobsAssumption DEF OpenSkip, Install, Spare, EndOpen, io, disk, PartOf
<1>23. ASSUME NEW j \in Jobs, OpenInstall(j)
      PROVE  PartPresent'
  BY <1>23, JobsAssumption DEF OpenInstall, Install, Spare, io, disk, LoadedMatches, PartOf
<1>24. CASE CleanRemove
  <2>1. /\ op = "clean" /\ UNCHANGED <<cur, man, done, status, gen, live, pc, hold, swept>>
        /\ \A k \in Key : k \in keep => part'[k] = part[k]
    BY <1>24 DEF CleanRemove, object, io
  <2>2. ASSUME cur \in Jobs, ~ swept,
               status[cur] \notin Settled \/ pc[cur] = "chunk_write"
        PROVE  part'[KeyOf(man[cur])] = part[KeyOf(man[cur])]
    BY <2>1, <2>2, PartOfKey, JobsAssumption DEF CleanKeeps
  <2>3. cur \in Jobs /\ pc[cur] = "chunk_mark" /\ ~ Superseded(cur) => status[cur] \notin Settled
    OBVIOUS
  <2> QED BY <2>1, <2>2, <2>3
<1>25. ASSUME NEW j \in Jobs, ChunkWrite(j)
      PROVE  PartPresent'
  <2> DEFINE k == KeyOf(man[j])
             old == IF part[k] = None THEN Holes ELSE part[k]
             new == [old EXCEPT ![hold[j].idx] = hold[j].body]
  <2>1. /\ UNCHANGED <<swept, cur, man, done, status, gen, live, hold>>
        /\ pc[j] = "chunk_write" /\ pc' = [pc EXCEPT ![j] = "chunk_mark"]
        /\ part' = [part EXCEPT ![k] = new]
    BY <1>25, NoFailures DEF ChunkWrite, Goto, puller, object, opener
  <2>2. j = cur /\ hold[j].idx \in Chunk
    BY <2>1
  <2>3. k \in Key /\ old \in Bytes
    BY PartOfKey, NoneIsNoBytes
  <2>4. new[hold[j].idx] = hold[j].body
    BY <2>2, <2>3 DEF Bytes
  <2>5. new # None
    <3>1. hold[j].body \in Body \cup {None}
      BY DEF Local
    <3>2. new \in Bytes
      BY <2>2, <2>3, <3>1 DEF Bytes
    <3> QED BY <3>2, NoneIsNoBytes
  <2> HIDE DEF new
  <2> QED BY <2>1, <2>2, <2>3, <2>4, <2>5
<1>26. ASSUME NEW j \in Jobs, ChunkMark(j)
      PROVE  PartPresent'
  BY <1>26 DEF ChunkMark, Goto, Abandon, Release, Stale, Superseded, puller, opener, disk
<1>27. ASSUME NEW j \in Jobs, ChunkBroken(j)
      PROVE  PartPresent'
  BY <1>27 DEF ChunkBroken, Abandon, Release, Goto, puller, object, opener, disk
<1>28. ASSUME NEW j \in Jobs, ChunkMeta(j)
      PROVE  PartPresent'
  BY <1>28, NoFailures DEF ChunkMeta, Release, Goto, puller, object, opener
<1>29. ASSUME NEW j \in Jobs, IoFail(j)
      PROVE  PartPresent'
  BY <1>29 DEF IoFail, FailStatus, Failable, Release, puller, opener, disk
<1>30. ASSUME NEW j \in Jobs, FinishMeta(j)
      PROVE  PartPresent'
  BY <1>30, NoFailures DEF FinishMeta, Goto, puller, object, opener
<1>31. ASSUME NEW j \in Jobs, FinishJobs(j)
      PROVE  PartPresent'
  BY <1>31 DEF FinishJobs, Goto, puller, object, opener
<1>32. ASSUME NEW j \in Jobs, FinishSeal(j)
      PROVE  PartPresent'
  BY <1>32 DEF FinishSeal, Superseded, Release, puller, opener, disk
<1>33. ASSUME NEW j \in Jobs, FinDigest(j)
      PROVE  PartPresent'
  <2>1. /\ UNCHANGED <<swept, cur, man, done, status, gen, live, hold, part>>
        /\ \E l \in {"fin_fail", "fin_commit", "fin_mismatch"} : pc' = [pc EXCEPT ![j] = l]
    BY <1>33 DEF FinDigest, Goto, puller, object, disk, opener
  <2> QED BY <2>1
<1>34. ASSUME NEW j \in Jobs, FinMismatch(j)
      PROVE  PartPresent'
  BY <1>34 DEF FinMismatch, FailStatus, Failable, Goto, ResetCursor, puller, opener, disk
<1>35. ASSUME NEW j \in Jobs, FinMetaFix(j)
      PROVE  PartPresent'
  BY <1>35, NoFailures DEF FinMetaFix, Goto, puller, object, opener
<1>36. ASSUME NEW j \in Jobs, FinCommit(j)
      PROVE  PartPresent'
  <2>1. CASE UNCHANGED part
    <3>1. /\ UNCHANGED <<swept, cur, man, done, status, gen, live, hold>>
          /\ \E l \in {"fin_fail", "fin_done"} : pc' = [pc EXCEPT ![j] = l]
      BY <1>36 DEF FinCommit, Goto, puller, object, opener
    <3> QED BY <2>1, <3>1
  <2>2. CASE ~ UNCHANGED part
    <3>1. /\ UNCHANGED <<swept, cur, man, done, status, gen, live, hold>>
          /\ pc[j] = "fin_commit" /\ pc' = [pc EXCEPT ![j] = "fin_done"]
          /\ MayCommit(j)
      BY <1>36, <2>2 DEF FinCommit, Publish, Goto, puller, object, opener
    <3>2. j = cur /\ status[j] \notin Unsealed
      BY <3>1 DEF MayCommit
    <3> QED BY <3>1, <3>2
  <2> QED BY <2>1, <2>2
<1>37. ASSUME NEW j \in Jobs, FinDone(j)
      PROVE  PartPresent'
  BY <1>37 DEF FinDone, Goto, puller, opener, disk
<1>38. ASSUME NEW j \in Jobs, FinCleanup(j)
      PROVE  PartPresent'
  <2>1. /\ UNCHANGED <<swept, cur, man, done, status, gen, live, hold>>
        /\ pc[j] = "fin_cleanup" /\ pc' = [pc EXCEPT ![j] = "fin_save"]
        /\ part' = [part EXCEPT ![KeyOf(man[j])] = None]
    BY <1>38 DEF FinCleanup, Goto, puller, object, opener
  <2>2. j = cur /\ status[j] = "done"
    BY <2>1
  <2> QED BY <2>1, <2>2
<1>39. ASSUME NEW j \in Jobs, FinFail(j)
      PROVE  PartPresent'
  BY <1>39 DEF FinFail, FailStatus, Failable, Goto, puller, opener, disk
<1>40. ASSUME NEW j \in Jobs, FinSave(j)
      PROVE  PartPresent'
  BY <1>40 DEF FinSave, Release, puller, object, opener
<1>41. CASE FinalizeReady
  BY <1>41 DEF FinalizeReady, io, opener, disk
<1>42. ASSUME NEW w \in ready, FinalizeLock(w)
      PROVE  PartPresent'
  BY <1>42 DEF FinalizeLock, object, opener, disk
<1>43. CASE ControlSave
  BY <1>43 DEF ControlSave, object, io, opener
<1>44. CASE UNCHANGED vars
  BY <1>44 DEF vars, puller, object, io, opener, disk
<1>45. CASE Request
  BY <1>45, RequestBodies, <1>1, <1>2, <1>3, <1>4, <1>5, <1>6, <1>7, <1>8, <1>9, <1>10,
     <1>11, <1>12, <1>13 DEF JobRequest
<1>46. CASE OpenStep
  BY <1>46, <1>14, <1>15, <1>16, <1>17, <1>18, <1>19, <1>20, <1>21, <1>22, <1>23, <1>24 DEF
     OpenStep
<1>47. CASE \E j \in Jobs : IoStep(j)
  BY <1>47, <1>25, <1>26, <1>27, <1>28, <1>29, <1>30, <1>31, <1>32, <1>33, <1>34, <1>35,
     <1>36, <1>37, <1>38, <1>39, <1>40 DEF IoStep
<1>48. CASE Finalize \/ ControlSave
  BY <1>48, <1>41, <1>42, <1>43 DEF Finalize
<1> QED BY <1>44, <1>45, <1>46, <1>47, <1>48 DEF Next, Internal

LEMMA NoneIsNoMarks == None \notin Marks
BY BodyAssumption DEF Marks, Mark

LEMMA NextMarkedSaved ==
    ASSUME MaxFaults = 0, "resume_in_queue" \notin Races, TypeOK, Ownership, Publication,
           Writers, LoadedMatches, PartPresent, MarkedSaved, [Next]_vars
    PROVE  MarkedSaved'
<1> USE DEF MarkedSaved, PartPresent, PartOf, Superseded, Writers, CleansDone, Retired, RetiredPc
<1> USE DEF Publication, CurrentOnly
<1> USE DEF TypeOK, PullerTypeOK, ObjectTypeOK, IoTypeOK, OpenerTypeOK, DiskTypeOK
<1>1. CASE Acquire
  BY <1>1 DEF Acquire, object, io, opener, disk
<1>2. CASE Crash
  BY <1>2, JobsAssumption DEF Crash, disk
<1>3. ASSUME NEW m \in Offers, Open(m)
      PROVE  MarkedSaved'
  BY <1>3 DEF Open, BeginOpen, object, io, disk
<1>4. ASSUME NEW m \in Offers, Start(m)
      PROVE  MarkedSaved'
  BY <1>4 DEF Start, object, io, opener, disk
<1>5. ASSUME NEW g \in 0 .. MaxGen, NEW c \in Chunk, NEW b \in Body, AcceptChunk(g, c, b)
      PROVE  MarkedSaved'
  BY <1>5 DEF AcceptChunk, puller, opener, disk, Unsealed
<1>6. ASSUME NEW g \in 0 .. MaxGen, NEW s \in Contents, Finish(g, s)
      PROVE  MarkedSaved'
  BY <1>6 DEF Finish, puller, opener, disk
<1>7. ASSUME NEW g \in 0 .. MaxGen, FailReport(g)
      PROVE  MarkedSaved'
  BY <1>7 DEF FailReport, FailStatus, Failable, puller, io, opener, disk
<1>8. CASE ReportStatus
  BY <1>8 DEF ReportStatus, puller, io, opener, disk
<1>9. CASE ControlNothing
  BY <1>9 DEF ControlNothing, object, io, opener, disk
<1>10. CASE Pause
  BY <1>10 DEF Pause, io, opener, disk
<1>11. CASE Cancel
  BY <1>11 DEF Cancel, io, opener, disk
<1>12. CASE Resume
  <2>1. cur \in Jobs /\ UNCHANGED <<cur, pc, hold, man, meta, op>> /\ (swept => swept')
        /\ op # "install"
    BY <1>12, ResumeStep DEF Resume, io
  <2>2. CASE part[KeyOf(man[cur])] = None
    <3>1. done' = [done EXCEPT ![cur] = NoMarks]
      BY <1>12, <2>2 DEF Resume
    <3> QED BY <2>1, <3>1 DEF NoMarks
  <2>3. CASE part[KeyOf(man[cur])] # None
    <3>1. UNCHANGED part /\ done' = [done EXCEPT ![cur] = done[cur]] /\ status[cur] # "done"
      BY <1>12, <2>3 DEF Resume
    <3> QED BY <2>1, <2>3, <3>1
  <2> QED BY <2>2, <2>3
<1>13. CASE CleanSnapshot
  BY <1>13 DEF CleanSnapshot, puller, object, io, disk
<1>14. CASE StartQueued
  BY <1>14 DEF StartQueued, BeginOpen, EndOpen, object, io, disk
<1>15. CASE Restore
  BY <1>15 DEF Restore, object, io, disk
<1>16. CASE OpenCancel
  BY <1>16 DEF OpenCancel, Advance, puller, io, disk
<1>17. CASE OpenBarrier
  BY <1>17 DEF OpenBarrier, Advance, BarrierOpen, puller, object, io, disk
<1>18. CASE OpenLoad
  BY <1>18 DEF OpenLoad, puller, object, io, disk
<1>19. CASE OpenCreate
  BY <1>19 DEF OpenCreate, Advance, Created, puller, object, io
<1>20. CASE OpenRefused
  BY <1>20, NoFailures DEF OpenRefused, EndOpen, object, io
<1>21. CASE OpenSave
  BY <1>21 DEF OpenSave, EndOpen, object, io
<1>22. ASSUME NEW j \in Jobs, OpenSkip(j)
      PROVE  MarkedSaved'
  BY <1>22, JobsAssumption DEF OpenSkip, Install, Spare, EndOpen, io, disk
<1>23. ASSUME NEW j \in Jobs, OpenInstall(j)
      PROVE  MarkedSaved'
  <2>1. /\ op = "install" /\ cur' = j /\ op' = "save" /\ UNCHANGED <<part, meta>>
        /\ man' = [man EXCEPT ![j] = opMan] /\ done' = [done EXCEPT ![j] = opDone]
    BY <1>23 DEF OpenInstall, Install, disk
  <2>2. \A c \in Chunk : opDone[c] # None =>
           /\ part[KeyOf(opMan)][c] = opDone[c]
           /\ meta[KeyOf(opMan)] # None /\ meta[KeyOf(opMan)][c] = opDone[c]
    BY <2>1 DEF LoadedMatches
  <2>3. man'[j] = opMan /\ done'[j] = opDone
    BY <2>1
  <2> QED BY <2>1, <2>2, <2>3
<1>24. CASE CleanRemove
  <2>1. /\ op = "clean" /\ UNCHANGED <<swept, cur, man, done, status, pc, hold>>
        /\ \A k \in Key : part'[k] # None => part'[k] = part[k] /\ meta'[k] = meta[k]
    BY <1>24 DEF CleanRemove, object, io
  <2> QED BY <2>1, PartOfKey
<1>25. ASSUME NEW j \in Jobs, ChunkWrite(j)
      PROVE  MarkedSaved'
  <2> DEFINE k == KeyOf(man[j])
             old == IF part[k] = None THEN Holes ELSE part[k]
             new == [old EXCEPT ![hold[j].idx] = hold[j].body]
  <2>1. /\ UNCHANGED <<swept, cur, man, done, status, hold, op, meta>>
        /\ pc[j] = "chunk_write" /\ pc' = [pc EXCEPT ![j] = "chunk_mark"]
        /\ part' = [part EXCEPT ![k] = new]
    BY <1>25, NoFailures DEF ChunkWrite, Goto, puller, object, opener
  <2>2. j = cur /\ (~ swept => part[k] # None) /\ done[j][hold[j].idx] = None
    BY <2>1
  <2>3. k \in Key /\ (~ swept => part[k] \in Bytes)
    BY <2>2, PartOfKey
  <2>4. ~ swept => \A c \in Chunk : c # hold[j].idx => new[c] = part[k][c]
    BY <2>2, <2>3 DEF Bytes
  <2> HIDE DEF new
  <2> QED BY <2>1, <2>2, <2>3, <2>4
<1>26. ASSUME NEW j \in Jobs, ChunkMark(j)
      PROVE  MarkedSaved'
  <2>1. UNCHANGED <<swept, cur, man, op, part, meta>> /\ pc[j] = "chunk_mark"
    BY <1>26 DEF ChunkMark, opener, disk, puller
  <2>2. CASE Stale(j)
    BY <1>26, <2>1, <2>2 DEF ChunkMark, Abandon, Release
  <2>3. CASE ~ Stale(j)
    <3> DEFINE marks == [done[j] EXCEPT ![hold[j].idx] = hold[j].body]
    <3>1. /\ j = cur /\ ~ Superseded(j) /\ UNCHANGED hold
          /\ pc' = [pc EXCEPT ![j] = "chunk_meta"]
          /\ done' = [done EXCEPT ![j] = marks]
          /\ UNCHANGED status \/ status' = [status EXCEPT ![j] = "verifying"]
      BY <1>26, <2>3 DEF ChunkMark, Stale, Goto
    <3>2. /\ ~ swept => /\ part[KeyOf(man[j])] # None
                         /\ part[KeyOf(man[j])][hold[j].idx] = hold[j].body
          /\ hold[j].idx \in Chunk /\ status[j] # "done"
      BY <2>1, <3>1 DEF Ownership, ReceivingOwns, Receiving
    <3>3. /\ marks[hold[j].idx] = hold[j].body
          /\ \A c \in Chunk : c # hold[j].idx => marks[c] = done[j][c]
      BY <3>2 DEF Marks
    <3>4. done'[j] = marks
      BY <3>1
    <3>5. ASSUME NEW c \in Chunk, ~ swept, op # "install", marks[c] # None
          PROVE  /\ part[KeyOf(man[j])][c] = marks[c]
                 /\ \/ meta[KeyOf(man[j])] # None /\ meta[KeyOf(man[j])][c] = marks[c]
                    \/ c = hold[j].idx
      <4>1. CASE c = hold[j].idx
        BY <3>2, <3>3, <3>5, <4>1
      <4>2. CASE c # hold[j].idx
        BY <2>1, <3>1, <3>2, <3>3, <3>5, <4>2
      <4> QED BY <4>1, <4>2
    <3>6. cur' = j /\ swept' = swept /\ man' = man /\ op' = op /\ part' = part /\ meta' = meta /\ hold' = hold
      BY <2>1, <3>1
    <3>7. pc'[j] = "chunk_meta"
      BY <3>1
    <3> HIDE DEF marks
    <3> QED BY <3>4, <3>5, <3>6, <3>7
  <2> QED BY <2>2, <2>3
<1>27. ASSUME NEW j \in Jobs, ChunkBroken(j)
      PROVE  MarkedSaved'
  <2>1. /\ UNCHANGED <<swept, cur, man, done, status, op, part, meta>> /\ pc[j] = "chunk_broken"
        /\ \E l \in {"free", "io_fail"} : pc' = [pc EXCEPT ![j] = l]
        /\ \A i \in Jobs : i # j => hold'[i] = hold[i]
    BY <1>27 DEF ChunkBroken, Abandon, Release, Goto, puller, object, opener, disk
  <2>2. \A i \in Jobs : pc[i] = "chunk_meta" => pc'[i] = "chunk_meta" /\ hold'[i] = hold[i]
    BY <2>1
  <2> QED BY <2>1, <2>2
<1>28. ASSUME NEW j \in Jobs, ChunkMeta(j)
      PROVE  MarkedSaved'
  <2>1. /\ UNCHANGED <<swept, cur, man, done, status, op, part>>
        /\ pc[j] = "chunk_meta" /\ meta' = [meta EXCEPT ![KeyOf(man[j])] = done[j]]
    BY <1>28, NoFailures DEF ChunkMeta, Release, Goto, puller, object, opener
  <2>2. j = cur
    BY <2>1
  <2>3. meta'[KeyOf(man[j])] = done[j] /\ done[j] # None
    BY <2>1, PartOfKey, NoneIsNoMarks
  <2> QED BY <2>1, <2>2, <2>3
<1>29. ASSUME NEW j \in Jobs, IoFail(j)
      PROVE  MarkedSaved'
  BY <1>29 DEF IoFail, FailStatus, Failable, Release, puller, opener, disk
<1>30. ASSUME NEW j \in Jobs, FinishMeta(j)
      PROVE  MarkedSaved'
  <2>1. /\ UNCHANGED <<swept, cur, man, done, status, op, part>>
        /\ pc[j] = "finish_meta" /\ meta' = [meta EXCEPT ![KeyOf(man[j])] = done[j]]
    BY <1>30, NoFailures DEF FinishMeta, Goto, puller, object, opener
  <2>2. j = cur
    BY <2>1
  <2>3. meta'[KeyOf(man[j])] = done[j] /\ done[j] # None
    BY <2>1, PartOfKey, NoneIsNoMarks
  <2> QED BY <2>1, <2>2, <2>3
<1>31. ASSUME NEW j \in Jobs, FinishJobs(j)
      PROVE  MarkedSaved'
  <2>1. /\ UNCHANGED <<swept, cur, man, done, status, op, part, meta, hold>>
        /\ pc[j] = "finish_jobs"
        /\ \E l \in {"finish_seal", "io_fail"} : pc' = [pc EXCEPT ![j] = l]
    BY <1>31 DEF FinishJobs, Goto, puller, object, opener
  <2>2. \A i \in Jobs : pc[i] = "chunk_meta" => pc'[i] = "chunk_meta"
    BY <2>1
  <2> QED BY <2>1, <2>2
<1>32. ASSUME NEW j \in Jobs, FinishSeal(j)
      PROVE  MarkedSaved'
  <2>1. /\ UNCHANGED <<swept, cur, man, done, op, part, meta>> /\ pc[j] = "finish_seal"
        /\ pc' = [pc EXCEPT ![j] = "free"] /\ hold' = [hold EXCEPT ![j] = NoHold]
        /\ \/ UNCHANGED status
           \/ ~ Superseded(j) /\ status' = [status EXCEPT ![j] = "verifying"]
    BY <1>32 DEF FinishSeal, Release, puller, opener, disk
  <2>2. ~ Superseded(j) => status[j] # "done"
    BY <2>1 DEF Ownership, ReceivingOwns, Receiving
  <2>3. \A i \in Jobs : status'[i] # "done" => status[i] # "done"
    BY <2>1, <2>2
  <2>4. \A i \in Jobs : pc[i] = "chunk_meta" => pc'[i] = "chunk_meta" /\ hold'[i] = hold[i]
    BY <2>1
  <2>5. UNCHANGED <<swept, cur, man, done, op, part, meta>>
    BY <2>1
  <2> QED BY <2>3, <2>4, <2>5
<1>33. ASSUME NEW j \in Jobs, FinDigest(j)
      PROVE  MarkedSaved'
  BY <1>33, NoFailures DEF FinDigest, Goto, Superseded, puller, object, opener, disk
<1>34. ASSUME NEW j \in Jobs, FinMismatch(j)
      PROVE  MarkedSaved'
  <2>1. /\ UNCHANGED <<swept, cur, man, hold, op, part, meta>> /\ pc[j] = "fin_mismatch"
        /\ pc' = [pc EXCEPT ![j] = "fin_metafix"]
        /\ \/ done' = [done EXCEPT ![j] = NoMarks] /\ j = cur
           \/ UNCHANGED <<done, status>>
    BY <1>34 DEF FinMismatch, FailStatus, Failable, Goto, puller, opener, disk
  <2> QED BY <2>1 DEF NoMarks
<1>35. ASSUME NEW j \in Jobs, FinMetaFix(j)
      PROVE  MarkedSaved'
  <2>1. /\ UNCHANGED <<swept, cur, man, done, status, op, part>>
        /\ pc[j] = "fin_metafix" /\ meta' = [meta EXCEPT ![KeyOf(man[j])] = done[j]]
    BY <1>35, NoFailures DEF FinMetaFix, Goto, puller, object, opener
  <2>2. j = cur
    BY <2>1
  <2>3. meta'[KeyOf(man[j])] = done[j] /\ done[j] # None
    BY <2>1, PartOfKey, NoneIsNoMarks
  <2> QED BY <2>1, <2>2, <2>3
<1>36. ASSUME NEW j \in Jobs, FinCommit(j)
      PROVE  MarkedSaved'
  <2>1. /\ UNCHANGED <<swept, cur, man, done, status, hold, op, meta>> /\ pc[j] = "fin_commit"
        /\ \E l \in {"fin_fail", "fin_done"} : pc' = [pc EXCEPT ![j] = l]
        /\ UNCHANGED part \/ part' = [part EXCEPT ![KeyOf(man[j])] = None]
    BY <1>36 DEF FinCommit, Publish, Goto, puller, object, opener
  <2>2. j = cur /\ KeyOf(man[j]) \in Key
    BY <2>1, PartOfKey
  <2>3. CASE UNCHANGED part
    BY <2>1, <2>3
  <2>4. CASE part' = [part EXCEPT ![KeyOf(man[j])] = None]
    <3>1. part'[KeyOf(man[j])] = None
      BY <2>2, <2>4
    <3> QED BY <2>1, <2>2, <3>1
  <2> QED BY <2>1, <2>3, <2>4
<1>37. ASSUME NEW j \in Jobs, FinDone(j)
      PROVE  MarkedSaved'
  BY <1>37 DEF FinDone, Goto, puller, opener, disk
<1>38. ASSUME NEW j \in Jobs, FinCleanup(j)
      PROVE  MarkedSaved'
  BY <1>38 DEF FinCleanup, Goto, puller, object, opener
<1>39. ASSUME NEW j \in Jobs, FinFail(j)
      PROVE  MarkedSaved'
  BY <1>39 DEF FinFail, FailStatus, Failable, Goto, puller, opener, disk
<1>40. ASSUME NEW j \in Jobs, FinSave(j)
      PROVE  MarkedSaved'
  BY <1>40 DEF FinSave, Release, puller, object, opener
<1>41. CASE FinalizeReady
  BY <1>41 DEF FinalizeReady, io, opener, disk
<1>42. ASSUME NEW w \in ready, FinalizeLock(w)
      PROVE  MarkedSaved'
  BY <1>42 DEF FinalizeLock, object, opener, disk
<1>43. CASE ControlSave
  BY <1>43 DEF ControlSave, object, io, opener
<1>44. CASE UNCHANGED vars
  BY <1>44 DEF vars, puller, object, io, opener, disk
<1>45. CASE Request
  BY <1>45, RequestBodies, <1>1, <1>2, <1>3, <1>4, <1>5, <1>6, <1>7, <1>8, <1>9, <1>10,
     <1>11, <1>12, <1>13 DEF JobRequest
<1>46. CASE OpenStep
  BY <1>46, <1>14, <1>15, <1>16, <1>17, <1>18, <1>19, <1>20, <1>21, <1>22, <1>23, <1>24 DEF
     OpenStep
<1>47. CASE \E j \in Jobs : IoStep(j)
  BY <1>47, <1>25, <1>26, <1>27, <1>28, <1>29, <1>30, <1>31, <1>32, <1>33, <1>34, <1>35,
     <1>36, <1>37, <1>38, <1>39, <1>40 DEF IoStep
<1>48. CASE Finalize \/ ControlSave
  BY <1>48, <1>41, <1>42, <1>43 DEF Finalize
<1> QED BY <1>44, <1>45, <1>46, <1>47, <1>48 DEF Next, Internal

LEMMA NextSaving ==
    ASSUME MaxFaults = 0, "clean_in_chunk" \notin Races, "resume_in_queue" \notin Races,
           TypeOK, Ownership, Publication, Saving, [Next]_vars
    PROVE  Saving'
BY NextWriters, NextLoaded, NextCleanKeeps, NextPartPresent, NextMarkedSaved DEF Saving, Writers

\* AcceptedIsSaved: as long as file operations work, and neither a clean meets a
\* chunk in flight nor a resume an open, a chunk that is marked in a job that takes
\* chunks is in the part file and in the metadata, whatever was paused, canceled,
\* resumed, reopened, cleaned or restarted before.  Jobs that were resumed while a
\* clean was about to remove their files (swept) are not promised that, since the
\* code does lose their files; resume_in_clean itself is not excluded.
THEOREM AcceptedChunksSaved ==
    ASSUME MaxFaults = 0, "clean_in_chunk" \notin Races, "resume_in_queue" \notin Races
    PROVE  Spec => []AcceptedIsSaved
<1> DEFINE Inv == TypeOK /\ Ownership /\ Publication /\ Saving
<1>1. Init => Inv
  BY InitType, InitOwnership, InitPublication, InitSaving
<1>2. Inv /\ [Next]_vars => Inv'
  BY NextType, NextOwnership, NextPublication, NextSaving
<1>3. Inv => AcceptedIsSaved
  <2> SUFFICES ASSUME Inv, NEW j \in Jobs, Answerable(j), NEW c \in Chunk, done[j][c] # None
               PROVE  /\ meta[PartOf(j)] # None /\ meta[PartOf(j)][c] = done[j][c]
                      /\ part[PartOf(j)] # None /\ part[PartOf(j)][c] = done[j][c]
    BY DEF AcceptedIsSaved
  <2>1. j = cur /\ ~ swept /\ pc[j] = "free" /\ live[j] /\ status[j] \in Unsealed
    BY DEF Answerable, Unsealed
  <2>2. part[PartOf(j)] # None
    BY <2>1 DEF Saving, PartPresent
  <2>3. op # "install"
    BY <2>1, JobsAssumption DEF Publication, OpenerHolds
  <2> QED BY <2>1, <2>2, <2>3 DEF Saving, MarkedSaved, Unsealed
<1> HIDE DEF Inv
<1> QED BY <1>1, <1>2, <1>3, PTL DEF Spec
=============================================================================
