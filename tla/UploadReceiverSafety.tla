------------------------- MODULE UploadReceiverSafety -------------------------
(***************************************************************************)
(* Safety theorems of UploadReceiver, for every value of its constants.     *)
(*                                                                         *)
(* Two inductive invariants.  Ownership needs nothing but the types: who     *)
(* has a job in hand, and that what was overtaken has no effect.             *)
(* Publication is about the part file, and needs that no resume falls into   *)
(* an open that waits for the job it replaces.                               *)
(***************************************************************************)
EXTENDS UploadReceiverProofs

-----------------------------------------------------------------------------
(* The steps that touch a FileJob, its lock or the work captured from it *)

JobRequest ==
    \/ Crash
    \/ \E g \in 0 .. MaxGen :
          \/ \E c \in Chunk : \E b \in Body : AcceptChunk(g, c, b)
          \/ \E s \in Contents : Finish(g, s)
          \/ FailReport(g)
    \/ ReportStatus \/ Pause \/ Cancel \/ Resume
JobStep(j) == OpenSkip(j) \/ OpenInstall(j) \/ IoStep(j)

LEMMA RequestBodies ==
    ASSUME Request
    PROVE  JobRequest \/ Acquire \/ (\E m \in Offers : Open(m) \/ Start(m))
           \/ ControlNothing \/ CleanSnapshot
<1>1. \A c \in Chunk : {s[c] : s \in Contents} \subseteq Body
  BY ContentsAssumption DEF Content
<1>2. CASE \E g \in 0 .. MaxGen : \E c \in Chunk :
             \E b \in {s[c] : s \in Contents} : AcceptChunk(g, c, b)
  <2>1. \E g \in 0 .. MaxGen : \E c \in Chunk : \E b \in Body : AcceptChunk(g, c, b)
    BY <1>1, <1>2
  <2> QED BY <2>1 DEF JobRequest
<1>3. CASE ~ (\E g \in 0 .. MaxGen : \E c \in Chunk :
               \E b \in {s[c] : s \in Contents} : AcceptChunk(g, c, b))
  BY <1>3 DEF Request, JobRequest
<1> QED BY <1>2, <1>3

LEMMA JobSteps ==
    ASSUME [Next]_vars
    PROVE  \/ UNCHANGED <<ready, object, io>>
           \/ JobRequest \/ OpenCancel \/ (\E j \in Jobs : JobStep(j)) \/ Finalize
<1>1. CASE Request
  <2>1. CASE Acquire \/ ControlNothing \/ CleanSnapshot
    BY <2>1 DEF Acquire, ControlNothing, CleanSnapshot, puller
  <2>2. CASE \E m \in Offers : Open(m) \/ Start(m)
    BY <2>2 DEF Open, Start
  <2> QED BY <1>1, <2>1, <2>2, RequestBodies
<1>2. CASE OpenStep
  <2>1. CASE StartQueued \/ Restore \/ OpenBarrier \/ OpenLoad
    BY <2>1 DEF StartQueued, Restore, OpenBarrier, OpenLoad, puller
  <2>2. CASE OpenCreate \/ OpenRefused \/ OpenSave \/ CleanRemove
    BY <2>2 DEF OpenCreate, OpenRefused, OpenSave, CleanRemove, puller
  <2> QED BY <1>2, <2>1, <2>2 DEF OpenStep, JobStep
<1>3. CASE \E j \in Jobs : IoStep(j)
  BY <1>3 DEF JobStep
<1>4. CASE ControlSave
  BY <1>4 DEF ControlSave
<1>5. CASE UNCHANGED vars
  BY <1>5 DEF vars, puller
<1> QED BY <1>1, <1>2, <1>3, <1>4, <1>5 DEF Next, Internal

-----------------------------------------------------------------------------
(* The upload cursor *)

\* A chunk handler that is about to mark its chunk holds a chunk.
ChunkInHand == \A j \in Jobs : pc[j] \in {"chunk_write", "chunk_mark"} => hold[j].body \in Body
CursorInv == CursorBelowMissing /\ ChunkInHand

LEMMA InitCursor == Init => CursorInv
BY DEF Init, NoMemory, CursorInv, CursorBelowMissing, ChunkInHand, Chunk

\* Only ReportStatus moves a cursor up, over chunks it has looked at; whatever
\* takes marks away resets the cursor in the same section.
LEMMA NextCursor == TypeOK /\ CursorInv /\ [Next]_vars => CursorInv'
<1> SUFFICES ASSUME TypeOK, CursorInv, [Next]_vars PROVE CursorInv'
  OBVIOUS
<1> USE DEF TypeOK, CursorInv, CursorBelowMissing, ChunkInHand
<1>1. CASE UNCHANGED <<ready, object, io>>
  BY <1>1 DEF object, io
<1>2. CASE Crash
  BY <1>2 DEF Crash, Chunk
<1>3. ASSUME NEW g \in 0 .. MaxGen, NEW c \in Chunk, NEW b \in Body, AcceptChunk(g, c, b)
      PROVE  CursorInv'
  BY <1>3 DEF AcceptChunk, IoTypeOK
<1>4. ASSUME NEW g \in 0 .. MaxGen, NEW s \in Contents, Finish(g, s)
      PROVE  CursorInv'
  BY <1>4 DEF Finish
<1>5. ASSUME NEW g \in 0 .. MaxGen, FailReport(g)
      PROVE  CursorInv'
  BY <1>5 DEF FailReport, io
<1>6. CASE ReportStatus
  BY <1>6 DEF ReportStatus, ObjectTypeOK, Chunk, CursorStops, io
<1>7. CASE Pause
  BY <1>7 DEF Pause, io
<1>8. CASE Cancel
  BY <1>8 DEF Cancel, io
<1>9. CASE Resume
  BY <1>9 DEF Resume, ResetCursor, ObjectTypeOK, PullerTypeOK, Chunk, io
<1>10. CASE OpenCancel
  BY <1>10 DEF OpenCancel, io
<1>11. ASSUME NEW j \in Jobs, OpenSkip(j)
      PROVE  CursorInv'
  BY <1>11 DEF OpenSkip, Install, ObjectTypeOK, Chunk, io
<1>12. ASSUME NEW j \in Jobs, OpenInstall(j)
      PROVE  CursorInv'
  BY <1>12 DEF OpenInstall, Install, ObjectTypeOK, Chunk, io
<1>13. ASSUME NEW j \in Jobs, ChunkWrite(j)
      PROVE  CursorInv'
  BY <1>13 DEF ChunkWrite, Goto, object, IoTypeOK
<1>14. ASSUME NEW j \in Jobs, ChunkMark(j)
      PROVE  CursorInv'
  <2> DEFINE marks == [done[j] EXCEPT ![hold[j].idx] = hold[j].body]
  <2>1. hold[j].body \in Body /\ pc[j] = "chunk_mark"
    BY <1>14 DEF ChunkMark
  <2>2. \A c \in Chunk : done[j][c] # None => marks[c] # None
    BY <2>1, BodyAssumption
  <2>3. UNCHANGED cursor /\ (UNCHANGED done \/ done' = [done EXCEPT ![j] = marks])
    BY <1>14 DEF ChunkMark
  <2>4. CursorBelowMissing'
    <3> HIDE DEF marks
    <3> QED BY <2>2, <2>3 DEF ObjectTypeOK
  <2>5. ChunkInHand'
    BY <1>14 DEF ChunkMark, Abandon, Release, Goto, IoTypeOK
  <2> QED BY <2>4, <2>5
<1>15. ASSUME NEW j \in Jobs, ChunkBroken(j)
      PROVE  CursorInv'
  BY <1>15 DEF ChunkBroken, Abandon, Release, Goto, object, IoTypeOK
<1>16. ASSUME NEW j \in Jobs, ChunkMeta(j)
      PROVE  CursorInv'
  BY <1>16 DEF ChunkMeta, Release, Goto, object, IoTypeOK
<1>17. ASSUME NEW j \in Jobs, IoFail(j)
      PROVE  CursorInv'
  BY <1>17 DEF IoFail, Release
<1>18. ASSUME NEW j \in Jobs, FinishMeta(j)
      PROVE  CursorInv'
  BY <1>18 DEF FinishMeta, Goto, object, IoTypeOK
<1>19. ASSUME NEW j \in Jobs, FinishJobs(j)
      PROVE  CursorInv'
  BY <1>19 DEF FinishJobs, Goto, object, IoTypeOK
<1>20. ASSUME NEW j \in Jobs, FinishSeal(j)
      PROVE  CursorInv'
  BY <1>20 DEF FinishSeal, Release
<1>21. ASSUME NEW j \in Jobs, FinDigest(j)
      PROVE  CursorInv'
  BY <1>21 DEF FinDigest, Goto, object, IoTypeOK
<1>22. ASSUME NEW j \in Jobs, FinMismatch(j)
      PROVE  CursorInv'
  <2>1. CASE Failable(j, hold[j].gen)
    <3>1. done' = [done EXCEPT ![j] = NoMarks] /\ cursor' = [cursor EXCEPT ![j] = 0]
      BY <1>22, <2>1 DEF FinMismatch, ResetCursor
    <3>2. \A c \in Chunk : ~ (c < 0)
      BY DEF Chunk
    <3>3. CursorBelowMissing'
      BY <3>1, <3>2 DEF ObjectTypeOK
    <3> QED BY <1>22, <3>3 DEF FinMismatch, Goto
  <2>2. CASE ~ Failable(j, hold[j].gen)
    BY <1>22, <2>2 DEF FinMismatch, Goto
  <2> QED BY <2>1, <2>2
<1>23. ASSUME NEW j \in Jobs, FinMetaFix(j)
      PROVE  CursorInv'
  BY <1>23 DEF FinMetaFix, Goto, object
<1>24. ASSUME NEW j \in Jobs, FinCommit(j)
      PROVE  CursorInv'
  BY <1>24 DEF FinCommit, Goto, object, IoTypeOK
<1>25. ASSUME NEW j \in Jobs, FinDone(j)
      PROVE  CursorInv'
  BY <1>25 DEF FinDone, Goto
<1>26. ASSUME NEW j \in Jobs, FinCleanup(j)
      PROVE  CursorInv'
  BY <1>26 DEF FinCleanup, Goto, object
<1>27. ASSUME NEW j \in Jobs, FinFail(j)
      PROVE  CursorInv'
  BY <1>27 DEF FinFail, Goto
<1>28. ASSUME NEW j \in Jobs, FinSave(j)
      PROVE  CursorInv'
  BY <1>28 DEF FinSave, Release, object
<1>29. CASE FinalizeReady
  BY <1>29 DEF FinalizeReady, io
<1>30. ASSUME NEW w \in ready, FinalizeLock(w)
      PROVE  CursorInv'
  BY <1>30 DEF FinalizeLock, object
<1>31. CASE JobRequest
  BY <1>31, <1>2, <1>3, <1>4, <1>5, <1>6, <1>7, <1>8, <1>9 DEF JobRequest
<1>32. CASE \E j \in Jobs : JobStep(j)
  BY <1>32, <1>11, <1>12, <1>13, <1>14, <1>15, <1>16, <1>17, <1>18, <1>19, <1>20, <1>21,
     <1>22, <1>23, <1>24, <1>25, <1>26, <1>27, <1>28 DEF JobStep, IoStep
<1>33. CASE Finalize
  BY <1>33, <1>29, <1>30 DEF Finalize
<1> QED BY <1>1, <1>10, <1>31, <1>32, <1>33, JobSteps

\* CursorBelowMissing: a status answer lists every chunk that is missing.
THEOREM CursorCorrect == Spec => []CursorBelowMissing
<1>1. CursorInv => CursorBelowMissing
  BY DEF CursorInv
<1> QED BY <1>1, InitType, NextType, InitCursor, NextCursor, PTL DEF Spec

-----------------------------------------------------------------------------
(* Who has a job in hand *)

\* What is captured or held belongs to this generation of the job or to an
\* earlier one.
KnownGenerations ==
    /\ \A w \in ready : w.gen <= gen[w.job]
    /\ \A j \in Jobs : pc[j] # "free" => hold[j].gen <= gen[j]

\* pause and cancel cancel the context, only resume makes a new one.
StoppedNotLive == \A j \in Jobs : status[j] \in {"paused", "canceled"} => ~ live[j]

\* While a chunk or finish handler has the job in hand no worker captures it.
Receiving == {"chunk_write", "chunk_mark", "finish_meta", "finish_jobs", "finish_seal"}
ReceivingOwns ==
    \A j \in Jobs : pc[j] \in Receiving /\ hold[j].gen = gen[j] =>
        /\ status[j] \in {"pending", "active", "error", "paused", "canceled"}
        /\ ~ Captured(j)

Ownership == KnownGenerations /\ StoppedNotLive /\ ReceivingOwns /\ FinalizeOwns

LEMMA InitOwnership == Init => Ownership
BY DEF Init, NoMemory, Ownership, KnownGenerations, StoppedNotLive, ReceivingOwns,
       FinalizeOwns, Captured

LEMMA NextOwnership == TypeOK /\ Ownership /\ [Next]_vars => Ownership'
<1> SUFFICES ASSUME TypeOK, Ownership, [Next]_vars PROVE Ownership'
  OBVIOUS
<1> USE DEF Ownership, KnownGenerations, StoppedNotLive, ReceivingOwns, Receiving,
            FinalizeOwns, InHand, Captured, FinPc
<1> USE DEF TypeOK, PullerTypeOK, ObjectTypeOK, IoTypeOK, Work
<1>1. CASE UNCHANGED <<ready, object, io>>
  BY <1>1 DEF object, io
<1>2. CASE Crash
  BY <1>2 DEF Crash
<1>3. ASSUME NEW g \in 0 .. MaxGen, NEW c \in Chunk, NEW b \in Body, AcceptChunk(g, c, b)
      PROVE  Ownership'
  BY <1>3 DEF AcceptChunk, Unsealed, puller
<1>4. ASSUME NEW g \in 0 .. MaxGen, NEW s \in Contents, Finish(g, s)
      PROVE  Ownership'
  BY <1>4 DEF Finish, Unsealed, puller
<1>5. ASSUME NEW g \in 0 .. MaxGen, FailReport(g)
      PROVE  Ownership'
  BY <1>5 DEF FailReport, FailStatus, puller, io
<1>6. CASE ReportStatus
  BY <1>6 DEF ReportStatus, puller, io
<1>7. CASE Pause
  BY <1>7 DEF Pause, io
<1>8. CASE Cancel
  BY <1>8 DEF Cancel, io
<1>9. CASE Resume
  <2>1. /\ cur \in Jobs /\ UNCHANGED <<cur, ready, pc, hold>>
        /\ gen' = [gen EXCEPT ![cur] = @ + 1]
        /\ live' = [live EXCEPT ![cur] = TRUE]
        /\ \E s \in {"verifying", "pending"} : status' = [status EXCEPT ![cur] = s]
    BY <1>9 DEF Resume, io
  <2>2. gen'[cur] = gen[cur] + 1 /\ \A j \in Jobs \ {cur} : gen'[j] = gen[j]
    BY <2>1
  <2>3. KnownGenerations'
    <3>1. \A j \in Jobs : gen[j] \in Nat /\ gen'[j] \in Nat /\ gen[j] <= gen'[j]
      BY <2>1, <2>2
    <3>2. \A w \in ready : w.job \in Jobs /\ w.gen \in Nat /\ w.gen <= gen'[w.job]
      BY <3>1
    <3>3. \A j \in Jobs : pc[j] # "free" => hold[j].gen \in Nat /\ hold[j].gen <= gen'[j]
      BY <3>1 DEF Local
    <3> QED BY <2>1, <3>2, <3>3
  <2>4. /\ \A w \in ready : w.job = cur => w.gen # gen'[cur]
        /\ pc[cur] # "free" => hold[cur].gen # gen'[cur]
    BY <2>1, <2>2
  <2>5. StoppedNotLive' /\ ReceivingOwns' /\ FinalizeOwns'
    BY <2>1, <2>2, <2>4
  <2> QED BY <2>3, <2>5
<1>10. CASE OpenCancel
  BY <1>10 DEF OpenCancel, puller, io
<1>11. ASSUME NEW j \in Jobs, OpenSkip(j)
      PROVE  Ownership'
  BY <1>11 DEF OpenSkip, Install, Spare, io
<1>12. ASSUME NEW j \in Jobs, OpenInstall(j)
      PROVE  Ownership'
  BY <1>12 DEF OpenInstall, Install, Spare, io
<1>13. ASSUME NEW j \in Jobs, ChunkWrite(j)
      PROVE  Ownership'
  BY <1>13 DEF ChunkWrite, Goto, object, puller
<1>14. ASSUME NEW j \in Jobs, ChunkMark(j)
      PROVE  Ownership'
  BY <1>14 DEF ChunkMark, Stale, Superseded, Abandon, Release, Goto, puller
<1>15. ASSUME NEW j \in Jobs, ChunkBroken(j)
      PROVE  Ownership'
  BY <1>15 DEF ChunkBroken, Abandon, Release, Goto, object, puller
<1>16. ASSUME NEW j \in Jobs, ChunkMeta(j)
      PROVE  Ownership'
  BY <1>16 DEF ChunkMeta, Release, Goto, object, puller
<1>17. ASSUME NEW j \in Jobs, IoFail(j)
      PROVE  Ownership'
  BY <1>17 DEF IoFail, FailStatus, Release, puller
<1>18. ASSUME NEW j \in Jobs, FinishMeta(j)
      PROVE  Ownership'
  BY <1>18 DEF FinishMeta, Goto, object, puller
<1>19. ASSUME NEW j \in Jobs, FinishJobs(j)
      PROVE  Ownership'
  BY <1>19 DEF FinishJobs, Goto, object, puller
<1>20. ASSUME NEW j \in Jobs, FinishSeal(j)
      PROVE  Ownership'
  BY <1>20 DEF FinishSeal, Superseded, Release, puller
<1>21. ASSUME NEW j \in Jobs, FinDigest(j)
      PROVE  Ownership'
  BY <1>21 DEF FinDigest, Goto, object, puller
<1>22. ASSUME NEW j \in Jobs, FinMismatch(j)
      PROVE  Ownership'
  BY <1>22 DEF FinMismatch, FailStatus, Goto, puller
<1>23. ASSUME NEW j \in Jobs, FinMetaFix(j)
      PROVE  Ownership'
  BY <1>23 DEF FinMetaFix, Goto, object, puller
<1>24. ASSUME NEW j \in Jobs, FinCommit(j)
      PROVE  Ownership'
  BY <1>24 DEF FinCommit, Goto, object, puller
<1>25. ASSUME NEW j \in Jobs, FinDone(j)
      PROVE  Ownership'
  BY <1>25 DEF FinDone, Goto, puller
<1>26. ASSUME NEW j \in Jobs, FinCleanup(j)
      PROVE  Ownership'
  BY <1>26 DEF FinCleanup, Goto, object, puller
<1>27. ASSUME NEW j \in Jobs, FinFail(j)
      PROVE  Ownership'
  BY <1>27 DEF FinFail, FailStatus, Goto, puller
<1>28. ASSUME NEW j \in Jobs, FinSave(j)
      PROVE  Ownership'
  BY <1>28 DEF FinSave, Release, object, puller
<1>29. CASE FinalizeReady
  BY <1>29 DEF FinalizeReady, io
<1>30. ASSUME NEW w \in ready, FinalizeLock(w)
      PROVE  Ownership'
  BY <1>30 DEF FinalizeLock, object
<1>31. CASE JobRequest
  BY <1>31, <1>2, <1>3, <1>4, <1>5, <1>6, <1>7, <1>8, <1>9 DEF JobRequest
<1>32. CASE \E j \in Jobs : JobStep(j)
  BY <1>32, <1>11, <1>12, <1>13, <1>14, <1>15, <1>16, <1>17, <1>18, <1>19, <1>20, <1>21,
     <1>22, <1>23, <1>24, <1>25, <1>26, <1>27, <1>28 DEF JobStep, IoStep
<1>33. CASE Finalize
  BY <1>33, <1>29, <1>30 DEF Finalize
<1> QED BY <1>1, <1>10, <1>31, <1>32, <1>33, JobSteps

\* FinalizeOwns: one worker at most has the current generation of a job.
THEOREM FinalizeOwnsCorrect == Spec => []FinalizeOwns
<1>1. Ownership => FinalizeOwns
  BY DEF Ownership
<1> QED BY <1>1, InitType, NextType, InitOwnership, NextOwnership, PTL DEF Spec

-----------------------------------------------------------------------------
(* What was overtaken has no effect *)

LEMMA NextStaysStopped == TypeOK /\ Ownership /\ [Next]_vars => StaysStopped
<1> SUFFICES ASSUME TypeOK, Ownership, [Next]_vars PROVE StaysStopped
  OBVIOUS
<1> USE DEF StaysStopped, Ownership, TypeOK, PullerTypeOK, ObjectTypeOK
<1>1. CASE UNCHANGED <<ready, object, io>>
  BY <1>1 DEF object
<1>2. CASE Crash
  BY <1>2, JobsAssumption DEF Crash
<1>3. ASSUME NEW g \in 0 .. MaxGen, NEW c \in Chunk, NEW b \in Body, AcceptChunk(g, c, b)
      PROVE  StaysStopped
  BY <1>3 DEF AcceptChunk, Unsealed
<1>4. ASSUME NEW g \in 0 .. MaxGen, NEW s \in Contents, Finish(g, s)
      PROVE  StaysStopped
  BY <1>4 DEF Finish
<1>5. ASSUME NEW g \in 0 .. MaxGen, FailReport(g)
      PROVE  StaysStopped
  BY <1>5 DEF FailReport, Failable
<1>6. CASE ReportStatus
  BY <1>6 DEF ReportStatus
<1>7. CASE Pause
  BY <1>7 DEF Pause
<1>8. CASE Cancel
  BY <1>8 DEF Cancel
<1>9. CASE Resume
  BY <1>9 DEF Resume
<1>10. CASE OpenCancel
  BY <1>10 DEF OpenCancel
<1>11. ASSUME NEW j \in Jobs, OpenSkip(j)
      PROVE  StaysStopped
  BY <1>11 DEF OpenSkip, Install, Spare
<1>12. ASSUME NEW j \in Jobs, OpenInstall(j)
      PROVE  StaysStopped
  BY <1>12 DEF OpenInstall, Install, Spare
<1>13. ASSUME NEW j \in Jobs, ChunkWrite(j)
      PROVE  StaysStopped
  BY <1>13 DEF ChunkWrite, object
<1>14. ASSUME NEW j \in Jobs, ChunkMark(j)
      PROVE  StaysStopped
  BY <1>14 DEF ChunkMark, Stale, Superseded, StoppedNotLive, ReceivingOwns, Receiving
<1>15. ASSUME NEW j \in Jobs, ChunkBroken(j)
      PROVE  StaysStopped
  BY <1>15 DEF ChunkBroken, object
<1>16. ASSUME NEW j \in Jobs, ChunkMeta(j)
      PROVE  StaysStopped
  BY <1>16 DEF ChunkMeta, object
<1>17. ASSUME NEW j \in Jobs, IoFail(j)
      PROVE  StaysStopped
  BY <1>17 DEF IoFail, FailStatus, Failable
<1>18. ASSUME NEW j \in Jobs, FinishMeta(j)
      PROVE  StaysStopped
  BY <1>18 DEF FinishMeta, object
<1>19. ASSUME NEW j \in Jobs, FinishJobs(j)
      PROVE  StaysStopped
  BY <1>19 DEF FinishJobs, object
<1>20. ASSUME NEW j \in Jobs, FinishSeal(j)
      PROVE  StaysStopped
  BY <1>20 DEF FinishSeal, Superseded, StoppedNotLive, ReceivingOwns, Receiving
<1>21. ASSUME NEW j \in Jobs, FinDigest(j)
      PROVE  StaysStopped
  BY <1>21 DEF FinDigest, object
<1>22. ASSUME NEW j \in Jobs, FinMismatch(j)
      PROVE  StaysStopped
  BY <1>22 DEF FinMismatch, FailStatus, Failable
<1>23. ASSUME NEW j \in Jobs, FinMetaFix(j)
      PROVE  StaysStopped
  BY <1>23 DEF FinMetaFix, object
<1>24. ASSUME NEW j \in Jobs, FinCommit(j)
      PROVE  StaysStopped
  BY <1>24 DEF FinCommit, object
<1>25. ASSUME NEW j \in Jobs, FinDone(j)
      PROVE  StaysStopped
  BY <1>25 DEF FinDone
<1>26. ASSUME NEW j \in Jobs, FinCleanup(j)
      PROVE  StaysStopped
  BY <1>26 DEF FinCleanup, object
<1>27. ASSUME NEW j \in Jobs, FinFail(j)
      PROVE  StaysStopped
  BY <1>27 DEF FinFail, FailStatus, Failable
<1>28. ASSUME NEW j \in Jobs, FinSave(j)
      PROVE  StaysStopped
  BY <1>28 DEF FinSave, object
<1>29. CASE FinalizeReady
  BY <1>29 DEF FinalizeReady
<1>30. ASSUME NEW w \in ready, FinalizeLock(w)
      PROVE  StaysStopped
  BY <1>30 DEF FinalizeLock, object
<1>31. CASE JobRequest
  BY <1>31, <1>2, <1>3, <1>4, <1>5, <1>6, <1>7, <1>8, <1>9 DEF JobRequest
<1>32. CASE \E j \in Jobs : JobStep(j)
  BY <1>32, <1>11, <1>12, <1>13, <1>14, <1>15, <1>16, <1>17, <1>18, <1>19, <1>20, <1>21,
     <1>22, <1>23, <1>24, <1>25, <1>26, <1>27, <1>28 DEF JobStep, IoStep
<1>33. CASE Finalize
  BY <1>33, <1>29, <1>30 DEF Finalize
<1> QED BY <1>1, <1>10, <1>31, <1>32, <1>33, JobSteps

\* NoLateEffect: a stopped job stays stopped until it is resumed or replaced.
THEOREM LateStepsHaveNoEffect == Spec => NoLateEffect
<1>1. TypeOK /\ Ownership /\ [Next]_vars => [StaysStopped]_vars
  BY NextStaysStopped
<1> QED BY <1>1, InitType, NextType, InitOwnership, NextOwnership, PTL
     DEF Spec, NoLateEffect

-----------------------------------------------------------------------------
(* What is published is verified *)

\* Before restoreOnce there is no job and no open.
NothingYet ==
    phase \in {"down", "fresh"} => cur = None /\ queued = None /\ op \in {"idle", "clean"}

\* An open that has decided to replace a job: the job is settled and stays it,
\* canceled before the barrier, and past the barrier nobody writes its part.
OpenerHolds ==
    /\ op \in {"idle", "clean"} => opPrev = None
    /\ op \in {"cancel", "barrier", "load", "create", "install"} =>
          /\ opPrev = cur
          /\ cur # None => status[cur] \in Settled
    /\ op \in {"barrier", "load", "create", "install"} /\ cur # None => ~ live[cur]
    /\ op \in {"load", "create", "install"} /\ cur # None => pc[cur] # "chunk_write"

\* A replaced job is canceled, and its chunk writes are over.
CurrentOnly == \A j \in Jobs : live[j] \/ pc[j] = "chunk_write" => j = cur

\* Between the digest and the commit the part file stays what it was, or goes.
VerifiedPart ==
    \A j \in Jobs : pc[j] = "fin_commit" /\ gen[j] = hold[j].gen /\ live[j] =>
        part[PartOf(j)] \in {None, sha[j]}

Publication == NothingYet /\ OpenerHolds /\ CurrentOnly /\ VerifiedPart

LEMMA InitPublication == Init => Publication
BY DEF Init, NoMemory, Publication, NothingYet, OpenerHolds, CurrentOnly, VerifiedPart

LEMMA NextPublication ==
    ASSUME "resume_in_queue" \notin Races, TypeOK, Ownership, Publication, [Next]_vars
    PROVE  Publication'
<1> USE DEF Publication, NothingYet, OpenerHolds, CurrentOnly, VerifiedPart, PartOf
<1> USE DEF TypeOK, PullerTypeOK, ObjectTypeOK, IoTypeOK, OpenerTypeOK
<1>1. CASE Acquire
  BY <1>1 DEF Acquire, object, io, opener, disk
<1>2. CASE Crash
  BY <1>2 DEF Crash
<1>3. ASSUME NEW m \in Offers, Open(m)
      PROVE  Publication'
  <2>1. CASE cur # None /\ Busy(m)
    BY <1>3, <2>1 DEF Open, BeginOpen, object, io, disk
  <2>2. CASE ~ (cur # None /\ Busy(m))
    BY <1>3, <2>2 DEF Open, BeginOpen, Busy, object, io, disk
  <2> QED BY <2>1, <2>2
<1>4. ASSUME NEW m \in Offers, Start(m)
      PROVE  Publication'
  BY <1>4 DEF Start, object, io, opener, disk
<1>5. ASSUME NEW g \in 0 .. MaxGen, NEW c \in Chunk, NEW b \in Body, AcceptChunk(g, c, b)
      PROVE  Publication'
  BY <1>5 DEF AcceptChunk, puller, opener, Unsealed, Settled
<1>6. ASSUME NEW g \in 0 .. MaxGen, NEW s \in Contents, Finish(g, s)
      PROVE  Publication'
  BY <1>6 DEF Finish, puller, opener
<1>7. ASSUME NEW g \in 0 .. MaxGen, FailReport(g)
      PROVE  Publication'
  BY <1>7 DEF FailReport, Failable, puller, io, opener, disk, Settled
<1>8. CASE ReportStatus
  BY <1>8 DEF ReportStatus, puller, io, opener, disk
<1>9. CASE ControlNothing
  BY <1>9 DEF ControlNothing, object, io, opener, disk
<1>10. CASE Pause
  BY <1>10 DEF Pause, io, opener, Settled
<1>11. CASE Cancel
  BY <1>11 DEF Cancel, io, opener, Settled
<1>12. CASE Resume
  <2>1. /\ cur \in Jobs /\ op \in {"idle", "clean"}
        /\ UNCHANGED <<phase, cur, queued, op, opPrev, pc, hold, man, sha>>
        /\ gen' = [gen EXCEPT ![cur] = @ + 1]
        /\ live' = [live EXCEPT ![cur] = TRUE]
    BY <1>12 DEF Resume, io
  <2>2. ~ (pc[cur] # "free" /\ gen'[cur] = hold[cur].gen)
    <3>1. gen'[cur] = gen[cur] + 1 /\ gen[cur] \in Nat /\ hold[cur].gen \in Nat
      BY <2>1 DEF Local
    <3>2. pc[cur] # "free" => hold[cur].gen <= gen[cur]
      BY <2>1 DEF Ownership, KnownGenerations
    <3> QED BY <3>1, <3>2
  <2>3. VerifiedPart'
    BY <2>1, <2>2
  <2> QED BY <2>1, <2>3
<1>13. CASE CleanSnapshot
  BY <1>13 DEF CleanSnapshot, puller, object, io, disk
<1>14. CASE StartQueued
  <2>1. CASE cur # None /\ Busy(queued)
    BY <1>14, <2>1 DEF StartQueued, BeginOpen, EndOpen, object, io, disk
  <2>2. CASE ~ (cur # None /\ Busy(queued))
    BY <1>14, <2>2 DEF StartQueued, BeginOpen, Busy, object, io, disk
  <2> QED BY <2>1, <2>2
<1>15. CASE Restore
  BY <1>15 DEF Restore, object, io, disk
<1>16. CASE OpenCancel
  BY <1>16 DEF OpenCancel, Advance, puller, io
<1>17. CASE OpenBarrier
  BY <1>17 DEF OpenBarrier, BarrierOpen, Advance, puller, object, io
<1>18. CASE OpenLoad
  BY <1>18 DEF OpenLoad, puller, object, io, disk
<1>19. CASE OpenCreate
  BY <1>19, JobsAssumption DEF OpenCreate, Advance, puller, object, io
<1>20. CASE OpenRefused
  BY <1>20, JobsAssumption DEF OpenRefused, EndOpen, object, io
<1>21. CASE OpenSave
  BY <1>21 DEF OpenSave, EndOpen, object, io
<1>22. ASSUME NEW j \in Jobs, OpenSkip(j)
      PROVE  Publication'
  BY <1>22, JobsAssumption DEF OpenSkip, Install, Spare, EndOpen, io
<1>23. ASSUME NEW j \in Jobs, OpenInstall(j)
      PROVE  Publication'
  BY <1>23, JobsAssumption DEF OpenInstall, Install, Spare, io
<1>24. CASE CleanRemove
  BY <1>24, PartOfKey DEF CleanRemove, object, io
<1>25. ASSUME NEW j \in Jobs, ChunkWrite(j)
      PROVE  Publication'
  BY <1>25 DEF ChunkWrite, Goto, puller, object, opener
<1>26. ASSUME NEW j \in Jobs, ChunkMark(j)
      PROVE  Publication'
  BY <1>26
     DEF ChunkMark, Stale, Superseded, Abandon, Release, Goto, puller, opener, disk,
         Ownership, StoppedNotLive, ReceivingOwns, Receiving, Settled
<1>27. ASSUME NEW j \in Jobs, ChunkBroken(j)
      PROVE  Publication'
  BY <1>27 DEF ChunkBroken, Abandon, Release, Goto, puller, object, opener, disk
<1>28. ASSUME NEW j \in Jobs, ChunkMeta(j)
      PROVE  Publication'
  BY <1>28 DEF ChunkMeta, Release, Goto, puller, object, opener
<1>29. ASSUME NEW j \in Jobs, IoFail(j)
      PROVE  Publication'
  BY <1>29 DEF IoFail, FailStatus, Failable, Release, puller, opener, disk, Settled
<1>30. ASSUME NEW j \in Jobs, FinishMeta(j)
      PROVE  Publication'
  BY <1>30 DEF FinishMeta, Goto, puller, object, opener
<1>31. ASSUME NEW j \in Jobs, FinishJobs(j)
      PROVE  Publication'
  BY <1>31 DEF FinishJobs, Goto, puller, object, opener
<1>32. ASSUME NEW j \in Jobs, FinishSeal(j)
      PROVE  Publication'
  BY <1>32
     DEF FinishSeal, Superseded, Release, puller, opener, disk, Ownership, StoppedNotLive,
         ReceivingOwns, Receiving, Settled
<1>33. ASSUME NEW j \in Jobs, FinDigest(j)
      PROVE  Publication'
  BY <1>33 DEF FinDigest, DigestOK, Goto, puller, object, opener, disk
<1>34. ASSUME NEW j \in Jobs, FinMismatch(j)
      PROVE  Publication'
  BY <1>34 DEF FinMismatch, FailStatus, Failable, Goto, puller, opener, disk, Settled
<1>35. ASSUME NEW j \in Jobs, FinMetaFix(j)
      PROVE  Publication'
  BY <1>35 DEF FinMetaFix, Goto, puller, object, opener
<1>36. ASSUME NEW j \in Jobs, FinCommit(j)
      PROVE  Publication'
  BY <1>36, PartOfKey DEF FinCommit, Publish, Goto, puller, object, opener, DiskTypeOK
<1>37. ASSUME NEW j \in Jobs, FinDone(j)
      PROVE  Publication'
  BY <1>37 DEF FinDone, Goto, puller, opener, disk, Settled
<1>38. ASSUME NEW j \in Jobs, FinCleanup(j)
      PROVE  Publication'
  BY <1>38 DEF FinCleanup, Goto, puller, object, opener
<1>39. ASSUME NEW j \in Jobs, FinFail(j)
      PROVE  Publication'
  BY <1>39 DEF FinFail, FailStatus, Failable, Goto, puller, opener, disk, Settled
<1>40. ASSUME NEW j \in Jobs, FinSave(j)
      PROVE  Publication'
  BY <1>40 DEF FinSave, Release, puller, object, opener
<1>41. CASE FinalizeReady
  BY <1>41 DEF FinalizeReady, io, opener, disk, Settled
<1>42. ASSUME NEW w \in ready, FinalizeLock(w)
      PROVE  Publication'
  BY <1>42 DEF FinalizeLock, object, opener, disk
<1>43. CASE ControlSave
  BY <1>43 DEF ControlSave, object, io, opener
<1>44. CASE UNCHANGED vars
  BY <1>44 DEF vars, puller, object, io, opener, disk
<1>45. CASE Request
  BY <1>45, RequestBodies, <1>1, <1>2, <1>3, <1>4, <1>5, <1>6, <1>7, <1>8, <1>9, <1>10,
     <1>11, <1>12, <1>13 DEF JobRequest
<1>46. CASE OpenStep
  BY <1>46, <1>14, <1>15, <1>16, <1>17, <1>18, <1>19, <1>20, <1>21, <1>22, <1>23, <1>24
     DEF OpenStep
<1>47. CASE \E j \in Jobs : IoStep(j)
  BY <1>47, <1>25, <1>26, <1>27, <1>28, <1>29, <1>30, <1>31, <1>32, <1>33, <1>34, <1>35,
     <1>36, <1>37, <1>38, <1>39, <1>40 DEF IoStep
<1>48. CASE Finalize \/ ControlSave
  BY <1>48, <1>41, <1>42, <1>43 DEF Finalize
<1> QED BY <1>44, <1>45, <1>46, <1>47, <1>48 DEF Next, Internal

-----------------------------------------------------------------------------
(* The theorems about the destination *)

\* Only a commit changes the destination, only an open changes the job.
LEMMA CommitSteps ==
    ASSUME [Next]_vars
    PROVE  UNCHANGED files \/ \E j \in Jobs : FinCommit(j)
<1>1. CASE Request
  BY <1>1
     DEF Request, Acquire, Crash, Open, Start, AcceptChunk, Finish, FailReport,
         ReportStatus, ControlNothing, Pause, Cancel, Resume, CleanSnapshot, disk
<1>2. CASE OpenStep
  BY <1>2
     DEF OpenStep, StartQueued, Restore, OpenCancel, OpenBarrier, OpenLoad, OpenCreate,
         OpenRefused, OpenSave, OpenSkip, OpenInstall, CleanRemove, disk
<1>3. ASSUME NEW j \in Jobs, IoStep(j), ~ FinCommit(j) PROVE UNCHANGED files
  BY <1>3
     DEF IoStep, ChunkWrite, ChunkMark, ChunkBroken, ChunkMeta, IoFail, FinishMeta,
         FinishJobs, FinishSeal, FinDigest, FinMismatch, FinMetaFix, FinDone, FinCleanup,
         FinFail, FinSave, disk
<1>4. CASE Finalize \/ ControlSave
  BY <1>4 DEF Finalize, FinalizeReady, FinalizeLock, ControlSave, disk
<1>5. CASE UNCHANGED vars
  BY <1>5 DEF vars, disk
<1> QED BY <1>1, <1>2, <1>3, <1>4, <1>5 DEF Next, Internal

LEMMA InstallSteps ==
    ASSUME [Next]_vars
    PROVE  \/ UNCHANGED cur \/ cur' = None
           \/ op \in {"load", "install"}
<1>1. CASE Request
  BY <1>1
     DEF Request, Acquire, Crash, Open, Start, AcceptChunk, Finish, FailReport,
         ReportStatus, ControlNothing, Pause, Cancel, Resume, CleanSnapshot, puller
<1>2. CASE OpenStep
  BY <1>2
     DEF OpenStep, StartQueued, Restore, OpenCancel, OpenBarrier, OpenLoad, OpenCreate,
         OpenRefused, OpenSave, OpenSkip, OpenInstall, CleanRemove, puller
<1>3. ASSUME NEW j \in Jobs, IoStep(j) PROVE UNCHANGED cur
  BY <1>3
     DEF IoStep, ChunkWrite, ChunkMark, ChunkBroken, ChunkMeta, IoFail, FinishMeta,
         FinishJobs, FinishSeal, FinDigest, FinMismatch, FinMetaFix, FinCommit, FinDone,
         FinCleanup, FinFail, FinSave, puller
<1>4. CASE Finalize \/ ControlSave
  BY <1>4 DEF Finalize, FinalizeReady, FinalizeLock, ControlSave
<1>5. CASE UNCHANGED vars
  BY <1>5 DEF vars, puller
<1> QED BY <1>1, <1>2, <1>3, <1>4, <1>5 DEF Next, Internal

LEMMA CommitPublishesVerified ==
    ASSUME TypeOK, Publication, NEW j \in Jobs, FinCommit(j), ~ UNCHANGED files
    PROVE  PublishesVerified
<1> DEFINE k == PartOf(j)
<1>1. /\ pc[j] = "fin_commit" /\ MayCommit(j) /\ part[k] # None
      /\ \/ /\ files # <<>>
            /\ files' = [files EXCEPT ![1] = part[k]]
         \/ files' = Append(files, part[k])
  BY DEF FinCommit, Publish
<1>2. /\ gen[j] = hold[j].gen /\ live[j] /\ j = cur
      /\ status[j] \notin {"paused", "canceled"} /\ part[k] = sha[j]
  BY <1>1 DEF MayCommit, Superseded, Publication, CurrentOnly, VerifiedPart
<1>3. VerifiedFile(part[k])
  BY <1>1, <1>2 DEF VerifiedFile
<1> HIDE DEF k
<1>4. files \in Seq(Bytes \cup {Foreign}) /\ part[k] \in Bytes \cup {Foreign}
  BY <1>1, PartOfKey DEF TypeOK, DiskTypeOK, k
<1>5. CASE files # <<>> /\ files' = [files EXCEPT ![1] = part[k]]
  <2>1. Len(files') = Len(files) /\ 1 \in 1 .. Len(files)
    BY <1>4, <1>5
  <2>2. \A i \in 1 .. Len(files) : files'[i] # files[i] => files'[i] = part[k]
    BY <1>4, <1>5, <2>1
  <2>3. Len(files) \in Nat
    BY <1>4
  <2> QED BY <1>3, <2>1, <2>2, <2>3 DEF PublishesVerified
<1>6. CASE files' = Append(files, part[k])
  <2>1. /\ Len(files') = Len(files) + 1
        /\ \A i \in 1 .. Len(files) : files'[i] = files[i]
        /\ files'[Len(files) + 1] = part[k]
    BY <1>4, <1>6
  <2>2. Len(files) \in Nat
    BY <1>4
  <2>3. \A i \in 1 .. Len(files') : i \in 1 .. Len(files) \/ i = Len(files) + 1
    BY <2>1, <2>2
  <2> QED BY <1>3, <2>1, <2>2, <2>3 DEF PublishesVerified
<1> QED BY <1>1, <1>5, <1>6

\* PublishedVerified: as long as no job is resumed while an open is about to
\* replace it, whatever else interleaves with the verification of a file
\* (crashes and failing file operations included), only the content it verified
\* reaches the destination.
THEOREM PublicationVerified ==
    ASSUME "resume_in_queue" \notin Races
    PROVE  Spec => PublishedVerified
<1>1. TypeOK /\ Ownership /\ Publication /\ [Next]_vars => [PublishesVerified]_files
  BY CommitSteps, CommitPublishesVerified
<1>2. TypeOK /\ Ownership /\ Publication /\ [Next]_vars => Publication'
  BY NextPublication
<1> QED
  BY <1>1, <1>2, InitType, NextType, InitOwnership, NextOwnership, InitPublication, PTL
     DEF Spec, PublishedVerified

\* ReplacesOnlySettled: under the same assumption, a new version of the path
\* never takes over from a job that could still be published.
THEOREM ReplacementSettled ==
    ASSUME "resume_in_queue" \notin Races
    PROVE  Spec => ReplacesOnlySettled
<1>1. TypeOK /\ Ownership /\ Publication /\ [Next]_vars => [ReplacesSettled]_cur
  BY InstallSteps DEF Publication, OpenerHolds, ReplacesSettled
<1>2. TypeOK /\ Ownership /\ Publication /\ [Next]_vars => Publication'
  BY NextPublication
<1> QED
  BY <1>1, <1>2, InitType, NextType, InitOwnership, NextOwnership, InitPublication, PTL
     DEF Spec, ReplacesOnlySettled
=============================================================================
