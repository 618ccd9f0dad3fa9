------------------------- MODULE PullReceiverProofs -------------------------
(***************************************************************************)
(* Proofs about PullReceiver, for every value of its constants.              *)
(***************************************************************************)
EXTENDS PullReceiver, SequenceTheorems, TLAPS

-----------------------------------------------------------------------------
(* Types *)

\* A group of variables that a step leaves alone keeps its types.
LEMMA TypeFrames ==
    /\ PullerTypeOK /\ UNCHANGED puller => PullerTypeOK'
    /\ JobTypeOK /\ UNCHANGED job => JobTypeOK'
    /\ PoolTypeOK /\ UNCHANGED pool => PoolTypeOK'
    /\ DiskTypeOK /\ UNCHANGED disk => DiskTypeOK'
<1>1. PullerTypeOK /\ UNCHANGED puller => PullerTypeOK'
  BY DEF PullerTypeOK, puller
<1>2. JobTypeOK /\ UNCHANGED job => JobTypeOK'
  BY DEF JobTypeOK, job
<1>3. PoolTypeOK /\ UNCHANGED pool => PoolTypeOK'
  BY DEF PoolTypeOK, pool
<1>4. DiskTypeOK /\ UNCHANGED disk => DiskTypeOK'
  BY DEF DiskTypeOK, disk
<1> QED BY <1>1, <1>2, <1>3, <1>4

LEMMA ClockType == ASSUME UpdateClock PROVE clock' \in BOOLEAN
BY DEF UpdateClock

LEMMA QueueType == ASSUME queue \in BOOLEAN, SaveJobs PROVE queue' \in BOOLEAN
<1>1. CASE phase = "restoring"
  BY <1>1 DEF SaveJobs
<1>2. CASE phase # "restoring"
  <2>1. queue' = (status \notin Settled \cup {"none"})
    BY <1>2 DEF SaveJobs
  <2> QED BY <2>1
<1> QED BY <1>1, <1>2

LEMMA FailType ==
    ASSUME status \in Status, NEW w, FailJob(w)
    PROVE  status' \in Status /\ clock' \in BOOLEAN
<1>1. status' \in Status
  BY DEF FailJob, Status
<1>2. clock' \in BOOLEAN
  BY ClockType DEF FailJob
<1> QED BY <1>1, <1>2

LEMMA GotoType ==
    ASSUME PoolTypeOK, NEW w \in Workers, NEW label \in Pc, Goto(w, label),
           label \in {"write", "mark", "broken"} => work[w].idx \in Chunk,
           label # "fetch"
    PROVE  PoolTypeOK'
BY DEF PoolTypeOK, Goto

LEMMA StoredType ==
    /\ None \in Stored /\ \A S \in SUBSET Chunk : S \in Stored
    /\ \A S \in Stored : S # None => S \subseteq Chunk
<1>1. None \in Stored /\ \A S \in SUBSET Chunk : S \in Stored
  BY DEF Stored
<1>2. ASSUME NEW S \in Stored, S # None PROVE S \subseteq Chunk
  BY <1>2 DEF Stored
<1> QED BY <1>1, <1>2

LEMMA PcType ==
    /\ {"idle", "fetch", "scan", "claimed", "exited"} \subseteq Pc
    /\ Fetched \subseteq Pc /\ Final \subseteq Pc
BY DEF Pc, Holding

LEMMA LoadedType == DiskTypeOK => Loaded \subseteq Chunk
BY StoredType DEF DiskTypeOK, Loaded

LEMMA LimitType == Limit \in Nat /\ Limit' = Limit
BY RetryAssumption DEF Limit

LEMMA TypeStep ==
    ASSUME TypeOK, [Next]_vars
    PROVE  TypeOK'
<1>1. CASE UNCHANGED vars
  BY <1>1 DEF TypeOK, PullerTypeOK, JobTypeOK, PoolTypeOK, DiskTypeOK, vars, puller,
     job, pool, disk
<1>2. CASE Crash
  <2>1. PullerTypeOK'
    BY <1>2 DEF TypeOK, Crash, PullerTypeOK, puller
  <2>2. JobTypeOK'
    BY <1>2 DEF TypeOK, Crash, JobTypeOK, Status, job
  <2>3. PoolTypeOK'
    BY <1>2, PcType DEF TypeOK, Crash, PoolTypeOK, Fetched, Final, JobTypeOK, NoWork,
       pool
  <2> QED BY <1>2, <2>1, <2>2, <2>3, TypeFrames DEF TypeOK, Crash, Event, puller, job,
     pool, disk
<1>3. CASE Acquire
  <2>1. PullerTypeOK'
    BY <1>3 DEF TypeOK, Acquire, PullerTypeOK, puller
  <2> QED BY <1>3, <2>1, TypeFrames DEF TypeOK, Acquire, puller, job, pool, disk
<1>4. CASE Reconnect
  <2>1. PullerTypeOK'
    BY <1>4 DEF TypeOK, Reconnect, PullerTypeOK, puller
  <2> QED BY <1>4, <2>1, TypeFrames DEF TypeOK, Reconnect, puller, job, pool, disk
<1>5. CASE Close
  <2>1. PullerTypeOK'
    BY <1>5 DEF TypeOK, Close, PullerTypeOK, puller
  <2> QED BY <1>5, <2>1, TypeFrames DEF TypeOK, Close, puller, job, pool, disk
<1>6. CASE Open
  <2>1. PullerTypeOK'
    BY <1>6 DEF TypeOK, Open, BeginOpen, PullerTypeOK, puller
  <2> QED BY <1>6, <2>1, TypeFrames DEF TypeOK, Open, BeginOpen, puller, job, pool, disk
<1>7. CASE ControlNothing
  <2>1. PullerTypeOK'
    BY <1>7 DEF TypeOK, ControlNothing, Controllable, PullerTypeOK, puller
  <2> QED BY <1>7, <2>1, TypeFrames DEF TypeOK, ControlNothing, Controllable, puller,
     job, pool, disk
<1>8. CASE Pause
  <2>1. PullerTypeOK'
    BY <1>8, ClockType DEF TypeOK, Pause, Stop, Controllable, PullerTypeOK, puller
  <2>2. JobTypeOK'
    BY <1>8 DEF TypeOK, Pause, Stop, Controllable, JobTypeOK, Status, job
  <2> QED BY <1>8, <2>1, <2>2, TypeFrames DEF TypeOK, Pause, Stop, Controllable, Event,
     puller, job, pool, disk
<1>9. CASE Cancel
  <2>1. PullerTypeOK'
    BY <1>9, ClockType DEF TypeOK, Cancel, Stop, Controllable, PullerTypeOK, puller
  <2>2. JobTypeOK'
    BY <1>9 DEF TypeOK, Cancel, Stop, Controllable, JobTypeOK, Status, job
  <2> QED BY <1>9, <2>1, <2>2, TypeFrames DEF TypeOK, Cancel, Stop, Controllable,
     Event, puller, job, pool, disk
<1>10. CASE Resume
  <2>1. PullerTypeOK'
    BY <1>10, ClockType DEF TypeOK, Resume, Controllable, Kept, RetriesAfterResume,
       PullerTypeOK, puller
  <2>2. JobTypeOK'
    <3>1. done' \subseteq Chunk
      BY <1>10, StoredType DEF TypeOK, Resume, Kept, JobTypeOK
    <3>2. status' \in Status
      BY <1>10 DEF Resume, Status
    <3>3. gen' \in Nat /\ errs' \in Nat /\ retries' \in Nat /\ strikes' \in Nat
      BY <1>10 DEF Resume, RetriesAfterResume, TypeOK, JobTypeOK
    <3>4. live' \in BOOLEAN /\ backoff' \in BOOLEAN /\ inflight' \subseteq Chunk
      BY <1>10 DEF Resume, RetriesAfterResume
    <3> QED BY <3>1, <3>2, <3>3, <3>4 DEF JobTypeOK
  <2>3. DiskTypeOK'
    BY <1>10, StoredType DEF TypeOK, Resume, Controllable, Kept, RetriesAfterResume,
       DiskTypeOK, disk, JobTypeOK, PoolTypeOK
  <2> QED BY <1>10, <2>1, <2>2, <2>3, TypeFrames DEF TypeOK, Resume, Controllable,
     puller, job, pool, disk
<1>11. CASE Clean
  <2>1. PullerTypeOK'
    BY <1>11 DEF TypeOK, Clean, Busy, PullerTypeOK, puller
  <2> QED BY <1>11, <2>1, TypeFrames DEF TypeOK, Clean, Event, puller, job, pool, disk
<1>12. CASE ControlSave
  <2>1. PullerTypeOK'
    BY <1>12 DEF TypeOK, ControlSave, PullerTypeOK, puller
  <2>2. DiskTypeOK'
    BY <1>12, QueueType, StoredType DEF TypeOK, ControlSave, DiskTypeOK, disk,
       JobTypeOK, PoolTypeOK
  <2> QED BY <1>12, <2>1, <2>2, TypeFrames DEF TypeOK, ControlSave, Works, Fails,
     Event, puller, job, pool, disk
<1>13. CASE Restore
  <2>1. PullerTypeOK'
    BY <1>13 DEF TypeOK, Restore, BeginOpen, PullerTypeOK, puller
  <2> QED BY <1>13, <2>1, TypeFrames DEF TypeOK, Restore, BeginOpen, puller, job, pool,
     disk
<1>14. CASE OpenBarrier
  <2>1. PullerTypeOK'
    BY <1>14 DEF TypeOK, OpenBarrier, PullerTypeOK, puller
  <2>2. JobTypeOK'
    BY <1>14 DEF TypeOK, OpenBarrier, JobTypeOK, Status, job
  <2> QED BY <1>14, <2>1, <2>2, TypeFrames DEF TypeOK, OpenBarrier, puller, job, pool,
     disk
<1>15. CASE OpenBuild
  <2>1. PullerTypeOK'
    BY <1>15, ClockType DEF TypeOK, OpenBuild, Loaded, PullerTypeOK, puller
  <2>2. JobTypeOK'
    <3>1. done' \subseteq Chunk
      BY <1>15, LoadedType DEF TypeOK, OpenBuild
    <3>2. status' \in Status
      BY <1>15 DEF OpenBuild, Status
    <3>3. gen' \in Nat /\ errs' \in Nat /\ retries' \in Nat /\ strikes' \in Nat
      BY <1>15 DEF OpenBuild, TypeOK, JobTypeOK
    <3>4. live' \in BOOLEAN /\ backoff' \in BOOLEAN /\ inflight' \subseteq Chunk
      BY <1>15 DEF OpenBuild
    <3> QED BY <3>1, <3>2, <3>3, <3>4 DEF JobTypeOK
  <2>3. DiskTypeOK'
    BY <1>15, StoredType DEF TypeOK, OpenBuild, Loaded, DiskTypeOK, disk, JobTypeOK,
       PoolTypeOK
  <2> QED BY <1>15, <2>1, <2>2, <2>3, TypeFrames DEF TypeOK, OpenBuild, Works, puller,
     job, pool, disk
<1>16. CASE OpenRefused
  <2>1. PullerTypeOK'
    BY <1>16 DEF TypeOK, OpenRefused, EndOpen, PullerTypeOK, puller
  <2> QED BY <1>16, <2>1, TypeFrames DEF TypeOK, OpenRefused, Fails, Event, EndOpen,
     puller, job, pool, disk
<1>17. CASE OpenSave
  <2>1. PullerTypeOK'
    BY <1>17 DEF TypeOK, OpenSave, EndOpen, PullerTypeOK, puller
  <2>2. DiskTypeOK'
    BY <1>17, QueueType, StoredType DEF TypeOK, OpenSave, EndOpen, DiskTypeOK, disk,
       JobTypeOK, PoolTypeOK
  <2> QED BY <1>17, <2>1, <2>2, TypeFrames DEF TypeOK, OpenSave, Works, Fails, Event,
     EndOpen, puller, job, pool, disk
<1>18. CASE CleanRemove
  <2>1. PullerTypeOK'
    BY <1>18 DEF TypeOK, CleanRemove, PullerTypeOK, puller
  <2>2. DiskTypeOK'
    BY <1>18, StoredType DEF TypeOK, CleanRemove, DiskTypeOK, disk, JobTypeOK,
       PoolTypeOK
  <2> QED BY <1>18, <2>1, <2>2, TypeFrames DEF TypeOK, CleanRemove, puller, job, pool,
     disk
<1>19. CASE Wake
  <2>1. JobTypeOK'
    BY <1>19 DEF TypeOK, Wake, JobTypeOK, Status, job
  <2> QED BY <1>19, <2>1, TypeFrames DEF TypeOK, Wake, puller, job, pool, disk
<1>20. ASSUME NEW w \in Workers, Pick(w) PROVE TypeOK'
  <2>1. JobTypeOK'
    BY <1>20 DEF TypeOK, Pick, Index, JobTypeOK, Status, job
  <2>2. PoolTypeOK'
    BY <1>20, PcType DEF TypeOK, Pick, Index, PoolTypeOK, Fetched, Final, JobTypeOK,
       NoWork, pool
  <2> QED BY <1>20, <2>1, <2>2, TypeFrames DEF TypeOK, Pick, puller, job, pool, disk
<1>21. ASSUME NEW w \in Workers, Arrive(w) PROVE TypeOK'
  <2>1. JobTypeOK'
    BY <1>21 DEF TypeOK, Arrive, Goto, Landed, JobTypeOK, Status, job
  <2>2. PoolTypeOK'
    BY <1>21, GotoType, PcType DEF TypeOK, Arrive, Landed, PoolTypeOK, Fetched, Final,
       JobTypeOK, NoWork, pool
  <2> QED BY <1>21, <2>1, <2>2, TypeFrames DEF TypeOK, Arrive, Goto, puller, job, pool,
     disk
<1>22. ASSUME NEW w \in Workers, Write(w) PROVE TypeOK'
  <2>1. PoolTypeOK'
    BY <1>22, GotoType, PcType DEF TypeOK, Write, PoolTypeOK, Fetched, Final,
       JobTypeOK, NoWork, pool
  <2>2. DiskTypeOK'
    <3>1. work[w].idx \in Chunk
      BY <1>22 DEF TypeOK, PoolTypeOK, Write
    <3>2. (IF part = None THEN {} ELSE part) \subseteq Chunk
      BY StoredType DEF TypeOK, DiskTypeOK
    <3>3. part' = part \/ part' = (IF part = None THEN {} ELSE part) \cup {work[w].idx}
      BY <1>22 DEF Write
    <3>4. part' \in Stored
      BY <3>1, <3>2, <3>3, StoredType DEF TypeOK, DiskTypeOK
    <3> QED BY <1>22, <3>4 DEF TypeOK, Write, DiskTypeOK
  <2> QED BY <1>22, <2>1, <2>2, TypeFrames DEF TypeOK, Write, Works, Fails, Event,
     Goto, puller, job, pool, disk
<1>23. ASSUME NEW w \in Workers, Mark(w) PROVE TypeOK'
  <2>1. PullerTypeOK'
    BY <1>23, ClockType DEF TypeOK, Mark, Landed, Goto, PullerTypeOK, puller
  <2>2. JobTypeOK'
    <3>1. work[w].idx \in Chunk
      BY <1>23 DEF TypeOK, PoolTypeOK, Mark
    <3>2. done' \subseteq Chunk /\ inflight' \subseteq Chunk /\ errs' \in Nat
      BY <1>23, <3>1 DEF TypeOK, JobTypeOK, Mark, Landed
    <3>3. status' \in Status
      BY <1>23 DEF TypeOK, JobTypeOK, Mark, Status
    <3> QED BY <1>23, <3>2, <3>3 DEF TypeOK, Mark, JobTypeOK
  <2>3. PoolTypeOK'
    BY <1>23, GotoType, PcType DEF TypeOK, Mark, Landed, UpdateClock, PoolTypeOK,
       Fetched, Final, JobTypeOK, NoWork, pool
  <2> QED BY <1>23, <2>1, <2>2, <2>3, TypeFrames DEF TypeOK, Mark, Goto, puller, job,
     pool, disk
<1>24. ASSUME NEW w \in Workers, Broken(w) PROVE TypeOK'
  <2>1. PullerTypeOK'
    BY <1>24, ClockType DEF TypeOK, Broken, Landed, Goto, PullerTypeOK, puller
  <2>2. JobTypeOK'
    BY <1>24 DEF TypeOK, Broken, Landed, Goto, JobTypeOK, Status, job
  <2>3. PoolTypeOK'
    BY <1>24, GotoType, PcType DEF TypeOK, Broken, Landed, UpdateClock, PoolTypeOK,
       Fetched, Final, JobTypeOK, NoWork, pool
  <2> QED BY <1>24, <2>1, <2>2, <2>3, TypeFrames DEF TypeOK, Broken, Goto, puller, job,
     pool, disk
<1>25. ASSUME NEW w \in Workers, Save(w) PROVE TypeOK'
  <2>1. PullerTypeOK'
    BY <1>25, FailType DEF TypeOK, Save, Goto, PullerTypeOK, puller, JobTypeOK
  <2>2. JobTypeOK'
    BY <1>25, FailType DEF TypeOK, Save, Goto, JobTypeOK, job
  <2>3. PoolTypeOK'
    BY <1>25, GotoType, PcType DEF TypeOK, Save, PoolTypeOK, Fetched, Final, JobTypeOK,
       NoWork, pool
  <2>4. DiskTypeOK'
    BY <1>25, StoredType DEF TypeOK, Save, Goto, DiskTypeOK, disk, JobTypeOK, PoolTypeOK
  <2> QED BY <1>25, <2>1, <2>2, <2>3, <2>4, TypeFrames DEF TypeOK, Save, Works, Fails,
     Event, Goto, puller, job, pool, disk
<1>26. ASSUME NEW w \in Workers, Exit(w) PROVE TypeOK'
  <2>1. PoolTypeOK'
    BY <1>26, GotoType, PcType DEF TypeOK, Exit, PoolTypeOK, Fetched, Final, JobTypeOK,
       NoWork, pool
  <2> QED BY <1>26, <2>1, TypeFrames DEF TypeOK, Exit, Goto, puller, job, pool, disk
<1>27. ASSUME NEW w \in Workers, Claim(w) PROVE TypeOK'
  <2>1. JobTypeOK'
    BY <1>27 DEF TypeOK, Claim, JobTypeOK, Status, job
  <2>2. PoolTypeOK'
    BY <1>27, PcType DEF TypeOK, Claim, PoolTypeOK, Fetched, Final, JobTypeOK, NoWork,
       pool
  <2> QED BY <1>27, <2>1, <2>2, TypeFrames DEF TypeOK, Claim, puller, job, pool, disk
<1>28. ASSUME NEW w \in Workers, Rest(w) PROVE TypeOK'
  <2>1. PoolTypeOK'
    BY <1>28, GotoType, PcType DEF TypeOK, Rest, PoolTypeOK, Fetched, Final, JobTypeOK,
       NoWork, pool
  <2> QED BY <1>28, <2>1, TypeFrames DEF TypeOK, Rest, Goto, puller, job, pool, disk
<1>29. ASSUME NEW w \in Workers, FinDigest(w) PROVE TypeOK'
  <2>1. PullerTypeOK'
    BY <1>29, FailType DEF TypeOK, FinDigest, Goto, PullerTypeOK, puller, JobTypeOK
  <2>2. JobTypeOK'
    BY <1>29, FailType DEF TypeOK, FinDigest, Goto, JobTypeOK, job
  <2>3. PoolTypeOK'
    BY <1>29, GotoType, PcType DEF TypeOK, FinDigest, PoolTypeOK, Fetched, Final,
       JobTypeOK, NoWork, pool
  <2>4. UNCHANGED <<disk, used>>
    BY <1>29 DEF FinDigest
  <2> QED BY <1>29, <2>1, <2>2, <2>3, <2>4, TypeFrames DEF TypeOK, FinDigest, Goto,
     puller, job, pool, disk
<1>30. ASSUME NEW w \in Workers, FinMetafix(w) PROVE TypeOK'
  <2>1. PoolTypeOK'
    BY <1>30, GotoType, PcType DEF TypeOK, FinMetafix, PoolTypeOK, Fetched, Final,
       JobTypeOK, NoWork, pool
  <2>2. DiskTypeOK'
    BY <1>30, StoredType DEF TypeOK, FinMetafix, Goto, DiskTypeOK, disk, JobTypeOK,
       PoolTypeOK
  <2> QED BY <1>30, <2>1, <2>2, TypeFrames DEF TypeOK, FinMetafix, Works, Fails, Event,
     Goto, puller, job, pool, disk
<1>31. ASSUME NEW w \in Workers, FinCommit(w) PROVE TypeOK'
  <2>1. PoolTypeOK'
    BY <1>31, GotoType, PcType DEF TypeOK, FinCommit, PoolTypeOK, Fetched, Final,
       JobTypeOK, NoWork, pool
  <2>2. DiskTypeOK'
    <3>1. CASE UNCHANGED <<part, files>>
      BY <1>31, <3>1 DEF TypeOK, FinCommit, DiskTypeOK
    <3>2. CASE part # None /\ files' = Append(files, part) /\ part' = None
      <4>1. part \in SUBSET Chunk
        BY <3>2, StoredType DEF TypeOK, DiskTypeOK
      <4> QED BY <1>31, <3>2, <4>1, StoredType DEF TypeOK, FinCommit, DiskTypeOK
    <3> QED BY <1>31, <3>1, <3>2 DEF FinCommit
  <2> QED BY <1>31, <2>1, <2>2, TypeFrames DEF TypeOK, FinCommit, Works, Fails, Event,
     Goto, puller, job, pool, disk
<1>32. ASSUME NEW w \in Workers, FinDone(w) PROVE TypeOK'
  <2>1. PullerTypeOK'
    BY <1>32, ClockType DEF TypeOK, FinDone, Goto, PullerTypeOK, puller
  <2>2. JobTypeOK'
    BY <1>32 DEF TypeOK, FinDone, Goto, JobTypeOK, Status, job
  <2>3. PoolTypeOK'
    BY <1>32, GotoType, PcType DEF TypeOK, FinDone, UpdateClock, PoolTypeOK, Fetched,
       Final, JobTypeOK, NoWork, pool
  <2> QED BY <1>32, <2>1, <2>2, <2>3, TypeFrames DEF TypeOK, FinDone, Goto, puller,
     job, pool, disk
<1>33. ASSUME NEW w \in Workers, FinClean(w) PROVE TypeOK'
  <2>1. PoolTypeOK'
    BY <1>33, GotoType, PcType DEF TypeOK, FinClean, PoolTypeOK, Fetched, Final,
       JobTypeOK, NoWork, pool
  <2>2. DiskTypeOK'
    BY <1>33, StoredType DEF TypeOK, FinClean, Goto, DiskTypeOK, disk, JobTypeOK,
       PoolTypeOK
  <2> QED BY <1>33, <2>1, <2>2, TypeFrames DEF TypeOK, FinClean, Goto, puller, job,
     pool, disk
<1>34. ASSUME NEW w \in Workers, FinFail(w) PROVE TypeOK'
  <2>1. PullerTypeOK'
    BY <1>34, FailType DEF TypeOK, FinFail, Goto, PullerTypeOK, puller, JobTypeOK
  <2>2. JobTypeOK'
    BY <1>34, FailType DEF TypeOK, FinFail, Goto, JobTypeOK, job
  <2>3. PoolTypeOK'
    BY <1>34, GotoType, PcType DEF TypeOK, FinFail, PoolTypeOK, Fetched, Final,
       JobTypeOK, NoWork, pool
  <2> QED BY <1>34, <2>1, <2>2, <2>3, TypeFrames DEF TypeOK, FinFail, Goto, puller,
     job, pool, disk
<1>35. ASSUME NEW w \in Workers, FinSave(w) PROVE TypeOK'
  <2>1. PoolTypeOK'
    BY <1>35, GotoType, PcType DEF TypeOK, FinSave, SaveJobs, PoolTypeOK, Fetched,
       Final, JobTypeOK, NoWork, pool
  <2>2. DiskTypeOK'
    BY <1>35, QueueType, StoredType DEF TypeOK, FinSave, Goto, DiskTypeOK, disk,
       JobTypeOK, PoolTypeOK
  <2> QED BY <1>35, <2>1, <2>2, TypeFrames DEF TypeOK, FinSave, Works, Fails, Event,
     Goto, puller, job, pool, disk
<1> QED
  BY <1>1, <1>2, <1>3, <1>4, <1>5, <1>6, <1>7, <1>8, <1>9, <1>10, <1>11, <1>12, <1>13,
     <1>14, <1>15, <1>16, <1>17, <1>18, <1>19, <1>20, <1>21, <1>22, <1>23, <1>24,
     <1>25, <1>26, <1>27, <1>28, <1>29, <1>30, <1>31, <1>32, <1>33, <1>34, <1>35
  DEF Next, User, Opener, Fetch, Finalize

-----------------------------------------------------------------------------
(* Which worker may do what *)

\* No work is of a generation to come.
GenBound == \A w \in Workers : work[w].gen <= gen

\* ioMu has one holder.
IoMutex ==
    \A v, w \in Workers : pc[v] \in Holding /\ pc[w] \in Holding => v = w

\* From its claim until its generation ends, a finalizer keeps the job out of
\* the states in which chunks are fetched, and finds none in flight.
FinalizerKeeps ==
    /\ status = "finalizing" => inflight = {}
    /\ \A w \in Workers : Finalizing(w) =>
          /\ status \in {"finalizing", "paused", "canceled", "error"}
          /\ inflight = {}
    /\ \A v, w \in Workers : Finalizing(v) /\ Finalizing(w) => v = w

\* Between digest and commit nobody changes the part file but a clean.
CommitVerified ==
    \A w \in Workers : pc[w] = "fin_commit" /\ Mine(w) => part \in {Chunk, None}

Owned == GenBound /\ IoMutex /\ InflightOwned /\ FinalizerKeeps /\ CommitVerified

LEMMA GenBoundStep ==
    ASSUME TypeOK, GenBound, [Next]_vars
    PROVE  GenBound'
<1>1. CASE UNCHANGED <<work, gen>>
  BY <1>1 DEF GenBound, TypeOK, JobTypeOK, PoolTypeOK, NoWork
<1>2. CASE UNCHANGED vars
  BY <1>1, <1>2 DEF vars, puller, job, pool, disk
<1>3. CASE Crash
  BY <1>3 DEF Crash, GenBound, TypeOK, JobTypeOK, PoolTypeOK, NoWork, puller, job,
     pool, disk
<1>4. CASE OpenBuild
  BY <1>4 DEF OpenBuild, Loaded, UpdateClock, GenBound, TypeOK, JobTypeOK, PoolTypeOK,
     NoWork, puller, job, pool, disk
<1>5. CASE Resume
  BY <1>5 DEF Resume, Controllable, Kept, RetriesAfterResume, UpdateClock, GenBound,
     TypeOK, JobTypeOK, PoolTypeOK, NoWork, puller, job, pool, disk
<1>6. ASSUME NEW w \in Workers, Pick(w) PROVE GenBound'
  BY <1>6 DEF Pick, Index, GenBound, TypeOK, JobTypeOK, PoolTypeOK, NoWork, puller,
     job, pool, disk
<1>7. ASSUME NEW w \in Workers, Claim(w) PROVE GenBound'
  BY <1>7 DEF Claim, GenBound, TypeOK, JobTypeOK, PoolTypeOK, NoWork, puller, job,
     pool, disk
<1>8. CASE Acquire \/ Reconnect \/ Close \/ Open \/ ControlNothing \/ Pause
   \/ Cancel \/ Clean \/ ControlSave \/ Restore \/ OpenBarrier \/ OpenRefused
   \/ OpenSave \/ CleanRemove \/ Wake
  BY <1>1, <1>8 DEF Acquire, Reconnect, Close, Open, ControlNothing, Pause, Cancel,
     Clean, ControlSave, Restore, OpenBarrier, OpenRefused, OpenSave, CleanRemove,
     Wake, BeginOpen, Stop, UpdateClock, EndOpen, puller, job, pool, disk
<1>9. ASSUME NEW w \in Workers, Arrive(w) \/ Write(w) \/ Mark(w) \/ Broken(w)
   \/ Save(w) \/ Exit(w) \/ Rest(w) \/ FinDigest(w) \/ FinMetafix(w) \/ FinCommit(w)
   \/ FinDone(w) \/ FinClean(w) \/ FinFail(w) \/ FinSave(w)
      PROVE  GenBound'
  BY <1>1, <1>9 DEF Arrive, Write, Mark, Broken, Save, Exit, Rest, FinDigest,
     FinMetafix, FinCommit, FinDone, FinClean, FinFail, FinSave, Goto, UpdateClock,
     FailJob, puller, job, pool, disk
<1> QED BY <1>2, <1>3, <1>4, <1>5, <1>6, <1>7, <1>8, <1>9 DEF Next, User, Opener,
   Fetch, Finalize

LEMMA IoMutexStep ==
    ASSUME TypeOK, IoMutex, [Next]_vars
    PROVE  IoMutex'
<1>1. CASE UNCHANGED <<pc>>
  BY <1>1 DEF IoMutex, TypeOK, PoolTypeOK, IoFree, Holding, Fetched, Final
<1>2. CASE UNCHANGED vars
  BY <1>1, <1>2 DEF vars, puller, job, pool, disk
<1>3. CASE Crash
  BY <1>3 DEF Crash, IoMutex, TypeOK, PoolTypeOK, IoFree, Holding, Fetched, Final,
     puller, job, pool, disk
<1>4. ASSUME NEW w \in Workers, Pick(w) PROVE IoMutex'
  BY <1>4 DEF Pick, Index, IoMutex, TypeOK, PoolTypeOK, IoFree, Holding, Fetched,
     Final, puller, job, pool, disk
<1>5. ASSUME NEW w \in Workers, Arrive(w) PROVE IoMutex'
  BY <1>5 DEF Arrive, Goto, Landed, IoMutex, TypeOK, PoolTypeOK, IoFree, Holding,
     Fetched, Final, puller, job, pool, disk
<1>6. ASSUME NEW w \in Workers, Write(w) PROVE IoMutex'
  BY <1>6 DEF Write, Goto, IoMutex, TypeOK, PoolTypeOK, IoFree, Holding, Fetched,
     Final, puller, job, pool, disk
<1>7. ASSUME NEW w \in Workers, Mark(w) PROVE IoMutex'
  BY <1>7 DEF Mark, Landed, Goto, UpdateClock, IoMutex, TypeOK, PoolTypeOK, IoFree,
     Holding, Fetched, Final, puller, job, pool, disk
<1>8. ASSUME NEW w \in Workers, Broken(w) PROVE IoMutex'
  BY <1>8 DEF Broken, Landed, Goto, UpdateClock, IoMutex, TypeOK, PoolTypeOK, IoFree,
     Holding, Fetched, Final, puller, job, pool, disk
<1>9. ASSUME NEW w \in Workers, Save(w) PROVE IoMutex'
  BY <1>9 DEF Save, FailJob, UpdateClock, Goto, IoMutex, TypeOK, PoolTypeOK, IoFree,
     Holding, Fetched, Final, puller, job, pool, disk
<1>10. ASSUME NEW w \in Workers, Exit(w) PROVE IoMutex'
  BY <1>10 DEF Exit, Goto, IoMutex, TypeOK, PoolTypeOK, IoFree, Holding, Fetched,
     Final, puller, job, pool, disk
<1>11. ASSUME NEW w \in Workers, Claim(w) PROVE IoMutex'
  BY <1>11 DEF Claim, IoMutex, TypeOK, PoolTypeOK, IoFree, Holding, Fetched, Final,
     puller, job, pool, disk
<1>12. ASSUME NEW w \in Workers, Rest(w) PROVE IoMutex'
  BY <1>12 DEF Rest, Goto, IoMutex, TypeOK, PoolTypeOK, IoFree, Holding, Fetched,
     Final, puller, job, pool, disk
<1>13. ASSUME NEW w \in Workers, FinDigest(w) PROVE IoMutex'
  BY <1>13 DEF FinDigest, Goto, FailJob, UpdateClock, IoMutex, TypeOK, PoolTypeOK,
     IoFree, Holding, Fetched, Final, puller, job, pool, disk
<1>14. ASSUME NEW w \in Workers, FinMetafix(w) PROVE IoMutex'
  BY <1>14 DEF FinMetafix, Goto, IoMutex, TypeOK, PoolTypeOK, IoFree, Holding, Fetched,
     Final, puller, job, pool, disk
<1>15. ASSUME NEW w \in Workers, FinCommit(w) PROVE IoMutex'
  BY <1>15 DEF FinCommit, Goto, IoMutex, TypeOK, PoolTypeOK, IoFree, Holding, Fetched,
     Final, puller, job, pool, disk
<1>16. ASSUME NEW w \in Workers, FinDone(w) PROVE IoMutex'
  BY <1>16 DEF FinDone, UpdateClock, Goto, IoMutex, TypeOK, PoolTypeOK, IoFree,
     Holding, Fetched, Final, puller, job, pool, disk
<1>17. ASSUME NEW w \in Workers, FinClean(w) PROVE IoMutex'
  BY <1>17 DEF FinClean, Goto, IoMutex, TypeOK, PoolTypeOK, IoFree, Holding, Fetched,
     Final, puller, job, pool, disk
<1>18. ASSUME NEW w \in Workers, FinFail(w) PROVE IoMutex'
  BY <1>18 DEF FinFail, FailJob, UpdateClock, Goto, IoMutex, TypeOK, PoolTypeOK,
     IoFree, Holding, Fetched, Final, puller, job, pool, disk
<1>19. ASSUME NEW w \in Workers, FinSave(w) PROVE IoMutex'
  BY <1>19 DEF FinSave, SaveJobs, Goto, IoMutex, TypeOK, PoolTypeOK, IoFree, Holding,
     Fetched, Final, puller, job, pool, disk
<1>20. CASE Acquire \/ Reconnect \/ Close \/ Open \/ ControlNothing \/ Pause
   \/ Cancel \/ Resume \/ Clean \/ ControlSave \/ Restore \/ OpenBarrier
   \/ OpenBuild \/ OpenRefused \/ OpenSave \/ CleanRemove \/ Wake
  BY <1>1, <1>20 DEF Acquire, Reconnect, Close, Open, ControlNothing, Pause, Cancel,
     Resume, Clean, ControlSave, Restore, OpenBarrier, OpenBuild, OpenRefused,
     OpenSave, CleanRemove, Wake, BeginOpen, Stop, UpdateClock, EndOpen, puller, job,
     pool, disk
<1> QED BY <1>2, <1>3, <1>4, <1>5, <1>6, <1>7, <1>8, <1>9, <1>10, <1>11, <1>12, <1>13,
   <1>14, <1>15, <1>16, <1>17, <1>18, <1>19, <1>20 DEF Next, User, Opener, Fetch,
   Finalize

LEMMA InflightStep ==
    ASSUME TypeOK, GenBound, InflightOwned, [Next]_vars
    PROVE  InflightOwned'
<1>1. CASE UNCHANGED <<pc, work, gen, inflight>>
  BY <1>1 DEF InflightOwned, Fetching, Mine, TypeOK, JobTypeOK, PoolTypeOK
<1>2. CASE UNCHANGED vars
  BY <1>1, <1>2 DEF vars, puller, job, pool, disk
<1>3. CASE Crash
  BY <1>3 DEF Crash, InflightOwned, Fetching, Mine, TypeOK, JobTypeOK, PoolTypeOK,
     puller, job, pool, disk
<1>4. CASE OpenBuild
  <2>1. gen' = gen + 1 /\ inflight' = {} /\ UNCHANGED pool
    BY <1>4 DEF OpenBuild
  <2>2. \A w \in Workers : ~ Fetching(w)'
    BY <2>1 DEF GenBound, Fetching, Mine, TypeOK, JobTypeOK, PoolTypeOK, pool
  <2> QED BY <2>1, <2>2 DEF InflightOwned
<1>5. CASE Resume
  <2>1. gen' = gen + 1 /\ inflight' = {} /\ UNCHANGED pool
    BY <1>5 DEF Resume
  <2>2. \A w \in Workers : ~ Fetching(w)'
    BY <2>1 DEF GenBound, Fetching, Mine, TypeOK, JobTypeOK, PoolTypeOK, pool
  <2> QED BY <2>1, <2>2 DEF InflightOwned
<1>6. ASSUME NEW w \in Workers, Pick(w) PROVE InflightOwned'
  <2>1. PICK c \in Chunk :
           /\ c \notin inflight
           /\ inflight' = inflight \cup {c}
           /\ work' = [work EXCEPT ![w] = [gen |-> gen, idx |-> c]]
    BY <1>6 DEF Pick, Wanted, Index
  <2>2. /\ pc[w] = "idle" /\ pc' = [pc EXCEPT ![w] = "fetch"] /\ gen' = gen
    BY <1>6 DEF Pick
  <2>3. /\ Fetching(w)' /\ work'[w].idx = c
        /\ ~ Fetching(w)
        /\ \A v \in Workers \ {w} : /\ work'[v] = work[v]
                                   /\ Fetching(v)' <=> Fetching(v)
    BY <2>1, <2>2 DEF Fetching, Mine, TypeOK, PoolTypeOK
  <2> QED BY <2>1, <2>3 DEF InflightOwned
<1>7. ASSUME NEW w \in Workers, Arrive(w) PROVE InflightOwned'
  BY <1>7 DEF Arrive, Goto, Landed, InflightOwned, Fetching, Mine, TypeOK, JobTypeOK,
     PoolTypeOK, puller, job, pool, disk
<1>8. ASSUME NEW w \in Workers, Write(w) PROVE InflightOwned'
  BY <1>8 DEF Write, Goto, InflightOwned, Fetching, Mine, TypeOK, JobTypeOK,
     PoolTypeOK, puller, job, pool, disk
<1>9. ASSUME NEW w \in Workers, Mark(w) PROVE InflightOwned'
  BY <1>9 DEF Mark, Landed, Goto, UpdateClock, InflightOwned, Fetching, Mine, TypeOK,
     JobTypeOK, PoolTypeOK, puller, job, pool, disk
<1>10. ASSUME NEW w \in Workers, Broken(w) PROVE InflightOwned'
  BY <1>10 DEF Broken, Landed, Goto, UpdateClock, InflightOwned, Fetching, Mine,
     TypeOK, JobTypeOK, PoolTypeOK, puller, job, pool, disk
<1>11. ASSUME NEW w \in Workers, Save(w) PROVE InflightOwned'
  BY <1>11 DEF Save, FailJob, UpdateClock, Goto, InflightOwned, Fetching, Mine, TypeOK,
     JobTypeOK, PoolTypeOK, puller, job, pool, disk
<1>12. ASSUME NEW w \in Workers, Exit(w) PROVE InflightOwned'
  BY <1>12 DEF Exit, Goto, InflightOwned, Fetching, Mine, TypeOK, JobTypeOK,
     PoolTypeOK, puller, job, pool, disk
<1>13. ASSUME NEW w \in Workers, Claim(w) PROVE InflightOwned'
  BY <1>13 DEF Claim, InflightOwned, Fetching, Mine, TypeOK, JobTypeOK, PoolTypeOK,
     puller, job, pool, disk
<1>14. ASSUME NEW w \in Workers, Rest(w) PROVE InflightOwned'
  BY <1>14 DEF Rest, Goto, InflightOwned, Fetching, Mine, TypeOK, JobTypeOK,
     PoolTypeOK, puller, job, pool, disk
<1>15. ASSUME NEW w \in Workers, FinDigest(w) PROVE InflightOwned'
  BY <1>15 DEF FinDigest, Goto, FailJob, UpdateClock, InflightOwned, Fetching, Mine,
     TypeOK, JobTypeOK, PoolTypeOK, puller, job, pool, disk
<1>16. ASSUME NEW w \in Workers, FinMetafix(w) PROVE InflightOwned'
  BY <1>16 DEF FinMetafix, Goto, InflightOwned, Fetching, Mine, TypeOK, JobTypeOK,
     PoolTypeOK, puller, job, pool, disk
<1>17. ASSUME NEW w \in Workers, FinCommit(w) PROVE InflightOwned'
  <2>1. PICK label \in {"fin_fail", "fin_done"} : Goto(w, label)
    BY <1>17 DEF FinCommit
  <2>2. pc[w] = "fin_commit" /\ UNCHANGED <<gen, inflight>>
    BY <1>17 DEF FinCommit, job
  <2> QED BY <2>1, <2>2 DEF Goto, InflightOwned, Fetching, Mine, TypeOK, PoolTypeOK
<1>18. ASSUME NEW w \in Workers, FinDone(w) PROVE InflightOwned'
  BY <1>18 DEF FinDone, UpdateClock, Goto, InflightOwned, Fetching, Mine, TypeOK,
     JobTypeOK, PoolTypeOK, puller, job, pool, disk
<1>19. ASSUME NEW w \in Workers, FinClean(w) PROVE InflightOwned'
  BY <1>19 DEF FinClean, Goto, InflightOwned, Fetching, Mine, TypeOK, JobTypeOK,
     PoolTypeOK, puller, job, pool, disk
<1>20. ASSUME NEW w \in Workers, FinFail(w) PROVE InflightOwned'
  BY <1>20 DEF FinFail, FailJob, UpdateClock, Goto, InflightOwned, Fetching, Mine,
     TypeOK, JobTypeOK, PoolTypeOK, puller, job, pool, disk
<1>21. ASSUME NEW w \in Workers, FinSave(w) PROVE InflightOwned'
  BY <1>21 DEF FinSave, SaveJobs, Goto, InflightOwned, Fetching, Mine, TypeOK,
     JobTypeOK, PoolTypeOK, puller, job, pool, disk
<1>22. CASE Acquire \/ Reconnect \/ Close \/ Open \/ ControlNothing \/ Pause
   \/ Cancel \/ Clean \/ ControlSave \/ Restore \/ OpenBarrier \/ OpenRefused
   \/ OpenSave \/ CleanRemove \/ Wake
  BY <1>1, <1>22 DEF Acquire, Reconnect, Close, Open, ControlNothing, Pause, Cancel,
     Clean, ControlSave, Restore, OpenBarrier, OpenRefused, OpenSave, CleanRemove,
     Wake, BeginOpen, Stop, UpdateClock, EndOpen, puller, job, pool, disk
<1> QED BY <1>2, <1>3, <1>4, <1>5, <1>6, <1>7, <1>8, <1>9, <1>10, <1>11, <1>12, <1>13,
   <1>14, <1>15, <1>16, <1>17, <1>18, <1>19, <1>20, <1>21, <1>22 DEF Next, User,
   Opener, Fetch, Finalize

LEMMA FinalizerStep ==
    ASSUME TypeOK, GenBound, InflightOwned, InflightOwned', FinalizerKeeps, [Next]_vars
    PROVE  FinalizerKeeps'
<1>1. CASE UNCHANGED <<pc, work, gen, inflight, status>>
  BY <1>1 DEF FinalizerKeeps, Finalizing, Mine, TypeOK, JobTypeOK, PoolTypeOK
<1>2. CASE UNCHANGED vars
  BY <1>1, <1>2 DEF vars, puller, job, pool, disk
<1>3. CASE Crash
  BY <1>3 DEF Crash, FinalizerKeeps, Finalizing, Mine, TypeOK, JobTypeOK, PoolTypeOK,
     puller, job, pool, disk
<1>4. CASE OpenBuild
  <2>1. gen' = gen + 1 /\ UNCHANGED pool
    BY <1>4 DEF OpenBuild
  <2>2. \A w \in Workers : ~ Mine(w)'
    BY <2>1 DEF GenBound, Mine, TypeOK, JobTypeOK, PoolTypeOK, pool
  <2>3. status' # "finalizing"
    BY <1>4 DEF OpenBuild
  <2> QED BY <2>2, <2>3 DEF FinalizerKeeps, Finalizing
<1>5. CASE Pause
  BY <1>5 DEF Pause, Stop, Controllable, UpdateClock, FinalizerKeeps, Finalizing, Mine,
     TypeOK, JobTypeOK, PoolTypeOK, puller, job, pool, disk
<1>6. CASE Cancel
  BY <1>6 DEF Cancel, Stop, Controllable, UpdateClock, FinalizerKeeps, Finalizing,
     Mine, TypeOK, JobTypeOK, PoolTypeOK, puller, job, pool, disk
<1>7. CASE Resume
  <2>1. gen' = gen + 1 /\ UNCHANGED pool
    BY <1>7 DEF Resume
  <2>2. \A w \in Workers : ~ Mine(w)'
    BY <2>1 DEF GenBound, Mine, TypeOK, JobTypeOK, PoolTypeOK, pool
  <2>3. status' # "finalizing"
    BY <1>7 DEF Resume
  <2> QED BY <2>2, <2>3 DEF FinalizerKeeps, Finalizing
<1>8. ASSUME NEW w \in Workers, Pick(w) PROVE FinalizerKeeps'
  BY <1>8 DEF Pick, Index, FinalizerKeeps, Finalizing, Mine, TypeOK, JobTypeOK,
     PoolTypeOK, puller, job, pool, disk
<1>9. ASSUME NEW w \in Workers, Arrive(w) PROVE FinalizerKeeps'
  BY <1>9 DEF Arrive, Goto, Landed, FinalizerKeeps, Finalizing, Mine, TypeOK,
     JobTypeOK, PoolTypeOK, puller, job, pool, disk
<1>10. ASSUME NEW w \in Workers, Write(w) PROVE FinalizerKeeps'
  BY <1>10 DEF Write, Goto, FinalizerKeeps, Finalizing, Mine, TypeOK, JobTypeOK,
     PoolTypeOK, puller, job, pool, disk
<1>11. ASSUME NEW w \in Workers, Mark(w) PROVE FinalizerKeeps'
  <2>1. CASE Mine(w)
    <3>1. work[w].idx \in inflight /\ pc[w] = "mark"
      BY <1>11, <2>1 DEF InflightOwned, Fetching, Mark
    <3>2. status # "finalizing" /\ \A v \in Workers : ~ Finalizing(v)
      BY <3>1 DEF FinalizerKeeps
    <3>3. status' # "finalizing" /\ UNCHANGED <<work, gen>>
      BY <1>11, <3>2 DEF Mark, Goto
    <3>4. PICK label \in {"save", "scan"} : pc' = [pc EXCEPT ![w] = label]
      BY <1>11 DEF Mark, Goto
    <3>5. \A v \in Workers : ~ Finalizing(v)'
      BY <3>1, <3>2, <3>3, <3>4 DEF Finalizing, Mine, TypeOK, PoolTypeOK
    <3> QED BY <3>3, <3>5 DEF FinalizerKeeps
  <2>2. CASE ~ Mine(w)
    BY <1>11, <2>2 DEF Mark, Landed, Goto, FinalizerKeeps, Finalizing, Mine, TypeOK,
       PoolTypeOK
  <2> QED BY <2>1, <2>2
<1>12. ASSUME NEW w \in Workers, Broken(w) PROVE FinalizerKeeps'
  BY <1>12 DEF Broken, Landed, Goto, UpdateClock, FinalizerKeeps, Finalizing, Mine,
     TypeOK, JobTypeOK, PoolTypeOK, puller, job, pool, disk
<1>13. ASSUME NEW w \in Workers, Save(w) PROVE FinalizerKeeps'
  BY <1>13 DEF Save, FailJob, UpdateClock, Goto, FinalizerKeeps, Finalizing, Mine,
     TypeOK, JobTypeOK, PoolTypeOK, puller, job, pool, disk
<1>14. ASSUME NEW w \in Workers, Exit(w) PROVE FinalizerKeeps'
  BY <1>14 DEF Exit, Goto, FinalizerKeeps, Finalizing, Mine, TypeOK, JobTypeOK,
     PoolTypeOK, puller, job, pool, disk
<1>15. ASSUME NEW w \in Workers, Claim(w) PROVE FinalizerKeeps'
  <2>1. /\ inflight = {} /\ status = "verifying"
        /\ inflight' = {} /\ status' = "finalizing" /\ gen' = gen
    BY <1>15 DEF Claim, Ready
  <2>2. \A v \in Workers : ~ Finalizing(v)
    BY <2>1 DEF FinalizerKeeps
  <2>3. \A v \in Workers \ {w} : ~ Finalizing(v)'
    BY <1>15, <2>1, <2>2 DEF Claim, Finalizing, Mine, TypeOK, PoolTypeOK
  <2> QED BY <2>1, <2>3 DEF FinalizerKeeps
<1>16. ASSUME NEW w \in Workers, Rest(w) PROVE FinalizerKeeps'
  BY <1>16 DEF Rest, Goto, FinalizerKeeps, Finalizing, Mine, TypeOK, JobTypeOK,
     PoolTypeOK, puller, job, pool, disk
<1>17. ASSUME NEW w \in Workers, FinDigest(w) PROVE FinalizerKeeps'
  BY <1>17 DEF FinDigest, Goto, FailJob, UpdateClock, FinalizerKeeps, Finalizing, Mine,
     TypeOK, JobTypeOK, PoolTypeOK, puller, job, pool, disk
<1>18. ASSUME NEW w \in Workers, FinMetafix(w) PROVE FinalizerKeeps'
  BY <1>18 DEF FinMetafix, Goto, FinalizerKeeps, Finalizing, Mine, TypeOK, JobTypeOK,
     PoolTypeOK, puller, job, pool, disk
<1>19. ASSUME NEW w \in Workers, FinCommit(w) PROVE FinalizerKeeps'
  BY <1>19 DEF FinCommit, Goto, FinalizerKeeps, Finalizing, Mine, TypeOK, JobTypeOK,
     PoolTypeOK, puller, job, pool, disk
<1>20. ASSUME NEW w \in Workers, FinDone(w) PROVE FinalizerKeeps'
  BY <1>20 DEF FinDone, UpdateClock, Goto, FinalizerKeeps, Finalizing, Mine, TypeOK,
     JobTypeOK, PoolTypeOK, puller, job, pool, disk
<1>21. ASSUME NEW w \in Workers, FinClean(w) PROVE FinalizerKeeps'
  BY <1>21 DEF FinClean, Goto, FinalizerKeeps, Finalizing, Mine, TypeOK, JobTypeOK,
     PoolTypeOK, puller, job, pool, disk
<1>22. ASSUME NEW w \in Workers, FinFail(w) PROVE FinalizerKeeps'
  BY <1>22 DEF FinFail, FailJob, UpdateClock, Goto, FinalizerKeeps, Finalizing, Mine,
     TypeOK, JobTypeOK, PoolTypeOK, puller, job, pool, disk
<1>23. ASSUME NEW w \in Workers, FinSave(w) PROVE FinalizerKeeps'
  BY <1>23 DEF FinSave, SaveJobs, Goto, FinalizerKeeps, Finalizing, Mine, TypeOK,
     JobTypeOK, PoolTypeOK, puller, job, pool, disk
<1>24. CASE Acquire \/ Reconnect \/ Close \/ Open \/ ControlNothing \/ Clean
   \/ ControlSave \/ Restore \/ OpenBarrier \/ OpenRefused \/ OpenSave
   \/ CleanRemove \/ Wake
  BY <1>1, <1>24 DEF Acquire, Reconnect, Close, Open, ControlNothing, Clean,
     ControlSave, Restore, OpenBarrier, OpenRefused, OpenSave, CleanRemove, Wake,
     BeginOpen, EndOpen, puller, job, pool, disk
<1> QED BY <1>2, <1>3, <1>4, <1>5, <1>6, <1>7, <1>8, <1>9, <1>10, <1>11, <1>12, <1>13,
   <1>14, <1>15, <1>16, <1>17, <1>18, <1>19, <1>20, <1>21, <1>22, <1>23,
   <1>24 DEF Next, User, Opener, Fetch, Finalize

LEMMA CommitStep ==
    ASSUME TypeOK, GenBound, IoMutex, CommitVerified, [Next]_vars
    PROVE  CommitVerified'
<1>1. CASE UNCHANGED <<pc, work, gen, part>>
  BY <1>1 DEF CommitVerified, Mine, TypeOK, JobTypeOK, PoolTypeOK
<1>2. CASE UNCHANGED vars
  BY <1>1, <1>2 DEF vars, puller, job, pool, disk
<1>3. CASE Crash
  BY <1>3 DEF Crash, CommitVerified, Mine, TypeOK, JobTypeOK, PoolTypeOK, puller, job,
     pool, disk
<1>4. CASE OpenBuild
  <2>1. gen' = gen + 1 /\ UNCHANGED pool
    BY <1>4 DEF OpenBuild
  <2>2. \A w \in Workers : ~ Mine(w)'
    BY <2>1 DEF GenBound, Mine, TypeOK, JobTypeOK, PoolTypeOK, pool
  <2> QED BY <2>2 DEF CommitVerified
<1>5. CASE Resume
  <2>1. gen' = gen + 1 /\ UNCHANGED pool
    BY <1>5 DEF Resume
  <2>2. \A w \in Workers : ~ Mine(w)'
    BY <2>1 DEF GenBound, Mine, TypeOK, JobTypeOK, PoolTypeOK, pool
  <2> QED BY <2>2 DEF CommitVerified
<1>6. CASE CleanRemove
  BY <1>6 DEF CleanRemove, CommitVerified, Mine, TypeOK, JobTypeOK, PoolTypeOK, puller,
     job, pool, disk
<1>7. ASSUME NEW w \in Workers, Pick(w) PROVE CommitVerified'
  BY <1>7 DEF Pick, Index, CommitVerified, Mine, TypeOK, JobTypeOK, PoolTypeOK, puller,
     job, pool, disk
<1>8. ASSUME NEW w \in Workers, Arrive(w) PROVE CommitVerified'
  BY <1>8 DEF Arrive, Goto, Landed, CommitVerified, Mine, TypeOK, JobTypeOK,
     PoolTypeOK, puller, job, pool, disk
<1>9. ASSUME NEW w \in Workers, Write(w) PROVE CommitVerified'
  <2>1. pc[w] \in Holding /\ pc[w] = "write"
    BY <1>9 DEF Write, Holding, Fetched
  <2>2. \A v \in Workers : pc[v] = "fin_commit" => v = w
    BY <2>1 DEF IoMutex, Holding, Final
  <2>3. PICK label \in {"mark", "broken"} : Goto(w, label)
    BY <1>9 DEF Write
  <2>4. \A v \in Workers : pc'[v] # "fin_commit"
    BY <2>1, <2>2, <2>3 DEF Goto, TypeOK, PoolTypeOK
  <2> QED BY <2>4 DEF CommitVerified
<1>10. ASSUME NEW w \in Workers, Mark(w) PROVE CommitVerified'
  BY <1>10 DEF Mark, Landed, Goto, UpdateClock, CommitVerified, Mine, TypeOK,
     JobTypeOK, PoolTypeOK, puller, job, pool, disk
<1>11. ASSUME NEW w \in Workers, Broken(w) PROVE CommitVerified'
  BY <1>11 DEF Broken, Landed, Goto, UpdateClock, CommitVerified, Mine, TypeOK,
     JobTypeOK, PoolTypeOK, puller, job, pool, disk
<1>12. ASSUME NEW w \in Workers, Save(w) PROVE CommitVerified'
  BY <1>12 DEF Save, FailJob, UpdateClock, Goto, CommitVerified, Mine, TypeOK,
     JobTypeOK, PoolTypeOK, puller, job, pool, disk
<1>13. ASSUME NEW w \in Workers, Exit(w) PROVE CommitVerified'
  BY <1>13 DEF Exit, Goto, CommitVerified, Mine, TypeOK, JobTypeOK, PoolTypeOK, puller,
     job, pool, disk
<1>14. ASSUME NEW w \in Workers, Claim(w) PROVE CommitVerified'
  BY <1>14 DEF Claim, CommitVerified, Mine, TypeOK, JobTypeOK, PoolTypeOK, puller, job,
     pool, disk
<1>15. ASSUME NEW w \in Workers, Rest(w) PROVE CommitVerified'
  BY <1>15 DEF Rest, Goto, CommitVerified, Mine, TypeOK, JobTypeOK, PoolTypeOK, puller,
     job, pool, disk
<1>16. ASSUME NEW w \in Workers, FinDigest(w) PROVE CommitVerified'
  BY <1>16 DEF FinDigest, Goto, FailJob, UpdateClock, CommitVerified, Mine, TypeOK,
     JobTypeOK, PoolTypeOK, puller, job, pool, disk
<1>17. ASSUME NEW w \in Workers, FinMetafix(w) PROVE CommitVerified'
  BY <1>17 DEF FinMetafix, Goto, CommitVerified, Mine, TypeOK, JobTypeOK, PoolTypeOK,
     puller, job, pool, disk
<1>18. ASSUME NEW w \in Workers, FinCommit(w) PROVE CommitVerified'
  BY <1>18 DEF FinCommit, Goto, CommitVerified, Mine, TypeOK, JobTypeOK, PoolTypeOK,
     puller, job, pool, disk
<1>19. ASSUME NEW w \in Workers, FinDone(w) PROVE CommitVerified'
  BY <1>19 DEF FinDone, UpdateClock, Goto, CommitVerified, Mine, TypeOK, JobTypeOK,
     PoolTypeOK, puller, job, pool, disk
<1>20. ASSUME NEW w \in Workers, FinClean(w) PROVE CommitVerified'
  BY <1>20 DEF FinClean, Goto, CommitVerified, Mine, TypeOK, JobTypeOK, PoolTypeOK,
     puller, job, pool, disk
<1>21. ASSUME NEW w \in Workers, FinFail(w) PROVE CommitVerified'
  BY <1>21 DEF FinFail, FailJob, UpdateClock, Goto, CommitVerified, Mine, TypeOK,
     JobTypeOK, PoolTypeOK, puller, job, pool, disk
<1>22. ASSUME NEW w \in Workers, FinSave(w) PROVE CommitVerified'
  BY <1>22 DEF FinSave, SaveJobs, Goto, CommitVerified, Mine, TypeOK, JobTypeOK,
     PoolTypeOK, puller, job, pool, disk
<1>23. CASE Acquire \/ Reconnect \/ Close \/ Open \/ ControlNothing \/ Pause
   \/ Cancel \/ Clean \/ ControlSave \/ Restore \/ OpenBarrier \/ OpenRefused
   \/ OpenSave \/ Wake
  BY <1>1, <1>23 DEF Acquire, Reconnect, Close, Open, ControlNothing, Pause, Cancel,
     Clean, ControlSave, Restore, OpenBarrier, OpenRefused, OpenSave, Wake, BeginOpen,
     Stop, UpdateClock, EndOpen, puller, job, pool, disk
<1> QED BY <1>2, <1>3, <1>4, <1>5, <1>6, <1>7, <1>8, <1>9, <1>10, <1>11, <1>12, <1>13,
   <1>14, <1>15, <1>16, <1>17, <1>18, <1>19, <1>20, <1>21, <1>22, <1>23 DEF Next, User,
   Opener, Fetch, Finalize

LEMMA ClockStep ==
    ASSUME ClockRuns, [Next]_vars
    PROVE  ClockRuns'
<1>1. CASE UNCHANGED <<clock, status>>
  BY <1>1 DEF ClockRuns, Running
<1>2. CASE UNCHANGED vars
  BY <1>1, <1>2 DEF vars, puller, job, pool, disk
<1>3. CASE Crash
  <2>1. clock' = FALSE /\ status' = "none"
    BY <1>3 DEF Crash
  <2>2. "none" \notin Running
    BY DEF Running
  <2>3. ~ (status' \in Running)
    BY <2>1, <2>2
  <2> QED BY <2>1, <2>3 DEF ClockRuns
<1>4. CASE OpenBuild
  BY <1>4 DEF OpenBuild, Loaded, UpdateClock, ClockRuns, Running, puller, job, pool,
     disk
<1>5. CASE Pause
  BY <1>5 DEF Pause, Stop, Controllable, UpdateClock, ClockRuns, Running, puller, job,
     pool, disk
<1>6. CASE Cancel
  BY <1>6 DEF Cancel, Stop, Controllable, UpdateClock, ClockRuns, Running, puller, job,
     pool, disk
<1>7. CASE Resume
  BY <1>7 DEF Resume, Controllable, Kept, RetriesAfterResume, UpdateClock, ClockRuns,
     Running, puller, job, pool, disk
<1>8. ASSUME NEW w \in Workers, Pick(w) PROVE ClockRuns'
  BY <1>8 DEF Pick, Index, ClockRuns, Running, puller, job, pool, disk
<1>9. ASSUME NEW w \in Workers, Mark(w) PROVE ClockRuns'
  BY <1>9 DEF Mark, Landed, Goto, UpdateClock, ClockRuns, Running, puller, job, pool,
     disk
<1>10. ASSUME NEW w \in Workers, Broken(w) PROVE ClockRuns'
  BY <1>10 DEF Broken, Landed, Goto, UpdateClock, ClockRuns, Running, puller, job,
     pool, disk
<1>11. ASSUME NEW w \in Workers, Save(w) PROVE ClockRuns'
  BY <1>11 DEF Save, FailJob, UpdateClock, Goto, ClockRuns, Running, puller, job, pool,
     disk
<1>12. ASSUME NEW w \in Workers, Claim(w) PROVE ClockRuns'
  <2>1. /\ status = "verifying" /\ status' = "finalizing" /\ clock' = clock
    BY <1>12 DEF Claim, Ready, puller
  <2>2. "verifying" \in Running /\ "finalizing" \in Running
    BY DEF Running
  <2> QED BY <2>1, <2>2 DEF ClockRuns
<1>13. ASSUME NEW w \in Workers, FinDigest(w) PROVE ClockRuns'
  BY <1>13 DEF FinDigest, Goto, FailJob, UpdateClock, ClockRuns, Running, puller, job,
     pool, disk
<1>14. ASSUME NEW w \in Workers, FinDone(w) PROVE ClockRuns'
  BY <1>14 DEF FinDone, UpdateClock, Goto, ClockRuns, Running, puller, job, pool, disk
<1>15. ASSUME NEW w \in Workers, FinFail(w) PROVE ClockRuns'
  BY <1>15 DEF FinFail, FailJob, UpdateClock, Goto, ClockRuns, Running, puller, job,
     pool, disk
<1>16. CASE Acquire \/ Reconnect \/ Close \/ Open \/ ControlNothing \/ Clean
   \/ ControlSave \/ Restore \/ OpenBarrier \/ OpenRefused \/ OpenSave
   \/ CleanRemove \/ Wake
  BY <1>1, <1>16 DEF Acquire, Reconnect, Close, Open, ControlNothing, Clean,
     ControlSave, Restore, OpenBarrier, OpenRefused, OpenSave, CleanRemove, Wake,
     BeginOpen, EndOpen, puller, job, pool, disk
<1>17. ASSUME NEW w \in Workers, Arrive(w) \/ Write(w) \/ Exit(w) \/ Rest(w)
   \/ FinMetafix(w) \/ FinCommit(w) \/ FinClean(w) \/ FinSave(w)
      PROVE  ClockRuns'
  BY <1>1, <1>17 DEF Arrive, Write, Exit, Rest, FinMetafix, FinCommit, FinClean,
     FinSave, Goto, puller, job, pool, disk
<1> QED BY <1>2, <1>3, <1>4, <1>5, <1>6, <1>7, <1>8, <1>9, <1>10, <1>11, <1>12, <1>13,
   <1>14, <1>15, <1>16, <1>17 DEF Next, User, Opener, Fetch, Finalize

-----------------------------------------------------------------------------
(* Giving up *)

\* Every retry stands for chunkMaxErrs failures, of which none is forgotten
\* before Limit is reached.
StrikesCount ==
    strikes <= Limit /\ (strikes >= retries * ChunkMaxErrs + errs \/ strikes = Limit)

LEMMA RetryProducts ==
    ASSUME NEW r \in Nat
    PROVE  /\ r * ChunkMaxErrs \in Nat
           /\ (r + 1) * ChunkMaxErrs = r * ChunkMaxErrs + ChunkMaxErrs
           /\ r >= MaxRetries => r * ChunkMaxErrs >= MaxRetries * ChunkMaxErrs
BY RetryAssumption

LEMMA BrokenCounts ==
    ASSUME TypeOK, StrikesCount, NEW w \in Workers, Broken(w)
    PROVE  /\ StrikesCount'
           /\ status # "error" /\ status' = "error" => strikes' = Limit
<1>1. Limit \in Nat /\ Limit = MaxRetries * ChunkMaxErrs + ChunkMaxErrs
  BY RetryAssumption, RetryProducts DEF Limit
<1>2. retries \in Nat /\ errs \in Nat /\ strikes \in Nat /\ retries + 1 \in Nat
  BY DEF TypeOK, JobTypeOK
<1>3. retries * ChunkMaxErrs \in Nat
      /\ (retries + 1) * ChunkMaxErrs = retries * ChunkMaxErrs + ChunkMaxErrs
      /\ (retries >= MaxRetries => retries * ChunkMaxErrs >= MaxRetries * ChunkMaxErrs)
  BY <1>2, RetryProducts
<1>4. ChunkMaxErrs \in Nat /\ MaxRetries \in Nat /\ Limit' = Limit
  BY RetryAssumption DEF Limit
<1> DEFINE counts == Mine(w) /\ ~ Halted /\ ~ closed
<1>5. CASE ~ counts
  <2>1. UNCHANGED <<errs, retries, status, strikes>>
    BY <1>5 DEF Broken
  <2> QED BY <2>1, <1>4 DEF StrikesCount
<1>6. CASE counts /\ ~ (errs + 1 >= ChunkMaxErrs)
  <2>1. /\ errs' = errs + 1 /\ UNCHANGED <<retries, status>>
        /\ strikes' = IF strikes < Limit THEN strikes + 1 ELSE strikes
    BY <1>6 DEF Broken
  <2> QED BY <1>1, <1>2, <1>3, <1>4, <2>1 DEF StrikesCount
<1>7. CASE counts /\ errs + 1 >= ChunkMaxErrs
  <2>1. /\ errs' = 0 /\ retries' = retries + 1
        /\ status' = IF Exhausted THEN "error" ELSE status
        /\ strikes' = IF strikes < Limit THEN strikes + 1 ELSE strikes
    BY <1>7 DEF Broken
  <2>2. retries' * ChunkMaxErrs = retries * ChunkMaxErrs + ChunkMaxErrs
    BY <1>3, <2>1
  <2>3. StrikesCount'
    BY <1>1, <1>2, <1>3, <1>4, <1>7, <2>1, <2>2 DEF StrikesCount
  <2>4. Exhausted => strikes' = Limit
    BY <1>1, <1>2, <1>3, <1>4, <1>7, <2>1 DEF StrikesCount, Exhausted
  <2> QED BY <2>1, <2>3, <2>4
<1> QED BY <1>5, <1>6, <1>7

LEMMA StrikesStep ==
    ASSUME TypeOK, StrikesCount, [Next]_vars
    PROVE  StrikesCount'
<1>1. CASE UNCHANGED <<errs, retries, strikes>>
  BY <1>1 DEF StrikesCount, Limit
<1>2. CASE UNCHANGED vars
  BY <1>1, <1>2 DEF vars, puller, job, pool, disk
<1>3. CASE Crash
  <2>1. retries' = 0 /\ errs' = 0 /\ strikes' = 0
    BY <1>3 DEF Crash
  <2>2. 0 * ChunkMaxErrs = 0
    BY RetryAssumption
  <2> QED BY <2>1, <2>2, LimitType DEF StrikesCount
<1>4. CASE OpenBuild
  <2>1. retries' = 0 /\ errs' = 0 /\ strikes' = 0
    BY <1>4 DEF OpenBuild
  <2>2. 0 * ChunkMaxErrs = 0
    BY RetryAssumption
  <2> QED BY <2>1, <2>2, LimitType DEF StrikesCount
<1>5. CASE Resume
  <2>1. retries' = 0 /\ errs' = 0 /\ strikes' = 0
    BY <1>5 DEF Resume, RetriesAfterResume
  <2>2. 0 * ChunkMaxErrs = 0
    BY RetryAssumption
  <2> QED BY <2>1, <2>2, LimitType DEF StrikesCount
<1>6. ASSUME NEW w \in Workers, Mark(w) PROVE StrikesCount'
  <2>1. retries' = retries /\ strikes' = strikes /\ errs' \in {0, errs}
    BY <1>6 DEF Mark
  <2>2. errs \in Nat /\ strikes \in Nat /\ retries * ChunkMaxErrs \in Nat
    BY RetryProducts DEF TypeOK, JobTypeOK
  <2> QED BY <2>1, <2>2, LimitType DEF StrikesCount
<1>7. ASSUME NEW w \in Workers, Broken(w) PROVE StrikesCount'
  BY <1>7, BrokenCounts
<1>8. CASE Acquire \/ Reconnect \/ Close \/ Open \/ ControlNothing \/ Pause
   \/ Cancel \/ Clean \/ ControlSave \/ Restore \/ OpenBarrier \/ OpenRefused
   \/ OpenSave \/ CleanRemove \/ Wake
  BY <1>1, <1>8 DEF Acquire, Reconnect, Close, Open, ControlNothing, Pause, Cancel,
     Clean, ControlSave, Restore, OpenBarrier, OpenRefused, OpenSave, CleanRemove,
     Wake, BeginOpen, Stop, UpdateClock, EndOpen, puller, job, pool, disk
<1>9. ASSUME NEW w \in Workers, Pick(w) \/ Arrive(w) \/ Write(w) \/ Save(w)
   \/ Exit(w) \/ Claim(w) \/ Rest(w) \/ FinDigest(w) \/ FinMetafix(w)
   \/ FinCommit(w) \/ FinDone(w) \/ FinClean(w) \/ FinFail(w) \/ FinSave(w)
      PROVE  StrikesCount'
  BY <1>1, <1>9 DEF Pick, Arrive, Write, Save, Exit, Claim, Rest, FinDigest,
     FinMetafix, FinCommit, FinDone, FinClean, FinFail, FinSave, Goto, FailJob,
     UpdateClock, puller, job, pool, disk
<1> QED BY <1>2, <1>3, <1>4, <1>5, <1>6, <1>7, <1>8, <1>9 DEF Next, User, Opener,
   Fetch, Finalize

-----------------------------------------------------------------------------
(* The saved queue, when every record can be restored before it is overwritten *)

Undisturbed == Races = {}

\* As long as the job of a saved record is not there yet, nothing saves the queue.
QueueKept ==
    /\ status = "none" => op # "save" /\ \A w \in Workers : pc[w] \in {"idle", "exited"}
    /\ status = "none" /\ ctl => phase \in {"restoring", "up"}
    /\ status = "none" /\ queue => phase # "up"
    /\ phase = "restoring" => op \in {"barrier", "build", "save"}

LEMMA QueueStep ==
    ASSUME Undisturbed, TypeOK, QueueKept, [Next]_vars
    PROVE  QueueKept'
<1>1. CASE UNCHANGED <<status, op, ctl, phase, queue, pc>>
  BY <1>1 DEF Undisturbed, QueueKept
<1>2. CASE UNCHANGED vars
  BY <1>1, <1>2 DEF vars, puller, job, pool, disk
<1>3. CASE Crash
  BY <1>3 DEF Crash, Undisturbed, QueueKept, puller, job, pool, disk
<1>4. CASE Acquire
  BY <1>4 DEF Acquire, Undisturbed, QueueKept, puller, job, pool, disk
<1>5. CASE Open
  BY <1>5 DEF Open, BeginOpen, Undisturbed, QueueKept, puller, job, pool, disk
<1>6. CASE ControlNothing
  <2>1. phase \in {"restoring", "up"}
    BY <1>6 DEF ControlNothing, Controllable, Undisturbed, TypeOK, PullerTypeOK
  <2> QED BY <1>6, <2>1 DEF ControlNothing, QueueKept, job, pool, disk
<1>7. CASE Pause
  BY <1>7 DEF Pause, Stop, Controllable, UpdateClock, Undisturbed, QueueKept, puller,
     job, pool, disk
<1>8. CASE Cancel
  BY <1>8 DEF Cancel, Stop, Controllable, UpdateClock, Undisturbed, QueueKept, puller,
     job, pool, disk
<1>9. CASE Resume
  BY <1>9 DEF Resume, Controllable, Kept, RetriesAfterResume, UpdateClock, Undisturbed,
     QueueKept, puller, job, pool, disk
<1>10. CASE Clean
  BY <1>10 DEF Clean, Busy, Undisturbed, QueueKept, puller, job, pool, disk
<1>11. CASE ControlSave
  <2>1. ctl' = FALSE /\ UNCHANGED <<status, phase, op, pc>>
    BY <1>11 DEF ControlSave, job, pool
  <2>2. ASSUME status = "none", queue', ~ queue PROVE phase # "up"
    BY <1>11, <2>2 DEF ControlSave, SaveJobs
  <2> QED BY <2>1, <2>2 DEF QueueKept
<1>12. CASE Restore
  <2>1. CASE queue /\ ~ Busy
    <3>1. phase' = "restoring" /\ op' = "barrier"
      BY <1>12, <2>1 DEF Restore, BeginOpen, Undisturbed
    <3>2. phase = "fresh" /\ UNCHANGED <<status, ctl, queue, pc>>
      BY <1>12 DEF Restore, job, pool, disk
    <3> QED BY <3>1, <3>2 DEF QueueKept
  <2>2. CASE ~ (queue /\ ~ Busy)
    <3>1. phase' = "up" /\ UNCHANGED <<op, status, ctl, queue, pc>>
      BY <1>12, <2>2 DEF Restore, job, pool, disk
    <3>2. status = "none" => ~ queue
      BY <2>2 DEF Busy
    <3> QED BY <3>1, <3>2 DEF QueueKept
  <2> QED BY <2>1, <2>2
<1>13. CASE OpenBarrier
  BY <1>13 DEF OpenBarrier, Undisturbed, QueueKept, puller, job, pool, disk
<1>14. CASE OpenBuild
  BY <1>14 DEF OpenBuild, Loaded, UpdateClock, Undisturbed, QueueKept, puller, job,
     pool, disk
<1>15. CASE OpenRefused
  BY <1>15 DEF OpenRefused, EndOpen, Undisturbed, QueueKept, puller, job, pool, disk
<1>16. CASE OpenSave
  BY <1>16 DEF OpenSave, SaveJobs, EndOpen, Undisturbed, QueueKept, puller, job, pool,
     disk
<1>17. CASE CleanRemove
  BY <1>17 DEF CleanRemove, Undisturbed, QueueKept, puller, job, pool, disk
<1>18. ASSUME NEW w \in Workers, Pick(w) PROVE QueueKept'
  BY <1>18 DEF Pick, Index, Undisturbed, QueueKept, puller, job, pool, disk
<1>19. ASSUME NEW w \in Workers, Arrive(w) PROVE QueueKept'
  BY <1>19 DEF Arrive, Goto, Landed, Undisturbed, QueueKept, puller, job, pool, disk
<1>20. ASSUME NEW w \in Workers, Write(w) PROVE QueueKept'
  BY <1>20 DEF Write, Goto, Undisturbed, QueueKept, puller, job, pool, disk
<1>21. ASSUME NEW w \in Workers, Mark(w) PROVE QueueKept'
  BY <1>21 DEF Mark, Landed, Goto, UpdateClock, Undisturbed, QueueKept, puller, job,
     pool, disk
<1>22. ASSUME NEW w \in Workers, Broken(w) PROVE QueueKept'
  BY <1>22 DEF Broken, Landed, Goto, UpdateClock, Undisturbed, QueueKept, puller, job,
     pool, disk
<1>23. ASSUME NEW w \in Workers, Save(w) PROVE QueueKept'
  BY <1>23 DEF Save, FailJob, UpdateClock, Goto, Undisturbed, QueueKept, puller, job,
     pool, disk
<1>24. ASSUME NEW w \in Workers, Exit(w) PROVE QueueKept'
  BY <1>24 DEF Exit, Goto, Undisturbed, QueueKept, puller, job, pool, disk
<1>25. ASSUME NEW w \in Workers, Claim(w) PROVE QueueKept'
  BY <1>25 DEF Claim, Undisturbed, QueueKept, puller, job, pool, disk
<1>26. ASSUME NEW w \in Workers, Rest(w) PROVE QueueKept'
  BY <1>26 DEF Rest, Goto, Undisturbed, QueueKept, puller, job, pool, disk
<1>27. ASSUME NEW w \in Workers, FinDigest(w) PROVE QueueKept'
  BY <1>27 DEF FinDigest, Goto, FailJob, UpdateClock, Undisturbed, QueueKept, puller,
     job, pool, disk
<1>28. ASSUME NEW w \in Workers, FinMetafix(w) PROVE QueueKept'
  BY <1>28 DEF FinMetafix, Goto, Undisturbed, QueueKept, puller, job, pool, disk
<1>29. ASSUME NEW w \in Workers, FinCommit(w) PROVE QueueKept'
  BY <1>29 DEF FinCommit, Goto, Undisturbed, QueueKept, puller, job, pool, disk
<1>30. ASSUME NEW w \in Workers, FinDone(w) PROVE QueueKept'
  BY <1>30 DEF FinDone, UpdateClock, Goto, Undisturbed, QueueKept, puller, job, pool,
     disk
<1>31. ASSUME NEW w \in Workers, FinClean(w) PROVE QueueKept'
  BY <1>31 DEF FinClean, Goto, Undisturbed, QueueKept, puller, job, pool, disk
<1>32. ASSUME NEW w \in Workers, FinFail(w) PROVE QueueKept'
  BY <1>32 DEF FinFail, FailJob, UpdateClock, Goto, Undisturbed, QueueKept, puller,
     job, pool, disk
<1>33. ASSUME NEW w \in Workers, FinSave(w) PROVE QueueKept'
  BY <1>33 DEF FinSave, SaveJobs, Goto, Undisturbed, QueueKept, puller, job, pool, disk
<1>34. CASE Reconnect \/ Close \/ Wake
  BY <1>1, <1>34 DEF Reconnect, Close, Wake, puller, job, pool, disk
<1> QED BY <1>2, <1>3, <1>4, <1>5, <1>6, <1>7, <1>8, <1>9, <1>10, <1>11, <1>12, <1>13,
   <1>14, <1>15, <1>16, <1>17, <1>18, <1>19, <1>20, <1>21, <1>22, <1>23, <1>24, <1>25,
   <1>26, <1>27, <1>28, <1>29, <1>30, <1>31, <1>32, <1>33, <1>34 DEF Next, User,
   Opener, Fetch, Finalize

-----------------------------------------------------------------------------
(* What a step may never do *)

LEMMA PublishStep ==
    ASSUME CommitVerified, [Next]_vars
    PROVE  (files' # files => files' = Append(files, Chunk))
<1>1. CASE UNCHANGED <<files>>
  BY <1>1 DEF CommitVerified
<1>2. CASE UNCHANGED vars
  BY <1>1, <1>2 DEF vars, puller, job, pool, disk
<1>3. ASSUME NEW w \in Workers, FinCommit(w) PROVE (files' # files => files' = Append(files, Chunk))
  BY <1>3 DEF FinCommit, MayCommit, Canceled, CommitVerified
<1>4. CASE Crash \/ Acquire \/ Reconnect \/ Close \/ Open \/ ControlNothing \/ Pause
   \/ Cancel \/ Resume \/ Clean \/ ControlSave \/ Restore \/ OpenBarrier
   \/ OpenBuild \/ OpenRefused \/ OpenSave \/ CleanRemove \/ Wake
  BY <1>1, <1>4 DEF Crash, Acquire, Reconnect, Close, Open, ControlNothing, Pause,
     Cancel, Resume, Clean, ControlSave, Restore, OpenBarrier, OpenBuild, OpenRefused,
     OpenSave, CleanRemove, Wake, BeginOpen, Stop, UpdateClock, EndOpen, puller, job,
     pool, disk
<1>5. ASSUME NEW w \in Workers, Pick(w) \/ Arrive(w) \/ Write(w) \/ Mark(w)
   \/ Broken(w) \/ Save(w) \/ Exit(w) \/ Claim(w) \/ Rest(w) \/ FinDigest(w)
   \/ FinMetafix(w) \/ FinDone(w) \/ FinClean(w) \/ FinFail(w) \/ FinSave(w)
      PROVE  (files' # files => files' = Append(files, Chunk))
  BY <1>1, <1>5 DEF Pick, Arrive, Write, Mark, Broken, Save, Exit, Claim, Rest,
     FinDigest, FinMetafix, FinDone, FinClean, FinFail, FinSave, Goto, UpdateClock,
     FailJob, puller, job, pool, disk
<1> QED BY <1>2, <1>3, <1>4, <1>5 DEF Next, User, Opener, Fetch, Finalize

LEMMA ForgetStep ==
    ASSUME TypeOK, QueueKept, [Next]_vars
    PROVE  (queue /\ ~ queue' => status \in Settled)
<1>1. CASE UNCHANGED <<queue>>
  BY <1>1 DEF QueueKept
<1>2. CASE UNCHANGED vars
  BY <1>1, <1>2 DEF vars, puller, job, pool, disk
<1>3. CASE ControlSave
  <2>1. queue' = queue \/ (phase # "restoring" /\ SaveJobs)
    BY <1>3 DEF ControlSave, SaveJobs
  <2>2. CASE status # "none"
    BY <2>1, <2>2 DEF SaveJobs
  <2>3. CASE status = "none"
    BY <1>3, <2>1, <2>3 DEF ControlSave, QueueKept, TypeOK, PullerTypeOK
  <2> QED BY <2>2, <2>3
<1>4. CASE OpenSave
  <2>1. queue' = queue \/ (phase # "restoring" /\ SaveJobs)
    BY <1>4 DEF OpenSave, SaveJobs
  <2>2. CASE status # "none"
    BY <2>1, <2>2 DEF SaveJobs
  <2>3. CASE status = "none"
    BY <1>4, <2>1, <2>3 DEF OpenSave, QueueKept, TypeOK, PullerTypeOK
  <2> QED BY <2>2, <2>3
<1>5. ASSUME NEW w \in Workers, FinSave(w) PROVE (queue /\ ~ queue' => status \in Settled)
  <2>1. queue' = queue \/ (phase # "restoring" /\ SaveJobs)
    BY <1>5 DEF FinSave, SaveJobs
  <2>2. CASE status # "none"
    BY <2>1, <2>2 DEF SaveJobs
  <2>3. CASE status = "none"
    BY <1>5, <2>1, <2>3 DEF FinSave, QueueKept, TypeOK, PullerTypeOK
  <2> QED BY <2>2, <2>3
<1>6. CASE Crash \/ Acquire \/ Reconnect \/ Close \/ Open \/ ControlNothing \/ Pause
   \/ Cancel \/ Resume \/ Clean \/ Restore \/ OpenBarrier \/ OpenBuild
   \/ OpenRefused \/ CleanRemove \/ Wake
  BY <1>1, <1>6 DEF Crash, Acquire, Reconnect, Close, Open, ControlNothing, Pause,
     Cancel, Resume, Clean, Restore, OpenBarrier, OpenBuild, OpenRefused, CleanRemove,
     Wake, BeginOpen, Stop, UpdateClock, EndOpen, puller, job, pool, disk
<1>7. ASSUME NEW w \in Workers, Pick(w) \/ Arrive(w) \/ Write(w) \/ Mark(w)
   \/ Broken(w) \/ Save(w) \/ Exit(w) \/ Claim(w) \/ Rest(w) \/ FinDigest(w)
   \/ FinMetafix(w) \/ FinCommit(w) \/ FinDone(w) \/ FinClean(w) \/ FinFail(w)
      PROVE  (queue /\ ~ queue' => status \in Settled)
  BY <1>1, <1>7 DEF Pick, Arrive, Write, Mark, Broken, Save, Exit, Claim, Rest,
     FinDigest, FinMetafix, FinCommit, FinDone, FinClean, FinFail, Goto, UpdateClock,
     FailJob, puller, job, pool, disk
<1> QED BY <1>2, <1>3, <1>4, <1>5, <1>6, <1>7 DEF Next, User, Opener, Fetch, Finalize

LEMMA GiveUpStep ==
    ASSUME TypeOK, StrikesCount, [Next]_vars
    PROVE  (GivesUp /\ status # "error" /\ status' = "error" => strikes' = Limit)
<1>1. CASE UNCHANGED <<pc>>
  BY <1>1 DEF GivesUp, TypeOK, PoolTypeOK
<1>2. CASE UNCHANGED vars
  BY <1>1, <1>2 DEF vars, puller, job, pool, disk
<1>3. CASE Crash
  BY <1>3 DEF Crash, GivesUp, TypeOK, PoolTypeOK, puller, job, pool, disk
<1>4. ASSUME NEW w \in Workers, Pick(w) PROVE (GivesUp /\ status # "error" /\ status' = "error" => strikes' = Limit)
  BY <1>4 DEF Pick, Index, GivesUp, TypeOK, PoolTypeOK, puller, job, pool, disk
<1>5. ASSUME NEW w \in Workers, Arrive(w) PROVE (GivesUp /\ status # "error" /\ status' = "error" => strikes' = Limit)
  BY <1>5 DEF Arrive, Goto, Landed, GivesUp, TypeOK, PoolTypeOK, puller, job, pool, disk
<1>6. ASSUME NEW w \in Workers, Write(w) PROVE (GivesUp /\ status # "error" /\ status' = "error" => strikes' = Limit)
  BY <1>6 DEF Write, Goto, GivesUp, TypeOK, PoolTypeOK, puller, job, pool, disk
<1>7. ASSUME NEW w \in Workers, Mark(w) PROVE (GivesUp /\ status # "error" /\ status' = "error" => strikes' = Limit)
  BY <1>7 DEF Mark, Landed, Goto, UpdateClock, GivesUp, TypeOK, PoolTypeOK, puller,
     job, pool, disk
<1>8. ASSUME NEW w \in Workers, Broken(w) PROVE (GivesUp /\ status # "error" /\ status' = "error" => strikes' = Limit)
  BY <1>8, BrokenCounts
<1>9. ASSUME NEW w \in Workers, Save(w) PROVE (GivesUp /\ status # "error" /\ status' = "error" => strikes' = Limit)
  BY <1>9 DEF Save, FailJob, UpdateClock, Goto, GivesUp, TypeOK, PoolTypeOK, puller,
     job, pool, disk
<1>10. ASSUME NEW w \in Workers, Exit(w) PROVE (GivesUp /\ status # "error" /\ status' = "error" => strikes' = Limit)
  BY <1>10 DEF Exit, Goto, GivesUp, TypeOK, PoolTypeOK, puller, job, pool, disk
<1>11. ASSUME NEW w \in Workers, Claim(w) PROVE (GivesUp /\ status # "error" /\ status' = "error" => strikes' = Limit)
  BY <1>11 DEF Claim, GivesUp, TypeOK, PoolTypeOK, puller, job, pool, disk
<1>12. ASSUME NEW w \in Workers, Rest(w) PROVE (GivesUp /\ status # "error" /\ status' = "error" => strikes' = Limit)
  BY <1>12 DEF Rest, Goto, GivesUp, TypeOK, PoolTypeOK, puller, job, pool, disk
<1>13. ASSUME NEW w \in Workers, FinDigest(w) PROVE (GivesUp /\ status # "error" /\ status' = "error" => strikes' = Limit)
  BY <1>13 DEF FinDigest, Goto, FailJob, UpdateClock, GivesUp, TypeOK, PoolTypeOK,
     puller, job, pool, disk
<1>14. ASSUME NEW w \in Workers, FinMetafix(w) PROVE (GivesUp /\ status # "error" /\ status' = "error" => strikes' = Limit)
  BY <1>14 DEF FinMetafix, Goto, GivesUp, TypeOK, PoolTypeOK, puller, job, pool, disk
<1>15. ASSUME NEW w \in Workers, FinCommit(w) PROVE (GivesUp /\ status # "error" /\ status' = "error" => strikes' = Limit)
  BY <1>15 DEF FinCommit, Goto, GivesUp, TypeOK, PoolTypeOK, puller, job, pool, disk
<1>16. ASSUME NEW w \in Workers, FinDone(w) PROVE (GivesUp /\ status # "error" /\ status' = "error" => strikes' = Limit)
  BY <1>16 DEF FinDone, UpdateClock, Goto, GivesUp, TypeOK, PoolTypeOK, puller, job,
     pool, disk
<1>17. ASSUME NEW w \in Workers, FinClean(w) PROVE (GivesUp /\ status # "error" /\ status' = "error" => strikes' = Limit)
  BY <1>17 DEF FinClean, Goto, GivesUp, TypeOK, PoolTypeOK, puller, job, pool, disk
<1>18. ASSUME NEW w \in Workers, FinFail(w) PROVE (GivesUp /\ status # "error" /\ status' = "error" => strikes' = Limit)
  BY <1>18 DEF FinFail, FailJob, UpdateClock, Goto, GivesUp, TypeOK, PoolTypeOK,
     puller, job, pool, disk
<1>19. ASSUME NEW w \in Workers, FinSave(w) PROVE (GivesUp /\ status # "error" /\ status' = "error" => strikes' = Limit)
  BY <1>19 DEF FinSave, SaveJobs, Goto, GivesUp, TypeOK, PoolTypeOK, puller, job, pool,
     disk
<1>20. CASE Acquire \/ Reconnect \/ Close \/ Open \/ ControlNothing \/ Pause
   \/ Cancel \/ Resume \/ Clean \/ ControlSave \/ Restore \/ OpenBarrier
   \/ OpenBuild \/ OpenRefused \/ OpenSave \/ CleanRemove \/ Wake
  BY <1>1, <1>20 DEF Acquire, Reconnect, Close, Open, ControlNothing, Pause, Cancel,
     Resume, Clean, ControlSave, Restore, OpenBarrier, OpenBuild, OpenRefused,
     OpenSave, CleanRemove, Wake, BeginOpen, Stop, UpdateClock, EndOpen, puller, job,
     pool, disk
<1> QED BY <1>2, <1>3, <1>4, <1>5, <1>6, <1>7, <1>8, <1>9, <1>10, <1>11, <1>12, <1>13,
   <1>14, <1>15, <1>16, <1>17, <1>18, <1>19, <1>20 DEF Next, User, Opener, Fetch,
   Finalize

-----------------------------------------------------------------------------
(* Theorems *)

LEMMA InitOK == Init => TypeOK /\ Owned /\ ClockRuns /\ StrikesCount /\ QueueKept
<1> SUFFICES ASSUME Init PROVE TypeOK /\ Owned /\ ClockRuns /\ StrikesCount /\ QueueKept
  OBVIOUS
<1>1. PullerTypeOK /\ JobTypeOK /\ used \in Nat
  BY DEF Init, PullerTypeOK, JobTypeOK, Status
<1>2. DiskTypeOK
  <2>1. part \in Stored /\ meta \in Stored
    BY StoredType DEF Init
  <2>2. queue \in BOOLEAN /\ files \in Seq(SUBSET Chunk)
    BY EmptySeq DEF Init
  <2> QED BY <2>1, <2>2 DEF DiskTypeOK
<1>3. PoolTypeOK
  BY PcType DEF Init, PoolTypeOK, NoWork
<1>4. \A w \in Workers : pc[w] = "idle" /\ work[w].gen = gen
  BY DEF Init, NoWork
<1>5. Owned
  <2>1. GenBound /\ IoMutex
    BY <1>1, <1>4 DEF GenBound, JobTypeOK, IoMutex, Holding, Fetched, Final
  <2>2. inflight = {} /\ \A w \in Workers : ~ Fetching(w) /\ ~ Finalizing(w)
    BY <1>4 DEF Init, Fetching, Finalizing
  <2> QED BY <1>4, <2>1, <2>2
          DEF Owned, InflightOwned, FinalizerKeeps, CommitVerified
<1>6. ClockRuns
  BY DEF Init, ClockRuns, Running
<1>7. StrikesCount
  <2>1. 0 * ChunkMaxErrs = 0
    BY RetryAssumption
  <2> QED BY <2>1, LimitType DEF Init, StrikesCount
<1>8. QueueKept
  BY DEF Init, QueueKept
<1> QED BY <1>1, <1>2, <1>3, <1>5, <1>6, <1>7, <1>8 DEF TypeOK

\* The variables keep their types.
THEOREM Types == Spec => []TypeOK
<1>1. Init => TypeOK
  BY InitOK
<1>2. TypeOK /\ [Next]_vars => TypeOK'
  BY TypeStep
<1> QED BY <1>1, <1>2, PTL DEF Spec

LEMMA OwnedAlways == Spec => []Owned
<1>1. Init => Owned
  BY InitOK
<1>2. TypeOK /\ Owned /\ [Next]_vars => Owned'
  BY GenBoundStep, IoMutexStep, InflightStep, FinalizerStep, CommitStep DEF Owned
<1> QED BY <1>1, <1>2, Types, PTL DEF Spec

\* A chunk in flight is fetched by one worker of its generation, and a chunk
\* that nobody fetches is not in flight: pick, resume and the replacement of the
\* job never leave a mark behind (receiver.go:534-538, 565-580, 1042).
THEOREM InflightIsOwned == Spec => []InflightOwned
<1>1. Owned => InflightOwned
  BY DEF Owned
<1> QED BY <1>1, OwnedAlways, PTL

\* One finalizer at a time has the job, and nobody fetches for it meanwhile
\* (receiver.go:641-654).
THEOREM FinalizerIsAlone == Spec => []FinalizeOwns
<1>1. ASSUME Owned PROVE FinalizeOwns
  <2>1. status = "finalizing" => \A w \in Workers : ~ Fetching(w)
    BY <1>1 DEF Owned, FinalizerKeeps, InflightOwned
  <2> QED BY <1>1, <2>1 DEF Owned, FinalizerKeeps, FinalizeOwns
<1> QED BY <1>1, OwnedAlways, PTL

\* The clock of the progress report runs exactly while the job does
\* (receiver.go:1070-1084).
THEOREM ClockIsRight == Spec => []ClockRuns
<1>1. Init => ClockRuns
  BY InitOK
<1>2. ClockRuns /\ [Next]_vars => ClockRuns'
  BY ClockStep
<1> QED BY <1>1, <1>2, PTL DEF Spec

\* Only a file that has every chunk is published (receiver.go:660-692).
THEOREM OnlyVerified == Spec => PublishedVerified
<1>1. Owned /\ [Next]_vars => [files' # files => files' = Append(files, Chunk)]_files
  BY PublishStep DEF Owned
<1> QED BY <1>1, OwnedAlways, PTL DEF Spec, PublishedVerified

\* Failing chunks end a job only after all the retries (receiver.go:593-602).
THEOREM LateGiveUp == Spec => GivesUpLate
<1>1. Init => StrikesCount
  BY InitOK
<1>2. TypeOK /\ StrikesCount /\ [Next]_vars => StrikesCount'
  BY StrikesStep
<1>3. TypeOK /\ StrikesCount /\ [Next]_vars
      => [GivesUp /\ status # "error" /\ status' = "error" => strikes' = Limit]_vars
  BY GiveUpStep
<1> QED BY <1>1, <1>2, <1>3, Types, PTL DEF Spec, GivesUpLate

\* Without the overlaps of Races the queue file forgets only finished and
\* canceled jobs (receiver.go:889-958).
THEOREM QueueIsKept == ASSUME Undisturbed PROVE Spec => QueueNeverForgets
<1>1. Init => QueueKept
  BY InitOK
<1>2. TypeOK /\ QueueKept /\ [Next]_vars => QueueKept'
  BY QueueStep
<1>3. TypeOK /\ QueueKept /\ [Next]_vars
      => [queue /\ ~ queue' => status \in Settled]_queue
  BY ForgetStep
<1> QED BY <1>1, <1>2, <1>3, Types, PTL DEF Spec, QueueNeverForgets

=============================================================================
