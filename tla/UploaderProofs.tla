--------------------------- MODULE UploaderProofs ---------------------------
(***************************************************************************)
(* Proofs about Uploader, for every value of its constants: types, the       *)
(* ownership of tasks, and that uploading implements Delivery.               *)
(***************************************************************************)
EXTENDS Uploader, SequenceTheorems, TLAPS

-----------------------------------------------------------------------------
(* Answers *)

LEMMA RefusalType ==
    ASSUME NEW code \in Code PROVE Refusal(code) \in Answer
BY DEF Refusal, Answer, Code, Status

LEMMA ReportType ==
    ASSUME ReceiverTypeOK, NEW j \in Job PROVE Report(j) \in Answer
BY ProtocolAssumption DEF ReceiverTypeOK, Report, Answer, Code, Job, Status

LEMMA ReachType ==
    ASSUME NEW t, NEW id
    PROVE  /\ Reach(t, id) \in Code
           /\ Reach(t, id) = "ok" => job.status # "none"
BY DEF Reach, Code

LEMMA ChunkCodeType ==
    ASSUME NEW t, NEW id, NEW g, NEW c, NEW v
    PROVE  /\ ChunkCode(t, id, g, c, v) \in Code
           /\ ChunkCode(t, id, g, c, v) = "ok" => job.status \in Unsealed
BY ReachType DEF ChunkCode, Code

\* The job an open leaves is a proper one: it has a name, and it is ready for
\* verification only when it is complete and has its digest.
LEMMA OpenedJobType ==
    ASSUME ReceiverTypeOK, NEW v \in Version
    PROVE  /\ OpenedJob(v) \in Job
           /\ OpenedJob(v).key # 0 /\ OpenedJob(v).status # "none"
           /\ OpenedJob(v).status = "verifying" =>
                 OpenedJob(v).sha # 0 /\ Full(Marks(OpenedJob(v)))
<1>1. KeyOf(v) \in Key /\ KeyOf(v) # 0 /\ DigestOf(v) \in Version \cup {0}
  BY VersionAssumption DEF KeyOf, DigestOf, Key, Version
<1>2. ASSUME NEW g \in Nat
      PROVE  /\ Fresh(v, g) \in Job /\ Fresh(v, g).key # 0
             /\ Fresh(v, g).status # "none"
             /\ Fresh(v, g).status = "verifying" =>
                   Fresh(v, g).sha # 0 /\ Full(Marks(Fresh(v, g)))
  BY <1>1, <1>2 DEF Fresh, Ready, Job, Status, Full, Marks
<1>3. /\ Restored \in Job /\ (Restored.status = "none" <=> Restored.key = 0)
      /\ Restored.status = "verifying" => Restored.sha # 0 /\ Full(Marks(Restored))
  BY DEF ReceiverTypeOK, Restored, Ready, Job, Status, Full, Marks
<1>4. Restored.gen + 1 \in Nat
  BY <1>3 DEF Job
<1>5. CASE Replaces(v)
  BY <1>2, <1>4, <1>5 DEF OpenedJob
<1>6. CASE ~ Replaces(v)
  BY <1>3, <1>6 DEF OpenedJob, Replaces
<1> QED BY <1>5, <1>6

LEMMA OpenReplyType ==
    ASSUME ReceiverTypeOK, NEW t, NEW v \in Version
    PROVE  OpenReply(t, v) \in Answer
BY OpenedJobType, ReportType, RefusalType DEF OpenReply, Code

LEMMA StatusReplyType ==
    ASSUME ReceiverTypeOK, NEW t, NEW id
    PROVE  StatusReply(t, id) \in Answer
BY ReachType, ReportType, RefusalType DEF StatusReply, ReceiverTypeOK

LEMMA SealedType ==
    ASSUME ReceiverTypeOK, NEW s \in Version, NEW t, NEW id, NEW g,
           FinishCode(t, id, g, s) = "ok"
    PROVE  /\ Sealed(s) \in Job /\ Sealed(s).key # 0 /\ Sealed(s).status # "none"
           /\ Sealed(s).status = "verifying" => Sealed(s).sha # 0 /\ Full(Marks(Sealed(s)))
<1>1. /\ job \in Job /\ job.status # "none" /\ job.key # 0
      /\ job.status # "done" => Full(Marks(job))
  BY ReachType DEF ReceiverTypeOK, FinishCode
<1>2. s \in Version \cup {0} /\ s # 0
  BY VersionAssumption DEF Version
<1>3. /\ Sealed(s) \in Job /\ Sealed(s).key = job.key /\ Sealed(s).sha = s
      /\ Sealed(s).status = IF job.status = "done" THEN "done" ELSE "verifying"
  BY <1>1, <1>2 DEF Sealed, Job, Status
<1>4. Marks(Sealed(s)) = Marks(job)
  BY <1>3 DEF Marks
<1> QED BY <1>1, <1>2, <1>3, <1>4

LEMMA FinishReplyType ==
    ASSUME ReceiverTypeOK, NEW t, NEW id, NEW g, NEW s \in Version
    PROVE  FinishReply(t, id, g, s) \in Answer
BY SealedType, ReportType, RefusalType, ReachType DEF FinishReply, FinishCode, Code

-----------------------------------------------------------------------------
(* The receiver's types *)

LEMMA ServeOpenType ==
    ASSUME ReceiverTypeOK, NEW t, NEW v \in Version, ServeOpen(t, v)
    PROVE  ReceiverTypeOK'
BY OpenedJobType DEF ServeOpen, ReceiverTypeOK, receiver, Full, Marks

LEMMA ServeChunkType ==
    ASSUME ReceiverTypeOK, NEW t, NEW id, NEW g, NEW c \in Chunk, NEW v \in Version,
           ServeChunk(t, id, g, c, v) \/ ServeChunkFails(t, id, g, c, v)
    PROVE  ReceiverTypeOK'
<1>1. CASE ChunkCode(t, id, g, c, v) # "ok"
  BY <1>1 DEF ServeChunk, ServeChunkFails, ReceiverTypeOK, receiver, Full, Marks
<1>2. CASE ChunkCode(t, id, g, c, v) = "ok"
  <2>1. job \in Job /\ job.key \in Key /\ job.key # 0 /\ job.status \in Unsealed
    BY <1>2, ChunkCodeType DEF ReceiverTypeOK, Job, Unsealed
  <2>2. CASE ServeChunkFails(t, id, g, c, v)
    BY <2>1, <2>2 DEF ServeChunkFails, ReceiverTypeOK, Job, Status, Unsealed
  <2>3. CASE ServeChunk(t, id, g, c, v)
    <3> DEFINE marks == [Marks(job) EXCEPT ![c] = v]
    <3>1. marks \in [Chunk -> Version \cup {0}]
      BY <2>1 DEF Marks, ReceiverTypeOK
    <3>2. /\ cache' = [cache EXCEPT ![job.key] = marks]
          /\ job' = [job EXCEPT !.status =
                        IF Full(marks) /\ job.sha # 0 THEN "verifying" ELSE "active"]
          /\ UNCHANGED <<proc, opened, published>>
      BY <1>2, <2>3 DEF ServeChunk
    <3>3. cache' \in [Key -> [Chunk -> Version \cup {0}]] /\ cache'[job.key] = marks
      BY <2>1, <3>1, <3>2 DEF ReceiverTypeOK
    <3>4. /\ job' \in Job /\ job'.key = job.key /\ job'.sha = job.sha
          /\ job'.status = IF Full(marks) /\ job.sha # 0 THEN "verifying" ELSE "active"
      BY <2>1, <3>2 DEF Job, Status
    <3>5. Marks(job)' = marks
      BY <2>1, <3>3, <3>4 DEF Marks
    <3>6. job'.status = "verifying" => job'.sha # 0 /\ Full(Marks(job)')
      BY <3>4, <3>5
    <3> QED BY <2>1, <3>2, <3>3, <3>4, <3>6 DEF ReceiverTypeOK, Full
  <2> QED BY <2>2, <2>3
<1> QED BY <1>1, <1>2

LEMMA ServeFinishType ==
    ASSUME ReceiverTypeOK, NEW t, NEW id, NEW g, NEW s \in Version,
           ServeFinish(t, id, g, s)
    PROVE  ReceiverTypeOK'
BY SealedType DEF ServeFinish, ReceiverTypeOK, receiver, Full, Marks

LEMMA ServeFailType ==
    ASSUME ReceiverTypeOK, NEW t, NEW id, NEW g, ServeFail(t, id, g)
    PROVE  ReceiverTypeOK'
BY ReachType DEF ServeFail, FailReaches, ReceiverTypeOK, receiver, Job, Status, Full, Marks

LEMMA VerifyType ==
    ASSUME ReceiverTypeOK, Verify \/ VerifyFails
    PROVE  ReceiverTypeOK'
<1>1. CASE VerifyFails
  BY <1>1 DEF VerifyFails, ReceiverTypeOK, Job, Status
<1>2. CASE Verify
  <2>1. /\ job.key \in Key /\ job.key # 0 /\ job.sha \in Version
        /\ Marks(job) \in [Chunk -> Version \cup {0}]
        /\ \A c \in Chunk : Marks(job)[c] # 0
    BY <1>2 DEF Verify, ReceiverTypeOK, Job, Marks, Full
  <2>2. Marks(job) \in [Chunk -> Version]
    BY <2>1
  <2>3. cache' \in [Key -> [Chunk -> Version \cup {0}]]
    BY <1>2, <2>1 DEF Verify, ReceiverTypeOK, Nothing
  <2>4. /\ job' \in Job /\ job'.key = job.key /\ job'.status \in {"done", "error"}
    BY <1>2, ProtocolAssumption DEF Verify, ReceiverTypeOK, Job, Status
  <2>5. published' \subseteq [Chunk -> Version]
    BY <1>2, <2>2 DEF Verify, ReceiverTypeOK
  <2> QED BY <1>2, <2>1, <2>3, <2>4, <2>5 DEF Verify, ReceiverTypeOK
<1> QED BY <1>1, <1>2

LEMMA UserType ==
    ASSUME ReceiverTypeOK, Pause \/ Cancel \/ Resume
    PROVE  ReceiverTypeOK'
<1>1. CASE Pause
  BY <1>1 DEF Pause, ReceiverTypeOK, Job, Status
<1>2. CASE Cancel
  BY <1>2 DEF Cancel, ReceiverTypeOK, Job, Status
<1>3. CASE Resume
  <2>1. /\ job' \in Job /\ job'.key = job.key /\ job'.sha = job.sha
        /\ job'.status = Ready(job) /\ job.status # "none"
    <3>1. job' = [key |-> job.key, sha |-> job.sha, status |-> Ready(job),
                  gen |-> job.gen + 1]
      BY <1>3 DEF Resume, ReceiverTypeOK, Job
    <3>2. Ready(job) \in Status /\ job.gen + 1 \in Nat /\ job.status # "none"
      BY <1>3 DEF Resume, ReceiverTypeOK, Ready, Job, Status
    <3> QED BY <3>1, <3>2 DEF ReceiverTypeOK, Job
  <2>2. Marks(job)' = Marks(job)
    BY <1>3, <2>1 DEF Resume, Marks
  <2>3. job'.status = "verifying" => job'.sha # 0 /\ Full(Marks(job)')
    BY <2>1, <2>2 DEF Ready
  <2>4. job'.status # "none" /\ job'.key # 0
    BY <2>1 DEF ReceiverTypeOK, Ready
  <2> QED BY <1>3, <2>1, <2>3, <2>4 DEF Resume, ReceiverTypeOK, Full
<1> QED BY <1>1, <1>2, <1>3

LEMMA RestartType ==
    ASSUME ReceiverTypeOK, Restart
    PROVE  ReceiverTypeOK'
<1>1. NoJob \in Job
  BY DEF NoJob, Job, Status
<1>2. /\ job' \in Job /\ job'.status # "verifying"
      /\ job'.status = "none" <=> job'.key = 0
  <2>1. CASE job.status \in Settled \cup {"none"}
    BY <1>1, <2>1 DEF Restart, NoJob
  <2>2. CASE job.status \notin Settled \cup {"none"}
    <3>1. job' = [key |-> job.key, sha |-> job.sha, status |-> "saved", gen |-> 0]
      BY <2>2 DEF Restart, ReceiverTypeOK, Job
    <3>2. job.key # 0 /\ job.key \in Key \cup {0} /\ job.sha \in Version \cup {0}
      BY <2>2 DEF ReceiverTypeOK, Job
    <3>3. job' \in Job
      BY <3>1, <3>2 DEF Job, Status
    <3> QED BY <3>1, <3>2, <3>3
  <2> QED BY <2>1, <2>2
<1>3. /\ proc' \in Nat /\ opened' \in BOOLEAN
      /\ cache' = cache /\ published' = published
  <2>1. proc' = proc + 1 /\ opened' \in BOOLEAN
    BY DEF Restart
  <2>2. proc \in Nat
    BY DEF ReceiverTypeOK
  <2>3. cache' = cache /\ published' = published
    BY DEF Restart
  <2> QED BY <2>1, <2>2, <2>3
<1> QED BY <1>2, <1>3 DEF ReceiverTypeOK

-----------------------------------------------------------------------------
(* Tasks and their owners *)

Tables == tasks \in Seq(Task) /\ work \in [Workers -> Local]
Core == TypeOK /\ OneWorkerPerTask

LEMMA IdleType == Idle \in Local
BY RefusalType DEF Idle, Local, WorkPc, Code

LEMMA OwnTask ==
    ASSUME Core, NEW w \in Workers, work[w].pc # "idle"
    PROVE  /\ work[w].task \in DOMAIN tasks /\ Mine(w) \in Task /\ Mine(w).busy
           /\ work[w] \in Local /\ work[w].ans \in Answer /\ work[w].ans.gen \in Nat
BY ElementOfSeq, LenProperties
   DEF Core, TypeOK, SenderTypeOK, OneWorkerPerTask, Mine, Local, Answer

\* A worker may change its task and go on with it.
LEMMA Continues ==
    ASSUME Core, NEW w \in Workers, work[w].pc # "idle",
           NEW l \in Local, l.task = work[w].task, Hold(w, l),
           NEW t \in Task, t.busy, tasks' = [tasks EXCEPT ![work[w].task] = t]
    PROVE  Tables' /\ OneWorkerPerTask'
<1>1. work[w].task \in DOMAIN tasks /\ tasks \in Seq(Task) /\ work \in [Workers -> Local]
  BY OwnTask DEF Core, TypeOK, SenderTypeOK
<1>2. tasks' \in Seq(Task) /\ DOMAIN tasks' = DOMAIN tasks
  BY <1>1, ExceptSeq, LenProperties
<1>3. /\ work' \in [Workers -> Local] /\ work'[w] = l
      /\ \A u \in Workers \ {w} : work'[u] = work[u]
  BY <1>1 DEF Hold
<1>4. \A i \in DOMAIN tasks : tasks'[i] = IF i = work[w].task THEN t ELSE tasks[i]
  BY <1>1
<1>5. OneWorkerPerTask'
  BY <1>1, <1>2, <1>3, <1>4 DEF OneWorkerPerTask, Core
<1> QED BY <1>2, <1>3, <1>5 DEF Tables

\* A worker may let its task go.
LEMMA Releases ==
    ASSUME Core, NEW w \in Workers, work[w].pc # "idle",
           NEW task \in Task, NEW done \in BOOLEAN, Release(w, task, done)
    PROVE  Tables' /\ OneWorkerPerTask'
<1> DEFINE t == [task EXCEPT !.busy = FALSE, !.done = done]
<1>1. work[w].task \in DOMAIN tasks /\ tasks \in Seq(Task) /\ work \in [Workers -> Local]
  BY OwnTask DEF Core, TypeOK, SenderTypeOK
<1>2. t \in Task
  BY DEF Task
<1>3. tasks' = [tasks EXCEPT ![work[w].task] = t]
  BY DEF Release
<1> HIDE DEF t
<1>4. tasks' \in Seq(Task) /\ DOMAIN tasks' = DOMAIN tasks
  BY <1>1, <1>2, <1>3, ExceptSeq, LenProperties
<1>5. /\ work' \in [Workers -> Local] /\ work'[w].pc = "idle"
      /\ \A u \in Workers \ {w} : work'[u] = work[u]
  BY <1>1, IdleType DEF Release, Hold, Idle
<1>6. \A i \in DOMAIN tasks \ {work[w].task} : tasks'[i] = tasks[i]
  BY <1>1, <1>3
<1>7. \A u \in Workers \ {w} : work[u].pc # "idle" => work[u].task # work[w].task
  BY DEF Core, OneWorkerPerTask
<1>8. OneWorkerPerTask'
  BY <1>4, <1>5, <1>6, <1>7 DEF OneWorkerPerTask, Core
<1> QED BY <1>4, <1>5, <1>8 DEF Tables

\* An idle worker may take a task that nobody has.
LEMMA Takes ==
    ASSUME Core, NEW w \in Workers, NEW t \in DOMAIN tasks, Take(w, t)
    PROVE  Tables' /\ OneWorkerPerTask'
<1>1. /\ tasks \in Seq(Task) /\ work \in [Workers -> Local] /\ t \in 1 .. Len(tasks)
      /\ tasks[t] \in Task
  BY ElementOfSeq, LenProperties DEF Core, TypeOK, SenderTypeOK
<1>2. [tasks[t] EXCEPT !.busy = TRUE] \in Task
  BY <1>1 DEF Task
<1>3. /\ tasks' \in Seq(Task) /\ DOMAIN tasks' = DOMAIN tasks
      /\ tasks'[t].busy /\ \A i \in DOMAIN tasks \ {t} : tasks'[i] = tasks[i]
  BY <1>1, <1>2, ExceptSeq, LenProperties DEF Take, Task
<1>4. PICK l \in Local : l.task = t /\ l.pc = "answer" /\ Hold(w, l)
  <2>1. t \in Nat
    BY <1>1, LenProperties
  <2>2. StatusReply(token, tasks[t].id) \in Answer
    BY StatusReplyType DEF Core, TypeOK
  <2>3. /\ [Idle EXCEPT !.pc = "answer", !.task = t] \in Local
        /\ [Idle EXCEPT !.pc = "answer", !.task = t, !.ans = StatusReply(token, tasks[t].id)]
              \in Local
    BY <2>1, <2>2, IdleType DEF Local, WorkPc, Idle
  <2> QED BY <2>3 DEF Take, Idle
<1>5. /\ work' \in [Workers -> Local] /\ work'[w] = l
      /\ \A u \in Workers \ {w} : work'[u] = work[u]
  BY <1>1, <1>4 DEF Hold
<1>6. \A u \in Workers : work[u].pc # "idle" => work[u].task # t
  BY DEF Take, Free, Core, OneWorkerPerTask
<1>7. OneWorkerPerTask'
  BY <1>3, <1>4, <1>5, <1>6 DEF OneWorkerPerTask, Core
<1> QED BY <1>3, <1>5, <1>7 DEF Tables

-----------------------------------------------------------------------------
(* One lemma per action *)

Others ==
    /\ source \in Version /\ token \in Nat
    /\ push \in [pc : {"idle", "queue"}, ver : Version, ans : Answer]
    /\ running \in BOOLEAN
    /\ pushes \in Nat /\ users \in Nat /\ faults \in Nat
    /\ offered \in BOOLEAN /\ strikes \in Nat

LEMMA CoreParts ==
    Core <=> ReceiverTypeOK /\ Tables /\ Others /\ OneWorkerPerTask
BY DEF Core, TypeOK, SenderTypeOK, Tables, Others

LEMMA CoreNext ==
    ASSUME ReceiverTypeOK', Tables', Others', OneWorkerPerTask' PROVE Core'
BY DEF Core, TypeOK, SenderTypeOK, Tables, Others

LEMMA ReceiverKept ==
    ASSUME ReceiverTypeOK, UNCHANGED receiver PROVE ReceiverTypeOK'
BY DEF ReceiverTypeOK, receiver, Full, Marks

LEMMA TablesKept ==
    ASSUME Core, UNCHANGED <<tasks, work>> PROVE Tables' /\ OneWorkerPerTask'
BY DEF Core, TypeOK, SenderTypeOK, Tables, OneWorkerPerTask

LEMMA Counts ==
    ASSUME Others
    PROVE  /\ Fails \/ Works \/ UNCHANGED faults => faults' \in Nat
           /\ CountStrikes => strikes' \in Nat
BY DEF Others, Fails, Works, CountStrikes

LEMMA PushOpenCore == ASSUME Core, PushOpen PROVE Core'
<1>1. ReceiverTypeOK /\ Others /\ source \in Version /\ proc \in Nat
  BY CoreParts DEF Others, ReceiverTypeOK
<1>2. ReceiverTypeOK'
  BY <1>1, ServeOpenType, ReceiverKept DEF PushOpen
<1>3. Tables' /\ OneWorkerPerTask'
  BY TablesKept DEF PushOpen
<1>4. OpenReply(proc, source) \in Answer /\ Refusal("lost") \in Answer
  BY <1>1, OpenReplyType, RefusalType DEF Code
<1>5. push' \in [pc : {"idle", "queue"}, ver : Version, ans : Answer]
  <2>1. 1 \in Version
    BY VersionAssumption DEF Version
  <2>2. push' = push \/ push' = NoPush
        \/ push' = [pc |-> "queue", ver |-> source, ans |-> OpenReply(proc, source)]
    BY DEF PushOpen
  <2> QED BY <1>1, <1>4, <2>1, <2>2 DEF NoPush, Others
<1>6. faults' \in Nat /\ strikes' \in Nat
  BY <1>1, Counts DEF PushOpen
<1>7. offered' \in BOOLEAN
  <2>1. offered' \in {TRUE, FALSE}
    BY DEF PushOpen
  <2> QED BY <2>1
<1>8. source' = source /\ token' = proc /\ running' = running /\ users' = users
      /\ pushes' = pushes + 1
  BY DEF PushOpen
<1>9. Others'
  BY <1>1, <1>5, <1>6, <1>7, <1>8 DEF Others
<1> QED BY <1>2, <1>3, <1>9, CoreNext

LEMMA PushQueueCore == ASSUME Core, PushQueue PROVE Core'
<1>1. ReceiverTypeOK /\ Others /\ Tables /\ OneWorkerPerTask
  BY CoreParts
<1>2. ReceiverTypeOK'
  BY <1>1, ReceiverKept DEF PushQueue
<1>3. NewTask(push.ver, push.ans) \in Task
  BY <1>1 DEF Others, NewTask, Task, Answer
<1>4. /\ tasks' \in Seq(Task) /\ DOMAIN tasks \subseteq DOMAIN tasks'
      /\ \A i \in DOMAIN tasks : tasks'[i] = tasks[i]
  <2>1. CASE tasks' = tasks
    BY <1>1, <2>1 DEF Tables
  <2>2. CASE tasks' = Append(tasks, NewTask(push.ver, push.ans))
    BY <1>1, <1>3, <2>2, AppendProperties, LenProperties DEF Tables
  <2> QED BY <2>1, <2>2 DEF PushQueue
<1>5. Tables' /\ OneWorkerPerTask'
  BY <1>1, <1>4 DEF PushQueue, Tables, OneWorkerPerTask
<1>6. Others'
  <2>1. 1 \in Version /\ Refusal("lost") \in Answer
    BY VersionAssumption, RefusalType DEF Version, Code
  <2>2. push' \in [pc : {"idle", "queue"}, ver : Version, ans : Answer]
    BY <2>1 DEF PushQueue, NoPush
  <2> QED BY <1>1, <2>2 DEF PushQueue, Others, budget, ghosts
<1> QED BY <1>2, <1>5, <1>6, CoreNext

LEMMA TakeCore ==
    ASSUME Core, NEW w \in Workers, NEW t \in DOMAIN tasks, Take(w, t) PROVE Core'
<1>1. ReceiverTypeOK /\ Others
  BY CoreParts
<1>2. ReceiverTypeOK'
  BY <1>1, ReceiverKept DEF Take
<1>3. faults' \in Nat
  BY <1>1, Counts DEF Take
<1>4. Others'
  BY <1>1, <1>3 DEF Take, Others, ghosts
<1> QED BY <1>2, <1>4, Takes, CoreNext

LEMMA ReauthorizeCore == ASSUME Core, NEW w \in Workers, Reauthorize(w) PROVE Core'
<1>1. ReceiverTypeOK /\ Others /\ proc \in Nat /\ Mine(w) \in Task /\ work[w].pc # "idle"
  BY CoreParts, OwnTask DEF ReceiverTypeOK, Reauthorize
<1>2. ReceiverTypeOK'
  BY <1>1, ReceiverKept DEF Reauthorize
<1>3. Tables' /\ OneWorkerPerTask'
  BY <1>1, Releases DEF Reauthorize
<1>4. faults' \in Nat /\ token' \in Nat
  BY <1>1, Counts DEF Reauthorize, Others
<1>5. Others'
  BY <1>1, <1>4 DEF Reauthorize, Others, ghosts
<1> QED BY <1>2, <1>3, <1>5, CoreNext

LEMMA ReopenCore == ASSUME Core, NEW w \in Workers, Reopen(w) PROVE Core'
<1> DEFINE v == Mine(w).ver
           ans == OpenReply(token, v)
           t == [Mine(w) EXCEPT !.id = ans.id, !.gen = IF Streaming THEN ans.gen ELSE @]
           l == [work[w] EXCEPT !.pc = "release", !.ans = ans]
<1>1. /\ ReceiverTypeOK /\ Others /\ Mine(w) \in Task /\ Mine(w).busy
      /\ work[w].pc # "idle" /\ work[w] \in Local /\ v \in Version
  BY CoreParts, OwnTask DEF Reopen, Task
<1>2. ReceiverTypeOK'
  BY <1>1, ServeOpenType, ReceiverKept DEF Reopen
<1>3. ans \in Answer
  BY <1>1, OpenReplyType
<1>4. l \in Local /\ l.task = work[w].task
  BY <1>1, <1>3 DEF Local, WorkPc
<1>5. t \in Task /\ t.busy
  <2>1. ans.id \in Nat /\ ans.gen \in Nat
    BY <1>3 DEF Answer
  <2>2. (IF Streaming THEN ans.gen ELSE Mine(w).gen) \in Nat
    BY <1>1, <2>1 DEF Task
  <2> QED BY <1>1, <2>1, <2>2 DEF Task
<1>6. \/ Release(w, Mine(w), FALSE)
      \/ Hold(w, l) /\ tasks' = [tasks EXCEPT ![work[w].task] = t]
  BY DEF Reopen
<1>7. Tables' /\ OneWorkerPerTask'
  <2> HIDE DEF l, t
  <2>1. CASE Release(w, Mine(w), FALSE)
    BY <1>1, <2>1, Releases
  <2>2. CASE Hold(w, l) /\ tasks' = [tasks EXCEPT ![work[w].task] = t]
    BY <1>1, <1>4, <1>5, <2>2, Continues
  <2> QED BY <1>6, <2>1, <2>2
<1>8. faults' \in Nat /\ strikes' \in Nat
  BY <1>1, Counts DEF Reopen
<1>9. Others'
  BY <1>1, <1>8 DEF Reopen, Others
<1> QED BY <1>2, <1>7, <1>9, CoreNext

LEMMA EndsCore ==
    ASSUME Core, NEW w \in Workers, GiveUp(w) \/ ReleaseAnswered(w)
    PROVE  Core'
<1>1. ReceiverTypeOK /\ Others /\ Mine(w) \in Task /\ work[w].pc # "idle"
  BY CoreParts, OwnTask DEF GiveUp, ReleaseAnswered, Answered
<1>2. PICK done \in BOOLEAN : Release(w, Mine(w), done)
  BY DEF GiveUp, ReleaseAnswered, Finished
<1>3. Tables' /\ OneWorkerPerTask'
  BY <1>1, <1>2, Releases
<1>4. ReceiverTypeOK'
  BY <1>1, ReceiverKept DEF GiveUp, ReleaseAnswered
<1>5. Others'
  BY <1>1 DEF GiveUp, ReleaseAnswered, Others, budget, ghosts
<1> QED BY <1>3, <1>4, <1>5, CoreNext

LEMMA BeginCore == ASSUME Core, NEW w \in Workers, Begin(w) PROVE Core'
<1> DEFINE l == [work[w] EXCEPT !.pc = IF work[w].ans.missing = {} THEN "finish" ELSE "chunks",
                                !.todo = Batch(work[w].ans.missing)]
           t == Noted(Mine(w), work[w].ans.gen)
<1>1. /\ ReceiverTypeOK /\ Others /\ Mine(w) \in Task /\ Mine(w).busy
      /\ work[w].pc # "idle" /\ work[w] \in Local
      /\ work[w].ans \in Answer /\ work[w].ans.gen \in Nat
  BY CoreParts, OwnTask DEF Begin
<1>2. Batch(work[w].ans.missing) \subseteq Chunk
  BY <1>1 DEF Batch, Answer
<1>3. l \in Local /\ l.task = work[w].task
  BY <1>1, <1>2 DEF Local, WorkPc
<1>4. t \in Task /\ t.busy
  BY <1>1 DEF Noted, Task
<1>5. Hold(w, l) /\ tasks' = [tasks EXCEPT ![work[w].task] = t]
  BY DEF Begin, Mine
<1>6. Tables' /\ OneWorkerPerTask'
  <2> HIDE DEF l, t
  <2> QED BY <1>1, <1>3, <1>4, <1>5, Continues
<1>7. ReceiverTypeOK'
  BY <1>1, ReceiverKept DEF Begin
<1>8. Others'
  BY <1>1 DEF Begin, Others, budget, ghosts
<1> QED BY <1>6, <1>7, <1>8, CoreNext

LEMMA SendChunkCore ==
    ASSUME Core, NEW w \in Workers, NEW c \in Chunk, SendChunk(w, c) PROVE Core'
<1>1. /\ ReceiverTypeOK /\ Others /\ source \in Version
      /\ Mine(w) \in Task /\ Mine(w).busy /\ work[w].task \in DOMAIN tasks
      /\ work[w].pc # "idle" /\ work[w] \in Local
  BY CoreParts, OwnTask DEF SendChunk, Others
<1>2. ReceiverTypeOK'
  BY <1>1, ServeChunkType, ReceiverKept DEF SendChunk
<1>3. PICK e \in SUBSET Code :
          Hold(w, [work[w] EXCEPT !.todo = @ \ {c}, !.errs = @ \cup e])
  <2>1. ChunkCode(token, Mine(w).id, work[w].ans.gen, c, source) \in Code
    BY ChunkCodeType
  <2>2. {"lost"} \subseteq Code /\ {"broken"} \subseteq Code /\ {} \subseteq Code
    BY DEF Code
  <2> QED BY <2>1, <2>2 DEF SendChunk
<1> DEFINE l == [work[w] EXCEPT !.todo = @ \ {c}, !.errs = @ \cup e]
<1>4. l \in Local /\ l.task = work[w].task
  BY <1>1 DEF Local
<1>5. tasks' = [tasks EXCEPT ![work[w].task] = Mine(w)]
  BY <1>1, CoreParts DEF SendChunk, Mine, Tables
<1>6. Tables' /\ OneWorkerPerTask'
  <2> HIDE DEF l
  <2>1. Hold(w, l)
    BY <1>3 DEF l
  <2> QED BY <1>1, <1>4, <1>5, <2>1, Continues
<1>7. faults' \in Nat
  BY <1>1, Counts DEF SendChunk
<1>8. Others'
  BY <1>1, <1>7 DEF SendChunk, Others, ghosts
<1> QED BY <1>2, <1>6, <1>8, CoreNext

LEMMA BatchedCore == ASSUME Core, NEW w \in Workers, Batched(w) PROVE Core'
<1>1. ReceiverTypeOK /\ Others /\ Mine(w) \in Task /\ work[w].pc # "idle"
  BY CoreParts, OwnTask DEF Batched
<1>2. [Mine(w) EXCEPT !.failures = 0] \in Task
  BY <1>1 DEF Task
<1>3. Tables' /\ OneWorkerPerTask'
  BY <1>1, <1>2, Releases DEF Batched
<1>4. ReceiverTypeOK'
  BY <1>1, ReceiverKept DEF Batched
<1>5. Others'
  BY <1>1 DEF Batched, Others, budget
<1> QED BY <1>3, <1>4, <1>5, CoreNext

LEMMA BatchFailedCore == ASSUME Core, NEW w \in Workers, BatchFailed(w) PROVE Core'
<1>1. ReceiverTypeOK /\ Others /\ Mine(w) \in Task /\ work[w].pc # "idle"
  BY CoreParts, OwnTask DEF BatchFailed
<1>2. PICK n \in Nat : Release(w, [Mine(w) EXCEPT !.failures = n], FALSE)
  <2>1. \A e : Mine(w).failures + (IF Counted(e) THEN 1 ELSE 0) \in Nat
    BY <1>1 DEF Task
  <2> QED BY <2>1 DEF BatchFailed
<1>3. [Mine(w) EXCEPT !.failures = n] \in Task
  BY <1>1 DEF Task
<1>4. Tables' /\ OneWorkerPerTask'
  BY <1>1, <1>2, <1>3, Releases
<1>5. ReceiverTypeOK'
  BY <1>1, ServeFailType, ReceiverKept DEF BatchFailed
<1>6. faults' \in Nat
  BY <1>1, Counts DEF BatchFailed
<1>7. strikes' \in Nat
  BY <1>1 DEF BatchFailed, Others
<1>8. Others'
  BY <1>1, <1>6, <1>7 DEF BatchFailed, Others
<1> QED BY <1>4, <1>5, <1>8, CoreNext

LEMMA FinishCore == ASSUME Core, NEW w \in Workers, Finish(w) PROVE Core'
<1> DEFINE s == Final(Mine(w))
           ans == FinishReply(token, Mine(w).id, work[w].ans.gen, s)
           kept == [Mine(w) EXCEPT !.final = s]
           l == [work[w] EXCEPT !.pc = "release", !.ans = ans]
<1>1. /\ ReceiverTypeOK /\ Others /\ source \in Version
      /\ Mine(w) \in Task /\ Mine(w).busy
      /\ work[w].pc # "idle" /\ work[w] \in Local
  BY CoreParts, OwnTask DEF Finish, Others
<1>2. s \in Version
  BY <1>1 DEF Final, Task
<1>3. ReceiverTypeOK'
  BY <1>1, <1>2, ServeFinishType, ReceiverKept DEF Finish
<1>4. ans \in Answer
  BY <1>1, <1>2, FinishReplyType
<1>5. l \in Local /\ l.task = work[w].task
  BY <1>1, <1>4 DEF Local, WorkPc
<1>6. kept \in Task /\ kept.busy
  BY <1>1, <1>2 DEF Task
<1>7. \/ Release(w, kept, FALSE) \/ Release(w, Mine(w), FALSE)
      \/ Hold(w, l) /\ tasks' = [tasks EXCEPT ![work[w].task] = kept]
  BY DEF Finish
<1>8. Tables' /\ OneWorkerPerTask'
  <2> HIDE DEF l, kept
  <2>1. CASE Release(w, Mine(w), FALSE)
    BY <1>1, <2>1, Releases
  <2>2. CASE Release(w, kept, FALSE)
    BY <1>1, <1>6, <2>2, Releases
  <2>3. CASE Hold(w, l) /\ tasks' = [tasks EXCEPT ![work[w].task] = kept]
    BY <1>1, <1>5, <1>6, <2>3, Continues
  <2> QED BY <1>7, <2>1, <2>2, <2>3
<1>9. faults' \in Nat
  BY <1>1, Counts DEF Finish
<1>10. Others'
  BY <1>1, <1>9 DEF Finish, Others, ghosts
<1> QED BY <1>3, <1>8, <1>10, CoreNext

LEMMA WorldCore == ASSUME Core, World PROVE Core'
<1>1. ReceiverTypeOK /\ Others
  BY CoreParts
<1>2. Tables' /\ OneWorkerPerTask'
  BY TablesKept DEF World, ChangeSource, User, ReceiverVerifies, ReceiverRestarts, Close, sender
<1>3. ReceiverTypeOK'
  <2>1. CASE UNCHANGED receiver
    BY <1>1, <2>1, ReceiverKept
  <2>2. CASE User
    BY <1>1, <2>2, UserType DEF User
  <2>3. CASE ReceiverVerifies
    BY <1>1, <2>3, VerifyType DEF ReceiverVerifies
  <2>4. CASE ReceiverRestarts
    BY <1>1, <2>4, RestartType DEF ReceiverRestarts
  <2> QED BY <2>1, <2>2, <2>3, <2>4 DEF World, ChangeSource, Close
<1>4. Others'
  <2>1. CASE ChangeSource
    <3>1. source' \in Version
      BY <1>1, <2>1, VersionAssumption DEF ChangeSource, Others, Version
    <3> QED BY <1>1, <2>1, <3>1 DEF ChangeSource, Others, sender, budget, ghosts
  <2>2. CASE User
    <3>1. strikes' \in Nat /\ users' \in Nat
      BY <1>1, <2>2, Counts DEF User, Others
    <3> QED BY <1>1, <2>2, <3>1 DEF User, Others, sender
  <2>3. CASE ReceiverVerifies
    <3>1. faults' \in Nat
      BY <1>1, <2>3 DEF ReceiverVerifies, Others
    <3> QED BY <1>1, <2>3, <3>1 DEF ReceiverVerifies, Others, sender, ghosts
  <2>4. CASE ReceiverRestarts
    BY <1>1, <2>4 DEF ReceiverRestarts, Others, sender, budget
  <2>5. CASE Close
    BY <1>1, <2>5 DEF Close, Others, sender, budget, ghosts
  <2> QED BY <2>1, <2>2, <2>3, <2>4, <2>5 DEF World
<1> QED BY <1>2, <1>3, <1>4, CoreNext

-----------------------------------------------------------------------------
(* The invariant *)

LEMMA InitCore == Init => Core
<1> SUFFICES ASSUME Init PROVE Core
  OBVIOUS
<1>1. 1 \in Version /\ 0 \in Nat /\ Refusal("lost") \in Answer
  BY VersionAssumption, RefusalType DEF Version, Code
<1>2. ReceiverTypeOK
  <2>1. NoJob \in Job /\ NoJob.key = 0 /\ NoJob.status = "none"
    BY DEF NoJob, Job, Status
  <2> QED BY <2>1 DEF Init, InitReceiver, ReceiverTypeOK, Nothing
<1>3. tasks \in Seq(Task) /\ work \in [Workers -> Local] /\ DOMAIN tasks = {}
  BY IdleType, EmptySeq DEF Init
<1>4. OneWorkerPerTask
  BY DEF Init, OneWorkerPerTask, Idle
<1>5. Others
  BY <1>1 DEF Init, Others, NoPush
<1> QED BY <1>2, <1>3, <1>4, <1>5, CoreParts DEF Tables

LEMMA NextCore == Core /\ [Next]_vars => Core'
<1> SUFFICES ASSUME Core, [Next]_vars PROVE Core'
  OBVIOUS
<1>1. CASE PushOpen
  BY <1>1, PushOpenCore
<1>2. CASE PushQueue
  BY <1>2, PushQueueCore
<1>3. ASSUME NEW w \in Workers, Step(w) PROVE Core'
  <2>1. CASE \E t \in DOMAIN tasks : Take(w, t)
    BY <2>1, TakeCore
  <2>2. CASE \E c \in Chunk : SendChunk(w, c)
    BY <2>2, SendChunkCore
  <2>3. CASE Reauthorize(w)
    BY <2>3, ReauthorizeCore
  <2>4. CASE Reopen(w)
    BY <2>4, ReopenCore
  <2>5. CASE GiveUp(w) \/ ReleaseAnswered(w)
    BY <2>5, EndsCore
  <2>6. CASE Begin(w)
    BY <2>6, BeginCore
  <2>7. CASE Batched(w)
    BY <2>7, BatchedCore
  <2>8. CASE BatchFailed(w)
    BY <2>8, BatchFailedCore
  <2>9. CASE Finish(w)
    BY <2>9, FinishCore
  <2> QED BY <1>3, <2>1, <2>2, <2>3, <2>4, <2>5, <2>6, <2>7, <2>8, <2>9 DEF Step
<1>4. CASE World
  BY <1>4, WorldCore
<1>5. CASE UNCHANGED vars
  <2>1. ReceiverTypeOK'
    BY <1>5, CoreParts, ReceiverKept DEF vars
  <2>2. Tables' /\ OneWorkerPerTask'
    BY <1>5, TablesKept DEF vars, sender
  <2>3. Others'
    BY <1>5, CoreParts DEF vars, sender, budget, ghosts, Others
  <2> QED BY <2>1, <2>2, <2>3, CoreNext
<1> QED BY <1>1, <1>2, <1>3, <1>4, <1>5 DEF Next, Push

\* Every variable keeps its type; in particular a job that the receiver
\* verifies is complete and has its digest (openStreaming, addRecordsMode,
\* acceptChunk, finishUpload and control all leave it so).
THEOREM UploaderTypeCorrect == Spec => []TypeOK
<1>1. Core => TypeOK
  BY DEF Core
<1> QED BY InitCore, NextCore, <1>1, PTL DEF Spec

\* Whatever the receiver answers, loses or forgets, two workers never have the
\* same task in hand: worker() takes a task only under busy, and every way out
\* of step gives back the one it took.
THEOREM OneWorkerCorrect == Spec => []OneWorkerPerTask
<1>1. Core => OneWorkerPerTask
  BY DEF Core
<1> QED BY InitCore, NextCore, <1>1, PTL DEF Spec

-----------------------------------------------------------------------------
(* Uploading implements Delivery *)

First == IF tasks = <<>> THEN 0 ELSE tasks[1].ver

\* What has been received was read from the file at a version between the one
\* first queued and the present one.
Span ==
    /\ push.ver <= source
    /\ First <= source
    /\ \A k \in Key, c \in Chunk :
          cache[k][c] # 0 => First # 0 /\ First <= cache[k][c] /\ cache[k][c] <= source

LEMMA FirstType ==
    ASSUME Core
    PROVE  First \in Nat /\ (tasks # <<>> => First # 0) /\ source \in Nat
<1>1. tasks \in Seq(Task) /\ source \in Version
  BY CoreParts DEF Tables, Others
<1>2. tasks # <<>> => tasks[1] \in Task
  BY <1>1, ElementOfSeq, EmptySeq, LenProperties
<1>3. tasks # <<>> => tasks[1].ver \in Version
  BY <1>2 DEF Task
<1> QED BY <1>1, <1>3, VersionAssumption DEF First, Version

\* Changing a task leaves its version, and with it the first one.
LEMMA ExceptFirst ==
    ASSUME Core, NEW i \in DOMAIN tasks, NEW t, t.ver = tasks[i].ver,
           tasks' = [tasks EXCEPT ![i] = t]
    PROVE  First' = First
<1>1. tasks \in Seq(Task)
  BY CoreParts DEF Tables
<1>2. DOMAIN tasks' = DOMAIN tasks /\ 1 \in DOMAIN tasks /\ tasks # <<>> /\ tasks' # <<>>
  BY <1>1, LenProperties, EmptySeq
<1>3. tasks'[1].ver = tasks[1].ver
  BY <1>2
<1> QED BY <1>2, <1>3 DEF First

LEMMA StepFirst == ASSUME Core, NEW w \in Workers, Step(w) PROVE First' = First
<1>1. ASSUME NEW t \in DOMAIN tasks, Take(w, t) PROVE First' = First
  <2>1. tasks[t] \in Task
    BY CoreParts, ElementOfSeq, LenProperties DEF Tables
  <2> DEFINE taken == [tasks[t] EXCEPT !.busy = TRUE]
  <2>2. taken.ver = tasks[t].ver /\ tasks' = [tasks EXCEPT ![t] = taken]
    BY <1>1, <2>1 DEF Take, Task
  <2> HIDE DEF taken
  <2> QED BY <2>2, ExceptFirst
<1>2. CASE UNCHANGED tasks
  BY <1>2 DEF First
<1>3. ASSUME work[w].pc # "idle",
             NEW t, t.ver = Mine(w).ver, tasks' = [tasks EXCEPT ![work[w].task] = t]
      PROVE  First' = First
  BY <1>3, OwnTask, ExceptFirst DEF Mine
<1>4. ASSUME work[w].pc # "idle",
             NEW t \in Task, t.ver = Mine(w).ver, NEW done, Release(w, t, done)
      PROVE  First' = First
  <2> DEFINE u == [t EXCEPT !.busy = FALSE, !.done = done]
  <2>1. u.ver = t.ver /\ tasks' = [tasks EXCEPT ![work[w].task] = u]
    BY <1>4 DEF Release, Task
  <2> HIDE DEF u
  <2> QED BY <1>3, <1>4, <2>1
<1>5. ASSUME work[w].pc # "idle", ~ UNCHANGED tasks,
             ~ \E t \in DOMAIN tasks : Take(w, t)
      PROVE  First' = First
  <2>1. Mine(w) \in Task
    BY <1>5, OwnTask
  <2>2. ASSUME NEW x, NEW y PROVE [Mine(w) EXCEPT !.id = x, !.gen = y].ver = Mine(w).ver
    BY <2>1 DEF Task
  <2>3. ASSUME NEW n \in Nat
        PROVE  /\ [Mine(w) EXCEPT !.failures = n] \in Task
               /\ [Mine(w) EXCEPT !.failures = n].ver = Mine(w).ver
    BY <2>1 DEF Task
  <2>4. ASSUME NEW s \in Version
        PROVE  /\ [Mine(w) EXCEPT !.final = s] \in Task
               /\ [Mine(w) EXCEPT !.final = s].ver = Mine(w).ver
    BY <2>1 DEF Task
  <2>5. Noted(Mine(w), work[w].ans.gen).ver = Mine(w).ver
    BY <2>1 DEF Noted, Task
  <2>6. CASE Reopen(w)
    <3> DEFINE ans == OpenReply(token, Mine(w).ver)
               g == IF Streaming THEN ans.gen ELSE Mine(w).gen
               t == [Mine(w) EXCEPT !.id = ans.id, !.gen = g]
    <3>1. t.ver = Mine(w).ver
      BY <2>2
    <3>2. \/ Release(w, Mine(w), FALSE)
          \/ tasks' = [tasks EXCEPT ![work[w].task] = t]
      BY <2>6 DEF Reopen
    <3> HIDE DEF t
    <3>3. CASE Release(w, Mine(w), FALSE)
      BY <1>4, <1>5, <2>1, <3>3
    <3>4. CASE tasks' = [tasks EXCEPT ![work[w].task] = t]
      BY <1>3, <1>5, <3>1, <3>4
    <3> QED BY <3>2, <3>3, <3>4
  <2>7. CASE Begin(w)
    BY <1>3, <1>5, <2>5, <2>7 DEF Begin, Mine
  <2>8. CASE Batched(w)
    BY <1>4, <1>5, <2>3, <2>8 DEF Batched
  <2>9. CASE BatchFailed(w)
    <3>1. \A e : Mine(w).failures + (IF Counted(e) THEN 1 ELSE 0) \in Nat
      BY <2>1 DEF Task
    <3> QED BY <1>4, <1>5, <2>3, <2>9, <3>1 DEF BatchFailed
  <2>10. CASE Finish(w)
    <3>1. Final(Mine(w)) \in Version
      BY <2>1, CoreParts DEF Final, Task, Others
    <3> QED BY <1>3, <1>4, <1>5, <2>1, <2>4, <2>10, <3>1 DEF Finish
  <2>11. CASE Reauthorize(w) \/ GiveUp(w) \/ ReleaseAnswered(w)
    BY <1>4, <1>5, <2>1, <2>11 DEF Reauthorize, GiveUp, ReleaseAnswered
  <2> QED BY <1>5, <2>6, <2>7, <2>8, <2>9, <2>10, <2>11 DEF Step, SendChunk
<1>6. UNCHANGED tasks \/ (\E t \in DOMAIN tasks : Take(w, t)) \/ work[w].pc # "idle"
  BY DEF Step, Reauthorize, Reopen, GiveUp, ReleaseAnswered, Answered, Begin, Batched,
         BatchFailed, SendChunk, Finish
<1> QED BY <1>1, <1>2, <1>5, <1>6

\* Serving a request other than a chunk, and what the receiver's user or a
\* restart do, leave what was received and published.
LEMMA Untouched ==
    ASSUME NEW t, NEW v, NEW id, NEW g, NEW s,
           ServeOpen(t, v) \/ ServeFinish(t, id, g, s) \/ ServeFail(t, id, g) \/ VerifyFails
           \/ Pause \/ Cancel \/ Resume \/ Restart \/ UNCHANGED receiver
    PROVE  UNCHANGED <<cache, published>>
BY DEF ServeOpen, ServeFinish, ServeFail, VerifyFails, Pause, Cancel, Resume, Restart, receiver

\* A step that changes none of it is a stutter of Delivery.
LEMMA Quiet ==
    ASSUME Span, First' = First, UNCHANGED <<source, push, cache, published>>
    PROVE  Span' /\ UNCHANGED Copies!vars
<1>1. Span'
  BY DEF Span
<1>2. UNCHANGED Copies!vars
  BY DEF Copies!vars, First
<1> QED BY <1>1, <1>2

LEMMA PushQueueDelivers ==
    ASSUME Core, Span, PushQueue PROVE Span' /\ [Copies!Next]_(Copies!vars)
<1> DEFINE new == NewTask(push.ver, push.ans)
<1>1. /\ tasks \in Seq(Task) /\ push.ver \in Version /\ source \in Nat
      /\ UNCHANGED <<source, cache, published>> /\ push'.ver = 1
  BY CoreParts, FirstType, Untouched DEF Tables, Others, PushQueue, receiver, NoPush
<1>2. new \in Task /\ new.ver = push.ver
  BY CoreParts DEF NewTask, Task, Others, Answer
<1>3. push.ver \in 1 .. source /\ 1 <= source
  BY <1>1, VersionAssumption DEF Span, Version
<1>4. CASE tasks' = tasks
  <2>1. Span'
    BY <1>1, <1>3, <1>4 DEF Span, First
  <2> QED BY <1>1, <1>4, <2>1 DEF Copies!vars
<1>5. CASE tasks' = Append(tasks, new)
  <2> HIDE DEF new
  <2>1. /\ Len(tasks') = Len(tasks) + 1 /\ tasks' # <<>>
        /\ tasks # <<>> => tasks'[1] = tasks[1]
        /\ tasks = <<>> => tasks'[1] = new
    BY <1>1, <1>2, <1>5, AppendProperties, EmptySeq, LenProperties
  <2>2. CASE tasks = <<>>
    <3>1. First = 0 /\ First' = push.ver
      BY <1>2, <2>1, <2>2 DEF First
    <3>2. Span'
      BY <1>1, <1>3, <3>1 DEF Span
    <3>3. Copies!Offer
      BY <1>1, <1>2, <1>3, <2>1, <2>2 DEF Copies!Offer
    <3> QED BY <3>2, <3>3 DEF Copies!Next
  <2>3. CASE tasks # <<>>
    <3>1. First' = First
      BY <2>1, <2>3 DEF First
    <3>2. Span'
      BY <1>1, <1>3, <3>1 DEF Span
    <3> QED BY <1>1, <2>1, <2>3, <3>2 DEF Copies!vars
  <2> QED BY <2>2, <2>3
<1> QED BY <1>4, <1>5 DEF PushQueue

LEMMA SendChunkDelivers ==
    ASSUME Core, Span, NEW w \in Workers, NEW c \in Chunk, SendChunk(w, c)
    PROVE  Span' /\ UNCHANGED Copies!vars
<1>1. /\ First' = First /\ First # 0 /\ First \in Nat /\ source \in Nat
      /\ UNCHANGED <<source, push>>
  <2>1. First' = First
    BY StepFirst DEF Step
  <2>2. work[w].task \in DOMAIN tasks /\ tasks \in Seq(Task)
    BY OwnTask, CoreParts DEF SendChunk, Tables
  <2>3. tasks # <<>>
    BY <2>2, EmptySeq
  <2> QED BY <2>1, <2>3, FirstType DEF SendChunk
<1>2. CASE UNCHANGED <<cache, published>>
  BY <1>1, <1>2, Quiet
<1>3. CASE ~ UNCHANGED <<cache, published>>
  <2>1. /\ cache' = [cache EXCEPT ![job.key] = [Marks(job) EXCEPT ![c] = source]]
        /\ published' = published
    BY <1>3 DEF SendChunk, ServeChunk, ServeChunkFails, receiver
  <2>2. cache \in [Key -> [Chunk -> Version \cup {0}]]
    BY DEF Core, TypeOK, ReceiverTypeOK
  <2>3. CASE job.key \notin Key
    <3>1. cache' = cache
      BY <2>1, <2>2, <2>3
    <3> QED BY <1>3, <2>1, <3>1
  <2>4. CASE job.key \in Key
    <3>1. job.key # 0
      BY <2>4, VersionAssumption DEF Key, Version
    <3>2. \A k \in Key, d \in Chunk : cache'[k][d] \in {cache[k][d], source}
      BY <2>1, <2>2, <2>4, <3>1 DEF Marks
    <3>3. Span'
      BY <1>1, <3>2 DEF Span
    <3> QED BY <1>1, <2>1, <3>3 DEF Copies!vars, First
  <2> QED BY <2>3, <2>4
<1> QED BY <1>2, <1>3

LEMMA VerifyDelivers ==
    ASSUME Core, Span, ReceiverVerifies
    PROVE  Span' /\ [Copies!Next]_(Copies!vars)
<1>1. First' = First /\ UNCHANGED <<source, tasks, push>> /\ source \in Nat /\ First \in Nat
  BY FirstType DEF ReceiverVerifies, sender, First
<1>2. CASE VerifyFails
  BY <1>1, <1>2, Untouched, Quiet
<1>3. CASE Verify
  <2>1. /\ cache \in [Key -> [Chunk -> Version \cup {0}]]
        /\ job.key \in Key /\ job.key # 0 /\ job.sha \in Version \cup {0} /\ job.sha # 0
    BY <1>3 DEF Verify, Core, TypeOK, ReceiverTypeOK, Job
  <2>2. Span'
    <3>1. \A k \in Key, c \in Chunk : cache'[k][c] \in {cache[k][c], 0}
      BY <1>3, <2>1 DEF Verify, Nothing
    <3> QED BY <1>1, <3>1 DEF Span
  <2>3. CASE ~ DigestOK
    BY <1>1, <1>3, <2>2, <2>3 DEF Verify, Copies!vars
  <2>4. CASE DigestOK
    <3>1. Marks(job) = cache[job.key] /\ Marks(job) = Copies!Copy(job.sha)
      <4>1. Marks(job) \in [Chunk -> Version \cup {0}] /\ Marks(job) = cache[job.key]
        BY <2>1 DEF Marks
      <4>2. Marks(job) = [c \in Chunk |-> job.sha]
        BY <2>4, <4>1 DEF DigestOK
      <4> QED BY <4>1, <4>2 DEF Copies!Copy
    <3>2. 0 \in Chunk
      BY ChunkAssumption DEF Chunk
    <3>3. First # 0 /\ job.sha \in First .. source
      <4>1. cache[job.key][0] = job.sha /\ job.sha \in Nat
        BY <2>1, <2>4, <3>1, <3>2, VersionAssumption DEF DigestOK, Version
      <4>2. First # 0 /\ First <= job.sha /\ job.sha <= source
        BY <2>1, <3>2, <4>1 DEF Span
      <4> QED BY <1>1, <4>1, <4>2
    <3>4. published' = published \cup {Copies!Copy(job.sha)}
      BY <1>3, <2>4, <3>1 DEF Verify
    <3>5. Copies!Deliver
      BY <1>1, <3>3, <3>4 DEF Copies!Deliver, First
    <3> QED BY <2>2, <3>5 DEF Copies!Next
  <2> QED BY <2>3, <2>4
<1> QED BY <1>2, <1>3 DEF ReceiverVerifies

LEMMA StepDelivers ==
    ASSUME Core, Span, NEW w \in Workers, Step(w)
    PROVE  Span' /\ UNCHANGED Copies!vars
<1>1. CASE \E c \in Chunk : SendChunk(w, c)
  BY <1>1, SendChunkDelivers
<1>2. CASE ~ \E c \in Chunk : SendChunk(w, c)
  <2>1. UNCHANGED <<cache, published>>
    BY <1>2, Untouched DEF Step, Take, Reauthorize, Reopen, GiveUp, ReleaseAnswered, Begin,
       Batched, BatchFailed, Finish
  <2>2. UNCHANGED <<source, push>>
    BY <1>2 DEF Step, Take, Reauthorize, Reopen, GiveUp, ReleaseAnswered, Begin,
       Batched, BatchFailed, Finish
  <2> QED BY <2>1, <2>2, StepFirst, Quiet
<1> QED BY <1>1, <1>2

LEMMA NextDelivers ==
    Core /\ Span /\ [Next]_vars => Span' /\ [Copies!Next]_(Copies!vars)
<1> SUFFICES ASSUME Core, Span, [Next]_vars PROVE Span' /\ [Copies!Next]_(Copies!vars)
  OBVIOUS
<1>1. CASE PushOpen
  <2>1. UNCHANGED <<cache, published, tasks, source>> /\ (push' = push \/ push'.ver \in {1, source})
    BY <1>1, Untouched DEF PushOpen, NoPush
  <2>2. push'.ver <= source
    BY <2>1, FirstType, CoreParts, VersionAssumption DEF Span, Others, Version
  <2>3. Span'
    BY <2>1, <2>2 DEF Span, First
  <2> QED BY <2>1, <2>3 DEF Copies!vars
<1>2. CASE PushQueue
  BY <1>2, PushQueueDelivers
<1>3. ASSUME NEW w \in Workers, Step(w) PROVE Span' /\ [Copies!Next]_(Copies!vars)
  BY <1>3, StepDelivers
<1>4. CASE ChangeSource
  <2>1. /\ source' = source + 1 /\ source < MaxVersion
        /\ UNCHANGED <<cache, published, tasks, push>>
    BY <1>4 DEF ChangeSource, receiver, sender
  <2>2. /\ source \in Nat /\ First \in Nat /\ First' = First /\ push.ver \in Nat
        /\ \A k \in Key, c \in Chunk : cache[k][c] \in Nat
    BY <2>1, FirstType, CoreParts, VersionAssumption
       DEF First, Others, ReceiverTypeOK, Version
  <2>3. Span'
    BY <2>1, <2>2 DEF Span
  <2>4. Copies!Change
    BY <2>1 DEF Copies!Change
  <2> QED BY <2>3, <2>4 DEF Copies!Next
<1>5. CASE User \/ ReceiverRestarts \/ Close
  <2>1. UNCHANGED <<cache, published>>
    BY <1>5, Untouched DEF User, ReceiverRestarts, Close
  <2>2. First' = First /\ UNCHANGED <<source, push>>
    BY <1>5 DEF User, ReceiverRestarts, Close, sender, First
  <2> QED BY <2>1, <2>2, Quiet
<1>6. CASE ReceiverVerifies
  BY <1>6, VerifyDelivers
<1>7. CASE UNCHANGED vars
  BY <1>7, Quiet DEF vars, receiver, sender, First
<1> QED BY <1>1, <1>2, <1>3, <1>4, <1>5, <1>6, <1>7 DEF Next, Push, World

LEMMA InitDelivers == Init => Span /\ Copies!Init
<1> SUFFICES ASSUME Init PROVE Span /\ Copies!Init
  OBVIOUS
<1>1. \A k \in Key, c \in Chunk : cache[k][c] = 0
  BY DEF Init, InitReceiver, Nothing
<1>2. Span
  BY <1>1 DEF Init, Span, NoPush, First
<1> QED BY <1>2 DEF Init, InitReceiver, Copies!Init

\* Uploading implements Delivery: whatever is lost, repeated, restarted,
\* changed on the way or done by several workers, finalize commits only whole
\* copies of one version that the file had since its first push.
THEOREM DeliveryImplemented == Spec => Delivers
BY InitCore, NextCore, InitDelivers, NextDelivers, PTL DEF Spec, Delivers, Copies!Spec
=============================================================================
