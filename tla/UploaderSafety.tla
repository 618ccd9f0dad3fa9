--------------------------- MODULE UploaderSafety ---------------------------
(***************************************************************************)
(* Proofs about Uploader: what a streaming sender owes a push, for every     *)
(* value of the constants.                                                  *)
(***************************************************************************)
EXTENDS UploaderProofs

-----------------------------------------------------------------------------
(* Tasks *)

Unfinished == {t \in DOMAIN tasks : ~ tasks[t].done}

\* The worker has an answer by which its task is done.
Ends(w) == Answered(w) /\ Finished(work[w].ans)

\* A streaming file has one unfinished task at a time, a worker has only
\* unfinished ones, and neither a task nor its digest is of the future.
Single   == \A t, u \in Unfinished : t = u
HeldOpen == \A w \in Workers : work[w].pc # "idle" => ~ Mine(w).done
Dated    == /\ push.ver <= source
            /\ \A t \in DOMAIN tasks : tasks[t].ver <= source
            /\ \A t \in DOMAIN tasks : tasks[t].final # 0 => tasks[t].ver <= tasks[t].final

\* The digest that the receiver has is the one of the unfinished task, and a
\* worker that ends its task leaves no such digest behind.
SealedKnown ==
    job.status \notin {"none", "done"} /\ job.sha # 0 =>
        \E t \in Unfinished : tasks[t].final = job.sha
EndsFree == \A w \in Workers : Ends(w) => job.status \in {"none", "done"} \/ job.sha = 0

Sealing == Core /\ Single /\ HeldOpen /\ Dated /\ SealedKnown /\ EndsFree

\* The digest of an unfinished task is the one of the file as it is.
FinalCurrent == \A t \in Unfinished : tasks[t].final \in {0, source}

\* The job, the push and the unfinished task are of one version.
PushAgrees == push.pc = "queue" => \A t \in Unfinished : tasks[t].ver = push.ver
KeyAgrees ==
    job.status \notin {"none", "done"} =>
        /\ \A t \in Unfinished : job.key = KeyOf(tasks[t].ver)
        /\ push.pc = "queue" => job.key = KeyOf(push.ver)
Agreed == Sealing /\ PushAgrees /\ KeyAgrees

SealedAbove ==
    job.status # "none" /\ job.sha # 0 =>
        /\ \A t \in Unfinished : tasks[t].ver <= job.sha
        /\ push.pc = "queue" => push.ver <= job.sha
DonePublished == job.status = "done" => job.sha # 0 /\ Whole(job.sha) \in published
Delivered(t) == \E v \in tasks[t].ver .. MaxVersion : Whole(v) \in published
EndsDelivered == \A w \in Workers : Ends(w) => Delivered(work[w].task)

EndsDone == \A w \in Workers : Ends(w) => job.status \in {"none", "done"}
NoLost ==
    offered /\ push.pc = "idle" /\ job.status \notin {"none", "done"} => Unfinished # {}

\* In the life of the first process no task is of a future generation, none is
\* absent at the receiver, and a task's failures have been counted.
GenKnown ==
    /\ \A t \in DOMAIN tasks : tasks[t].gen <= job.gen
    /\ push.pc = "queue" => push.ans.gen <= job.gen
    /\ \A w \in Workers : work[w].ans.gen <= job.gen
Present ==
    /\ \A t \in DOMAIN tasks : tasks[t].id = 0
    /\ push.pc = "queue" => push.ans.id = 0
    /\ tasks # <<>> \/ push.pc = "queue" => opened /\ job.status # "none"
    /\ token = 0
    /\ \A w \in Workers : work[w].pc # "idle" => work[w].ans.code \notin {"absent", "unauthorized"}
NotedGen ==
    \A w \in Workers : work[w].pc \in {"chunks", "finish"} => Mine(w).gen = work[w].ans.gen
FailuresCounted ==
    \A t \in Unfinished : tasks[t].gen = job.gen => tasks[t].failures <= strikes
FirstLife == proc = 0 => GenKnown /\ Present /\ FailuresCounted

-----------------------------------------------------------------------------
(* What a worker's step does to its task *)

\* What task i becomes, t, in a step of worker w.
Change(w, i, t) ==
    /\ t.ver = tasks[i].ver
    /\ \/ t.final = tasks[i].final
       \/ Finish(w) /\ i = work[w].task /\ t.final = Final(tasks[i])
    /\ \/ t.done = tasks[i].done
       \/ ReleaseAnswered(w) /\ i = work[w].task /\ Ends(w)
    /\ t.id = tasks[i].id \/ Reopen(w)
    /\ \/ t.gen = tasks[i].gen /\ t.failures = tasks[i].failures
       \/ Reopen(w)
       \/ Begin(w) /\ i = work[w].task /\ t.gen = work[w].ans.gen /\ t.failures = 0
       \/ Batched(w) /\ i = work[w].task /\ t.gen = tasks[i].gen /\ t.failures = 0
       \/ /\ BatchFailed(w) /\ i = work[w].task /\ t.gen = tasks[i].gen
          /\ t.failures <= tasks[i].failures + 1

LEMMA ReleasedAs ==
    ASSUME NEW w \in Workers, NEW task \in Task, NEW done \in BOOLEAN,
           Release(w, task, done)
    PROVE  \E t \in Task :
              /\ tasks' = [tasks EXCEPT ![work[w].task] = t]
              /\ t.ver = task.ver /\ t.final = task.final /\ t.id = task.id
              /\ t.gen = task.gen /\ t.failures = task.failures /\ t.done = done
<1> DEFINE t == [task EXCEPT !.busy = FALSE, !.done = done]
<1>1. /\ t \in Task
      /\ t.ver = task.ver /\ t.final = task.final /\ t.id = task.id
      /\ t.gen = task.gen /\ t.failures = task.failures /\ t.done = done
  BY DEF Task
<1>2. tasks' = [tasks EXCEPT ![work[w].task] = t]
  BY DEF Release
<1> HIDE DEF t
<1> QED BY <1>1, <1>2

\* A worker that gives its task back as it took it.
LEMMA GivesBack ==
    ASSUME Core, HeldOpen, NEW w \in Workers, work[w].pc # "idle",
           Release(w, Mine(w), FALSE)
    PROVE  \E i \in DOMAIN tasks, t \in Task :
              tasks' = [tasks EXCEPT ![i] = t] /\ Change(w, i, t)
<1>1. work[w].task \in DOMAIN tasks /\ Mine(w) \in Task /\ ~ Mine(w).done
  BY OwnTask DEF HeldOpen
<1>2. Mine(w).done \in BOOLEAN
  BY <1>1 DEF Task
<1>3. PICK t \in Task :
        /\ tasks' = [tasks EXCEPT ![work[w].task] = t]
        /\ t.ver = Mine(w).ver /\ t.final = Mine(w).final /\ t.id = Mine(w).id
        /\ t.gen = Mine(w).gen /\ t.failures = Mine(w).failures /\ t.done = FALSE
  BY <1>1, ReleasedAs
<1>4. t.done = Mine(w).done
  BY <1>1, <1>2, <1>3
<1>5. Change(w, work[w].task, t)
  BY <1>3, <1>4 DEF Change, Mine
<1> QED BY <1>1, <1>3, <1>5

LEMMA StepTask ==
    ASSUME Core, HeldOpen, NEW w \in Workers, Step(w)
    PROVE  \/ UNCHANGED tasks
           \/ \E i \in DOMAIN tasks, t \in Task :
                 tasks' = [tasks EXCEPT ![i] = t] /\ Change(w, i, t)
<1> DEFINE Goal == \E i \in DOMAIN tasks, t \in Task :
                      tasks' = [tasks EXCEPT ![i] = t] /\ Change(w, i, t)
<1> SUFFICES ASSUME ~ UNCHANGED tasks PROVE Goal
  OBVIOUS
<1> HIDE DEF Goal
<1>1. ASSUME NEW j \in DOMAIN tasks, Take(w, j) PROVE Goal
  <2>1. tasks[j] \in Task
    BY CoreParts, ElementOfSeq, LenProperties DEF Tables
  <2> DEFINE t == [tasks[j] EXCEPT !.busy = TRUE]
  <2>2. /\ t \in Task /\ t.ver = tasks[j].ver /\ t.final = tasks[j].final
        /\ t.done = tasks[j].done /\ t.id = tasks[j].id /\ t.gen = tasks[j].gen
        /\ t.failures = tasks[j].failures
    BY <2>1 DEF Task
  <2>3. tasks' = [tasks EXCEPT ![j] = t]
    BY <1>1 DEF Take
  <2> HIDE DEF t
  <2>4. Change(w, j, t)
    BY <2>2 DEF Change
  <2> QED BY <2>2, <2>3, <2>4 DEF Goal
<1>2. ASSUME work[w].pc # "idle", Release(w, Mine(w), FALSE) PROVE Goal
  BY <1>2, GivesBack DEF Goal
<1>3. ASSUME work[w].pc # "idle"
      PROVE  work[w].task \in DOMAIN tasks /\ Mine(w) \in Task /\ ~ Mine(w).done
  BY <1>3, OwnTask DEF HeldOpen
<1>4. CASE Reopen(w)
  <2>1. work[w].pc # "idle"
    BY <1>4 DEF Reopen
  <2> DEFINE v == Mine(w).ver
             ans == OpenReply(token, v)
             g == IF Streaming THEN ans.gen ELSE Mine(w).gen
             t == [Mine(w) EXCEPT !.id = ans.id, !.gen = g]
  <2>2. CASE Release(w, Mine(w), FALSE)
    BY <1>2, <2>1, <2>2
  <2>3. CASE tasks' = [tasks EXCEPT ![work[w].task] = t]
    <3>1. v \in Version /\ Mine(w).gen \in Nat /\ Mine(w) \in Task
      BY <1>3, <2>1 DEF Task
    <3>2. ans \in Answer
      BY <3>1, OpenReplyType DEF Core, TypeOK
    <3>3. ans.id \in Nat /\ g \in Nat
      BY <3>1, <3>2 DEF Answer
    <3> HIDE DEF ans, g
    <3>4. /\ t \in Task /\ t.ver = Mine(w).ver /\ t.final = Mine(w).final
          /\ t.done = Mine(w).done
      BY <3>1, <3>3 DEF Task
    <3> HIDE DEF t
    <3>5. Change(w, work[w].task, t)
      BY <1>4, <3>4 DEF Change, Mine
    <3> QED BY <1>3, <2>1, <2>3, <3>4, <3>5 DEF Goal
  <2>4. \/ Release(w, Mine(w), FALSE)
        \/ tasks' = [tasks EXCEPT ![work[w].task] = t]
    BY <1>4 DEF Reopen
  <2> QED BY <2>2, <2>3, <2>4
<1>5. CASE Reauthorize(w) \/ GiveUp(w)
  BY <1>2, <1>5 DEF Reauthorize, GiveUp
<1>6. CASE ReleaseAnswered(w)
  <2>1. work[w].pc # "idle"
    BY <1>6 DEF ReleaseAnswered, Answered
  <2>2. Finished(work[w].ans) \in BOOLEAN
    BY DEF Finished
  <2>3. PICK t \in Task :
          /\ tasks' = [tasks EXCEPT ![work[w].task] = t]
          /\ t.ver = Mine(w).ver /\ t.final = Mine(w).final /\ t.id = Mine(w).id
          /\ t.gen = Mine(w).gen /\ t.failures = Mine(w).failures
          /\ t.done = Finished(work[w].ans)
    BY <1>3, <1>6, <2>1, <2>2, ReleasedAs DEF ReleaseAnswered
  <2>4. CASE Finished(work[w].ans)
    <3>1. Ends(w)
      BY <1>6, <2>4 DEF Ends, ReleaseAnswered
    <3>2. Change(w, work[w].task, t)
      BY <1>6, <2>3, <3>1 DEF Change, Mine
    <3> QED BY <1>3, <2>1, <2>3, <3>2 DEF Goal
  <2>5. CASE ~ Finished(work[w].ans)
    <3>1. Release(w, Mine(w), FALSE)
      <4>1. Finished(work[w].ans) = FALSE
        BY <2>2, <2>5
      <4> QED BY <1>6, <4>1 DEF ReleaseAnswered
    <3> QED BY <1>2, <2>1, <3>1
  <2> QED BY <2>4, <2>5
<1>7. CASE Begin(w)
  <2>1. work[w].pc # "idle" /\ work[w].ans.gen \in Nat
    BY <1>7, OwnTask DEF Begin
  <2> DEFINE g == work[w].ans.gen
             t == Noted(Mine(w), g)
  <2>2. Mine(w) \in Task
    BY <1>3, <2>1
  <2>3. /\ t \in Task /\ t.ver = Mine(w).ver /\ t.final = Mine(w).final
        /\ t.done = Mine(w).done /\ t.id = Mine(w).id
        /\ \/ t.gen = Mine(w).gen /\ t.failures = Mine(w).failures
           \/ t.gen = g /\ t.failures = 0
    BY <2>1, <2>2 DEF Noted, Task
  <2>4. tasks' = [tasks EXCEPT ![work[w].task] = t]
    BY <1>7 DEF Begin, Mine
  <2> HIDE DEF t
  <2>5. Change(w, work[w].task, t)
    BY <1>7, <2>3 DEF Change, Mine
  <2> QED BY <1>3, <2>1, <2>3, <2>4, <2>5 DEF Goal
<1>8. CASE Batched(w)
  <2>1. work[w].pc # "idle"
    BY <1>8 DEF Batched
  <2> DEFINE task == [Mine(w) EXCEPT !.failures = 0]
  <2>2. Mine(w) \in Task /\ ~ Mine(w).done
    BY <1>3, <2>1
  <2>3. /\ task \in Task /\ task.ver = Mine(w).ver /\ task.final = Mine(w).final
        /\ task.id = Mine(w).id /\ task.gen = Mine(w).gen /\ task.failures = 0
        /\ Mine(w).done = FALSE
    BY <2>2 DEF Task
  <2>4. Release(w, task, FALSE)
    BY <1>8 DEF Batched
  <2> HIDE DEF task
  <2>5. PICK t \in Task :
          /\ tasks' = [tasks EXCEPT ![work[w].task] = t]
          /\ t.ver = task.ver /\ t.final = task.final /\ t.id = task.id
          /\ t.gen = task.gen /\ t.failures = task.failures /\ t.done = FALSE
    BY <2>3, <2>4, ReleasedAs
  <2>6. Change(w, work[w].task, t)
    BY <1>8, <2>3, <2>5 DEF Change, Mine
  <2> QED BY <1>3, <2>1, <2>5, <2>6 DEF Goal
<1>9. CASE BatchFailed(w)
  <2>1. work[w].pc # "idle"
    BY <1>9 DEF BatchFailed
  <2>2. Mine(w) \in Task /\ ~ Mine(w).done /\ Mine(w).failures \in Nat
    BY <1>3, <2>1 DEF Task
  <2>3. PICK n : /\ n \in Nat /\ n <= Mine(w).failures + 1
                 /\ Release(w, [Mine(w) EXCEPT !.failures = n], FALSE)
    <3>1. PICK e : Release(w, [Mine(w) EXCEPT !.failures =
                             Mine(w).failures + IF Counted(e) THEN 1 ELSE 0], FALSE)
      BY <1>9 DEF BatchFailed
    <3> DEFINE n == Mine(w).failures + IF Counted(e) THEN 1 ELSE 0
    <3>2. n \in Nat /\ n <= Mine(w).failures + 1
      BY <2>2
    <3>3. Release(w, [Mine(w) EXCEPT !.failures = n], FALSE)
      BY <3>1
    <3> HIDE DEF n
    <3> QED BY <3>2, <3>3
  <2> DEFINE task == [Mine(w) EXCEPT !.failures = n]
  <2>4. /\ task \in Task /\ task.ver = Mine(w).ver /\ task.final = Mine(w).final
        /\ task.id = Mine(w).id /\ task.gen = Mine(w).gen /\ task.failures = n
        /\ Mine(w).done = FALSE
    BY <2>2, <2>3 DEF Task
  <2>5. Release(w, task, FALSE)
    BY <2>3
  <2> HIDE DEF task
  <2>6. PICK t \in Task :
          /\ tasks' = [tasks EXCEPT ![work[w].task] = t]
          /\ t.ver = task.ver /\ t.final = task.final /\ t.id = task.id
          /\ t.gen = task.gen /\ t.failures = task.failures /\ t.done = FALSE
    BY <2>4, <2>5, ReleasedAs
  <2>7. Change(w, work[w].task, t)
    BY <1>9, <2>3, <2>4, <2>6 DEF Change, Mine
  <2> QED BY <1>3, <2>1, <2>6, <2>7 DEF Goal
<1>10. CASE Finish(w)
  <2>1. work[w].pc # "idle"
    BY <1>10 DEF Finish
  <2> DEFINE s == Final(Mine(w))
             kept == [Mine(w) EXCEPT !.final = s]
  <2>2. Mine(w) \in Task /\ ~ Mine(w).done
    BY <1>3, <2>1
  <2>3. s \in Version
    BY <2>2, CoreParts DEF Final, Task, Others
  <2> HIDE DEF s
  <2>4. /\ kept \in Task /\ kept.ver = Mine(w).ver /\ kept.final = s
        /\ kept.id = Mine(w).id /\ kept.gen = Mine(w).gen
        /\ kept.failures = Mine(w).failures
        /\ kept.done = FALSE /\ Mine(w).done = FALSE
    BY <2>2, <2>3 DEF Task
  <2>5. \/ tasks' = [tasks EXCEPT ![work[w].task] = kept]
        \/ Release(w, kept, FALSE)
        \/ Release(w, Mine(w), FALSE)
    BY <1>10 DEF Finish, s
  <2> HIDE DEF kept
  <2>6. CASE tasks' = [tasks EXCEPT ![work[w].task] = kept]
    <3>1. Change(w, work[w].task, kept)
      BY <1>10, <2>4 DEF Change, Mine, s
    <3> QED BY <1>3, <2>1, <2>4, <2>6, <3>1 DEF Goal
  <2>7. CASE Release(w, kept, FALSE)
    <3>1. PICK t \in Task :
            /\ tasks' = [tasks EXCEPT ![work[w].task] = t]
            /\ t.ver = kept.ver /\ t.final = kept.final /\ t.id = kept.id
            /\ t.gen = kept.gen /\ t.failures = kept.failures /\ t.done = FALSE
      BY <2>4, <2>7, ReleasedAs
    <3>2. Change(w, work[w].task, t)
      BY <1>10, <2>4, <3>1 DEF Change, Mine, s
    <3> QED BY <1>3, <2>1, <3>1, <3>2 DEF Goal
  <2>8. CASE Release(w, Mine(w), FALSE)
    BY <1>2, <2>1, <2>8
  <2> QED BY <2>5, <2>6, <2>7, <2>8
<1> QED BY <1>1, <1>4, <1>5, <1>6, <1>7, <1>8, <1>9, <1>10 DEF Step, SendChunk

LEMMA StepTasks ==
    ASSUME Core, HeldOpen, NEW w \in Workers, Step(w)
    PROVE  /\ DOMAIN tasks' = DOMAIN tasks
           /\ \A i \in DOMAIN tasks :
                 /\ tasks[i] \in Task /\ tasks'[i] \in Task
                 /\ tasks'[i] = tasks[i] \/ Change(w, i, tasks'[i])
<1>1. tasks \in Seq(Task) /\ \A i \in DOMAIN tasks : tasks[i] \in Task
  BY CoreParts, ElementOfSeq, LenProperties DEF Tables
<1>2. CASE UNCHANGED tasks
  BY <1>1, <1>2
<1>3. CASE \E i \in DOMAIN tasks, t \in Task :
              tasks' = [tasks EXCEPT ![i] = t] /\ Change(w, i, t)
  <2>1. PICK i \in DOMAIN tasks, t \in Task :
          tasks' = [tasks EXCEPT ![i] = t] /\ Change(w, i, t)
    BY <1>3
  <2>2. /\ DOMAIN tasks' = DOMAIN tasks /\ tasks'[i] = t
        /\ \A j \in DOMAIN tasks \ {i} : tasks'[j] = tasks[j]
    BY <1>1, <2>1
  <2> QED BY <1>1, <2>1, <2>2
<1> QED BY <1>2, <1>3, StepTask

\* A step leaves the other workers alone, and a worker that has a task after
\* its own step had it before or has just taken it.
LEMMA StepWork ==
    ASSUME Core, NEW w \in Workers, Step(w)
    PROVE  /\ \A u \in Workers \ {w} : work'[u] = work[u]
           /\ work'[w].pc # "idle" =>
                 \/ /\ work[w].pc # "idle" /\ work'[w].task = work[w].task
                    /\ ~ ReleaseAnswered(w)
                 \/ \E t \in DOMAIN tasks : Take(w, t) /\ work'[w].task = t
<1>1. work \in [Workers -> Local]
  BY CoreParts DEF Tables
<1>2. PICK l : Hold(w, l)
  BY DEF Step, Take, Reauthorize, Reopen, GiveUp, ReleaseAnswered, Begin, Batched,
         BatchFailed, SendChunk, Finish, Release
<1>3. \A u \in Workers \ {w} : work'[u] = work[u]
  BY <1>1, <1>2 DEF Hold
<1>4. ASSUME Hold(w, Idle) PROVE work'[w].pc = "idle"
  BY <1>1, <1>4 DEF Hold, Idle
<1>5. ASSUME NEW t \in DOMAIN tasks, Take(w, t) PROVE work'[w].task = t
  BY <1>1, <1>5 DEF Take, Hold, Idle
<1>6. ASSUME NEW m, m.task = work[w].task, Hold(w, m)
      PROVE  work'[w].task = work[w].task
  BY <1>1, <1>6 DEF Hold
<1>7. work[w] \in Local
  BY <1>1
<1>8. CASE ReleaseAnswered(w) \/ Reauthorize(w) \/ GiveUp(w) \/ Batched(w) \/ BatchFailed(w)
  BY <1>3, <1>4, <1>8 DEF ReleaseAnswered, Reauthorize, GiveUp, Batched, BatchFailed, Release
<1>9. CASE ~ ReleaseAnswered(w) /\ Begin(w)
  <2>1. PICK m : m.task = work[w].task /\ Hold(w, m)
    BY <1>7, <1>9 DEF Begin, Local
  <2>2. work[w].pc # "idle"
    BY <1>9 DEF Begin
  <2> QED BY <1>3, <1>6, <1>9, <2>1, <2>2
<1>10. CASE ~ ReleaseAnswered(w) /\ \E c \in Chunk : SendChunk(w, c)
  <2>1. PICK m : m.task = work[w].task /\ Hold(w, m)
    BY <1>7, <1>10 DEF SendChunk, Local
  <2>2. work[w].pc # "idle"
    BY <1>10 DEF SendChunk
  <2> QED BY <1>3, <1>6, <1>10, <2>1, <2>2
<1>11. CASE ~ ReleaseAnswered(w) /\ (Reopen(w) \/ Finish(w))
  <2>1. work[w].pc # "idle"
    BY <1>11 DEF Reopen, Finish
  <2>2. CASE Hold(w, Idle)
    BY <1>3, <1>4, <2>2
  <2>3. CASE ~ Hold(w, Idle)
    <3>1. PICK m : m.task = work[w].task /\ Hold(w, m)
      BY <1>7, <1>11, <2>3 DEF Reopen, Finish, Release, Local
    <3> QED BY <1>3, <1>6, <1>11, <2>1, <3>1
  <2> QED BY <2>2, <2>3
<1> QED BY <1>3, <1>5, <1>8, <1>9, <1>10, <1>11 DEF Step

-----------------------------------------------------------------------------
(* What becomes of the job *)

Live(j) == j.status \notin {"none", "done"}

\* The job stays as it is; it changes its status or its generation; it is
\* dropped from the queue; finish gives it its digest; an open makes it anew.
Still  == UNCHANGED <<job, published>>
Moves  == /\ Live(job) /\ Live(job') /\ job'.key = job.key /\ job'.sha = job.sha
          /\ UNCHANGED published
Drops  == job' = NoJob /\ UNCHANGED published
Seals(s) ==
    /\ job.status # "none" /\ job'.status # "none"
    /\ job'.status = "done" <=> job.status = "done"
    /\ job.sha \in {0, s} /\ job'.sha = s /\ job'.key = job.key
    /\ UNCHANGED published
Renews(v) == Live(job') /\ job'.key = KeyOf(v) /\ job'.sha = 0 /\ UNCHANGED published

LEMMA OpenMoves ==
    ASSUME Core, Streaming = TRUE, NEW v \in Version, job' = OpenedJob(v), UNCHANGED published
    PROVE  /\ Still \/ Moves \/ Renews(v)
           /\ ~ Conflicts(v) => job'.key = KeyOf(v)
<1>1. job \in Job
  BY DEF Core, TypeOK, ReceiverTypeOK
<1>2. CASE Replaces(v)
  <2>1. PICK g : job' = Fresh(v, g)
    BY <1>2 DEF OpenedJob
  <2>2. job'.key = KeyOf(v) /\ job'.sha = 0 /\ job'.status \in {"verifying", "pending"}
    BY <2>1 DEF Fresh, Ready, DigestOf
  <2> QED BY <2>2 DEF Renews, Live
<1>3. CASE ~ Replaces(v)
  <2>1. job' = Restored /\ Restored.status # "none"
    BY <1>3 DEF OpenedJob, Replaces
  <2>2. CASE job.status = "saved"
    <3>1. Restored = [job EXCEPT !.status = Ready(job)]
      BY <2>2 DEF Restored
    <3>2. /\ job'.key = job.key /\ job'.sha = job.sha
          /\ job'.status \in {"verifying", "pending"}
      BY <1>1, <2>1, <3>1 DEF Job, Ready
    <3> QED BY <1>3, <2>1, <2>2, <3>2 DEF Moves, Live, Conflicts
  <2>3. CASE job.status # "saved"
    BY <1>3, <2>1, <2>3 DEF Restored, Still, Conflicts
  <2> QED BY <2>2, <2>3
<1> QED BY <1>2, <1>3

LEMMA FinishSeals ==
    ASSUME Core, NEW t, NEW id, NEW g, NEW s \in Version, FinishCode(t, id, g, s) = "ok",
           job' = Sealed(s), UNCHANGED published
    PROVE  Seals(s)
<1>1. job \in Job /\ job.status # "none" /\ job.sha \in {0, s}
  BY ReachType DEF Core, TypeOK, ReceiverTypeOK, FinishCode
<1>2. /\ job'.key = job.key /\ job'.sha = s
      /\ job'.status = IF job.status = "done" THEN "done" ELSE "verifying"
  BY <1>1 DEF Sealed, Job, Status
<1> QED BY <1>1, <1>2 DEF Seals

LEMMA RestMoves ==
    ASSUME Core, NEW t, NEW id, NEW g, NEW c \in Chunk, NEW v,
           ServeChunk(t, id, g, c, v) \/ ServeChunkFails(t, id, g, c, v)
           \/ ServeFail(t, id, g) \/ UNCHANGED receiver
    PROVE  Still \/ Moves
<1>1. job \in Job
  BY DEF Core, TypeOK, ReceiverTypeOK
<1>2. CASE UNCHANGED receiver
  BY <1>2 DEF receiver, Still
<1>3. CASE ~ UNCHANGED receiver /\ (ServeChunk(t, id, g, c, v) \/ ServeChunkFails(t, id, g, c, v))
  <2>1. job.status \in Unsealed
    BY <1>3, ChunkCodeType DEF ServeChunk, ServeChunkFails
  <2>2. \E s \in {"verifying", "active", "error"} : job' = [job EXCEPT !.status = s]
    BY <1>3 DEF ServeChunk, ServeChunkFails
  <2> QED BY <1>1, <1>3, <2>1, <2>2
             DEF Moves, Live, Unsealed, Job, ServeChunk, ServeChunkFails
<1>4. CASE ~ UNCHANGED receiver /\ ServeFail(t, id, g)
  BY <1>1, <1>4, ReachType DEF ServeFail, FailReaches, Moves, Live, Job
<1> QED BY <1>2, <1>3, <1>4

LEMMA WorldJob ==
    ASSUME Core, World
    PROVE  /\ Still \/ Moves \/ Drops \/ Verify
           /\ UNCHANGED <<tasks, work, push>>
           /\ source' = source \/ ChangeSource
<1>1. job \in Job
  BY DEF Core, TypeOK, ReceiverTypeOK
<1>2. CASE ChangeSource \/ Close
  BY <1>2 DEF ChangeSource, Close, receiver, sender, Still
<1>3. CASE ReceiverVerifies
  <2>1. VerifyFails => Moves
    BY <1>1 DEF VerifyFails, Moves, Live, Job
  <2> QED BY <1>3, <2>1 DEF ReceiverVerifies, sender
<1>4. CASE User
  <2>1. Pause \/ Cancel => Moves
    BY <1>1 DEF Pause, Cancel, Moves, Live, Job
  <2>2. ASSUME Resume PROVE Moves
    <3>1. job' = [key |-> job.key, sha |-> job.sha, status |-> Ready(job), gen |-> job.gen + 1]
      BY <1>1, <2>2 DEF Resume, Job
    <3> QED BY <2>2, <3>1 DEF Resume, Moves, Live, Ready
  <2> QED BY <1>4, <2>1, <2>2 DEF User, sender
<1>5. CASE ReceiverRestarts
  <2>1. Moves \/ Drops
    <3>1. CASE job.status \in Settled \cup {"none"}
      BY <1>5, <3>1 DEF ReceiverRestarts, Restart, Drops
    <3>2. CASE job.status \notin Settled \cup {"none"}
      <4>1. job' = [key |-> job.key, sha |-> job.sha, status |-> "saved", gen |-> 0]
        BY <1>1, <1>5, <3>2 DEF ReceiverRestarts, Restart, Job
      <4> QED BY <1>5, <3>2, <4>1 DEF ReceiverRestarts, Restart, Moves, Live, Settled
    <3> QED BY <3>1, <3>2
  <2> QED BY <1>5, <2>1 DEF ReceiverRestarts, sender
<1> QED BY <1>2, <1>3, <1>4, <1>5 DEF World

LEMMA StepJob ==
    ASSUME Core, Streaming = TRUE, NEW w \in Workers, Step(w)
    PROVE  /\ \/ Still \/ Moves
              \/ /\ Finish(w) /\ Seals(Final(Mine(w)))
                 /\ tasks'[work[w].task].final = Final(Mine(w))
              \/ Reopen(w) /\ Renews(Mine(w).ver)
           /\ UNCHANGED <<source, push, offered>>
<1>1. UNCHANGED <<source, push, offered>>
  BY DEF Step, Take, Reauthorize, Reopen, GiveUp, ReleaseAnswered, Begin, Batched,
         BatchFailed, SendChunk, Finish, ghosts
<1>2. CASE (\E t \in DOMAIN tasks : Take(w, t)) \/ Reauthorize(w) \/ GiveUp(w)
           \/ ReleaseAnswered(w) \/ Begin(w) \/ Batched(w)
  BY <1>1, <1>2 DEF Take, Reauthorize, GiveUp, ReleaseAnswered, Begin, Batched, receiver, Still
<1>3. CASE BatchFailed(w)
  <2>1. PICK t, id, g : ServeFail(t, id, g) \/ UNCHANGED receiver
    BY <1>3 DEF BatchFailed
  <2>2. 0 \in Chunk
    BY ChunkAssumption DEF Chunk
  <2> QED BY <1>1, <2>1, <2>2, RestMoves
<1>4. ASSUME NEW c \in Chunk, SendChunk(w, c)
      PROVE  Still \/ Moves
  BY <1>4, RestMoves DEF SendChunk
<1>5. CASE Reopen(w)
  <2>1. work[w].pc # "idle" /\ Mine(w) \in Task
    BY <1>5, OwnTask DEF Reopen
  <2>2. Mine(w).ver \in Version
    BY <2>1 DEF Task
  <2>3. UNCHANGED receiver \/ ServeOpen(token, Mine(w).ver)
    BY <1>5 DEF Reopen
  <2>4. Still \/ (job' = OpenedJob(Mine(w).ver) /\ UNCHANGED published)
    BY <2>3 DEF ServeOpen, receiver, Still
  <2> QED BY <1>1, <1>5, <2>2, <2>4, OpenMoves
<1>6. CASE Finish(w)
  <2>1. work[w].pc # "idle" /\ Mine(w) \in Task /\ work[w].task \in DOMAIN tasks
        /\ tasks \in Seq(Task)
    BY <1>6, OwnTask, CoreParts DEF Finish, Tables
  <2> DEFINE s == Final(Mine(w))
             kept == [Mine(w) EXCEPT !.final = s]
  <2>2. s \in Version
    BY <2>1, CoreParts DEF Final, Task, Others
  <2>3. CASE UNCHANGED receiver
    BY <1>1, <2>3 DEF receiver, Still
  <2>4. CASE ~ UNCHANGED receiver
    <3>1. /\ ServeFinish(token, Mine(w).id, work[w].ans.gen, s)
          /\ tasks' = [tasks EXCEPT ![work[w].task] = kept] \/ Release(w, kept, FALSE)
      BY <1>6, <2>4 DEF Finish
    <3>2. /\ FinishCode(token, Mine(w).id, work[w].ans.gen, s) = "ok"
          /\ job' = Sealed(s) /\ UNCHANGED published
      BY <2>4, <3>1 DEF ServeFinish
    <3>3. Seals(s)
      BY <2>2, <3>2, FinishSeals
    <3> HIDE DEF s
    <3>4. kept \in Task /\ kept.final = s
      BY <2>1, <2>2 DEF Task
    <3> HIDE DEF kept
    <3>5. tasks'[work[w].task].final = s
      <4>1. CASE Release(w, kept, FALSE)
        <5>1. PICK t \in Task :
                /\ tasks' = [tasks EXCEPT ![work[w].task] = t]
                /\ t.ver = kept.ver /\ t.final = kept.final /\ t.id = kept.id
                /\ t.gen = kept.gen /\ t.failures = kept.failures /\ t.done = FALSE
          BY <3>4, <4>1, ReleasedAs
        <5> QED BY <2>1, <3>4, <5>1
      <4>2. CASE tasks' = [tasks EXCEPT ![work[w].task] = kept]
        BY <2>1, <3>4, <4>2
      <4> QED BY <3>1, <4>1, <4>2
    <3> QED BY <1>1, <1>6, <3>3, <3>5 DEF s
  <2> QED BY <2>3, <2>4
<1> QED BY <1>1, <1>2, <1>3, <1>4, <1>5, <1>6 DEF Step

LEMMA PushJob ==
    ASSUME Core, Streaming = TRUE, PushOpen
    PROVE  /\ Still \/ Moves \/ Renews(source)
           /\ UNCHANGED <<source, tasks, work>>
           /\ \/ push'.pc = "idle" /\ (offered' => job'.status = "done")
              \/ /\ push'.pc = "queue" /\ push'.ver = source
                 /\ job'.key = KeyOf(source) /\ Live(job')
<1>1. /\ UNCHANGED <<source, tasks, work>> /\ push.pc = "idle" /\ source \in Version
      /\ ReceiverTypeOK
  BY CoreParts DEF PushOpen, Others
<1>2. CASE UNCHANGED receiver /\ push' = push /\ offered' = FALSE
  BY <1>1, <1>2 DEF receiver, Still
<1>3. CASE ServeOpen(proc, source) /\ push' = push /\ offered' = FALSE
  <2>1. job' = OpenedJob(source) /\ UNCHANGED published
    BY <1>3 DEF ServeOpen
  <2> QED BY <1>1, <1>3, <2>1, OpenMoves
<1>4. ASSUME ServeOpen(proc, source),
             push' = IF OpenReply(proc, source).code = "ok" /\ ~ Finished(OpenReply(proc, source))
                     THEN [pc |-> "queue", ver |-> source, ans |-> OpenReply(proc, source)]
                     ELSE NoPush,
             offered' = (OpenReply(proc, source).code = "ok")
      PROVE  /\ Still \/ Moves \/ Renews(source)
             /\ \/ push'.pc = "idle" /\ (offered' => job'.status = "done")
                \/ /\ push'.pc = "queue" /\ push'.ver = source
                   /\ job'.key = KeyOf(source) /\ Live(job')
  <2>1. job' = OpenedJob(source) /\ UNCHANGED published
    BY <1>4 DEF ServeOpen
  <2>2. Still \/ Moves \/ Renews(source)
    BY <1>1, <2>1, OpenMoves
  <2>3. job'.status # "none"
    BY <1>1, <2>1, OpenedJobType
  <2>4. CASE Conflicts(source)
    <3>1. OpenReply(proc, source).code = "bad"
      BY <2>4 DEF OpenReply, Refusal
    <3> QED BY <1>4, <2>2, <3>1 DEF NoPush
  <2>5. CASE ~ Conflicts(source)
    <3>1. OpenReply(proc, source).code = "ok" /\ OpenReply(proc, source).status = job'.status
      BY <2>1, <2>5 DEF OpenReply, Report
    <3>2. job'.key = KeyOf(source)
      BY <1>1, <2>1, <2>5, OpenMoves
    <3> QED BY <1>4, <2>2, <2>3, <3>1, <3>2 DEF Finished, NoPush, Live
  <2> QED BY <2>4, <2>5
<1> QED BY <1>1, <1>2, <1>3, <1>4 DEF PushOpen

-----------------------------------------------------------------------------
(* Who has an answer that ends its task *)

LEMMA StandsForUnfinished ==
    ASSUME Core, Streaming = TRUE, NEW t \in DOMAIN tasks, NEW v
    PROVE  StandsFor(t, v) <=> ~ tasks[t].done
BY DEF StandsFor, DigestOf

\* Only a done job gives a worker such an answer.
LEMMA StepEnds ==
    ASSUME Core, Streaming = TRUE, NEW w \in Workers, Step(w), Ends(w)'
    PROVE  job'.status = "done"
<1>1. work \in [Workers -> Local] /\ work[w] \in Local /\ job \in Job /\ ReceiverTypeOK
  BY CoreParts DEF Tables, ReceiverTypeOK
<1>2. /\ work'[w].pc \in {"release", "answer"}
      /\ work'[w].ans.code = "ok" /\ work'[w].ans.status = "done"
  BY DEF Ends, Answered, Finished
<1>3. ASSUME Hold(w, Idle) PROVE FALSE
  BY <1>1, <1>2, <1>3 DEF Hold, Idle
<1>4. ASSUME NEW t \in DOMAIN tasks, Take(w, t) PROVE job'.status = "done"
  <2>1. job' = job
    BY <1>4 DEF Take, receiver
  <2>2. CASE Hold(w, [Idle EXCEPT !.pc = "answer", !.task = t])
    <3>1. work'[w].ans = Refusal("lost")
      BY <1>1, <2>2 DEF Hold, Idle
    <3> QED BY <1>2, <3>1 DEF Refusal
  <2>3. CASE Hold(w, [Idle EXCEPT !.pc = "answer", !.task = t,
                                  !.ans = StatusReply(token, tasks[t].id)])
    <3>1. work'[w].ans = StatusReply(token, tasks[t].id)
      BY <1>1, <2>3 DEF Hold, Idle
    <3>2. CASE Reach(token, tasks[t].id) = "ok"
      BY <1>2, <2>1, <3>1, <3>2 DEF StatusReply, Report
    <3>3. CASE Reach(token, tasks[t].id) # "ok"
      BY <1>2, <3>1, <3>3 DEF StatusReply, Refusal
    <3> QED BY <3>2, <3>3
  <2> QED BY <1>4, <2>2, <2>3 DEF Take
<1>5. CASE Reauthorize(w) \/ GiveUp(w) \/ ReleaseAnswered(w) \/ Batched(w) \/ BatchFailed(w)
  BY <1>3, <1>5 DEF Reauthorize, GiveUp, ReleaseAnswered, Batched, BatchFailed, Release
<1>6. CASE Begin(w)
  <2>1. work'[w].pc \in {"finish", "chunks"}
    BY <1>1, <1>6 DEF Begin, Hold, Local
  <2> QED BY <1>2, <2>1
<1>7. ASSUME NEW c \in Chunk, SendChunk(w, c) PROVE FALSE
  <2>1. PICK e : Hold(w, [work[w] EXCEPT !.todo = @ \ {c}, !.errs = @ \cup e])
    BY <1>7 DEF SendChunk
  <2>2. work[w].pc = "chunks"
    BY <1>7 DEF SendChunk
  <2>3. work'[w].pc = "chunks"
    BY <1>1, <2>1, <2>2 DEF Hold, Local
  <2> QED BY <1>2, <2>3
<1>8. CASE Reopen(w)
  <2> DEFINE v == Mine(w).ver
             ans == OpenReply(token, v)
  <2>1. /\ ServeOpen(token, v) /\ ans.code = "ok"
        /\ Hold(w, [work[w] EXCEPT !.pc = "release", !.ans = ans])
    BY <1>3, <1>8 DEF Reopen, Release
  <2>2. work'[w].ans = ans
    <3> HIDE DEF ans
    <3> QED BY <1>1, <2>1 DEF Hold, Local
  <2>3. ans = Report(OpenedJob(v)) /\ job' = OpenedJob(v)
    BY <2>1 DEF OpenReply, Refusal, ServeOpen
  <2> QED BY <1>2, <2>2, <2>3 DEF Report
<1>9. CASE Finish(w)
  <2> DEFINE s == Final(Mine(w))
             id == Mine(w).id
             g == work[w].ans.gen
             ans == FinishReply(token, id, g, s)
  <2>1. /\ ServeFinish(token, id, g, s) /\ Finished(ans)
        /\ Hold(w, [work[w] EXCEPT !.pc = "release", !.ans = ans])
    BY <1>3, <1>9 DEF Finish, Release
  <2>2. work'[w].ans = ans
    <3> HIDE DEF ans
    <3> QED BY <1>1, <2>1 DEF Hold, Local
  <2>3. FinishCode(token, id, g, s) = "ok"
    <3>1. ans.code = "ok"
      BY <2>1 DEF Finished
    <3> QED BY <3>1 DEF FinishReply, Refusal
  <2>4. ans = Report(Sealed(s)) /\ job' = Sealed(s)
    BY <2>1, <2>3 DEF FinishReply, ServeFinish
  <2> QED BY <1>2, <2>2, <2>4 DEF Report
<1> QED BY <1>4, <1>5, <1>6, <1>7, <1>8, <1>9 DEF Step

\* After a worker's step, whoever has such an answer had it before, or the job
\* is done.
LEMMA EndsFrom ==
    ASSUME Core, Streaming = TRUE, NEW w \in Workers, Step(w), NEW u \in Workers, Ends(u)'
    PROVE  job'.status = "done" \/ (u # w /\ Ends(u) /\ work'[u] = work[u])
<1>1. CASE u = w
  BY <1>1, StepEnds
<1>2. CASE u # w
  <2>1. work'[u] = work[u]
    BY <1>2, StepWork
  <2> QED BY <1>2, <2>1 DEF Ends, Answered, Finished
<1> QED BY <1>1, <1>2

\* Two workers are never both at work on a streaming file.
LEMMA OneAtWork ==
    ASSUME Core, Single, HeldOpen, NEW w \in Workers, NEW u \in Workers,
           work[w].pc # "idle", work[u].pc # "idle"
    PROVE  u = w
<1>1. /\ work[w].task \in DOMAIN tasks /\ work[u].task \in DOMAIN tasks
      /\ ~ tasks[work[w].task].done /\ ~ tasks[work[u].task].done
  BY OwnTask DEF HeldOpen, Mine
<1>2. work[w].task = work[u].task
  BY <1>1 DEF Single, Unfinished
<1> QED BY <1>2 DEF Core, OneWorkerPerTask

-----------------------------------------------------------------------------
(* Sealing: a streaming file has one unfinished task, and its digest *)

\* After a worker's step every unfinished task was unfinished before.
LEMMA StepUnfinished ==
    ASSUME Core, HeldOpen, NEW w \in Workers, Step(w)
    PROVE  /\ Unfinished' \subseteq Unfinished
           /\ \A t \in Unfinished : tasks'[t].ver = tasks[t].ver
           /\ \A t \in Unfinished :
                 tasks'[t].final = tasks[t].final
                 \/ (Finish(w) /\ t = work[w].task /\ tasks'[t].final = Final(Mine(w)))
           /\ ~ (ReleaseAnswered(w) /\ Ends(w)) => Unfinished' = Unfinished
<1>1. /\ DOMAIN tasks' = DOMAIN tasks
      /\ \A i \in DOMAIN tasks :
            /\ tasks[i] \in Task /\ tasks'[i] \in Task
            /\ tasks'[i] = tasks[i] \/ Change(w, i, tasks'[i])
  BY StepTasks
<1>2. \A i \in DOMAIN tasks :
         /\ tasks'[i].ver = tasks[i].ver
         /\ \/ tasks'[i].final = tasks[i].final
            \/ Finish(w) /\ i = work[w].task /\ tasks'[i].final = Final(tasks[i])
         /\ \/ tasks'[i].done = tasks[i].done
            \/ ReleaseAnswered(w) /\ i = work[w].task /\ Ends(w)
  BY <1>1 DEF Change
<1>3. ReleaseAnswered(w) => work[w].task \in Unfinished
  BY OwnTask DEF HeldOpen, Unfinished, Mine, ReleaseAnswered, Answered
<1>4. Unfinished' \subseteq Unfinished
  BY <1>1, <1>2, <1>3 DEF Unfinished
<1>5. ~ (ReleaseAnswered(w) /\ Ends(w)) => Unfinished' = Unfinished
  BY <1>1, <1>2 DEF Unfinished
<1>6. \A t \in Unfinished : t \in DOMAIN tasks
  BY DEF Unfinished
<1>7. \A t \in Unfinished : tasks'[t].ver = tasks[t].ver
  BY <1>2, <1>6
<1>8. \A t \in Unfinished :
         tasks'[t].final = tasks[t].final
         \/ (Finish(w) /\ t = work[w].task /\ tasks'[t].final = Final(Mine(w)))
  <2>1. TAKE t \in Unfinished
  <2>2. \/ tasks'[t].final = tasks[t].final
        \/ Finish(w) /\ t = work[w].task /\ tasks'[t].final = Final(tasks[t])
    BY <1>2, <1>6
  <2> QED BY <2>2 DEF Mine
<1> QED BY <1>4, <1>5, <1>7, <1>8

LEMMA QueueUnfinished ==
    ASSUME Core, Streaming = TRUE, PushQueue
    PROVE  /\ Unfinished \subseteq Unfinished' /\ Unfinished' # {}
           /\ \A t \in Unfinished : tasks'[t].ver = tasks[t].ver /\ tasks'[t].final = tasks[t].final
           /\ \A t \in DOMAIN tasks : t \in DOMAIN tasks' /\ tasks'[t] = tasks[t]
           /\ \/ tasks' = tasks
              \/ /\ Unfinished = {}
                 /\ \E n : /\ Unfinished' = {n} /\ DOMAIN tasks' = DOMAIN tasks \cup {n}
                           /\ tasks'[n] = NewTask(push.ver, push.ans)
           /\ Still /\ UNCHANGED <<source, work, offered>> /\ push'.pc = "idle"
           /\ push.pc = "queue" /\ push'.ver <= push.ver
<1> DEFINE new == NewTask(push.ver, push.ans)
<1>1. /\ tasks \in Seq(Task) /\ push.ver \in Version
      /\ Still /\ UNCHANGED <<source, work, offered>>
      /\ push' = NoPush /\ push.pc = "queue"
  BY CoreParts DEF Tables, Others, PushQueue, receiver, ghosts, Still
<1>2. new \in Task /\ new.ver = push.ver /\ ~ new.done
  BY CoreParts DEF NewTask, Task, Others, Answer
<1>3. push'.pc = "idle" /\ push'.ver <= push.ver
  BY <1>1, VersionAssumption DEF NoPush, Version
<1>4. CASE \E t \in DOMAIN tasks : StandsFor(t, push.ver)
  <2>1. tasks' = tasks /\ Unfinished # {}
    BY <1>4, StandsForUnfinished DEF PushQueue, Unfinished
  <2>2. Unfinished' = Unfinished
    BY <2>1 DEF Unfinished
  <2> QED BY <1>1, <1>3, <2>1, <2>2 DEF Unfinished
<1>5. CASE ~ \E t \in DOMAIN tasks : StandsFor(t, push.ver)
  <2> HIDE DEF new
  <2>1. tasks' = Append(tasks, new) /\ Unfinished = {}
    BY <1>5, StandsForUnfinished DEF PushQueue, Unfinished, new
  <2> DEFINE n == Len(tasks) + 1
  <2>2. /\ DOMAIN tasks' = DOMAIN tasks \cup {n} /\ n \notin DOMAIN tasks
        /\ tasks'[n] = new /\ \A t \in DOMAIN tasks : tasks'[t] = tasks[t]
    BY <1>1, <1>2, <2>1, AppendProperties, LenProperties
  <2> HIDE DEF n
  <2>3. Unfinished' = {n}
    BY <1>2, <2>1, <2>2 DEF Unfinished
  <2> QED BY <1>1, <1>3, <2>1, <2>2, <2>3 DEF new
<1> QED BY <1>4, <1>5

\* The part of Sealing that is about tasks alone.
Queued == Single /\ HeldOpen /\ Dated

LEMMA Versions ==
    ASSUME Core
    PROVE  /\ source \in Nat /\ source # 0 /\ push.ver \in Nat
           /\ \A t \in DOMAIN tasks :
                 /\ tasks[t].ver \in Version /\ tasks[t].final \in Version \cup {0}
                 /\ tasks[t].ver \in Nat /\ tasks[t].final \in Nat
<1>1. source \in Version /\ push.ver \in Version /\ tasks \in Seq(Task)
  BY CoreParts DEF Others, Tables
<1>2. \A t \in DOMAIN tasks : tasks[t] \in Task
  BY <1>1, ElementOfSeq, LenProperties
<1>3. \A t \in DOMAIN tasks : tasks[t].ver \in Version /\ tasks[t].final \in Version \cup {0}
  BY <1>2 DEF Task
<1>4. \A v \in Version : v \in Nat /\ v # 0
  BY VersionAssumption DEF Version
<1> QED BY <1>1, <1>3, <1>4

LEMMA StepQueued == ASSUME Core, Queued, NEW w \in Workers, Step(w) PROVE Queued'
<1>1. HeldOpen /\ Single /\ Dated
  BY DEF Queued
<1>2. /\ DOMAIN tasks' = DOMAIN tasks
      /\ \A i \in DOMAIN tasks : tasks'[i] = tasks[i] \/ Change(w, i, tasks'[i])
  BY <1>1, StepTasks
<1>3. UNCHANGED <<source, push>>
  BY DEF Step, Take, Reauthorize, Reopen, GiveUp, ReleaseAnswered, Begin, Batched,
         BatchFailed, SendChunk, Finish
<1>4. Single'
  BY <1>1, StepUnfinished DEF Single
<1>5. Dated'
  <2>1. ASSUME NEW i \in DOMAIN tasks
        PROVE  /\ tasks'[i].ver <= source
               /\ tasks'[i].final # 0 => tasks'[i].ver <= tasks'[i].final
    <3>1. /\ tasks'[i].ver = tasks[i].ver
          /\ tasks'[i].final = tasks[i].final \/ tasks'[i].final = Final(tasks[i])
      BY <1>2 DEF Change
    <3> QED BY <1>1, <3>1 DEF Dated, Final
  <2> QED BY <1>1, <1>2, <1>3, <2>1 DEF Dated
<1>6. HeldOpen'
  <2>1. SUFFICES ASSUME NEW u \in Workers, work'[u].pc # "idle"
                 PROVE  ~ tasks'[work'[u].task].done
    BY DEF HeldOpen, Mine
  <2>2. ASSUME NEW i \in DOMAIN tasks, ~ tasks[i].done,
               ~ (ReleaseAnswered(w) /\ i = work[w].task)
        PROVE  ~ tasks'[i].done
    BY <1>2, <2>2 DEF Change
  <2>3. CASE u = w
    <3>1. CASE work[w].pc # "idle" /\ work'[w].task = work[w].task /\ ~ ReleaseAnswered(w)
      <4>1. work[w].task \in DOMAIN tasks /\ ~ tasks[work[w].task].done
        BY <1>1, <3>1, OwnTask DEF HeldOpen, Mine
      <4> QED BY <2>2, <2>3, <3>1, <4>1
    <3>2. CASE \E t \in DOMAIN tasks : Take(w, t) /\ work'[w].task = t
      <4>1. PICK t \in DOMAIN tasks : Take(w, t) /\ work'[w].task = t
        BY <3>2
      <4>2. ~ tasks[t].done /\ work[w].pc = "idle"
        BY <4>1 DEF Take, Free
      <4>3. ~ ReleaseAnswered(w)
        BY <4>2 DEF ReleaseAnswered, Answered
      <4> QED BY <2>2, <2>3, <4>1, <4>2, <4>3
    <3> QED BY <2>1, <2>3, <3>1, <3>2, StepWork
  <2>4. CASE u # w
    <3>1. work'[u] = work[u] /\ work[u].pc # "idle"
      BY <2>1, <2>4, StepWork
    <3>2. work[u].task \in DOMAIN tasks /\ ~ tasks[work[u].task].done
      BY <1>1, <3>1, OwnTask DEF HeldOpen, Mine
    <3>3. ReleaseAnswered(w) => work[u].task # work[w].task
      BY <2>4, <3>1 DEF Core, OneWorkerPerTask, ReleaseAnswered, Answered
    <3> QED BY <2>2, <3>1, <3>2, <3>3
  <2> QED BY <2>3, <2>4
<1> QED BY <1>4, <1>5, <1>6 DEF Queued

LEMMA QueuedNext ==
    Core /\ Streaming = TRUE /\ Queued /\ [Next]_vars => Queued'
<1> SUFFICES ASSUME Core, Streaming = TRUE, Queued, [Next]_vars PROVE Queued'
  OBVIOUS
<1>1. CASE PushOpen
  <2>1. UNCHANGED <<source, tasks, work>> /\ push'.ver <= source
    <3>1. UNCHANGED <<source, tasks, work>> /\ (push' = push \/ push'.ver \in {1, source})
      BY <1>1 DEF PushOpen, NoPush
    <3>2. push.ver <= source
      BY DEF Queued, Dated
    <3>3. source \in Nat /\ source # 0
      BY Versions
    <3> QED BY <3>1, <3>2, <3>3
  <2> QED BY <2>1 DEF Queued, Single, HeldOpen, Dated, Unfinished, Mine
<1>2. CASE PushQueue
  <2> DEFINE new == NewTask(push.ver, push.ans)
  <2>1. /\ push.ver <= source /\ push'.ver <= push.ver /\ UNCHANGED <<source, work>>
        /\ \A t \in DOMAIN tasks : t \in DOMAIN tasks' /\ tasks'[t] = tasks[t]
    BY <1>2, QueueUnfinished DEF Queued, Dated
  <2>2. push'.ver <= source'
    <3>1. push'.ver \in Nat /\ push.ver \in Nat /\ source \in Nat
      BY <1>2, Versions, VersionAssumption DEF PushQueue, NoPush
    <3> QED BY <2>1, <3>1
  <2>3. HeldOpen'
    <3>1. \A w \in Workers : work[w].pc # "idle" => work[w].task \in DOMAIN tasks
      BY DEF Core, OneWorkerPerTask
    <3> QED BY <2>1, <3>1 DEF Queued, HeldOpen, Mine
  <2>4. CASE tasks' = tasks
    BY <2>1, <2>2, <2>3, <2>4 DEF Queued, Single, Dated, Unfinished
  <2>5. CASE tasks' # tasks
    <3>1. PICK n : /\ Unfinished' = {n} /\ DOMAIN tasks' = DOMAIN tasks \cup {n}
                   /\ tasks'[n] = new
      BY <1>2, <2>5, QueueUnfinished
    <3>2. tasks'[n].ver = push.ver /\ tasks'[n].final = 0
      BY <3>1 DEF NewTask
    <3>3. Single'
      BY <3>1 DEF Single
    <3>4. Dated'
      BY <2>1, <2>2, <3>1, <3>2 DEF Queued, Dated
    <3> QED BY <2>3, <3>3, <3>4 DEF Queued
  <2> QED BY <2>4, <2>5
<1>3. ASSUME NEW w \in Workers, Step(w) PROVE Queued'
  BY <1>3, StepQueued
<1>4. CASE World
  <2>1. UNCHANGED <<tasks, work, push>> /\ source <= source'
    BY <1>4, WorldJob, Versions DEF ChangeSource
  <2>2. source' \in Nat
    BY <1>4, WorldJob, Versions DEF ChangeSource
  <2>3. Dated'
    BY <2>1, <2>2, Versions DEF Queued, Dated
  <2> QED BY <2>1, <2>3 DEF Queued, Single, HeldOpen, Unfinished, Mine
<1>5. CASE UNCHANGED vars
  BY <1>5 DEF vars, sender, Queued, Single, HeldOpen, Dated, Unfinished, Mine
<1> QED BY <1>1, <1>2, <1>3, <1>4, <1>5 DEF Next, Push

-----------------------------------------------------------------------------
(* The digest of the job is the one of the unfinished task *)

\* The two parts of Sealing that are about the job.
Promised == SealedKnown /\ EndsFree

LEMMA StepPromised ==
    ASSUME Core, Streaming = TRUE, Queued, Promised, NEW w \in Workers, Step(w)
    PROVE  Promised'
<1>1. Single /\ HeldOpen /\ SealedKnown /\ EndsFree
  BY DEF Queued, Promised
<1>2. /\ Unfinished' \subseteq Unfinished
      /\ \A t \in Unfinished :
            tasks'[t].final = tasks[t].final
            \/ (Finish(w) /\ t = work[w].task /\ tasks'[t].final = Final(Mine(w)))
      /\ ~ (ReleaseAnswered(w) /\ Ends(w)) => Unfinished' = Unfinished
  BY <1>1, StepUnfinished
<1>3. ReleaseAnswered(w) => Still
  BY DEF ReleaseAnswered, receiver, Still
<1>4. \A t \in Unfinished : tasks[t].final # 0 => tasks'[t].final = tasks[t].final
  BY <1>2 DEF Final, Mine
<1>5. ASSUME job.sha # 0, Live(job), ~ (ReleaseAnswered(w) /\ Ends(w))
      PROVE  \E t \in Unfinished' : tasks'[t].final = job.sha
  BY <1>1, <1>2, <1>4, <1>5 DEF SealedKnown, Live
<1>6. CASE Still
  <2>1. SealedKnown'
    <3>1. CASE ReleaseAnswered(w) /\ Ends(w)
      BY <1>1, <1>6, <3>1 DEF EndsFree, SealedKnown, Still
    <3>2. CASE ~ (ReleaseAnswered(w) /\ Ends(w))
      BY <1>5, <1>6, <3>2 DEF SealedKnown, Still, Live
    <3> QED BY <3>1, <3>2
  <2>2. EndsFree'
    BY <1>1, <1>6, EndsFrom DEF EndsFree, Still
  <2> QED BY <2>1, <2>2 DEF Promised
<1>7. CASE Moves /\ ~ Still
  <2>1. SealedKnown'
    BY <1>3, <1>5, <1>7 DEF SealedKnown, Moves, Live
  <2>2. EndsFree'
    BY <1>1, <1>7, EndsFrom DEF EndsFree, Moves, Live
  <2> QED BY <2>1, <2>2 DEF Promised
<1>8. CASE Finish(w) /\ Seals(Final(Mine(w))) /\ tasks'[work[w].task].final = Final(Mine(w))
  <2>1. work[w].pc # "idle" /\ ~ ReleaseAnswered(w) /\ work[w].task \in Unfinished
    BY <1>1, <1>8, OwnTask DEF Finish, ReleaseAnswered, Answered, HeldOpen, Mine, Unfinished
  <2>2. SealedKnown'
    BY <1>2, <1>8, <2>1 DEF SealedKnown, Seals
  <2>3. EndsFree'
    <3>1. SUFFICES ASSUME NEW u \in Workers, Ends(u)', job'.status # "done"
                   PROVE  FALSE
      BY DEF EndsFree
    <3>2. u # w /\ Ends(u)
      BY <3>1, EndsFrom
    <3>3. work[u].pc # "idle"
      BY <3>2 DEF Ends, Answered
    <3> QED BY <1>1, <2>1, <3>2, <3>3, OneAtWork
  <2> QED BY <2>2, <2>3 DEF Promised
<1>9. CASE Reopen(w) /\ Renews(Mine(w).ver)
  BY <1>9 DEF Promised, SealedKnown, EndsFree, Renews
<1> QED BY <1>6, <1>7, <1>8, <1>9, StepJob

LEMMA PromisedNext ==
    Core /\ Streaming = TRUE /\ Queued /\ Promised /\ [Next]_vars => Promised'
<1> SUFFICES ASSUME Core, Streaming = TRUE, Queued, Promised, [Next]_vars PROVE Promised'
  OBVIOUS
<1>1. SealedKnown /\ EndsFree
  BY DEF Promised
\* Where the tasks and the workers stay.
<1>2. ASSUME UNCHANGED <<tasks, work>>, Still \/ Moves \/ Drops \/ Verify \/ job'.sha = 0
      PROVE  Promised'
  <2>1. Unfinished' = Unfinished /\ \A w \in Workers : Ends(w)' <=> Ends(w)
    BY <1>2 DEF Unfinished, Ends, Answered, Finished
  <2>2. CASE Still \/ Moves
    BY <1>1, <1>2, <2>1, <2>2 DEF Promised, SealedKnown, EndsFree, Still, Moves, Live
  <2>3. CASE Drops \/ job'.sha = 0
    BY <2>3 DEF Promised, SealedKnown, EndsFree, Drops, NoJob
  <2>4. CASE Verify
    <3>1. job'.status = "done" \/ job'.sha = 0
      <4>1. job \in Job
        BY DEF Core, TypeOK, ReceiverTypeOK
      <4>2. \/ job' = [job EXCEPT !.status = "done"]
            \/ job' = [job EXCEPT !.status = "error", !.sha = 0]
        BY <2>4 DEF Verify
      <4> QED BY <4>1, <4>2 DEF Job
    <3> QED BY <3>1 DEF Promised, SealedKnown, EndsFree
  <2> QED BY <1>2, <2>2, <2>3, <2>4
<1>3. CASE PushOpen
  BY <1>2, <1>3, PushJob DEF Renews
<1>4. CASE PushQueue
  <2>1. /\ Unfinished \subseteq Unfinished' /\ Still /\ UNCHANGED work
        /\ \A t \in Unfinished : tasks'[t].final = tasks[t].final
    BY <1>4, QueueUnfinished
  <2>2. \A w \in Workers : Ends(w)' <=> Ends(w)
    BY <2>1 DEF Ends, Answered, Finished
  <2> QED BY <1>1, <2>1, <2>2 DEF Promised, SealedKnown, EndsFree, Still
<1>5. ASSUME NEW w \in Workers, Step(w) PROVE Promised'
  BY <1>5, StepPromised
<1>6. CASE World
  BY <1>2, <1>6, WorldJob
<1>7. CASE UNCHANGED vars
  BY <1>2, <1>7 DEF vars, receiver, sender, Still
<1> QED BY <1>3, <1>4, <1>5, <1>6, <1>7 DEF Next, Push

LEMMA SealingInit == Init => Sealing
<1> SUFFICES ASSUME Init PROVE Sealing
  OBVIOUS
<1>1. Core
  BY InitCore
<1>2. /\ Unfinished = {} /\ DOMAIN tasks = {}
      /\ \A w \in Workers : work[w].pc = "idle"
      /\ job.status = "none" /\ source = 1 /\ push.ver = 1
  BY DEF Init, InitReceiver, NoJob, NoPush, Unfinished, Idle
<1>3. Single /\ HeldOpen /\ Dated
  BY <1>2 DEF Single, HeldOpen, Dated
<1>4. SealedKnown /\ EndsFree
  BY <1>2 DEF SealedKnown, EndsFree
<1> QED BY <1>1, <1>3, <1>4 DEF Sealing

LEMMA SealingNext == Streaming = TRUE /\ Sealing /\ [Next]_vars => Sealing'
<1>1. Sealing <=> Core /\ Queued /\ Promised
  BY DEF Sealing, Queued, Promised
<1>2. Sealing' <=> Core' /\ Queued' /\ Promised'
  BY DEF Sealing, Queued, Promised
<1> QED BY <1>1, <1>2, NextCore, QueuedNext, PromisedNext

-----------------------------------------------------------------------------
(* The digest is of the file as it is *)

LEMMA FinalCurrentNext ==
    ASSUME "change_after_digest" \notin Races
    PROVE  Streaming = TRUE /\ Sealing /\ FinalCurrent /\ [Next]_vars => FinalCurrent'
<1> SUFFICES ASSUME Streaming = TRUE, Sealing, FinalCurrent, [Next]_vars PROVE FinalCurrent'
  OBVIOUS
<1>1. Core /\ HeldOpen
  BY DEF Sealing
<1>2. ASSUME UNCHANGED <<tasks, source>> PROVE FinalCurrent'
  BY <1>2 DEF FinalCurrent, Unfinished
<1>3. CASE PushOpen
  BY <1>1, <1>2, <1>3, PushJob
<1>4. CASE PushQueue
  <2>1. \/ tasks' = tasks
        \/ \E n : Unfinished' = {n} /\ tasks'[n] = NewTask(push.ver, push.ans)
    BY <1>1, <1>4, QueueUnfinished
  <2>2. source' = source
    BY <1>4 DEF PushQueue
  <2> QED BY <1>2, <2>1, <2>2 DEF FinalCurrent, NewTask
<1>5. ASSUME NEW w \in Workers, Step(w) PROVE FinalCurrent'
  <2>1. /\ Unfinished' \subseteq Unfinished
        /\ \A t \in Unfinished :
              tasks'[t].final = tasks[t].final
              \/ (Finish(w) /\ t = work[w].task /\ tasks'[t].final = Final(Mine(w)))
    BY <1>1, <1>5, StepUnfinished
  <2>2. source' = source
    BY <1>1, <1>5, StepJob
  <2> QED BY <2>1, <2>2 DEF FinalCurrent, Final, Mine
<1>6. CASE World
  <2>1. UNCHANGED tasks /\ (source' = source \/ ChangeSource)
    BY <1>1, <1>6, WorldJob
  <2>2. CASE ChangeSource
    <3>1. \A t \in Unfinished : tasks[t].final = 0
      BY <2>2 DEF ChangeSource, Unfinished
    <3> QED BY <2>1, <3>1 DEF FinalCurrent, Unfinished
  <2> QED BY <1>2, <2>1, <2>2
<1>7. CASE UNCHANGED vars
  BY <1>2, <1>7 DEF vars, sender
<1> QED BY <1>3, <1>4, <1>5, <1>6, <1>7 DEF Next, Push

-----------------------------------------------------------------------------
(* The legacy protocol: a job's name is its digest, and so is all it holds *)

Legacy ==
    Streaming = FALSE =>
        /\ job.sha = job.key
        /\ \A k \in Key, c \in Chunk : cache[k][c] \in {0, k}

LEMMA LegacyNext == Core /\ Legacy /\ [Next]_vars => Legacy'
<1> SUFFICES ASSUME Core, Legacy, [Next]_vars, Streaming = FALSE
             PROVE  /\ job'.sha = job'.key
                    /\ \A k \in Key, c \in Chunk : cache'[k][c] \in {0, k}
  BY DEF Legacy
<1>1. /\ job \in Job /\ cache \in [Key -> [Chunk -> Version \cup {0}]]
      /\ job.sha = job.key /\ \A k \in Key, c \in Chunk : cache[k][c] \in {0, k}
  BY DEF Core, TypeOK, ReceiverTypeOK, Legacy
<1>2. ASSUME UNCHANGED <<job, cache>>
      PROVE  /\ job'.sha = job'.key
             /\ \A k \in Key, c \in Chunk : cache'[k][c] \in {0, k}
  BY <1>1, <1>2
<1>3. CASE UNCHANGED receiver
  BY <1>2, <1>3 DEF receiver
<1>4. ASSUME NEW t, NEW v, ServeOpen(t, v)
      PROVE  /\ job'.sha = job'.key
             /\ \A k \in Key, c \in Chunk : cache'[k][c] \in {0, k}
  <2>1. CASE UNCHANGED receiver
    BY <1>3, <2>1
  <2>2. CASE ~ UNCHANGED receiver
    <3>1. job' = OpenedJob(v) /\ cache' = cache
      BY <1>4, <2>2 DEF ServeOpen
    <3>2. Restored.sha = Restored.key
      BY <1>1 DEF Restored, Job
    <3>3. \A g : Fresh(v, g).sha = Fresh(v, g).key
      BY DEF Fresh, KeyOf, DigestOf
    <3> QED BY <1>1, <3>1, <3>2, <3>3 DEF OpenedJob
  <2> QED BY <2>1, <2>2
<1>5. ASSUME NEW t, NEW id, NEW g, NEW c \in Chunk, NEW v, ServeChunk(t, id, g, c, v)
      PROVE  /\ job'.sha = job'.key
             /\ \A k \in Key, d \in Chunk : cache'[k][d] \in {0, k}
  <2>1. CASE UNCHANGED receiver
    BY <1>3, <2>1
  <2>2. CASE ~ UNCHANGED receiver
    <3>1. /\ v = job.sha
          /\ cache' = [cache EXCEPT ![job.key] = [Marks(job) EXCEPT ![c] = v]]
          /\ \E s \in {"verifying", "active"} : job' = [job EXCEPT !.status = s]
      BY <1>5, <2>2 DEF ServeChunk, ChunkCode
    <3>2. job'.sha = job'.key
      BY <1>1, <3>1 DEF Job
    <3>3. \A k \in Key, d \in Chunk : cache'[k][d] \in {0, k}
      <4>1. job.status # "none"
        BY <1>5, <2>2, ChunkCodeType DEF ServeChunk, Unsealed
      <4>2. job.key \in Key /\ job.key # 0
        BY <4>1 DEF Core, TypeOK, ReceiverTypeOK, Job
      <4>3. Marks(job) = cache[job.key]
        BY <4>2 DEF Marks
      <4> QED BY <1>1, <3>1, <4>2, <4>3
    <3> QED BY <3>2, <3>3
  <2> QED BY <2>1, <2>2
<1>6. ASSUME NEW s, job' = [job EXCEPT !.status = s], cache' = cache
      PROVE  /\ job'.sha = job'.key
             /\ \A k \in Key, c \in Chunk : cache'[k][c] \in {0, k}
  BY <1>1, <1>6 DEF Job
<1>7. ASSUME NEW t, NEW id, NEW g, ServeFail(t, id, g)
      PROVE  /\ job'.sha = job'.key
             /\ \A k \in Key, c \in Chunk : cache'[k][c] \in {0, k}
  BY <1>3, <1>6, <1>7 DEF ServeFail
<1>8. CASE PushOpen
  BY <1>3, <1>4, <1>8 DEF PushOpen
<1>9. CASE PushQueue \/ ChangeSource \/ Close \/ UNCHANGED vars
  BY <1>3, <1>9 DEF PushQueue, ChangeSource, Close, vars
<1>10. ASSUME NEW w \in Workers, Step(w)
       PROVE  /\ job'.sha = job'.key
              /\ \A k \in Key, c \in Chunk : cache'[k][c] \in {0, k}
  <2>1. CASE UNCHANGED receiver
    BY <1>3, <2>1
  <2>2. CASE Reopen(w)
    BY <1>3, <1>4, <2>2 DEF Reopen
  <2>3. CASE BatchFailed(w)
    BY <1>3, <1>7, <2>3 DEF BatchFailed
  <2>4. ASSUME NEW c \in Chunk, SendChunk(w, c), ~ UNCHANGED receiver
        PROVE  /\ job'.sha = job'.key
               /\ \A k \in Key, d \in Chunk : cache'[k][d] \in {0, k}
    BY <1>5, <1>6, <2>4 DEF SendChunk, ServeChunkFails
  <2>5. ~ Finish(w)
    BY DEF Finish
  <2>6. (\E t \in DOMAIN tasks : Take(w, t)) \/ Reauthorize(w) \/ GiveUp(w)
        \/ ReleaseAnswered(w) \/ Begin(w) \/ Batched(w) => UNCHANGED receiver
    BY DEF Take, Reauthorize, GiveUp, ReleaseAnswered, Begin, Batched
  <2> QED BY <1>10, <2>1, <2>2, <2>3, <2>4, <2>5, <2>6 DEF Step
<1>11. CASE User
  <2>1. CASE Pause \/ Cancel
    BY <1>6, <2>1 DEF Pause, Cancel
  <2>2. CASE Resume
    <3>1. /\ job' = [key |-> job.key, sha |-> job.sha, status |-> Ready(job), gen |-> job.gen + 1]
          /\ cache' = cache
      BY <1>1, <2>2 DEF Resume, Job
    <3> QED BY <1>1, <3>1
  <2> QED BY <1>11, <2>1, <2>2 DEF User
<1>12. CASE ReceiverVerifies
  <2>1. CASE VerifyFails
    BY <1>6, <2>1 DEF VerifyFails
  <2>2. CASE Verify
    <3>1. /\ cache' = [cache EXCEPT ![job.key] = Nothing]
          /\ \/ job' = [job EXCEPT !.status = "done"]
             \/ job' = [job EXCEPT !.status = "error", !.sha = @]
      BY <2>2 DEF Verify
    <3>2. job'.sha = job'.key
      BY <1>1, <3>1 DEF Job
    <3>3. \A k \in Key, c \in Chunk : cache'[k][c] \in {0, k}
      BY <1>1, <3>1 DEF Nothing
    <3> QED BY <3>2, <3>3
  <2> QED BY <1>12, <2>1, <2>2 DEF ReceiverVerifies
<1>13. CASE ReceiverRestarts
  <2>1. CASE job' = NoJob
    BY <1>1, <1>13, <2>1 DEF ReceiverRestarts, Restart, NoJob
  <2>2. CASE job' # NoJob
    <3>1. /\ job' = [key |-> job.key, sha |-> job.sha, status |-> "saved", gen |-> 0]
          /\ cache' = cache
      BY <1>1, <1>13, <2>2 DEF ReceiverRestarts, Restart, Job
    <3> QED BY <1>1, <3>1
  <2> QED BY <2>1, <2>2
<1> QED BY <1>8, <1>9, <1>10, <1>11, <1>12, <1>13 DEF Next, Push, World

-----------------------------------------------------------------------------

\* What the receiver holds complete, in the content the source file has, is
\* verified against the digest of that content: the digest that finishUpload
\* took is the unfinished task's (worker computes it once, and keeps it until
\* a report of "done"), or the manifest's, which names what acceptChunk
\* accepts.  The hypothesis is the one of the run: nobody edits the file after
\* the sender took its digest, which is what the run stale_digest refutes.
THEOREM IntactIsVerified ==
    ASSUME "change_after_digest" \notin Races
    PROVE  Spec => []IntactVerifies
<1>1. CASE Streaming = TRUE
  <2>1. Init => FinalCurrent
    BY DEF Init, FinalCurrent, Unfinished
  <2>2. Sealing /\ FinalCurrent => IntactVerifies
    <3> SUFFICES ASSUME Sealing, FinalCurrent, job.status = "verifying"
                 PROVE  job.sha = source
      BY DEF IntactVerifies
    <3>1. job.sha # 0
      BY DEF Sealing, Core, TypeOK, ReceiverTypeOK
    <3>2. \E t \in Unfinished : tasks[t].final = job.sha
      BY <3>1 DEF Sealing, SealedKnown
    <3> QED BY <3>1, <3>2 DEF FinalCurrent
  <2>3. Sealing /\ FinalCurrent /\ [Next]_vars => Sealing' /\ FinalCurrent'
    BY <1>1, SealingNext, FinalCurrentNext
  <2> QED BY SealingInit, <2>1, <2>2, <2>3, PTL DEF Spec
<1>2. CASE Streaming = FALSE
  <2>1. Init => Legacy
    BY DEF Init, InitReceiver, NoJob, Nothing, Legacy
  <2>2. Core /\ Legacy => IntactVerifies
    <3> SUFFICES ASSUME Core, Legacy, job.status = "verifying",
                        \A c \in Chunk : Marks(job)[c] = source
                 PROVE  job.sha = source
      BY DEF IntactVerifies
    <3>1. job.key \in Key /\ job.key # 0 /\ job.sha = job.key
      BY <1>2 DEF Core, TypeOK, ReceiverTypeOK, Job, Legacy
    <3>2. 0 \in Chunk /\ source # 0
      BY Versions, ChunkAssumption DEF Chunk
    <3>3. cache[job.key][0] = source
      BY <3>1, <3>2 DEF Marks
    <3> QED BY <1>2, <3>1, <3>2, <3>3 DEF Legacy
  <2> QED BY InitCore, NextCore, LegacyNext, <2>1, <2>2, PTL DEF Spec
<1> QED BY <1>1, <1>2, ProtocolAssumption

-----------------------------------------------------------------------------
(* The job, the push and the unfinished task are of one version *)

\* A push joins an unfinished task only when that is of the file as it is.
LEMMA PushOpenVersion ==
    ASSUME "push_over_task" \notin Races, Core, Streaming = TRUE, PushOpen
    PROVE  \A t \in Unfinished : tasks[t].ver = source
BY StandsForUnfinished DEF PushOpen, Unfinished

LEMMA PushAgreesNext ==
    ASSUME "push_over_task" \notin Races
    PROVE  Streaming = TRUE /\ Sealing /\ PushAgrees /\ [Next]_vars => PushAgrees'
<1> SUFFICES ASSUME Streaming = TRUE, Sealing, PushAgrees, [Next]_vars PROVE PushAgrees'
  OBVIOUS
<1>1. Core /\ HeldOpen
  BY DEF Sealing
<1>2. CASE PushOpen
  <2>1. UNCHANGED tasks /\ (push'.pc = "queue" => push'.ver = source)
    BY <1>1, <1>2, PushJob
  <2> QED BY <1>1, <1>2, <2>1, PushOpenVersion DEF PushAgrees, Unfinished
<1>3. CASE PushQueue
  BY <1>3 DEF PushQueue, PushAgrees, NoPush
<1>4. ASSUME NEW w \in Workers, Step(w) PROVE PushAgrees'
  <2>1. /\ Unfinished' \subseteq Unfinished
        /\ \A t \in Unfinished : tasks'[t].ver = tasks[t].ver
    BY <1>1, <1>4, StepUnfinished
  <2>2. push' = push
    BY <1>1, <1>4, StepJob
  <2> QED BY <2>1, <2>2 DEF PushAgrees
<1>5. CASE World \/ UNCHANGED vars
  <2>1. UNCHANGED <<tasks, push>>
    BY <1>1, <1>5, WorldJob DEF vars, sender
  <2> QED BY <2>1 DEF PushAgrees, Unfinished
<1> QED BY <1>2, <1>3, <1>4, <1>5 DEF Next, Push

LEMMA KeyAgreesNext ==
    ASSUME "push_over_task" \notin Races
    PROVE  Streaming = TRUE /\ Agreed /\ [Next]_vars => KeyAgrees'
<1> SUFFICES ASSUME Streaming = TRUE, Agreed, [Next]_vars PROVE KeyAgrees'
  OBVIOUS
<1>1. Core /\ HeldOpen /\ Single /\ PushAgrees /\ KeyAgrees
  BY DEF Agreed, Sealing
<1>2. ASSUME UNCHANGED <<tasks, push>>, Still \/ Moves \/ Drops \/ Verify
      PROVE  KeyAgrees'
  <2>1. Unfinished' = Unfinished
    BY <1>2 DEF Unfinished
  <2>2. Verify => job'.key = job.key /\ job.status = "verifying"
    <3>1. job \in Job
      BY <1>1 DEF Core, TypeOK, ReceiverTypeOK
    <3> QED BY <3>1 DEF Verify, Job
  <2> QED BY <1>1, <1>2, <2>1, <2>2 DEF KeyAgrees, Still, Moves, Drops, Live, NoJob
<1>3. CASE PushOpen
  <2>1. /\ Still \/ Moves \/ Renews(source)
        /\ UNCHANGED tasks /\ Unfinished' = Unfinished
        /\ push'.pc = "queue" =>
              push'.ver = source /\ job'.key = KeyOf(source) /\ Live(job')
    BY <1>1, <1>3, PushJob DEF Unfinished
  <2>2. \A t \in Unfinished : tasks[t].ver = source
    BY <1>1, <1>3, PushOpenVersion
  <2>3. ASSUME Live(job'), NEW t \in Unfinished PROVE job'.key = KeyOf(tasks[t].ver)
    BY <1>1, <2>1, <2>2, <2>3 DEF KeyAgrees, Still, Moves, Renews, Live
  <2> QED BY <2>1, <2>3 DEF KeyAgrees, Live
<1>4. CASE PushQueue
  <2>1. /\ Still /\ push'.pc = "idle" /\ push.pc = "queue"
        /\ \A t \in Unfinished : tasks'[t].ver = tasks[t].ver
        /\ \/ tasks' = tasks
           \/ \E n : Unfinished' = {n} /\ tasks'[n] = NewTask(push.ver, push.ans)
    BY <1>1, <1>4, QueueUnfinished
  <2>2. ASSUME Live(job'), NEW t \in Unfinished' PROVE job'.key = KeyOf(tasks'[t].ver)
    <3>1. CASE tasks' = tasks
      BY <1>1, <2>1, <2>2, <3>1 DEF KeyAgrees, Still, Live, Unfinished
    <3>2. CASE tasks' # tasks
      <4>1. tasks'[t].ver = push.ver
        BY <2>1, <2>2, <3>2 DEF NewTask
      <4> QED BY <1>1, <2>1, <2>2, <4>1 DEF KeyAgrees, Still, Live
    <3> QED BY <3>1, <3>2
  <2> QED BY <2>1, <2>2 DEF KeyAgrees, Live
<1>5. ASSUME NEW w \in Workers, Step(w) PROVE KeyAgrees'
  <2>1. /\ Unfinished' \subseteq Unfinished
        /\ \A t \in Unfinished : tasks'[t].ver = tasks[t].ver
    BY <1>1, <1>5, StepUnfinished
  <2>2. push' = push
    BY <1>1, <1>5, StepJob
  <2>3. CASE Still \/ Moves \/ Seals(Final(Mine(w)))
    <3>1. Live(job') => Live(job) /\ job'.key = job.key
      BY <2>3 DEF Still, Moves, Seals, Live
    <3> QED BY <1>1, <2>1, <2>2, <3>1 DEF KeyAgrees, Live
  <2>4. CASE Reopen(w) /\ Renews(Mine(w).ver)
    <3>1. work[w].task \in Unfinished
      BY <1>1, <2>4, OwnTask DEF Reopen, HeldOpen, Mine, Unfinished
    <3>2. \A t \in Unfinished : t = work[w].task
      BY <1>1, <3>1 DEF Single
    <3>3. job'.key = KeyOf(tasks[work[w].task].ver)
      BY <2>4 DEF Renews, Mine
    <3>4. push.pc = "queue" => tasks[work[w].task].ver = push.ver
      BY <1>1, <3>1 DEF PushAgrees
    <3> QED BY <2>1, <2>2, <3>2, <3>3, <3>4 DEF KeyAgrees
  <2> QED BY <1>1, <1>5, <2>3, <2>4, StepJob
<1>6. CASE World
  BY <1>1, <1>2, <1>6, WorldJob
<1>7. CASE UNCHANGED vars
  BY <1>2, <1>7 DEF vars, receiver, sender, Still
<1> QED BY <1>3, <1>4, <1>5, <1>6, <1>7 DEF Next, Push

LEMMA AgreedInit == Init => Agreed
<1>1. Init => PushAgrees /\ KeyAgrees
  BY DEF Init, InitReceiver, NoPush, NoJob, PushAgrees, KeyAgrees
<1> QED BY <1>1, SealingInit DEF Agreed

LEMMA AgreedNext ==
    ASSUME "push_over_task" \notin Races
    PROVE  Streaming = TRUE /\ Agreed /\ [Next]_vars => Agreed'
<1>1. Streaming = TRUE /\ Agreed /\ [Next]_vars => Sealing'
  BY SealingNext DEF Agreed
<1>2. Streaming = TRUE /\ Agreed /\ [Next]_vars => PushAgrees'
  BY PushAgreesNext DEF Agreed
<1> QED BY <1>1, <1>2, KeyAgreesNext DEF Agreed

\* A task that the receiver has lost is taken back when the worker opens it
\* again (404 in step): the job that the saved queue restores is of the
\* manifest the task was queued with, or gives way to it.  The hypothesis is
\* the one of the run: no push joins the unfinished task of another version
\* (upload_client.go:116-121), whose manifest it then leaves in the task.
THEOREM ReopenIsServed ==
    ASSUME Streaming = TRUE, "push_over_task" \notin Races
    PROVE  Spec => []ReopenServed
<1>1. Agreed => ReopenServed
  <2> SUFFICES ASSUME Agreed, NEW w \in Workers, work[w].pc = "answer"
               PROVE  ~ Conflicts(Mine(w).ver)
    BY DEF ReopenServed
  <2>1. Core /\ HeldOpen /\ KeyAgrees /\ job \in Job
    BY DEF Agreed, Sealing, Core, TypeOK, ReceiverTypeOK
  <2>2. work[w].task \in Unfinished
    BY <2>1, OwnTask DEF HeldOpen, Mine, Unfinished
  <2>3. Live(job) => job.key = KeyOf(Mine(w).ver)
    BY <2>1, <2>2 DEF KeyAgrees, Live, Mine
  <2>4. Restored.key = job.key
    BY <2>1 DEF Restored, Job
  <2>5. ~ Live(job) => Restored = job
    BY DEF Live, Restored
  <2> QED BY <2>3, <2>4, <2>5 DEF Conflicts, Replaces, Live
<1> QED BY AgreedInit, AgreedNext, <1>1, PTL DEF Spec

-----------------------------------------------------------------------------
(* A task that ended was delivered *)

Ended == Agreed /\ SealedAbove /\ DonePublished /\ EndsDelivered /\ DoneIsDelivered

LEMMA SealedAboveNext ==
    ASSUME "push_over_task" \notin Races
    PROVE  Streaming = TRUE /\ Agreed /\ SealedAbove /\ [Next]_vars => SealedAbove'
<1> SUFFICES ASSUME Streaming = TRUE, Agreed, SealedAbove, [Next]_vars PROVE SealedAbove'
  OBVIOUS
<1>1. /\ Core /\ HeldOpen /\ Single /\ Dated /\ SealedKnown /\ PushAgrees /\ Sealing
      /\ job \in Job
  BY DEF Agreed, Sealing, Core, TypeOK, ReceiverTypeOK
<1>2. ASSUME UNCHANGED <<tasks, push>>, Still \/ Moves \/ Drops \/ Verify
      PROVE  SealedAbove'
  <2>1. Unfinished' = Unfinished
    BY <1>2 DEF Unfinished
  <2>2. Verify => job'.sha \in {job.sha, 0} /\ job.status = "verifying"
    BY <1>1 DEF Verify, Job
  <2> QED BY <1>2, <2>1, <2>2 DEF SealedAbove, Still, Moves, Drops, Live, NoJob
<1>3. CASE PushOpen
  <2>1. /\ Still \/ Moves \/ Renews(source)
        /\ UNCHANGED tasks /\ Unfinished' = Unfinished
        /\ push'.pc = "queue" => push'.ver = source /\ Live(job')
    BY <1>1, <1>3, PushJob DEF Unfinished
  <2>2. \A t \in Unfinished : tasks[t].ver = source
    BY <1>1, <1>3, PushOpenVersion
  <2>3. ASSUME job'.status # "none", job'.sha # 0
        PROVE  job.status # "none" /\ job'.sha = job.sha /\ (Live(job') => Live(job))
    BY <2>1, <2>3 DEF Still, Moves, Renews, Live
  <2>4. ASSUME job'.sha # 0, Live(job') PROVE source <= job'.sha
    <3>1. Live(job) /\ job'.sha = job.sha
      BY <2>3, <2>4 DEF Live
    <3>2. PICK t \in Unfinished : tasks[t].final = job.sha
      BY <1>1, <2>4, <3>1 DEF SealedKnown, Live
    <3> QED BY <1>1, <2>2, <2>4, <3>1, <3>2 DEF Dated, Unfinished
  <2> QED BY <2>1, <2>3, <2>4 DEF SealedAbove
<1>4. CASE PushQueue
  <2>1. /\ Still /\ push'.pc = "idle" /\ push.pc = "queue"
        /\ \/ tasks' = tasks
           \/ \E n : Unfinished' = {n} /\ tasks'[n] = NewTask(push.ver, push.ans)
    BY <1>1, <1>4, QueueUnfinished
  <2>2. CASE tasks' = tasks
    BY <2>1, <2>2 DEF SealedAbove, Still, Unfinished
  <2>3. CASE tasks' # tasks
    <3>1. \A t \in Unfinished' : tasks'[t].ver = push.ver
      BY <2>1, <2>3 DEF NewTask
    <3> QED BY <2>1, <3>1 DEF SealedAbove, Still
  <2> QED BY <2>2, <2>3
<1>5. ASSUME NEW w \in Workers, Step(w) PROVE SealedAbove'
  <2>1. /\ Unfinished' \subseteq Unfinished
        /\ \A t \in Unfinished : tasks'[t].ver = tasks[t].ver
    BY <1>1, <1>5, StepUnfinished
  <2>2. push' = push
    BY <1>1, <1>5, StepJob
  <2>3. CASE Still \/ Moves
    BY <2>1, <2>2, <2>3 DEF SealedAbove, Still, Moves, Live
  <2>4. CASE Finish(w) /\ Seals(Final(Mine(w)))
    <3>1. work[w].task \in Unfinished
      BY <1>1, <2>4, OwnTask DEF Finish, HeldOpen, Mine, Unfinished
    <3>2. \A t \in Unfinished : t = work[w].task
      BY <1>1, <3>1 DEF Single
    <3>3. tasks[work[w].task].ver <= Final(Mine(w))
      BY <1>1, <3>1 DEF Dated, Final, Mine, Unfinished
    <3>4. push.pc = "queue" => push.ver <= Final(Mine(w))
      BY <1>1, <3>1, <3>3 DEF PushAgrees
    <3>5. job'.sha = Final(Mine(w))
      BY <2>4 DEF Seals
    <3> QED BY <2>1, <2>2, <3>2, <3>3, <3>4, <3>5 DEF SealedAbove
  <2>5. CASE Reopen(w) /\ Renews(Mine(w).ver)
    BY <2>5 DEF SealedAbove, Renews
  <2> QED BY <1>1, <1>5, <2>3, <2>4, <2>5, StepJob
<1>6. CASE World
  BY <1>1, <1>2, <1>6, WorldJob
<1>7. CASE UNCHANGED vars
  BY <1>2, <1>7 DEF vars, receiver, sender, Still
<1> QED BY <1>3, <1>4, <1>5, <1>6, <1>7 DEF Next, Push

\* Nothing that was published is taken back, and a job is done only when it is
\* published.
LEMMA PublishedNext ==
    Streaming = TRUE /\ Sealing /\ DonePublished /\ [Next]_vars =>
        DonePublished' /\ published \subseteq published'
<1> SUFFICES ASSUME Streaming = TRUE, Sealing, DonePublished, [Next]_vars
             PROVE  DonePublished' /\ published \subseteq published'
  OBVIOUS
<1>1. Core /\ job \in Job /\ ReceiverTypeOK
  BY DEF Sealing, Core, TypeOK, ReceiverTypeOK
<1>2. CASE Still \/ Moves \/ Drops \/ Renews(source)
  BY <1>2 DEF DonePublished, Still, Moves, Drops, Renews, Live, NoJob
<1>3. CASE Verify
  <2>1. published \subseteq published'
    BY <1>3 DEF Verify
  <2>2. DonePublished'
    <3>1. CASE DigestOK
      <4>1. /\ job'.sha = job.sha /\ job.sha # 0 /\ job.key \in Key /\ job.key # 0
            /\ published' = published \cup {Marks(job)}
        BY <1>1, <1>3, <3>1 DEF Verify, Job, ReceiverTypeOK
      <4>2. Marks(job) = cache[job.key] /\ Marks(job) \in [Chunk -> Version \cup {0}]
        BY <1>1, <4>1 DEF Marks, ReceiverTypeOK
      <4>3. Marks(job) = Whole(job.sha)
        BY <3>1, <4>2 DEF DigestOK, Whole
      <4> QED BY <4>1, <4>3 DEF DonePublished, Whole
    <3>2. CASE ~ DigestOK
      <4>1. job'.status = "error"
        BY <1>1, <1>3, <3>2 DEF Verify, Job
      <4> QED BY <4>1 DEF DonePublished
    <3> QED BY <3>1, <3>2
  <2> QED BY <2>1, <2>2
<1>4. CASE PushOpen
  BY <1>1, <1>2, <1>4, PushJob
<1>5. CASE PushQueue
  BY <1>1, <1>2, <1>5, QueueUnfinished
<1>6. ASSUME NEW w \in Workers, Step(w)
      PROVE  DonePublished' /\ published \subseteq published'
  <2>1. CASE Seals(Final(Mine(w)))
    <3>1. published' = published
      BY <2>1 DEF Seals
    <3>2. job'.status = "done" => job.status = "done"
      BY <2>1 DEF Seals
    <3>3. job.sha # 0 => job'.sha = job.sha
      BY <2>1 DEF Seals
    <3> QED BY <3>1, <3>2, <3>3 DEF DonePublished, Whole
  <2>2. CASE Renews(Mine(w).ver)
    BY <2>2 DEF DonePublished, Renews, Live
  <2> QED BY <1>1, <1>2, <1>6, <2>1, <2>2, StepJob
<1>7. CASE World
  BY <1>1, <1>2, <1>3, <1>7, WorldJob
<1>8. CASE UNCHANGED vars
  BY <1>2, <1>8 DEF vars, receiver, Still
<1> QED BY <1>4, <1>5, <1>6, <1>7, <1>8 DEF Next, Push

\* The unfinished task of a job that is done is delivered.
LEMMA DoneDeliversNext ==
    ASSUME Core', SealedAbove', DonePublished', job'.status = "done", NEW t \in Unfinished'
    PROVE  Delivered(t)'
<1>1. /\ job'.sha \in Version /\ Whole(job'.sha) \in published'
      /\ tasks'[t].ver <= job'.sha
  BY DEF Core, TypeOK, ReceiverTypeOK, Job, DonePublished, SealedAbove, Whole
<1>2. tasks'[t].ver \in Version
  <2>1. tasks' \in Seq(Task) /\ t \in DOMAIN tasks'
    BY DEF Core, TypeOK, SenderTypeOK, Unfinished
  <2>2. tasks'[t] \in Task
    BY <2>1, ElementOfSeq, LenProperties
  <2> QED BY <2>2 DEF Task
<1>3. job'.sha \in tasks'[t].ver .. MaxVersion
  BY <1>1, <1>2, VersionAssumption DEF Version
<1> QED BY <1>1, <1>3 DEF Delivered, Whole

\* What is delivered stays so.
LEMMA DeliveredNext ==
    ASSUME published \subseteq published', NEW t, tasks'[t].ver = tasks[t].ver, Delivered(t)
    PROVE  Delivered(t)'
BY DEF Delivered, Whole

LEMMA EndedNext ==
    ASSUME "push_over_task" \notin Races
    PROVE  Streaming = TRUE /\ Ended /\ [Next]_vars => Ended'
<1> SUFFICES ASSUME Streaming = TRUE, Ended, [Next]_vars PROVE Ended'
  OBVIOUS
<1>1. /\ Agreed /\ Sealing /\ Core /\ HeldOpen /\ EndsDelivered
      /\ \A t \in DOMAIN tasks : tasks[t].done => Delivered(t)
  BY DEF Ended, Agreed, Sealing, DoneIsDelivered, Delivered
<1>2. Agreed' /\ SealedAbove' /\ DonePublished' /\ published \subseteq published'
  BY AgreedNext, SealedAboveNext, PublishedNext, <1>1 DEF Ended
<1>3. Core' /\ HeldOpen'
  BY <1>2 DEF Agreed, Sealing
<1>4. SUFFICES /\ \A w \in Workers : Ends(w)' => Delivered(work[w].task)'
               /\ \A t \in DOMAIN tasks' : tasks'[t].done => Delivered(t)'
  BY <1>2 DEF Ended, EndsDelivered, DoneIsDelivered, Delivered
<1>5. ASSUME NEW w \in Workers, Ends(w) PROVE work[w].task \in DOMAIN tasks /\ work[w].pc # "idle"
  BY <1>1, <1>5 DEF Ends, Answered, Core, OneWorkerPerTask
<1>6. ASSUME UNCHANGED <<tasks, work>>
      PROVE  /\ \A w \in Workers : Ends(w)' => Delivered(work[w].task)'
             /\ \A t \in DOMAIN tasks' : tasks'[t].done => Delivered(t)'
  <2>1. \A w \in Workers : Ends(w)' <=> Ends(w)
    BY <1>6 DEF Ends, Answered, Finished
  <2>2. ASSUME NEW t, Delivered(t) PROVE Delivered(t)'
    BY <1>2, <1>6, <2>2, DeliveredNext
  <2>3. ASSUME NEW w \in Workers, Ends(w)' PROVE Delivered(work[w].task)'
    <3>1. Delivered(work[w].task) /\ work'[w].task = work[w].task
      BY <1>1, <1>6, <2>1, <2>3 DEF EndsDelivered
    <3>2. \E v \in tasks'[work[w].task].ver .. MaxVersion : Whole(v) \in published'
      BY <2>2, <3>1 DEF Delivered, Whole
    <3> QED BY <3>1, <3>2 DEF Delivered, Whole
  <2> QED BY <1>1, <1>6, <2>2, <2>3
<1>7. CASE PushQueue
  <2>1. /\ UNCHANGED work
        /\ \A t \in DOMAIN tasks : t \in DOMAIN tasks' /\ tasks'[t] = tasks[t]
        /\ \/ tasks' = tasks
           \/ \E n : /\ Unfinished' = {n} /\ DOMAIN tasks' = DOMAIN tasks \cup {n}
    BY <1>1, <1>7, QueueUnfinished
  <2>2. CASE tasks' = tasks
    BY <1>6, <2>1, <2>2
  <2>3. CASE tasks' # tasks
    <3>1. PICK n : Unfinished' = {n} /\ DOMAIN tasks' = DOMAIN tasks \cup {n}
      BY <2>1, <2>3
    <3>2. ASSUME NEW t \in DOMAIN tasks, Delivered(t) PROVE Delivered(t)'
      BY <1>2, <2>1, <3>2, DeliveredNext
    <3>3. ASSUME NEW t \in DOMAIN tasks', tasks'[t].done PROVE Delivered(t)'
      <4>1. t \in DOMAIN tasks
        BY <3>1, <3>3 DEF Unfinished
      <4> QED BY <1>1, <2>1, <3>2, <3>3, <4>1
    <3>4. ASSUME NEW w \in Workers, Ends(w)' PROVE Delivered(work[w].task)'
      <4>1. Ends(w) /\ work'[w].task = work[w].task
        BY <2>1, <3>4 DEF Ends, Answered, Finished
      <4>2. work[w].task \in DOMAIN tasks /\ Delivered(work[w].task)
        BY <1>1, <1>5, <4>1 DEF EndsDelivered
      <4>3. \E v \in tasks'[work[w].task].ver .. MaxVersion : Whole(v) \in published'
        BY <3>2, <4>2 DEF Delivered, Whole
      <4> QED BY <4>1, <4>3 DEF Delivered, Whole
    <3> QED BY <3>3, <3>4
  <2> QED BY <2>2, <2>3
<1>8. ASSUME NEW w \in Workers, Step(w)
      PROVE  /\ \A u \in Workers : Ends(u)' => Delivered(work[u].task)'
             /\ \A t \in DOMAIN tasks' : tasks'[t].done => Delivered(t)'
  <2>1. /\ DOMAIN tasks' = DOMAIN tasks
        /\ \A i \in DOMAIN tasks : tasks'[i] = tasks[i] \/ Change(w, i, tasks'[i])
    BY <1>1, <1>8, StepTasks
  <2>2. \A i \in DOMAIN tasks :
           /\ tasks'[i].ver = tasks[i].ver
           /\ \/ tasks'[i].done = tasks[i].done
              \/ ReleaseAnswered(w) /\ i = work[w].task /\ Ends(w)
    BY <2>1 DEF Change
  <2>3. ASSUME NEW t \in DOMAIN tasks, Delivered(t) PROVE Delivered(t)'
    BY <1>2, <2>2, <2>3, DeliveredNext
  <2>4. ASSUME NEW t \in DOMAIN tasks', tasks'[t].done PROVE Delivered(t)'
    <3>1. tasks[t].done \/ (t = work[w].task /\ Ends(w))
      BY <2>1, <2>2, <2>4
    <3>2. Delivered(t)
      BY <1>1, <2>1, <3>1 DEF EndsDelivered
    <3> QED BY <2>1, <2>3, <3>2
  <2>5. ASSUME NEW u \in Workers, Ends(u)' PROVE Delivered(work[u].task)'
    <3>1. CASE job'.status = "done"
      <4> DEFINE i == work'[u].task
      <4>1. i \in Unfinished'
        <5>1. work'[u].pc # "idle"
          BY <2>5 DEF Ends, Answered
        <5>2. i \in DOMAIN tasks'
          BY <1>3, <5>1 DEF Core, OneWorkerPerTask
        <5>3. ~ tasks'[i].done
          BY <1>3, <5>1 DEF HeldOpen, Mine
        <5> QED BY <5>2, <5>3 DEF Unfinished
      <4> HIDE DEF i
      <4>2. \E v \in tasks'[i].ver .. MaxVersion : Whole(v) \in published'
        BY <1>2, <1>3, <3>1, <4>1, DoneDeliversNext DEF Delivered, Whole
      <4> QED BY <4>2 DEF Delivered, Whole, i
    <3>2. CASE job'.status # "done"
      <4>1. Ends(u) /\ work'[u].task = work[u].task
        BY <1>1, <1>8, <2>5, <3>2, EndsFrom
      <4>2. work[u].task \in DOMAIN tasks /\ Delivered(work[u].task)
        BY <1>1, <1>5, <4>1 DEF EndsDelivered
      <4>3. \E v \in tasks'[work[u].task].ver .. MaxVersion : Whole(v) \in published'
        BY <2>3, <4>2 DEF Delivered, Whole
      <4> QED BY <4>1, <4>3 DEF Delivered, Whole
    <3> QED BY <3>1, <3>2
  <2> QED BY <2>4, <2>5
<1>9. CASE PushOpen
  BY <1>1, <1>6, <1>9, PushJob
<1>10. CASE World
  BY <1>1, <1>6, <1>10, WorldJob
<1>11. CASE UNCHANGED vars
  BY <1>6, <1>11 DEF vars, sender
<1> QED BY <1>7, <1>8, <1>9, <1>10, <1>11 DEF Next, Push

\* A worker ends a task only when the version it was queued for, or a later
\* one, is in the destination: the "done" it heard in step is of the job that
\* took that version, whatever the answers were delayed by.
THEOREM EndedIsDelivered ==
    ASSUME Streaming = TRUE, "push_over_task" \notin Races
    PROVE  Spec => []DoneIsDelivered
<1>1. Init => Ended
  <2> SUFFICES ASSUME Init PROVE Ended
    OBVIOUS
  <2>1. Agreed
    BY AgreedInit
  <2>2. /\ DOMAIN tasks = {} /\ job.status = "none"
        /\ \A w \in Workers : work[w].pc = "idle"
    BY DEF Init, InitReceiver, NoJob, Idle
  <2>3. SealedAbove /\ DonePublished /\ DoneIsDelivered
    BY <2>2 DEF SealedAbove, DonePublished, DoneIsDelivered
  <2>4. EndsDelivered
    BY <2>2 DEF EndsDelivered, Ends, Answered
  <2> QED BY <2>1, <2>3, <2>4 DEF Ended
<1>2. Ended => DoneIsDelivered
  BY DEF Ended
<1> QED BY EndedNext, <1>1, <1>2, PTL DEF Spec

-----------------------------------------------------------------------------
(* A push is not lost *)

LEMMA EndsDoneNext ==
    ASSUME "push_in_release" \notin Races
    PROVE  Streaming = TRUE /\ Sealing /\ EndsDone /\ [Next]_vars => EndsDone'
<1> SUFFICES ASSUME Streaming = TRUE, Sealing, EndsDone, [Next]_vars PROVE EndsDone'
  OBVIOUS
<1>1. Core /\ HeldOpen /\ Single
  BY DEF Sealing
<1>2. ASSUME UNCHANGED work, Still \/ Moves \/ Drops \/ Verify
      PROVE  EndsDone'
  <2>1. \A w \in Workers : Ends(w)' <=> Ends(w)
    BY <1>2 DEF Ends, Answered, Finished
  <2>2. Verify => job.status = "verifying"
    BY DEF Verify
  <2> QED BY <1>2, <2>1, <2>2 DEF EndsDone, Still, Moves, Drops, Live, NoJob
<1>3. CASE PushOpen
  <2>1. \A w \in Workers : ~ Ends(w)
    BY <1>3 DEF PushOpen, Ends
  <2>2. work' = work
    BY <1>1, <1>3, PushJob
  <2> QED BY <2>1, <2>2 DEF EndsDone, Ends, Answered, Finished
<1>4. CASE PushQueue
  BY <1>1, <1>2, <1>4, QueueUnfinished
<1>5. ASSUME NEW w \in Workers, Step(w) PROVE EndsDone'
  <2>1. SUFFICES ASSUME NEW u \in Workers, Ends(u)', Live(job') PROVE FALSE
    BY DEF EndsDone, Live
  <2>2. u # w /\ Ends(u) /\ work[u].pc # "idle"
    BY <1>1, <1>5, <2>1, EndsFrom DEF Live, Ends, Answered
  <2>3. ~ Live(job)
    BY <2>2 DEF EndsDone, Live
  <2>4. CASE Reopen(w) \/ Finish(w)
    <3>1. work[w].pc # "idle"
      BY <2>4 DEF Reopen, Finish
    <3> QED BY <1>1, <2>2, <3>1, OneAtWork
  <2>5. CASE Still \/ Moves
    BY <2>1, <2>3, <2>5 DEF Still, Moves, Live
  <2> QED BY <1>1, <1>5, <2>4, <2>5, StepJob
<1>6. CASE World
  BY <1>1, <1>2, <1>6, WorldJob
<1>7. CASE UNCHANGED vars
  BY <1>2, <1>7 DEF vars, receiver, sender, Still
<1> QED BY <1>3, <1>4, <1>5, <1>6, <1>7 DEF Next, Push

LEMMA NoLostNext ==
    Streaming = TRUE /\ Sealing /\ EndsDone /\ NoLost /\ [Next]_vars => NoLost'
<1> SUFFICES ASSUME Streaming = TRUE, Sealing, EndsDone, NoLost, [Next]_vars PROVE NoLost'
  OBVIOUS
<1>1. Core /\ HeldOpen
  BY DEF Sealing
<1>2. CASE PushOpen
  BY <1>1, <1>2, PushJob DEF NoLost
<1>3. CASE PushQueue
  BY <1>1, <1>3, QueueUnfinished DEF NoLost
<1>4. ASSUME NEW w \in Workers, Step(w) PROVE NoLost'
  <2>1. UNCHANGED <<push, offered>>
    BY <1>1, <1>4, StepJob
  <2>2. CASE ReleaseAnswered(w) /\ Ends(w)
    <3>1. job' = job
      BY <2>2 DEF ReleaseAnswered, receiver
    <3> QED BY <2>2, <3>1 DEF EndsDone, NoLost
  <2>3. CASE ~ (ReleaseAnswered(w) /\ Ends(w))
    <3>1. Unfinished' = Unfinished
      BY <1>1, <1>4, <2>3, StepUnfinished
    <3>2. Live(job') => Live(job) \/ Unfinished # {}
      <4>1. CASE Still \/ Moves \/ Seals(Final(Mine(w)))
        BY <4>1 DEF Still, Moves, Seals, Live
      <4>2. CASE Reopen(w)
        BY <1>1, <4>2, OwnTask DEF Reopen, HeldOpen, Mine, Unfinished
      <4> QED BY <1>1, <1>4, <4>1, <4>2, StepJob
    <3> QED BY <2>1, <3>1, <3>2 DEF NoLost, Live
  <2> QED BY <2>2, <2>3
<1>5. CASE World
  <2>1. UNCHANGED <<tasks, push>> /\ (Still \/ Moves \/ Drops \/ Verify)
    BY <1>1, <1>5, WorldJob
  <2>2. offered' = offered
    BY <1>5 DEF World, ChangeSource, User, ReceiverVerifies, ReceiverRestarts, Close, ghosts
  <2>3. Unfinished' = Unfinished
    BY <2>1 DEF Unfinished
  <2>4. Live(job') => Live(job)
    BY <2>1 DEF Still, Moves, Drops, Verify, NoJob, Live
  <2> QED BY <2>1, <2>2, <2>3, <2>4 DEF NoLost, Live
<1>6. CASE UNCHANGED vars
  BY <1>6 DEF vars, receiver, sender, ghosts, NoLost, Unfinished
<1> QED BY <1>2, <1>3, <1>4, <1>5, <1>6 DEF Next, Push

\* As long as the receiver has an unfinished job that a successful push opened,
\* the sender has an unfinished task for it.  The hypothesis is the one of the
\* run: no push opens the job anew between a worker's "done" and the end of its
\* step, where it would join the task that is about to end (upload_client.go:230).
THEOREM NoPushIsLost ==
    ASSUME Streaming = TRUE, "push_in_release" \notin Races
    PROVE  Spec => []NoLostPush
<1>1. Init => EndsDone /\ NoLost
  BY DEF Init, InitReceiver, NoJob, EndsDone, NoLost
<1>2. Sealing /\ EndsDone /\ NoLost /\ [Next]_vars => Sealing' /\ EndsDone' /\ NoLost'
  BY SealingNext, EndsDoneNext, NoLostNext
<1>3. NoLost => NoLostPush
  BY DEF NoLost, NoLostPush, Settled, Unfinished
<1> QED BY SealingInit, <1>1, <1>2, <1>3, PTL DEF Spec

-----------------------------------------------------------------------------
(* A job is given up late *)

\* A job that there is none of has no generation.
Strike == FirstLife /\ NotedGen /\ (proc = 0 /\ job.status = "none" => job.gen = 0)

LEMMA Generations ==
    ASSUME Core
    PROVE  /\ job.gen \in Nat /\ push.ans.gen \in Nat
           /\ \A w \in Workers : work[w].ans.gen \in Nat
           /\ \A t \in DOMAIN tasks : tasks[t].gen \in Nat /\ tasks[t].failures \in Nat
<1>1. /\ job \in Job /\ push.ans \in Answer /\ tasks \in Seq(Task)
      /\ \A w \in Workers : work[w].ans \in Answer
  BY DEF Core, TypeOK, ReceiverTypeOK, SenderTypeOK, Local
<1>2. \A t \in DOMAIN tasks : tasks[t] \in Task
  BY <1>1, ElementOfSeq, LenProperties
<1> QED BY <1>1, <1>2 DEF Job, Answer, Task

\* A worker that is at its chunks or at its finish has just begun, or goes on.
LEMMA StepPc ==
    ASSUME Core, NEW w \in Workers, Step(w), work'[w].pc \in {"chunks", "finish"}
    PROVE  /\ Begin(w) \/ (UNCHANGED tasks /\ work[w].pc = "chunks")
           /\ work'[w].task = work[w].task /\ work'[w].ans = work[w].ans
<1>1. work \in [Workers -> Local] /\ work[w] \in Local
  BY CoreParts DEF Tables
<1>2. ASSUME Hold(w, Idle) PROVE FALSE
  BY <1>1, <1>2 DEF Hold, Idle
<1>3. ASSUME NEW t \in DOMAIN tasks, Take(w, t) PROVE FALSE
  <2>1. work'[w].pc = "answer"
    BY <1>1, <1>3 DEF Take, Hold, Idle
  <2> QED BY <2>1
<1>4. CASE Reauthorize(w) \/ GiveUp(w) \/ ReleaseAnswered(w) \/ Batched(w) \/ BatchFailed(w)
  BY <1>2, <1>4 DEF Reauthorize, GiveUp, ReleaseAnswered, Batched, BatchFailed, Release
<1>5. CASE Reopen(w) \/ Finish(w)
  <2>1. PICK ans : Hold(w, [work[w] EXCEPT !.pc = "release", !.ans = ans])
    BY <1>2, <1>5 DEF Reopen, Finish, Release
  <2>2. work'[w].pc = "release"
    BY <1>1, <2>1 DEF Hold, Local
  <2> QED BY <2>2
<1>6. ASSUME NEW c \in Chunk, SendChunk(w, c)
      PROVE  /\ UNCHANGED tasks /\ work[w].pc = "chunks"
             /\ work'[w].task = work[w].task /\ work'[w].ans = work[w].ans
  <2>1. PICK e : Hold(w, [work[w] EXCEPT !.todo = @ \ {c}, !.errs = @ \cup e])
    BY <1>6 DEF SendChunk
  <2>2. work'[w].task = work[w].task /\ work'[w].ans = work[w].ans
    BY <1>1, <2>1 DEF Hold, Local
  <2> QED BY <1>6, <2>2 DEF SendChunk
<1>7. CASE Begin(w) /\ ~ \E c \in Chunk : SendChunk(w, c)
  <2>1. PICK p, todo : Hold(w, [work[w] EXCEPT !.pc = p, !.todo = todo])
    BY <1>7 DEF Begin
  <2>2. work'[w].task = work[w].task /\ work'[w].ans = work[w].ans
    BY <1>1, <2>1 DEF Hold, Local
  <2> QED BY <1>7, <2>2
<1> QED BY <1>3, <1>4, <1>5, <1>6, <1>7 DEF Step

LEMMA NotedNext ==
    Streaming = TRUE /\ Sealing /\ NotedGen /\ [Next]_vars => NotedGen'
<1> SUFFICES ASSUME Streaming = TRUE, Sealing, NotedGen, [Next]_vars PROVE NotedGen'
  OBVIOUS
<1>1. Core /\ HeldOpen /\ Single
  BY DEF Sealing
<1>2. ASSUME UNCHANGED <<tasks, work>> PROVE NotedGen'
  BY <1>2 DEF NotedGen, Mine
<1>3. CASE PushOpen \/ World \/ UNCHANGED vars
  BY <1>1, <1>2, <1>3, PushJob, WorldJob DEF vars, sender
<1>4. CASE PushQueue
  <2>1. UNCHANGED work /\ \A t \in DOMAIN tasks : tasks'[t] = tasks[t]
    BY <1>1, <1>4, QueueUnfinished
  <2>2. \A u \in Workers : work[u].pc # "idle" => work[u].task \in DOMAIN tasks
    BY <1>1 DEF Core, OneWorkerPerTask
  <2> QED BY <2>1, <2>2 DEF NotedGen, Mine
<1>5. ASSUME NEW w \in Workers, Step(w) PROVE NotedGen'
  <2>1. SUFFICES ASSUME NEW u \in Workers, work'[u].pc \in {"chunks", "finish"}
                 PROVE  tasks'[work'[u].task].gen = work'[u].ans.gen
    BY DEF NotedGen, Mine
  <2>2. \A i \in DOMAIN tasks : tasks'[i] = tasks[i] \/ Change(w, i, tasks'[i])
    BY <1>1, <1>5, StepTasks
  <2>3. CASE u # w
    <3>1. work'[u] = work[u] /\ work[u].pc \in {"chunks", "finish"}
      BY <1>1, <1>5, <2>1, <2>3, StepWork
    <3>2. work[u].task \in DOMAIN tasks /\ work[u].pc # "idle"
      BY <1>1, <3>1, OwnTask
    <3>3. work[w].pc = "idle"
      BY <1>1, <2>3, <3>2, OneAtWork
    <3>4. ~ Reopen(w) /\ ~ Begin(w) /\ ~ Batched(w) /\ ~ BatchFailed(w)
      BY <3>3 DEF Reopen, Begin, Batched, BatchFailed
    <3>5. tasks'[work[u].task].gen = tasks[work[u].task].gen
      BY <2>2, <3>2, <3>4 DEF Change
    <3> QED BY <3>1, <3>5 DEF NotedGen, Mine
  <2>4. CASE u = w
    <3>1. /\ Begin(w) \/ (UNCHANGED tasks /\ work[w].pc = "chunks")
          /\ work'[w].task = work[w].task /\ work'[w].ans = work[w].ans
      BY <1>1, <1>5, <2>1, <2>4, StepPc
    <3>2. CASE UNCHANGED tasks /\ work[w].pc = "chunks"
      BY <2>4, <3>1, <3>2 DEF NotedGen, Mine
    <3>3. CASE Begin(w)
      <4>1. /\ work[w].task \in DOMAIN tasks /\ Mine(w) \in Task /\ tasks \in Seq(Task)
        BY <1>1, <3>3, OwnTask, CoreParts DEF Begin, Tables
      <4> DEFINE t == Noted(Mine(w), work[w].ans.gen)
      <4>2. tasks' = [tasks EXCEPT ![work[w].task] = t]
        BY <3>3 DEF Begin, Mine
      <4>3. work[w].ans.gen \in Nat
        BY <1>1, <3>3, OwnTask DEF Begin
      <4>4. t.gen = work[w].ans.gen
        BY <4>1, <4>3 DEF Noted, Task
      <4> HIDE DEF t
      <4>5. tasks'[work[w].task] = t
        BY <4>1, <4>2
      <4> QED BY <2>4, <3>1, <4>4, <4>5
    <3> QED BY <3>1, <3>2, <3>3
  <2> QED BY <2>3, <2>4
<1> QED BY <1>3, <1>4, <1>5 DEF Next, Push

\* What an open does to the generation: another job has the next one.
LEMMA OpenGen ==
    ASSUME Core, Streaming = TRUE, NEW v \in Version
    PROVE  \/ OpenedJob(v).gen = job.gen /\ OpenedJob(v).key = job.key
           \/ OpenedJob(v).gen = job.gen + 1
           \/ job.status = "none"
<1>1. job \in Job
  BY DEF Core, TypeOK, ReceiverTypeOK
<1>2. /\ Restored.gen = job.gen /\ Restored.key = job.key
      /\ Restored.status = "none" <=> job.status = "none"
  BY <1>1 DEF Restored, Job, Ready
<1>3. CASE Replaces(v) /\ job.status # "none"
  <2>1. OpenedJob(v) = Fresh(v, Restored.gen + 1)
    BY <1>2, <1>3 DEF OpenedJob
  <2>2. \A g : Fresh(v, g).gen = g
    BY DEF Fresh
  <2> QED BY <1>2, <2>1, <2>2
<1>4. CASE ~ Replaces(v)
  BY <1>2, <1>4 DEF OpenedJob
<1> QED BY <1>3, <1>4

LEMMA OpenNoGen ==
    ASSUME Core, Streaming = TRUE, NEW v \in Version, job.status = "none"
    PROVE  OpenedJob(v).gen = 0
<1>1. Restored = job /\ Replaces(v)
  BY DEF Restored, Replaces
<1>2. \A g : Fresh(v, g).gen = g
  BY DEF Fresh
<1> QED BY <1>1, <1>2 DEF OpenedJob

\* No request of a worker but a re-open changes the job's generation.
LEMMA ServeGen ==
    ASSUME Core, NEW w \in Workers, Step(w), ~ Reopen(w)
    PROVE  job'.gen = job.gen /\ UNCHANGED <<proc, opened>>
<1>1. job \in Job
  BY DEF Core, TypeOK, ReceiverTypeOK
<1>2. CASE UNCHANGED receiver
  BY <1>2 DEF receiver
<1>3. CASE ~ UNCHANGED receiver
  <2>1. CASE BatchFailed(w)
    <3>1. PICK t, id, g : ServeFail(t, id, g)
      BY <1>3, <2>1 DEF BatchFailed
    <3> QED BY <1>1, <1>3, <3>1 DEF ServeFail, Job
  <2>2. CASE Finish(w)
    <3>1. PICK t, id, g, s : ServeFinish(t, id, g, s)
      BY <1>3, <2>2 DEF Finish
    <3> QED BY <1>1, <1>3, <3>1 DEF ServeFinish, Sealed, Job
  <2>3. ASSUME NEW c \in Chunk, SendChunk(w, c)
        PROVE  job'.gen = job.gen /\ UNCHANGED <<proc, opened>>
    <3>1. PICK t, id, g, v : ServeChunk(t, id, g, c, v) \/ ServeChunkFails(t, id, g, c, v)
      BY <1>3, <2>3 DEF SendChunk
    <3>2. /\ UNCHANGED <<proc, opened>>
          /\ \E s : job' = [job EXCEPT !.status = s]
      BY <1>3, <3>1 DEF ServeChunk, ServeChunkFails
    <3> QED BY <1>1, <3>2 DEF Job
  <2> QED BY <1>3, <2>1, <2>2, <2>3 DEF Step, Take, Reauthorize, GiveUp, ReleaseAnswered,
        Begin, Batched
<1> QED BY <1>2, <1>3

\* The answers that a worker without a re-open holds after its step.
LEMMA StepAnswer ==
    ASSUME Core, NEW w \in Workers, Step(w), ~ Reopen(w)
    PROVE  \/ work'[w].pc = "idle" /\ work'[w].ans.gen = 0
           \/ work'[w].ans = work[w].ans /\ work[w].pc # "idle"
           \/ work'[w].ans = Refusal("lost")
           \/ work'[w].ans.code = "ok" /\ work'[w].ans.gen = job'.gen
           \/ \E t \in DOMAIN tasks : Take(w, t) /\ Reach(token, tasks[t].id) # "ok"
<1>1. work \in [Workers -> Local] /\ work[w] \in Local
  BY CoreParts DEF Tables
<1>2. ASSUME Hold(w, Idle) PROVE work'[w].pc = "idle" /\ work'[w].ans.gen = 0
  BY <1>1, <1>2 DEF Hold, Idle, Refusal
<1>3. ASSUME NEW t \in DOMAIN tasks, Take(w, t), Reach(token, tasks[t].id) = "ok"
      PROVE  \/ work'[w].ans = Refusal("lost")
             \/ work'[w].ans.code = "ok" /\ work'[w].ans.gen = job'.gen
  <2>1. job' = job
    BY <1>3 DEF Take, receiver
  <2>2. work'[w].ans \in {Refusal("lost"), StatusReply(token, tasks[t].id)}
    BY <1>1, <1>3 DEF Take, Hold, Idle
  <2>3. StatusReply(token, tasks[t].id) = Report(job)
    BY <1>3 DEF StatusReply
  <2> QED BY <2>1, <2>2, <2>3 DEF Report
<1>4. CASE Reauthorize(w) \/ GiveUp(w) \/ ReleaseAnswered(w) \/ Batched(w) \/ BatchFailed(w)
  BY <1>2, <1>4 DEF Reauthorize, GiveUp, ReleaseAnswered, Batched, BatchFailed, Release
<1>5. CASE Begin(w)
  <2>1. PICK p, todo : Hold(w, [work[w] EXCEPT !.pc = p, !.todo = todo])
    BY <1>5 DEF Begin
  <2>2. work'[w].ans = work[w].ans /\ work[w].pc # "idle"
    BY <1>1, <1>5, <2>1 DEF Hold, Local, Begin
  <2> QED BY <2>2
<1>6. ASSUME NEW c \in Chunk, SendChunk(w, c)
      PROVE  work'[w].ans = work[w].ans /\ work[w].pc # "idle"
  <2>1. PICK e : Hold(w, [work[w] EXCEPT !.todo = @ \ {c}, !.errs = @ \cup e])
    BY <1>6 DEF SendChunk
  <2>2. work'[w].ans = work[w].ans
    BY <1>1, <2>1 DEF Hold, Local
  <2> QED BY <1>6, <2>2 DEF SendChunk
<1>7. CASE Finish(w) /\ ~ Hold(w, Idle)
  <2> DEFINE s == Final(Mine(w))
             id == Mine(w).id
             g == work[w].ans.gen
             ans == FinishReply(token, id, g, s)
  <2>1. /\ ServeFinish(token, id, g, s) /\ Finished(ans)
        /\ Hold(w, [work[w] EXCEPT !.pc = "release", !.ans = ans])
    BY <1>7 DEF Finish, Release
  <2>2. work'[w].ans = ans
    <3> HIDE DEF ans
    <3> QED BY <1>1, <2>1 DEF Hold, Local
  <2>3. ans.code = "ok" /\ FinishCode(token, id, g, s) = "ok"
    <3>1. ans.code = "ok"
      BY <2>1 DEF Finished
    <3> QED BY <3>1 DEF FinishReply, Refusal
  <2>4. ans = Report(Sealed(s)) /\ job' = Sealed(s)
    BY <2>1, <2>3 DEF FinishReply, ServeFinish
  <2> QED BY <2>2, <2>3, <2>4 DEF Report
<1> QED BY <1>2, <1>3, <1>4, <1>5, <1>6, <1>7 DEF Step

\* In the first process of the receiver every request reaches the job.
LEMMA FirstReaches ==
    ASSUME Core, Present, proc = 0, NEW t \in DOMAIN tasks
    PROVE  Reach(token, tasks[t].id) = "ok"
<1>1. tasks # <<>>
  BY CoreParts, EmptySeq DEF Tables
<1> QED BY <1>1 DEF Present, Reach

LEMMA StepStrike ==
    ASSUME Streaming = TRUE, Sealing, Strike, NEW w \in Workers, Step(w), proc = 0
    PROVE  FirstLife' /\ (job'.status = "none" => job'.gen = 0) /\ proc' = 0
<1>1. /\ Core /\ HeldOpen /\ Single /\ GenKnown /\ Present /\ FailuresCounted /\ NotedGen
      /\ strikes \in Nat
  BY DEF Sealing, Strike, FirstLife, Core, TypeOK, SenderTypeOK
<1>2. ~ Reopen(w) /\ ~ Reauthorize(w)
  BY <1>1 DEF Present, Reopen, Reauthorize
<1>3. job'.gen = job.gen /\ UNCHANGED <<proc, opened>>
  BY <1>1, <1>2, ServeGen
<1>4. UNCHANGED push /\ (Still \/ Moves \/ Seals(Final(Mine(w))))
  BY <1>1, <1>2, StepJob
<1>5. job'.status = "none" <=> job.status = "none"
  BY <1>4 DEF Still, Moves, Seals, Live
<1>6. /\ DOMAIN tasks' = DOMAIN tasks
      /\ \A i \in DOMAIN tasks :
            tasks[i] \in Task /\ (tasks'[i] = tasks[i] \/ Change(w, i, tasks'[i]))
  BY <1>1, StepTasks
<1>7. \A i \in DOMAIN tasks :
         /\ tasks'[i].id = tasks[i].id
         /\ tasks'[i].gen \in {tasks[i].gen, work[w].ans.gen}
  BY <1>2, <1>6 DEF Change
<1>8. token' = token
  BY <1>2 DEF Step, Take, Reopen, GiveUp, ReleaseAnswered, Begin, Batched,
         BatchFailed, SendChunk, Finish
<1>9. \A u \in Workers : u # w => work'[u] = work[u]
  BY <1>1, StepWork
<1>10. \/ work'[w].pc = "idle" /\ work'[w].ans.gen = 0
       \/ work'[w].ans = work[w].ans /\ work[w].pc # "idle"
       \/ work'[w].ans = Refusal("lost")
       \/ work'[w].ans.code = "ok" /\ work'[w].ans.gen = job'.gen
  BY <1>1, <1>2, StepAnswer, FirstReaches
<1>11. GenKnown'
  <2>1. \A u \in Workers : work'[u].ans.gen <= job.gen
    BY <1>1, <1>3, <1>9, <1>10, Generations DEF GenKnown, Refusal
  <2> QED BY <1>1, <1>3, <1>4, <1>6, <1>7, <2>1 DEF GenKnown
<1>12. Present'
  <2>1. work'[w].pc # "idle" => work'[w].ans.code \notin {"absent", "unauthorized"}
    BY <1>1, <1>10 DEF Present, Refusal
  <2>2. \A u \in Workers :
           work'[u].pc # "idle" => work'[u].ans.code \notin {"absent", "unauthorized"}
    BY <1>1, <1>9, <2>1 DEF Present
  <2>3. tasks' # <<>> => tasks # <<>>
    <3>1. tasks \in Seq(Task) /\ tasks' \in Seq(Task)
      BY <1>1, NextCore DEF Core, TypeOK, SenderTypeOK, Next
    <3> QED BY <1>6, <3>1, EmptySeq, LenProperties
  <2>4. /\ \A t \in DOMAIN tasks' : tasks'[t].id = 0
        /\ push'.pc = "queue" => push'.ans.id = 0
        /\ token' = 0
    BY <1>1, <1>4, <1>6, <1>7, <1>8 DEF Present
  <2>5. tasks' # <<>> \/ push'.pc = "queue" => opened' /\ job'.status # "none"
    BY <1>1, <1>3, <1>4, <1>5, <2>3 DEF Present
  <2> QED BY <2>2, <2>4, <2>5 DEF Present
<1>13. FailuresCounted'
  <2>1. SUFFICES ASSUME NEW i \in Unfinished', tasks'[i].gen = job'.gen
                 PROVE  tasks'[i].failures <= strikes'
    BY DEF FailuresCounted
  <2>2. /\ i \in Unfinished /\ i \in DOMAIN tasks /\ tasks[i].failures \in Nat
    BY <1>1, StepUnfinished, Generations DEF Unfinished
  <2>3. CASE Batched(w)
    <3>1. work[w].task \in Unfinished
      BY <1>1, <2>3, OwnTask DEF Batched, HeldOpen, Mine, Unfinished
    <3>2. i = work[w].task
      BY <1>1, <2>2, <3>1 DEF Single
    <3>3. tasks' = [tasks EXCEPT ![work[w].task] =
               [[Mine(w) EXCEPT !.failures = 0] EXCEPT !.busy = FALSE, !.done = FALSE]]
      BY <2>3 DEF Batched, Release
    <3>4. tasks \in Seq(Task) /\ Mine(w) \in Task
      BY <1>1, <1>6, <2>2, <3>2, CoreParts DEF Tables, Mine
    <3>5. tasks'[i].failures = 0
      BY <2>2, <3>2, <3>3, <3>4 DEF Task
    <3>6. strikes' \in {0, strikes}
      BY <2>3 DEF Batched
    <3> QED BY <1>1, <3>5, <3>6
  <2>4. CASE BatchFailed(w)
    <3>1. work[w].task \in Unfinished
      BY <1>1, <2>4, OwnTask DEF BatchFailed, HeldOpen, Mine, Unfinished
    <3>2. i = work[w].task
      BY <1>1, <2>2, <3>1 DEF Single
    <3>3. ~ Begin(w) /\ Mine(w).gen = work[w].ans.gen
      BY <1>1, <2>4 DEF BatchFailed, Begin, NotedGen
    <3>4. /\ tasks'[i].gen = tasks[i].gen
          /\ tasks'[i].failures \in {tasks[i].failures, 0}
             \/ tasks'[i].failures <= tasks[i].failures + 1
      BY <1>2, <1>6, <2>2, <3>3 DEF Change
    <3>5. tasks[i].gen = job.gen /\ work[w].ans.gen = job.gen
      BY <1>3, <2>1, <3>2, <3>3, <3>4 DEF Mine
    <3>6. strikes' = strikes + 1
      BY <2>4, <3>5 DEF BatchFailed
    <3>7. tasks[i].failures <= strikes
      BY <1>1, <2>2, <3>5 DEF FailuresCounted
    <3>8. tasks[i].failures <= strikes + 1 /\ 0 <= strikes + 1 /\ tasks[i].failures + 1 <= strikes + 1
      BY <1>1, <2>2, <3>7
    <3>9. tasks'[i].failures \in Nat
      <4>1. tasks'[i] \in Task
        BY <1>1, <2>2, StepTasks
      <4> QED BY <4>1 DEF Task
    <3> QED BY <1>1, <2>2, <3>4, <3>6, <3>8, <3>9
  <2>5. CASE ~ Batched(w) /\ ~ BatchFailed(w)
    <3>1. strikes' = strikes
      BY <1>2, <2>5 DEF Step, Take, Reauthorize, Reopen, GiveUp, ReleaseAnswered, Begin,
         SendChunk, Finish, ghosts
    <3>2. \/ tasks'[i].gen = tasks[i].gen /\ tasks'[i].failures = tasks[i].failures
          \/ tasks'[i].failures = 0
      BY <1>2, <1>6, <2>2, <2>5 DEF Change
    <3> QED BY <1>1, <1>3, <2>1, <2>2, <3>1, <3>2 DEF FailuresCounted
  <2> QED BY <2>3, <2>4, <2>5
<1> QED BY <1>1, <1>3, <1>5, <1>11, <1>12, <1>13 DEF FirstLife, Strike

LEMMA PushStrike ==
    ASSUME Streaming = TRUE, Sealing, Strike, PushOpen, proc = 0
    PROVE  FirstLife' /\ (job'.status = "none" => job'.gen = 0) /\ proc' = 0
<1>1. /\ Core /\ GenKnown /\ Present /\ FailuresCounted /\ source \in Version
      /\ ReceiverTypeOK /\ (job.status = "none" => job.gen = 0)
  BY CoreParts DEF Sealing, Strike, FirstLife, Others
<1>2. UNCHANGED <<proc, tasks, work>> /\ token' = 0 /\ push.pc = "idle"
  BY DEF PushOpen, ServeOpen, receiver
<1>3. CASE UNCHANGED <<job, opened>> /\ push' = push
  <2>1. strikes' = strikes
    BY <1>3 DEF PushOpen, CountStrikes
  <2> QED BY <1>1, <1>2, <1>3, <2>1
          DEF FirstLife, GenKnown, Present, FailuresCounted, Unfinished
<1>4. CASE ServeOpen(proc, source)
  <2>1. job' = OpenedJob(source) /\ opened' = TRUE /\ job'.status # "none"
    BY <1>1, <1>4, OpenedJobType DEF ServeOpen
  <2>2. \/ job'.gen = job.gen /\ job'.key = job.key
        \/ job'.gen = job.gen + 1
        \/ job.status = "none" /\ job'.gen = 0 /\ job.gen = 0
    BY <1>1, <2>1, OpenGen, OpenNoGen
  <2>3. job.gen \in Nat
    BY <1>1, Generations
  <2>4. job.gen <= job'.gen /\ job'.gen \in Nat
    BY <2>2, <2>3
  <2>5. push'.pc = "queue" => push'.ans.gen = job'.gen /\ push'.ans.id = 0
    <3>1. SUFFICES ASSUME push'.pc = "queue" PROVE push'.ans.gen = job'.gen /\ push'.ans.id = 0
      OBVIOUS
    <3>2. push'.ans = OpenReply(proc, source) /\ OpenReply(proc, source).code = "ok"
      BY <1>2, <3>1 DEF PushOpen, NoPush
    <3>3. OpenReply(proc, source) = Report(OpenedJob(source))
      BY <3>2 DEF OpenReply, Refusal
    <3> QED BY <2>1, <3>2, <3>3 DEF Report
  <2>6. GenKnown'
    <3>1. \A w \in Workers : work[w].ans.gen <= job'.gen
      BY <1>1, <2>3, <2>4, Generations DEF GenKnown
    <3>2. \A t \in DOMAIN tasks : tasks[t].gen <= job'.gen
      BY <1>1, <2>3, <2>4, Generations DEF GenKnown
    <3> QED BY <1>2, <2>4, <2>5, <3>1, <3>2 DEF GenKnown
  <2>7. Present'
    BY <1>1, <1>2, <2>1, <2>5 DEF Present
  <2>8. FailuresCounted'
    <3>1. SUFFICES ASSUME NEW t \in Unfinished, tasks[t].gen = job'.gen
                   PROVE  tasks[t].failures <= strikes'
      BY <1>2 DEF FailuresCounted, Unfinished
    <3>2. t \in DOMAIN tasks /\ tasks[t].gen <= job.gen /\ tasks[t].gen \in Nat
      BY <1>1, Generations DEF Unfinished, GenKnown
    <3>3. job.status # "none"
      <4>1. tasks # <<>>
        BY <1>1, <3>2, CoreParts, EmptySeq DEF Tables
      <4> QED BY <1>1, <4>1 DEF Present
    <3>4. job'.gen = job.gen /\ job'.key = job.key
      BY <2>2, <2>3, <3>1, <3>2, <3>3
    <3>5. strikes' = strikes
      BY <3>4 DEF PushOpen, CountStrikes
    <3> QED BY <1>1, <3>1, <3>4, <3>5 DEF FailuresCounted
  <2> QED BY <1>2, <2>1, <2>6, <2>7, <2>8 DEF FirstLife
<1>5. (UNCHANGED <<job, opened>> /\ push' = push) \/ ServeOpen(proc, source)
  BY DEF PushOpen, receiver
<1> QED BY <1>3, <1>4, <1>5

LEMMA QueueStrike ==
    ASSUME Streaming = TRUE, Sealing, Strike, PushQueue, proc = 0
    PROVE  FirstLife' /\ (job'.status = "none" => job'.gen = 0) /\ proc' = 0
<1>1. /\ Core /\ GenKnown /\ Present /\ FailuresCounted /\ strikes \in Nat
      /\ job.status = "none" => job.gen = 0
  BY DEF Sealing, Strike, FirstLife, Core, TypeOK, SenderTypeOK
<1>2. UNCHANGED <<proc, opened, job, token, work, strikes>> /\ push' = NoPush
  BY DEF PushQueue, receiver, ghosts
<1>3. /\ push.pc = "queue" /\ \A t \in DOMAIN tasks : t \in DOMAIN tasks' /\ tasks'[t] = tasks[t]
      /\ \/ tasks' = tasks
         \/ \E n : /\ Unfinished' = {n} /\ DOMAIN tasks' = DOMAIN tasks \cup {n}
                   /\ tasks'[n] = NewTask(push.ver, push.ans)
  BY <1>1, QueueUnfinished
<1>4. push.ans.id = 0 /\ push.ans.gen <= job.gen /\ opened /\ job.status # "none"
  BY <1>1, <1>3 DEF GenKnown, Present
<1>5. ASSUME NEW t \in DOMAIN tasks'
      PROVE  \/ t \in DOMAIN tasks /\ tasks'[t] = tasks[t]
             \/ tasks'[t].id = 0 /\ tasks'[t].gen = push.ans.gen /\ tasks'[t].failures = 0
  <2>1. CASE tasks' = tasks
    BY <1>5, <2>1
  <2>2. CASE tasks' # tasks
    <3>1. PICK n : /\ DOMAIN tasks' = DOMAIN tasks \cup {n}
                   /\ tasks'[n] = NewTask(push.ver, push.ans)
      BY <1>3, <2>2
    <3>2. /\ tasks'[n].id = 0 /\ tasks'[n].gen = push.ans.gen /\ tasks'[n].failures = 0
      BY <1>4, <3>1 DEF NewTask
    <3> QED BY <1>3, <1>5, <3>1, <3>2
  <2> QED BY <2>1, <2>2
<1>6. GenKnown'
  <2>1. \A t \in DOMAIN tasks' : tasks'[t].gen <= job.gen
    BY <1>1, <1>4, <1>5 DEF GenKnown
  <2> QED BY <1>1, <1>2, <2>1 DEF GenKnown, NoPush
<1>7. Present'
  <2>1. \A t \in DOMAIN tasks' : tasks'[t].id = 0
    BY <1>1, <1>5 DEF Present
  <2> QED BY <1>1, <1>2, <1>4, <2>1 DEF Present, NoPush
<1>8. FailuresCounted'
  <2>1. SUFFICES ASSUME NEW t \in Unfinished', tasks'[t].gen = job.gen
                 PROVE  tasks'[t].failures <= strikes
    BY <1>2 DEF FailuresCounted
  <2>2. t \in DOMAIN tasks' /\ ~ tasks'[t].done
    BY DEF Unfinished
  <2>3. CASE t \in DOMAIN tasks /\ tasks'[t] = tasks[t]
    BY <1>1, <2>1, <2>2, <2>3 DEF FailuresCounted, Unfinished
  <2>4. CASE tasks'[t].failures = 0
    BY <1>1, <2>4
  <2> QED BY <1>5, <2>2, <2>3, <2>4
<1> QED BY <1>1, <1>2, <1>6, <1>7, <1>8 DEF FirstLife

LEMMA WorldStrike ==
    ASSUME Streaming = TRUE, Sealing, Strike, World, proc = 0, proc' = 0
    PROVE  FirstLife' /\ (job'.status = "none" => job'.gen = 0)
<1>1. /\ Core /\ GenKnown /\ Present /\ FailuresCounted /\ strikes \in Nat
      /\ (job.status = "none" => job.gen = 0) /\ job \in Job
  BY DEF Sealing, Strike, FirstLife, Core, TypeOK, SenderTypeOK, ReceiverTypeOK
<1>2. UNCHANGED <<token, tasks, work, push>>
  BY DEF World, ChangeSource, User, ReceiverVerifies, ReceiverRestarts, Close, sender
<1>3. ~ ReceiverRestarts
  BY DEF ReceiverRestarts, Restart
<1>4. /\ opened' = opened
      /\ \/ job' = job
         \/ /\ job.status # "none" /\ job'.status # "none" /\ job'.key = job.key
            /\ job'.gen = job.gen
         \/ /\ job.status # "none" /\ job'.status # "none" /\ job'.gen = job.gen + 1
  <2>1. CASE ChangeSource \/ Close
    BY <2>1 DEF ChangeSource, Close, receiver
  <2>2. CASE User
    <3>1. CASE Pause \/ Cancel
      BY <1>1, <3>1 DEF Pause, Cancel, Job
    <3>2. CASE Resume
      <4>1. job' = [key |-> job.key, sha |-> job.sha, status |-> Ready(job),
                    gen |-> job.gen + 1]
        BY <1>1, <3>2 DEF Resume, Job
      <4> QED BY <3>2, <4>1 DEF Resume, Ready
    <3> QED BY <2>2, <3>1, <3>2 DEF User
  <2>3. CASE ReceiverVerifies
    <3>1. /\ opened' = opened /\ job.status # "none"
          /\ \/ \E s \in {"done", "error"} : job' = [job EXCEPT !.status = s]
             \/ \E s : job' = [job EXCEPT !.status = "error", !.sha = s]
      BY <2>3 DEF ReceiverVerifies, Verify, VerifyFails
    <3> QED BY <1>1, <3>1 DEF Job
  <2> QED BY <1>3, <2>1, <2>2, <2>3 DEF World
<1>5. job'.gen = job.gen \/ job'.gen = job.gen + 1
  BY <1>4
<1>6. GenKnown'
  <2>1. \A t \in DOMAIN tasks : tasks[t].gen <= job'.gen
    BY <1>1, <1>5, Generations DEF GenKnown
  <2>2. \A w \in Workers : work[w].ans.gen <= job'.gen
    BY <1>1, <1>5, Generations DEF GenKnown
  <2>3. push.pc = "queue" => push.ans.gen <= job'.gen
    BY <1>1, <1>5, Generations DEF GenKnown
  <2> QED BY <1>2, <2>1, <2>2, <2>3 DEF GenKnown
<1>7. Present'
  BY <1>1, <1>2, <1>4 DEF Present
<1>8. FailuresCounted'
  <2>1. SUFFICES ASSUME NEW t \in Unfinished, tasks[t].gen = job'.gen
                 PROVE  tasks[t].failures <= strikes'
    BY <1>2 DEF FailuresCounted, Unfinished
  <2>2. t \in DOMAIN tasks /\ tasks[t].gen <= job.gen /\ tasks[t].gen \in Nat /\ job.gen \in Nat
    BY <1>1, Generations DEF Unfinished, GenKnown
  <2>3. job'.gen = job.gen
    BY <1>5, <2>1, <2>2
  <2>4. job'.key = job.key
    BY <1>4, <2>2, <2>3
  <2>5. strikes' = strikes
    BY <1>3, <2>3, <2>4 DEF World, ChangeSource, User, ReceiverVerifies, Close, ghosts,
       CountStrikes
  <2> QED BY <1>1, <2>1, <2>3, <2>5 DEF FailuresCounted
<1> QED BY <1>1, <1>4, <1>6, <1>7, <1>8 DEF FirstLife

LEMMA StrikeNext ==
    Streaming = TRUE /\ Sealing /\ Strike /\ [Next]_vars => Strike'
<1> SUFFICES ASSUME Streaming = TRUE, Sealing, Strike, [Next]_vars PROVE Strike'
  OBVIOUS
<1>1. NotedGen'
  BY NotedNext DEF Strike
<1>2. CASE proc' # 0
  BY <1>1, <1>2 DEF Strike, FirstLife
<1>3. CASE proc' = 0
  <2>1. proc \in Nat /\ Core
    BY DEF Sealing, Core, TypeOK, ReceiverTypeOK
  <2>2. SUFFICES FirstLife' /\ (job'.status = "none" => job'.gen = 0)
    BY <1>1, <1>3 DEF Strike
  <2>3. ASSUME NEW w \in Workers, Step(w)
        PROVE  FirstLife' /\ (job'.status = "none" => job'.gen = 0)
    <3>1. proc' = proc
      <4>1. CASE Reopen(w)
        BY <4>1 DEF Reopen, ServeOpen, receiver
      <4>2. CASE ~ Reopen(w)
        BY <2>1, <2>3, <4>2, ServeGen
      <4> QED BY <4>1, <4>2
    <3> QED BY <1>3, <2>3, <3>1, StepStrike
  <2>4. CASE World
    <3>1. proc = 0
      <4>1. proc' = proc \/ proc' = proc + 1
        BY <2>4 DEF World, ChangeSource, User, ReceiverVerifies, ReceiverRestarts, Close,
           Pause, Cancel, Resume, Verify, VerifyFails, Restart, receiver
      <4> QED BY <1>3, <2>1, <4>1
    <3> QED BY <1>3, <2>4, <3>1, WorldStrike
  <2>5. CASE PushOpen
    <3>1. proc' = proc
      BY <2>5 DEF PushOpen, ServeOpen, receiver
    <3> QED BY <1>3, <2>5, <3>1, PushStrike
  <2>6. CASE PushQueue
    <3>1. proc' = proc
      BY <2>6 DEF PushQueue, receiver
    <3> QED BY <1>3, <2>6, <3>1, QueueStrike
  <2>7. CASE UNCHANGED vars
    BY <1>3, <2>7 DEF vars, receiver, sender, ghosts, Strike, FirstLife, GenKnown, Present,
       FailuresCounted, Unfinished
  <2> QED BY <2>3, <2>4, <2>5, <2>6, <2>7 DEF Next, Push
<1> QED BY <1>2, <1>3

\* The sender reports a job as failed only after MaxRetries batches of its
\* present generation failed in a row (stepStreaming counts per generation,
\* and a batch that succeeds clears the count), until the receiver restarts.
THEOREM GivenUpLate ==
    ASSUME Streaming = TRUE
    PROVE  Spec => GivesUpLate
<1>1. Init => Strike
  BY DEF Init, InitReceiver, NoJob, NoPush, Idle, Refusal, Strike, FirstLife, NotedGen,
     GenKnown, Present, FailuresCounted, Unfinished
<1>2. Sealing /\ Strike /\ [Next]_vars => Sealing' /\ Strike'
  BY SealingNext, StrikeNext
<1>3. Sealing /\ Strike /\ [Next]_vars =>
        [\A w \in Workers :
            proc = 0 /\ BatchFailed(w) /\ job'.status = "error" /\ job.status # "error"
               => strikes' >= MaxRetries]_vars
  <2> SUFFICES ASSUME Sealing, Strike, NEW w \in Workers,
                      proc = 0, BatchFailed(w), job'.status # job.status
               PROVE  strikes' >= MaxRetries
    OBVIOUS
  <2>1. /\ Core /\ HeldOpen /\ FailuresCounted /\ work[w].pc = "chunks"
        /\ Mine(w).gen = work[w].ans.gen /\ strikes \in Nat /\ MaxRetries \in Nat
    BY WorkersAssumption
       DEF Sealing, Strike, FirstLife, NotedGen, BatchFailed, Core, TypeOK, SenderTypeOK
  <2>2. /\ Mine(w).failures + 1 >= MaxRetries
        /\ FailReaches(token, Mine(w).id, work[w].ans.gen)
        /\ strikes' = IF work[w].ans.gen = job.gen THEN strikes + 1 ELSE strikes
    <3>1. \A e : Counted(e)
      BY DEF Counted
    <3> QED BY <3>1 DEF BatchFailed, ServeFail, Exhausted, receiver
  <2>3. work[w].task \in Unfinished
    BY <2>1, OwnTask DEF HeldOpen, Mine, Unfinished
  <2>4. Mine(w).gen = job.gen /\ strikes' = strikes + 1
    BY <2>1, <2>2 DEF FailReaches
  <2>5. Mine(w).failures <= strikes /\ Mine(w).failures \in Nat
    BY <2>1, <2>3, <2>4, Generations DEF FailuresCounted, Mine, Unfinished
  <2> QED BY <2>1, <2>2, <2>4, <2>5
<1> QED BY SealingInit, <1>1, <1>2, <1>3, PTL DEF Spec, GivesUpLate
====
