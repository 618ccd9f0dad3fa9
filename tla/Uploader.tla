------------------------------ MODULE Uploader ------------------------------
(***************************************************************************)
(* The sending half of a push upload (upload_client.go): beginUpload, which  *)
(* offers a file to a receiver and queues a task for it, and the workers     *)
(* that carry the tasks through by asking the receiver for its status,       *)
(* sending what is missing and finishing.  One file, one receiver            *)
(* (UploadJob), whose requests may be lost on the way there or back.          *)
(*                                                                         *)
(* A worker owns a task through task.busy; what it learnt in its status      *)
(* answer is a local variable that the receiver, the user and the other       *)
(* goroutines overtake.  A step is one request with its effect at the         *)
(* receiver, or one section under Uploader.mu.                                *)
(***************************************************************************)
EXTENDS UploadJob, Sequences

CONSTANTS
    Workers,        \* workerCount goroutines
    BatchSize,      \* chunks in flight per step
    MaxRetries,     \* failing batches before the sender gives up
    MaxPushes,      \* bound on pushes
    MaxUser,        \* bound on pauses, cancels and resumes
    MaxFaults,      \* bound on lost requests and failing file operations
    MayClose,       \* may App.Close run?
    Races           \* overlaps of push and worker that may happen

Overlaps == {"push_in_release", "push_over_task", "change_after_digest"}

ASSUME WorkersAssumption == BatchSize \in Nat \ {0} /\ MaxRetries \in Nat \ {0}
ASSUME UploaderBounds ==
    /\ MaxPushes \in Nat /\ MaxUser \in Nat /\ MaxFaults \in Nat
    /\ MayClose \in BOOLEAN /\ Races \subseteq Overlaps

VARIABLES
    source,     \* the version the source file is at
    token,      \* uploader.token
    tasks,      \* uploader.tasks
    work,       \* what each worker is at
    push,       \* the beginUpload that holds queueMu
    running,    \* uploader.ctx is not canceled
    pushes, users, faults,
    \* history: the last push was answered without an error, and the batches of
    \* the job's generation that failed in a row
    offered, strikes

sender == <<token, tasks, work, push>>
budget == <<pushes, users, faults>>
ghosts == <<offered, strikes>>
vars   == <<receiver, source, sender, running, budget, ghosts>>

Task == [ver : Version, id : Nat, gen : Nat, failures : Nat,
         final : Version \cup {0}, busy : BOOLEAN, done : BOOLEAN]
Idle == [pc |-> "idle", task |-> 0, ans |-> Refusal("lost"), todo |-> {}, errs |-> {}]
NoPush == [pc |-> "idle", ver |-> 1, ans |-> Refusal("lost")]

Init ==
    /\ InitReceiver
    /\ source = 1 /\ token = 0 /\ tasks = <<>>
    /\ work = [w \in Workers |-> Idle] /\ push = NoPush
    /\ running = TRUE
    /\ pushes = 0 /\ users = 0 /\ faults = 0
    /\ offered = FALSE /\ strikes = 0

(***************************************************************************)
(* Requests on their way                                                   *)
(***************************************************************************)
\* A request or a file operation fails; after Close every request does.
Fails_NoContext == faults < MaxFaults /\ faults' = faults + 1  \* faulty: Close cancels no request
Fails ==
    \/ faults < MaxFaults /\ faults' = faults + 1
    \/ ~ running /\ UNCHANGED faults
Works == running /\ UNCHANGED faults

\* A new generation or a new job starts the count again.
CountStrikes ==
    strikes' = IF job'.gen # job.gen \/ job'.key # job.key THEN 0 ELSE strikes

(***************************************************************************)
(* beginUpload                                                             *)
(***************************************************************************)
\* The receiver says that it has this version already.
Finished_Sealed(ans) ==  \* faulty: takes "handed to verification" for the end
    ans.code = "ok" /\ ans.status \in {"verifying", "done"}
Finished(ans) == ans.code = "ok" /\ ans.status = "done"
\* A worker whose answer ends its step, and perhaps its task.
Answered(w) ==
    \/ work[w].pc = "release"
    \/ work[w].pc = "answer" /\ Finished(work[w].ans)

\* One task per path and digest: a streaming manifest has no digest, so that
\* any task of the path that is not done stands for it.
StandsFor_EvenDone(t, v) == DigestOf(tasks[t].ver) = DigestOf(v)  \* faulty
StandsFor(t, v) == DigestOf(tasks[t].ver) = DigestOf(v) /\ ~ tasks[t].done

\* authRemote, then the open (or, for a receiver without it, the start) with
\* the file's present size and time.  A lost answer fails the push, although
\* the receiver may have opened the job.
PushOpen ==
    LET ans == OpenReply(proc, source)
    IN /\ running /\ push.pc = "idle" /\ pushes < MaxPushes
       /\ (\E w \in Workers : Answered(w)) => "push_in_release" \in Races
       /\ (\E t \in DOMAIN tasks : StandsFor(t, source) /\ tasks[t].ver # source)
             => "push_over_task" \in Races
       /\ pushes' = pushes + 1
       /\ token' = proc
       /\ \/ /\ Works /\ ServeOpen(proc, source)
             /\ push' = IF ans.code = "ok" /\ ~ Finished(ans)
                        THEN [pc |-> "queue", ver |-> source, ans |-> ans] ELSE NoPush
             /\ offered' = (ans.code = "ok")
          \/ Fails /\ ServeOpen(proc, source) /\ UNCHANGED push /\ offered' = FALSE
          \/ Fails /\ UNCHANGED <<receiver, push>> /\ offered' = FALSE
       /\ CountStrikes
       /\ UNCHANGED <<source, tasks, work, running, users>>

NewTask_Now(v, ans) ==  \* faulty: the manifest of the file as it is now
    [ver |-> source, id |-> ans.id, gen |-> ans.gen, failures |-> 0,
     final |-> 0, busy |-> FALSE, done |-> FALSE]
NewTask(v, ans) == [ver |-> v, id |-> ans.id, gen |-> ans.gen, failures |-> 0,
                    final |-> 0, busy |-> FALSE, done |-> FALSE]
PushQueue ==
    /\ push.pc = "queue"
    /\ tasks' = IF \E t \in DOMAIN tasks : StandsFor(t, push.ver) THEN tasks
                ELSE Append(tasks, NewTask(push.ver, push.ans))
    /\ push' = NoPush
    /\ UNCHANGED <<receiver, source, token, work, running, budget, ghosts>>

(***************************************************************************)
(* worker                                                                  *)
(***************************************************************************)
Mine(w) == tasks[work[w].task]
Hold(w, local) == work' = [work EXCEPT ![w] = local]

\* The end of a step: selected.busy = false, selected.done = done.
Release(w, task, done) ==
    /\ tasks' = [tasks EXCEPT ![work[w].task] = [task EXCEPT !.busy = FALSE, !.done = done]]
    /\ Hold(w, Idle)

\* A worker takes a task that nobody has, and asks for its status.
Free_EvenIfBusy(t) == ~ tasks[t].done  \* faulty: no look at busy
Free(t) == ~ tasks[t].busy /\ ~ tasks[t].done
Take(w, t) ==
    /\ running /\ work[w].pc = "idle" /\ Free(t)
    /\ tasks' = [tasks EXCEPT ![t] = [@ EXCEPT !.busy = TRUE]]
    /\ \/ Works /\ Hold(w, [Idle EXCEPT !.pc = "answer", !.task = t,
                                        !.ans = StatusReply(token, tasks[t].id)])
       \/ Fails /\ Hold(w, [Idle EXCEPT !.pc = "answer", !.task = t])
    /\ UNCHANGED <<receiver, source, token, push, running, pushes, users, ghosts>>

\* 401: the password buys a new token.
Reauthorize(w) ==
    /\ work[w].pc = "answer" /\ work[w].ans.code = "unauthorized"
    /\ \/ Works /\ token' = proc
       \/ Fails /\ UNCHANGED token
    /\ Release(w, Mine(w), FALSE)
    /\ UNCHANGED <<receiver, source, push, running, pushes, users, ghosts>>

\* 404: the task is opened again with the manifest it was queued with.
Reopen(w) ==
    LET v == Mine(w).ver
        ans == OpenReply(token, v)
    IN /\ work[w].pc = "answer" /\ work[w].ans.code = "absent"
       /\ \/ /\ Works /\ ServeOpen(token, v)
             /\ IF ans.code = "ok"
                THEN /\ tasks' = [tasks EXCEPT ![work[w].task] =
                                     [Mine(w) EXCEPT !.id = ans.id,
                                                     !.gen = IF Streaming THEN ans.gen ELSE @]]
                     /\ Hold(w, [work[w] EXCEPT !.pc = "release", !.ans = ans])
                ELSE Release(w, Mine(w), FALSE)
          \/ Fails /\ ServeOpen(token, v) /\ Release(w, Mine(w), FALSE)
          \/ Fails /\ UNCHANGED receiver /\ Release(w, Mine(w), FALSE)
       /\ CountStrikes
       /\ UNCHANGED <<source, token, push, running, pushes, users, offered>>

\* Nothing to do for this answer: no answer, or a job that is stopped, or in
\* verification.
GiveUp(w) ==
    /\ work[w].pc = "answer"
    /\ \/ work[w].ans.code \notin {"ok", "unauthorized", "absent"}
       \/ /\ work[w].ans.code = "ok"
          /\ work[w].ans.status \notin Unsealed \cup {"done"}
    /\ Release(w, Mine(w), FALSE)
    /\ UNCHANGED <<receiver, source, token, push, running, budget, ghosts>>

\* The answer "done" ends the task when the worker next gets Uploader.mu.
ReleaseAnswered(w) ==
    /\ Answered(w)
    /\ Release(w, Mine(w), Finished(work[w].ans))
    /\ UNCHANGED <<receiver, source, token, push, running, budget, ghosts>>

\* The generation a batch or finish is for; failures count per generation.
Noted_KeepsFailures(task, g) == [task EXCEPT !.gen = g]  \* faulty
Noted(task, g) == IF task.gen = g THEN task ELSE [task EXCEPT !.gen = g, !.failures = 0]

Batch(missing) == {c \in missing : Cardinality({d \in missing : d < c}) < BatchSize}
Begin(w) ==
    LET ans == work[w].ans
    IN /\ work[w].pc = "answer" /\ ans.code = "ok" /\ ans.status \in Unsealed
       /\ tasks' = [tasks EXCEPT ![work[w].task] = Noted(@, ans.gen)]
       /\ Hold(w, [work[w] EXCEPT !.pc = IF ans.missing = {} THEN "finish" ELSE "chunks",
                                  !.todo = Batch(ans.missing)])
       /\ UNCHANGED <<receiver, source, token, push, running, budget, ghosts>>

\* One goroutine of the batch reads its chunk of the file and sends it.
SendChunk(w, c) ==
    LET id == Mine(w).id
        g == work[w].ans.gen
        code == ChunkCode(token, id, g, c, source)
        result(e) == Hold(w, [work[w] EXCEPT !.todo = @ \ {c}, !.errs = @ \cup e])
    IN /\ work[w].pc = "chunks" /\ c \in work[w].todo
       /\ \/ /\ Works /\ ServeChunk(token, id, g, c, source)
             /\ result(IF code = "ok" THEN {} ELSE {code})
          \/ Fails /\ ServeChunk(token, id, g, c, source) /\ result({"lost"})
          \/ Fails /\ ServeChunkFails(token, id, g, c, source) /\ result({"broken"})
          \/ Fails /\ UNCHANGED receiver /\ result({"lost"})
       /\ UNCHANGED <<source, token, tasks, push, running, pushes, users, ghosts>>

\* workers.Wait(): the batch is over.  The legacy step does not count what
\* only says that the job has moved on, by one of the batch's errors.
Counted(e) == Streaming \/ e \notin {"refused", "unauthorized", "absent"}
Batched(w) ==
    /\ work[w].pc = "chunks" /\ work[w].todo = {} /\ work[w].errs = {}
    /\ Release(w, [Mine(w) EXCEPT !.failures = 0], FALSE)
    /\ strikes' = IF work[w].ans.gen = job.gen THEN 0 ELSE strikes
    /\ UNCHANGED <<receiver, source, token, push, running, budget, offered>>
Exhausted(n) == n >= MaxRetries
BatchFailed(w) ==
    \E e \in work[w].errs :
        LET n == Mine(w).failures + IF Counted(e) THEN 1 ELSE 0
            report == Counted(e) /\ Exhausted(n)
            g == work[w].ans.gen
        IN /\ work[w].pc = "chunks" /\ work[w].todo = {}
           /\ \/ /\ report /\ Works
                 /\ ServeFail(token, Mine(w).id, g)
              \/ /\ report /\ Fails
                 /\ ServeFail(token, Mine(w).id, g) \/ UNCHANGED receiver
              \/ ~ report /\ UNCHANGED <<receiver, faults>>
           /\ Release(w, [Mine(w) EXCEPT !.failures = n], FALSE)
           /\ strikes' = IF g = job.gen THEN strikes + 1 ELSE strikes
           /\ UNCHANGED <<source, token, push, running, pushes, users, offered>>

\* Nothing is missing: the receiver waits for the digest, which is computed
\* once per task.  (The legacy receiver has it already, and verifies by itself.)
Final_Missing(task) == task.final  \* faulty: the digest is never computed
Final_Queued(task) == task.ver  \* faulty: the digest of the file as queued
Final(task) == IF task.final = 0 THEN source ELSE task.final
Finish(w) ==
    LET s == Final(Mine(w))
        id == Mine(w).id
        g == work[w].ans.gen
        ans == FinishReply(token, id, g, s)
        kept == [Mine(w) EXCEPT !.final = s]
    IN /\ work[w].pc = "finish" /\ Streaming
       /\ \/ /\ Works /\ ServeFinish(token, id, g, s)
             /\ IF Finished(ans)
                THEN /\ tasks' = [tasks EXCEPT ![work[w].task] = kept]
                     /\ Hold(w, [work[w] EXCEPT !.pc = "release", !.ans = ans])
                ELSE Release(w, kept, FALSE)
          \/ Fails /\ ServeFinish(token, id, g, s) /\ Release(w, kept, FALSE)
          \/ Fails /\ UNCHANGED receiver /\ Release(w, kept, FALSE)
          \/ Fails /\ UNCHANGED receiver /\ Release(w, Mine(w), FALSE)
       /\ UNCHANGED <<source, token, push, running, pushes, users, ghosts>>

(***************************************************************************)
(* The rest of the world                                                   *)
(***************************************************************************)
ChangeSource ==
    /\ source < MaxVersion /\ source' = source + 1
    /\ (\E t \in DOMAIN tasks : ~ tasks[t].done /\ tasks[t].final # 0)
          => "change_after_digest" \in Races
    /\ UNCHANGED <<receiver, sender, running, budget, ghosts>>

User ==
    /\ users < MaxUser /\ users' = users + 1
    /\ Pause \/ Cancel \/ Resume
    /\ CountStrikes
    /\ UNCHANGED <<source, sender, running, pushes, faults, offered>>

ReceiverVerifies ==
    /\ \/ Verify /\ UNCHANGED faults
       \/ VerifyFails /\ faults < MaxFaults /\ faults' = faults + 1
    /\ UNCHANGED <<source, sender, running, pushes, users, ghosts>>

ReceiverRestarts ==
    /\ Restart
    /\ strikes' = 0
    /\ UNCHANGED <<source, sender, running, budget, offered>>

\* App.Close cancels the context and waits for the workers.
Close ==
    /\ MayClose /\ running /\ running' = FALSE
    /\ UNCHANGED <<receiver, source, sender, budget, ghosts>>

Step(w) ==
    \/ \E t \in DOMAIN tasks : Take(w, t)
    \/ Reauthorize(w) \/ Reopen(w) \/ GiveUp(w) \/ ReleaseAnswered(w)
    \/ Begin(w) \/ Batched(w) \/ BatchFailed(w)
    \/ \E c \in Chunk : SendChunk(w, c)
    \/ Finish(w)
Push == PushOpen \/ PushQueue
World == ChangeSource \/ User \/ ReceiverVerifies \/ ReceiverRestarts \/ Close

Next == Push \/ (\E w \in Workers : Step(w)) \/ World
Spec == Init /\ [][Next]_vars

\* Goroutines that can run do run, and the receiver verifies what it has;
\* nothing is assumed of the user, of pushes, or of failures.
Fairness ==
    /\ WF_vars(PushQueue) /\ WF_vars(ReceiverVerifies)
    /\ \A w \in Workers : WF_vars(Step(w))
FairSpec == Spec /\ Fairness

(***************************************************************************)
(* Properties                                                              *)
(***************************************************************************)
WorkPc == {"idle", "answer", "chunks", "finish", "release"}
Local == [pc : WorkPc, task : Nat, ans : Answer, todo : SUBSET Chunk, errs : SUBSET Code]

\* Every variable has its type.
SenderTypeOK ==
    /\ source \in Version /\ token \in Nat
    /\ tasks \in Seq(Task)
    /\ work \in [Workers -> Local]
    /\ push \in [pc : {"idle", "queue"}, ver : Version, ans : Answer]
    /\ running \in BOOLEAN
    /\ pushes \in Nat /\ users \in Nat /\ faults \in Nat
    /\ offered \in BOOLEAN /\ strikes \in Nat
TypeOK == ReceiverTypeOK /\ SenderTypeOK

\* A task is in the hands of one worker, and only while it is busy: two
\* workers never send, finish or fail for it at the same time.
OneWorkerPerTask ==
    \A w \in Workers : work[w].pc # "idle" =>
        /\ work[w].task \in DOMAIN tasks /\ tasks[work[w].task].busy
        /\ \A u \in Workers \ {w} : work[u].pc # "idle" => work[u].task # work[w].task

\* As long as the receiver has an unfinished job that a successful push
\* opened, the sender has an unfinished task for it.
NoLostPush ==
    offered /\ push.pc = "idle" /\ job.status \notin Settled \cup {"none"} =>
        \E t \in DOMAIN tasks : ~ tasks[t].done

Whole(v) == [c \in Chunk |-> v]
\* A task is done only when the version it was queued for, or a later one, is
\* in the destination: no answer of another job, process or generation ends it.
DoneIsDelivered ==
    \A t \in DOMAIN tasks : tasks[t].done => \E v \in tasks[t].ver .. MaxVersion : Whole(v) \in published

\* What the receiver holds complete, in the content the source file has, is
\* not rejected: the digest it is verified against is of that content.
IntactVerifies ==
    job.status = "verifying" /\ (\A c \in Chunk : Marks(job)[c] = source)
        => job.sha = source

\* The sender gives a job up only after MaxRetries batches of its present
\* generation failed in a row: a resume gives it all its retries back.  (Only
\* until a restart, after which retryUploadStatus keeps the old count.)
GivesUpLate ==
    [][\A w \in Workers :
          proc = 0 /\ BatchFailed(w) /\ job'.status = "error" /\ job.status # "error"
             => strikes' >= MaxRetries]_vars

\* A task whose receiver has lost it is taken back: its manifest is never
\* refused for another one in the saved queue.
ReopenServed ==
    \A w \in Workers : work[w].pc = "answer" /\ work[w].ans.code = "absent" =>
        ~ Conflicts(Mine(w).ver)

\* What was pushed arrives, or the receiver's user or a failure stops it.
Arrives ==
    offered ~> ~ offered \/ ~ running
               \/ job.status \in {"none", "done", "canceled", "paused", "error"}

\* Uploading implements Delivery: a copy in the destination is one version of
\* the file, of the time of the first push or later.
Copies == INSTANCE Delivery WITH
    Last <- MaxVersion, Pieces <- Chunk, copies <- published,
    first <- IF tasks = <<>> THEN 0 ELSE tasks[1].ver
Delivers == Copies!Spec

\* Close returns: every worker comes to its end.
CloseReturns == ~ running ~> \A w \in Workers : work[w].pc = "idle"
=============================================================================
