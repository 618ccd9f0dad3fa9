---------------------------- MODULE PullReceiver ----------------------------
(***************************************************************************)
(* The receiving half of a pull: an ACTIVE Puller (receiver.go), whose own   *)
(* workers fetch the chunks of a remote file, seen through ONE path of one   *)
(* source.  /api/connect restores its queue and starts the pool,             *)
(* /api/download adds the file, the user pauses, resumes, cancels, cleans.   *)
(*                                                                         *)
(* A section under Puller.mu is one step.  FileJob.ioMu is held by the       *)
(* worker whose pc is in Holding; queueMu is held while op is not "idle".    *)
(*                                                                         *)
(* gen counts resumes (FileJob.generation) and also replacements of the job  *)
(* by a new FileJob: work for a replaced job is recognised by its pointer,   *)
(* which has the same effect as a generation of the past.  That a canceled   *)
(* job is resumed while an open replaces it is left to UploadReceiver.       *)
(*                                                                         *)
(* A part file is the set of its chunks that have the manifest's hash.       *)
(***************************************************************************)
EXTENDS Naturals, Sequences, FiniteSets

CONSTANTS
    NChunks,        \* chunks of the file, 0 for an empty one
    Workers,        \* goroutines started by Puller.start
    ChunkMaxErrs,   \* chunkMaxErrs
    MaxRetries,     \* maxRetries
    None,           \* "absent": no file, no chunk
    MaxGen,         \* bound on resumes and replacements
    MaxFiles,       \* bound on files published before a new job is opened
    MaxEvents,      \* bound on restarts, failing file operations, pauses,
                    \* cancels and cleans together
    Races           \* overlaps that may happen

Chunk == 0 .. NChunks - 1
Overlaps == {"control_before_restore", "restore_refused"}

ASSUME SizeAssumption == NChunks \in Nat
ASSUME NoneAssumption == None \notin Chunk /\ \A S \in SUBSET Chunk : None # S
ASSUME RetryAssumption == ChunkMaxErrs \in Nat \ {0} /\ MaxRetries \in Nat
ASSUME BoundsAssumption ==
    MaxGen \in Nat /\ MaxFiles \in Nat /\ MaxEvents \in Nat
ASSUME RacesAssumption == Races \subseteq Overlaps

VARIABLES
    \* memory: the Puller
    phase,      \* "down", "fresh" (acquired), "restoring", "up"
    started,    \* startOnce done
    closed,     \* Puller.ctx is canceled
    clock,      \* runningSince is set
    ctl,        \* a control request has still to call saveJobs
    op,         \* the holder of queueMu: addRecordsMode or cleanOwned
    \* memory: jobs[path]
    status, gen,
    live,       \* job.ctx.Err() == nil, apart from closed
    done, inflight, errs, retries,
    backoff,    \* retryAfter is in the future
    \* memory: the workers
    pc, work,
    \* disk
    part, meta,
    queue,      \* jobs.json has the job
    files,      \* what was published under this name, in order
    \* bounds and history
    used,       \* events so far
    strikes     \* failed chunks counted since the job was opened or resumed

puller == <<phase, started, closed, clock, ctl, op>>
job    == <<status, gen, live, done, inflight, errs, retries, backoff, strikes>>
pool   == <<pc, work>>
disk   == <<part, meta, queue, files>>
vars   == <<puller, job, pool, disk, used>>

(***************************************************************************)
(* Values                                                                  *)
(***************************************************************************)
Status  == {"none", "pending", "active", "verifying", "finalizing", "done",
            "error", "paused", "canceled"}
Running == {"pending", "active", "verifying", "finalizing"}
Settled == {"done", "canceled"}             \* what the queue may forget
Fetched == {"write", "mark", "broken", "save"}
Final   == {"fin_metafix", "fin_commit", "fin_done", "fin_clean", "fin_fail",
            "fin_save"}
Holding == Fetched \cup Final               \* worker holds ioMu
Pc      == {"idle", "fetch", "scan", "claimed", "exited"} \cup Holding
Stored  == (SUBSET Chunk) \cup {None}        \* the chunks of a file, if it exists
NoWork  == [gen |-> 0, idx |-> None]

Limit == (MaxRetries + 1) * ChunkMaxErrs    \* failures that a job survives, and one

IoFree == \A w \in Workers : pc[w] \notin Holding
Mine(w) == work[w].gen = gen                \* the job is still in w's generation
Halted == status \in {"canceled", "paused"}

Event == used < MaxEvents /\ used' = used + 1
Fails == Event
Works == UNCHANGED used

\* updateClock, called before Puller.mu is released.
UpdateClock_OnlyStarts == clock' = (clock \/ status' \in Running)  \* faulty: never stops
UpdateClock == clock' = (status' \in Running)

\* saveJobs: nothing while the queue is being restored.
SaveJobs_AtOnce == queue' = (status \notin Settled \cup {"none"})  \* faulty: also while restoring
SaveJobs ==
    queue' = IF phase = "restoring" THEN queue ELSE status \notin Settled \cup {"none"}

Goto(w, label) == pc' = [pc EXCEPT ![w] = label] /\ UNCHANGED work

\* Puller.fail: ignored for another generation, for a job that is finished or
\* halted, and while the Puller is closing.
Failable(w) == Mine(w) /\ status \notin {"done", "canceled", "paused"} /\ ~ closed
FailJob(w) ==
    /\ status' = IF Failable(w) THEN "error" ELSE status
    /\ UpdateClock

(***************************************************************************)
(* Process start and death                                                 *)
(***************************************************************************)
Init ==
    /\ phase = "down" /\ started = FALSE /\ closed = FALSE /\ clock = FALSE
    /\ ctl = FALSE /\ op = "idle"
    /\ status = "none" /\ gen = 0 /\ live = FALSE /\ done = {} /\ inflight = {}
    /\ errs = 0 /\ retries = 0 /\ backoff = FALSE /\ strikes = 0
    /\ pc = [w \in Workers |-> "idle"] /\ work = [w \in Workers |-> NoWork]
    /\ part = None /\ meta = None /\ queue = FALSE /\ files = <<>>
    /\ used = 0

Crash ==
    /\ phase # "down" /\ Event
    /\ phase' = "down" /\ started' = FALSE /\ closed' = FALSE /\ clock' = FALSE
    /\ ctl' = FALSE /\ op' = "idle"
    /\ status' = "none" /\ gen' = 0 /\ live' = FALSE /\ done' = {}
    /\ inflight' = {} /\ errs' = 0 /\ retries' = 0 /\ backoff' = FALSE
    /\ strikes' = 0
    /\ pc' = [w \in Workers |-> "idle"] /\ work' = [w \in Workers |-> NoWork]
    /\ UNCHANGED disk

\* Puller.Close: no request and no file copy goes on, the workers are awaited.
Close ==
    /\ phase # "down" /\ ~ closed
    /\ closed' = TRUE
    /\ UNCHANGED <<phase, started, clock, ctl, op, job, pool, disk, used>>

\* /api/connect: acquirePuller makes the Puller visible ...
Acquire ==
    /\ phase = "down"
    /\ phase' = "fresh"
    /\ UNCHANGED <<started, closed, clock, ctl, op, job, pool, disk, used>>

\* ... and a second connect finds it there and starts the pool at once.
Reconnect ==
    /\ phase # "down" /\ ~ started
    /\ started' = TRUE
    /\ UNCHANGED <<phase, closed, clock, ctl, op, job, pool, disk, used>>

(***************************************************************************)
(* addRecordsMode: /api/download and restoreJobs                            *)
(***************************************************************************)
Busy == status \notin Settled \cup {"none"}

\* A job that is not settled is left alone; one that is settled is replaced.
BeginOpen == op = "idle" /\ ~ Busy /\ gen < MaxGen /\ op' = "barrier"

Open ==
    /\ phase # "down" /\ ~ closed /\ Len(files) < MaxFiles
    /\ BeginOpen
    /\ UNCHANGED <<phase, started, closed, clock, ctl, job, pool, disk, used>>

\* restoreJobs asks the sender for the manifest again.  A record it cannot add
\* is skipped: a busy job of that path, or a manifest that does not come.
Restore ==
    /\ phase = "fresh" /\ op = "idle"
    /\ IF queue /\ ~ Busy
       THEN \/ BeginOpen /\ phase' = "restoring" /\ UNCHANGED <<started, used>>
            \/ /\ "restore_refused" \in Races /\ UNCHANGED used
               /\ phase' = "up" /\ started' = TRUE /\ UNCHANGED op
       ELSE phase' = "up" /\ started' = TRUE /\ UNCHANGED <<op, used>>
    /\ UNCHANGED <<closed, clock, ctl, job, pool, disk>>

\* restoreJobs returns: restoring is cleared, cleanStale runs, the pool starts.
EndOpen ==
    /\ op' = "idle"
    /\ IF phase = "restoring" THEN phase' = "up" /\ started' = TRUE
       ELSE UNCHANGED <<phase, started>>

\* previous.cancel(), then its ioMu is taken and given back.
OpenBarrier ==
    /\ op = "barrier" /\ IoFree
    /\ live' = FALSE /\ op' = "build"
    /\ UNCHANGED <<phase, started, closed, clock, ctl, pool, disk, used>>
    /\ UNCHANGED <<status, gen, done, inflight, errs, retries, backoff, strikes>>

\* loadMeta believes the chunks whose data the part file confirms; without
\* metadata or part file, the part file is truncated.
Loaded == IF part = None \/ meta = None THEN {} ELSE meta \cap part
OpenBuild ==
    /\ op = "build" /\ Works
    /\ part' = IF part = None \/ meta = None THEN {} ELSE part
    /\ status' = IF Loaded = Chunk THEN "verifying" ELSE "pending"
    /\ gen' = gen + 1 /\ live' = TRUE /\ done' = Loaded /\ inflight' = {}
    /\ errs' = 0 /\ retries' = 0 /\ backoff' = FALSE /\ strikes' = 0
    /\ UpdateClock
    /\ op' = "save"
    /\ UNCHANGED <<phase, started, closed, ctl, pool, meta, queue, files>>

\* No space, or the part file cannot be opened: the job that was there stays.
OpenRefused ==
    /\ op = "build" /\ Fails
    /\ phase = "restoring" => "restore_refused" \in Races
    /\ EndOpen
    /\ UNCHANGED <<closed, clock, ctl, job, pool, disk>>

OpenSave ==
    /\ op = "save"
    /\ \/ Works /\ SaveJobs
       \/ Fails /\ UNCHANGED queue
    /\ EndOpen
    /\ UNCHANGED <<closed, clock, ctl, job, pool, part, meta, files>>

(***************************************************************************)
(* The workers: pick, getChunk, writeChunk                                  *)
(***************************************************************************)
\* The first chunk that is neither done nor in flight.
Index_OneMore == 0 .. NChunks  \* faulty: the loop goes one too far
Index == Chunk
Wanted_Inflight(c) ==  \* faulty: does not look at inflight
    c \notin done /\ \A d \in 0 .. c - 1 : d \in done
Wanted(c) ==
    c \notin done \cup inflight /\ \A d \in 0 .. c - 1 : d \in done \cup inflight

Pick(w) ==
    /\ started /\ ~ closed /\ pc[w] = "idle"
    /\ status \in {"pending", "active"} /\ ~ backoff
    /\ \E c \in Index :
          /\ Wanted(c)
          /\ inflight' = inflight \cup {c}
          /\ work' = [work EXCEPT ![w] = [gen |-> gen, idx |-> c]]
    /\ status' = "active"
    /\ pc' = [pc EXCEPT ![w] = "fetch"]
    /\ UNCHANGED <<gen, live, done, errs, retries, backoff, strikes>>
    /\ UNCHANGED <<puller, disk, used>>

\* The worker takes its chunk out of inflight, if the set is still the one
\* that it was put into.
Landed_Never(w) == inflight  \* faulty: a stale chunk stays in flight
Landed_Always(w) == inflight \ {work[w].idx}  \* faulty: whatever its generation
Landed(w) == IF Mine(w) THEN inflight \ {work[w].idx} ELSE inflight

\* getChunk returned, with the right data or not, and ioMu is taken.
Stale(w) == ~ Mine(w) \/ Halted \/ status = "error"
Arrive(w) ==
    /\ pc[w] = "fetch" /\ IoFree
    /\ IF Stale(w)
       THEN inflight' = Landed(w) /\ Goto(w, "idle")
       ELSE /\ UNCHANGED inflight
            /\ \/ Goto(w, "write")
               \/ Goto(w, "broken")
    /\ UNCHANGED <<status, gen, live, done, errs, retries, backoff, strikes>>
    /\ UNCHANGED <<puller, disk, used>>

\* A missing part file is created.
Write(w) ==
    /\ pc[w] = "write"
    /\ \/ /\ Works
          /\ part' = (IF part = None THEN {} ELSE part) \cup {work[w].idx}
          /\ Goto(w, "mark")
       \/ Fails /\ UNCHANGED part /\ Goto(w, "broken")
    /\ UNCHANGED <<puller, job, meta, queue, files>>

\* The chunk is on disk: it counts unless the job was stopped meanwhile.
Mark(w) ==
    /\ pc[w] = "mark"
    /\ inflight' = Landed(w)
    /\ IF Mine(w) /\ ~ Halted
       THEN /\ done' = done \cup {work[w].idx}
            /\ errs' = 0
            /\ status' = IF done' = Chunk THEN "verifying" ELSE status
            /\ Goto(w, "save")
       ELSE UNCHANGED <<done, errs, status>> /\ Goto(w, "scan")
    /\ UpdateClock
    /\ UNCHANGED <<gen, live, retries, backoff, strikes>>
    /\ UNCHANGED <<phase, started, closed, ctl, op, disk, used>>

\* The chunk failed.  chunkMaxErrs failures in a row make a retry, which waits;
\* one retry too many ends the job.
Exhausted == retries + 1 > MaxRetries
Broken(w) ==
    LET counts == Mine(w) /\ ~ Halted /\ ~ closed
        retry  == counts /\ errs + 1 >= ChunkMaxErrs
    IN /\ pc[w] = "broken"
       /\ inflight' = Landed(w)
       /\ errs' = IF retry THEN 0 ELSE IF counts THEN errs + 1 ELSE errs
       /\ retries' = IF retry THEN retries + 1 ELSE retries
       /\ backoff' = (backoff \/ retry)
       /\ status' = IF retry /\ Exhausted THEN "error" ELSE status
       /\ strikes' = IF counts /\ strikes < Limit THEN strikes + 1 ELSE strikes
       /\ UpdateClock
       /\ Goto(w, "scan")
       /\ UNCHANGED <<gen, live, done>>
       /\ UNCHANGED <<phase, started, closed, ctl, op, disk, used>>

\* saveMeta, which takes the marks as they are now; the job fails with it.
Save(w) ==
    /\ pc[w] = "save"
    /\ \/ Works /\ meta' = done /\ UNCHANGED <<status, clock>>
       \/ Fails /\ FailJob(w) /\ UNCHANGED meta
    /\ Goto(w, "scan")
    /\ UNCHANGED <<gen, live, done, inflight, errs, retries, backoff, strikes>>
    /\ UNCHANGED <<phase, started, closed, ctl, op, part, queue, files>>

\* retryAfter passes.
Wake ==
    /\ backoff
    /\ backoff' = FALSE
    /\ UNCHANGED <<status, gen, live, done, inflight, errs, retries, strikes>>
    /\ UNCHANGED <<puller, pool, disk, used>>

\* The pool's loop ends when the Puller is closed.
Exit_Drained(w) ==  \* faulty: only when there is no work left
    /\ closed /\ pc[w] = "idle" /\ status \notin Running
    /\ Goto(w, "exited")
    /\ UNCHANGED <<puller, job, disk, used>>
Exit(w) ==
    /\ closed /\ pc[w] = "idle"
    /\ Goto(w, "exited")
    /\ UNCHANGED <<puller, job, disk, used>>

(***************************************************************************)
(* The workers: finalizeReady and finalize                                  *)
(***************************************************************************)
Ready == status = "verifying" /\ inflight = {}

\* finalizeReady, after a chunk or when there was nothing to pick.
Claim(w) ==
    /\ started
    /\ pc[w] = "scan" \/ (pc[w] = "idle" /\ ~ closed)
    /\ Ready
    /\ status' = "finalizing"
    /\ pc' = [pc EXCEPT ![w] = "claimed"]
    /\ work' = [work EXCEPT ![w] = [gen |-> gen, idx |-> None]]
    /\ UNCHANGED <<gen, live, done, inflight, errs, retries, backoff, strikes>>
    /\ UNCHANGED <<puller, disk, used>>

Rest(w) ==
    /\ pc[w] = "scan" /\ ~ Ready
    /\ Goto(w, "idle")
    /\ UNCHANGED <<puller, job, disk, used>>

\* work.ctx, captured with the generation.
Canceled(w) == ~ Mine(w) \/ ~ live \/ closed

\* ioMu is taken and the part file is digested.  A mismatch fails the job and
\* forgets its marks.
FinDigest(w) ==
    /\ pc[w] = "claimed" /\ IoFree
    /\ IF part = None \/ Canceled(w)
       THEN Goto(w, "fin_fail") /\ UNCHANGED <<status, clock, done>>
       ELSE IF part # Chunk
       THEN /\ FailJob(w)
            /\ done' = IF Failable(w) THEN {} ELSE done
            /\ Goto(w, "fin_metafix")
       ELSE Goto(w, "fin_commit") /\ UNCHANGED <<status, clock, done>>
    /\ UNCHANGED <<gen, live, inflight, errs, retries, backoff, strikes>>
    /\ UNCHANGED <<phase, started, closed, ctl, op, disk, used>>

FinMetafix(w) ==
    /\ pc[w] = "fin_metafix"
    /\ \/ Works /\ meta' = done
       \/ Fails /\ UNCHANGED meta
    /\ Goto(w, "fin_fail")
    /\ UNCHANGED <<puller, job, part, queue, files>>

\* commitFile under the storage lock and Puller.mu.  A clean may have removed
\* the part file.
MayCommit_AnyGeneration(w) == ~ Halted /\ ~ closed  \* faulty: no look at the generation
MayCommit(w) == ~ Halted /\ ~ Canceled(w)
FinCommit(w) ==
    /\ pc[w] = "fin_commit"
    /\ IF ~ MayCommit(w) \/ part = None
       THEN Goto(w, "fin_fail") /\ UNCHANGED <<part, files, used>>
       ELSE \/ /\ Works
               /\ files' = Append(files, part) /\ part' = None
               /\ Goto(w, "fin_done")
            \/ Fails /\ UNCHANGED <<part, files>> /\ Goto(w, "fin_fail")
    /\ UNCHANGED <<puller, job, meta, queue>>

FinDone(w) ==
    /\ pc[w] = "fin_done"
    /\ status' = IF Mine(w) /\ ~ Halted THEN "done" ELSE status
    /\ UpdateClock
    /\ Goto(w, IF status' = "done" THEN "fin_clean" ELSE "fin_save")
    /\ UNCHANGED <<gen, live, done, inflight, errs, retries, backoff, strikes>>
    /\ UNCHANGED <<phase, started, closed, ctl, op, disk, used>>

FinClean(w) ==
    /\ pc[w] = "fin_clean"
    /\ part' = None /\ meta' = None
    /\ Goto(w, "fin_save")
    /\ UNCHANGED <<puller, job, queue, files, used>>

FinFail(w) ==
    /\ pc[w] = "fin_fail"
    /\ FailJob(w)
    /\ Goto(w, "fin_save")
    /\ UNCHANGED <<gen, live, done, inflight, errs, retries, backoff, strikes>>
    /\ UNCHANGED <<phase, started, closed, ctl, op, disk, used>>

\* saveJobs, whose error is ignored, then ioMu is given back.
FinSave(w) ==
    /\ pc[w] = "fin_save"
    /\ \/ Works /\ SaveJobs
       \/ Fails /\ UNCHANGED queue
    /\ Goto(w, "idle")
    /\ UNCHANGED <<puller, job, part, meta, files>>

(***************************************************************************)
(* The user: control and cleanOwned                                         *)
(***************************************************************************)
\* /api/pause, /api/resume, /api/cancel reach every Puller of App.pullers.
Controllable ==
    /\ phase # "down" /\ ~ ctl
    /\ phase = "fresh" => "control_before_restore" \in Races

\* Control before there is a job: only the queue is saved.
ControlNothing ==
    /\ Controllable /\ status = "none"
    /\ ctl' = TRUE
    /\ UNCHANGED <<phase, started, closed, clock, op, job, pool, disk, used>>

Stop(s) ==
    /\ Controllable /\ Event
    /\ status \notin {"none", "done"}
    /\ live' = FALSE
    /\ status' = IF s = "paused" /\ status = "canceled" THEN "canceled" ELSE s
    /\ UpdateClock /\ ctl' = TRUE
    /\ UNCHANGED <<gen, done, inflight, errs, retries, backoff, strikes>>
    /\ UNCHANGED <<phase, started, closed, op, pool, disk>>
Pause == Stop("paused")
Cancel == Stop("canceled")

\* A part file that is gone takes the marks with it.
Kept == IF part = None THEN {} ELSE done
RetriesAfterResume_Kept == retries  \* faulty: a resumed job has no fresh retries
RetriesAfterResume == 0
Resume ==
    /\ Controllable /\ gen < MaxGen
    /\ status \in {"paused", "error", "canceled"}
    /\ status = "canceled" => op \notin {"barrier", "build"}
    /\ gen' = gen + 1 /\ live' = TRUE /\ inflight' = {}
    /\ errs' = 0 /\ retries' = RetriesAfterResume /\ backoff' = FALSE /\ strikes' = 0
    /\ done' = Kept
    /\ part' = IF part = None THEN {} ELSE part
    /\ status' = IF done' = Chunk THEN "verifying" ELSE "pending"
    /\ UpdateClock /\ ctl' = TRUE
    /\ UNCHANGED <<phase, started, closed, op, pool, meta, queue, files, used>>

ControlSave ==
    /\ ctl
    /\ \/ Works /\ SaveJobs
       \/ Fails /\ UNCHANGED queue
    /\ ctl' = FALSE
    /\ UNCHANGED <<phase, started, closed, clock, op, job, pool, part, meta, files>>

\* cleanOwned: which files are kept is decided before any is removed.
Clean ==
    /\ phase # "down" /\ op = "idle" /\ ~ Busy /\ Event
    /\ op' = "clean"
    /\ UNCHANGED <<phase, started, closed, clock, ctl, job, pool, disk>>
CleanRemove ==
    /\ op = "clean"
    /\ part' \in {part, None} /\ meta' \in {meta, None}
    /\ op' = "idle"
    /\ UNCHANGED <<phase, started, closed, clock, ctl, job, pool, queue, files, used>>

(***************************************************************************)
(* The specification                                                       *)
(***************************************************************************)
Opener == Restore \/ OpenBarrier \/ OpenBuild \/ OpenRefused \/ OpenSave \/ CleanRemove
Fetch(w) == Pick(w) \/ Arrive(w) \/ Write(w) \/ Mark(w) \/ Broken(w) \/ Save(w)
                    \/ Exit(w)
Finalize(w) ==
    \/ Claim(w) \/ Rest(w) \/ FinDigest(w) \/ FinMetafix(w) \/ FinCommit(w)
    \/ FinDone(w) \/ FinClean(w) \/ FinFail(w) \/ FinSave(w)
User == Acquire \/ Reconnect \/ Close \/ Open \/ ControlNothing \/ Pause \/ Cancel
        \/ Resume \/ Clean

Next ==
    \/ Crash \/ User \/ ControlSave \/ Opener \/ Wake
    \/ \E w \in Workers : Fetch(w) \/ Finalize(w)

Spec == Init /\ [][Next]_vars

\* Goroutines that can run do run, and time passes.  Requests of the user,
\* crashes and failures are not assumed to happen.
Fairness ==
    /\ WF_vars(Opener) /\ WF_vars(Wake)
    /\ \A w \in Workers : WF_vars(Fetch(w)) /\ WF_vars(Finalize(w))
FairSpec == Spec /\ Fairness

(***************************************************************************)
(* Properties                                                              *)
(***************************************************************************)
PullerTypeOK ==
    /\ phase \in {"down", "fresh", "restoring", "up"}
    /\ started \in BOOLEAN /\ closed \in BOOLEAN /\ clock \in BOOLEAN
    /\ ctl \in BOOLEAN
    /\ op \in {"idle", "barrier", "build", "save", "clean"}
JobTypeOK ==
    /\ status \in Status /\ gen \in Nat /\ live \in BOOLEAN
    /\ done \subseteq Chunk /\ inflight \subseteq Chunk
    /\ errs \in Nat /\ retries \in Nat /\ backoff \in BOOLEAN /\ strikes \in Nat
PoolTypeOK ==
    /\ pc \in [Workers -> Pc]
    /\ work \in [Workers -> [gen : Nat, idx : Chunk \cup {None}]]
    /\ \A w \in Workers :
          pc[w] \in {"fetch", "write", "mark", "broken"} => work[w].idx \in Chunk
DiskTypeOK ==
    /\ part \in Stored /\ meta \in Stored
    /\ queue \in BOOLEAN /\ files \in Seq(SUBSET Chunk)
TypeOK ==
    /\ PullerTypeOK /\ JobTypeOK /\ PoolTypeOK /\ DiskTypeOK
    /\ used \in Nat

\* What is marked in flight is exactly what workers of this generation are
\* fetching, each chunk by one of them: a chunk that stays marked without a
\* worker would never be fetched again and would keep finalizeReady (642)
\* waiting for ever; one that is not marked would be fetched twice.
Fetching(w) == pc[w] \in {"fetch", "write", "mark", "broken"} /\ Mine(w)
InflightOwned ==
    /\ \A w \in Workers : Fetching(w) => work[w].idx \in inflight
    /\ \A c \in inflight : \E w \in Workers : Fetching(w) /\ work[w].idx = c
    /\ \A v, w \in Workers :
          Fetching(v) /\ Fetching(w) /\ work[v].idx = work[w].idx => v = w

\* A job being finalized has one finalizer of its generation, and no worker
\* fetches or writes a chunk for it meanwhile (receiver.go:641-654).
Finalizing(w) ==
    Mine(w) /\ pc[w] \in {"claimed", "fin_metafix", "fin_commit", "fin_done", "fin_fail"}
FinalizeOwns ==
    /\ status = "finalizing" => \A w \in Workers : ~ Fetching(w)
    /\ \A v, w \in Workers : Finalizing(v) /\ Finalizing(w) => v = w

\* The clock of the progress report runs exactly while a job does, although
\* pick and finalizeReady change the status without updateClock
\* (receiver.go:1070-1084).
ClockRuns == clock <=> status \in Running

\* Only a complete file, every chunk as the manifest says, is published,
\* whatever cleans, cancels, resumes and restarts did to the part file
\* (receiver.go:660-692).
PublishedVerified == [][files' # files => files' = Append(files, Chunk)]_files

\* The queue file forgets a job only when it is done or canceled, over any
\* order of saves and restarts (receiver.go:889-958).
QueueNeverForgets == [][queue /\ ~ queue' => status \in Settled]_queue

\* A job is given up for failing chunks only after maxRetries + 1 rounds of
\* chunkMaxErrs failures, counted from the last open or resume
\* (receiver.go:593-602).
GivesUp == \E w \in Workers : pc[w] = "broken" /\ pc'[w] = "scan"
GivesUpLate ==
    [][GivesUp /\ status # "error" /\ status' = "error" => strikes' = Limit]_vars

\* Fetching ends: the job is finished, has failed, or was stopped by the user,
\* unless the process ends first.
Stopped == status \in {"done", "error", "paused", "canceled"} \/ closed \/ phase = "down"
FetchEnds == status \in Running ~> Stopped

\* Puller.Close returns: every worker leaves its loop (receiver.go:166-175, 546-553).
CloseReturns ==
    closed ~> (phase = "down" \/ \A w \in Workers : pc[w] = "exited")
=============================================================================
