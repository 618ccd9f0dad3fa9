--------------------------- MODULE UploadReceiver ---------------------------
(***************************************************************************)
(* The receiving half of a push upload: one passive Puller (receiver.go)    *)
(* driven by the upload protocol handlers (upload_server.go,                *)
(* upload_stream.go), seen through ONE relative path.                        *)
(*                                                                         *)
(* Concurrency.  Every HTTP handler, every pool worker and the user's UI    *)
(* requests are goroutines.  Puller.mu guards short sections of memory, so   *)
(* each such section is one step.  FileJob.ioMu is held across file I/O:     *)
(* its holder is the program counter pc[j], and every write made while it    *)
(* is held is a step of its own.  queueMu serialises addRecordsMode and      *)
(* cleanOwned: its holder is the program counter op.                         *)
(*                                                                         *)
(* Data.  SHA-256 is taken to be collision free: the digest of a chunk IS    *)
(* the chunk's body and the digest of a file IS its content.                 *)
(***************************************************************************)
EXTENDS Naturals, Sequences, FiniteSets

CONSTANTS
    Jobs,           \* FileJob objects (heap cells; reused once unreachable)
    NChunks,        \* chunks of the file, 0 for an empty one
    Body,           \* what one chunk may contain
    Contents,       \* whole-file contents that sources may send
    Ident,          \* (size, mtime) pairs naming a streaming version
    Offers,         \* manifests that senders may submit
    Policy,         \* same-name policy of the receiver
    Occupied,       \* does a file of that name exist before the upload?
    Foreign,        \* the content of such a file
    None,           \* "absent": no job, no digest, no file, a hole in a file
    WorkerCount,    \* goroutines started by Puller.start
    MaxGen,         \* bound on FileJob.generation and restarts together
    MaxFiles,       \* bound on files of this name before a new job is opened
    MaxCrashes,     \* bound on process restarts
    MaxFaults,      \* bound on failing file operations
    Races           \* overlaps of user requests with open that may happen

Chunk == 0 .. NChunks - 1
Content == [Chunk -> Body]
\* A legacy manifest names the digest of the file in advance, a streaming one
\* may leave it to the finish request.
Manifest == {m \in [streaming : BOOLEAN, ident : Ident, sha : Content \cup {None}] :
                m.streaming \/ m.sha # None}
Policies == {"rename", "overwrite", "skip"}
Overlaps == {"resume_in_queue", "resume_in_clean", "control_before_restore",
             "clean_in_chunk", "finish_in_restore"}

ASSUME JobsAssumption == None \notin Jobs
ASSUME SizeAssumption == NChunks \in Nat
ASSUME BodyAssumption ==
    None \notin Body /\ None \notin [Chunk -> Body \cup {None, Foreign}]
ASSUME ForeignAssumption == Foreign \notin Body \cup {None}
ASSUME ContentsAssumption == Contents \subseteq Content
ASSUME OffersAssumption ==
    Offers \subseteq Manifest /\ None \notin Manifest /\ Ident # {}
ASSUME PolicyAssumption == Policy \in Policies /\ Occupied \in BOOLEAN
ASSUME BoundsAssumption ==
    /\ WorkerCount \in Nat \ {0} /\ MaxGen \in Nat /\ MaxFiles \in Nat
    /\ MaxCrashes \in Nat /\ MaxFaults \in Nat
ASSUME RacesAssumption == Races \subseteq Overlaps

VARIABLES
    \* memory: the Puller
    phase,      \* "down", "fresh" (in App.pullers), "restoring", "stale", "up"
    started,    \* startOnce done: the worker pool runs
    cur,        \* puller.jobs[path], or None
    ready,      \* chunkWork captured by finalizeReady, ioMu not yet taken
    queued,     \* legacy start past its alreadyDone check, or None
    ctl,        \* a control request has still to call saveJobs
    \* memory: the FileJob objects
    man, sha, done, cursor, status, gen,
    live,       \* ctx.Err() == nil
    pc, hold,   \* who holds ioMu, and its local variables
    \* memory: addRecordsMode or cleanOwned, the holder of queueMu
    op, opMan, opPrev, opGen, opDone, opLoaded, opOk, keep,
    \* history: the present job was resumed while a clean removed its files
    swept,
    \* disk: the cache directory and the destination
    part, meta, jobsFile, files,
    \* bounds
    crashes, faults

puller == <<phase, started, cur, ready, queued, ctl>>
object == <<man, sha, done, cursor, status, gen, live>>
io     == <<pc, hold>>
opener == <<op, opMan, opPrev, opGen, opDone, opLoaded, opOk, keep, swept>>
disk   == <<part, meta, jobsFile, files>>
budget == <<crashes, faults>>
vars   == <<puller, object, io, opener, disk, budget>>

(***************************************************************************)
(* Values                                                                  *)
(***************************************************************************)
Mark   == Body \cup {None, Foreign}         \* hash of an accepted chunk
Marks  == [Chunk -> Mark]
Bytes  == [Chunk -> Body \cup {None}]       \* a part file, None is a hole
Key    == Ident \cup Content                \* names of part and meta files
Status == {"pending", "active", "verifying", "finalizing", "done", "error",
           "paused", "canceled"}
Work   == [job : Jobs, gen : Nat]
Local  == [gen : Nat, idx : Chunk \cup {None}, body : Body \cup {None}]

ChunkPc  == {"chunk_write", "chunk_mark", "chunk_broken", "chunk_meta"}
FinishPc == {"finish_meta", "finish_jobs", "finish_seal"}
FinPc    == {"fin_digest", "fin_mismatch", "fin_metafix", "fin_commit",
             "fin_done", "fin_cleanup", "fin_fail", "fin_save"}
IoPc     == {"free", "io_fail"} \cup ChunkPc \cup FinishPc \cup FinPc
OpPc     == {"idle", "cancel", "barrier", "load", "create", "install", "save",
             "clean"}

NoMarks == [c \in Chunk |-> None]
Holes   == [c \in Chunk |-> None]
NoHold  == [gen |-> 0, idx |-> None, body |-> None]
Blank   == CHOOSE m \in Manifest : m.streaming /\ m.sha = None

Full(marks) == \A c \in Chunk : marks[c] # None
Settled     == {"done", "canceled"}         \* what the queue may forget

\* The part and meta names: sha256("stream\n" path size mtime), or
\* sha256(path "\n" sha256) for the legacy protocol.
KeyOf(m) == IF m.streaming THEN m.ident ELSE m.sha
PartOf(j) == KeyOf(man[j])

(***************************************************************************)
(* Initial state, process start and process death                          *)
(***************************************************************************)
NoMemory ==
    /\ phase = "down" /\ started = FALSE /\ cur = None
    /\ ready = {} /\ queued = None /\ ctl = FALSE
    /\ man = [j \in Jobs |-> Blank]
    /\ sha = [j \in Jobs |-> None]
    /\ done = [j \in Jobs |-> NoMarks]
    /\ cursor = [j \in Jobs |-> 0]
    /\ status = [j \in Jobs |-> "canceled"]
    /\ gen = [j \in Jobs |-> 0]
    /\ live = [j \in Jobs |-> FALSE]
    /\ pc = [j \in Jobs |-> "free"]
    /\ hold = [j \in Jobs |-> NoHold]
    /\ op = "idle" /\ opMan = Blank /\ opPrev = None /\ opGen = 0
    /\ opDone = NoMarks /\ opLoaded = FALSE /\ opOk = FALSE /\ keep = {}
    /\ swept = FALSE

Init ==
    /\ NoMemory
    /\ part = [k \in Key |-> None]
    /\ meta = [k \in Key |-> None]
    /\ jobsFile = None
    /\ files = IF Occupied THEN <<Foreign>> ELSE <<>>
    /\ crashes = 0 /\ faults = 0

\* The process dies and starts again.
Crash ==
    /\ phase # "down" /\ crashes < MaxCrashes
    /\ crashes' = crashes + 1
    /\ phase' = "down" /\ started' = FALSE /\ cur' = None
    /\ ready' = {} /\ queued' = None /\ ctl' = FALSE
    /\ man' = [j \in Jobs |-> Blank]
    /\ sha' = [j \in Jobs |-> None]
    /\ done' = [j \in Jobs |-> NoMarks]
    /\ cursor' = [j \in Jobs |-> 0]
    /\ status' = [j \in Jobs |-> "canceled"]
    /\ gen' = [j \in Jobs |-> 0]
    /\ live' = [j \in Jobs |-> FALSE]
    /\ pc' = [j \in Jobs |-> "free"]
    /\ hold' = [j \in Jobs |-> NoHold]
    /\ op' = "idle" /\ opMan' = Blank /\ opPrev' = None /\ opGen' = 0
    /\ opDone' = NoMarks /\ opLoaded' = FALSE /\ opOk' = FALSE /\ keep' = {}
    /\ swept' = FALSE
    /\ UNCHANGED <<disk, faults>>

\* acquirePuller puts the new Puller into App.pullers, where every other
\* handler finds it, before the caller reaches restoreOnce.
Acquire ==
    /\ phase = "down"
    /\ phase' = "fresh"
    /\ UNCHANGED <<started, cur, ready, queued, ctl, object, io, opener, disk,
                   budget>>

(***************************************************************************)
(* Pieces shared by several handlers                                       *)
(***************************************************************************)
\* A file operation of this step fails, or none does.
Fails == faults < MaxFaults /\ faults' = faults + 1
Works == UNCHANGED faults

\* Puller.fail without and with a new status: ignored for another generation
\* and for a job that is finished, paused or canceled.
Failable_NotFinalizing(j, g) ==  \* faulty: leaves a job in finalizing
    gen[j] = g /\ status[j] \notin {"done", "canceled", "paused", "finalizing"}
Failable(j, g) == gen[j] = g /\ status[j] \notin {"done", "canceled", "paused"}
FailStatus(j, g) ==
    status' = IF Failable(j, g) THEN [status EXCEPT ![j] = "error"] ELSE status

\* What saveJobs writes: the queue without its settled jobs.
SavedJobs_OfferedDigest ==  \* faulty: writes the digest of the manifest as offered
    IF cur = None \/ status[cur] \in Settled THEN None ELSE man[cur]
SavedJobs_Untagged ==  \* faulty: the record loses Streaming
    IF cur = None \/ status[cur] \in Settled THEN None
    ELSE [man[cur] EXCEPT !.sha = sha[cur], !.streaming = FALSE]
SavedJobs ==
    IF cur = None \/ status[cur] \in Settled THEN None
    ELSE [man[cur] EXCEPT !.sha = sha[cur]]
SaveJobs_InRestore == jobsFile' = SavedJobs  \* faulty: not suppressed by restoring
SaveJobs == jobsFile' = IF phase = "restoring" THEN jobsFile ELSE SavedJobs

Release(j) == pc' = [pc EXCEPT ![j] = "free"] /\ hold' = [hold EXCEPT ![j] = NoHold]
Goto(j, label) == pc' = [pc EXCEPT ![j] = label] /\ UNCHANGED hold

\* A handler that lost its context or its generation.
Superseded_ByGeneration(j) == gen[j] # hold[j].gen  \* faulty: no look at ctx
Superseded(j) == gen[j] # hold[j].gen \/ ~ live[j]

(***************************************************************************)
(* addRecordsMode: open, the legacy start, and restoreJobs                  *)
(***************************************************************************)
\* The end of addRecordsMode.  A handler whose open succeeded calls
\* puller.start; restoreJobs only leaves restoreOnce for cleanStale.
EndOpen(ok) ==
    /\ op' = "idle" /\ opMan' = Blank /\ opPrev' = None /\ opGen' = 0
    /\ opDone' = NoMarks /\ opLoaded' = FALSE /\ opOk' = FALSE
    /\ IF phase = "restoring"
       THEN phase' = "stale" /\ UNCHANGED started
       ELSE started' = (started \/ ok) /\ UNCHANGED phase

Advance(label) == op' = label /\ UNCHANGED <<opMan, opPrev, opGen, opDone, opLoaded, opOk>>

\* The job of this path already serves manifest m, or another one.
Conflict(m) ==
    IF m.streaming
    THEN man[cur].ident # m.ident \/ (m.sha # None /\ sha[cur] # m.sha)
    ELSE man[cur].streaming \/ sha[cur] # m.sha
Busy_NotPaused(m) ==  \* faulty: a paused job may be replaced
    \/ status[cur] \notin Settled \cup {"paused"}
    \/ m.streaming /\ status[cur] = "done" /\ ~ Conflict(m)
Busy(m) ==
    \/ status[cur] \notin Settled
    \/ m.streaming /\ status[cur] = "done" /\ ~ Conflict(m)

\* queueMu is taken; one look at puller.jobs decides between reusing the job,
\* refusing the manifest, and building a new job.
BeginOpen(m) ==
    LET prev == cur
        g == IF m.streaming /\ prev # None THEN gen[prev] + 1 ELSE 0
    IN /\ op = "idle"
       /\ IF prev # None /\ Busy(m)
          THEN IF m.streaming
               THEN /\ op' = "save" /\ opOk' = ~ Conflict(m)
                    /\ UNCHANGED <<opMan, opPrev, opGen, opDone, opLoaded, phase,
                                   started>>
               ELSE EndOpen(~ Conflict(m))
          ELSE /\ g + crashes <= MaxGen /\ Len(files) < MaxFiles
               /\ op' = IF prev = None THEN "load" ELSE "cancel"
               /\ opMan' = m /\ opPrev' = prev /\ opGen' = g
               /\ UNCHANGED <<opDone, opLoaded, opOk, phase, started>>

\* /api/upload/open of a sender.
Open(m) ==
    /\ phase = "up" /\ m.streaming
    /\ BeginOpen(m)
    /\ UNCHANGED <<cur, ready, queued, ctl, object, io, keep, swept, disk, budget>>

\* /api/upload/start: alreadyDone is decided before queueMu is requested ...
Start(m) ==
    /\ phase = "up" /\ ~ m.streaming /\ queued = None
    /\ IF /\ cur # None /\ ~ man[cur].streaming
          /\ status[cur] = "done" /\ sha[cur] = m.sha
       THEN started' = TRUE /\ UNCHANGED queued
       ELSE queued' = m /\ UNCHANGED started
    /\ UNCHANGED <<phase, cur, ready, ctl, object, io, opener, disk, budget>>

\* ... and addRecords runs when the start request gets it.
StartQueued ==
    /\ queued # None
    /\ BeginOpen(queued)
    /\ queued' = None
    /\ UNCHANGED <<cur, ready, ctl, object, io, keep, swept, disk, budget>>

\* restoreOnce: restoreJobs re-adds the saved job with saving suppressed, or
\* finds nothing to add and goes on to cleanStale, which needs queueMu too.
Restore ==
    /\ phase = "fresh" /\ op = "idle"
    /\ IF jobsFile = None
       THEN /\ phase' = "stale"
            /\ UNCHANGED <<op, opMan, opPrev, opGen, opDone, opLoaded, opOk>>
       ELSE /\ phase' = "restoring" /\ op' = "load" /\ opMan' = jobsFile
            /\ UNCHANGED <<opPrev, opGen, opDone, opLoaded, opOk>>
    /\ UNCHANGED <<started, cur, ready, queued, ctl, object, io, keep, swept, disk,
                   budget>>

\* previous.cancel()
OpenCancel ==
    /\ op = "cancel"
    /\ live' = [live EXCEPT ![opPrev] = FALSE]
    /\ Advance("barrier")
    /\ UNCHANGED <<man, sha, done, cursor, status, gen>>
    /\ UNCHANGED <<puller, io, keep, swept, disk, budget>>

\* previous.ioMu.Lock(); previous.ioMu.Unlock()
BarrierOpen_Absent == TRUE  \* faulty: the barrier is missing
BarrierOpen == pc[opPrev] = "free"
OpenBarrier ==
    /\ op = "barrier" /\ BarrierOpen
    /\ Advance("load")
    /\ UNCHANGED <<puller, object, io, keep, swept, disk, budget>>

\* A heap cell that nothing refers to any more.
Spare(j) == j # cur /\ pc[j] = "free" /\ \A w \in ready : w.job # j

\* puller.jobs[path] = &FileJob{...}
Install(j, s, marks, g) ==
    /\ Spare(j)
    /\ cur' = j
    /\ man' = [man EXCEPT ![j] = opMan]
    /\ sha' = [sha EXCEPT ![j] = opMan.sha]
    /\ done' = [done EXCEPT ![j] = marks]
    /\ cursor' = [cursor EXCEPT ![j] = 0]
    /\ status' = [status EXCEPT ![j] = s]
    /\ gen' = [gen EXCEPT ![j] = g]
    /\ swept' = FALSE

\* skip: the existing file wins, the sender is told the upload is done.
OpenSkip(j) ==
    /\ op = "load" /\ Policy = "skip" /\ files # <<>>
    /\ Install(j, "done", [c \in Chunk |-> Foreign], 0)
    /\ live' = [live EXCEPT ![j] = TRUE]
    /\ IF opMan.streaming
       THEN /\ op' = "save" /\ opOk' = TRUE
            /\ UNCHANGED <<opMan, opPrev, opGen, opDone, opLoaded, phase, started>>
       ELSE EndOpen(TRUE)
    /\ UNCHANGED <<ready, queued, ctl, io, keep, disk, budget>>

\* loadMeta: a chunk counts only if the part file still holds what the
\* metadata recorded for it.
OpenLoad ==
    LET k == KeyOf(opMan)
    IN /\ op = "load" /\ (Policy = "skip" => files = <<>>)
       /\ opLoaded' = (part[k] # None /\ meta[k] # None)
       /\ opDone' = IF part[k] # None /\ meta[k] # None
                    THEN [c \in Chunk |-> IF meta[k][c] = part[k][c]
                                          THEN meta[k][c] ELSE None]
                    ELSE NoMarks
       /\ op' = "create"
       /\ UNCHANGED <<opMan, opPrev, opGen, opOk>>
       /\ UNCHANGED <<puller, object, io, keep, swept, disk, budget>>

\* The part file as opening it with the flags of addRecordsMode leaves it.
Created_Always(k) == Holes  \* faulty: truncates whatever was loaded
Created(k) == IF opLoaded /\ part[k] # None THEN part[k] ELSE Holes

OpenCreate ==
    LET k == KeyOf(opMan)
    IN /\ op = "create"
       /\ part' = [part EXCEPT ![k] = Created(k)]
       /\ Advance("install")
       /\ Works
       /\ UNCHANGED <<meta, jobsFile, files, crashes>>
       /\ UNCHANGED <<puller, object, io, keep, swept>>

\* No space (nothing touched), or the part file cannot be opened or sized
\* (it may have been truncated): the manifest is refused, the job that was
\* there before stays.
OpenRefused ==
    /\ op = "create"
    /\ Fails
    /\ \/ UNCHANGED part
       \/ part' = [part EXCEPT ![KeyOf(opMan)] = Created(KeyOf(opMan))]
    /\ IF opMan.streaming
       THEN /\ op' = "save" /\ opOk' = FALSE
            /\ UNCHANGED <<opMan, opPrev, opGen, opDone, opLoaded, phase, started>>
       ELSE EndOpen(FALSE)
    /\ UNCHANGED <<meta, jobsFile, files, crashes>>
    /\ UNCHANGED <<cur, ready, queued, ctl, object, io, keep, swept>>

\* previous.cancel() again, then the new job replaces it.
OpenInstall(j) ==
    /\ op = "install"
    /\ Install(j, IF Full(opDone) /\ opMan.sha # None THEN "verifying" ELSE "pending",
               opDone, opGen)
    /\ live' = [i \in Jobs |-> i = j \/ (live[i] /\ i # opPrev)]
    /\ op' = "save" /\ opOk' = TRUE
    /\ UNCHANGED <<opMan, opPrev, opGen, opDone, opLoaded>>
    /\ UNCHANGED <<phase, started, ready, queued, ctl, io, keep, disk, budget>>

\* The saveJobs that ends addRecordsMode; its error refuses the request.
OpenSave ==
    /\ op = "save"
    /\ \/ Works /\ SaveJobs /\ EndOpen(opOk)
       \/ Fails /\ UNCHANGED jobsFile /\ EndOpen(FALSE)
    /\ UNCHANGED <<part, meta, files, crashes>>
    /\ UNCHANGED <<cur, ready, queued, ctl, object, io, keep, swept>>

(***************************************************************************)
(* acceptChunk                                                             *)
(***************************************************************************)
\* The statuses in which chunks, and the digest of the whole, are taken.
Unsealed_WithError == {"pending", "active", "error"}  \* faulty: takes error too
Unsealed == {"pending", "active"}

\* The digest of a chunk must be the manifest's (legacy), or the one already
\* recorded for it (a chunk sent again).  Sending the same body again is
\* answered 200 and changes nothing.
AcceptChunk(g, c, b) ==
    /\ cur # None /\ pc[cur] = "free"
    /\ g = gen[cur] /\ live[cur] /\ status[cur] \in Unsealed
    /\ ~ man[cur].streaming => b = sha[cur][c]
    /\ done[cur][c] = None
    /\ status' = [status EXCEPT ![cur] = "active"]
    /\ pc' = [pc EXCEPT ![cur] = "chunk_write"]
    /\ hold' = [hold EXCEPT ![cur] = [gen |-> g, idx |-> c, body |-> b]]
    /\ UNCHANGED <<man, sha, done, cursor, gen, live>>
    /\ UNCHANGED <<puller, opener, disk, budget>>

\* writeChunk creates a missing part file.
ChunkWrite(j) ==
    LET k == PartOf(j)
        old == IF part[k] = None THEN Holes ELSE part[k]
    IN /\ pc[j] = "chunk_write"
       /\ \/ /\ Works
             /\ part' = [part EXCEPT ![k] = [old EXCEPT ![hold[j].idx] = hold[j].body]]
             /\ Goto(j, "chunk_mark")
          \/ Fails /\ UNCHANGED part /\ Goto(j, "chunk_broken")
       /\ UNCHANGED <<meta, jobsFile, files, crashes>>
       /\ UNCHANGED <<puller, object, opener>>

\* Is the job still the one this request was for?  If not, 409.
Stale(j) == cur # j \/ Superseded(j)
Abandon_KeepsLock(j) == UNCHANGED io  \* faulty: returns without unlocking ioMu
Abandon(j) == Release(j)

ChunkMark(j) ==
    LET marks == [done[j] EXCEPT ![hold[j].idx] = hold[j].body]
    IN /\ pc[j] = "chunk_mark"
       /\ IF Stale(j)
          THEN Abandon(j) /\ UNCHANGED <<done, status>>
          ELSE /\ done' = [done EXCEPT ![j] = marks]
               /\ status' = IF Full(marks) /\ sha[j] # None
                            THEN [status EXCEPT ![j] = "verifying"] ELSE status
               /\ Goto(j, "chunk_meta")
       /\ UNCHANGED <<man, sha, cursor, gen, live>>
       /\ UNCHANGED <<puller, opener, disk, budget>>

\* The write failed: 409 if the job is stale, 500 and Puller.fail if not.
ChunkBroken(j) ==
    /\ pc[j] = "chunk_broken"
    /\ IF Stale(j) THEN Abandon(j) ELSE Goto(j, "io_fail")
    /\ UNCHANGED <<puller, object, opener, disk, budget>>

ChunkMeta(j) ==
    /\ pc[j] = "chunk_meta"
    /\ \/ /\ Works
          /\ meta' = [meta EXCEPT ![PartOf(j)] = done[j]]
          /\ Release(j)
       \/ Fails /\ UNCHANGED meta /\ Goto(j, "io_fail")
    /\ UNCHANGED <<part, jobsFile, files, crashes>>
    /\ UNCHANGED <<puller, object, opener>>

\* p.fail(job, generation, err, false), then the handler returns 500.
IoFail(j) ==
    /\ pc[j] = "io_fail"
    /\ FailStatus(j, hold[j].gen)
    /\ Release(j)
    /\ UNCHANGED <<man, sha, done, cursor, gen, live>>
    /\ UNCHANGED <<puller, opener, disk, budget>>

(***************************************************************************)
(* finishUpload                                                            *)
(***************************************************************************)
Finish(g, s) ==
    /\ cur # None /\ pc[cur] = "free"
    /\ g = gen[cur] /\ live[cur] /\ status[cur] \in Unsealed
    /\ Full(done[cur]) /\ sha[cur] \in {None, s}
    /\ phase = "restoring" => "finish_in_restore" \in Races
    /\ sha' = [sha EXCEPT ![cur] = s]
    /\ pc' = [pc EXCEPT ![cur] = "finish_meta"]
    /\ hold' = [hold EXCEPT ![cur] = [NoHold EXCEPT !.gen = g]]
    /\ UNCHANGED <<man, done, cursor, status, gen, live>>
    /\ UNCHANGED <<puller, opener, disk, budget>>

FinishMeta(j) ==
    /\ pc[j] = "finish_meta"
    /\ \/ /\ Works
          /\ meta' = [meta EXCEPT ![PartOf(j)] = done[j]]
          /\ Goto(j, "finish_jobs")
       \/ Fails /\ UNCHANGED meta /\ Goto(j, "io_fail")
    /\ UNCHANGED <<part, jobsFile, files, crashes>>
    /\ UNCHANGED <<puller, object, opener>>

FinishJobs(j) ==
    /\ pc[j] = "finish_jobs"
    /\ \/ Works /\ SaveJobs /\ Goto(j, "finish_seal")
       \/ Fails /\ UNCHANGED jobsFile /\ Goto(j, "io_fail")
    /\ UNCHANGED <<part, meta, files, crashes>>
    /\ UNCHANGED <<puller, object, opener>>

\* The status is not looked at again: only the generation and the context.
FinishSeal(j) ==
    /\ pc[j] = "finish_seal"
    /\ status' = IF Superseded(j) THEN status ELSE [status EXCEPT ![j] = "verifying"]
    /\ Release(j)
    /\ UNCHANGED <<man, sha, done, cursor, gen, live>>
    /\ UNCHANGED <<puller, opener, disk, budget>>

\* /api/upload/fail: the sender gave up.  ioMu is not taken.
FailReport(g) ==
    /\ cur # None /\ g = gen[cur]
    /\ Failable(cur, g)
    /\ FailStatus(cur, g)
    /\ UNCHANGED <<man, sha, done, cursor, gen, live>>
    /\ UNCHANGED <<puller, io, opener, disk, budget>>

\* uploadStatus moves uploadCursor over the chunks that are done.
CursorStops_Anywhere(j, n) == n < NChunks => done[j][n] = None  \* faulty: steps over a gap
CursorStops(j, n) ==
    /\ n < NChunks => done[j][n] = None
    /\ \A c \in cursor[j] .. n - 1 : done[j][c] # None
ReportStatus ==
    /\ cur # None /\ status[cur] \in Unsealed
    /\ \E n \in cursor[cur] + 1 .. NChunks :
          /\ CursorStops(cur, n)
          /\ cursor' = [cursor EXCEPT ![cur] = n]
    /\ UNCHANGED <<man, sha, done, status, gen, live>>
    /\ UNCHANGED <<puller, io, opener, disk, budget>>

(***************************************************************************)
(* The worker pool: finalizeReady and finalize                              *)
(***************************************************************************)
FinHolders == {j \in Jobs : pc[j] \in FinPc}

\* A free worker captures a job to finalize; it has no ioMu yet.
FinalizeReady ==
    /\ started /\ cur # None /\ status[cur] = "verifying"
    /\ Cardinality(ready) + Cardinality(FinHolders) < WorkerCount
    /\ status' = [status EXCEPT ![cur] = "finalizing"]
    /\ ready' = ready \cup {[job |-> cur, gen |-> gen[cur]]}
    /\ UNCHANGED <<man, sha, done, cursor, gen, live>>
    /\ UNCHANGED <<phase, started, cur, queued, ctl, io, opener, disk, budget>>

FinalizeLock(w) ==
    /\ w \in ready /\ pc[w.job] = "free"
    /\ ready' = ready \ {w}
    /\ pc' = [pc EXCEPT ![w.job] = "fin_digest"]
    /\ hold' = [hold EXCEPT ![w.job] = [NoHold EXCEPT !.gen = w.gen]]
    /\ UNCHANGED <<phase, started, cur, queued, ctl, object, opener, disk, budget>>

\* fileDigest of the part file under work.ctx.
DigestOK(j) == part[PartOf(j)] = sha[j]
FinDigest(j) ==
    /\ pc[j] = "fin_digest"
    /\ \/ /\ Works
          /\ IF part[PartOf(j)] = None \/ Superseded(j) THEN Goto(j, "fin_fail")
             ELSE IF DigestOK(j) THEN Goto(j, "fin_commit")
             ELSE Goto(j, "fin_mismatch")
       \/ Fails /\ Goto(j, "fin_fail")
    /\ UNCHANGED <<puller, object, opener, disk, crashes>>

\* p.fail(job, generation, err, true): nothing received counts any more.
ResetCursor(j) == [cursor EXCEPT ![j] = 0]
FinMismatch(j) ==
    /\ pc[j] = "fin_mismatch"
    /\ FailStatus(j, hold[j].gen)
    /\ IF Failable(j, hold[j].gen)
       THEN /\ done' = [done EXCEPT ![j] = NoMarks]
            /\ cursor' = ResetCursor(j)
            /\ sha' = IF man[j].streaming THEN [sha EXCEPT ![j] = None] ELSE sha
       ELSE UNCHANGED <<done, cursor, sha>>
    /\ Goto(j, "fin_metafix")
    /\ UNCHANGED <<man, gen, live>>
    /\ UNCHANGED <<puller, opener, disk, budget>>

FinMetaFix(j) ==
    /\ pc[j] = "fin_metafix"
    /\ \/ Works /\ meta' = [meta EXCEPT ![PartOf(j)] = done[j]]
       \/ Fails /\ UNCHANGED meta
    /\ Goto(j, "fin_fail")
    /\ UNCHANGED <<part, jobsFile, files, crashes>>
    /\ UNCHANGED <<puller, object, opener>>

\* commitFile: what the destination holds afterwards, and whether the part
\* file was used up (skip leaves it next to the existing file).
KeepsExisting == Policy = "skip" /\ files # <<>>
Publish(k) ==
    /\ files' = IF KeepsExisting THEN files
                ELSE IF Policy = "overwrite" /\ files # <<>>
                     THEN [files EXCEPT ![1] = part[k]]
                     ELSE Append(files, part[k])
    /\ part' = IF KeepsExisting THEN part ELSE [part EXCEPT ![k] = None]

\* Under storageLock and Puller.mu: the last look at the job, then commitFile.
MayCommit(j) == ~ Superseded(j) /\ status[j] \notin {"canceled", "paused"}
FinCommit(j) ==
    /\ pc[j] = "fin_commit"
    /\ \/ /\ Works
          /\ IF MayCommit(j) /\ (part[PartOf(j)] # None \/ KeepsExisting)
             THEN Publish(PartOf(j)) /\ Goto(j, "fin_done")
             ELSE UNCHANGED <<files, part>> /\ Goto(j, "fin_fail")
       \/ Fails /\ UNCHANGED <<files, part>> /\ Goto(j, "fin_fail")
    /\ UNCHANGED <<meta, jobsFile, crashes>>
    /\ UNCHANGED <<puller, object, opener>>

\* A second section under Puller.mu: a control request may have come between.
FinDone(j) ==
    /\ pc[j] = "fin_done"
    /\ status' = IF gen[j] = hold[j].gen /\ status[j] \notin {"canceled", "paused"}
                 THEN [status EXCEPT ![j] = "done"] ELSE status
    /\ Goto(j, IF status'[j] = "done" THEN "fin_cleanup" ELSE "fin_save")
    /\ UNCHANGED <<man, sha, done, cursor, gen, live>>
    /\ UNCHANGED <<puller, opener, disk, budget>>

FinCleanup(j) ==
    /\ pc[j] = "fin_cleanup"
    /\ part' = [part EXCEPT ![PartOf(j)] = None]
    /\ meta' = [meta EXCEPT ![PartOf(j)] = None]
    /\ Goto(j, "fin_save")
    /\ UNCHANGED <<jobsFile, files>>
    /\ UNCHANGED <<puller, object, opener, budget>>

FinFail(j) ==
    /\ pc[j] = "fin_fail"
    /\ FailStatus(j, hold[j].gen)
    /\ Goto(j, "fin_save")
    /\ UNCHANGED <<man, sha, done, cursor, gen, live>>
    /\ UNCHANGED <<puller, opener, disk, budget>>

\* finalize ignores the error of its saveJobs.
FinSave(j) ==
    /\ pc[j] = "fin_save"
    /\ Release(j)
    /\ \/ Works /\ SaveJobs
       \/ Fails /\ UNCHANGED jobsFile
    /\ UNCHANGED <<part, meta, files, crashes>>
    /\ UNCHANGED <<puller, object, opener>>

(***************************************************************************)
(* control: pause, resume, cancel (the UI, /api/pause, /api/resume, ...)    *)
(***************************************************************************)
\* Before restoreOnce has run, control finds no job, and saves that.
ControlNothing ==
    /\ phase # "down" /\ cur = None
    /\ phase = "fresh" => "control_before_restore" \in Races
    /\ ctl' = TRUE
    /\ UNCHANGED <<phase, started, cur, ready, queued, object, io, opener, disk,
                   budget>>

Pause ==
    /\ cur # None /\ status[cur] # "done"
    /\ live' = [live EXCEPT ![cur] = FALSE]
    /\ status' = IF status[cur] = "canceled" THEN status
                 ELSE [status EXCEPT ![cur] = "paused"]
    /\ ctl' = TRUE
    /\ UNCHANGED <<man, sha, done, cursor, gen>>
    /\ UNCHANGED <<phase, started, cur, ready, queued, io, opener, disk, budget>>

Cancel ==
    /\ cur # None /\ status[cur] # "done"
    /\ live' = [live EXCEPT ![cur] = FALSE]
    /\ status' = [status EXCEPT ![cur] = "canceled"]
    /\ ctl' = TRUE
    /\ UNCHANGED <<man, sha, done, cursor, gen>>
    /\ UNCHANGED <<phase, started, cur, ready, queued, io, opener, disk, budget>>

\* A new generation and context; the chunks already taken still count if the
\* part file is there.
Resume ==
    LET lost == part[PartOf(cur)] = None
        marks == IF lost THEN NoMarks ELSE done[cur]
    IN /\ cur # None /\ status[cur] \in {"paused", "error", "canceled"}
       /\ op \notin {"idle", "clean"} => "resume_in_queue" \in Races
       /\ op = "clean" => "resume_in_clean" \in Races
       /\ swept' = (swept \/ (op = "clean" /\ PartOf(cur) \notin keep))
       /\ gen[cur] + crashes < MaxGen
       /\ gen' = [gen EXCEPT ![cur] = @ + 1]
       /\ live' = [live EXCEPT ![cur] = TRUE]
       /\ done' = [done EXCEPT ![cur] = marks]
       /\ cursor' = IF lost THEN ResetCursor(cur) ELSE cursor
       /\ part' = IF lost THEN [part EXCEPT ![PartOf(cur)] = Holes] ELSE part
       /\ status' = [status EXCEPT ![cur] =
                        IF Full(marks) /\ sha[cur] # None THEN "verifying" ELSE "pending"]
       /\ ctl' = TRUE
       /\ UNCHANGED <<man, sha, meta, jobsFile, files>>
       /\ UNCHANGED <<op, opMan, opPrev, opGen, opDone, opLoaded, opOk, keep>>
       /\ UNCHANGED <<phase, started, cur, ready, queued, io, budget>>

\* The saveJobs that ends control; its error is ignored.
ControlSave ==
    /\ ctl /\ ctl' = FALSE
    /\ \/ Works /\ SaveJobs
       \/ Fails /\ UNCHANGED jobsFile
    /\ UNCHANGED <<part, meta, files, crashes>>
    /\ UNCHANGED <<phase, started, cur, ready, queued, object, io, opener>>

(***************************************************************************)
(* cleanOwned: cleanStale at the end of restoreOnce, /api/clean-cache        *)
(***************************************************************************)
CleanSnapshot ==
    /\ phase # "down" /\ op = "idle"
    /\ op' = "clean"
    /\ keep' = IF cur # None /\ status[cur] \notin Settled THEN {PartOf(cur)} ELSE {}
    /\ (\E j \in Jobs : pc[j] = "chunk_write" /\ PartOf(j) \notin keep')
           => "clean_in_chunk" \in Races
    /\ UNCHANGED <<swept, opMan, opPrev, opGen, opDone, opLoaded, opOk>>
    /\ UNCHANGED <<puller, object, io, disk, budget>>

\* cleanStale removes only what is old enough.
CleanRemove ==
    /\ op = "clean" /\ op' = "idle" /\ keep' = {} /\ UNCHANGED swept
    /\ \E old \in IF phase = "stale" THEN SUBSET Key ELSE {Key} :
          LET gone == old \ keep
          IN /\ part' = [k \in Key |-> IF k \in gone THEN None ELSE part[k]]
             /\ meta' = [k \in Key |-> IF k \in gone THEN None ELSE meta[k]]
    /\ phase' = IF phase = "stale" THEN "up" ELSE phase
    /\ UNCHANGED <<opMan, opPrev, opGen, opDone, opLoaded, opOk>>
    /\ UNCHANGED <<started, cur, ready, queued, ctl, object, io, jobsFile, files,
                   budget>>

(***************************************************************************)
(* The system                                                              *)
(***************************************************************************)
\* Requests from outside: senders, the user, process death.
Request ==
    \/ Acquire \/ Crash
    \/ \E m \in Offers : Open(m) \/ Start(m)
    \/ \E g \in 0 .. MaxGen :
          \/ \E c \in Chunk : \E b \in {s[c] : s \in Contents} : AcceptChunk(g, c, b)
          \/ \E s \in Contents : Finish(g, s)
          \/ FailReport(g)
    \/ ReportStatus
    \/ ControlNothing \/ Pause \/ Cancel \/ Resume
    \/ CleanSnapshot

\* Steps the program takes by itself to carry a request through.
OpenStep ==
    \/ StartQueued \/ Restore
    \/ OpenCancel \/ OpenBarrier \/ OpenLoad \/ OpenCreate \/ OpenRefused \/ OpenSave
    \/ \E j \in Jobs : OpenSkip(j) \/ OpenInstall(j)
    \/ CleanRemove
IoStep(j) ==
    \/ ChunkWrite(j) \/ ChunkMark(j) \/ ChunkBroken(j) \/ ChunkMeta(j) \/ IoFail(j)
    \/ FinishMeta(j) \/ FinishJobs(j) \/ FinishSeal(j)
    \/ FinDigest(j) \/ FinMismatch(j) \/ FinMetaFix(j) \/ FinCommit(j) \/ FinDone(j)
    \/ FinCleanup(j) \/ FinFail(j) \/ FinSave(j)
Finalize == FinalizeReady \/ \E w \in ready : FinalizeLock(w)
Internal == OpenStep \/ (\E j \in Jobs : IoStep(j)) \/ Finalize \/ ControlSave

Next == Request \/ Internal

Spec == Init /\ [][Next]_vars

\* The scheduler runs every goroutine that can run; nothing is assumed of the
\* senders, of the user, or of the failures.
Fairness ==
    /\ WF_vars(OpenStep) /\ WF_vars(Finalize) /\ WF_vars(ControlSave)
    /\ WF_vars(CleanSnapshot /\ phase = "stale")
    /\ \A j \in Jobs : WF_vars(IoStep(j))
FairSpec == Spec /\ Fairness

(***************************************************************************)
(* Types                                                                   *)
(***************************************************************************)
PullerTypeOK ==
    /\ phase \in {"down", "fresh", "restoring", "stale", "up"}
    /\ started \in BOOLEAN /\ ctl \in BOOLEAN
    /\ cur \in Jobs \cup {None}
    /\ ready \in SUBSET Work
    /\ queued \in Manifest \cup {None}
ObjectTypeOK ==
    /\ man \in [Jobs -> Manifest]
    /\ sha \in [Jobs -> Content \cup {None}]
    /\ done \in [Jobs -> Marks]
    /\ cursor \in [Jobs -> 0 .. NChunks]
    /\ status \in [Jobs -> Status]
    /\ gen \in [Jobs -> Nat]
    /\ live \in [Jobs -> BOOLEAN]
IoTypeOK ==
    /\ pc \in [Jobs -> IoPc]
    /\ hold \in [Jobs -> Local]
OpenerTypeOK ==
    /\ op \in OpPc
    /\ opMan \in Manifest
    /\ opPrev \in Jobs \cup {None}
    /\ opGen \in Nat
    /\ opDone \in Marks
    /\ opLoaded \in BOOLEAN /\ opOk \in BOOLEAN
    /\ keep \in SUBSET Key /\ swept \in BOOLEAN
DiskTypeOK ==
    /\ part \in [Key -> Bytes \cup {None}]
    /\ meta \in [Key -> Marks \cup {None}]
    /\ jobsFile \in Manifest \cup {None}
    /\ files \in Seq(Bytes \cup {Foreign})
\* A legacy job keeps the digest of its manifest: a failed verification clears
\* the digest of a streaming job only, so saveJobs always writes a manifest
\* that restoreJobs will accept.
LegacyDigestKept == \A j \in Jobs : ~ man[j].streaming => sha[j] = man[j].sha

BudgetTypeOK == crashes \in Nat /\ faults \in Nat

\* Every variable has its type, and legacy jobs keep their digest.
TypeOK ==
    /\ PullerTypeOK /\ ObjectTypeOK /\ IoTypeOK /\ OpenerTypeOK /\ DiskTypeOK
    /\ BudgetTypeOK
    /\ LegacyDigestKept

(***************************************************************************)
(* Safety                                                                  *)
(***************************************************************************)
\* Nothing reaches the destination but a file whose content has the digest of
\* the current, neither paused nor canceled job; and no file goes away.  The
\* digest is computed in finalize before the part file is linked: everything
\* that can touch a part file may happen in between.
VerifiedFile(f) ==
    \E j \in Jobs : /\ j = cur /\ pc[j] = "fin_commit" /\ live[j]
                    /\ gen[j] = hold[j].gen
                    /\ status[j] \notin {"paused", "canceled"}
                    /\ f = sha[j]
PublishesVerified ==
    /\ Len(files') >= Len(files)
    /\ \A i \in 1 .. Len(files') :
          (i <= Len(files) => files'[i] # files[i]) => VerifiedFile(files'[i])
PublishedVerified == [][PublishesVerified]_files

\* One worker at most has the current generation of a job in hand, and as long
\* as it has, no sender request moves the job: finalizeReady captures a job
\* once, whatever finish, resume and chunk handlers interleave with it.
InHand(j) == pc[j] \in FinPc \ {"fin_cleanup", "fin_save"} /\ hold[j].gen = gen[j]
Captured(j) == [job |-> j, gen |-> gen[j]] \in ready
FinalizeOwns ==
    \A j \in Jobs :
        /\ ~ (InHand(j) /\ Captured(j))
        /\ InHand(j) \/ Captured(j) =>
              status[j] \in {"finalizing", "error", "paused", "canceled"}

\* A handler or worker that was overtaken by pause, cancel or completion does
\* not undo it: paused becomes only canceled, canceled and done stay, until
\* resume makes a new generation or a new job takes the path.
StaysStopped ==
    \A j \in Jobs :
        cur = j /\ cur' = j /\ gen'[j] = gen[j] =>
            /\ status[j] = "done" => status'[j] = "done"
            /\ status[j] = "canceled" => status'[j] = "canceled"
            /\ status[j] = "paused" => status'[j] \in {"paused", "canceled"}
NoLateEffect == [][StaysStopped]_vars

\* The missing list of uploadStatus starts at uploadCursor: a chunk below the
\* cursor that is not done would never be asked for again.
CursorBelowMissing ==
    \A j \in Jobs : \A c \in Chunk : c < cursor[j] => done[j][c] # None

\* Where a repeated chunk would be answered 200 at once, the metadata and the
\* part file on disk already hold it: 200 means saved.  Not so for a canceled job
\* that is resumed between the snapshot and the removals of a clean: it keeps its
\* marks and loses its files.
Answerable(j) ==
    /\ j = cur /\ ~ swept
    /\ pc[j] = "free" /\ live[j] /\ status[j] \in {"pending", "active"}
AcceptedIsSaved ==
    \A j \in Jobs : Answerable(j) =>
        \A c \in Chunk : done[j][c] # None =>
            /\ meta[PartOf(j)] # None /\ meta[PartOf(j)][c] = done[j][c]
            /\ part[PartOf(j)] # None /\ part[PartOf(j)][c] = done[j][c]

\* A job in verification is on disk with the digest it is verified against, so
\* that a restart goes on with the verification (unless a save is still due).
SealedIsPersisted ==
    cur # None /\ phase = "up" /\ ~ ctl /\ op # "save" =>
        (status[cur] \in {"verifying", "finalizing"} =>
            jobsFile # None /\ jobsFile.sha = sha[cur])

\* The saved queue loses a job only when the job is done or canceled: no save
\* runs on a table that restoreJobs has yet to fill.
QueueNeverForgets ==
    [][jobsFile # None /\ jobsFile' = None =>
          cur # None /\ status[cur] \in Settled]_jobsFile

\* A new version of the path takes over only from a finished or canceled job.
ReplacesSettled == cur # None /\ cur' # None /\ cur' # cur => status[cur] \in Settled
ReplacesOnlySettled == [][ReplacesSettled]_cur

\* One upload of one version leaves one file: pausing, canceling, resuming
\* and opening it again never publish it a second time.
PublishedOnce == Len(files) <= 1

(***************************************************************************)
(* Liveness                                                                *)
(***************************************************************************)
\* addRecordsMode gets through its barrier and releases queueMu, whatever
\* arrives meanwhile: every handler and worker releases ioMu.
OpenReturns == op # "idle" ~> op = "idle"

\* A job handed to verification leaves it: finished, failed, paused, canceled,
\* or the process died.
VerificationEnds ==
    \A j \in Jobs :
        started /\ cur = j /\ status[j] \in {"verifying", "finalizing"}
            ~> ~ started \/ cur # j \/ status[j] \notin {"verifying", "finalizing"}
=============================================================================
