# A verification project for the file transfer service

The program is one Go binary that can send and receive large files over HTTP.
There are two ways to move a file. In a *push upload* the sending process reads
files chunk by chunk and posts them to the receiving process; in a *pull* the
receiving process fetches the chunks. Either way the receiver writes them to a
part file, keeps a metadata file and a queue on disk, verifies the digest of the
whole file and commits it to the destination, or unpacks it there if it is an
archive. Every part is concurrent, may be interrupted at any point, and repeats
its requests until they get through. This directory models those parts, the
protocol between them, and what each of them promises.

## Inventory

| Part (source) | State | Operations | What is hard | What makes it correct | Module |
|---|---|---|---|---|---|
| Upload receiver: passive `Puller`, its handlers (`receiver.go`, `upload_server.go`, `upload_stream.go`) | `jobs`, `FileJob` (status, generation, done, uploadCursor, sha256, ioMu, context), part and meta files, `jobs.json` | open, start, status, chunk, finish, fail; pause, resume, cancel, clean; verification; restore | four locks taken in different orders, state read before and used after I/O, late handlers, crash between two writes | only verified content is published, 200 means saved, nothing is lost by a restart, overtaken handlers have no effect, every handler returns | `UploadReceiver` |
| Uploader (`upload_client.go`) | task list, token, generation, failures, final digest | beginUpload, worker steps, 401/404 recovery, Close | tasks shared by four workers, stale status answers, lost answers, a file that changes | each pushed version arrives once and whole, no task is dropped or done twice at a time | `Uploader` |
| Active pull worker (`receiver.go:517-718`, connect and download in `transfer.go`) | inflight chunks, errors, retries, retryAfter | pick, worker, finalizeReady, finalize, fail, control | retries and late chunks against pause, resume, cancel, re-open; Close | a chunk in flight has one worker, a file is given up only after its retries, only a verified one is published | `PullReceiver` |
| Archive extraction (`receiver.go:720-839`) | extracted entries in memory and metadata, `.extract` files | runExtract | resumes after a crash; several archives, other programs in the directory | what is recorded is there, nothing is extracted again without cause | `Extraction` |
| Storage (`storage.go`) | cache and destination directories | rootAtomicWrite, commitFile, copyExclusive | link and remove are two calls, names may be taken meanwhile | a file appears whole, under a free name, and stays | `Extraction`, `Destination` |
| Preparations (`preparation.go`, push and push-test in `transfer.go`) | `App.preparing`, stages and totals | start, update, snapshot, finish | one at a time, every return of the handler | what is shown is right, each ends | `Push` |
| Sender roots, selection, archive building (`transfer.go`, `selections.go`) | `App.sender`, `Sender.roots` | start-serve, add-folder, remove-folder, addRoot, addTestRoot, open, selectedFiles, buildArchiveProgress | names are looked up again while roots come and go and files change | what was selected is what is queued, and its name keeps its meaning | `Push` |
| Elapsed clock (`receiver.go:1070-1092`) | runningSince, elapsedDuration | updateClock | a dozen sections change statuses | it runs exactly while a job does | `PullReceiver` |
| Access and pullers table (`access.go`) | sessions, tokens, `App.pullers` | protect, acquirePuller, Close | a puller is visible before its queue is restored | a queue survives that | `UploadReceiver`, `PullReceiver` |
| Speed, state report, flags, page, folder picker, disk space, safe opening | - | - | I/O and presentation | | not modelled |

How they interact: the page or the command line calls `/api/push`, whose handler
shares the selected paths, packs or lists them and calls `beginUpload`; the
Uploader's workers call the receiver's HTTP handlers with a token and a puller
id; the handlers work on the `Puller` that `acquirePuller` finds for the source,
under `Puller.mu`; the receiver's own workers look for complete jobs and verify
them, and in a pull they fetch the chunks as well; the user of the receiver
pauses, resumes, cancels and cleans through the same `Puller`.

## Modules

| Module | What it is |
|---|---|
| `UploadReceiver` | One receiver seen through one relative path, step by step: each section under `Puller.mu` is an action, `ioMu` and `queueMu` are program counters, and memory is apart from disk so that a process may die anywhere. |
| `UploadReceiverProofs`, `UploadReceiverSafety`, `UploadReceiverDisk` | Its theorems. |
| `UploadJob` | The same receiver as a sender sees it: one job, each request one step with its answer. |
| `Uploader` | The sending half: pushes, workers, lost requests and answers, changes of the file, composed with `UploadJob`. |
| `Delivery` | What the whole upload promises: copies of one version each, none older than the first push. `Uploader` implements it. |
| `UploaderProofs`, `UploaderSafety` | Theorems of `Uploader`. |
| `PullReceiver` | The active Puller: several workers fetch the chunks of one path and finalize it. |
| `PullReceiverProofs` | Its theorems. |
| `Extraction` | Several archives unpacked into one destination directory, by file system calls. |
| `ExtractionProofs` | Its theorems. |
| `Destination` | What the directory promises: whole files under free names that stay. `Extraction` implements it. |
| `Push` | From a selection to the uploader's queue, with preparation, shared roots and archives. |
| `PushProofs` | Its theorems. |
| `MCUploadReceiver`, `MCUploader`, `MCPullReceiver`, `MCExtraction`, `MCPush` | Their instances for TLC. |

### UploadReceiver and the code

`phase` is where the Puller is in its life (not there, in `App.pullers`, inside
`restoreOnce`, ready); `cur` is `puller.jobs[path]`, by reference: a job that is
replaced lives on as long as a handler or worker holds it, and its `FileJob` is
reused only afterwards. `man`, `sha`, `done`, `cursor`, `status`, `gen`, `live`
are its fields (`live` is `ctx.Err() == nil`). `pc[j]` says what the holder of
`ioMu` is at, `hold[j]` its local variables; `op` and the variables `op...` are
`addRecordsMode` or `cleanOwned`, the holder of `queueMu`. `part`, `meta`,
`jobsFile` and `files` are on disk. The actions are named for the functions:
`Open...` (addRecordsMode), `Chunk...` (acceptChunk), `Finish...`
(finishUpload), `Fin...` (finalize), `Control...`, `Pause`, `Cancel`, `Resume`
(control), `Clean...` (cleanOwned), `Acquire`, `Restore`, `Crash`.

What is abstracted: a digest is the content it is of, and the key of a cache
file is the identity it is computed from (no collisions); reading `jobs[path]`
and the check of the same pointer under `ioMu` are merged where nothing can come
between that would tell; a write through a temporary file and a rename is one
step; `commitFile` is one step; bytes, elapsed time and the log are left out;
`extract` is false; a clean of stale files removes any of the files that are not
kept. A clean is two steps, the snapshot of what it keeps (`CleanSnapshot`) and
the removals (`CleanRemove`), and a job may be resumed between them. `swept` is
history: the job at `cur` was resumed there while its files were to be removed.
It is cleared when another job is installed and by a restart, which believes
the disk only. The process dies (`Crash`) in every state, which covers `Puller.Close`.

### UploadJob, Uploader and the code

A version of the source file is a number, and a chunk's content is the version
it was read from, so that an intact file is one whose chunks are of one version.
`IdentOf` gives the size and time of each version: two versions may have the
same ones. `proc` is the receiver's process, whose token and puller id differ
from those of the process before; `opened` says that a request has brought the
puller back. `cache` is what is saved under each key, `published` what the
destination holds.

In `Uploader`, `tasks` are the `uploadTask`s with their manifest's version, id,
generation, failures, digest, busy and done; `work[w]` is what worker w is at
and what it learnt from its status answer; `push` is the `beginUpload` that
holds `queueMu`. `Take` joins the selection of a task with the status request
(until the request arrives the worker changes nothing, and the task is busy);
`SendChunk` joins reading a chunk and sending it (a later arrival of the same
bytes is a later read, or is refused by its generation); `Finish` joins the
digest and the finish request. A request fails in three ways: it never arrives,
it has its effect but the answer is lost, or the receiver cannot write.
After `Close` every request fails, since the context of all of them is canceled.
`offered` and `strikes` are history variables: they only record what a push
answered and how many batches failed in a row.

`retryAt` and the pauses between steps are left to the scheduler: a task may be
taken again at once. The four chunk slots only bound what is in flight. The
password does not change. One path is modelled: tasks of other paths share
nothing with it but the workers. Which file a task's name means is `Push`'s
subject.

### PullReceiver and the code

`phase`, `op` and the job's fields are as in `UploadReceiver`; `inflight`,
`errs`, `retries` and `backoff` (retryAfter is still to come) are those of the
active worker; `pc[w]` and `work[w]` are a worker and the `chunkWork` it holds.
`started` is the pool, which a second connect starts while the first restores;
`closed` is `Puller.ctx`; `clock` says that `runningSince` is set. A part file is
the set of its right chunks, since a worker checks a chunk's digest before it
writes it. A re-opened path gets a new `FileJob`, which is a later generation
here: a worker that still holds the old one finds its generation overtaken, as
it finds another object in the code. The exception is a canceled job resumed
inside an open, which `UploadReceiver` has and `Resume` here excludes.
`retries` counts since the last open or resume: a success clears `errors` but not
`retries` (receiver.go:588, 596). `pick`'s own step to verifying (527-530) never
runs, since an opened, resumed or fetched job with all its chunks is verifying
already. The request for the manifest comes before `Open`; the part file is
stretched with zeros, which no right chunk is taken for. `strikes` is history.

### Extraction, Destination and the code

`status`, `gen`, `live` and `extracted` are the job's; `pc[j]` is the finalizer of
job j, `lock` the holder of `storageLock` and `Puller.mu`, which no request or
other finalizer gets past. `entry` and `cand` are the locals of `runExtract` and
`commitFile`. A file is `<<entry, n>>`, "entry (n)"; its contents say whose
archive it is from and whether it is whole. `links[j][e]` are the destination
files that are the same inode as the temporary file of entry e, so that a write
through one name shows under the others. Where the file system has no hard links
(`linkable`), `Link` begins `copyExclusive` and `Fill` ends it. `Fetch` brings a
whole archive; `Begin` joins finalizeReady, the digest and the checks of the zip
directory, which write nothing. `Prepare` is what addRecordsMode does with the
part file when an archive is opened or restored (receiver.go:421-475): what
loadMeta confirms is kept; else the archive may lie whole in the destination
itself and is copied from there, without metadata, and goes to verification with
no download; else the part file is emptied. Whether it lies there, and whether
the copy succeeds, is left open at every open and restart, up to `MaxForeign`
times. The model does not tell a part file with some chunks from none, so that it
lets some opens copy where the code would go on downloading. A clean is one step
here; what comes between its snapshot and its removals is in `UploadReceiver` and
`PullReceiver`. One policy is chosen for all jobs. Names that
differ only by case, modification times and targets that are folders are left
out. Temporary files of a job that was canceled stay for ever in the program
(cleanOwned takes only .part and .json), and so they do here. `fetches` and
`failures` are history; `fetches` counts how often the whole archive came into
the cache anew, from the sender or by such a copy.

The refinement maps a file that is not whole to none: `KeepsPromise` says that
whoever looks for whole files sees only what `Destination` promises.

### Push and the code

`sender` is `app.sender`, an index into `roots`, which keeps the roots of every
sender there was, since handlers and the uploader keep theirs. `push[h]` is the
handler of one request: its selection, the matched items, what is packed and
what is sent. `prog[h]` is its `preparation`, `preparing` the one the page
shows. The roots of a sender are a set; their ages are their order in the code's
slice, and a look-up finds the `Oldest` that fits. A name is `<<root, rest>>` with root `<<base, n>>`, "base (n)"; `Located`
is `Sender.open`, with its rule for a single shared folder. A file's version
gives its size. `PathsAssumption` says of the paths what a file system
gives: no file is inside another one, and the hidden folders are folders.
`Match` joins the walk of all roots (its order shows in nothing
but the shown current name; the sorting by length decides under whose name a
file goes, `Holders`). `PackEnd` joins closing, syncing and verifying the
archive; that an archive with the same digest is used again is left out, since
it has the same contents. `gone` is history: the names the user took away.


### Races

The specifications have a constant `Races`: the overlaps of two actors that are
allowed to happen. Each of its members is a place where the code lets two
actors overlap and one of the stated properties fails. The passing runs exclude
them, except where the table says otherwise; the theorems include them, except
where they say otherwise. To see one of the failures, add the overlap to `Races`
in a copy of the configuration.

| Module | Overlap | Where | What then fails |
|---|---|---|---|
| `UploadReceiver` | `resume_in_queue` | receiver.go:367-466 | `PublishedVerified`: a canceled job resumed while an open is about to replace it shares the part file the open truncates |
| | `resume_in_clean` | receiver.go:967-1012, 1048 | the promise that 200 means saved, of UPLOAD_PROTOCOL.md: a canceled job resumed between the snapshot and the removals of `cleanOwned` finds its part file, keeps its marks, then loses part file and metadata, so that a repeated chunk is answered 200 with nothing on disk. All passing runs of `UploadReceiver` and all theorems include it, and `AcceptedIsSaved` excepts the jobs it happened to (`swept`) |
| | `control_before_restore` | access.go:182, receiver.go:1067 | `QueueNeverForgets`: a pause, resume or cancel before `restoreOnce` saves the empty table over the queue |
| | `clean_in_chunk` | receiver.go:963-1012 | `AcceptedIsSaved`: a chunk in flight recreates the part file that a clean of its canceled job removed, and a resume believes the old marks |
| | `finish_in_restore` | receiver.go:896 | `SealedIsPersisted`: saveJobs does nothing while the queue is being restored, and finish answers 200 |
| `Uploader` | `push_in_release` | upload_client.go:116-121, 230 | `NoLostPush`: a push is merged into a task whose worker holds the answer "done" of the version before |
| | `push_over_task` | upload_client.go:116-121, 400 | `Arrives`: a push of a version merged into the unfinished task of another leaves the old manifest, with which a re-open after a restart is refused for ever |
| | `change_after_digest` | upload_client.go:374 | `IntactVerifies`: the file changes after its digest was taken (run `stale_digest`) |
| `PullReceiver` | `control_before_restore` | transfer.go:1488-1498 | `QueueNeverForgets`: pause and cancel reach the Puller before restoreJobs has read the queue; `pull_live` includes it |
| | `restore_refused` | receiver.go:951 | `QueueNeverForgets`: restoreJobs ignores a record that it cannot add (no manifest, no space), and the next saveJobs drops it; `pull_live` includes it |
| `Extraction` | `crash_in_link` | storage.go:161-174 | `KeepsPromise`, `ExtractedIsThere`: after a crash between Link and Remove the temporary file is a second name of the published one, and the restarted extraction truncates it |
| | `crash_in_copy` | storage.go:122-133 | `ExtractedIsThere`: a crash inside copyExclusive leaves a partial file under the target's name, which the policy skip takes for a file |
| `Push` | `share_replaced` | transfer.go:1060-1062, upload_client.go:83 | `ServesQueued`: the uploader reads through the sender of its first push (run `stale_sender`); the page does not call /api/start-serve, other clients may |

One more failure needs no overlap but a failing file operation: if `saveMeta`
fails, the chunk is already marked (upload_server.go:274-290), and after a resume
its repetition is answered 200 without being saved. `AcceptedIsSaved` and
`QueueNeverForgets` of `UploadReceiver` are therefore checked with
`MaxFaults = 0`.

One overlap is allowed although a comment speaks against it: addTestRoot looks
for the folder and adds it in two sections (transfer.go:427-432), so that two
requests may share it twice, where line 421 says that it is reused. `Push` has
it; nothing breaks, since every look-up finds the older one.

## Runs

All runs are exhaustive within their bounds.

| Run | What it asks |
|---|---|
| `receiver_safe` | two chunks, two bodies, two digests, two workers, every order of requests and user actions, a process death anywhere, resumes inside a clean: `FinalizeOwns`, `CursorBelowMissing`, `AcceptedIsSaved`, `SealedIsPersisted`, `PublishedVerified`, `NoLateEffect`, `QueueNeverForgets` |
| `receiver_offers` | an empty file in two streaming versions, one also with its digest known in advance, and a legacy one, policy skip, a restart: `TypeOK`, `ReplacesOnlySettled` |
| `receiver_live` | a failing file operation, cancel, resume and re-open: `OpenReturns` (addRecordsMode gets through its barrier), `VerificationEnds` |
| `sender_safe` | two versions, two pushes, two workers, two faults, two user actions, a restart: `TypeOK`, `OneWorkerPerTask`, `NoLostPush`, `DoneIsDelivered`, `IntactVerifies`, `ReopenServed`, `GivesUpLate`, and `Delivers` (implements `Delivery`) |
| `sender_live` | any two faults, a restart, `App.Close` at any time: `Arrives`, `CloseReturns` |
| `pull_safe` | two chunks, two workers, any two of crash, failing file operation, pause, cancel and clean, with resumes and re-opens: `TypeOK`, `InflightOwned`, `FinalizeOwns`, `ClockRuns`, `PublishedVerified`, `QueueNeverForgets`, `GivesUpLate` |
| `pull_live` | one chunk, both overlaps of `PullReceiver` allowed: `FetchEnds` (nothing but the user and the end of the process keeps a job from an end), `CloseReturns` |
| `extract` | two archives with an entry in common, every policy, with and without hard links, a file of another program or an archive that lies in the destination, any three of crash, failing operation and user request: `TypeOK`, `ExtractedIsThere`, `CopiesBounded`, `ExtractionEnds`, and `KeepsPromise` (implements `Destination`) |
| `push` | two requests, selections that are nested or have equal names, connection tests, any two of roots added or taken away, files changed and operations failing: `TypeOK`, `PreparationShown`, `SendsSelection`, `ServesQueued`, `PreparationEnds` |

Three more runs each show a disagreement between the code and what its
documents, comments or tests say:

| Run | What happens |
|---|---|
| `pause_in_commit` | `PublishedOnce` fails: finalize commits, then takes `Puller.mu` again for the status; a pause between makes the file come twice |
| `stale_digest` | `IntactVerifies` fails: the sender's digest outlives the mismatch and the re-upload |
| `stale_sender` | `ServesQueued` fails: sharing is started anew, and a later push is read through the old sender's roots |

Bounds. Requests carry generations up to `MaxGen`; one resume is enough for a
late handler to meet a newer generation, and two make a worker meet one that is
not the next. Two `FileJob` objects are enough for a job and its replacement,
`MaxFiles` stops new jobs, and one crash meets every intermediate state of the
disk, since the models distinguish every write. Two chunks give a partial file,
two contents a wrong one. For the sender, two workers and two pushes meet in
every step, two faults fall on any two requests (and exhaust the two retries),
two user actions stop a job and resume it, and two versions let the file change
at any point; `stale_digest` needs a third, since there the file changes again
after the mismatch. For the pull, two failures make a retry and one retry is
allowed (`ChunkMaxErrs`, `MaxRetries`); wrong chunks are not bounded. `MaxEvents`
bounds what happens to a pull, an extraction or a push from outside: two events
stop and disturb, three crash, resume and fail again. `MaxIndex = 1` lets the
search for a free name fail with two archives and a foreign file. In `pull_live`
resumes count as generations only, so that `MaxEvents = 1` leaves one stop or
crash besides them. `MaxPushes`, `MaxUser`, `MaxFaults`, `MaxRestarts`,
`MaxVersion`, `MaxCrashes`, `MaxGen`, `MaxFiles`, `MaxEvents` and `MaxForeign`
are such bounds, checked in the guards of the actions they limit. Deadlock is
checked for `UploadReceiver` only: elsewhere, when the budget is used up and all
work is done or the Puller closed, nothing is left to do.

Fairness. Only the program's own steps are weakly fair: goroutines that can run
do run, handlers whose requests have timeouts come on, and time passes (`Wake`,
the end of retryAfter). Requests, users, crashes and failures are never assumed
to happen or to stop, except by the bounds. One condition per worker is enough
in `Uploader`: a worker's steps disable each other only by doing the work, and
at most one task of a streaming file is unfinished. In `PullReceiver` a worker's
fetching and finalizing are fair apart; the restoring and opening goroutine
(`Opener`) is one more. In `Extraction` and `Push` each finalizer and each
handler is one.

`GivesUpLate` of `Uploader` speaks of the time before the receiver restarts: a
re-open after it (retryUploadStatus) takes the new generation without clearing the failures,
so that a job may then be given up early. It is stated for streaming only: the
jobs of the legacy protocol all start at generation 0, so that failures of a
canceled job count against the next one. `DoneIsDelivered` is streaming only as
well: a legacy task asks for its status by path, so that the task of a second
version may end on the "done" of the first if the second was canceled. A job
canceled by the receiver's user is forgotten by a restart, and the sender's
re-open then starts it again; `Arrives` and `NoLostPush` allow that.

In the modules, definitions marked `faulty` are not used by the
specifications: each is a plausible mistake in the definition below it, kept
to see that a property of the runs notices it.

## Proofs

Checked by TLAPS for all values of the constants (any number of jobs, chunks,
contents, crashes, workers, pushes, faults).

* `UploadReceiverProofs!TypeCorrect`: `TypeOK`, with "a legacy job keeps its
  manifest's digest", by induction, one lemma per group of actions.
* `UploadReceiverSafety!CursorCorrect`: from `CursorInv`, which adds that a
  handler about to mark a chunk holds a chunk's body.
* `FinalizeOwnsCorrect` and `LateStepsHaveNoEffect`: from `Ownership`, which
  adds to `FinalizeOwns` that no generation in use is above the job's present
  one (`KnownGenerations`), that a stopped job's context is canceled
  (`StoppedNotLive`), and that no worker captures a job while a chunk or finish
  handler has it (`ReceivingOwns`).
* `PublicationVerified` and `ReplacementSettled`: from `Publication`: nothing is
  open before the queue is restored (`NothingYet`), an opener past its busy
  check holds a settled job whose context is canceled (`OpenerHolds`), a
  replaced job writes no more (`CurrentOnly`), and between digest and commit a
  part file keeps that digest or goes away (`VerifiedPart`). Both assume
  `"resume_in_queue" \notin Races`, which is needed (see Races). All other
  overlaps, crashes and failures are included.
* `UploadReceiverDisk`, all with `MaxFaults = 0` (see the end of Races), each
  with those overlaps excluded that break it, and no other:
  * `QueueIsKept` (without `control_before_restore`) from `Beginning` and
    `NothingToForget`: before the queue is restored there is no job, no open and
    nothing to save, a restore begins and ends with the saved job, and an empty
    table afterwards means an empty file.
  * `SealedIsSaved` (without `finish_in_restore`) from `Persistence`: an
    unsettled job is in the queue file with its digest unless a saveJobs is due,
    and a finish has set a digest before it seals.
  * `AcceptedChunksSaved` (without `clean_in_chunk` and `resume_in_queue`; with
    `resume_in_clean`, whose jobs the property excepts as `swept`) from `Saving`: a replaced job writes no file (`Retired`), the opener's marks are
    those of the disk until it installs them (`LoadedMatches`), a clean keeps
    what an unsettled job or a chunk in flight uses (`CleanKeeps`), there is a
    part file wherever chunks are taken (`PartPresent`), and whenever there is
    one, all marks but the one just made are in it and in the metadata
    (`MarkedSaved`): that is why a resume may trust the marks if it finds the
    part file.
* `UploaderProofs!UploaderTypeCorrect` and `OneWorkerCorrect`: types and
  ownership are one induction (`Core`), since a worker's step is typed only
  because its task exists. Lemmas `Continues`, `Releases` and `Takes` are the
  three things a worker can do with a task.
* `UploaderProofs!DeliveryImplemented`: `Spec => Delivers`. The mapping takes
  `first` from the first task ever queued. The invariant `Span` says that what
  is in the receiver's cache was read between that version and the present
  one; `Verify` maps to `Deliver`, the first `PushQueue` to `Offer`,
  `ChangeSource` to `Change`, and all other steps to stuttering. Assumed: at
  least one chunk (an empty file has one content only), and no collisions.
  The theorems of `Uploader` hold for the legacy protocol (`Streaming = FALSE`)
  as well, which no run checks.
* `PullReceiverProofs!Types`, `InflightIsOwned`, `FinalizerIsAlone`,
  `ClockIsRight`, `OnlyVerified`, `LateGiveUp`, `QueueIsKept`, for any number of
  chunks, workers, retries, events. `InflightOwned` and `FinalizeOwns` are one
  induction (`Owned`) with: no work is of a future generation (`GenBound`), one
  worker at most holds `ioMu` (`IoMutex`), a finalizer keeps its generation of
  the job out of the states in which chunks are fetched (`FinalizerKeeps`), and
  between digest and commit nobody changes the part file but a clean, which
  removes it (`CommitVerified`, for `OnlyVerified`).
  `LateGiveUp` needs the count of failures that a round and its retries come to
  (`StrikesCount`). `QueueIsKept` assumes `Races = {}`, which is needed for each
  of the two overlaps; all other theorems include them.
* `UploaderSafety`, on what a sealed file, a pushed version and a worker's
  answer have to do with each other:
  * `IntactIsVerified`, for both protocols, if the file does not change between
    its digest and the verification (`change_after_digest`, needed). A
    streaming file is followed by `Sealing`: what is still to be sent or
    already cached under the open key was read no earlier than the job that
    holds it, a final digest is of the present version while its worker uses
    it, and what is sealed has a digest somebody computed. The legacy
    protocol needs only that a job's digest is the one of its manifest.
  * `ReopenIsServed` and `EndedIsDelivered`, for streaming and without
    `push_over_task` (needed: see Races): `Agreed` says that the pushes' answers
    and the keys of cached files agree with the versions of their tasks, and
    `Ended` that a job which ended as done published what its last task sent.
  * `NoPushIsLost`, for streaming and without `push_in_release` (needed): a
    worker that holds the answer "done" holds it of its task's own version.
  * `GivenUpLate`, for streaming: the failures a task counts are those of its
    job's life (`Strike`), so that a job given up has had all of them.
* `ExtractionProofs!Types`, and `KeepsPromises`: every step of `Extraction` is a
  step of `Destination` or changes nothing for who looks for whole files. The
  inductive part (`Shape`, `Owned`, `Alone`) says that a job that writes a
  temporary file has no other name for it (`NoStrayLinks`), writes only what is
  its own (`FillsOwn`), and links or copies only to a name it found free or was
  told to overwrite. `ExtractedIsPresent` adds that what is recorded, in memory
  or in the metadata, was committed (`Records`, `RecordedThere`) and that a file
  that is not whole is being filled right now (`PartialIsFilling`).
  `CopiesAreBounded` counts: each copy of an entry was paid for by a fetch or a
  copy from the destination (both count in `fetches`) or by a failure
  (`CopiesPaid`), a cardinality argument over the destination's files. What may
  still be extracted before the archive comes anew (`Missing`) only shrinks: a
  part file does not appear without being counted (`PartKept`), its metadata is
  replaced only by what the job remembers (`DiskKept`), and a job that is known
  forgets nothing unless it is opened again (`MemoryKept`). All but `Types` assume that no process dies inside
  `commitFile` between Link and Remove (`crash_in_link`), `ExtractedIsPresent`
  also not inside `copyExclusive` (`crash_in_copy`); both are needed.
* `PushProofs`, all from one invariant, one lemma per conjunct. Its steps are
  those of `Moves`: what a handler may do to its own record and progress, so that
  a conjunct need not look at the actions again. What is shared changes only by
  `WithRoot` and `Without`, which keep every root but the one the user takes away,
  and give names that are free (`NameIsFree`) to roots that are younger.
  * `TypesCorrect` (with `Flows`: what a handler has at each step).
  * `OnePreparationShown` from `Prepared` and `Counted`: at each step of packing,
    what is done and what is left add up to the totals, by the library's sum
    over a finite set.
  * `SelectionIsSent` from `Picked` (the matched items are the selection, each
    file once) and `Shipped` (items, packed, left and sent account for each
    other), with `LeftBound` and `SentBound`: what is matched, left or sent has
    a root of that name, unless it was taken away.
  * `QueuedIsServed` adds `OneSender` and assumes `Races = {}`, which is needed
    (run `stale_sender`). The other three include the overlap.

Every safety property of the passing runs is a theorem. Only model-checked:
all liveness (`OpenReturns`, `VerificationEnds`, `Arrives`,
`FetchEnds`, the two `CloseReturns`, `ExtractionEnds`, `PreparationEnds`), which
is outside what the prover handles.

## Plan

Done: the modules above with their runs and theorems. Next: the refinement
between the two receivers. `UploadReceiver` with one protocol implements the
answers of `UploadJob` (the handlers are atomic in their effect), as a property
of a run and then as a proof; the races above say where it must fail.

Not modelled, and not planned: flags, JSON, HTTP routing, sessions and request
filtering, the page, the folder picker, platform calls for disk space and safe
opening, compression, chunk encoding and the manifest cache of the pull's sender:
input and output without state that outlives a call, but for a cache keyed by
name, size and time. The sums of the progress report (`state`,
`combineStates`, `tickSpeed`) are arithmetic for display. Several paths of one
Puller share its workers and its queue file, and are seen one at a time.
