----------------------------- MODULE Extraction -----------------------------
(***************************************************************************)
(* Archives unpacked into one destination directory: finalize and runExtract  *)
(* of jobs with extract set (receiver.go), commitFile and copyExclusive       *)
(* (storage.go), at the grain of file system calls.  How the chunks of an     *)
(* archive arrive and how finalizers are claimed is PullReceiver's subject;    *)
(* here Fetch brings the whole archive.                                      *)
(*                                                                         *)
(* commitFile runs under storageLock and Puller.mu, which pause, cancel and   *)
(* resume need too: lock is the job that holds both.  A job's ioMu is held    *)
(* while its pc is not "idle".                                               *)
(*                                                                         *)
(* A file is <<entry, n>>: the name of the entry, with " (n)" for n > 0.  Its  *)
(* contents are whose archive it came from, and whether it is complete.  The  *)
(* temporary file of an entry (.extract) may be the same inode as files of    *)
(* the destination: links names them, and writing one writes them all.       *)
(***************************************************************************)
EXTENDS Naturals, Sequences, FiniteSets

CONSTANTS
    Jobs,       \* archives
    Entries,    \* names in them
    Archive,    \* a job's entries in their order
    Policies,   \* same-name policies the user may choose
    MaxIndex,   \* the last " (n)" that commitFile tries
    Foreign,    \* another program
    None,       \* no file, no job
    MaxEvents,  \* bound on crashes, failing file operations and user requests
    MaxForeign, \* bound on files another program creates, and on copied archives
    Races       \* overlaps that may happen

File == Entries \X (0 .. MaxIndex)
Data == [by : Jobs \cup {Foreign}, whole : BOOLEAN]
Overlaps == {"crash_in_link", "crash_in_copy"}

ASSUME ArchiveAssumption == Archive \in [Jobs -> Seq(Entries)]
ASSUME NamesAssumption ==
    /\ None \notin Jobs \cup {Foreign} \cup Entries \cup Data /\ Foreign \notin Jobs
    /\ \A set \in SUBSET Entries : None # set
ASSUME PolicyAssumption == Policies \subseteq {"rename", "skip", "overwrite"}
ASSUME BoundsAssumption == MaxIndex \in Nat /\ MaxEvents \in Nat /\ MaxForeign \in Nat
ASSUME RacesAssumption == Races \subseteq Overlaps

VARIABLES
    policy,     \* chosen once
    linkable,   \* the file system has hard links
    \* memory
    up,         \* the process runs and has restored its queue
    status, gen,
    live,       \* job.ctx.Err() == nil
    extracted,  \* job.extracted
    lock,
    pc, work,   \* the finalizer of a job, and the generation it captured
    entry, cand,
    \* disk
    queued,     \* jobs.json has the job
    part,       \* the cache has the whole archive
    saved,      \* the extracted entries of its metadata, None without one
    temp, links,
    file,
    \* bounds and history
    events, foreigners,
    fetches,    \* how often the whole archive came into the cache anew
    failures    \* crashes and failing file operations

chosen  == <<policy, linkable>>
job     == <<status, gen, live, extracted>>
runner  == <<pc, work, entry, cand>>
cache   == <<queued, part, saved>>
store   == <<temp, links, file>>
counts  == <<events, foreigners, fetches, failures>>
vars    == <<chosen, up, job, lock, runner, cache, store, counts>>

Status  == {"none", "pending", "verifying", "extracting", "done", "error",
            "paused", "canceled"}
Settled == {"none", "done", "canceled"}     \* what the queue file leaves out
Pc      == {"idle", "next", "copy", "lock", "rename", "probe", "link", "fill",
            "unlink", "mark", "undo", "save", "finish", "wipe", "fail", "forget"}

InArchive(j) == {Archive[j][i] : i \in DOMAIN Archive[j]}
Target(j) == <<entry[j], cand[j]>>
Goto(j, label) == pc' = [pc EXCEPT ![j] = label] /\ UNCHANGED <<work, entry>>

Event == events < MaxEvents /\ events' = events + 1
Works == UNCHANGED <<events, failures>>
Fails == Event /\ failures' = failures + 1

\* work.ctx is canceled, or a later generation has the job.
Canceled(j) == work[j] # gen[j] \/ ~ live[j]

\* What is written to the temporary file shows in every file of its inode.
WriteTemp(j, e, state) ==
    /\ temp' = [temp EXCEPT ![j][e] = state]
    /\ file' = [f \in File |->
                  IF f \in links[j][e] THEN [by |-> j, whole |-> state = "whole"]
                  ELSE file[f]]
    /\ UNCHANGED links
RemoveTemp(j) ==
    /\ temp' = [temp EXCEPT ![j][entry[j]] = "none"]
    /\ links' = [links EXCEPT ![j][entry[j]] = {}]

SaveJobs == queued' = [j \in Jobs |-> status'[j] \notin Settled]

(***************************************************************************)
(* Process start and death                                                 *)
(***************************************************************************)
Init ==
    /\ policy \in Policies /\ linkable \in BOOLEAN
    /\ up = TRUE
    /\ status = [j \in Jobs |-> "none"] /\ gen = [j \in Jobs |-> 0]
    /\ live = [j \in Jobs |-> FALSE] /\ extracted = [j \in Jobs |-> {}]
    /\ lock = None
    /\ pc = [j \in Jobs |-> "idle"] /\ work = [j \in Jobs |-> 0]
    /\ entry = [j \in Jobs |-> None] /\ cand = [j \in Jobs |-> 0]
    /\ queued = [j \in Jobs |-> FALSE] /\ part = [j \in Jobs |-> FALSE]
    /\ saved = [j \in Jobs |-> None]
    /\ temp = [j \in Jobs |-> [e \in Entries |-> "none"]]
    /\ links = [j \in Jobs |-> [e \in Entries |-> {}]]
    /\ file = [f \in File |-> None]
    /\ events = 0 /\ foreigners = 0 /\ failures = 0
    /\ fetches = [j \in Jobs |-> 0]

\* A copy in progress and a link whose source is still there survive as such.
Crash ==
    /\ up /\ Fails
    /\ (\E j \in Jobs : pc[j] = "fill") => "crash_in_copy" \in Races
    /\ (\E j \in Jobs : pc[j] = "unlink" /\ links[j][entry[j]] # {})
          => "crash_in_link" \in Races
    /\ up' = FALSE
    /\ status' = [j \in Jobs |-> "none"] /\ gen' = [j \in Jobs |-> 0]
    /\ live' = [j \in Jobs |-> FALSE] /\ extracted' = [j \in Jobs |-> {}]
    /\ lock' = None
    /\ pc' = [j \in Jobs |-> "idle"] /\ work' = [j \in Jobs |-> 0]
    /\ entry' = [j \in Jobs |-> None] /\ cand' = [j \in Jobs |-> 0]
    /\ UNCHANGED <<chosen, cache, store, foreigners, fetches>>

\* loadMeta: with part file and metadata, what was extracted counts.
Loaded(j) == part[j] /\ saved[j] # None
Remembered(j) == IF Loaded(j) THEN saved[j] ELSE {}
Arrived(j, here) == IF Loaded(j) \/ here THEN "verifying" ELSE "pending"

\* addRecordsMode prepares the part files of the jobs in set.  What loadMeta did
\* not find is copied from the destination if the archive lies there whole (and
\* the copy succeeds), with no metadata saved; otherwise the part file is emptied.
Prepare(set, here) ==
    /\ here \subseteq {j \in set : ~ Loaded(j)}
    /\ IF here = {} THEN UNCHANGED foreigners
       ELSE foreigners < MaxForeign /\ foreigners' = foreigners + 1
    /\ part' = [j \in Jobs |-> IF j \in set THEN Loaded(j) \/ j \in here ELSE part[j]]
    /\ fetches' = [j \in Jobs |-> IF j \in here /\ ~ part[j] THEN fetches[j] + 1
                                  ELSE fetches[j]]

Restart ==
    /\ ~ up /\ up' = TRUE
    /\ \E here \in SUBSET Jobs :
          /\ Prepare({j \in Jobs : queued[j]}, here)
          /\ status' = [j \in Jobs |-> IF queued[j] THEN Arrived(j, j \in here) ELSE "none"]
    /\ live' = queued
    /\ extracted' = [j \in Jobs |-> IF queued[j] THEN Remembered(j) ELSE {}]
    /\ UNCHANGED <<chosen, gen, lock, runner, queued, saved, store>>
    /\ UNCHANGED <<events, failures>>

(***************************************************************************)
(* Requests and downloads                                                  *)
(***************************************************************************)
\* /api/download of an archive; a busy job is left alone, ioMu is waited for.
Open(j) ==
    /\ up /\ lock = None /\ status[j] \in Settled /\ pc[j] = "idle" /\ Event
    /\ \E here \in SUBSET {j} :
          /\ Prepare({j}, here)
          /\ status' = [status EXCEPT ![j] = Arrived(j, j \in here)]
    /\ gen' = [gen EXCEPT ![j] = @ + 1] /\ live' = [live EXCEPT ![j] = TRUE]
    /\ extracted' = [extracted EXCEPT ![j] = Remembered(j)]
    /\ SaveJobs
    /\ UNCHANGED <<chosen, up, lock, runner, saved, store, failures>>

\* The last chunk arrives and its metadata is saved.
Fetch(j) ==
    /\ up /\ lock = None /\ status[j] = "pending"
    /\ status' = [status EXCEPT ![j] = "verifying"]
    /\ part' = [part EXCEPT ![j] = TRUE]
    /\ saved' = [saved EXCEPT ![j] = extracted[j]]
    /\ fetches' = [fetches EXCEPT ![j] = @ + 1]
    /\ UNCHANGED <<chosen, up, gen, live, extracted, lock, runner, queued, store>>
    /\ UNCHANGED <<events, foreigners, failures>>

Stop(j, s) ==
    /\ up /\ lock = None /\ Event
    /\ status[j] \notin {"none", "done"}
    /\ live' = [live EXCEPT ![j] = FALSE]
    /\ status' = [status EXCEPT ![j] = IF @ = "canceled" THEN @ ELSE s]
    /\ SaveJobs
    /\ UNCHANGED <<chosen, up, gen, extracted, lock, runner, part, saved, store>>
    /\ UNCHANGED <<foreigners, fetches, failures>>
Pause(j)  == Stop(j, "paused")
Cancel(j) == Stop(j, "canceled")

\* Without its part file a job starts again.
Kept_Nothing(j) == {}  \* faulty: a resumed job starts again
Kept(j) == IF part[j] THEN extracted[j] ELSE {}
Resume(j) ==
    /\ up /\ lock = None /\ status[j] \in {"paused", "error", "canceled"} /\ Event
    /\ gen' = [gen EXCEPT ![j] = @ + 1] /\ live' = [live EXCEPT ![j] = TRUE]
    /\ extracted' = [extracted EXCEPT ![j] = Kept(j)]
    /\ status' = [status EXCEPT ![j] = IF part[j] THEN "verifying" ELSE "pending"]
    /\ SaveJobs
    /\ UNCHANGED <<chosen, up, lock, runner, part, saved, store, foreigners, fetches,
                   failures>>

\* The cached files of a settled job are removed, the temporary ones are not.
Clean(j) ==
    /\ up /\ lock = None /\ status[j] \in Settled /\ Event
    /\ part' = [part EXCEPT ![j] = FALSE]
    /\ saved' = [saved EXCEPT ![j] = None]
    /\ UNCHANGED <<chosen, up, job, lock, runner, queued, store, foreigners, fetches,
                   failures>>

\* Another program puts a file there.
Intrude(f) ==
    /\ foreigners < MaxForeign /\ foreigners' = foreigners + 1
    /\ file[f] = None
    /\ file' = [file EXCEPT ![f] = [by |-> Foreign, whole |-> TRUE]]
    /\ UNCHANGED <<chosen, up, job, lock, runner, cache, temp, links>>
    /\ UNCHANGED <<events, fetches, failures>>

(***************************************************************************)
(* runExtract                                                              *)
(***************************************************************************)
\* finalizeReady claims the job; ioMu, digest and the look at the entries.
Begin(j) ==
    /\ up /\ lock = None /\ pc[j] = "idle" /\ status[j] = "verifying"
    /\ work' = [work EXCEPT ![j] = gen[j]]
    /\ pc' = [pc EXCEPT ![j] = "next"]
    /\ status' = [status EXCEPT ![j] = "extracting"]
    /\ UNCHANGED <<chosen, up, gen, live, extracted, lock, entry, cand, cache, store>>
    /\ UNCHANGED counts

\* The first entry that is still to be extracted.
ToExtract(j, i) ==
    /\ Archive[j][i] \notin extracted[j]
    /\ \A k \in 1 .. i - 1 : Archive[j][k] \in extracted[j]
NextEntry(j) ==
    /\ pc[j] = "next"
    /\ \/ /\ InArchive(j) \subseteq extracted[j]
          /\ Goto(j, "finish") /\ Works /\ UNCHANGED store
       \/ \E i \in DOMAIN Archive[j] :
             /\ ToExtract(j, i)
             /\ \/ /\ ~ Canceled(j) /\ Works
                   /\ WriteTemp(j, Archive[j][i], "partial")
                   /\ pc' = [pc EXCEPT ![j] = "copy"] /\ UNCHANGED work
                   /\ entry' = [entry EXCEPT ![j] = Archive[j][i]]
                \/ /\ IF Canceled(j) THEN Works ELSE Fails
                   /\ Goto(j, "fail") /\ UNCHANGED store
    /\ UNCHANGED <<chosen, up, job, lock, cand, cache, foreigners, fetches>>

Copy(j) ==
    /\ pc[j] = "copy"
    /\ \/ /\ Works /\ WriteTemp(j, entry[j], "whole") /\ Goto(j, "lock")
       \/ /\ IF Canceled(j) THEN Works ELSE Fails
          /\ RemoveTemp(j) /\ Goto(j, "fail") /\ UNCHANGED file
    /\ UNCHANGED <<chosen, up, job, lock, cand, cache, foreigners, fetches>>

\* The job is looked at again under the locks, which stay taken.
MayCommit_Always(j) == TRUE  \* faulty: a paused job goes on
MayCommit(j) == ~ Canceled(j) /\ status[j] = "extracting"
Lock(j) ==
    /\ pc[j] = "lock" /\ lock = None
    /\ IF MayCommit(j)
       THEN /\ lock' = j /\ cand' = [cand EXCEPT ![j] = 0]
            /\ Goto(j, IF policy = "overwrite" THEN "rename" ELSE "probe")
            /\ UNCHANGED store
       ELSE /\ RemoveTemp(j) /\ Goto(j, "fail") /\ UNCHANGED <<lock, cand, file>>
    /\ UNCHANGED <<chosen, up, job, cache, counts>>

(***************************************************************************)
(* commitFile, copyExclusive                                               *)
(***************************************************************************)
Rename(j) ==
    /\ pc[j] = "rename"
    /\ \/ /\ Works /\ Goto(j, "mark") /\ UNCHANGED cand
          /\ file' = [file EXCEPT ![Target(j)] = [by |-> j, whole |-> TRUE]]
          /\ RemoveTemp(j)
       \/ Fails /\ Goto(j, "undo") /\ UNCHANGED <<cand, store>>
    /\ UNCHANGED <<chosen, up, job, lock, cache, foreigners, fetches>>

\* The next " (n)", as long as there is one.
TryNext_OneMore(j) ==  \* faulty: one " (n)" too many
    IF cand[j] <= MaxIndex
    THEN cand' = [cand EXCEPT ![j] = @ + 1] /\ Goto(j, "probe")
    ELSE UNCHANGED cand /\ Goto(j, "undo")
TryNext_Again(j) ==  \* faulty: the search does not give up
    /\ cand' = [cand EXCEPT ![j] = IF @ < MaxIndex THEN @ + 1 ELSE 0]
    /\ Goto(j, "probe")
TryNext(j) ==
    IF cand[j] < MaxIndex
    THEN cand' = [cand EXCEPT ![j] = @ + 1] /\ Goto(j, "probe")
    ELSE UNCHANGED cand /\ Goto(j, "undo")

Probe(j) ==
    /\ pc[j] = "probe"
    /\ IF file[Target(j)] = None THEN Goto(j, "link") /\ UNCHANGED cand
       ELSE IF policy = "skip" THEN Goto(j, "mark") /\ UNCHANGED cand
       ELSE TryNext(j)
    /\ UNCHANGED <<chosen, up, job, lock, cache, store, counts>>

\* Link, or an exclusive copy where the link fails.
Taken(j) == file[Target(j)] # None
Link(j) ==
    /\ pc[j] = "link"
    /\ IF Taken(j) THEN TryNext(j) /\ Works /\ UNCHANGED store
       ELSE \/ /\ linkable /\ Works
               /\ file' = [file EXCEPT ![Target(j)] = [by |-> j, whole |-> TRUE]]
               /\ links' = [links EXCEPT ![j][entry[j]] = @ \cup {Target(j)}]
               /\ Goto(j, "unlink") /\ UNCHANGED <<cand, temp>>
            \/ /\ IF linkable THEN Fails ELSE Works
               /\ file' = [file EXCEPT ![Target(j)] = [by |-> j, whole |-> FALSE]]
               /\ Goto(j, "fill") /\ UNCHANGED <<cand, temp, links>>
    /\ UNCHANGED <<chosen, up, job, lock, cache, foreigners, fetches>>

\* A copy that fails removes what it began.
Discarded_Not(j) == file  \* faulty: it stays
Discarded(j) == [file EXCEPT ![Target(j)] = None]
Fill(j) ==
    /\ pc[j] = "fill"
    /\ \/ /\ Works /\ Goto(j, "unlink")
          /\ file' = [file EXCEPT ![Target(j)].whole = TRUE]
       \/ /\ Fails /\ Goto(j, "undo")
          /\ file' = Discarded(j)
    /\ UNCHANGED <<chosen, up, job, lock, cand, cache, temp, links, foreigners, fetches>>

\* Remove(source)
Unlink(j) ==
    /\ pc[j] = "unlink"
    /\ RemoveTemp(j) /\ Goto(j, "mark")
    /\ UNCHANGED <<chosen, up, job, lock, cand, cache, file, counts>>

Mark(j) ==
    /\ pc[j] = "mark"
    /\ extracted' = [extracted EXCEPT ![j] = @ \cup {entry[j]}]
    /\ lock' = None
    /\ RemoveTemp(j) /\ Goto(j, "save")
    /\ UNCHANGED <<chosen, up, status, gen, live, cand, cache, file, counts>>

\* commitFile returned an error.
Undo(j) ==
    /\ pc[j] = "undo"
    /\ lock' = None
    /\ RemoveTemp(j) /\ Goto(j, "fail")
    /\ UNCHANGED <<chosen, up, job, cand, cache, file, counts>>

Save(j) ==
    /\ pc[j] = "save" /\ lock = None
    /\ \/ /\ Works /\ saved' = [saved EXCEPT ![j] = extracted[j]] /\ Goto(j, "next")
       \/ Fails /\ UNCHANGED saved /\ Goto(j, "fail")
    /\ UNCHANGED <<chosen, up, job, lock, cand, queued, part, store, foreigners, fetches>>

(***************************************************************************)
(* The end of finalize                                                     *)
(***************************************************************************)
Finish(j) ==
    /\ pc[j] = "finish" /\ lock = None
    /\ status' = [status EXCEPT ![j] =
                     IF work[j] = gen[j] /\ @ \notin {"canceled", "paused"} THEN "done"
                     ELSE @]
    /\ Goto(j, IF status'[j] = "done" THEN "wipe" ELSE "forget")
    /\ UNCHANGED <<chosen, up, gen, live, extracted, lock, cand, cache, store, counts>>

Wipe(j) ==
    /\ pc[j] = "wipe"
    /\ part' = [part EXCEPT ![j] = FALSE] /\ saved' = [saved EXCEPT ![j] = None]
    /\ Goto(j, "forget")
    /\ UNCHANGED <<chosen, up, job, lock, cand, queued, store, counts>>

Fail(j) ==
    /\ pc[j] = "fail" /\ lock = None
    /\ status' = [status EXCEPT ![j] =
                     IF work[j] = gen[j] /\ @ \notin {"done", "canceled", "paused"}
                     THEN "error" ELSE @]
    /\ Goto(j, "forget")
    /\ UNCHANGED <<chosen, up, gen, live, extracted, lock, cand, cache, store, counts>>

Forget(j) ==
    /\ pc[j] = "forget" /\ lock = None
    /\ \/ Works /\ queued' = [i \in Jobs |-> status[i] \notin Settled]
       \/ Fails /\ UNCHANGED queued
    /\ Goto(j, "idle")
    /\ UNCHANGED <<chosen, up, job, lock, cand, part, saved, store, foreigners, fetches>>

(***************************************************************************)
(* The specification                                                       *)
(***************************************************************************)
Step(j) ==
    \/ Begin(j) \/ NextEntry(j) \/ Copy(j) \/ Lock(j) \/ Rename(j) \/ Probe(j) \/ Link(j)
    \/ Fill(j) \/ Unlink(j) \/ Mark(j) \/ Undo(j) \/ Save(j)
    \/ Finish(j) \/ Wipe(j) \/ Fail(j) \/ Forget(j)
User(j) == Open(j) \/ Fetch(j) \/ Pause(j) \/ Cancel(j) \/ Resume(j) \/ Clean(j)

Next ==
    \/ Crash \/ Restart
    \/ \E j \in Jobs : User(j) \/ Step(j)
    \/ \E f \in File : Intrude(f)

Spec == Init /\ [][Next]_vars

\* The finalizers run; nothing is assumed of the user, the sender or crashes.
FairSpec == Spec /\ \A j \in Jobs : WF_vars(Step(j))

(***************************************************************************)
(* Properties                                                              *)
(***************************************************************************)
JobTypeOK ==
    /\ status \in [Jobs -> Status] /\ gen \in [Jobs -> Nat] /\ live \in [Jobs -> BOOLEAN]
    /\ extracted \in [Jobs -> SUBSET Entries]
RunnerTypeOK ==
    /\ lock \in Jobs \cup {None}
    /\ pc \in [Jobs -> Pc] /\ work \in [Jobs -> Nat]
    /\ entry \in [Jobs -> Entries \cup {None}] /\ cand \in [Jobs -> 0 .. MaxIndex]
CacheTypeOK ==
    /\ queued \in [Jobs -> BOOLEAN] /\ part \in [Jobs -> BOOLEAN]
    /\ saved \in [Jobs -> {None} \cup SUBSET Entries]
StoreTypeOK ==
    /\ temp \in [Jobs -> [Entries -> {"none", "partial", "whole"}]]
    /\ links \in [Jobs -> [Entries -> SUBSET File]]
    /\ file \in [File -> {None} \cup Data]
CountTypeOK ==
    /\ events \in Nat /\ foreigners \in Nat /\ failures \in Nat
    /\ fetches \in [Jobs -> Nat]
TypeOK ==
    /\ policy \in Policies /\ linkable \in BOOLEAN /\ up \in BOOLEAN
    /\ JobTypeOK /\ RunnerTypeOK /\ CacheTypeOK /\ StoreTypeOK /\ CountTypeOK

\* What the destination shows is what Destination promises: a file is complete
\* when it appears, under a free name, from a job that is neither paused nor
\* canceled at that moment, and it stays as it is; another archive with the same
\* entries, another program and a restart make no difference
\* (receiver.go:807-827, storage.go:112-178).
Complete(f) == file[f] # None /\ file[f].whole
Promised == INSTANCE Destination WITH
    overwrites <- policy = "overwrite",
    content <- [f \in File |-> IF Complete(f) THEN file[f].by ELSE None],
    allowed <- {j \in Jobs : status[j] = "extracting"}
KeepsPromise == Promised!Spec

\* An entry that is recorded as extracted, in memory or in the metadata that a
\* restart resumes from, is complete in the destination, as this archive has it
\* if files are renamed; a finished archive has all its entries recorded
\* (receiver.go:277, 772-777, 817-836).
Present(j, e) ==
    \E n \in 0 .. MaxIndex :
        Complete(<<e, n>>) /\ (policy = "rename" => file[<<e, n>>].by = j)
Recorded(j) == extracted[j] \cup (IF saved[j] = None THEN {} ELSE saved[j])
ExtractedIsThere ==
    \A j \in Jobs :
        /\ \A e \in Recorded(j) : Present(j, e)
        /\ status[j] = "done" => extracted[j] = InArchive(j)

\* With renaming, an archive leaves one copy of each entry for each time the whole
\* archive came into the cache, from the sender or from a copy that lies in the
\* destination, and one more for every crash or failing file operation: neither
\* pause, resume nor a restart extracts again what is recorded, nor does an open
\* that finds the archive in the cache (receiver.go:422-445, 772-777, 834-836).
CopiesBounded ==
    \A j \in Jobs :
        Cardinality({f \in File : Complete(f) /\ file[f].by = j})
            <= Cardinality(InArchive(j)) * fetches[j] + failures

\* A finalizer comes to its end, whatever happens to the job meanwhile, and
\* gives the locks back.
ExtractionEnds == \A j \in Jobs : pc[j] # "idle" ~> pc[j] = "idle"
=============================================================================
