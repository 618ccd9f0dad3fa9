----------------------------- MODULE UploadJob -----------------------------
(***************************************************************************)
(* What a receiver promises to the sender of ONE file: the upload job as     *)
(* the requests of the protocol see it, each handler taken as one step       *)
(* (UploadReceiver has the steps inside).  The same receiver speaks the      *)
(* streaming protocol, where the digest of the whole file comes last, or     *)
(* the legacy one, where the manifest brings it first.                       *)
(*                                                                         *)
(* A version of the source file is a number; a chunk's content is the        *)
(* version it was read from, so that a file is intact when all its chunks    *)
(* are of one version, and that version is its digest.                       *)
(***************************************************************************)
EXTENDS Naturals, FiniteSets

CONSTANTS
    MaxVersion,     \* bound on the versions the source file goes through
    IdentOf,        \* (size, mtime) of each version, as a number
    NChunks,        \* chunks of the file
    Streaming,      \* TRUE: open and finish; FALSE: the legacy start
    MaxRestarts     \* bound on restarts of the receiver

Version == 1 .. MaxVersion
Chunk   == 0 .. NChunks - 1

ASSUME VersionAssumption ==
    MaxVersion \in Nat \ {0} /\ IdentOf \in [Version -> Nat \ {0}]
ASSUME ChunkAssumption == NChunks \in Nat \ {0}
ASSUME ProtocolAssumption == Streaming \in BOOLEAN /\ MaxRestarts \in Nat

VARIABLES
    proc,       \* which process of the receiver: its token and puller id
    opened,     \* the puller is in App.pullers and has restored its queue
    job,        \* puller.jobs[path], or what the saved queue says of it
    cache,      \* key -> chunk -> content verified and saved, 0 for missing
    published   \* the contents committed to the destination

receiver == <<proc, opened, job, cache, published>>

Status == {"none", "saved", "pending", "active", "verifying", "done", "error",
           "paused", "canceled"}
Unsealed == {"pending", "active"}
Settled  == {"done", "canceled"}
Key      == {IdentOf[v] : v \in Version} \cup Version
Job      == [key : Key \cup {0}, sha : Version \cup {0}, status : Status, gen : Nat]
NoJob    == [key |-> 0, sha |-> 0, status |-> "none", gen |-> 0]
Nothing  == [c \in Chunk |-> 0]

\* The name of a version's part and meta file, and the digest its manifest
\* brings: (size, mtime) and none, or the digest itself.
KeyOf(v)    == IF Streaming THEN IdentOf[v] ELSE v
DigestOf(v) == IF Streaming THEN 0 ELSE v

Marks(j) == IF j.key = 0 THEN Nothing ELSE cache[j.key]
Full(marks) == \A c \in Chunk : marks[c] # 0

InitReceiver ==
    /\ proc = 0 /\ opened = FALSE /\ job = NoJob
    /\ cache = [k \in Key |-> Nothing] /\ published = {}

(***************************************************************************)
(* Answers                                                                 *)
(***************************************************************************)
\* "lost": no answer.  "unauthorized" 401, "absent" 404, "refused" 409,
\* "bad" 400, "broken" 500.
Code == {"ok", "lost", "unauthorized", "absent", "refused", "bad", "broken"}
Answer == [code : Code, id : Nat, status : Status, gen : Nat,
           missing : SUBSET Chunk, waiting : BOOLEAN]
Refusal(code) == [code |-> code, id |-> 0, status |-> "none", gen |-> 0,
                  missing |-> {}, waiting |-> FALSE]

\* uploadStatus
Report(j) ==
    [code |-> "ok", id |-> proc, status |-> j.status, gen |-> j.gen,
     missing |-> IF j.status \in Unsealed THEN {c \in Chunk : Marks(j)[c] = 0} ELSE {},
     waiting |-> Streaming /\ j.sha = 0 /\ Full(Marks(j)) /\ j.status \in Unsealed]

\* Does a request with this token and puller id reach the job?
Reach(token, id) ==
    IF token # proc THEN "unauthorized"
    ELSE IF ~ opened \/ id # proc \/ job.status = "none" THEN "absent"
    ELSE "ok"

(***************************************************************************)
(* Requests                                                                *)
(***************************************************************************)
StatusReply(token, id) ==
    IF Reach(token, id) = "ok" THEN Report(job) ELSE Refusal(Reach(token, id))

\* A job as addRecordsMode builds it: complete with its digest it is ready to
\* be verified.
Ready(j) == IF Full(Marks(j)) /\ j.sha # 0 THEN "verifying" ELSE "pending"

\* The table an open finds: the first one after a restart restores the queue.
Restored == IF job.status = "saved" THEN [job EXCEPT !.status = Ready(job)] ELSE job

Fresh(v, g) ==
    LET j == [key |-> KeyOf(v), sha |-> DigestOf(v), status |-> "pending", gen |-> g]
    IN [j EXCEPT !.status = Ready(j)]

\* addRecordsMode: a settled job gives way to a new one, the same manifest is
\* served by the job there is, any other is refused.
Replaces(v) ==
    \/ Restored.status \in {"none", "canceled"}
    \/ Restored.status = "done" /\ Restored.key # KeyOf(v)
Conflicts(v) == ~ Replaces(v) /\ Restored.key # KeyOf(v)
OpenedJob(v) ==
    IF ~ Replaces(v) THEN Restored
    ELSE Fresh(v, IF Streaming /\ Restored.status # "none" THEN Restored.gen + 1 ELSE 0)
OpenReply(token, v) ==
    IF token # proc THEN Refusal("unauthorized")
    ELSE IF Conflicts(v) THEN Refusal("bad") ELSE Report(OpenedJob(v))
ServeOpen(token, v) ==
    IF token # proc THEN UNCHANGED receiver
    ELSE /\ opened' = TRUE /\ job' = OpenedJob(v)
         /\ UNCHANGED <<proc, cache, published>>

\* acceptChunk
ChunkCode(token, id, g, c, v) ==
    IF Reach(token, id) # "ok" THEN Reach(token, id)
    ELSE IF g # job.gen \/ job.status \notin Unsealed THEN "refused"
    ELSE IF \/ ~ Streaming /\ v # job.sha
            \/ Streaming /\ Marks(job)[c] \notin {0, v} THEN "bad"
    ELSE "ok"
ServeChunk(token, id, g, c, v) ==
    IF ChunkCode(token, id, g, c, v) # "ok" THEN UNCHANGED receiver
    ELSE LET marks == [Marks(job) EXCEPT ![c] = v]
         IN /\ cache' = [cache EXCEPT ![job.key] = marks]
            /\ job' = [job EXCEPT !.status =
                          IF Full(marks) /\ job.sha # 0 THEN "verifying" ELSE "active"]
            /\ UNCHANGED <<proc, opened, published>>

\* The chunk could not be written: 500, and Puller.fail.
ServeChunkFails(token, id, g, c, v) ==
    /\ ChunkCode(token, id, g, c, v) = "ok"
    /\ job' = [job EXCEPT !.status = "error"]
    /\ UNCHANGED <<proc, opened, cache, published>>

\* finishUpload
FinishCode(token, id, g, s) ==
    IF Reach(token, id) # "ok" THEN Reach(token, id)
    ELSE IF \/ g # job.gen \/ job.status \notin Unsealed \cup {"verifying", "done"}
            \/ ~ Full(Marks(job)) /\ job.status # "done"
            \/ job.sha \notin {0, s} THEN "refused"
    ELSE "ok"
Sealed(s) == [job EXCEPT !.sha = s, !.status = IF @ = "done" THEN @ ELSE "verifying"]
FinishReply(token, id, g, s) ==
    LET code == FinishCode(token, id, g, s)
    IN IF code = "ok" THEN Report(Sealed(s)) ELSE Refusal(code)
ServeFinish(token, id, g, s) ==
    IF FinishCode(token, id, g, s) # "ok" THEN UNCHANGED receiver
    ELSE job' = Sealed(s) /\ UNCHANGED <<proc, opened, cache, published>>

\* /api/upload/fail: Puller.fail, for the generation the sender saw.
FailReaches(token, id, g) ==
    /\ Reach(token, id) = "ok" /\ g = job.gen
    /\ job.status \notin {"done", "canceled", "paused"}
ServeFail(token, id, g) ==
    IF FailReaches(token, id, g)
    THEN job' = [job EXCEPT !.status = "error"] /\ UNCHANGED <<proc, opened, cache, published>>
    ELSE UNCHANGED receiver

(***************************************************************************)
(* What the receiver does by itself, its user, and restarts                *)
(***************************************************************************)
\* finalize: only a file that has the digest is committed.  A mismatch forgets
\* all that was received, and the digest if it came with finish.
DigestOK_WhenFull == Full(Marks(job))  \* faulty: complete is taken for correct
DigestOK == \A c \in Chunk : Marks(job)[c] = job.sha
Verify ==
    /\ opened /\ job.status = "verifying"
    /\ cache' = [cache EXCEPT ![job.key] = Nothing]
    /\ IF DigestOK
       THEN /\ job' = [job EXCEPT !.status = "done"]
            /\ published' = published \cup {Marks(job)}
       ELSE /\ job' = [job EXCEPT !.status = "error", !.sha = IF Streaming THEN 0 ELSE @]
            /\ UNCHANGED published
    /\ UNCHANGED <<proc, opened>>

\* finalize could not read or commit the file.
VerifyFails ==
    /\ opened /\ job.status = "verifying"
    /\ job' = [job EXCEPT !.status = "error"]
    /\ UNCHANGED <<proc, opened, cache, published>>

Pause ==
    /\ opened /\ job.status \notin {"none", "done", "canceled", "paused"}
    /\ job' = [job EXCEPT !.status = "paused"]
    /\ UNCHANGED <<proc, opened, cache, published>>
Cancel ==
    /\ opened /\ job.status \notin {"none", "done", "canceled"}
    /\ job' = [job EXCEPT !.status = "canceled"]
    /\ UNCHANGED <<proc, opened, cache, published>>
Resume ==
    /\ opened /\ job.status \in {"error", "paused", "canceled"}
    /\ job' = [job EXCEPT !.status = Ready(job), !.gen = @ + 1]
    /\ UNCHANGED <<proc, opened, cache, published>>

\* The saved queue keeps what is not settled; a new process has a new token
\* and gives its puller a new id.
Restart ==
    /\ proc < MaxRestarts /\ proc' = proc + 1
    /\ opened' = FALSE
    /\ job' = IF job.status \in Settled \cup {"none"} THEN NoJob
              ELSE [job EXCEPT !.status = "saved", !.gen = 0]
    /\ UNCHANGED <<cache, published>>

\* Every variable has its type, and a job in verification is complete and has
\* its digest.
ReceiverTypeOK ==
    /\ proc \in Nat /\ opened \in BOOLEAN
    /\ job \in Job /\ (job.status = "none" <=> job.key = 0)
    /\ cache \in [Key -> [Chunk -> Version \cup {0}]]
    /\ published \subseteq [Chunk -> Version]
    /\ job.status = "verifying" => job.sha # 0 /\ Full(Marks(job))
=============================================================================
