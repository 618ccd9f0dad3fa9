-------------------------- MODULE ExtractionProofs --------------------------
(***************************************************************************)
(* Proofs about Extraction, for every value of its constants.                *)
(***************************************************************************)
EXTENDS Extraction, FiniteSetTheorems, TLAPS

-----------------------------------------------------------------------------
(* Which steps write which variables *)

LEMMA JobWriters ==
    ASSUME [Next]_vars
    PROVE  \/ UNCHANGED job
           \/ Crash
           \/ Restart
           \/ \E j \in Jobs : \/ Open(j) \/ Fetch(j) \/ Pause(j) \/ Cancel(j)
                              \/ Resume(j) \/ Begin(j) \/ Mark(j) \/ Finish(j)
                              \/ Fail(j)
<1>1. CASE UNCHANGED vars
  BY <1>1 DEF vars, runner
<1>2. ASSUME NEW f \in File, Intrude(f) PROVE UNCHANGED job
  BY <1>2 DEF Intrude, runner, job
<1>3. ASSUME NEW j \in Jobs, Clean(j) PROVE UNCHANGED job
  BY <1>3 DEF Clean, runner, job
<1>4. ASSUME NEW j \in Jobs, NextEntry(j) PROVE UNCHANGED job
  BY <1>4 DEF NextEntry, runner, job
<1>5. ASSUME NEW j \in Jobs, Copy(j) PROVE UNCHANGED job
  BY <1>5 DEF Copy, runner, job
<1>6. ASSUME NEW j \in Jobs, Lock(j) PROVE UNCHANGED job
  BY <1>6 DEF Lock, runner, job
<1>7. ASSUME NEW j \in Jobs, Rename(j) PROVE UNCHANGED job
  BY <1>7 DEF Rename, runner, job
<1>8. ASSUME NEW j \in Jobs, Probe(j) PROVE UNCHANGED job
  BY <1>8 DEF Probe, runner, job
<1>9. ASSUME NEW j \in Jobs, Link(j) PROVE UNCHANGED job
  BY <1>9 DEF Link, runner, job
<1>10. ASSUME NEW j \in Jobs, Fill(j) PROVE UNCHANGED job
  BY <1>10 DEF Fill, runner, job
<1>11. ASSUME NEW j \in Jobs, Unlink(j) PROVE UNCHANGED job
  BY <1>11 DEF Unlink, runner, job
<1>12. ASSUME NEW j \in Jobs, Undo(j) PROVE UNCHANGED job
  BY <1>12 DEF Undo, runner, job
<1>13. ASSUME NEW j \in Jobs, Save(j) PROVE UNCHANGED job
  BY <1>13 DEF Save, runner, job
<1>14. ASSUME NEW j \in Jobs, Wipe(j) PROVE UNCHANGED job
  BY <1>14 DEF Wipe, runner, job
<1>15. ASSUME NEW j \in Jobs, Forget(j) PROVE UNCHANGED job
  BY <1>15 DEF Forget, runner, job
<1> QED BY <1>1, <1>2, <1>3, <1>4, <1>5, <1>6, <1>7, <1>8, <1>9, <1>10, <1>11,
   <1>12, <1>13, <1>14, <1>15 DEF Next, User, Step

LEMMA RunnerWriters ==
    ASSUME [Next]_vars
    PROVE  \/ UNCHANGED <<lock, runner>>
           \/ Crash
           \/ \E j \in Jobs : \/ Begin(j) \/ NextEntry(j) \/ Copy(j) \/ Lock(j)
                              \/ Rename(j) \/ Probe(j) \/ Link(j) \/ Fill(j)
                              \/ Unlink(j) \/ Mark(j) \/ Undo(j) \/ Save(j)
                              \/ Finish(j) \/ Wipe(j) \/ Fail(j) \/ Forget(j)
<1>1. CASE UNCHANGED vars
  BY <1>1 DEF vars, runner
<1>2. CASE Restart
  BY <1>2 DEF Restart, runner
<1>3. ASSUME NEW f \in File, Intrude(f) PROVE UNCHANGED <<lock, runner>>
  BY <1>3 DEF Intrude, runner
<1>4. ASSUME NEW j \in Jobs, Open(j) PROVE UNCHANGED <<lock, runner>>
  BY <1>4 DEF Open, runner
<1>5. ASSUME NEW j \in Jobs, Fetch(j) PROVE UNCHANGED <<lock, runner>>
  BY <1>5 DEF Fetch, runner
<1>6. ASSUME NEW j \in Jobs, Pause(j) PROVE UNCHANGED <<lock, runner>>
  BY <1>6 DEF Pause, Stop, runner
<1>7. ASSUME NEW j \in Jobs, Cancel(j) PROVE UNCHANGED <<lock, runner>>
  BY <1>7 DEF Cancel, Stop, runner
<1>8. ASSUME NEW j \in Jobs, Resume(j) PROVE UNCHANGED <<lock, runner>>
  BY <1>8 DEF Resume, runner
<1>9. ASSUME NEW j \in Jobs, Clean(j) PROVE UNCHANGED <<lock, runner>>
  BY <1>9 DEF Clean, runner
<1> QED BY <1>1, <1>2, <1>3, <1>4, <1>5, <1>6, <1>7, <1>8, <1>9 DEF Next, User, Step

LEMMA CacheWriters ==
    ASSUME [Next]_vars
    PROVE  \/ UNCHANGED cache
           \/ Restart
           \/ \E j \in Jobs : \/ Open(j) \/ Fetch(j) \/ Pause(j) \/ Cancel(j)
                              \/ Resume(j) \/ Clean(j) \/ Save(j) \/ Wipe(j)
                              \/ Forget(j)
<1>1. CASE UNCHANGED vars
  BY <1>1 DEF vars, runner
<1>2. CASE Crash
  BY <1>2 DEF Crash, runner, cache
<1>4. ASSUME NEW f \in File, Intrude(f) PROVE UNCHANGED cache
  BY <1>4 DEF Intrude, runner, cache
<1>5. ASSUME NEW j \in Jobs, Begin(j) PROVE UNCHANGED cache
  BY <1>5 DEF Begin, runner, cache
<1>6. ASSUME NEW j \in Jobs, NextEntry(j) PROVE UNCHANGED cache
  BY <1>6 DEF NextEntry, runner, cache
<1>7. ASSUME NEW j \in Jobs, Copy(j) PROVE UNCHANGED cache
  BY <1>7 DEF Copy, runner, cache
<1>8. ASSUME NEW j \in Jobs, Lock(j) PROVE UNCHANGED cache
  BY <1>8 DEF Lock, runner, cache
<1>9. ASSUME NEW j \in Jobs, Rename(j) PROVE UNCHANGED cache
  BY <1>9 DEF Rename, runner, cache
<1>10. ASSUME NEW j \in Jobs, Probe(j) PROVE UNCHANGED cache
  BY <1>10 DEF Probe, runner, cache
<1>11. ASSUME NEW j \in Jobs, Link(j) PROVE UNCHANGED cache
  BY <1>11 DEF Link, runner, cache
<1>12. ASSUME NEW j \in Jobs, Fill(j) PROVE UNCHANGED cache
  BY <1>12 DEF Fill, runner, cache
<1>13. ASSUME NEW j \in Jobs, Unlink(j) PROVE UNCHANGED cache
  BY <1>13 DEF Unlink, runner, cache
<1>14. ASSUME NEW j \in Jobs, Mark(j) PROVE UNCHANGED cache
  BY <1>14 DEF Mark, runner, cache
<1>15. ASSUME NEW j \in Jobs, Undo(j) PROVE UNCHANGED cache
  BY <1>15 DEF Undo, runner, cache
<1>16. ASSUME NEW j \in Jobs, Finish(j) PROVE UNCHANGED cache
  BY <1>16 DEF Finish, runner, cache
<1>17. ASSUME NEW j \in Jobs, Fail(j) PROVE UNCHANGED cache
  BY <1>17 DEF Fail, runner, cache
<1> QED BY <1>1, <1>2, <1>4, <1>5, <1>6, <1>7, <1>8, <1>9, <1>10, <1>11,
   <1>12, <1>13, <1>14, <1>15, <1>16, <1>17 DEF Next, User, Step

LEMMA StoreWriters ==
    ASSUME [Next]_vars
    PROVE  \/ UNCHANGED store
           \/ \E f \in File : Intrude(f)
           \/ \E j \in Jobs : \/ NextEntry(j) \/ Copy(j) \/ Lock(j) \/ Rename(j)
                              \/ Link(j) \/ Fill(j) \/ Unlink(j) \/ Mark(j)
                              \/ Undo(j)
<1>1. CASE UNCHANGED vars
  BY <1>1 DEF vars, runner
<1>2. CASE Crash
  BY <1>2 DEF Crash, runner, store
<1>3. CASE Restart
  BY <1>3 DEF Restart, runner, store
<1>4. ASSUME NEW j \in Jobs, Open(j) PROVE UNCHANGED store
  BY <1>4 DEF Open, runner, store
<1>5. ASSUME NEW j \in Jobs, Fetch(j) PROVE UNCHANGED store
  BY <1>5 DEF Fetch, runner, store
<1>6. ASSUME NEW j \in Jobs, Pause(j) PROVE UNCHANGED store
  BY <1>6 DEF Pause, Stop, runner, store
<1>7. ASSUME NEW j \in Jobs, Cancel(j) PROVE UNCHANGED store
  BY <1>7 DEF Cancel, Stop, runner, store
<1>8. ASSUME NEW j \in Jobs, Resume(j) PROVE UNCHANGED store
  BY <1>8 DEF Resume, runner, store
<1>9. ASSUME NEW j \in Jobs, Clean(j) PROVE UNCHANGED store
  BY <1>9 DEF Clean, runner, store
<1>10. ASSUME NEW j \in Jobs, Begin(j) PROVE UNCHANGED store
  BY <1>10 DEF Begin, runner, store
<1>11. ASSUME NEW j \in Jobs, Probe(j) PROVE UNCHANGED store
  BY <1>11 DEF Probe, runner, store
<1>12. ASSUME NEW j \in Jobs, Save(j) PROVE UNCHANGED store
  BY <1>12 DEF Save, runner, store
<1>13. ASSUME NEW j \in Jobs, Finish(j) PROVE UNCHANGED store
  BY <1>13 DEF Finish, runner, store
<1>14. ASSUME NEW j \in Jobs, Wipe(j) PROVE UNCHANGED store
  BY <1>14 DEF Wipe, runner, store
<1>15. ASSUME NEW j \in Jobs, Fail(j) PROVE UNCHANGED store
  BY <1>15 DEF Fail, runner, store
<1>16. ASSUME NEW j \in Jobs, Forget(j) PROVE UNCHANGED store
  BY <1>16 DEF Forget, runner, store
<1> QED BY <1>1, <1>2, <1>3, <1>4, <1>5, <1>6, <1>7, <1>8, <1>9, <1>10, <1>11,
   <1>12, <1>13, <1>14, <1>15, <1>16 DEF Next, User, Step

LEMMA CountWriters ==
    ASSUME [Next]_vars
    PROVE  \/ UNCHANGED counts
           \/ Crash
           \/ Restart
           \/ \E f \in File : Intrude(f)
           \/ \E j \in Jobs : \/ Open(j) \/ Fetch(j) \/ Pause(j) \/ Cancel(j)
                              \/ Resume(j) \/ Clean(j) \/ NextEntry(j) \/ Copy(j)
                              \/ Rename(j) \/ Link(j) \/ Fill(j) \/ Save(j)
                              \/ Forget(j)
<1>1. CASE UNCHANGED vars
  BY <1>1 DEF vars, runner
<1>3. ASSUME NEW j \in Jobs, Begin(j) PROVE UNCHANGED counts
  BY <1>3 DEF Begin, runner, counts
<1>4. ASSUME NEW j \in Jobs, Lock(j) PROVE UNCHANGED counts
  BY <1>4 DEF Lock, runner, counts
<1>5. ASSUME NEW j \in Jobs, Probe(j) PROVE UNCHANGED counts
  BY <1>5 DEF Probe, runner, counts
<1>6. ASSUME NEW j \in Jobs, Unlink(j) PROVE UNCHANGED counts
  BY <1>6 DEF Unlink, runner, counts
<1>7. ASSUME NEW j \in Jobs, Mark(j) PROVE UNCHANGED counts
  BY <1>7 DEF Mark, runner, counts
<1>8. ASSUME NEW j \in Jobs, Undo(j) PROVE UNCHANGED counts
  BY <1>8 DEF Undo, runner, counts
<1>9. ASSUME NEW j \in Jobs, Finish(j) PROVE UNCHANGED counts
  BY <1>9 DEF Finish, runner, counts
<1>10. ASSUME NEW j \in Jobs, Wipe(j) PROVE UNCHANGED counts
  BY <1>10 DEF Wipe, runner, counts
<1>11. ASSUME NEW j \in Jobs, Fail(j) PROVE UNCHANGED counts
  BY <1>11 DEF Fail, runner, counts
<1> QED BY <1>1, <1>3, <1>4, <1>5, <1>6, <1>7, <1>8, <1>9, <1>10,
   <1>11 DEF Next, User, Step

-----------------------------------------------------------------------------
(* Types *)

Held  == {"rename", "probe", "link", "fill", "unlink", "mark", "undo"}
Using == {"copy", "lock", "save"} \cup Held

\* The finalizer that is in commitFile has the locks.
LockHeld == \A j \in Jobs : pc[j] \in Held <=> lock = j

\* What a finalizer works on is an entry of its archive.
EntryKnown == \A j \in Jobs : pc[j] \in Using => entry[j] \in InArchive(j)

\* The file that is being filled is there.
FillsFile == \A j \in Jobs : pc[j] = "fill" => file[Target(j)] \in Data

Shape == TypeOK /\ LockHeld /\ EntryKnown /\ FillsFile

LEMMA ArchiveType ==
    ASSUME NEW j \in Jobs
    PROVE  /\ InArchive(j) \subseteq Entries
           /\ \A i \in DOMAIN Archive[j] : Archive[j][i] \in InArchive(j)
BY ArchiveAssumption DEF InArchive

LEMMA TargetType ==
    ASSUME RunnerTypeOK, EntryKnown, NEW j \in Jobs, pc[j] \in Using
    PROVE  entry[j] \in Entries /\ Target(j) \in File
BY ArchiveType DEF EntryKnown, RunnerTypeOK, Target, File

\* A finalizer that goes to one of its places.
LEMMA GotoType ==
    ASSUME RunnerTypeOK, NEW j \in Jobs, NEW label \in Pc, Goto(j, label),
           lock' \in Jobs \cup {None}, cand' \in [Jobs -> 0 .. MaxIndex]
    PROVE  RunnerTypeOK'
BY DEF RunnerTypeOK, Goto

LEMMA TryNextType ==
    ASSUME RunnerTypeOK, NEW j \in Jobs, TryNext(j), UNCHANGED lock
    PROVE  RunnerTypeOK'
<1>1. CASE cand[j] < MaxIndex
  <2>1. cand[j] + 1 \in 0 .. MaxIndex
    BY <1>1, BoundsAssumption DEF RunnerTypeOK
  <2>2. cand' \in [Jobs -> 0 .. MaxIndex]
    BY <1>1, <2>1 DEF RunnerTypeOK, TryNext
  <2> QED BY <1>1, <2>2, GotoType DEF RunnerTypeOK, TryNext, Pc
<1>2. CASE ~ (cand[j] < MaxIndex)
  BY <1>2, GotoType DEF RunnerTypeOK, TryNext, Pc
<1> QED BY <1>1, <1>2

LEMMA RemoveType ==
    ASSUME StoreTypeOK, NEW j \in Jobs, RemoveTemp(j)
    PROVE  /\ temp' \in [Jobs -> [Entries -> {"none", "partial", "whole"}]]
           /\ links' \in [Jobs -> [Entries -> SUBSET File]]
BY DEF StoreTypeOK, RemoveTemp

LEMMA WriteType ==
    ASSUME StoreTypeOK, NEW j \in Jobs, NEW e, NEW state \in {"partial", "whole"},
           WriteTemp(j, e, state)
    PROVE  StoreTypeOK'
<1>1. temp' \in [Jobs -> [Entries -> {"none", "partial", "whole"}]]
  BY DEF WriteTemp, StoreTypeOK
<1>2. [by |-> j, whole |-> state = "whole"] \in Data
  BY DEF Data
<1>3. file' \in [File -> {None} \cup Data]
  BY <1>2 DEF WriteTemp, StoreTypeOK
<1> QED BY <1>1, <1>3 DEF StoreTypeOK, WriteTemp

\* A file of the job is put under a name.
LEMMA PutType ==
    ASSUME StoreTypeOK, NEW j \in Jobs \cup {Foreign}, NEW whole \in BOOLEAN, NEW f,
           file' = [file EXCEPT ![f] = [by |-> j, whole |-> whole]]
    PROVE  file' \in [File -> {None} \cup Data]
<1>1. [by |-> j, whole |-> whole] \in Data
  BY DEF Data
<1> QED BY <1>1 DEF StoreTypeOK

LEMMA LoadedType ==
    ASSUME CacheTypeOK, NEW j \in Jobs
    PROVE  Remembered(j) \in SUBSET Entries
BY DEF CacheTypeOK, Remembered, Loaded

\* Part files are there or not, and a copy into one that was not counts.
LEMMA Prepared ==
    ASSUME TypeOK, NEW set, NEW here, Prepare(set, here)
    PROVE  /\ part' \in [Jobs -> BOOLEAN] /\ fetches' \in [Jobs -> Nat]
           /\ foreigners' \in Nat
           /\ \A j \in Jobs \ set : part'[j] = part[j] /\ fetches'[j] = fetches[j]
           /\ \A j \in Jobs \cap set : part'[j] <=> (Loaded(j) \/ j \in here)
<1> USE DEF TypeOK, CacheTypeOK, CountTypeOK
<1>1. part' \in [Jobs -> BOOLEAN]
  BY DEF Prepare, Loaded
<1>2. fetches' \in [Jobs -> Nat]
  BY DEF Prepare
<1>3. foreigners' \in Nat
  BY DEF Prepare
<1>4. \A j \in Jobs : part'[j] = IF j \in set THEN Loaded(j) \/ j \in here ELSE part[j]
  BY DEF Prepare
<1>5. \A j \in Jobs : fetches'[j] = IF j \in here /\ ~ part[j] THEN fetches[j] + 1
                                   ELSE fetches[j]
  BY DEF Prepare
<1>6. /\ \A j \in here : j \in set /\ ~ Loaded(j)
      /\ \A j \in Jobs : Loaded(j) => part[j]
  BY DEF Prepare, Loaded
<1>7. \A j \in Jobs \ set : part'[j] = part[j] /\ fetches'[j] = fetches[j]
  BY <1>4, <1>5, <1>6
<1> QED BY <1>1, <1>2, <1>3, <1>4, <1>7

LEMMA CopyCounts ==
    ASSUME TypeOK, NEW set, NEW here, Prepare(set, here), NEW j \in Jobs
    PROVE  \/ fetches'[j] = fetches[j] /\ (part'[j] => part[j])
           \/ fetches'[j] = fetches[j] + 1
<1> USE DEF TypeOK, CacheTypeOK, CountTypeOK
<1>1. part'[j] = IF j \in set THEN Loaded(j) \/ j \in here ELSE part[j]
  BY DEF Prepare
<1>2. fetches'[j] = IF j \in here /\ ~ part[j] THEN fetches[j] + 1 ELSE fetches[j]
  BY DEF Prepare
<1>3. CASE j \in here /\ ~ part[j]
  BY <1>2, <1>3
<1>4. CASE ~ (j \in here /\ ~ part[j])
  <2>1. fetches'[j] = fetches[j]
    BY <1>2, <1>4
  <2>2. part'[j] => part[j]
    BY <1>1, <1>4 DEF Loaded
  <2> QED BY <2>1, <2>2
<1> QED BY <1>3, <1>4

\* An open changes its job only, and a job that starts with the archive has the
\* part file, as after a restart.
LEMMA Opened ==
    ASSUME TypeOK, NEW i \in Jobs, Open(i)
    PROVE  /\ \A j \in Jobs \ {i} :
                 status'[j] = status[j] /\ part'[j] = part[j] /\ fetches'[j] = fetches[j]
           /\ status'[i] \in {"pending", "verifying"}
           /\ status'[i] = "verifying" => part'[i]
           /\ \/ fetches'[i] = fetches[i] /\ (part'[i] => part[i])
              \/ fetches'[i] = fetches[i] + 1
<1>1. PICK here \in SUBSET {i} :
         Prepare({i}, here) /\ status' = [status EXCEPT ![i] = Arrived(i, i \in here)]
  BY DEF Open
<1>2. /\ status'[i] = Arrived(i, i \in here)
      /\ \A j \in Jobs \ {i} : status'[j] = status[j]
  BY <1>1 DEF TypeOK, JobTypeOK
<1>3. /\ \A j \in Jobs \ {i} : part'[j] = part[j] /\ fetches'[j] = fetches[j]
      /\ part'[i] <=> (Loaded(i) \/ i \in here)
      /\ \/ fetches'[i] = fetches[i] /\ (part'[i] => part[i])
         \/ fetches'[i] = fetches[i] + 1
  <2>1. /\ \A j \in Jobs \ {i} : part'[j] = part[j] /\ fetches'[j] = fetches[j]
        /\ \A j \in Jobs \cap {i} : part'[j] <=> (Loaded(j) \/ j \in here)
    BY <1>1, Prepared, Zenon
  <2>2. part'[i] <=> (Loaded(i) \/ i \in here)
    BY <2>1
  <2>3. \/ fetches'[i] = fetches[i] /\ (part'[i] => part[i])
        \/ fetches'[i] = fetches[i] + 1
    BY <1>1, CopyCounts, Zenon
  <2> QED BY <2>1, <2>2, <2>3
<1> QED BY <1>2, <1>3 DEF Arrived

LEMMA Restarted ==
    ASSUME TypeOK, Restart, NEW j \in Jobs
    PROVE  /\ status'[j] \in {"none", "pending", "verifying"}
           /\ status'[j] = "verifying" => part'[j]
           /\ status'[j] # "none" => queued[j]
           /\ \/ fetches'[j] = fetches[j] /\ (part'[j] => part[j])
              \/ fetches'[j] = fetches[j] + 1
<1> DEFINE waiting == {i \in Jobs : queued[i]}
<1>1. PICK here \in SUBSET Jobs :
         /\ Prepare(waiting, here)
         /\ status' = [i \in Jobs |-> IF queued[i] THEN Arrived(i, i \in here) ELSE "none"]
  BY DEF Restart
<1>2. status'[j] = IF queued[j] THEN Arrived(j, j \in here) ELSE "none"
  BY <1>1
<1>3. /\ j \in waiting => (part'[j] <=> (Loaded(j) \/ j \in here))
      /\ \/ fetches'[j] = fetches[j] /\ (part'[j] => part[j])
         \/ fetches'[j] = fetches[j] + 1
  <2> HIDE DEF waiting
  <2>1. \A i \in Jobs \cap waiting : part'[i] <=> (Loaded(i) \/ i \in here)
    BY <1>1, Prepared, Zenon
  <2>2. j \in waiting => (part'[j] <=> (Loaded(j) \/ j \in here))
    BY <2>1
  <2>3. \/ fetches'[j] = fetches[j] /\ (part'[j] => part[j])
        \/ fetches'[j] = fetches[j] + 1
    BY <1>1, CopyCounts, Zenon
  <2> QED BY <2>2, <2>3
<1> QED BY <1>2, <1>3 DEF Arrived

LEMMA JobTypeStep == ASSUME Shape, [Next]_vars PROVE JobTypeOK'
<1> USE DEF Shape, TypeOK
<1>1. CASE UNCHANGED job
  BY <1>1 DEF JobTypeOK, job
<1>2. CASE Crash
  BY <1>2 DEF Crash, JobTypeOK, Status
<1>3. CASE Restart
  <2>1. status' \in [Jobs -> Status]
    <3>1. PICK here \in SUBSET Jobs :
             status' = [j \in Jobs |-> IF queued[j] THEN Arrived(j, j \in here) ELSE "none"]
      BY <1>3 DEF Restart
    <3>2. \A i \in Jobs : Arrived(i, i \in here) \in Status
      BY DEF Status, Arrived
    <3> QED BY <3>1, <3>2 DEF Status
  <2>2. extracted' \in [Jobs -> SUBSET Entries]
    BY <1>3, LoadedType DEF Restart
  <2>3. live' \in [Jobs -> BOOLEAN] /\ gen' \in [Jobs -> Nat]
    BY <1>3 DEF Restart, CacheTypeOK, JobTypeOK
  <2> QED BY <2>1, <2>2, <2>3 DEF JobTypeOK
<1>4. ASSUME NEW j \in Jobs, Open(j) PROVE JobTypeOK'
  <2>1. status' \in [Jobs -> Status]
    <3>1. PICK here \in SUBSET {j} : status' = [status EXCEPT ![j] = Arrived(j, j \in here)]
      BY <1>4 DEF Open
    <3>2. Arrived(j, j \in here) \in Status
      BY DEF Status, Arrived
    <3> QED BY <3>1, <3>2 DEF JobTypeOK
  <2>2. extracted' \in [Jobs -> SUBSET Entries]
    BY <1>4, LoadedType DEF Open, JobTypeOK
  <2> QED BY <1>4, <2>1, <2>2 DEF Open, JobTypeOK
<1>5. ASSUME NEW j \in Jobs, Fetch(j) \/ Begin(j) PROVE JobTypeOK'
  BY <1>5 DEF Fetch, Begin, JobTypeOK, Status
<1>6. ASSUME NEW j \in Jobs, Pause(j) \/ Cancel(j) PROVE JobTypeOK'
  BY <1>6 DEF Pause, Cancel, Stop, JobTypeOK, Status
<1>7. ASSUME NEW j \in Jobs, Resume(j) PROVE JobTypeOK'
  <2>1. Kept(j) \in SUBSET Entries
    BY DEF Kept, JobTypeOK
  <2> QED BY <1>7, <2>1 DEF Resume, JobTypeOK, Status
<1>8. ASSUME NEW j \in Jobs, Mark(j) PROVE JobTypeOK'
  <2>1. extracted[j] \cup {entry[j]} \in SUBSET Entries
    BY <1>8, TargetType DEF Mark, JobTypeOK, Using, Held
  <2> QED BY <1>8, <2>1 DEF Mark, JobTypeOK
<1>9. ASSUME NEW j \in Jobs, Finish(j) \/ Fail(j) PROVE JobTypeOK'
  BY <1>9 DEF Finish, Fail, JobTypeOK, Status
<1> QED BY <1>1, <1>2, <1>3, <1>4, <1>5, <1>6, <1>7, <1>8, <1>9, JobWriters

LEMMA RunnerTypeStep == ASSUME TypeOK, [Next]_vars PROVE RunnerTypeOK'
<1> USE DEF TypeOK
<1>1. CASE UNCHANGED <<lock, runner>>
  BY <1>1 DEF RunnerTypeOK, runner
<1>2. CASE Crash
  BY <1>2, BoundsAssumption DEF Crash, RunnerTypeOK, Pc
<1>3. ASSUME NEW j \in Jobs, Begin(j) PROVE RunnerTypeOK'
  BY <1>3 DEF Begin, RunnerTypeOK, JobTypeOK, Pc
<1>4. ASSUME NEW j \in Jobs, NextEntry(j) PROVE RunnerTypeOK'
  <2>1. \A i \in DOMAIN Archive[j] : Archive[j][i] \in Entries
    BY ArchiveAssumption
  <2>2. CASE \E label \in {"finish", "fail"} : Goto(j, label)
    BY <1>4, <2>2, GotoType DEF NextEntry, RunnerTypeOK, Pc
  <2>3. CASE \E i \in DOMAIN Archive[j] :
                /\ pc' = [pc EXCEPT ![j] = "copy"] /\ UNCHANGED work
                /\ entry' = [entry EXCEPT ![j] = Archive[j][i]]
    BY <1>4, <2>1, <2>3 DEF NextEntry, RunnerTypeOK, Pc
  <2> QED BY <1>4, <2>2, <2>3 DEF NextEntry
<1>5. ASSUME NEW j \in Jobs, Copy(j) \/ Rename(j) \/ Fill(j) PROVE RunnerTypeOK'
  <2>1. \E label \in Pc : Goto(j, label)
    BY <1>5 DEF Copy, Rename, Fill, Pc
  <2> QED BY <1>5, <2>1, GotoType DEF Copy, Rename, Fill, RunnerTypeOK
<1>6. ASSUME NEW j \in Jobs, Lock(j) PROVE RunnerTypeOK'
  <2>1. \E label \in Pc : Goto(j, label)
    BY <1>6 DEF Lock, Pc
  <2>2. lock' \in Jobs \cup {None} /\ cand' \in [Jobs -> 0 .. MaxIndex]
    BY <1>6, BoundsAssumption DEF Lock, RunnerTypeOK
  <2> QED BY <2>1, <2>2, GotoType
<1>7. ASSUME NEW j \in Jobs, Probe(j) PROVE RunnerTypeOK'
  <2>1. CASE TryNext(j)
    BY <1>7, <2>1, TryNextType DEF Probe
  <2>2. CASE \E label \in {"link", "mark"} : Goto(j, label) /\ UNCHANGED cand
    BY <1>7, <2>2, GotoType DEF Probe, Pc, RunnerTypeOK
  <2> QED BY <1>7, <2>1, <2>2 DEF Probe
<1>8. ASSUME NEW j \in Jobs, Link(j) PROVE RunnerTypeOK'
  <2>1. CASE TryNext(j)
    BY <1>8, <2>1, TryNextType DEF Link
  <2>2. CASE \E label \in {"unlink", "fill"} : Goto(j, label) /\ UNCHANGED cand
    BY <1>8, <2>2, GotoType DEF Link, Pc, RunnerTypeOK
  <2> QED BY <1>8, <2>1, <2>2 DEF Link
<1>9. ASSUME NEW j \in Jobs, Unlink(j) \/ Mark(j) \/ Undo(j) PROVE RunnerTypeOK'
  <2>1. \E label \in Pc : Goto(j, label)
    BY <1>9 DEF Unlink, Mark, Undo, Pc
  <2> QED BY <1>9, <2>1, GotoType DEF Unlink, Mark, Undo, RunnerTypeOK
<1>10. ASSUME NEW j \in Jobs, Save(j) \/ Finish(j) \/ Wipe(j) \/ Fail(j) \/ Forget(j)
       PROVE  RunnerTypeOK'
  <2>1. \E label \in Pc : Goto(j, label)
    BY <1>10 DEF Save, Finish, Wipe, Fail, Forget, Pc
  <2> QED BY <1>10, <2>1, GotoType DEF Save, Finish, Wipe, Fail, Forget, RunnerTypeOK
<1> QED BY <1>1, <1>2, <1>3, <1>4, <1>5, <1>6, <1>7, <1>8, <1>9, <1>10, RunnerWriters

LEMMA CacheTypeStep == ASSUME TypeOK, [Next]_vars PROVE CacheTypeOK'
<1> USE DEF TypeOK, CacheTypeOK
<1>1. CASE UNCHANGED cache
  BY <1>1 DEF cache
<1>2. ASSUME NEW j \in Jobs, Pause(j) \/ Cancel(j) \/ Resume(j) PROVE CacheTypeOK'
  <2>1. SaveJobs /\ UNCHANGED <<part, saved>>
    BY <1>2 DEF Pause, Cancel, Resume, Stop
  <2>2. queued' \in [Jobs -> BOOLEAN]
    BY <2>1 DEF SaveJobs
  <2> QED BY <2>1, <2>2
<1>6. ASSUME NEW j \in Jobs, Open(j) PROVE CacheTypeOK'
  <2>1. SaveJobs /\ UNCHANGED saved /\ \E here : Prepare({j}, here)
    BY <1>6 DEF Open
  <2>2. queued' \in [Jobs -> BOOLEAN]
    BY <2>1 DEF SaveJobs
  <2> QED BY <2>1, <2>2, Prepared
<1>7. CASE Restart
  <2>1. UNCHANGED <<queued, saved>> /\ \E set, here : Prepare(set, here)
    BY <1>7 DEF Restart
  <2> QED BY <2>1, Prepared
<1>3. ASSUME NEW j \in Jobs, Fetch(j) \/ Save(j) PROVE CacheTypeOK'
  BY <1>3 DEF Fetch, Save, JobTypeOK
<1>4. ASSUME NEW j \in Jobs, Clean(j) \/ Wipe(j) PROVE CacheTypeOK'
  BY <1>4 DEF Clean, Wipe
<1>5. ASSUME NEW j \in Jobs, Forget(j) PROVE CacheTypeOK'
  BY <1>5 DEF Forget
<1> QED BY <1>1, <1>2, <1>3, <1>4, <1>5, <1>6, <1>7, CacheWriters

LEMMA StoreTypeStep == ASSUME Shape, [Next]_vars PROVE StoreTypeOK'
<1> USE DEF Shape, TypeOK
<1>1. CASE UNCHANGED store
  BY <1>1 DEF StoreTypeOK, store
<1>2. ASSUME NEW f \in File, Intrude(f) PROVE StoreTypeOK'
  BY <1>2, PutType DEF Intrude, StoreTypeOK
<1>3. ASSUME NEW j \in Jobs, NextEntry(j) PROVE StoreTypeOK'
  <2>1. \/ UNCHANGED store
        \/ \E i \in DOMAIN Archive[j] : WriteTemp(j, Archive[j][i], "partial")
    BY <1>3 DEF NextEntry
  <2> QED BY <1>1, <2>1, WriteType
<1>4. ASSUME NEW j \in Jobs, Copy(j) PROVE StoreTypeOK'
  <2>1. CASE WriteTemp(j, entry[j], "whole")
    BY <2>1, WriteType
  <2>2. CASE RemoveTemp(j) /\ UNCHANGED file
    BY <2>2, RemoveType DEF StoreTypeOK
  <2> QED BY <1>4, <2>1, <2>2 DEF Copy
<1>5. ASSUME NEW j \in Jobs, Lock(j) \/ Unlink(j) \/ Mark(j) \/ Undo(j)
      PROVE  StoreTypeOK'
  <2>1. UNCHANGED store \/ (RemoveTemp(j) /\ UNCHANGED file)
    <3>1. Lock(j) => UNCHANGED store \/ (RemoveTemp(j) /\ UNCHANGED file)
      BY DEF Lock, store
    <3>2. Unlink(j) \/ Mark(j) \/ Undo(j) => RemoveTemp(j) /\ UNCHANGED file
      BY DEF Unlink, Mark, Undo
    <3> QED BY <1>5, <3>1, <3>2
  <2> QED BY <1>1, <2>1, RemoveType DEF StoreTypeOK
<1>6. ASSUME NEW j \in Jobs, Rename(j) PROVE StoreTypeOK'
  <2>1. \/ UNCHANGED store
        \/ /\ file' = [file EXCEPT ![Target(j)] = [by |-> j, whole |-> TRUE]]
           /\ RemoveTemp(j)
    BY <1>6 DEF Rename
  <2> QED BY <1>1, <2>1, RemoveType, PutType DEF StoreTypeOK
<1>7. ASSUME NEW j \in Jobs, Link(j) PROVE StoreTypeOK'
  <2>1. CASE UNCHANGED store
    BY <1>1, <2>1
  <2>2. CASE /\ file' = [file EXCEPT ![Target(j)] = [by |-> j, whole |-> TRUE]]
             /\ links' = [links EXCEPT ![j][entry[j]] = @ \cup {Target(j)}]
             /\ UNCHANGED temp
    <3>1. Target(j) \in File
      BY <1>7, TargetType DEF Link, Using, Held
    <3>2. links' \in [Jobs -> [Entries -> SUBSET File]]
      BY <2>2, <3>1 DEF StoreTypeOK
    <3> QED BY <2>2, <3>2, PutType DEF StoreTypeOK
  <2>3. CASE /\ file' = [file EXCEPT ![Target(j)] = [by |-> j, whole |-> FALSE]]
             /\ UNCHANGED <<temp, links>>
    BY <2>3, PutType DEF StoreTypeOK
  <2> QED BY <1>7, <2>1, <2>2, <2>3 DEF Link
<1>8. ASSUME NEW j \in Jobs, Fill(j) PROVE StoreTypeOK'
  <2>1. file' \in [File -> {None} \cup Data]
    <3>1. CASE file' = [file EXCEPT ![Target(j)].whole = TRUE]
      <4>1. [file[Target(j)] EXCEPT !.whole = TRUE] \in Data
        BY <1>8 DEF Fill, FillsFile, Data
      <4> QED BY <3>1, <4>1 DEF StoreTypeOK
    <3>2. CASE file' = Discarded(j)
      BY <3>2 DEF Discarded, StoreTypeOK
    <3> QED BY <1>8, <3>1, <3>2 DEF Fill
  <2> QED BY <1>8, <2>1 DEF Fill, StoreTypeOK
<1> QED BY <1>1, <1>2, <1>3, <1>4, <1>5, <1>6, <1>7, <1>8, StoreWriters

LEMMA CountTypeStep == ASSUME TypeOK, [Next]_vars PROVE CountTypeOK'
<1> USE DEF TypeOK, CountTypeOK, Works, Fails, Event
<1>1. CASE UNCHANGED counts
  BY <1>1 DEF counts
<1>2. CASE Crash
  BY <1>2 DEF Crash
<1>3. ASSUME NEW f \in File, Intrude(f) PROVE CountTypeOK'
  BY <1>3 DEF Intrude
<1>4. ASSUME NEW j \in Jobs, Pause(j) \/ Cancel(j) \/ Resume(j) \/ Clean(j)
      PROVE  CountTypeOK'
  BY <1>4 DEF Pause, Cancel, Resume, Clean, Stop
<1>8. ASSUME NEW j \in Jobs, Open(j) PROVE CountTypeOK'
  <2>1. Event /\ UNCHANGED failures /\ \E here : Prepare({j}, here)
    BY <1>8 DEF Open
  <2> QED BY <2>1, Prepared
<1>9. CASE Restart
  <2>1. UNCHANGED <<events, failures>> /\ \E set, here : Prepare(set, here)
    BY <1>9 DEF Restart
  <2> QED BY <2>1, Prepared
<1>5. ASSUME NEW j \in Jobs, Fetch(j) PROVE CountTypeOK'
  BY <1>5 DEF Fetch
<1>6. ASSUME NEW j \in Jobs, NextEntry(j) \/ Copy(j) \/ Rename(j) \/ Link(j) \/ Fill(j)
      PROVE  CountTypeOK'
  <2>1. (Works \/ Fails) /\ UNCHANGED <<foreigners, fetches>>
    BY <1>6 DEF NextEntry, Copy, Rename, Link, Fill
  <2> QED BY <2>1
<1>7. ASSUME NEW j \in Jobs, Save(j) \/ Forget(j) PROVE CountTypeOK'
  BY <1>7 DEF Save, Forget
<1> QED BY <1>1, <1>2, <1>3, <1>4, <1>5, <1>6, <1>7, <1>8, <1>9, CountWriters

\* A step that neither enters nor leaves commitFile leaves the locks alone.
LEMMA SamePlace ==
    ASSUME LockHeld, RunnerTypeOK, NEW j \in Jobs, NEW label \in Pc,
           pc' = [pc EXCEPT ![j] = label], UNCHANGED lock,
           label \in Held <=> pc[j] \in Held
    PROVE  LockHeld'
BY DEF LockHeld, RunnerTypeOK

\* commitFile ends with the locks.
LEMMA GivenBack ==
    ASSUME LockHeld, RunnerTypeOK, NEW j \in Jobs, NEW label \in Pc \ Held,
           pc' = [pc EXCEPT ![j] = label], lock' = None, pc[j] \in Held
    PROVE  LockHeld'
BY NamesAssumption DEF LockHeld, RunnerTypeOK

LEMMA LockHeldStep == ASSUME RunnerTypeOK, LockHeld, [Next]_vars PROVE LockHeld'
<1>1. CASE UNCHANGED <<lock, runner>>
  BY <1>1 DEF LockHeld, runner
<1>2. CASE Crash
  BY <1>2, NamesAssumption DEF Crash, LockHeld, Held
<1>3. ASSUME NEW j \in Jobs, Begin(j) \/ NextEntry(j) \/ Copy(j) PROVE LockHeld'
  <2>1. \E label \in {"next", "finish", "copy", "fail", "lock"} :
           pc' = [pc EXCEPT ![j] = label]
    BY <1>3 DEF Begin, NextEntry, Copy, Goto
  <2> QED BY <1>3, <2>1, SamePlace DEF Begin, NextEntry, Copy, Held, Pc
<1>4. ASSUME NEW j \in Jobs, Save(j) \/ Finish(j) \/ Wipe(j) \/ Fail(j) \/ Forget(j)
      PROVE  LockHeld'
  <2>1. \E label \in {"next", "fail", "wipe", "forget", "idle"} :
           pc' = [pc EXCEPT ![j] = label]
    BY <1>4 DEF Save, Finish, Wipe, Fail, Forget, Goto
  <2> QED BY <1>4, <2>1, SamePlace DEF Save, Finish, Wipe, Fail, Forget, Held, Pc
<1>5. ASSUME NEW j \in Jobs, Lock(j) PROVE LockHeld'
  <2>1. CASE MayCommit(j)
    BY <1>5, <2>1, NamesAssumption DEF Lock, Goto, LockHeld, RunnerTypeOK, Held
  <2>2. CASE ~ MayCommit(j)
    BY <1>5, <2>2, SamePlace DEF Lock, Goto, Held, Pc
  <2> QED BY <2>1, <2>2
<1>6. ASSUME NEW j \in Jobs, Rename(j) \/ Probe(j) \/ Link(j) \/ Fill(j) \/ Unlink(j)
      PROVE  LockHeld'
  <2>1. \E label \in Held : pc' = [pc EXCEPT ![j] = label]
    BY <1>6 DEF Rename, Probe, Link, Fill, Unlink, TryNext, Goto, Held
  <2> QED BY <1>6, <2>1, SamePlace DEF Rename, Probe, Link, Fill, Unlink, Held, Pc
<1>7. ASSUME NEW j \in Jobs, Mark(j) \/ Undo(j) PROVE LockHeld'
  BY <1>7, GivenBack DEF Mark, Undo, Goto, Held, Pc
<1> QED BY <1>1, <1>2, <1>3, <1>4, <1>5, <1>6, <1>7, RunnerWriters

LEMMA EntryKnownStep == ASSUME RunnerTypeOK, EntryKnown, [Next]_vars PROVE EntryKnown'
<1>1. CASE UNCHANGED <<lock, runner>>
  BY <1>1 DEF EntryKnown, runner
<1>2. CASE Crash
  BY <1>2 DEF Crash, EntryKnown, Using, Held
<1>3. ASSUME NEW j \in Jobs, NEW label \in Pc, Goto(j, label),
             label \in Using => pc[j] \in Using
      PROVE  EntryKnown'
  BY <1>3 DEF Goto, EntryKnown, RunnerTypeOK
<1>4. ASSUME NEW j \in Jobs, Begin(j) PROVE EntryKnown'
  BY <1>4 DEF Begin, EntryKnown, RunnerTypeOK, Using, Held
<1>5. ASSUME NEW j \in Jobs, NextEntry(j) PROVE EntryKnown'
  <2>1. CASE \E label \in {"finish", "fail"} : Goto(j, label)
    BY <1>3, <2>1 DEF Pc, Using, Held
  <2>2. CASE \E i \in DOMAIN Archive[j] :
                /\ pc' = [pc EXCEPT ![j] = "copy"]
                /\ entry' = [entry EXCEPT ![j] = Archive[j][i]]
    BY <2>2, ArchiveType DEF EntryKnown, RunnerTypeOK
  <2> QED BY <1>5, <2>1, <2>2 DEF NextEntry
<1>6. ASSUME NEW j \in Jobs, Copy(j) \/ Lock(j) \/ Rename(j) \/ Fill(j)
      PROVE  EntryKnown'
  <2>1. pc[j] \in Using /\ \E label \in Pc : Goto(j, label)
    BY <1>6 DEF Copy, Lock, Rename, Fill, Pc, Using, Held
  <2> QED BY <1>3, <2>1
<1>7. ASSUME NEW j \in Jobs, Probe(j) \/ Link(j) PROVE EntryKnown'
  <2>1. pc[j] \in Using /\ \E label \in Pc : Goto(j, label)
    BY <1>7 DEF Probe, Link, TryNext, Pc, Using, Held
  <2> QED BY <1>3, <2>1
<1>8. ASSUME NEW j \in Jobs, Unlink(j) \/ Mark(j) \/ Undo(j) \/ Save(j)
      PROVE  EntryKnown'
  <2>1. pc[j] \in Using /\ \E label \in Pc : Goto(j, label)
    BY <1>8 DEF Unlink, Mark, Undo, Save, Pc, Using, Held
  <2> QED BY <1>3, <2>1
<1>9. ASSUME NEW j \in Jobs, Finish(j) \/ Wipe(j) \/ Fail(j) \/ Forget(j)
      PROVE  EntryKnown'
  <2>1. \E label \in {"wipe", "forget", "idle"} : Goto(j, label)
    BY <1>9 DEF Finish, Wipe, Fail, Forget
  <2> QED BY <1>3, <2>1 DEF Pc, Using, Held
<1> QED BY <1>1, <1>2, <1>4, <1>5, <1>6, <1>7, <1>8, <1>9, RunnerWriters

-----------------------------------------------------------------------------
(* The files of the destination *)

\* A file there changes through a temporary file that is linked to it, or by the
\* finalizer that has the locks.
LEMMA FileWriters ==
    ASSUME [Next]_vars
    PROVE  \/ UNCHANGED file
           \/ \E f \in File : Intrude(f)
           \/ \E j \in Jobs : pc[j] = "next" /\ \E i \in DOMAIN Archive[j] :
                 WriteTemp(j, Archive[j][i], "partial")
           \/ \E j \in Jobs : pc[j] = "copy" /\ WriteTemp(j, entry[j], "whole")
           \/ \E j \in Jobs : Rename(j) \/ Link(j) \/ Fill(j)
<1>1. CASE UNCHANGED store
  BY <1>1 DEF store
<1>2. ASSUME NEW j \in Jobs, NextEntry(j), ~ UNCHANGED file
      PROVE  pc[j] = "next" /\ \E i \in DOMAIN Archive[j] :
                 WriteTemp(j, Archive[j][i], "partial")
  <2>1. \/ UNCHANGED store
        \/ \E i \in DOMAIN Archive[j] : WriteTemp(j, Archive[j][i], "partial")
    BY <1>2 DEF NextEntry
  <2> QED BY <1>2, <2>1 DEF NextEntry, store
<1>3. ASSUME NEW j \in Jobs, Copy(j), ~ UNCHANGED file
      PROVE  pc[j] = "copy" /\ WriteTemp(j, entry[j], "whole")
  BY <1>3 DEF Copy
<1>4. ASSUME NEW j \in Jobs, Lock(j) \/ Unlink(j) \/ Mark(j) \/ Undo(j)
      PROVE  UNCHANGED file
  <2>1. Lock(j) => UNCHANGED file
    BY DEF Lock, store
  <2>2. Unlink(j) \/ Mark(j) \/ Undo(j) => UNCHANGED file
    BY DEF Unlink, Mark, Undo
  <2> QED BY <1>4, <2>1, <2>2
<1> QED BY <1>1, <1>2, <1>3, <1>4, StoreWriters

\* The target of a finalizer in commitFile is its own while it stays there.
LEMMA TargetKept ==
    ASSUME RunnerTypeOK, LockHeld, [Next]_vars, NEW j \in Jobs, pc'[j] = "fill",
           pc[j] = "fill" \/ Link(j)
    PROVE  Target(j)' = Target(j)
<1> SUFFICES entry'[j] = entry[j] /\ cand'[j] = cand[j]
  BY DEF Target
<1>1. CASE UNCHANGED <<lock, runner>>
  BY <1>1 DEF runner
<1>2. CASE Crash
  BY <1>2 DEF Crash
<1>3. ASSUME NEW i \in Jobs, Begin(i) \/ NextEntry(i)
      PROVE  entry'[j] = entry[j] /\ cand'[j] = cand[j]
  <2>1. pc[i] \in {"idle", "next"} /\ UNCHANGED cand
    BY <1>3 DEF Begin, NextEntry
  <2>2. entry' = entry \/ \E e : entry' = [entry EXCEPT ![i] = e]
    BY <1>3 DEF Begin, NextEntry, Goto
  <2>3. i # j
    BY <2>1 DEF Link
  <2> QED BY <2>1, <2>2, <2>3 DEF RunnerTypeOK
<1>4. ASSUME NEW i \in Jobs, Copy(i) \/ Rename(i) \/ Fill(i) \/ Unlink(i) \/ Mark(i) \/ Undo(i)
      PROVE  entry'[j] = entry[j] /\ cand'[j] = cand[j]
  BY <1>4 DEF Copy, Rename, Fill, Unlink, Mark, Undo, Goto
<1>5. ASSUME NEW i \in Jobs, Save(i) \/ Finish(i) \/ Wipe(i) \/ Fail(i) \/ Forget(i)
      PROVE  entry'[j] = entry[j] /\ cand'[j] = cand[j]
  BY <1>5 DEF Save, Finish, Wipe, Fail, Forget, Goto
<1>6. ASSUME NEW i \in Jobs, Lock(i) PROVE entry'[j] = entry[j] /\ cand'[j] = cand[j]
  <2>1. i # j
    BY <1>6 DEF Lock, Link
  <2> QED BY <1>6, <2>1 DEF Lock, Goto, RunnerTypeOK
<1>7. ASSUME NEW i \in Jobs, Probe(i) PROVE entry'[j] = entry[j] /\ cand'[j] = cand[j]
  <2>1. pc[i] = "probe" /\ lock = i
    BY <1>7 DEF Probe, LockHeld, Held
  <2>2. lock = j /\ pc[j] # "probe"
    BY DEF LockHeld, Held, Link
  <2> QED BY <2>1, <2>2
<1>8. ASSUME NEW i \in Jobs, Link(i) PROVE entry'[j] = entry[j] /\ cand'[j] = cand[j]
  <2>1. i = j /\ UNCHANGED entry
    BY <1>8 DEF Link, LockHeld, Held, Goto, TryNext
  <2>2. UNCHANGED cand
    BY <1>8, <2>1 DEF Link, TryNext, Goto, RunnerTypeOK
  <2> QED BY <2>1, <2>2
<1> QED BY <1>1, <1>2, <1>3, <1>4, <1>5, <1>6, <1>7, <1>8, RunnerWriters

\* Who is at filling a file was there before, or has just linked nothing.
LEMMA FillFrom ==
    ASSUME RunnerTypeOK, [Next]_vars, NEW j \in Jobs, pc'[j] = "fill"
    PROVE  \/ pc[j] = "fill"
           \/ Link(j) /\ file' = [file EXCEPT ![Target(j)] = [by |-> j, whole |-> FALSE]]
<1>1. CASE UNCHANGED <<lock, runner>>
  BY <1>1 DEF runner
<1>2. CASE Crash
  BY <1>2 DEF Crash
<1>3. ASSUME NEW i \in Jobs, NEW label \in Pc \ {"fill"}, pc' = [pc EXCEPT ![i] = label]
      PROVE  pc[j] = "fill"
  BY <1>3 DEF RunnerTypeOK
<1>4. ASSUME NEW i \in Jobs, Begin(i) \/ NextEntry(i) \/ Copy(i) \/ Lock(i)
      PROVE  \E label \in Pc \ {"fill"} : pc' = [pc EXCEPT ![i] = label]
  BY <1>4 DEF Begin, NextEntry, Copy, Lock, Goto, Pc
<1>5. ASSUME NEW i \in Jobs, Rename(i) \/ Probe(i) \/ Fill(i) \/ Unlink(i) \/ Mark(i) \/ Undo(i)
      PROVE  \E label \in Pc \ {"fill"} : pc' = [pc EXCEPT ![i] = label]
  BY <1>5 DEF Rename, Probe, TryNext, Fill, Unlink, Mark, Undo, Goto, Pc
<1>6. ASSUME NEW i \in Jobs, Save(i) \/ Finish(i) \/ Wipe(i) \/ Fail(i) \/ Forget(i)
      PROVE  \E label \in Pc \ {"fill"} : pc' = [pc EXCEPT ![i] = label]
  BY <1>6 DEF Save, Finish, Wipe, Fail, Forget, Goto, Pc
<1>7. ASSUME NEW i \in Jobs, Link(i)
      PROVE  \/ \E label \in Pc \ {"fill"} : pc' = [pc EXCEPT ![i] = label]
             \/ /\ pc' = [pc EXCEPT ![i] = "fill"]
                /\ file' = [file EXCEPT ![Target(i)] = [by |-> i, whole |-> FALSE]]
  BY <1>7 DEF Link, TryNext, Goto, Pc
<1>8. ASSUME NEW i \in Jobs, Link(i)
      PROVE  \/ pc[j] = "fill"
             \/ Link(j) /\ file' = [file EXCEPT ![Target(j)] = [by |-> j, whole |-> FALSE]]
  BY <1>3, <1>7, <1>8 DEF RunnerTypeOK
<1> QED BY <1>1, <1>2, <1>3, <1>4, <1>5, <1>6, <1>8, RunnerWriters

LEMMA FillsFileStep == ASSUME Shape, [Next]_vars PROVE FillsFile'
<1> USE DEF Shape, TypeOK
<1> SUFFICES ASSUME NEW j \in Jobs, pc'[j] = "fill" PROVE file'[Target(j)'] \in Data
  BY DEF FillsFile
<1>1. CASE Link(j) /\ file' = [file EXCEPT ![Target(j)] = [by |-> j, whole |-> FALSE]]
  <2>1. Target(j) \in File
    BY <1>1, TargetType DEF Link, Using, Held
  <2> QED BY <1>1, <2>1, TargetKept DEF StoreTypeOK, Data
<1>2. CASE pc[j] = "fill"
  <2> DEFINE f == Target(j)
  <2>1. Target(j)' = f /\ f \in File /\ file[f] \in Data /\ lock = j
    BY <1>2, TargetKept, TargetType DEF FillsFile, Using, Held, LockHeld
  <2> HIDE DEF f
  <2>2. CASE \E g \in File : Intrude(g)
    BY <2>1, <2>2, NamesAssumption DEF Intrude, StoreTypeOK
  <2>3. ASSUME NEW i \in Jobs, NEW e, NEW state \in {"partial", "whole"},
               WriteTemp(i, e, state)
        PROVE  file'[f] \in Data
    <3>1. [by |-> i, whole |-> state = "whole"] \in Data
      BY DEF Data
    <3> QED BY <2>1, <2>3, <3>1 DEF WriteTemp
  <2>4. ASSUME NEW i \in Jobs, Rename(i) \/ Link(i) PROVE file'[f] \in Data
    BY <1>2, <2>1, <2>4 DEF Rename, Link, LockHeld, Held
  <2>5. ASSUME NEW i \in Jobs, Fill(i) PROVE file'[f] \in Data
    <3>1. i = j
      BY <2>1, <2>5 DEF Fill, LockHeld, Held
    <3>2. pc'[i] # "fill"
      BY <2>5 DEF Fill, Goto, RunnerTypeOK
    <3> QED BY <3>1, <3>2
  <2>6. file'[f] \in Data
    BY <2>1, <2>2, <2>3, <2>4, <2>5, FileWriters
  <2> QED BY <2>1, <2>6
<1> QED BY <1>1, <1>2, FillFrom

\* The policy and the file system are given.
LEMMA GivenKept ==
    ASSUME [Next]_vars
    PROVE  UNCHANGED chosen /\ (UNCHANGED up \/ Crash \/ Restart)
<1>1. CASE UNCHANGED vars
  BY <1>1 DEF vars
<1>2. CASE Crash
  BY <1>2 DEF Crash
<1>3. CASE Restart
  BY <1>3 DEF Restart
<1>4. ASSUME NEW f \in File, Intrude(f)
      PROVE  UNCHANGED chosen /\ UNCHANGED up
  BY <1>4 DEF Intrude, chosen
<1>5. ASSUME NEW j \in Jobs, Open(j)
      PROVE  UNCHANGED chosen /\ UNCHANGED up
  BY <1>5 DEF Open, chosen
<1>6. ASSUME NEW j \in Jobs, Fetch(j)
      PROVE  UNCHANGED chosen /\ UNCHANGED up
  BY <1>6 DEF Fetch, chosen
<1>7. ASSUME NEW j \in Jobs, Pause(j)
      PROVE  UNCHANGED chosen /\ UNCHANGED up
  BY <1>7 DEF Pause, Stop, chosen
<1>8. ASSUME NEW j \in Jobs, Cancel(j)
      PROVE  UNCHANGED chosen /\ UNCHANGED up
  BY <1>8 DEF Cancel, Stop, chosen
<1>9. ASSUME NEW j \in Jobs, Resume(j)
      PROVE  UNCHANGED chosen /\ UNCHANGED up
  BY <1>9 DEF Resume, chosen
<1>10. ASSUME NEW j \in Jobs, Clean(j)
      PROVE  UNCHANGED chosen /\ UNCHANGED up
  BY <1>10 DEF Clean, chosen
<1>11. ASSUME NEW j \in Jobs, Begin(j)
      PROVE  UNCHANGED chosen /\ UNCHANGED up
  BY <1>11 DEF Begin, chosen
<1>12. ASSUME NEW j \in Jobs, NextEntry(j)
      PROVE  UNCHANGED chosen /\ UNCHANGED up
  BY <1>12 DEF NextEntry, chosen
<1>13. ASSUME NEW j \in Jobs, Copy(j)
      PROVE  UNCHANGED chosen /\ UNCHANGED up
  BY <1>13 DEF Copy, chosen
<1>14. ASSUME NEW j \in Jobs, Lock(j)
      PROVE  UNCHANGED chosen /\ UNCHANGED up
  BY <1>14 DEF Lock, chosen
<1>15. ASSUME NEW j \in Jobs, Rename(j)
      PROVE  UNCHANGED chosen /\ UNCHANGED up
  BY <1>15 DEF Rename, chosen
<1>16. ASSUME NEW j \in Jobs, Probe(j)
      PROVE  UNCHANGED chosen /\ UNCHANGED up
  BY <1>16 DEF Probe, chosen
<1>17. ASSUME NEW j \in Jobs, Link(j)
      PROVE  UNCHANGED chosen /\ UNCHANGED up
  BY <1>17 DEF Link, chosen
<1>18. ASSUME NEW j \in Jobs, Fill(j)
      PROVE  UNCHANGED chosen /\ UNCHANGED up
  BY <1>18 DEF Fill, chosen
<1>19. ASSUME NEW j \in Jobs, Unlink(j)
      PROVE  UNCHANGED chosen /\ UNCHANGED up
  BY <1>19 DEF Unlink, chosen
<1>20. ASSUME NEW j \in Jobs, Mark(j)
      PROVE  UNCHANGED chosen /\ UNCHANGED up
  BY <1>20 DEF Mark, chosen
<1>21. ASSUME NEW j \in Jobs, Undo(j)
      PROVE  UNCHANGED chosen /\ UNCHANGED up
  BY <1>21 DEF Undo, chosen
<1>22. ASSUME NEW j \in Jobs, Save(j)
      PROVE  UNCHANGED chosen /\ UNCHANGED up
  BY <1>22 DEF Save, chosen
<1>23. ASSUME NEW j \in Jobs, Finish(j)
      PROVE  UNCHANGED chosen /\ UNCHANGED up
  BY <1>23 DEF Finish, chosen
<1>24. ASSUME NEW j \in Jobs, Wipe(j)
      PROVE  UNCHANGED chosen /\ UNCHANGED up
  BY <1>24 DEF Wipe, chosen
<1>25. ASSUME NEW j \in Jobs, Fail(j)
      PROVE  UNCHANGED chosen /\ UNCHANGED up
  BY <1>25 DEF Fail, chosen
<1>26. ASSUME NEW j \in Jobs, Forget(j)
      PROVE  UNCHANGED chosen /\ UNCHANGED up
  BY <1>26 DEF Forget, chosen
<1> QED BY <1>1, <1>2, <1>3, <1>4, <1>5, <1>6, <1>7, <1>8, <1>9, <1>10, <1>11,
   <1>12, <1>13, <1>14, <1>15, <1>16, <1>17, <1>18, <1>19, <1>20, <1>21, <1>22,
   <1>23, <1>24, <1>25, <1>26 DEF Next, User, Step

\* The types, with what they rest on: who is in commitFile has the locks, works on
\* an entry of its archive, and fills a file that is there.
LEMMA ShapeCorrect == Spec => []Shape
<1>1. Init => Shape
  <2> SUFFICES ASSUME Init PROVE Shape
    OBVIOUS
  <2>1. JobTypeOK /\ CacheTypeOK
    BY DEF Init, JobTypeOK, CacheTypeOK, Status
  <2>2. RunnerTypeOK
    BY BoundsAssumption DEF Init, RunnerTypeOK, Pc
  <2>3. StoreTypeOK /\ CountTypeOK
    BY DEF Init, StoreTypeOK, CountTypeOK
  <2>4. LockHeld /\ EntryKnown /\ FillsFile
    BY NamesAssumption DEF Init, LockHeld, EntryKnown, FillsFile, Using, Held
  <2> QED BY <2>1, <2>2, <2>3, <2>4 DEF Init, Shape, TypeOK
<1>2. Shape /\ [Next]_vars => Shape'
  <2> SUFFICES ASSUME Shape, [Next]_vars PROVE Shape'
    OBVIOUS
  <2>1. policy' \in Policies /\ linkable' \in BOOLEAN /\ up' \in BOOLEAN
    BY GivenKept DEF Shape, TypeOK, chosen, Crash, Restart
  <2>2. TypeOK'
    BY <2>1, JobTypeStep, RunnerTypeStep, CacheTypeStep, StoreTypeStep, CountTypeStep
       DEF Shape, TypeOK
  <2> QED BY <2>2, LockHeldStep, EntryKnownStep, FillsFileStep DEF Shape, TypeOK
<1> QED BY <1>1, <1>2, PTL DEF Spec

\* Every variable of an extraction has its type.
THEOREM Types == Spec => []TypeOK
<1>1. Shape => TypeOK
  BY DEF Shape
<1> QED BY <1>1, ShapeCorrect, PTL

-----------------------------------------------------------------------------
(* Who may commit *)

\* A finalizer moves by steps of its own, and a crash.
LEMMA Moves ==
    ASSUME RunnerTypeOK, [Next]_vars, NEW j \in Jobs
    PROVE  \/ pc'[j] = pc[j] /\ entry'[j] = entry[j]
           \/ Crash
           \/ Begin(j) \/ NextEntry(j) \/ Copy(j) \/ Lock(j) \/ Rename(j) \/ Probe(j)
           \/ Link(j) \/ Fill(j) \/ Unlink(j) \/ Mark(j) \/ Undo(j) \/ Save(j)
           \/ Finish(j) \/ Wipe(j) \/ Fail(j) \/ Forget(j)
<1>1. CASE UNCHANGED <<lock, runner>>
  BY <1>1 DEF runner
<1>2. ASSUME NEW i \in Jobs, NEW label, Goto(i, label), i # j
      PROVE  pc'[j] = pc[j] /\ entry'[j] = entry[j]
  BY <1>2 DEF Goto, RunnerTypeOK
<1>3. ASSUME NEW i \in Jobs, i # j, Begin(i) \/ NextEntry(i)
      PROVE  pc'[j] = pc[j] /\ entry'[j] = entry[j]
  BY <1>3 DEF Begin, NextEntry, Goto, RunnerTypeOK
<1>4. ASSUME NEW i \in Jobs, Copy(i) \/ Lock(i) \/ Rename(i) \/ Fill(i)
      PROVE  \E label : Goto(i, label)
  BY <1>4 DEF Copy, Lock, Rename, Fill
<1>5. ASSUME NEW i \in Jobs, Probe(i) \/ Link(i)
      PROVE  \E label : Goto(i, label)
  BY <1>5 DEF Probe, Link, TryNext
<1>6. ASSUME NEW i \in Jobs, Unlink(i) \/ Mark(i) \/ Undo(i) \/ Save(i)
      PROVE  \E label : Goto(i, label)
  BY <1>6 DEF Unlink, Mark, Undo, Save
<1>7. ASSUME NEW i \in Jobs, Finish(i) \/ Wipe(i) \/ Fail(i) \/ Forget(i)
      PROVE  \E label : Goto(i, label)
  BY <1>7 DEF Finish, Wipe, Fail, Forget
<1> QED BY <1>1, <1>2, <1>3, <1>4, <1>5, <1>6, <1>7, RunnerWriters

\* Nothing runs while the process is down.
Down == ~ up => \A j \in Jobs : pc[j] = "idle"

\* The locks are taken for a job that is being extracted, and keep the user from
\* it; a rename replaces a file only if the user chose so.
CommitAllowed == \A j \in Jobs : pc[j] \in Held => status[j] = "extracting"
RenameOverwrites == \A j \in Jobs : pc[j] = "rename" => policy = "overwrite"

Owned == Shape /\ Down /\ CommitAllowed /\ RenameOverwrites

LEMMA DownStep == ASSUME Shape, Down, [Next]_vars PROVE Down'
<1>1. CASE Crash
  BY <1>1 DEF Crash, Down
<1>2. CASE Restart
  BY <1>2 DEF Restart, Down
<1>3. ASSUME UNCHANGED up, ~ up, ~ Crash, NEW j \in Jobs PROVE pc'[j] = "idle"
  <2>1. pc[j] = "idle"
    BY <1>3 DEF Down
  <2> QED BY <1>3, <2>1, Moves DEF Shape, TypeOK, Begin, NextEntry, Copy, Lock, Rename,
             Probe, Link, Fill, Unlink, Mark, Undo, Save, Finish, Wipe, Fail, Forget
<1> QED BY <1>1, <1>2, <1>3, GivenKept DEF Down

LEMMA CommitAllowedStep ==
    ASSUME Shape, Down, CommitAllowed, [Next]_vars
    PROVE  CommitAllowed'
<1> USE DEF Shape, TypeOK
<1> SUFFICES ASSUME NEW j \in Jobs, pc'[j] \in Held PROVE status'[j] = "extracting"
  BY DEF CommitAllowed
<1>1. CASE pc[j] \in Held
  <2>1. lock = j /\ lock # None /\ up /\ status[j] = "extracting"
    BY <1>1, NamesAssumption DEF LockHeld, Down, CommitAllowed, Held
  <2>2. ASSUME NEW i \in Jobs
        PROVE  /\ ~ Open(i) /\ ~ Fetch(i) /\ ~ Pause(i) /\ ~ Cancel(i) /\ ~ Resume(i)
               /\ ~ Begin(i) /\ ~ Finish(i) /\ ~ Fail(i) /\ ~ Restart
               /\ Mark(i) => UNCHANGED status
    BY <2>1 DEF Open, Fetch, Pause, Cancel, Stop, Resume, Begin, Finish, Fail, Restart,
       Mark
  <2>3. ~ Crash
    BY DEF Crash, Held
  <2>4. UNCHANGED job => UNCHANGED status
    BY DEF job
  <2> QED BY <2>1, <2>2, <2>3, <2>4, JobWriters
<1>2. CASE pc[j] \notin Held
  <2>1. Lock(j)
    BY <1>2, Moves DEF Crash, Begin, NextEntry, Copy, Rename, Probe, Link, Fill, Unlink,
       Mark, Undo, Save, Finish, Wipe, Fail, Forget, Goto, RunnerTypeOK, Held
  <2>2. MayCommit(j) /\ UNCHANGED status
    BY <1>2, <2>1 DEF Lock, Goto, Held, RunnerTypeOK, job
  <2> QED BY <2>2 DEF MayCommit
<1> QED BY <1>1, <1>2

LEMMA RenameOverwritesStep ==
    ASSUME Shape, RenameOverwrites, [Next]_vars
    PROVE  RenameOverwrites'
<1> USE DEF Shape, TypeOK
<1> SUFFICES ASSUME NEW j \in Jobs, pc'[j] = "rename" PROVE policy' = "overwrite"
  BY DEF RenameOverwrites
<1>1. policy' = policy
  BY GivenKept DEF chosen
<1>2. CASE pc[j] = "rename"
  BY <1>1, <1>2 DEF RenameOverwrites
<1>3. CASE Lock(j)
  BY <1>1, <1>3 DEF Lock, Goto, RunnerTypeOK
<1>4. ASSUME Begin(j) \/ NextEntry(j) \/ Copy(j) \/ Rename(j) \/ Fill(j)
      PROVE  FALSE
  BY <1>4 DEF Begin, NextEntry, Copy, Rename, Fill, Goto, RunnerTypeOK
<1>5. ASSUME Probe(j) \/ Link(j) PROVE FALSE
  BY <1>5 DEF Probe, Link, TryNext, Goto, RunnerTypeOK
<1>6. ASSUME Unlink(j) \/ Mark(j) \/ Undo(j) \/ Save(j) PROVE FALSE
  BY <1>6 DEF Unlink, Mark, Undo, Save, Goto, RunnerTypeOK
<1>7. ASSUME Finish(j) \/ Wipe(j) \/ Fail(j) \/ Forget(j) PROVE FALSE
  BY <1>7 DEF Finish, Wipe, Fail, Forget, Goto, RunnerTypeOK
<1>8. ~ Crash
  BY DEF Crash
<1> QED BY <1>2, <1>3, <1>4, <1>5, <1>6, <1>7, <1>8, Moves

LEMMA OwnedCorrect == Spec => []Owned
<1>1. Init => Down /\ CommitAllowed /\ RenameOverwrites
  BY DEF Init, Down, CommitAllowed, RenameOverwrites, Held
<1>2. Owned /\ [Next]_vars => (Down /\ CommitAllowed /\ RenameOverwrites)'
  BY DownStep, CommitAllowedStep, RenameOverwritesStep DEF Owned
<1> QED BY <1>1, <1>2, ShapeCorrect, PTL DEF Spec, Owned

-----------------------------------------------------------------------------
(* Extraction implements Destination, unless a crash may fall between Link and *)
(* Remove                                                                    *)

\* A temporary file has a second name only between Link and Remove.
NoStrayLinks ==
    \A j \in Jobs, e \in Entries :
        links[j][e] # {} => pc[j] = "unlink" /\ e = entry[j]

\* What is being filled is the finalizer's own, and shows no contents yet.
FillsOwn ==
    \A j \in Jobs : pc[j] = "fill" => file[Target(j)] = [by |-> j, whole |-> FALSE]

Alone == Owned /\ NoStrayLinks /\ FillsOwn

LEMMA LinksWriters ==
    ASSUME StoreTypeOK, [Next]_vars, NEW j \in Jobs, NEW e \in Entries,
           links'[j][e] # links[j][e]
    PROVE  \/ /\ Link(j) /\ e = entry[j] /\ pc' = [pc EXCEPT ![j] = "unlink"]
              /\ UNCHANGED entry
           \/ links'[j][e] = {}
<1>1. CASE UNCHANGED store
  BY <1>1 DEF store
<1>2. CASE \E f \in File : Intrude(f)
  BY <1>2 DEF Intrude
<1>3. ASSUME NEW i \in Jobs, RemoveTemp(i) PROVE links'[j][e] = {}
  BY <1>3 DEF RemoveTemp, StoreTypeOK
<1>4. ASSUME NEW i \in Jobs, NextEntry(i) PROVE links'[j][e] = {}
  BY <1>4 DEF NextEntry, WriteTemp, store
<1>5. ASSUME NEW i \in Jobs, Copy(i) PROVE links'[j][e] = {}
  BY <1>3, <1>5 DEF Copy, WriteTemp
<1>6. ASSUME NEW i \in Jobs, Lock(i) PROVE links'[j][e] = {}
  BY <1>3, <1>6 DEF Lock, store
<1>7. ASSUME NEW i \in Jobs, Rename(i) \/ Unlink(i) \/ Mark(i) \/ Undo(i)
      PROVE  links'[j][e] = {}
  BY <1>3, <1>7 DEF Rename, Unlink, Mark, Undo, store
<1>8. ASSUME NEW i \in Jobs, Link(i)
      PROVE  /\ Link(j) /\ e = entry[j] /\ pc' = [pc EXCEPT ![j] = "unlink"]
             /\ UNCHANGED entry
  <2>1. /\ links' = [links EXCEPT ![i][entry[i]] = @ \cup {Target(i)}]
        /\ Goto(i, "unlink")
    BY <1>8 DEF Link, store
  <2>2. i = j /\ e = entry[j]
    BY <2>1 DEF StoreTypeOK
  <2> QED BY <1>8, <2>1, <2>2 DEF Goto
<1>9. ASSUME NEW i \in Jobs, Fill(i) PROVE links'[j][e] = {}
  BY <1>9 DEF Fill
<1> QED BY <1>1, <1>2, <1>4, <1>5, <1>6, <1>7, <1>8, <1>9, StoreWriters

LEMMA NoStrayLinksStep ==
    ASSUME "crash_in_link" \notin Races, Shape, NoStrayLinks, [Next]_vars
    PROVE  NoStrayLinks'
<1> USE DEF Shape, TypeOK
<1> SUFFICES ASSUME NEW j \in Jobs, NEW e \in Entries, links'[j][e] # {}
             PROVE  pc'[j] = "unlink" /\ e = entry'[j]
  BY DEF NoStrayLinks
<1>1. CASE links'[j][e] = links[j][e]
  <2>1. pc[j] = "unlink" /\ e = entry[j]
    BY <1>1 DEF NoStrayLinks
  <2>2. ~ Crash
    BY <1>1, <2>1 DEF Crash
  <2>3. ~ Unlink(j)
    BY <2>1 DEF Unlink, RemoveTemp, StoreTypeOK
  <2> QED BY <2>1, <2>2, <2>3, Moves DEF Begin, NextEntry, Copy, Lock, Rename, Probe,
             Link, Fill, Mark, Undo, Save, Finish, Wipe, Fail, Forget
<1>2. CASE links'[j][e] # links[j][e]
  BY <1>2, LinksWriters DEF RunnerTypeOK
<1> QED BY <1>1, <1>2

\* Without stray links, a file changes only by the finalizer that has the locks.
LEMMA FilesAlone ==
    ASSUME Shape, NoStrayLinks, [Next]_vars
    PROVE  \/ UNCHANGED file
           \/ \E f \in File : Intrude(f)
           \/ \E j \in Jobs : Rename(j) \/ Link(j) \/ Fill(j)
<1> USE DEF Shape, TypeOK
<1>1. ASSUME NEW j \in Jobs, NEW e \in Entries, NEW state, pc[j] # "unlink",
             WriteTemp(j, e, state)
      PROVE  UNCHANGED file
  <2>1. links[j][e] = {}
    BY <1>1 DEF NoStrayLinks
  <2>2. file' = [f \in File |-> file[f]]
    BY <1>1, <2>1 DEF WriteTemp
  <2> QED BY <2>2 DEF StoreTypeOK
<1>2. ASSUME NEW j \in Jobs, pc[j] = "next", NEW i \in DOMAIN Archive[j],
             WriteTemp(j, Archive[j][i], "partial")
      PROVE  UNCHANGED file
  BY <1>1, <1>2, ArchiveType
<1>3. ASSUME NEW j \in Jobs, pc[j] = "copy", WriteTemp(j, entry[j], "whole")
      PROVE  UNCHANGED file
  BY <1>1, <1>3, TargetType DEF Using
<1> QED BY <1>2, <1>3, FileWriters

LEMMA FillsOwnStep ==
    ASSUME Shape, NoStrayLinks, FillsOwn, [Next]_vars
    PROVE  FillsOwn'
<1> USE DEF Shape, TypeOK
<1> SUFFICES ASSUME NEW j \in Jobs, pc'[j] = "fill"
             PROVE  file'[Target(j)'] = [by |-> j, whole |-> FALSE]
  BY DEF FillsOwn
<1>1. CASE Link(j) /\ file' = [file EXCEPT ![Target(j)] = [by |-> j, whole |-> FALSE]]
  <2>1. Target(j) \in File
    BY <1>1, TargetType DEF Link, Using, Held
  <2> QED BY <1>1, <2>1, TargetKept DEF StoreTypeOK
<1>2. CASE pc[j] = "fill"
  <2> DEFINE f == Target(j)
  <2>1. /\ Target(j)' = f /\ f \in File /\ file[f] = [by |-> j, whole |-> FALSE]
        /\ lock = j /\ file[f] # None
    BY <1>2, TargetKept, TargetType, NamesAssumption
       DEF FillsOwn, FillsFile, Using, Held, LockHeld
  <2> HIDE DEF f
  <2>2. CASE \E g \in File : Intrude(g)
    BY <2>1, <2>2 DEF Intrude, StoreTypeOK
  <2>3. ASSUME NEW i \in Jobs, Rename(i) \/ Link(i) PROVE FALSE
    BY <1>2, <2>1, <2>3 DEF Rename, Link, LockHeld, Held
  <2>4. ASSUME NEW i \in Jobs, Fill(i) PROVE FALSE
    <3>1. i = j
      BY <2>1, <2>4 DEF Fill, LockHeld, Held
    <3> QED BY <2>4, <3>1 DEF Fill, Goto, RunnerTypeOK
  <2> QED BY <2>1, <2>2, <2>3, <2>4, FilesAlone
<1> QED BY <1>1, <1>2, FillFrom

LEMMA AloneCorrect ==
    ASSUME "crash_in_link" \notin Races
    PROVE  Spec => []Alone
<1>1. Init => NoStrayLinks /\ FillsOwn
  BY DEF Init, NoStrayLinks, FillsOwn
<1>2. Alone /\ [Next]_vars => (NoStrayLinks /\ FillsOwn)'
  BY NoStrayLinksStep, FillsOwnStep DEF Alone, Owned
<1> QED BY <1>1, <1>2, OwnedCorrect, PTL DEF Spec, Alone

\* The step of Destination that puts one file there.
LEMMA PublishStep ==
    ASSUME NEW f \in File, NEW j \in Jobs \cup {Foreign},
           j = Foreign \/ status[j] = "extracting",
           ~ Complete(f) \/ policy = "overwrite",
           file'[f] \in Data, file'[f].by = j, file'[f].whole,
           \A g \in File \ {f} : file'[g] = file[g],
           UNCHANGED <<policy, status>>
    PROVE  Promised!Publish(j, f)
<1> DEFINE shown == [g \in File |-> IF Complete(g) THEN file[g].by ELSE None]
<1>1. shown' = [shown EXCEPT ![f] = j]
  <2>1. file'[f] # None
    BY NamesAssumption
  <2>2. ASSUME NEW g \in File PROVE shown'[g] = IF g = f THEN j ELSE shown[g]
    BY <2>1, <2>2 DEF Complete
  <2> QED BY <2>2
<1>2. shown[f] = None \/ policy = "overwrite"
  OBVIOUS
<1>3. j \in {i \in Jobs : status[i] = "extracting"} \cup {Foreign}
  OBVIOUS
<1>4. {i \in Jobs : status[i] = "extracting"}' = {i \in Jobs : status[i] = "extracting"}
  OBVIOUS
<1> QED BY <1>1, <1>2, <1>3, <1>4 DEF Promised!Publish

LEMMA PutStep ==
    ASSUME NEW f \in File, NEW j \in Jobs \cup {Foreign},
           j = Foreign \/ status[j] = "extracting",
           ~ Complete(f) \/ policy = "overwrite",
           file \in [File -> {None} \cup Data],
           file' = [file EXCEPT ![f] = [by |-> j, whole |-> TRUE]],
           UNCHANGED <<policy, status>>
    PROVE  Promised!Publish(j, f)
<1>1. [by |-> j, whole |-> TRUE] \in Data
  BY DEF Data
<1>2. file'[f] = [by |-> j, whole |-> TRUE] /\ \A g \in File \ {f} : file'[g] = file[g]
  OBVIOUS
<1> QED BY <1>1, <1>2, PublishStep

\* A step that shows nothing new.
LEMMA AllowStep ==
    ASSUME UNCHANGED policy, \A f \in File : Complete(f)' = Complete(f),
           \A f \in File : Complete(f) => file'[f].by = file[f].by
    PROVE  Promised!Allow
<1> DEFINE shown == [g \in File |-> IF Complete(g) THEN file[g].by ELSE None]
<1>1. shown' = shown
  OBVIOUS
<1>2. {i \in Jobs : status[i] = "extracting"}' \in SUBSET Jobs
  OBVIOUS
<1> QED BY <1>1, <1>2 DEF Promised!Allow

LEMMA KeepsStep ==
    ASSUME Alone, Alone', [Next]_vars
    PROVE  [Promised!Next]_Promised!vars
<1> USE DEF Alone, Owned, Shape, TypeOK
<1>1. UNCHANGED policy
  BY GivenKept DEF chosen
<1>2. CASE UNCHANGED file
  BY <1>1, <1>2, AllowStep DEF Complete, Promised!Next
<1>3. ASSUME NEW f \in File, Intrude(f) PROVE Promised!Publish(Foreign, f)
  <2>1. UNCHANGED status /\ ~ Complete(f)
    BY <1>3 DEF Intrude, job, Complete
  <2> QED BY <1>1, <1>3, <2>1, PutStep DEF Intrude, StoreTypeOK
<1>4. ASSUME NEW j \in Jobs, pc[j] \in Held
      PROVE  status[j] = "extracting" /\ \E f \in File : f = Target(j)
  BY <1>4, TargetType DEF CommitAllowed, Using
<1>5. ASSUME NEW j \in Jobs, Rename(j)
      PROVE  UNCHANGED file \/ \E f \in File : Promised!Publish(j, f)
  <2>1. CASE file' = [file EXCEPT ![Target(j)] = [by |-> j, whole |-> TRUE]]
    <3>1. UNCHANGED status /\ policy = "overwrite"
      BY <1>5 DEF Rename, job, RenameOverwrites
    <3>2. PICK f \in File : f = Target(j)
      BY <1>4, <1>5 DEF Rename, Held
    <3>3. status[j] = "extracting"
      BY <1>4, <1>5 DEF Rename, Held
    <3> QED BY <1>1, <2>1, <3>1, <3>2, <3>3, PutStep DEF StoreTypeOK
  <2> QED BY <1>5, <2>1 DEF Rename, store
<1>6. ASSUME NEW j \in Jobs, Link(j)
      PROVE  \/ UNCHANGED file \/ Promised!Allow
             \/ \E f \in File : Promised!Publish(j, f)
  <2>1. PICK f \in File : f = Target(j)
    BY <1>4, <1>6 DEF Link, Held
  <2>2. UNCHANGED status /\ status[j] = "extracting"
    BY <1>4, <1>6 DEF Link, job, Held
  <2>3. CASE Taken(j)
    BY <1>6, <2>3 DEF Link, store
  <2>4. CASE ~ Taken(j)
    <3>1. file[f] = None /\ ~ Complete(f)
      BY <2>1, <2>4 DEF Taken, Complete
    <3>2. CASE file' = [file EXCEPT ![f] = [by |-> j, whole |-> TRUE]]
      BY <1>1, <2>2, <3>1, <3>2, PutStep DEF StoreTypeOK
    <3>3. CASE file' = [file EXCEPT ![f] = [by |-> j, whole |-> FALSE]]
      BY <1>1, <3>1, <3>3, AllowStep DEF StoreTypeOK, Complete
    <3> QED BY <1>6, <2>1, <2>4, <3>2, <3>3 DEF Link
  <2> QED BY <2>3, <2>4
<1>7. ASSUME NEW j \in Jobs, Fill(j)
      PROVE  Promised!Allow \/ \E f \in File : Promised!Publish(j, f)
  <2>1. PICK f \in File : f = Target(j)
    BY <1>4, <1>7 DEF Fill, Held
  <2>2. UNCHANGED status /\ status[j] = "extracting"
    BY <1>4, <1>7 DEF Fill, job, Held
  <2>3. file[f] = [by |-> j, whole |-> FALSE] /\ ~ Complete(f)
    BY <1>7, <2>1 DEF Fill, FillsOwn, Complete
  <2>4. CASE file' = [file EXCEPT ![Target(j)].whole = TRUE]
    <3>1. /\ file'[f] = [file[f] EXCEPT !.whole = TRUE]
          /\ \A g \in File \ {f} : file'[g] = file[g]
      BY <2>1, <2>4 DEF StoreTypeOK
    <3>2. file[f] \in Data
      BY <1>7, <2>1 DEF Fill, FillsFile
    <3>3. file'[f] \in Data /\ file'[f].by = file[f].by /\ file'[f].whole
      BY <3>1, <3>2 DEF Data
    <3> QED BY <1>1, <2>2, <2>3, <3>1, <3>3, PublishStep
  <2>5. CASE file' = Discarded(j)
    BY <1>1, <2>1, <2>3, <2>5, AllowStep DEF StoreTypeOK, Complete, Discarded
  <2> QED BY <1>7, <2>4, <2>5 DEF Fill
<1>8. CASE Promised!Allow
  BY <1>8 DEF Promised!Next
<1>9. ASSUME NEW f \in File, NEW j \in Jobs \cup {Foreign}, Promised!Publish(j, f)
      PROVE  Promised!Next
  BY <1>9 DEF Promised!Next
<1> QED BY <1>2, <1>3, <1>4, <1>5, <1>6, <1>7, <1>8, <1>9, FilesAlone

\* What the destination shows is what Destination promises: extraction implements
\* it, for any number of archives and entries, with crashes and restarts at any
\* moment but between Link and Remove, with and without hard links, and with other
\* programs in the directory (receiver.go:807-827, storage.go:112-178).
THEOREM KeepsPromises ==
    ASSUME "crash_in_link" \notin Races
    PROVE  Spec => KeepsPromise
<1>1. Init => Promised!Init
  BY DEF Init, Promised!Init, Complete
<1>2. Alone /\ Alone' /\ [Next]_vars => [Promised!Next]_Promised!vars
  BY KeepsStep
<1> QED BY <1>1, <1>2, AloneCorrect, PTL DEF Spec, KeepsPromise, Promised!Spec

-----------------------------------------------------------------------------
(* What is recorded as extracted is there, unless a crash may fall into a       *)
(* commit                                                                    *)

\* A finalizer's generation is the job's or an earlier one.
GenBound == \A j \in Jobs : work[j] <= gen[j]

\* What is recorded is of the archive, and all of it when the job ends.
RecordedKnown == \A j \in Jobs : Recorded(j) \subseteq InArchive(j)
FinishComplete ==
    \A j \in Jobs : pc[j] = "finish" /\ work[j] = gen[j] => extracted[j] = InArchive(j)
DoneComplete == \A j \in Jobs : status[j] = "done" => extracted[j] = InArchive(j)

\* A file that is not complete is one that is being filled.
PartialIsFilling ==
    \A f \in File : file[f] # None /\ ~ file[f].whole =>
        \E i \in Jobs : pc[i] = "fill" /\ Target(i) = f

\* After its commit an entry is there, before it is recorded.
Committed == \A j \in Jobs : pc[j] \in {"unlink", "mark"} => Present(j, entry[j])
RecordedThere == \A j \in Jobs : \A e \in Recorded(j) : Present(j, e)

Records == Owned /\ GenBound /\ RecordedKnown /\ FinishComplete /\ DoneComplete

\* Only the finalizer's mark adds to what is recorded.
LEMMA RecordedGrows ==
    ASSUME JobTypeOK, CacheTypeOK, [Next]_vars, NEW j \in Jobs, NEW e, e \in Recorded(j)'
    PROVE  e \in Recorded(j) \/ (Mark(j) /\ e = entry[j])
<1> SUFFICES ASSUME ~ (Mark(j) /\ e = entry[j]) PROVE e \in Recorded(j)
  OBVIOUS
<1> DEFINE disk == IF saved[j] = None THEN {} ELSE saved[j]
<1>1. Recorded(j) = extracted[j] \cup disk
  BY DEF Recorded
<1>2. e \in extracted'[j] \/ e \in disk'
  BY DEF Recorded
<1>3. Remembered(j) \subseteq disk
  BY DEF Remembered, Loaded
<1>4. CASE e \in extracted'[j]
  <2>1. CASE UNCHANGED job
    BY <1>1, <1>4, <2>1 DEF job
  <2>2. CASE Crash
    BY <1>4, <2>2 DEF Crash
  <2>3. CASE Restart
    <3>1. extracted'[j] = IF queued[j] THEN Remembered(j) ELSE {}
      BY <2>3 DEF Restart
    <3> QED BY <1>1, <1>3, <1>4, <3>1
  <2>4. ASSUME NEW i \in Jobs, Open(i) PROVE e \in Recorded(j)
    <3>1. extracted'[j] = IF i = j THEN Remembered(j) ELSE extracted[j]
      BY <2>4 DEF Open, JobTypeOK
    <3> QED BY <1>1, <1>3, <1>4, <3>1
  <2>5. ASSUME NEW i \in Jobs, Resume(i) PROVE e \in Recorded(j)
    <3>1. extracted'[j] = IF i = j THEN Kept(j) ELSE extracted[j]
      BY <2>5 DEF Resume, JobTypeOK
    <3> QED BY <1>1, <1>4, <3>1 DEF Kept
  <2>6. ASSUME NEW i \in Jobs, Mark(i) PROVE e \in Recorded(j)
    <3>1. extracted'[j] = IF i = j THEN extracted[j] \cup {entry[j]} ELSE extracted[j]
      BY <2>6 DEF Mark, JobTypeOK
    <3> QED BY <1>1, <1>4, <2>6, <3>1
  <2>7. ASSUME NEW i \in Jobs,
               \/ Fetch(i) \/ Pause(i) \/ Cancel(i) \/ Begin(i) \/ Finish(i) \/ Fail(i)
        PROVE  e \in Recorded(j)
    <3>1. UNCHANGED extracted
      BY <2>7 DEF Fetch, Pause, Cancel, Stop, Begin, Finish, Fail
    <3> QED BY <1>1, <1>4, <3>1
  <2> QED BY <2>1, <2>2, <2>3, <2>4, <2>5, <2>6, <2>7, JobWriters
<1>5. CASE e \in disk'
  <2>1. CASE UNCHANGED cache
    BY <1>1, <1>5, <2>1 DEF cache
  <2>2. ASSUME NEW i \in Jobs, Fetch(i) \/ Save(i) PROVE e \in Recorded(j)
    <3>1. saved'[j] = saved[j] \/ saved'[j] = extracted[j]
      BY <2>2 DEF Fetch, Save, CacheTypeOK
    <3> QED BY <1>1, <1>5, <3>1
  <2>3. ASSUME NEW i \in Jobs, Clean(i) \/ Wipe(i) PROVE e \in Recorded(j)
    <3>1. saved'[j] = saved[j] \/ saved'[j] = None
      BY <2>3 DEF Clean, Wipe, CacheTypeOK
    <3> QED BY <1>1, <1>5, <3>1
  <2>4. ASSUME NEW i \in Jobs, Open(i) \/ Pause(i) \/ Cancel(i) \/ Resume(i) \/ Forget(i)
        PROVE  e \in Recorded(j)
    <3>1. UNCHANGED saved
      BY <2>4 DEF Open, Pause, Cancel, Stop, Resume, Forget
    <3> QED BY <1>1, <1>5, <3>1
  <2>5. CASE Restart
    <3>1. UNCHANGED saved
      BY <2>5 DEF Restart
    <3> QED BY <1>1, <1>5, <3>1
  <2> QED BY <2>1, <2>2, <2>3, <2>4, <2>5, CacheWriters
<1> QED BY <1>2, <1>4, <1>5

LEMMA RecordedKnownStep ==
    ASSUME Shape, RecordedKnown, [Next]_vars
    PROVE  RecordedKnown'
<1>1. ASSUME NEW j \in Jobs, NEW e \in Recorded(j)' PROVE e \in InArchive(j)
  <2>1. e \in Recorded(j) \/ (Mark(j) /\ e = entry[j])
    BY <1>1, RecordedGrows DEF Shape, TypeOK
  <2> QED BY <2>1 DEF RecordedKnown, Shape, EntryKnown, Mark, Using, Held
<1>2. \A j \in Jobs : InArchive(j)' = InArchive(j)
  BY DEF InArchive
<1> QED BY <1>1, <1>2 DEF RecordedKnown

\* What a running finalizer has extracted is forgotten only by a resume, which
\* begins a new generation.
LEMMA ExtractedKept ==
    ASSUME Owned, [Next]_vars, NEW j \in Jobs, pc[j] # "idle", ~ Mark(j), ~ Crash
    PROVE  \/ extracted'[j] = extracted[j] /\ gen'[j] = gen[j]
           \/ Resume(j)
<1> USE DEF Owned, Shape, TypeOK
<1>1. CASE UNCHANGED job
  BY <1>1 DEF job
<1>2. CASE Restart
  BY <1>2 DEF Restart, Down
<1>3. ASSUME NEW i \in Jobs, Open(i) \/ Resume(i), i # j
      PROVE  extracted'[j] = extracted[j] /\ gen'[j] = gen[j]
  BY <1>3 DEF Open, Resume, JobTypeOK
<1>4. ~ Open(j)
  BY DEF Open
<1>5. ASSUME NEW i \in Jobs, Mark(i), i # j
      PROVE  extracted'[j] = extracted[j] /\ gen'[j] = gen[j]
  BY <1>5 DEF Mark, JobTypeOK
<1>6. ASSUME NEW i \in Jobs, Fetch(i) \/ Pause(i) \/ Cancel(i) \/ Begin(i) \/ Finish(i) \/ Fail(i)
      PROVE  extracted'[j] = extracted[j] /\ gen'[j] = gen[j]
  BY <1>6 DEF Fetch, Pause, Cancel, Stop, Begin, Finish, Fail
<1> QED BY <1>1, <1>2, <1>3, <1>4, <1>5, <1>6, JobWriters

LEMMA GenBoundStep == ASSUME Owned, GenBound, [Next]_vars PROVE GenBound'
<1> USE DEF Owned, Shape, TypeOK
<1> SUFFICES ASSUME NEW j \in Jobs PROVE work'[j] <= gen'[j]
  BY DEF GenBound
<1>1. CASE Crash
  BY <1>1 DEF Crash
<1>2. ASSUME ~ Crash PROVE gen'[j] \in Nat /\ gen'[j] >= gen[j]
  <2>1. CASE UNCHANGED job
    BY <2>1 DEF job, JobTypeOK
  <2>2. ASSUME NEW i \in Jobs, Open(i) \/ Resume(i) PROVE gen'[j] \in Nat /\ gen'[j] >= gen[j]
    BY <2>2 DEF Open, Resume, JobTypeOK
  <2>3. UNCHANGED gen => gen'[j] \in Nat /\ gen'[j] >= gen[j]
    BY DEF JobTypeOK
  <2>4. ASSUME NEW i \in Jobs, Fetch(i) \/ Pause(i) \/ Cancel(i) \/ Begin(i) \/ Mark(i) \/ Finish(i) \/ Fail(i)
        PROVE  UNCHANGED gen
    BY <2>4 DEF Fetch, Pause, Cancel, Stop, Begin, Mark, Finish, Fail
  <2>5. Restart => UNCHANGED gen
    BY DEF Restart
  <2> QED BY <1>2, <2>1, <2>2, <2>3, <2>4, <2>5, JobWriters
<1>3. ASSUME ~ Crash PROVE work'[j] = work[j] \/ work'[j] = gen[j]
  <2>1. CASE UNCHANGED <<lock, runner>>
    BY <2>1 DEF runner
  <2>2. ASSUME NEW i \in Jobs, Begin(i) PROVE work'[j] = work[j] \/ work'[j] = gen[j]
    BY <2>2 DEF Begin, RunnerTypeOK
  <2>3. ASSUME NEW i \in Jobs, NextEntry(i) \/ Copy(i) \/ Lock(i) \/ Rename(i) \/ Fill(i)
        PROVE  UNCHANGED work
    BY <2>3 DEF NextEntry, Copy, Lock, Rename, Fill, Goto
  <2>4. ASSUME NEW i \in Jobs, Probe(i) \/ Link(i) PROVE UNCHANGED work
    BY <2>4 DEF Probe, Link, TryNext, Goto
  <2>5. ASSUME NEW i \in Jobs, Unlink(i) \/ Mark(i) \/ Undo(i) \/ Save(i) \/ Finish(i)
                               \/ Wipe(i) \/ Fail(i) \/ Forget(i)
        PROVE  UNCHANGED work
    BY <2>5 DEF Unlink, Mark, Undo, Save, Finish, Wipe, Fail, Forget, Goto
  <2> QED BY <1>3, <2>1, <2>2, <2>3, <2>4, <2>5, RunnerWriters
<1>4. work[j] \in Nat /\ gen[j] \in Nat /\ work[j] <= gen[j]
  BY DEF RunnerTypeOK, JobTypeOK, GenBound
<1> QED BY <1>1, <1>2, <1>3, <1>4

LEMMA FinishCompleteStep == ASSUME Records, [Next]_vars PROVE FinishComplete'
<1> USE DEF Records, Owned, Shape, TypeOK
<1> SUFFICES ASSUME NEW j \in Jobs, pc'[j] = "finish", work'[j] = gen'[j]
             PROVE  extracted'[j] = InArchive(j)
  BY DEF FinishComplete, InArchive
<1>1. ~ Crash
  BY DEF Crash
<1>2. CASE pc[j] = "finish"
  <2>1. work'[j] = work[j]
    <3>1. CASE UNCHANGED <<lock, runner>>
      BY <3>1 DEF runner
    <3>2. ASSUME NEW i \in Jobs, Begin(i) PROVE work'[j] = work[j]
      BY <1>2, <3>2 DEF Begin, RunnerTypeOK
    <3>3. ASSUME NEW i \in Jobs, NextEntry(i) \/ Copy(i) \/ Lock(i) \/ Rename(i) \/ Fill(i)
          PROVE  UNCHANGED work
      BY <3>3 DEF NextEntry, Copy, Lock, Rename, Fill, Goto
    <3>4. ASSUME NEW i \in Jobs, Probe(i) \/ Link(i) PROVE UNCHANGED work
      BY <3>4 DEF Probe, Link, TryNext, Goto
    <3>5. ASSUME NEW i \in Jobs, Unlink(i) \/ Mark(i) \/ Undo(i) \/ Save(i) \/ Finish(i)
                                 \/ Wipe(i) \/ Fail(i) \/ Forget(i)
          PROVE  UNCHANGED work
      BY <3>5 DEF Unlink, Mark, Undo, Save, Finish, Wipe, Fail, Forget, Goto
    <3> QED BY <1>1, <3>1, <3>2, <3>3, <3>4, <3>5, RunnerWriters
  <2>2. ~ Resume(j)
    <3>1. Resume(j) => gen'[j] = gen[j] + 1
      BY DEF Resume, JobTypeOK
    <3> QED BY <2>1, <3>1 DEF GenBound, JobTypeOK, RunnerTypeOK
  <2>3. extracted'[j] = extracted[j] /\ gen'[j] = gen[j]
    BY <1>1, <1>2, <2>2, ExtractedKept DEF Mark
  <2> QED BY <1>2, <2>1, <2>3 DEF FinishComplete
<1>3. CASE NextEntry(j)
  <2>1. InArchive(j) \subseteq extracted[j] /\ UNCHANGED job
    BY <1>3 DEF NextEntry, Goto, RunnerTypeOK
  <2> QED BY <2>1 DEF job, RecordedKnown, Recorded
<1>4. ASSUME pc[j] # "finish" PROVE NextEntry(j)
  <2>1. ~ Begin(j) /\ ~ Copy(j) /\ ~ Lock(j) /\ ~ Rename(j) /\ ~ Fill(j)
    BY <1>4 DEF Begin, Copy, Lock, Rename, Fill, Goto, RunnerTypeOK
  <2>2. ~ Probe(j) /\ ~ Link(j)
    BY <1>4 DEF Probe, Link, TryNext, Goto, RunnerTypeOK
  <2>3. ~ Unlink(j) /\ ~ Mark(j) /\ ~ Undo(j) /\ ~ Save(j)
    BY <1>4 DEF Unlink, Mark, Undo, Save, Goto, RunnerTypeOK
  <2>4. ~ Finish(j) /\ ~ Wipe(j) /\ ~ Fail(j) /\ ~ Forget(j)
    BY <1>4 DEF Finish, Wipe, Fail, Forget, Goto, RunnerTypeOK
  <2> QED BY <1>1, <1>4, <2>1, <2>2, <2>3, <2>4, Moves
<1> QED BY <1>2, <1>3, <1>4

LEMMA DoneCompleteStep == ASSUME Records, [Next]_vars PROVE DoneComplete'
<1> USE DEF Records, Owned, Shape, TypeOK
<1> SUFFICES ASSUME NEW j \in Jobs, status'[j] = "done" PROVE extracted'[j] = InArchive(j)
  BY DEF DoneComplete, InArchive
<1>1. CASE UNCHANGED job
  BY <1>1 DEF job, DoneComplete
<1>2. ~ Crash
  BY DEF Crash
<1>3. ~ Restart
  BY Restarted
<1>4. ASSUME NEW i \in Jobs, Open(i) PROVE extracted'[j] = InArchive(j)
  <2>1. i # j /\ status'[j] = status[j]
    BY <1>4, Opened
  <2> QED BY <1>4, <2>1 DEF Open, DoneComplete, JobTypeOK
<1>8. ASSUME NEW i \in Jobs, Resume(i) PROVE extracted'[j] = InArchive(j)
  BY <1>8 DEF Resume, DoneComplete, JobTypeOK
<1>5. ASSUME NEW i \in Jobs, Fetch(i) \/ Pause(i) \/ Cancel(i) \/ Begin(i) \/ Fail(i)
      PROVE  extracted'[j] = InArchive(j)
  BY <1>5 DEF Fetch, Pause, Cancel, Stop, Begin, Fail, DoneComplete, JobTypeOK
<1>6. ASSUME NEW i \in Jobs, Mark(i) PROVE extracted'[j] = InArchive(j)
  <2>1. i # j
    BY <1>6 DEF Mark, CommitAllowed, Held
  <2> QED BY <1>6, <2>1 DEF Mark, DoneComplete, JobTypeOK
<1>7. ASSUME NEW i \in Jobs, Finish(i) PROVE extracted'[j] = InArchive(j)
  BY <1>7 DEF Finish, DoneComplete, FinishComplete, JobTypeOK
<1> QED BY <1>1, <1>2, <1>3, <1>4, <1>5, <1>6, <1>7, <1>8, JobWriters

LEMMA RecordsCorrect == Spec => []Records
<1>1. Init => GenBound /\ RecordedKnown /\ FinishComplete /\ DoneComplete
  BY DEF Init, GenBound, RecordedKnown, FinishComplete, DoneComplete, Recorded
<1>2. Records /\ [Next]_vars => (GenBound /\ RecordedKnown /\ FinishComplete /\ DoneComplete)'
  BY GenBoundStep, RecordedKnownStep, FinishCompleteStep, DoneCompleteStep DEF Records, Owned
<1> QED BY <1>1, <1>2, OwnedCorrect, PTL DEF Spec, Records

\* A complete file stays complete, and stays whose it is unless files are replaced.
LEMMA CompleteStays ==
    ASSUME Alone, [Next]_vars, NEW f \in File, Complete(f)
    PROVE  Complete(f)' /\ (policy # "overwrite" => file'[f] = file[f])
<1> USE DEF Alone, Owned, Shape, TypeOK
<1>1. CASE UNCHANGED file
  BY <1>1 DEF Complete
<1>2. ASSUME NEW g \in File, Intrude(g) PROVE file'[f] = file[f]
  BY <1>2 DEF Intrude, Complete, StoreTypeOK
<1>3. ASSUME NEW j \in Jobs, Rename(j)
      PROVE  Complete(f)' /\ (policy # "overwrite" => file'[f] = file[f])
  <2>1. policy = "overwrite"
    BY <1>3 DEF Rename, RenameOverwrites
  <2>2. [by |-> j, whole |-> TRUE] \in Data
    BY DEF Data
  <2>3. CASE UNCHANGED store
    BY <2>1, <2>3 DEF store, Complete
  <2>4. CASE file' = [file EXCEPT ![Target(j)] = [by |-> j, whole |-> TRUE]]
    <3>1. CASE f = Target(j)
      <4>1. file'[f] = [by |-> j, whole |-> TRUE]
        BY <2>4, <3>1 DEF StoreTypeOK
      <4>2. file'[f] # None
        BY <2>2, <4>1, NamesAssumption
      <4>3. file'[f].whole
        BY <4>1
      <4> QED BY <2>1, <4>2, <4>3 DEF Complete
    <3>2. CASE f # Target(j)
      BY <2>1, <2>4, <3>2 DEF StoreTypeOK, Complete
    <3> QED BY <3>1, <3>2
  <2> QED BY <1>3, <2>3, <2>4 DEF Rename
<1>4. ASSUME NEW j \in Jobs, Link(j) PROVE file'[f] = file[f]
  BY <1>4 DEF Link, Taken, Complete, StoreTypeOK, store
<1>5. ASSUME NEW j \in Jobs, Fill(j) PROVE file'[f] = file[f]
  <2>1. file[Target(j)] = [by |-> j, whole |-> FALSE]
    BY <1>5 DEF Fill, FillsOwn
  <2>2. f # Target(j)
    BY <2>1 DEF Complete
  <2> QED BY <1>5, <2>2 DEF Fill, Discarded, StoreTypeOK
<1> QED BY <1>1, <1>2, <1>3, <1>4, <1>5, FilesAlone DEF Complete

LEMMA PresentStays ==
    ASSUME Alone, [Next]_vars, NEW j \in Jobs, NEW e \in Entries, Present(j, e)
    PROVE  Present(j, e)'
<1>1. PICK n \in 0 .. MaxIndex :
         Complete(<<e, n>>) /\ (policy = "rename" => file[<<e, n>>].by = j)
  BY DEF Present
<1>2. <<e, n>> \in File /\ policy' = policy
  BY GivenKept DEF File, chosen
<1>3. Complete(<<e, n>>)' /\ (policy # "overwrite" => file'[<<e, n>>] = file[<<e, n>>])
  BY <1>1, <1>2, CompleteStays
<1> QED BY <1>1, <1>2, <1>3 DEF Present

LEMMA PartialIsFillingStep ==
    ASSUME "crash_in_copy" \notin Races, Alone, PartialIsFilling, [Next]_vars
    PROVE  PartialIsFilling'
<1> USE DEF Alone, Owned, Shape, TypeOK
<1> SUFFICES ASSUME NEW f \in File, file'[f] # None, ~ file'[f].whole
             PROVE  \E i \in Jobs : pc'[i] = "fill" /\ Target(i)' = f
  BY DEF PartialIsFilling, File
<1>1. CASE file[f] # None /\ ~ file[f].whole
  <2>1. PICK i \in Jobs : pc[i] = "fill" /\ Target(i) = f
    BY <1>1 DEF PartialIsFilling
  <2>2. ~ Crash
    BY <2>1 DEF Crash
  <2>3. ~ Fill(i)
    <3>1. CASE file' = [file EXCEPT ![Target(i)].whole = TRUE]
      <4>1. file'[f] = [file[f] EXCEPT !.whole = TRUE] /\ file[f] \in Data
        BY <1>1, <2>1, <3>1 DEF StoreTypeOK
      <4> QED BY <4>1 DEF Data
    <3>2. file' # Discarded(i)
      BY <2>1 DEF Discarded, StoreTypeOK
    <3> QED BY <3>1, <3>2 DEF Fill
  <2>4. pc'[i] = "fill"
    BY <2>1, <2>2, <2>3, Moves DEF Begin, NextEntry, Copy, Lock, Rename, Probe, Link,
       Unlink, Mark, Undo, Save, Finish, Wipe, Fail, Forget
  <2> QED BY <2>1, <2>4, TargetKept
<1>2. CASE ~ (file[f] # None /\ ~ file[f].whole)
  <2>1. file'[f] # file[f]
    BY <1>2
  <2>2. ASSUME NEW g \in File, Intrude(g) PROVE FALSE
    BY <2>1, <2>2 DEF Intrude, StoreTypeOK
  <2>3. ASSUME NEW j \in Jobs, Rename(j) PROVE FALSE
    BY <2>1, <2>3 DEF Rename, StoreTypeOK, store
  <2>4. ASSUME NEW j \in Jobs, Fill(j) PROVE FALSE
    <3>1. f = Target(j)
      BY <2>1, <2>4 DEF Fill, Discarded, StoreTypeOK
    <3>2. file[f] = [by |-> j, whole |-> FALSE]
      BY <2>4, <3>1 DEF Fill, FillsOwn
    <3>3. file[f] # None
      BY <2>4, <3>1, NamesAssumption DEF Fill, FillsFile
    <3> QED BY <1>2, <3>2, <3>3
  <2>5. ASSUME NEW j \in Jobs, Link(j) PROVE pc'[j] = "fill" /\ Target(j)' = f
    <3>1. CASE file' = [file EXCEPT ![Target(j)] = [by |-> j, whole |-> FALSE]]
               /\ Goto(j, "fill")
      <4>1. f = Target(j) /\ pc'[j] = "fill"
        BY <2>1, <3>1 DEF StoreTypeOK, Goto, RunnerTypeOK
      <4> QED BY <2>5, <4>1, TargetKept
    <3>2. CASE file' = [file EXCEPT ![Target(j)] = [by |-> j, whole |-> TRUE]]
      BY <2>1, <3>2 DEF StoreTypeOK
    <3> QED BY <2>1, <2>5, <3>1, <3>2 DEF Link, store
  <2> QED BY <2>1, <2>2, <2>3, <2>4, <2>5, FilesAlone
<1> QED BY <1>1, <1>2

\* A file of its own makes an entry present.
LEMMA OwnIsPresent ==
    ASSUME RunnerTypeOK, RunnerTypeOK', NEW j \in Jobs, NEW f, f = Target(j),
           UNCHANGED entry, file'[f] # None, file'[f].whole, file'[f].by = j
    PROVE  Present(j, entry[j])'
<1>1. f = <<entry'[j], cand[j]>> /\ cand[j] \in 0 .. MaxIndex
  BY DEF Target, RunnerTypeOK
<1>2. Complete(f)' /\ file'[f].by = j
  BY DEF Complete
<1> QED BY <1>1, <1>2 DEF Present

LEMMA CommittedStep ==
    ASSUME Alone, Alone', PartialIsFilling, Committed, [Next]_vars
    PROVE  Committed'
<1> USE DEF Alone, Owned, Shape, TypeOK
<1> SUFFICES ASSUME NEW j \in Jobs, pc'[j] \in {"unlink", "mark"}
             PROVE  Present(j, entry[j])'
  BY DEF Committed
<1>1. ASSUME pc[j] \in {"unlink", "mark"}, entry'[j] = entry[j]
      PROVE  Present(j, entry[j])'
  <2>1. entry[j] \in Entries /\ Present(j, entry[j])
    BY <1>1, TargetType DEF Committed, Using, Held
  <2>2. PICK e \in Entries : e = entry[j] /\ Present(j, e)
    BY <2>1
  <2>3. Present(j, e)' /\ entry'[j] = e
    BY <1>1, <2>2, PresentStays
  <2> QED BY <2>3 DEF Present
<1>2. ASSUME pc[j] \in Held PROVE \E f \in File : f = Target(j)
  BY <1>2, TargetType DEF Using
<1>3. [by |-> j, whole |-> TRUE] \in Data /\ None \notin Data
  BY NamesAssumption DEF Data
<1>4. ASSUME NEW f \in File, f = Target(j), UNCHANGED entry,
             file' = [file EXCEPT ![Target(j)] = [by |-> j, whole |-> TRUE]]
      PROVE  Present(j, entry[j])'
  <2>1. file'[f] = [by |-> j, whole |-> TRUE]
    BY <1>4 DEF StoreTypeOK
  <2>2. file'[f] # None
    BY <1>3, <2>1
  <2>3. file'[f].whole /\ file'[f].by = j
    BY <2>1
  <2> QED BY <1>4, <2>2, <2>3, OwnIsPresent
<1>5. CASE Rename(j)
  <2>1. /\ file' = [file EXCEPT ![Target(j)] = [by |-> j, whole |-> TRUE]]
        /\ UNCHANGED entry
    BY <1>5 DEF Rename, Goto, RunnerTypeOK
  <2> QED BY <1>2, <1>4, <1>5, <2>1 DEF Rename, Held
<1>6. CASE Probe(j)
  <2>1. file[Target(j)] # None /\ policy = "skip" /\ UNCHANGED <<entry, file, policy>>
    BY <1>6 DEF Probe, TryNext, Goto, RunnerTypeOK, store, chosen
  <2>2. PICK f \in File : f = Target(j)
    BY <1>2, <1>6 DEF Probe, Held
  <2>3. ASSUME NEW i \in Jobs, pc[i] = "fill" PROVE FALSE
    BY <1>6, <2>3 DEF Probe, LockHeld, Held
  <2>4. Complete(f)
    BY <2>1, <2>2, <2>3 DEF PartialIsFilling, Complete
  <2>5. f = <<entry'[j], cand[j]>> /\ cand[j] \in 0 .. MaxIndex /\ Complete(f)'
    BY <2>1, <2>2, <2>4 DEF Target, RunnerTypeOK, Complete
  <2> QED BY <2>1, <2>5 DEF Present
<1>7. CASE Link(j)
  <2>1. /\ file' = [file EXCEPT ![Target(j)] = [by |-> j, whole |-> TRUE]]
        /\ UNCHANGED entry
    BY <1>7 DEF Link, TryNext, Goto, RunnerTypeOK
  <2> QED BY <1>2, <1>4, <1>7, <2>1 DEF Link, Held
<1>8. CASE Fill(j)
  <2>1. file' = [file EXCEPT ![Target(j)].whole = TRUE] /\ UNCHANGED entry
    BY <1>8 DEF Fill, Goto, RunnerTypeOK
  <2>2. PICK f \in File : f = Target(j)
    BY <1>2, <1>8 DEF Fill, Held
  <2>3. file[f] = [by |-> j, whole |-> FALSE] /\ file[f] \in Data
    BY <1>8, <2>2 DEF Fill, FillsOwn, FillsFile
  <2>4. file'[f] = [file[f] EXCEPT !.whole = TRUE]
    BY <2>1, <2>2 DEF StoreTypeOK
  <2>5. file[f].by = j
    BY <2>3
  <2>6. file'[f] \in Data /\ file'[f].whole /\ file'[f].by = file[f].by
    BY <2>3, <2>4 DEF Data
  <2> QED BY <1>3, <2>1, <2>2, <2>5, <2>6, OwnIsPresent
<1>9. CASE Unlink(j)
  BY <1>1, <1>9 DEF Unlink, Goto
<1>10. ~ Crash /\ ~ Begin(j) /\ ~ NextEntry(j) /\ ~ Copy(j) /\ ~ Lock(j)
  BY DEF Crash, Begin, NextEntry, Copy, Lock, Goto, RunnerTypeOK
<1>11. ~ Mark(j) /\ ~ Undo(j) /\ ~ Save(j)
  BY DEF Mark, Undo, Save, Goto, RunnerTypeOK
<1>12. ~ Finish(j) /\ ~ Wipe(j) /\ ~ Fail(j) /\ ~ Forget(j)
  BY DEF Finish, Wipe, Fail, Forget, Goto, RunnerTypeOK
<1> QED BY <1>1, <1>5, <1>6, <1>7, <1>8, <1>9, <1>10, <1>11, <1>12, Moves

LEMMA RecordedThereStep ==
    ASSUME Alone, Committed, RecordedThere, [Next]_vars
    PROVE  RecordedThere'
<1> USE DEF Alone, Owned, Shape, TypeOK
<1> SUFFICES ASSUME NEW j \in Jobs, NEW e, e \in Recorded(j)' PROVE Present(j, e)'
  BY DEF RecordedThere
<1>1. e \in Entries /\ Present(j, e)
  <2>1. CASE e \in Recorded(j)
    <3>1. Recorded(j) \subseteq Entries
      BY DEF Recorded, JobTypeOK, CacheTypeOK
    <3> QED BY <2>1, <3>1 DEF RecordedThere
  <2>2. CASE Mark(j) /\ e = entry[j]
    BY <2>2, TargetType DEF Mark, Committed, Using, Held
  <2> QED BY <2>1, <2>2, RecordedGrows
<1> QED BY <1>1, PresentStays

\* An entry that is recorded as extracted, in memory or in the metadata that a
\* restart resumes from, is complete in the destination, as this archive has it
\* if files are renamed, and a finished archive has all its entries recorded:
\* with any number of archives, entries, requests and failing file operations,
\* other programs in the directory, and crashes outside of a commit
\* (receiver.go:277, 772-777, 817-836).
THEOREM ExtractedIsPresent ==
    ASSUME Races = {}
    PROVE  Spec => []ExtractedIsThere
<1>1. Init => PartialIsFilling /\ Committed /\ RecordedThere
  BY DEF Init, PartialIsFilling, Committed, RecordedThere, Recorded
<1>2. /\ Alone /\ Alone' /\ PartialIsFilling /\ Committed /\ RecordedThere /\ [Next]_vars
      => (PartialIsFilling /\ Committed /\ RecordedThere)'
  BY PartialIsFillingStep, CommittedStep, RecordedThereStep
<1>3. Records /\ RecordedThere => ExtractedIsThere
  BY DEF Records, DoneComplete, RecordedThere, ExtractedIsThere
<1>4. Spec => []Alone
  BY AloneCorrect
<1> QED BY <1>1, <1>2, <1>3, <1>4, RecordsCorrect, PTL DEF Spec

-----------------------------------------------------------------------------
(* How many copies an archive leaves                                         *)

\* A job that has all its chunks has its part file, a finalizer wipes the files of
\* done jobs only, and works for a job that is known.
Ready == \A j \in Jobs : status[j] \in {"verifying", "extracting"} => part[j]
WipesDone == \A j \in Jobs : pc[j] = "wipe" => status[j] = "done"
RunsKnown == \A j \in Jobs : pc[j] # "idle" => status[j] # "none"

\* An entry is extracted only while it is not recorded.
Fresh ==
    \A j \in Jobs : pc[j] \in {"copy", "lock"} \cup Held => entry[j] \notin extracted[j]

Progress == Ready /\ WipesDone /\ RunsKnown /\ Fresh

\* The copies an archive has left; what the metadata keeps from being extracted
\* again (stale metadata beside an archive that was copied from the destination
\* does so after a restart only); the entries that may still be extracted before
\* the archive comes anew; and whether the last copy is not in the metadata yet.
Copies(j) == {f \in File : Complete(f) /\ file[f].by = j}
Disk(j) == IF saved[j] = None THEN {} ELSE saved[j]
Known(j) == up /\ status[j] # "none"
Safe(j) == IF Known(j) THEN Disk(j) \cap extracted[j] ELSE Disk(j)
Missing(j) == IF part[j] THEN InArchive(j) \ Safe(j) ELSE {}
Unsaved(j) ==
    /\ entry[j] \in Missing(j)
    /\ \/ pc[j] \in {"unlink", "mark"}
       \/ pc[j] = "save" /\ entry[j] \in extracted[j]

\* Every copy is of an entry that is saved, or paid for by a failure.
CopiesPaid ==
    \A j \in Jobs :
        /\ IsFiniteSet(Copies(j))
        /\ Cardinality(Copies(j)) + Cardinality(Missing(j))
             <= Cardinality(InArchive(j)) * fetches[j] + failures
                + IF Unsaved(j) THEN 1 ELSE 0

LEMMA ReadyStep == ASSUME Owned, Progress, [Next]_vars PROVE Ready'
<1> USE DEF Owned, Shape, TypeOK
<1> SUFFICES ASSUME NEW j \in Jobs, status'[j] \in {"verifying", "extracting"}
             PROVE  part'[j]
  BY DEF Ready
<1>1. ASSUME status'[j] = status[j] PROVE part'[j]
  <2>1. part[j]
    BY <1>1 DEF Progress, Ready
  <2>2. CASE UNCHANGED cache
    BY <2>1, <2>2 DEF cache
  <2>3. ASSUME NEW i \in Jobs, Clean(i) \/ Wipe(i) PROVE part'[j]
    <3>1. i # j
      BY <1>1, <2>3 DEF Clean, Wipe, Settled, Progress, WipesDone
    <3> QED BY <2>1, <2>3, <3>1 DEF Clean, Wipe, CacheTypeOK
  <2>4. ASSUME NEW i \in Jobs, Fetch(i) PROVE part'[j]
    BY <2>1, <2>4 DEF Fetch, CacheTypeOK
  <2>5. ASSUME NEW i \in Jobs, Pause(i) \/ Cancel(i) \/ Resume(i) \/ Save(i) \/ Forget(i)
        PROVE  part'[j]
    BY <2>1, <2>5 DEF Pause, Cancel, Stop, Resume, Save, Forget
  <2>6. ASSUME NEW i \in Jobs, Open(i) PROVE part'[j]
    <3>1. i # j
      BY <1>1, <2>6 DEF Open, Settled
    <3> QED BY <2>1, <2>6, <3>1, Opened
  <2>7. CASE Restart
    BY <2>7, Restarted
  <2> QED BY <2>2, <2>3, <2>4, <2>5, <2>6, <2>7, CacheWriters
<1>2. CASE UNCHANGED job
  BY <1>1, <1>2 DEF job
<1>3. CASE Crash
  BY <1>3 DEF Crash
<1>4. CASE Restart
  BY <1>4, Restarted
<1>5. ASSUME NEW i \in Jobs, Open(i) PROVE part'[j]
  BY <1>1, <1>5, Opened
<1>6. ASSUME NEW i \in Jobs, Fetch(i) PROVE part'[j]
  BY <1>1, <1>6 DEF Fetch, JobTypeOK, CacheTypeOK
<1>7. ASSUME NEW i \in Jobs, Pause(i) \/ Cancel(i) PROVE part'[j]
  BY <1>1, <1>7 DEF Pause, Cancel, Stop, JobTypeOK
<1>8. ASSUME NEW i \in Jobs, Resume(i) PROVE part'[j]
  BY <1>1, <1>8 DEF Resume, JobTypeOK
<1>9. ASSUME NEW i \in Jobs, Begin(i) PROVE part'[j]
  BY <1>1, <1>9 DEF Begin, JobTypeOK, Progress, Ready, cache
<1>10. ASSUME NEW i \in Jobs, Finish(i) \/ Fail(i) PROVE part'[j]
  BY <1>1, <1>10 DEF Finish, Fail, JobTypeOK
<1>11. ASSUME NEW i \in Jobs, Mark(i) PROVE part'[j]
  BY <1>1, <1>11 DEF Mark
<1> QED BY <1>2, <1>3, <1>4, <1>5, <1>6, <1>7, <1>8, <1>9, <1>10, <1>11, JobWriters

\* A finalizer keeps its job from a new life, and a done job stays so while it
\* removes the cached files.
LEMMA StatusKept ==
    ASSUME Owned, Progress, [Next]_vars, NEW j \in Jobs, pc[j] # "idle", ~ Crash
    PROVE  /\ status'[j] # "none"
           /\ status[j] = "done" => status'[j] = "done"
<1> USE DEF Owned, Shape, TypeOK
<1>1. status[j] # "none"
  BY DEF Progress, RunsKnown
<1>2. CASE UNCHANGED job
  BY <1>1, <1>2 DEF job
<1>3. ~ Restart /\ ~ Open(j)
  BY DEF Restart, Open, Down
<1>4. ASSUME NEW i \in Jobs, Open(i), i # j PROVE status'[j] = status[j]
  BY <1>4, Opened
<1>5. ASSUME NEW i \in Jobs, Fetch(i) \/ Pause(i) \/ Cancel(i) \/ Resume(i) \/ Begin(i)
      PROVE  status'[j] # "none" /\ (status[j] = "done" => status'[j] = "done")
  BY <1>1, <1>5 DEF Fetch, Pause, Cancel, Stop, Resume, Begin, JobTypeOK
<1>6. ASSUME NEW i \in Jobs, Mark(i) \/ Finish(i) \/ Fail(i)
      PROVE  status'[j] # "none" /\ (status[j] = "done" => status'[j] = "done")
  BY <1>1, <1>6 DEF Mark, Finish, Fail, JobTypeOK
<1> QED BY <1>1, <1>2, <1>3, <1>4, <1>5, <1>6, JobWriters

LEMMA WipesDoneStep == ASSUME Owned, Progress, [Next]_vars PROVE WipesDone'
<1> USE DEF Owned, Shape, TypeOK
<1> SUFFICES ASSUME NEW j \in Jobs, pc'[j] = "wipe" PROVE status'[j] = "done"
  BY DEF WipesDone
<1>1. ~ Crash
  BY DEF Crash
<1>2. CASE pc[j] = "wipe"
  BY <1>1, <1>2, StatusKept DEF Progress, WipesDone
<1>3. CASE Finish(j)
  BY <1>3 DEF Finish, Goto, RunnerTypeOK
<1>4. ASSUME Begin(j) \/ NextEntry(j) \/ Copy(j) \/ Lock(j) \/ Rename(j) \/ Fill(j)
      PROVE  FALSE
  BY <1>4 DEF Begin, NextEntry, Copy, Lock, Rename, Fill, Goto, RunnerTypeOK
<1>5. ASSUME Probe(j) \/ Link(j) PROVE FALSE
  BY <1>5 DEF Probe, Link, TryNext, Goto, RunnerTypeOK
<1>6. ASSUME Unlink(j) \/ Mark(j) \/ Undo(j) \/ Save(j) \/ Wipe(j) \/ Fail(j) \/ Forget(j)
      PROVE  FALSE
  BY <1>6 DEF Unlink, Mark, Undo, Save, Wipe, Fail, Forget, Goto, RunnerTypeOK
<1> QED BY <1>1, <1>2, <1>3, <1>4, <1>5, <1>6, Moves

LEMMA RunsKnownStep == ASSUME Owned, Progress, [Next]_vars PROVE RunsKnown'
<1> USE DEF Owned, Shape, TypeOK
<1> SUFFICES ASSUME NEW j \in Jobs, pc'[j] # "idle" PROVE status'[j] # "none"
  BY DEF RunsKnown
<1>1. ~ Crash
  BY DEF Crash
<1>2. CASE pc[j] # "idle"
  BY <1>1, <1>2, StatusKept
<1>3. CASE Begin(j)
  BY <1>3 DEF Begin, JobTypeOK
<1>4. CASE pc[j] = "idle" /\ ~ Begin(j)
  BY <1>1, <1>4, Moves DEF NextEntry, Copy, Lock, Rename, Probe, Link, Fill, Unlink,
     Mark, Undo, Save, Finish, Wipe, Fail, Forget
<1> QED BY <1>2, <1>3, <1>4

LEMMA FreshStep == ASSUME Owned, Progress, [Next]_vars PROVE Fresh'
<1> USE DEF Owned, Shape, TypeOK
<1> DEFINE place == {"copy", "lock"} \cup Held
<1> SUFFICES ASSUME NEW j \in Jobs, pc'[j] \in place
             PROVE  entry'[j] \notin extracted'[j]
  BY DEF Fresh
<1>1. ~ Crash /\ ~ Mark(j)
  BY DEF Crash, Mark, Goto, RunnerTypeOK, Held
<1>2. CASE NextEntry(j)
  <2>1. PICK i \in DOMAIN Archive[j] :
           /\ ToExtract(j, i) /\ entry' = [entry EXCEPT ![j] = Archive[j][i]]
    BY <1>2 DEF NextEntry, Goto, RunnerTypeOK, Held
  <2>2. entry'[j] = Archive[j][i] /\ UNCHANGED extracted
    BY <1>2, <2>1 DEF NextEntry, job, RunnerTypeOK
  <2> QED BY <2>1, <2>2 DEF ToExtract
<1>3. CASE ~ NextEntry(j)
  <2>1. pc[j] \in place /\ entry'[j] = entry[j]
    <3>1. ~ Begin(j) /\ ~ Save(j) /\ ~ Undo(j)
      BY DEF Begin, Save, Undo, Goto, RunnerTypeOK, Held
    <3>2. ~ Finish(j) /\ ~ Wipe(j) /\ ~ Fail(j) /\ ~ Forget(j)
      BY DEF Finish, Wipe, Fail, Forget, Goto, RunnerTypeOK, Held
    <3>3. ASSUME Copy(j) \/ Lock(j) \/ Rename(j) \/ Fill(j) \/ Unlink(j)
          PROVE  pc[j] \in place /\ entry'[j] = entry[j]
      BY <3>3 DEF Copy, Lock, Rename, Fill, Unlink, Goto, Held
    <3>4. ASSUME Probe(j) \/ Link(j)
          PROVE  pc[j] \in place /\ entry'[j] = entry[j]
      BY <3>4 DEF Probe, Link, TryNext, Goto, Held
    <3> QED BY <1>1, <1>3, <3>1, <3>2, <3>3, <3>4, Moves
  <2>2. entry[j] \notin extracted[j] /\ pc[j] # "idle"
    BY <2>1 DEF Progress, Fresh, Held
  <2>3. extracted'[j] \subseteq extracted[j]
    <3>1. Resume(j) => extracted'[j] = Kept(j)
      BY DEF Resume, JobTypeOK
    <3> QED BY <1>1, <2>2, <3>1, ExtractedKept DEF Kept
  <2> QED BY <2>1, <2>2, <2>3
<1> QED BY <1>2, <1>3

LEMMA ProgressCorrect == Spec => []Progress
<1>1. Init => Progress
  BY DEF Init, Progress, Ready, WipesDone, RunsKnown, Fresh, Held
<1>2. Owned /\ Progress /\ [Next]_vars => Progress'
  BY ReadyStep, WipesDoneStep, RunsKnownStep, FreshStep DEF Progress
<1> QED BY <1>1, <1>2, OwnedCorrect, PTL DEF Spec

LEMMA ArchiveFinite ==
    ASSUME NEW j \in Jobs
    PROVE  IsFiniteSet(InArchive(j)) /\ Cardinality(InArchive(j)) \in Nat
<1>1. Archive[j] \in Seq(Entries)
  BY ArchiveAssumption
<1>2. Len(Archive[j]) \in Nat /\ DOMAIN Archive[j] = 1 .. Len(Archive[j])
  BY <1>1
<1>3. Archive[j] \in Surjection(DOMAIN Archive[j], InArchive(j))
  BY <1>1 DEF InArchive, Surjection
<1>4. IsFiniteSet(DOMAIN Archive[j])
  BY <1>2, FS_Interval
<1> QED BY <1>3, <1>4, FS_Surjection, FS_CardinalityType

\* A copy appears only by a commit.
LEMMA CopiesGrow ==
    ASSUME Alone, [Next]_vars, NEW j \in Jobs
    PROVE  \/ Copies(j)' \subseteq Copies(j)
           \/ /\ \E f \in File : Copies(j)' \subseteq Copies(j) \cup {f}
              /\ pc[j] \in {"rename", "link", "fill"} /\ pc'[j] \in {"unlink", "mark"}
              /\ UNCHANGED <<up, job, entry, part, saved, fetches>>
<1> USE DEF Alone, Owned, Shape, TypeOK
<1>1. CASE UNCHANGED file
  BY <1>1 DEF Copies, Complete
<1>2. ASSUME NEW g \in File, Intrude(g) PROVE Copies(j)' \subseteq Copies(j)
  <2>1. \A f \in File : f # g => file'[f] = file[f]
    BY <1>2 DEF Intrude, StoreTypeOK
  <2>2. file'[g].by # j
    BY <1>2, NamesAssumption DEF Intrude, StoreTypeOK
  <2> QED BY <2>1, <2>2 DEF Copies, Complete
<1>3. ASSUME NEW i \in Jobs, Rename(i) \/ Link(i) \/ Fill(i)
      PROVE  \E f \in File : /\ \A g \in File : g # f => file'[g] = file[g]
                             /\ Complete(f)' => file'[f].by = i \/ file'[f] = file[f]
  <2>1. PICK f \in File : f = Target(i)
    BY <1>3, TargetType DEF Rename, Link, Fill, Using, Held
  <2>2. \A g \in File : g # f => file'[g] = file[g]
    <3>1. Rename(i) \/ Link(i) => \A g \in File : g # f => file'[g] = file[g]
      BY <2>1 DEF Rename, Link, StoreTypeOK, store
    <3>2. Fill(i) => \A g \in File : g # f => file'[g] = file[g]
      BY <2>1 DEF Fill, Discarded, StoreTypeOK
    <3> QED BY <1>3, <3>1, <3>2
  <2>3. Rename(i) \/ Link(i) => file'[f].by = i \/ file'[f] = file[f]
    BY <2>1 DEF Rename, Link, StoreTypeOK, store
  <2>4. ASSUME Fill(i), Complete(f)' PROVE file'[f].by = i
    <3>1. file[f] = [by |-> i, whole |-> FALSE] /\ file[f] \in Data
      BY <2>1, <2>4 DEF Fill, FillsOwn, FillsFile
    <3>2. file' = [file EXCEPT ![Target(i)].whole = TRUE]
      BY <2>1, <2>4 DEF Fill, Discarded, Complete, StoreTypeOK
    <3>3. file'[f] = [file[f] EXCEPT !.whole = TRUE]
      BY <2>1, <3>2 DEF StoreTypeOK
    <3>4. file[f].by = i /\ file'[f].by = file[f].by
      BY <3>1, <3>3 DEF Data
    <3> QED BY <3>4
  <2> QED BY <1>3, <2>2, <2>3, <2>4
<1>4. ASSUME NEW i \in Jobs, i # j, Rename(i) \/ Link(i) \/ Fill(i)
      PROVE  Copies(j)' \subseteq Copies(j)
  BY <1>3, <1>4 DEF Copies, Complete
<1>5. ASSUME Rename(j) \/ Link(j) \/ Fill(j), ~ UNCHANGED file,
             pc'[j] \in {"unlink", "mark"}
      PROVE  /\ \E f \in File : Copies(j)' \subseteq Copies(j) \cup {f}
             /\ pc[j] \in {"rename", "link", "fill"} /\ pc'[j] \in {"unlink", "mark"}
             /\ UNCHANGED <<up, job, entry, part, saved, fetches>>
  <2>1. PICK f \in File : \A g \in File : g # f => file'[g] = file[g]
    BY <1>3, <1>5
  <2>2. Copies(j)' \subseteq Copies(j) \cup {f}
    BY <2>1 DEF Copies, Complete
  <2>3. Rename(j) => /\ pc[j] \in {"rename", "link", "fill"}
                     /\ UNCHANGED <<up, job, entry, part, saved, fetches>>
    BY DEF Rename, Goto, cache
  <2>4. Link(j) => /\ pc[j] \in {"rename", "link", "fill"}
                   /\ UNCHANGED <<up, job, entry, part, saved, fetches>>
    BY DEF Link, TryNext, Goto, cache
  <2>5. Fill(j) => /\ pc[j] \in {"rename", "link", "fill"}
                   /\ UNCHANGED <<up, job, entry, part, saved, fetches>>
    BY DEF Fill, Goto, cache
  <2> QED BY <1>5, <2>2, <2>3, <2>4, <2>5
<1>6. ASSUME Rename(j) \/ Link(j) \/ Fill(j), ~ UNCHANGED file,
             pc'[j] \notin {"unlink", "mark"}
      PROVE  Copies(j)' \subseteq Copies(j)
  <2>1. PICK f \in File : f = Target(j)
    BY <1>6, TargetType DEF Rename, Link, Fill, Using, Held
  <2>2. /\ \A g \in File : g # f => file'[g] = file[g]
        /\ ~ Complete(f)'
    <3>1. ~ Rename(j)
      BY <1>6 DEF Rename, Goto, store, RunnerTypeOK
    <3>2. Link(j) => file' = [file EXCEPT ![f] = [by |-> j, whole |-> FALSE]]
      BY <1>6, <2>1 DEF Link, Goto, store, RunnerTypeOK
    <3>3. Fill(j) => file' = [file EXCEPT ![f] = None]
      BY <1>6, <2>1 DEF Fill, Discarded, Goto, RunnerTypeOK
    <3> QED BY <1>6, <3>1, <3>2, <3>3 DEF Complete, StoreTypeOK
  <2> QED BY <2>2 DEF Copies, Complete
<1> QED BY <1>1, <1>2, <1>4, <1>5, <1>6, FilesAlone

\* A part file is there because it was, or the archive came anew.
LEMMA PartKept ==
    ASSUME Owned, [Next]_vars, NEW j \in Jobs, fetches'[j] = fetches[j], part'[j]
    PROVE  part[j]
<1> USE DEF Owned, Shape, TypeOK
<1>1. CASE UNCHANGED cache
  BY <1>1 DEF cache
<1> fetches[j] + 1 # fetches[j]
  BY DEF CountTypeOK
<1>2. CASE Restart
  BY <1>2, Restarted
<1>3. ASSUME NEW i \in Jobs, Open(i) PROVE part[j]
  BY <1>3, Opened
<1>4. ASSUME NEW i \in Jobs, Fetch(i) PROVE part[j]
  <2>1. i = j => fetches'[j] = fetches[j] + 1
    BY <1>4 DEF Fetch, CountTypeOK
  <2>2. i # j
    BY <2>1 DEF CountTypeOK
  <2> QED BY <1>4, <2>2 DEF Fetch, CacheTypeOK
<1>5. ASSUME NEW i \in Jobs, Clean(i) \/ Wipe(i) PROVE part[j]
  BY <1>5 DEF Clean, Wipe, CacheTypeOK
<1>6. ASSUME NEW i \in Jobs, Pause(i) \/ Cancel(i) \/ Resume(i) \/ Save(i) \/ Forget(i)
      PROVE  part[j]
  BY <1>6 DEF Pause, Cancel, Stop, Resume, Save, Forget
<1> QED BY <1>1, <1>2, <1>3, <1>4, <1>5, <1>6, CacheWriters

\* Metadata beside a part file is replaced only by what a job remembers.
LEMMA DiskKept ==
    ASSUME Owned, Progress, [Next]_vars, NEW j \in Jobs,
           fetches'[j] = fetches[j], part'[j]
    PROVE  \/ saved'[j] = saved[j]
           \/ Known(j) /\ UNCHANGED <<up, job>> /\ saved'[j] = extracted[j]
<1> USE DEF Owned, Shape, TypeOK
<1>1. CASE UNCHANGED cache
  BY <1>1 DEF cache
<1>2. CASE Restart
  BY <1>2 DEF Restart
<1>3. ASSUME NEW i \in Jobs, Fetch(i) PROVE saved'[j] = saved[j]
  <2>1. i = j => fetches'[j] = fetches[j] + 1
    BY <1>3 DEF Fetch, CountTypeOK
  <2>2. i # j
    BY <2>1 DEF CountTypeOK
  <2> QED BY <1>3, <2>2 DEF Fetch, CacheTypeOK
<1>4. ASSUME NEW i \in Jobs, Clean(i) \/ Wipe(i) PROVE saved'[j] = saved[j]
  BY <1>4 DEF Clean, Wipe, CacheTypeOK
<1>5. ASSUME NEW i \in Jobs, Open(i) \/ Pause(i) \/ Cancel(i) \/ Resume(i) \/ Forget(i)
      PROVE  saved'[j] = saved[j]
  BY <1>5 DEF Open, Pause, Cancel, Stop, Resume, Forget
<1>6. ASSUME NEW i \in Jobs, Save(i), i # j PROVE saved'[j] = saved[j]
  BY <1>6 DEF Save, CacheTypeOK
<1>7. CASE Save(j)
  <2>1. UNCHANGED <<up, job>> /\ (saved'[j] = saved[j] \/ saved'[j] = extracted[j])
    BY <1>7 DEF Save, CacheTypeOK
  <2>2. Known(j)
    BY <1>7 DEF Save, Known, Down, Progress, RunsKnown
  <2> QED BY <2>1, <2>2
<1> QED BY <1>1, <1>2, <1>3, <1>4, <1>5, <1>6, <1>7, CacheWriters

\* A job that is known forgets nothing unless it is opened again.
LEMMA MemoryKept ==
    ASSUME Owned, Progress, [Next]_vars, NEW j \in Jobs,
           ~ Crash, ~ Restart, ~ Open(j), part[j]
    PROVE  /\ Known(j)' <=> Known(j)
           /\ Known(j) => extracted[j] \subseteq extracted'[j]
<1> USE DEF Owned, Shape, TypeOK
<1>1. up' = up
  BY GivenKept
<1>2. CASE UNCHANGED job
  BY <1>1, <1>2 DEF job, Known
<1>3. ASSUME NEW i \in Jobs, Open(i) PROVE status'[j] = status[j] /\ extracted'[j] = extracted[j]
  <2>1. i # j
    BY <1>3
  <2> QED BY <1>3, <2>1, Opened DEF Open, JobTypeOK
<1>4. ASSUME NEW i \in Jobs, Fetch(i) \/ Pause(i) \/ Cancel(i) \/ Begin(i)
      PROVE  (status'[j] = "none" <=> status[j] = "none") /\ UNCHANGED extracted
  BY <1>4 DEF Fetch, Pause, Cancel, Stop, Begin, JobTypeOK
<1>5. ASSUME NEW i \in Jobs, Resume(i)
      PROVE  (status'[j] = "none" <=> status[j] = "none") /\ extracted'[j] = extracted[j]
  BY <1>5 DEF Resume, Kept, JobTypeOK
<1>6. ASSUME NEW i \in Jobs, Mark(i)
      PROVE  UNCHANGED status /\ extracted[j] \subseteq extracted'[j]
  BY <1>6 DEF Mark, JobTypeOK
<1>7. ASSUME NEW i \in Jobs, Finish(i) \/ Fail(i)
      PROVE  (status'[j] = "none" <=> status[j] = "none") /\ UNCHANGED extracted
  <2>1. UNCHANGED extracted /\ pc[i] # "idle"
    BY <1>7 DEF Finish, Fail
  <2>2. status[i] # "none"
    BY <2>1 DEF Progress, RunsKnown
  <2> QED BY <1>7, <2>1, <2>2 DEF Finish, Fail, JobTypeOK
<1> QED BY <1>1, <1>2, <1>3, <1>4, <1>5, <1>6, <1>7, JobWriters DEF Known

\* What may be extracted before the archive comes anew only shrinks.
LEMMA MissingShrinks ==
    ASSUME Owned, Progress, [Next]_vars, NEW j \in Jobs, fetches'[j] = fetches[j]
    PROVE  Missing(j)' \subseteq Missing(j)
<1> USE DEF Owned, Shape, TypeOK
<1>1. Missing(j)' = IF part'[j] THEN InArchive(j) \ Safe(j)' ELSE {}
  BY DEF Missing, InArchive
<1> SUFFICES ASSUME part'[j] PROVE part[j] /\ Safe(j) \subseteq Safe(j)'
  BY <1>1 DEF Missing
<1>2. part[j]
  BY PartKept
<1>3. Safe(j)' = IF Known(j)' THEN Disk(j)' \cap extracted'[j] ELSE Disk(j)'
  BY DEF Safe
<1>4. Safe(j) \subseteq Disk(j)
  BY DEF Safe
<1>5. Disk(j)' = IF saved'[j] = None THEN {} ELSE saved'[j]
  BY DEF Disk
<1>6. CASE Crash
  <2>1. ~ Known(j)' /\ saved' = saved
    BY <1>6 DEF Crash, Known, cache
  <2> QED BY <1>2, <1>3, <1>4, <1>5, <2>1 DEF Disk
<1>7. ASSUME extracted'[j] = Remembered(j), saved'[j] = saved[j]
      PROVE  Safe(j) \subseteq Safe(j)'
  <2>1. Disk(j)' = Disk(j) /\ Remembered(j) = Disk(j)
    BY <1>2, <1>5, <1>7 DEF Disk, Remembered, Loaded
  <2> QED BY <1>3, <1>4, <1>7, <2>1
<1>8. CASE Restart
  <2>1. /\ saved' = saved /\ (Known(j)' => queued[j])
        /\ extracted'[j] = IF queued[j] THEN Remembered(j) ELSE {}
    BY <1>8, Restarted DEF Restart, Known
  <2>2. CASE ~ Known(j)'
    <3>1. Safe(j)' = Disk(j)' /\ saved'[j] = saved[j]
      BY <1>3, <2>1, <2>2
    <3>2. Safe(j)' = Disk(j)
      BY <1>5, <3>1 DEF Disk
    <3> QED BY <1>2, <1>4, <3>2
  <2>3. CASE Known(j)'
    <3>1. extracted'[j] = Remembered(j) /\ saved'[j] = saved[j]
      BY <2>1, <2>3
    <3> QED BY <1>2, <1>7, <3>1
  <2> QED BY <2>2, <2>3
<1>9. CASE Open(j)
  <2>1. saved' = saved /\ extracted'[j] = Remembered(j)
    BY <1>9 DEF Open, JobTypeOK
  <2> QED BY <1>2, <1>7, <2>1
<1>10. CASE ~ Crash /\ ~ Restart /\ ~ Open(j)
  <2>1. /\ Known(j)' <=> Known(j)
        /\ Known(j) => extracted[j] \subseteq extracted'[j]
    BY <1>2, <1>10, MemoryKept
  <2>2. CASE saved'[j] = saved[j]
    BY <1>2, <1>3, <1>5, <2>1, <2>2 DEF Safe, Disk
  <2>3. CASE Known(j) /\ UNCHANGED <<up, job>> /\ saved'[j] = extracted[j]
    <3>1. extracted[j] # None
      BY NamesAssumption DEF JobTypeOK
    <3> QED BY <1>2, <1>3, <1>5, <2>1, <2>3, <3>1 DEF Safe
  <2> QED BY <2>2, <2>3, DiskKept
<1> QED BY <1>6, <1>8, <1>9, <1>10

\* What a failure costs.
LEMMA Counted ==
    ASSUME TypeOK, [Next]_vars, NEW j \in Jobs
    PROVE  /\ failures' \in Nat /\ failures' >= failures
           /\ Crash => failures' = failures + 1
           /\ fetches'[j] = fetches[j] \/ fetches'[j] = fetches[j] + 1
<1> USE DEF TypeOK, CountTypeOK, Works, Fails, Event
<1>1. CASE UNCHANGED counts /\ ~ Crash
  BY <1>1 DEF counts
<1>2. CASE Crash
  BY <1>2 DEF Crash
<1>3. ASSUME NEW f \in File, Intrude(f) PROVE UNCHANGED <<failures, fetches>>
  BY <1>3 DEF Intrude
<1>4. ASSUME NEW i \in Jobs, Pause(i) \/ Cancel(i) \/ Resume(i) \/ Clean(i)
      PROVE  UNCHANGED <<failures, fetches>>
  BY <1>4 DEF Pause, Cancel, Resume, Clean, Stop
<1>5. ASSUME NEW i \in Jobs, Fetch(i)
      PROVE  /\ UNCHANGED failures
             /\ fetches'[j] = fetches[j] \/ fetches'[j] = fetches[j] + 1
  BY <1>5 DEF Fetch
<1>8. ASSUME Restart \/ \E i \in Jobs : Open(i)
      PROVE  /\ UNCHANGED failures
             /\ fetches'[j] = fetches[j] \/ fetches'[j] = fetches[j] + 1
  <2>1. UNCHANGED failures
    BY <1>8 DEF Restart, Open
  <2>2. ASSUME NEW i \in Jobs, Open(i)
        PROVE  fetches'[j] = fetches[j] \/ fetches'[j] = fetches[j] + 1
    BY <2>2, Opened
  <2> QED BY <1>8, <2>1, <2>2, Restarted
<1>6. ASSUME NEW i \in Jobs, NextEntry(i) \/ Copy(i) \/ Rename(i) \/ Link(i) \/ Fill(i)
      PROVE  failures' \in Nat /\ failures' >= failures /\ UNCHANGED fetches
  <2>1. (Works \/ Fails) /\ UNCHANGED fetches
    BY <1>6 DEF NextEntry, Copy, Rename, Link, Fill
  <2> QED BY <2>1
<1>7. ASSUME NEW i \in Jobs, Save(i) \/ Forget(i)
      PROVE  failures' \in Nat /\ failures' >= failures /\ UNCHANGED fetches
  BY <1>7 DEF Save, Forget
<1> QED BY <1>1, <1>2, <1>3, <1>4, <1>5, <1>6, <1>7, <1>8, CountWriters

\* A copy that leaves the last stage before it is saved was saved or lost.
LEMMA UnsavedEnds ==
    ASSUME Owned, Progress, [Next]_vars, NEW j \in Jobs,
           Unsaved(j), ~ Unsaved(j)', fetches'[j] = fetches[j]
    PROVE  failures' = failures + 1 \/ entry[j] \notin Missing(j)'
<1> USE DEF Owned, Shape, TypeOK
<1> SUFFICES ASSUME entry[j] \in Missing(j)', failures' # failures + 1 PROVE FALSE
  OBVIOUS
<1>1. /\ entry[j] \in Missing(j) /\ part[j]
      /\ pc[j] \in {"unlink", "mark", "save"}
  BY DEF Unsaved, Missing
<1>2. ~ Crash
  BY Counted
<1>3. ~ Unlink(j)
  <2>1. Unlink(j) => pc'[j] = "mark" /\ entry'[j] = entry[j]
    BY DEF Unlink, Goto, RunnerTypeOK
  <2> QED BY <2>1 DEF Unsaved
<1>4. ~ Mark(j)
  <2>1. Mark(j) => /\ pc'[j] = "save" /\ entry'[j] = entry[j]
                   /\ entry[j] \in extracted'[j]
    BY DEF Mark, Goto, RunnerTypeOK, JobTypeOK
  <2> QED BY <2>1 DEF Unsaved
<1>5. ~ Save(j)
  <2>1. ASSUME Save(j), saved' = [saved EXCEPT ![j] = extracted[j]] PROVE FALSE
    <3>1. pc[j] = "save" /\ saved'[j] = extracted[j]
      BY <2>1 DEF Save, CacheTypeOK
    <3>2. entry[j] \in extracted[j] /\ extracted[j] # None
      BY <3>1, NamesAssumption DEF Unsaved, JobTypeOK
    <3>3. Known(j) /\ UNCHANGED <<up, job, entry>>
      BY <2>1, <3>1 DEF Save, Goto, Known, Down, Progress, RunsKnown
    <3>4. Safe(j)' = extracted[j]
      BY <3>1, <3>2, <3>3 DEF Safe, Known, Disk, job
    <3> QED BY <3>2, <3>4 DEF Missing
  <2> QED BY <2>1 DEF Save, Fails, Event
<1>6. pc'[j] = pc[j] /\ entry'[j] = entry[j]
  BY <1>1, <1>2, <1>3, <1>4, <1>5, Moves DEF Begin, NextEntry, Copy, Lock, Rename,
     Probe, Link, Fill, Undo, Finish, Wipe, Fail, Forget
<1>7. pc[j] = "save" /\ entry[j] \in extracted[j] /\ entry[j] \notin extracted'[j]
  BY <1>1, <1>6 DEF Unsaved
<1>8. Resume(j) => extracted'[j] = extracted[j]
  BY <1>1 DEF Resume, Kept, JobTypeOK
<1> QED BY <1>2, <1>4, <1>7, <1>8, ExtractedKept

LEMMA CopiesPaidStep ==
    ASSUME Alone, Progress, CopiesPaid, [Next]_vars
    PROVE  CopiesPaid'
<1> USE DEF Alone, Owned, Shape, TypeOK
<1> SUFFICES ASSUME NEW j \in Jobs
             PROVE  /\ IsFiniteSet(Copies(j)')
                    /\ Cardinality(Copies(j)') + Cardinality(Missing(j)')
                         <= Cardinality(InArchive(j)) * fetches'[j] + failures'
                            + IF Unsaved(j)' THEN 1 ELSE 0
  BY DEF CopiesPaid, InArchive
<1> DEFINE all     == Cardinality(InArchive(j))
           copies  == Cardinality(Copies(j))
           missing == Cardinality(Missing(j))
           one     == IF Unsaved(j) THEN 1 ELSE 0
<1>1. /\ IsFiniteSet(Copies(j)) /\ copies \in Nat
      /\ copies + missing <= all * fetches[j] + failures + one
  BY FS_CardinalityType DEF CopiesPaid
<1>2. /\ IsFiniteSet(InArchive(j)) /\ all \in Nat
  BY ArchiveFinite
<1>3. /\ IsFiniteSet(Missing(j)) /\ missing \in Nat /\ missing <= all
      /\ IsFiniteSet(Missing(j)') /\ missing' \in Nat /\ missing' <= all
  <2>1. Missing(j) \subseteq InArchive(j) /\ Missing(j)' \subseteq InArchive(j)
    BY DEF Missing, InArchive
  <2> QED BY <1>2, <2>1, FS_Subset, FS_CardinalityType
<1>4. one <= missing
  <2>1. ASSUME Unsaved(j) PROVE missing # 0
    BY <1>3, <2>1, FS_EmptySet DEF Unsaved
  <2> QED BY <1>3, <2>1
<1>5. failures \in Nat /\ failures' \in Nat /\ failures' >= failures /\ fetches[j] \in Nat
  BY Counted DEF CountTypeOK
<1>6. all * fetches[j] \in Nat
  BY <1>2, <1>5
<1>7. CASE Copies(j)' \subseteq Copies(j)
  <2>1. IsFiniteSet(Copies(j)') /\ copies' \in Nat /\ copies' <= copies
    BY <1>1, <1>7, FS_Subset, FS_CardinalityType
  <2>2. CASE fetches'[j] = fetches[j] + 1
    <3>2. all * (fetches[j] + 1) = all * fetches[j] + all
      BY <1>2, <1>5
    <3> QED BY <1>1, <1>2, <1>3, <1>4, <1>5, <1>6, <2>1, <2>2, <3>2
  <2>3. CASE fetches'[j] = fetches[j]
    <3>1. Missing(j)' \subseteq Missing(j) /\ fetches'[j] = fetches[j]
      BY <2>3, MissingShrinks
    <3>2. missing' <= missing
      BY <1>3, <3>1, FS_Subset
    <3>3. CASE ~ Unsaved(j) \/ Unsaved(j)'
      BY <1>1, <1>3, <1>5, <1>6, <2>1, <3>1, <3>2, <3>3
    <3>4. CASE Unsaved(j) /\ ~ Unsaved(j)' /\ failures' = failures + 1
      BY <1>1, <1>3, <1>5, <1>6, <2>1, <3>1, <3>2, <3>4
    <3>5. CASE Unsaved(j) /\ ~ Unsaved(j)' /\ entry[j] \notin Missing(j)'
      <4>1. Missing(j)' \subseteq Missing(j) \ {entry[j]} /\ entry[j] \in Missing(j)
        BY <3>1, <3>5 DEF Unsaved
      <4>2. /\ IsFiniteSet(Missing(j) \ {entry[j]})
            /\ Cardinality(Missing(j) \ {entry[j]}) = missing - 1
        BY <1>3, <4>1, FS_RemoveElement
      <4>3. missing' <= missing - 1
        BY <4>1, <4>2, FS_Subset
      <4> QED BY <1>1, <1>3, <1>5, <1>6, <2>1, <3>1, <3>5, <4>3
    <3> QED BY <2>3, <3>3, <3>4, <3>5, UnsavedEnds
  <2> QED BY <2>2, <2>3, Counted
<1>8. ASSUME NEW f \in File, Copies(j)' \subseteq Copies(j) \cup {f},
             pc[j] \in {"rename", "link", "fill"}, pc'[j] \in {"unlink", "mark"},
             UNCHANGED <<up, job, entry, part, saved, fetches>>
      PROVE  /\ IsFiniteSet(Copies(j)')
             /\ copies' + missing' <= all * fetches'[j] + failures'
                  + IF Unsaved(j)' THEN 1 ELSE 0
  <2>1. IsFiniteSet(Copies(j)') /\ copies' \in Nat /\ copies' <= copies + 1
    <3> DEFINE more == Copies(j) \cup {f}
    <3>1. IsFiniteSet(more) /\ Cardinality(more) <= copies + 1
      <4>1. /\ IsFiniteSet(more)
            /\ Cardinality(more) = IF f \in Copies(j) THEN copies ELSE copies + 1
        BY <1>1, FS_AddElement
      <4> QED BY <1>1, <4>1
    <3> QED BY <1>1, <1>8, <3>1, FS_Subset, FS_CardinalityType
  <2>2. Missing(j)' = Missing(j)
    BY <1>8 DEF Missing, InArchive, Safe, Known, Disk, job
  <2>3. ~ Unsaved(j)
    BY <1>8 DEF Unsaved
  <2>4. Unsaved(j)'
    <3>1. up /\ status[j] = "extracting" /\ part[j]
      BY <1>8 DEF Down, CommitAllowed, Held, Progress, Ready
    <3>2. entry[j] \notin extracted[j]
      BY <1>8 DEF Progress, Fresh, Held
    <3>3. entry[j] \in InArchive(j)
      BY <1>8 DEF EntryKnown, Using, Held
    <3>4. entry[j] \in Missing(j)
      BY <3>1, <3>2, <3>3 DEF Missing, Safe, Known
    <3> QED BY <1>8, <2>2, <3>4 DEF Unsaved
  <2> QED BY <1>1, <1>3, <1>5, <1>6, <1>8, <2>1, <2>2, <2>3, <2>4
<1> QED BY <1>7, <1>8, CopiesGrow

\* An archive leaves one copy of each entry for each time the whole archive came
\* into the cache, from the sender or from a copy that lies in the destination,
\* and one more for every crash or failing file operation: neither pause, resume,
\* a restart nor an open that finds the archive in the cache extracts again what
\* is recorded, however often and whenever they happen but between Link and
\* Remove (receiver.go:422-445, 772-777, 834-836).
THEOREM CopiesAreBounded ==
    ASSUME "crash_in_link" \notin Races
    PROVE  Spec => []CopiesBounded
<1>1. Init => CopiesPaid
  <2> SUFFICES ASSUME Init, NEW j \in Jobs
               PROVE  /\ IsFiniteSet(Copies(j))
                      /\ Cardinality(Copies(j)) + Cardinality(Missing(j))
                           <= Cardinality(InArchive(j)) * fetches[j] + failures
                              + IF Unsaved(j) THEN 1 ELSE 0
    BY DEF CopiesPaid
  <2>1. Copies(j) = {} /\ Missing(j) = {} /\ ~ Unsaved(j)
    BY DEF Init, Copies, Missing, Complete, Unsaved
  <2>2. fetches[j] = 0 /\ failures = 0
    BY DEF Init
  <2> QED BY <2>1, <2>2, FS_EmptySet, ArchiveFinite
<1>2. Alone /\ Progress /\ CopiesPaid /\ [Next]_vars => CopiesPaid'
  BY CopiesPaidStep
<1>3. Shape /\ CopiesPaid => CopiesBounded
  <2> SUFFICES ASSUME Shape, CopiesPaid, NEW j \in Jobs
               PROVE  Cardinality(Copies(j))
                        <= Cardinality(InArchive(j)) * fetches[j] + failures
    BY DEF CopiesBounded, Copies
  <2> DEFINE copies  == Cardinality(Copies(j))
             missing == Cardinality(Missing(j))
             bound   == Cardinality(InArchive(j)) * fetches[j]
  <2>1. /\ IsFiniteSet(Copies(j)) /\ copies \in Nat
        /\ copies + missing <= bound + failures + IF Unsaved(j) THEN 1 ELSE 0
    BY FS_CardinalityType DEF CopiesPaid
  <2>2. bound \in Nat /\ failures \in Nat
    BY ArchiveFinite DEF Shape, TypeOK, CountTypeOK
  <2>3. IsFiniteSet(Missing(j)) /\ missing \in Nat
    <3>1. Missing(j) \subseteq InArchive(j)
      BY DEF Missing
    <3> QED BY <3>1, ArchiveFinite, FS_Subset, FS_CardinalityType
  <2>4. Unsaved(j) => missing # 0
    BY <2>3, FS_EmptySet DEF Unsaved
  <2> QED BY <2>1, <2>2, <2>3, <2>4
<1>4. Spec => []Alone
  BY AloneCorrect
<1> QED BY <1>1, <1>2, <1>3, <1>4, ProgressCorrect, ShapeCorrect, PTL DEF Spec

=============================================================================
