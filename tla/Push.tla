-------------------------------- MODULE Push --------------------------------
(***************************************************************************)
(* From a selection of files to an uploader's queue: /api/push and            *)
(* /api/push-test (transfer.go) with the preparation they report              *)
(* (preparation.go), the selection they walk (selections.go), the archive      *)
(* they pack and the names they queue (beginUpload), against the requests      *)
(* that change the shared roots meanwhile.                                    *)
(*                                                                         *)
(* A path is the sequence of its components.  A shared root gives its path a   *)
(* name <<base, n>>, "base (n)" for n > 0; what is queued is a root's name     *)
(* with the rest of the path, and is looked up again whenever it is read.      *)
(* One remote.  A section under App.mu, Sender.mu or a file is one step.       *)
(***************************************************************************)
EXTENDS Naturals, Sequences, FiniteSets, FiniteSetsExt, SequencesExt

CONSTANTS
    Pushes,     \* requests
    None,       \* no push, no file
    Files,      \* regular files
    Selections, \* what a push may select: sequences of paths
    Folders,    \* what is shared through the page
    SendDir,    \* where archives are packed
    TestDir, TestName,  \* the file of the connection test
    MaxEvents,  \* bound on failing operations and changes of roots and files
    Races       \* overlaps that may happen

ASSUME BoundAssumption == MaxEvents \in Nat
ASSUME RacesAssumption == Races \subseteq {"share_replaced"}
\* No file is inside another one, and the hidden folders are none.
IsPath(p) == p \in Seq(STRING) /\ p # <<>>
ASSUME PathsAssumption ==
    /\ IsFiniteSet(Files) /\ \A p \in Files \cup Folders \cup {SendDir, TestDir} : IsPath(p)
    /\ \A sel \in Selections : sel \in Seq(Seq(STRING)) /\ <<>> \notin ToSet(sel)
    /\ \A f, g \in Files : IsPrefix(f, g) => f = g
    /\ {SendDir, TestDir} \cap Files = {}
    /\ None \notin Pushes

VARIABLES
    sender,     \* app.sender, 0 for none
    roots,      \* of every sender there was, its roots with their ages
    uploader,   \* the sender of the remote's uploader, 0 before there is one
    preparing,  \* app.preparing
    prog,       \* the progress of each push
    push,       \* the handler of each push
    version,    \* what each file is at; it tells the sizes apart
    events,
    gone        \* history: names of the roots the user removed

shares == <<sender, roots>>
vars   == <<shares, uploader, preparing, prog, push, version, events, gone>>

Archives == {Append(SendDir, h) : h \in Pushes}
TestFile == Append(TestDir, TestName)
Readable == Files \cup Archives \cup {TestFile}
Kind == {"plain", "archive", "test"}
Pc == {"idle", "sender", "look", "add", "match", "pack", "copy", "close", "testlook",
       "testadd", "testname", "connect", "open", "respond", "done"}

Item(name, rel, file, size) ==
    [name |-> [root |-> name, rel |-> rel], file |-> file, size |-> size]
Fresh == [stage |-> "scanning", active |-> TRUE, total |-> 0, finished |-> 0,
          totalBytes |-> 0, doneBytes |-> 0]
NoProgress == [Fresh EXCEPT !.stage = "idle", !.active = FALSE]

Init ==
    /\ sender = 0 /\ roots = <<>> /\ uploader = 0 /\ preparing = None
    /\ prog = [h \in Pushes |-> NoProgress]
    /\ push = [h \in Pushes |-> [pc |-> "idle", kind |-> "plain", sel |-> <<>>, s |-> 0,
                                 todo |-> <<>>, items |-> {}, left |-> {}, src |-> None, ver |-> 0,
                                 packed |-> {}, zip |-> FALSE, sent |-> {},
                                 status |-> "none"]]
    /\ version = [f \in Readable |-> 0]
    /\ events = 0 /\ gone = {}

Fails == events < MaxEvents /\ events' = events + 1
Works == UNCHANGED events
Size(v) == v + 1

(***************************************************************************)
(* Sender: the shared roots                                                *)
(***************************************************************************)
Base(path) == path[Len(path)]
Oldest(rs) == CHOOSE r \in rs : \A q \in rs : r.age <= q.age
Taken(rs, name) == \E r \in rs : r.name = name
NameFor(rs, path) ==
    LET n == CHOOSE n \in 0 .. Cardinality(rs) :
                /\ ~ Taken(rs, <<Base(path), n>>)
                /\ \A k \in 0 .. n - 1 : Taken(rs, <<Base(path), k>>)
    IN <<Base(path), n>>
WithRoot(rs, path, test) ==
    rs \cup {[name |-> NameFor(rs, path), path |-> path, test |-> test,
             file |-> path \in Files, age |-> Max({0} \cup {r.age : r \in rs}) + 1]}

Without_Base(rs, name) ==  \* faulty: "name" takes "name (1)" with it
    {r \in rs : r.name[1] # name[1]}
Without(rs, name) == {r \in rs : r.name # name}

\* The roots of the path; the oldest is the one that is found.
RootsOf(rs, path, test) == {r \in rs : r.path = path /\ r.test = test}

\* Sender.open: a file root by its name, a folder by its prefix, and the only
\* root also without.
Located(rs, name) ==
    LET fits == {r \in rs : r.name = name.root /\ r.file = (name.rel = <<>>)}
    IN IF fits # {} THEN Oldest(fits).path \o name.rel
       ELSE IF Cardinality(rs) = 1 /\ ~ Oldest(rs).file /\ name.root[2] = 0
       THEN Oldest(rs).path \o <<name.root[1]>> \o name.rel
       ELSE <<>>
Opened(s, name) ==
    LET path == Located(roots[s], name)
    IN IF \/ path \in Files \cup {TestFile}
          \/ \E h \in Pushes : path = Append(SendDir, h) /\ push[h].zip
       THEN path ELSE None

Others == events < MaxEvents /\ events' = events + 1
OthersOnly == UNCHANGED <<uploader, preparing, prog, push>>

\* /api/start-serve: a new Sender takes the place of the one there is.
StartServe(path) ==
    /\ Others
    /\ (\E h \in Pushes : push[h].s # 0) => "share_replaced" \in Races
    /\ roots' = Append(roots, WithRoot({}, path, FALSE))
    /\ sender' = Len(roots) + 1
    /\ OthersOnly /\ UNCHANGED <<version, gone>>

AddFolder(path) ==
    /\ Others /\ sender # 0
    /\ roots' = [roots EXCEPT ![sender] = WithRoot(@, path, FALSE)]
    /\ OthersOnly /\ UNCHANGED <<sender, version, gone>>

RemoveFolder(name) ==
    /\ Others /\ sender # 0 /\ Taken(roots[sender], name)
    /\ roots' = [roots EXCEPT ![sender] = Without(@, name)]
    /\ gone' = gone \cup {name}
    /\ OthersOnly /\ UNCHANGED <<sender, version>>

\* Another program writes to a selected file.
Change(f) ==
    /\ Others
    /\ version' = [version EXCEPT ![f] = @ + 1]
    /\ OthersOnly /\ UNCHANGED <<shares, gone>>

(***************************************************************************)
(* The handlers of push and push-test                                      *)
(***************************************************************************)
Goto(h, label) == push' = [push EXCEPT ![h].pc = label]
Fail(h) == push' = [push EXCEPT ![h].pc = "respond", ![h].status = "error"]
Mine(h) == roots[push[h].s]

Busy_Never == FALSE  \* faulty: a second preparation may start
Busy == preparing # None /\ prog[preparing].active

\* startPreparation; a request that finds another one preparing is refused.
StartPush(h, kind, sel) ==
    /\ push[h].pc = "idle"
    /\ IF Busy
       THEN /\ push' = [push EXCEPT ![h].pc = "done", ![h].status = "busy"]
            /\ UNCHANGED <<preparing, prog>>
       ELSE /\ push' = [push EXCEPT ![h].pc = "sender", ![h].kind = kind, ![h].sel = sel,
                                    ![h].todo = sel]
            /\ preparing' = h /\ prog' = [prog EXCEPT ![h] = Fresh]
    /\ UNCHANGED <<shares, uploader, version, events, gone>>

StartTest(h) ==
    /\ push[h].pc = "idle"
    /\ push' = [push EXCEPT ![h].pc = "sender", ![h].kind = "test"]
    /\ UNCHANGED <<shares, uploader, preparing, prog, version, events, gone>>

\* The handler keeps the sender it finds, or the one it creates.
TakeSender(h) ==
    /\ push[h].pc = "sender"
    /\ IF sender = 0 THEN roots' = Append(roots, {}) /\ sender' = Len(roots) + 1
       ELSE UNCHANGED shares
    /\ push' = [push EXCEPT ![h].s = sender',
                            ![h].pc = IF push[h].kind = "test" THEN "testlook" ELSE "look"]
    /\ UNCHANGED <<uploader, preparing, prog, version, events, gone>>

\* Each selected path, unless it is shared already.
Look(h) ==
    /\ push[h].pc = "look"
    /\ IF push[h].todo = <<>> THEN Goto(h, "match")
       ELSE IF RootsOf(Mine(h), Head(push[h].todo), FALSE) = {} THEN Goto(h, "add")
       ELSE push' = [push EXCEPT ![h].todo = Tail(@)]
    /\ UNCHANGED <<shares, uploader, preparing, prog, version, events, gone>>

Add(h) ==
    /\ push[h].pc = "add"
    /\ \/ /\ Works
          /\ roots' = [roots EXCEPT ![push[h].s] = WithRoot(@, Head(push[h].todo), FALSE)]
          /\ push' = [push EXCEPT ![h].pc = "look", ![h].todo = Tail(@)]
       \/ Fails /\ Fail(h) /\ UNCHANGED roots
    /\ UNCHANGED <<sender, uploader, preparing, prog, version, gone>>

\* selectedFiles: folders first, the shorter path first; a file is taken once.
Selected(h) == {f \in Files : \E i \in DOMAIN push[h].sel : IsPrefix(push[h].sel[i], f)}
Holders_All(h, f) ==  \* faulty: a file is taken again for every root it is under
    {p \in ToSet(push[h].sel) : IsPrefix(p, f)}
Holders(h, f) ==
    LET all == {p \in ToSet(push[h].sel) : IsPrefix(p, f)}
    IN {p \in all : \A q \in all : Len(p) <= Len(q)}
ItemsOf(h) ==
    UNION {{LET r == Oldest(RootsOf(Mine(h), p, FALSE))
            IN Item(r.name, SubSeq(f, Len(p) + 1, Len(f)), f, Size(version[f]))
              : p \in Holders(h, f)} : f \in Selected(h)}

Match(h) ==
    /\ push[h].pc = "match"
    /\ \/ /\ Works
          /\ \A i \in DOMAIN push[h].sel : RootsOf(Mine(h), push[h].sel[i], FALSE) # {}
          /\ LET items == ItemsOf(h)
             IN /\ prog' = [prog EXCEPT
                      ![h].total = Cardinality(items),
                      ![h].totalBytes = MapThenSumSet(LAMBDA i : i.size, items)]
                /\ IF items = {} THEN Fail(h)
                   ELSE push' = [push EXCEPT ![h].items = items, ![h].left = items,
                          ![h].pc = IF push[h].kind = "archive" THEN "pack" ELSE "connect"]
       \/ /\ \E i \in DOMAIN push[h].sel : RootsOf(Mine(h), push[h].sel[i], FALSE) = {}
          /\ Works /\ Fail(h) /\ UNCHANGED prog
       \/ Fails /\ Fail(h) /\ UNCHANGED prog
    /\ UNCHANGED <<shares, uploader, preparing, version, gone>>

(***************************************************************************)
(* buildArchiveProgress                                                    *)
(***************************************************************************)
First(set) == CHOOSE i \in set : TRUE
Source(h) == Opened(push[h].s, First(push[h].left).name)

\* The total is corrected by what the file grew since it was listed.
Corrected_Swapped(h) ==  \* faulty: by what it shrank
    prog[h].totalBytes + First(push[h].left).size - Size(version[Source(h)])
Corrected_Not(h) == prog[h].totalBytes  \* faulty: it stays
Corrected(h) == prog[h].totalBytes + Size(version[Source(h)]) - First(push[h].left).size

PackOpen(h) ==
    /\ push[h].pc = "pack" /\ push[h].left # {}
    /\ \/ /\ Works /\ Source(h) # None
          /\ push' = [push EXCEPT ![h].pc = "copy", ![h].src = Source(h),
                                    ![h].ver = version[Source(h)]]
          /\ prog' = [prog EXCEPT ![h].stage = "compressing", ![h].totalBytes = Corrected(h)]
       \/ Source(h) = None /\ Works /\ Fail(h) /\ UNCHANGED prog
       \/ Fails /\ Fail(h) /\ UNCHANGED prog
    /\ UNCHANGED <<shares, uploader, preparing, version, gone>>

\* The open file is copied, and looked at again.
Changed_Unseen(h) == FALSE  \* faulty: the file is not looked at again
Changed(h) == version[push[h].src] # push[h].ver
PackCopy(h) ==
    LET p == push[h]
    IN /\ p.pc = "copy"
       /\ \/ /\ Works /\ ~ Changed(h)
             /\ prog' = [prog EXCEPT ![h].finished = @ + 1,
                                     ![h].doneBytes = @ + Size(version[p.src])]
             /\ push' = [push EXCEPT ![h].pc = "pack", ![h].left = @ \ {First(p.left)},
                   ![h].packed = @ \cup {[name |-> First(p.left).name, file |-> p.src,
                                          whole |-> version[p.src] = p.ver]}]
          \/ /\ Changed(h) /\ Works /\ Fail(h)
             /\ prog' = [prog EXCEPT ![h].doneBytes = @ + Size(version[p.src])]
          \/ Fails /\ Fail(h) /\ UNCHANGED prog
       /\ UNCHANGED <<shares, uploader, preparing, version, gone>>

\* The archive is closed, synced, verified and given its name.
PackEnd(h) ==
    /\ push[h].pc = "pack" /\ push[h].left = {}
    /\ \/ Works /\ push' = [push EXCEPT ![h].pc = "testlook", ![h].zip = TRUE]
       \/ Fails /\ Fail(h)
    /\ prog' = [prog EXCEPT ![h].stage = "verifying"]
    /\ UNCHANGED <<shares, uploader, preparing, version, gone>>

(***************************************************************************)
(* addTestRoot: the folder of the archives or of the test file is shared      *)
(* once, and not listed                                                      *)
(***************************************************************************)
HiddenDir(h) == IF push[h].kind = "test" THEN TestDir ELSE SendDir
HiddenName(h) == IF push[h].kind = "test" THEN TestName ELSE h

\* A push goes on with the name addTestRoot gives; a test looks it up.
UseHidden(h, name) ==
    push' = [push EXCEPT ![h].pc = IF push[h].kind = "test" THEN "testname" ELSE "connect",
                         ![h].left = {Item(name, <<HiddenName(h)>>, None, 0)}]

TestLook(h) ==
    /\ push[h].pc = "testlook"
    /\ LET found == RootsOf(Mine(h), HiddenDir(h), TRUE)
       IN IF found = {} THEN Goto(h, "testadd") ELSE UseHidden(h, Oldest(found).name)
    /\ UNCHANGED <<shares, uploader, preparing, prog, version, events, gone>>

TestAdd(h) ==
    /\ push[h].pc = "testadd"
    /\ \/ /\ Works
          /\ roots' = [roots EXCEPT ![push[h].s] = WithRoot(@, HiddenDir(h), TRUE)]
          /\ UseHidden(h, NameFor(Mine(h), HiddenDir(h)))
       \/ Fails /\ Fail(h) /\ UNCHANGED roots
    /\ UNCHANGED <<sender, uploader, preparing, prog, version, gone>>

TestNamed(h) ==
    /\ push[h].pc = "testname"
    /\ LET found == RootsOf(Mine(h), TestDir, TRUE)
           item == IF found = {} THEN Item(<<TestName, 0>>, <<>>, None, 0)
                   ELSE Item(Oldest(found).name, <<TestName>>, None, 0)
       IN push' = [push EXCEPT ![h].pc = "connect", ![h].left = {item}]
    /\ UNCHANGED <<shares, uploader, preparing, prog, version, events, gone>>

(***************************************************************************)
(* beginUpload                                                             *)
(***************************************************************************)
\* authRemote; the remote's first push makes its uploader, which reads from the
\* sender of that push for ever.
Connect(h) ==
    /\ push[h].pc = "connect"
    /\ \/ /\ Works /\ Goto(h, "open")
          /\ uploader' = IF uploader = 0 THEN push[h].s ELSE uploader
       \/ Fails /\ Fail(h) /\ UNCHANGED uploader
    /\ prog' = IF push[h].kind = "test" THEN prog ELSE [prog EXCEPT ![h].stage = "connecting"]
    /\ UNCHANGED <<shares, preparing, version, gone>>

\* One open request after the other; what is queued stays when a later one fails.
Open(h) ==
    /\ push[h].pc = "open" /\ push[h].left # {}
    /\ \/ /\ Works /\ Source(h) # None
          /\ push' = [push EXCEPT ![h].left = @ \ {First(@)},
                ![h].sent = @ \cup {[name |-> First(push[h].left).name,
                                     file |-> Source(h)]}]
       \/ Source(h) = None /\ Works /\ Fail(h)
       \/ Fails /\ Fail(h)
    /\ UNCHANGED <<shares, uploader, preparing, prog, version, gone>>

Queued(h) ==
    /\ push[h].pc = "open" /\ push[h].left = {}
    /\ push' = [push EXCEPT ![h].pc = "respond", ![h].status = "ok"]
    /\ UNCHANGED <<shares, uploader, preparing, prog, version, events, gone>>

\* The answer has been written; progress.finish is deferred.
Ended_OnlyReady(h) ==  \* faulty: an early return forgets the preparation
    IF push[h].status = "ok" THEN [prog[h] EXCEPT !.stage = "ready", !.active = FALSE]
    ELSE prog[h]
Ended(h) ==
    [prog[h] EXCEPT !.stage = IF push[h].status = "ok" THEN "ready" ELSE "error",
                    !.active = FALSE]
Respond(h) ==
    /\ push[h].pc = "respond" /\ Goto(h, "done")
    /\ prog' = IF push[h].kind = "test" THEN prog ELSE [prog EXCEPT ![h] = Ended(h)]
    /\ UNCHANGED <<shares, uploader, preparing, version, events, gone>>

(***************************************************************************)
(* The specification                                                       *)
(***************************************************************************)
Step(h) ==
    \/ TakeSender(h) \/ Look(h) \/ Add(h) \/ Match(h)
    \/ PackOpen(h) \/ PackCopy(h) \/ PackEnd(h)
    \/ TestLook(h) \/ TestAdd(h) \/ TestNamed(h)
    \/ Connect(h) \/ Open(h) \/ Queued(h) \/ Respond(h)

Next ==
    \/ \E h \in Pushes : Step(h) \/ StartTest(h)
    \/ \E h \in Pushes, kind \in {"plain", "archive"}, sel \in Selections :
          StartPush(h, kind, sel)
    \/ \E path \in Folders : StartServe(path) \/ AddFolder(path)
    \/ \E s \in DOMAIN roots : \E r \in roots[s] : RemoveFolder(r.name)
    \/ \E f \in Files : Change(f)

Spec == Init /\ [][Next]_vars

\* A handler that runs comes on; its requests have timeouts.
FairSpec == Spec /\ \A h \in Pushes : WF_vars(Step(h))

(***************************************************************************)
(* Properties                                                              *)
(***************************************************************************)
Stage == {"idle", "scanning", "compressing", "verifying", "connecting", "ready", "error"}
TypeOK ==
    /\ sender \in 0 .. Len(roots) /\ uploader \in 0 .. Len(roots)
    /\ preparing \in Pushes \cup {None}
    /\ \A h \in Pushes :
          /\ prog[h].stage \in Stage /\ prog[h].active \in BOOLEAN
          /\ {prog[h].total, prog[h].finished, prog[h].totalBytes, prog[h].doneBytes}
                \subseteq Nat
          /\ push[h].pc \in Pc /\ push[h].kind \in Kind /\ push[h].s \in 0 .. Len(roots)
          /\ push[h].src \in Readable \cup {None} /\ push[h].zip \in BOOLEAN
          /\ push[h].status \in {"none", "ok", "error", "busy"}
          /\ \A x \in push[h].sent : x.file \in Readable
    /\ version \in [Readable -> Nat] /\ events \in Nat

\* What the page shows of preparations is right: at most one push prepares at a
\* time, it is the one that is shown, as active until its handler has returned,
\* and an archive that is ready adds up to all its files and all their bytes, also
\* of files that grew between listing and packing (preparation.go:66-77,
\* selections.go:156-160, transfer.go:734, 740-757, 1195-1201).
Prepares(h) == push[h].kind # "test" /\ push[h].pc \notin {"idle", "done"}
AddsUp(p) == p.finished = p.total /\ p.doneBytes = p.totalBytes
PreparationShown ==
    \A h \in Pushes :
        /\ Prepares(h) => preparing = h /\ prog[h].active
        /\ push[h].kind = "archive" /\ prog[h].stage = "ready" => AddsUp(prog[h])

\* A push that was answered ok has queued the files that are selected, each under
\* one name, or one archive that has them, each as it was at one moment; unless
\* the user took one of the names away from its folder meanwhile (selections.go:
\* 122-162, transfer.go:710-757, upload_client.go:92-127).
Renamed(set) == \E x \in set : x.name.root \in gone
Exactly(set, files) ==
    {x.file : x \in set} = files /\ Cardinality(set) = Cardinality(files)
SendsSelection ==
    \A h \in Pushes : push[h].status = "ok" /\ ~ Renamed(push[h].items) =>
        /\ push[h].kind = "plain" => Exactly(push[h].sent, Selected(h))
        /\ push[h].kind = "archive" =>
              /\ Exactly(push[h].packed, Selected(h))
              /\ \A x \in push[h].packed : x.whole
              /\ Cardinality(push[h].sent) = 1

\* What is queued is read from the uploader's sender, chunk by chunk, and its name
\* still means the file that was queued, whatever is shared since then, unless the
\* user took the name away; a test that finds its folder taken away goes on with a
\* name without one (upload_client.go:288, 375, 409, transfer.go:1319-1325).
Bare == IF gone = {} THEN {} ELSE {<<TestName, 0>>}
ServesQueued ==
    \A h \in Pushes : \A x \in push[h].sent :
        x.name.root \in gone \cup Bare \/ Opened(uploader, x.name) = x.file

\* A preparation ends, also by an error, and lets the next push in.
PreparationEnds == \A h \in Pushes : prog[h].active ~> ~ prog[h].active
=============================================================================
