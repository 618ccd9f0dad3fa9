----------------------------- MODULE PushProofs -----------------------------
(***************************************************************************)
(* Proofs about Push.  The invariant Inv relates the roots of every sender  *)
(* to the names that are listed, packed and queued: a root keeps its name   *)
(* until the user removes it, a name that a file was listed under finds     *)
(* that file, and what is packed or queued is what was listed and is not    *)
(* left.  Moves says what a step does to the record of its handler; every   *)
(* part of Inv that is about one handler is preserved by case on it.        *)
(***************************************************************************)
EXTENDS Push, FiniteSetTheorems, WellFoundedInduction, SequenceTheorems, TLAPS

(***************************************************************************)
(* Types                                                                   *)
(***************************************************************************)
Path  == {p \in Seq(STRING) : p # <<>>}
Comp  == STRING \cup Pushes \cup {TestName}
Root  == [name : STRING \X Nat, path : Path, test : BOOLEAN, file : BOOLEAN, age : Nat]
Name  == [root : Comp \X Nat, rel : Seq(Comp)]
Items == [name : Name, file : Files \cup {None}, size : Nat]
Handler ==
    [pc : Pc, kind : Kind, sel : Seq(Path), s : Nat, todo : Seq(Path), items : SUBSET Items,
     left : SUBSET Items, src : Readable \cup {None}, ver : Nat,
     packed : SUBSET [name : Name, file : Readable, whole : BOOLEAN], zip : BOOLEAN,
     sent : SUBSET [name : Name, file : Readable],
     status : {"none", "ok", "error", "busy"}]
Progress ==
    [stage : Stage, active : BOOLEAN, total : Nat, finished : Nat, totalBytes : Nat,
     doneBytes : Nat]

\* Of one sender, a name has one root (transfer.go:459-475).
SharesTyped ==
    /\ roots \in Seq(SUBSET Root) /\ sender \in 0 .. Len(roots)
    /\ uploader \in 0 .. Len(roots)
    /\ \A s \in DOMAIN roots :
          /\ IsFiniteSet(roots[s])
          /\ \A r \in roots[s] : r.file = (r.path \in Files)
          /\ \A q, r \in roots[s] : q.name = r.name => q = r
PushTyped ==
    /\ push \in [Pushes -> Handler] /\ preparing \in Pushes \cup {None}
    /\ version \in [Readable -> Nat] /\ events \in Nat
    /\ \A h \in Pushes : push[h].s \in 0 .. Len(roots) /\ IsFiniteSet(push[h].left)
ProgTyped == prog \in [Pushes -> Progress]

\* What a handler has at each of its steps.
Flow(p) ==
    /\ p.pc = "idle" => p.items = {} /\ p.left = {} /\ p.packed = {} /\ p.s = 0
    /\ p.pc \in {"idle", "sender", "look", "add", "match", "pack", "copy", "testlook",
                 "testadd", "testname"} => p.sent = {}
    /\ p.pc \in {"sender", "look", "add", "match"} => p.items = {} /\ p.left = {} /\ p.packed = {}
    /\ p.pc \in {"look", "add", "match"} => p.kind # "test"
    /\ p.pc \in {"pack", "copy"} => p.kind = "archive"
    /\ p.pc \in {"testlook", "testadd"} => p.kind # "plain"
    /\ p.pc = "testname" => p.kind = "test"
    /\ p.pc # "close"
    /\ p.pc = "add" => p.todo # <<>>
    /\ p.pc = "copy" => p.left # {} /\ p.src \in Readable
    /\ p.pc \notin {"respond", "done"} => p.status = "none"
    /\ p.pc \notin {"idle", "sender", "done"} => p.s # 0
    /\ p.s # 0 => p.pc \notin {"idle", "sender"}
    /\ p.s = 0 => p.items = {} /\ p.left = {} /\ p.sent = {}
Flows == \A h \in Pushes : Flow(push[h])

\* The preparation that is shown is the one that goes on.
Prepared == \A h \in Pushes : Prepares(h) => preparing = h /\ prog[h].active

Sum(set) == MapThenSumSet(LAMBDA i : i.size, set)
\* The numbers of an archive's preparation agree with what is left to pack: before a
\* file is opened its size is the listed one, from then on the one it has.
PackedAll(p) ==
    p.pc \in {"testlook", "testadd", "connect", "open"} \/ p.status = "ok"
Counts(p, a) ==
    p.kind = "archive" =>
        /\ p.pc \in {"sender", "look", "add", "match"} => a.finished = 0 /\ a.doneBytes = 0
        /\ p.pc \in {"pack", "copy"} => a.finished + Cardinality(p.left) = a.total
        /\ p.pc = "pack" => a.doneBytes + Sum(p.left) = a.totalBytes
        /\ p.pc = "copy" =>
              a.doneBytes + Sum(p.left \ {First(p.left)}) + Size(p.ver) = a.totalBytes
        /\ PackedAll(p) => AddsUp(a)
        /\ a.stage = "ready" => p.pc = "done" /\ p.status = "ok"
Counted == \A h \in Pushes : Counts(push[h], prog[h])

\* A name has a root, and means a file by it.
HasRoot(rs, name, file) ==
    \E r \in rs : /\ r.name = name.root /\ r.file = (name.rel = <<>>)
                  /\ r.path \o name.rel = file
NamesRoot(rs, name) == \E r \in rs : r.name = name.root /\ r.file = (name.rel = <<>>)
Matched(p) ==
    p.kind # "test" /\ (p.pc \in {"pack", "copy", "testlook", "testadd", "connect", "open"}
                        \/ p.status = "ok")
\* The items are the selected files, each once, under a name that means it until the
\* user takes the name away.
SelectedBy(sel) == {f \in Files : \E i \in DOMAIN sel : IsPrefix(sel[i], f)}
Picks(p, rs, names) ==
    /\ Matched(p) => p.items # {}
    /\ p.items # {} =>
          /\ {i.file : i \in p.items} = SelectedBy(p.sel)
          /\ \A i, j \in p.items : i.file = j.file => i = j
    /\ \A i \in p.items : i.name.root \in names \/ HasRoot(rs, i.name, i.file)
Picked == \A h \in Pushes : Picks(push[h], Mine(h), gone)

\* What is left to pack or to open has a root, and so has what was opened, which still
\* means the same.
Leaves(p, rs, names, removed) ==
    /\ \A i \in p.left : i.name.root \in names \/ NamesRoot(rs, i.name)
    /\ p.pc = "testname" => removed \/ RootsOf(rs, TestDir, TRUE) # {}
LeftBound == \A h \in Pushes : Leaves(push[h], Mine(h), gone \cup Bare, gone # {})

Archived == {Append(SendDir, g) : g \in {h \in Pushes : push[h].zip}}
Sends(p, rs, names, archived) ==
    \A x \in p.sent :
        /\ x.file \in Files \cup {TestFile} \cup archived
        /\ x.name.root \in names \/ HasRoot(rs, x.name, x.file)
SentBound == \A h \in Pushes : Sends(push[h], Mine(h), gone \cup Bare, Archived)

\* What is packed and queued is what is no longer left, while no name was taken away.
SentOf(items) == {[name |-> i.name, file |-> i.file] : i \in items}
PackedOf(items) == {[name |-> i.name, file |-> i.file, whole |-> TRUE] : i \in items}
Clear(items, names) == \A i \in items : i.name.root \notin names
Plainly(p, names) ==
    p.kind = "plain" /\ (p.pc \in {"connect", "open"} \/ p.status = "ok") =>
        /\ p.left \subseteq p.items
        /\ p.status = "ok" => p.left = {}
        /\ Clear(p.items, names) => p.sent = SentOf(p.items \ p.left)
Packed(p, names) ==
    p.kind = "archive" =>
        /\ p.pc \in {"pack", "copy"} =>
              /\ p.left \subseteq p.items
              /\ Clear(p.items, names) => p.packed = PackedOf(p.items \ p.left)
        /\ p.pc = "copy" /\ Clear(p.items, names) => p.src = First(p.left).file
        /\ PackedAll(p) /\ Clear(p.items, names) => p.packed = PackedOf(p.items)
Hidden(p) ==
    p.kind = "archive" /\ (p.pc \in {"connect", "open"} \/ p.status = "ok") =>
        \/ p.status # "ok" /\ p.sent = {} /\ \E i \in p.left : p.left = {i}
        \/ p.left = {} /\ \E x \in p.sent : p.sent = {x}
Ships(p, names) == Plainly(p, names) /\ Packed(p, names) /\ Hidden(p)
Shipped == \A h \in Pushes : Ships(push[h], gone)

\* Every handler, and the uploader, has the sender there is.
Asks(p) == p.pc = "open" \/ p.sent # {}
OneSender ==
    /\ \A h \in Pushes : push[h].s \in {0, sender}
    /\ uploader \in {0, sender}
    /\ uploader # 0 => \E h \in Pushes : push[h].s # 0
    /\ \A h \in Pushes : Asks(push[h]) => uploader # 0
(***************************************************************************)
(* Numbers, roots and names                                                *)
(***************************************************************************)

\* A set of numbers that is not empty has a least one.
LEMMA LeastNumber ==
    ASSUME NEW S \in SUBSET Nat, S # {}
    PROVE  \E m \in S : \A n \in S : m <= n
<1>1. PICK m \in S : \A n \in S : ~ <<n, m>> \in OpToRel(<, Nat)
  BY NatLessThanWellFounded, WFMin, Zenon
<1>2. \A n \in S : ~ n < m
  BY <1>1 DEF OpToRel
<1> QED
  BY <1>2

\* Of some finite sets, one has no other of them as a subset.
LEMMA SmallestSet ==
    ASSUME NEW T, NEW C, C # {}, C \subseteq FiniteSubsetsOf(T)
    PROVE  \E U \in C : \A V \in C : V \subseteq U => V = U
<1>1. \A U \in C : U \in SUBSET T
  BY DEF FiniteSubsetsOf
<1>2. PICK U \in C : \A V \in C : ~ <<V, U>> \in StrictSubsetOrdering(T)
  BY FS_StrictSubsetOrderingWellFounded, WFMin, Zenon
<1>3. ASSUME NEW V \in C, V \subseteq U, V # U PROVE FALSE
  <2>1. <<V, U>> \in (SUBSET T) \X (SUBSET T)
    BY <1>1
  <2>2. <<V, U>>[1] = V /\ <<V, U>>[2] = U
    OBVIOUS
  <2> QED
    BY <1>2, <1>3, <2>1, <2>2 DEF StrictSubsetOrdering
<1> QED
  BY <1>3

\* A finite set of numbers has a bound.
LEMMA BoundedNumbers ==
    ASSUME NEW S \in SUBSET Nat, IsFiniteSet(S)
    PROVE  \E b \in Nat : \A n \in S : n <= b
<1> DEFINE Bounded(U) == \E b \in Nat : \A n \in U : n <= b
           C == {U \in SUBSET Nat : IsFiniteSet(U) /\ ~ Bounded(U)}
<1> SUFFICES ASSUME C # {} PROVE FALSE
  OBVIOUS
<1>1. PICK U \in C : \A V \in C : V \subseteq U => V = U
  <2>1. C \subseteq FiniteSubsetsOf(Nat)
    BY DEF FiniteSubsetsOf
  <2> HIDE DEF C
  <2> QED
    BY <2>1, SmallestSet
<1>2. PICK x \in U : TRUE
  OBVIOUS
<1>3. IsFiniteSet(U \ {x})
  BY FS_RemoveElement, Zenon
<1>4. PICK b \in Nat : \A n \in U \ {x} : n <= b
  BY <1>1, <1>2, <1>3
<1>5. x \in Nat /\ b + x \in Nat /\ \A n \in U : n \in Nat
  OBVIOUS
<1>6. \A n \in U : n <= b + x
  BY <1>4, <1>5
<1> QED
  BY <1>5, <1>6

\* A finite set of numbers that is not empty has a greatest one.
LEMMA GreatestNumber ==
    ASSUME NEW S \in SUBSET Nat, S # {}, IsFiniteSet(S)
    PROVE  Max(S) \in S /\ \A n \in S : n <= Max(S)
<1> DEFINE B == {b \in Nat : \A n \in S : n <= b}
<1>1. B # {}
  <2>1. PICK b \in Nat : \A n \in S : n <= b
    BY BoundedNumbers
  <2> QED
    BY <2>1
<1>2. PICK b \in B : \A c \in B : b <= c
  <2> HIDE DEF B
  <2>1. B \in SUBSET Nat
    BY DEF B
  <2> QED
    BY <2>1, <1>1, LeastNumber
<1>3. b \in S
  <2> SUFFICES ASSUME b \notin S PROVE FALSE
    OBVIOUS
  <2>1. b \in Nat /\ \A n \in S : n \in Nat /\ n <= b /\ n # b
    OBVIOUS
  <2>2. PICK n \in S : TRUE
    OBVIOUS
  <2>3. n \in Nat /\ n <= b /\ n # b
    BY <2>1
  <2>4. b - 1 \in Nat
    BY <2>1, <2>3
  <2>5. \A k \in S : k <= b - 1
    BY <2>1
  <2> QED
    BY <2>1, <2>4, <2>5, <1>2
<1> QED
  BY <1>2, <1>3 DEF Max

\* The oldest root of some is one of them.
LEMMA OldestIsOne ==
    ASSUME NEW rs, rs # {}, \A r \in rs : r.age \in Nat
    PROVE  Oldest(rs) \in rs
<1> DEFINE A == {r.age : r \in rs}
<1>1. PICK a \in A : \A b \in A : a <= b
  <2>1. A \in SUBSET Nat /\ A # {}
    OBVIOUS
  <2> HIDE DEF A
  <2> QED
    BY <2>1, LeastNumber
<1>2. \E r \in rs : \A q \in rs : r.age <= q.age
  BY <1>1
<1> QED
  BY <1>2, Zenon DEF Oldest

\* addRoot finds a name that is not taken (transfer.go:459-475).
LEMMA NameIsFree ==
    ASSUME NEW rs, IsFiniteSet(rs), NEW path
    PROVE  /\ ~ Taken(rs, NameFor(rs, path))
           /\ \E n \in Nat : NameFor(rs, path) = <<Base(path), n>>
<1> DEFINE C == Cardinality(rs)
           Free(n) == ~ Taken(rs, <<Base(path), n>>)
           Least(n) == Free(n) /\ \A k \in 0 .. n - 1 : Taken(rs, <<Base(path), k>>)
<1>1. C \in Nat
  BY FS_CardinalityType
<1>2. \E n \in 0 .. C : Free(n)
  <2> SUFFICES ASSUME \A n \in 0 .. C : Taken(rs, <<Base(path), n>>) PROVE FALSE
    OBVIOUS
  <2> DEFINE f == [n \in 0 .. C |-> CHOOSE r \in rs : r.name = <<Base(path), n>>]
  <2>1. \A n \in 0 .. C : f[n] \in rs /\ f[n].name = <<Base(path), n>>
    BY Zenon DEF Taken
  <2>2. \A m, n \in 0 .. C : f[m] = f[n] => m = n
    <3> SUFFICES ASSUME NEW m \in 0 .. C, NEW n \in 0 .. C, f[m] = f[n] PROVE m = n
      OBVIOUS
    <3>1. <<Base(path), m>> = <<Base(path), n>>
      BY <2>1, Zenon
    <3> QED
      BY <3>1
  <2>3. f \in Injection(0 .. C, rs)
    <3>1. f \in [0 .. C -> rs]
      BY <2>1
    <3> HIDE DEF f
    <3> QED
      BY <2>2, <3>1 DEF Injection, IsInjective
  <2>4. Cardinality(0 .. C) <= C
    BY <2>3, FS_Injection, Zenon
  <2>5. Cardinality(0 .. C) = C + 1
    BY <1>1, FS_Interval
  <2> QED
    BY <1>1, <2>4, <2>5
<1>3. \E n \in 0 .. C : Least(n)
  <2> DEFINE F == {n \in 0 .. C : Free(n)}
  <2>1. F \in SUBSET Nat /\ F # {}
    BY <1>1, <1>2
  <2>2. PICK n \in F : \A m \in F : n <= m
    <3> HIDE DEF F
    <3> QED
      BY <2>1, LeastNumber
  <2>3. \A k \in 0 .. n - 1 : k \in 0 .. C /\ k \notin F
    BY <2>2, <1>1
  <2> QED
    BY <2>2, <2>3
<1> DEFINE m == CHOOSE n \in 0 .. C : Least(n)
<1>4. m \in 0 .. C /\ Least(m)
  BY <1>3, Zenon
<1>5. NameFor(rs, path) = <<Base(path), m>>
  BY Zenon DEF NameFor
<1>6. m \in Nat /\ ~ Taken(rs, <<Base(path), m>>)
  BY <1>1, <1>4
<1> HIDE DEF m
<1> QED
  BY <1>5, <1>6

\* What addRoot leaves (transfer.go:435-478): the roots there were and one of
\* the path, under a new name.
LEMMA RootAdded ==
    ASSUME NEW rs \in SUBSET Root, IsFiniteSet(rs), NEW path, IsPath(path),
           \A q, r \in rs : q.name = r.name => q = r,
           \A r \in rs : r.file = (r.path \in Files), NEW test \in BOOLEAN
    PROVE  LET new == WithRoot(rs, path, test)
           IN /\ new \in SUBSET Root /\ IsFiniteSet(new) /\ rs \subseteq new
              /\ \A q, r \in new : q.name = r.name => q = r
              /\ \A r \in new : r.file = (r.path \in Files)
              /\ \E r \in new : /\ r.name = NameFor(rs, path) /\ r.path = path
                                /\ r.test = test /\ r.file = (path \in Files)
              /\ NameFor(rs, path) \in STRING \X Nat
<1> DEFINE ages == {0} \cup {r.age : r \in rs}
           one  == [name |-> NameFor(rs, path), path |-> path, test |-> test,
                    file |-> path \in Files, age |-> Max(ages) + 1]
           new  == WithRoot(rs, path, test)
<1>1. Max(ages) \in Nat
  <2>1. IsFiniteSet({r.age : r \in rs})
    <3> DEFINE f == [r \in rs |-> r.age]
    <3>1. f \in Surjection(rs, {r.age : r \in rs})
      BY DEF Surjection
    <3> QED
      BY <3>1, FS_Surjection, Zenon
  <2>2. IsFiniteSet(ages)
    BY <2>1, FS_AddElement, FS_Union, FS_Singleton, Zenon
  <2>3. ages \in SUBSET Nat /\ ages # {}
    BY DEF Root
  <2> HIDE DEF ages
  <2> QED
    BY <2>2, <2>3, GreatestNumber
<1>2. /\ ~ Taken(rs, NameFor(rs, path))
      /\ NameFor(rs, path) \in STRING \X Nat
  <2>1. Base(path) \in STRING
    BY DEF IsPath, Base
  <2> QED
    BY <2>1, NameIsFree
<1>3. one \in Root
  BY <1>1, <1>2 DEF Root, IsPath, Path
<1>4. new = rs \cup {one}
  BY Zenon DEF WithRoot
<1>5. IsFiniteSet(new)
  <2>1. IsFiniteSet(rs \cup {one})
    <3> HIDE DEF one
    <3> QED
      BY FS_AddElement, Zenon
  <2> QED
    BY <1>4, <2>1, Zenon
<1>6. \A r \in rs : r.name # one.name
  BY <1>2 DEF Taken
<1>7. one.name = NameFor(rs, path) /\ one.path = path /\ one.test = test
      /\ one.file = (path \in Files)
  OBVIOUS
<1> HIDE DEF one, new
<1>8. \A q, r \in new : q.name = r.name => q = r
  BY <1>4, <1>6
<1>9. \A r \in new : r.file = (r.path \in Files)
  BY <1>4, <1>7, Zenon
<1>10. new \in SUBSET Root /\ rs \subseteq new
  BY <1>3, <1>4
<1>11. one \in new
  BY <1>4
<1> QED
  BY <1>2, <1>5, <1>7, <1>8, <1>9, <1>10, <1>11, Zenon DEF new

\* A path and the rest of another one it begins make that path again.
LEMMA RestOfPath ==
    ASSUME NEW p, NEW f, IsPath(p), IsPath(f), IsPrefix(p, f)
    PROVE  /\ p \o SubSeq(f, Len(p) + 1, Len(f)) = f
           /\ SubSeq(f, Len(p) + 1, Len(f)) \in Seq(STRING)
           /\ SubSeq(f, Len(p) + 1, Len(f)) = <<>> <=> p = f
<1> DEFINE rest == SubSeq(f, Len(p) + 1, Len(f))
<1>1. p \in Path /\ f \in Path /\ Len(p) \in Nat /\ Len(f) \in Nat /\ Len(p) <= Len(f)
  BY DEF IsPath, Path, IsPrefix
<1>2. \A i \in 1 .. Len(p) : p[i] = f[i]
  BY <1>1 DEF IsPrefix, Path
<1>3. rest \in Seq(STRING) /\ Len(rest) = Len(f) - Len(p)
      /\ \A i \in 1 .. Len(rest) : rest[i] = f[Len(p) + i]
  BY <1>1 DEF Path
<1> HIDE DEF rest
<1>4. p \o rest \in Seq(STRING) /\ Len(p \o rest) = Len(f)
  BY <1>1, <1>3 DEF Path
<1>5. \A i \in 1 .. Len(f) : (p \o rest)[i] = f[i]
  <2> SUFFICES ASSUME NEW i \in 1 .. Len(f) PROVE (p \o rest)[i] = f[i]
    OBVIOUS
  <2>1. p \in Seq(STRING)
    BY <1>1 DEF Path
  <2>2. CASE i <= Len(p)
    <3>1. i \in 1 .. Len(p) /\ (p \o rest)[i] = p[i]
      BY <1>1, <1>3, <2>1, <2>2
    <3> QED
      BY <1>2, <3>1
  <2>3. CASE ~ i <= Len(p)
    <3>1. i - Len(p) \in 1 .. Len(rest) /\ Len(p) + (i - Len(p)) = i
      BY <1>1, <1>3, <2>3
    <3>2. (p \o rest)[i] = rest[i - Len(p)]
      BY <1>1, <1>3, <2>1, <2>3
    <3> QED
      BY <1>3, <3>1, <3>2
  <2> QED
    BY <2>2, <2>3
<1>6. p \o rest = f
  BY <1>1, <1>4, <1>5, SeqEqual DEF Path
<1>7. rest = <<>> => p = f
  BY <1>1, <1>6 DEF Path
<1>8. p = f => rest = <<>>
  BY <1>3, EmptySeq DEF Path
<1> QED
  BY <1>3, <1>6, <1>7, <1>8 DEF rest

\* Of the selected paths a file is under, one is the shortest.
LEMMA OneHolder ==
    ASSUME NEW sel \in Seq(Path), NEW f \in Path,
           \E p \in ToSet(sel) : IsPrefix(p, f)
    PROVE  LET all   == {p \in ToSet(sel) : IsPrefix(p, f)}
               least == {p \in all : \A q \in all : Len(p) <= Len(q)}
           IN \E p \in least : least = {p}
<1> DEFINE all   == {p \in ToSet(sel) : IsPrefix(p, f)}
           least == {p \in all : \A q \in all : Len(p) <= Len(q)}
           lens  == {Len(p) : p \in all}
<1>1. \A p \in all : p \in Path /\ Len(p) \in Nat
  BY DEF ToSet, Path
<1>2. PICK n \in lens : \A m \in lens : n <= m
  <2>1. lens \in SUBSET Nat /\ lens # {}
    BY <1>1
  <2> HIDE DEF lens
  <2> QED
    BY <2>1, LeastNumber
<1>3. PICK p \in least : TRUE
  <2>1. PICK p \in all : n = Len(p)
    OBVIOUS
  <2>2. \A q \in all : Len(p) <= Len(q)
    <3>1. \A q \in all : Len(q) \in lens
      OBVIOUS
    <3> HIDE DEF lens, all
    <3> QED
      BY <1>2, <2>1, <3>1
  <2> QED
    BY <2>1, <2>2
<1>4. ASSUME NEW q \in least PROVE q = p
  <2>1. p \in Path /\ q \in Path /\ Len(p) \in Nat /\ Len(q) \in Nat /\ Len(p) = Len(q)
    BY <1>1
  <2>2. \A i \in 1 .. Len(p) : p[i] = q[i]
    <3>1. IsPrefix(p, f) /\ IsPrefix(q, f)
      OBVIOUS
    <3> QED
      BY <2>1, <3>1 DEF IsPrefix, Path
  <2> QED
    BY <2>1, <2>2, SeqEqual DEF Path
<1> QED
  BY <1>3, <1>4

(***************************************************************************)
(* The bytes of some items                                                 *)
(***************************************************************************)
\* MapThenSumSet walks a finite set along First: its recursion is defined, and
\* its value is the first item's size and the sum of the rest.
Sums(f, S) ==
    f = [s \in SUBSET S |-> IF s = {} THEN 0 ELSE First(s).size + f[s \ {First(s)}]]
SumOf(S) == (CHOOSE f : Sums(f, S))[S]

\* The library's sum is the value of that function.
LEMMA SumIsSumOf == \A S : Sum(S) = SumOf(S)
  BY DEF Sum, MapThenSumSet, MapThenFoldSet, SumOf, Sums, First

\* First picks one of the items.
LEMMA FirstOfSome == \A S : S # {} => First(S) \in S
  BY Zenon DEF First

\* The recursion is defined on the subsets of a finite set.
LEMMA SumUnfolds ==
    ASSUME NEW S, IsFiniteSet(S)
    PROVE  SumOf(S) = IF S = {} THEN 0 ELSE First(S).size + SumOf(S \ {First(S)})
<1> DEFINE Good(s) == SumOf(s) = IF s = {} THEN 0 ELSE First(s).size + SumOf(s \ {First(s)})
           C == {s \in SUBSET S : ~ Good(s)}
<1> SUFFICES ASSUME C # {} PROVE FALSE
  <2>1. S \in SUBSET S
    OBVIOUS
  <2> QED
    BY <2>1
<1>1. \A s \in SUBSET S : IsFiniteSet(s)
  BY FS_Subset
<1>2. PICK U \in C : \A s \in C : s \subseteq U => s = U
  <2>1. C \subseteq FiniteSubsetsOf(S)
    BY <1>1 DEF FiniteSubsetsOf
  <2> HIDE DEF C
  <2> QED
    BY <2>1, SmallestSet
<1>3. \A s \in SUBSET U : s # U => Good(s)
  BY <1>2
<1>4. ~ Good(U)
  BY <1>2
<1>5. \A s \in SUBSET U : s # {} =>
        s \ {First(s)} \in SUBSET U /\ s \ {First(s)} # U /\ s \ {First(s)} # s
  BY FirstOfSome
<1> DEFINE g == [s \in SUBSET U |->
                   IF s = {} THEN 0 ELSE First(s).size + SumOf(s \ {First(s)})]
<1>6. Sums(g, U)
  <2>1. \A s \in SUBSET U : s # {} => g[s \ {First(s)}] = SumOf(s \ {First(s)})
    <3> SUFFICES ASSUME NEW s \in SUBSET U, s # {}
                 PROVE  g[s \ {First(s)}] = SumOf(s \ {First(s)})
      OBVIOUS
    <3> DEFINE t == s \ {First(s)}
    <3>1. t \in SUBSET U /\ Good(t)
      BY <1>3, <1>5, Zenon
    <3>2. g[t] = IF t = {} THEN 0 ELSE First(t).size + SumOf(t \ {First(t)})
      BY <3>1, Zenon
    <3> QED
      BY <3>1, <3>2, Zenon
  <2>2. g = [s \in SUBSET U |-> IF s = {} THEN 0 ELSE First(s).size + g[s \ {First(s)}]]
    <3>1. \A s \in SUBSET U : (IF s = {} THEN 0 ELSE First(s).size + SumOf(s \ {First(s)}))
                            = (IF s = {} THEN 0 ELSE First(s).size + g[s \ {First(s)}])
      BY <2>1, Zenon
    <3> QED
      BY <3>1, Zenon
  <2> QED
    BY <2>2, Zenon DEF Sums
<1> DEFINE f == CHOOSE f : Sums(f, U)
<1>7. Sums(f, U)
  <2> HIDE DEF g
  <2> QED
    BY <1>6, Zenon
<1> HIDE DEF g, f
<1>8. \A s \in SUBSET U :
        f[s] = IF s = {} THEN 0 ELSE First(s).size + f[s \ {First(s)}]
  BY <1>7, Zenon DEF Sums
<1>9. \A s \in SUBSET U : s # U => f[s] = SumOf(s)
  <2> DEFINE D == {s \in SUBSET U : s # U /\ f[s] # SumOf(s)}
  <2> SUFFICES ASSUME D # {} PROVE FALSE
    OBVIOUS
  <2>1. PICK t \in D : \A s \in D : s \subseteq t => s = t
    <3>1. D \subseteq FiniteSubsetsOf(U)
      BY <1>1, <1>2 DEF FiniteSubsetsOf
    <3> HIDE DEF D
    <3> QED
      BY <3>1, SmallestSet
  <2>2. t \in SUBSET U /\ t # U /\ f[t] # SumOf(t)
    BY <2>1
  <2>3. Good(t)
    BY <1>3, <2>2
  <2>4. CASE t = {}
    BY <1>8, <2>2, <2>3, <2>4, Zenon
  <2>5. CASE t # {}
    <3> DEFINE s == t \ {First(t)}
    <3>1. s \in SUBSET U /\ s # U /\ s # t /\ s \subseteq t
      BY <1>5, <2>2, <2>5
    <3>2. f[s] = SumOf(s)
      <4>1. s \notin D
        BY <2>1, <3>1, Zenon
      <4> QED
        BY <3>1, <4>1
    <3>3. f[t] = First(t).size + f[s]
      BY <1>8, <2>2, <2>5, Zenon
    <3>4. SumOf(t) = First(t).size + SumOf(s)
      BY <2>3, <2>5, Zenon
    <3> QED
      BY <2>2, <3>2, <3>3, <3>4, Zenon
  <2> QED
    BY <2>4, <2>5
<1>10. SumOf(U) = f[U]
  BY Zenon DEF SumOf, f
<1>11. U \in SUBSET U
  OBVIOUS
<1>12. CASE U = {}
  BY <1>4, <1>8, <1>10, <1>11, <1>12, Zenon
<1>13. CASE U # {}
  <2>1. f[U \ {First(U)}] = SumOf(U \ {First(U)})
    BY <1>5, <1>9, <1>11, <1>13, Zenon
  <2>2. f[U] = First(U).size + f[U \ {First(U)}]
    BY <1>8, <1>11, <1>13, Zenon
  <2> QED
    BY <1>4, <1>10, <1>13, <2>1, <2>2, Zenon
<1> QED
  BY <1>12, <1>13

\* The sum of sizes is a number.
LEMMA SumIsNumber ==
    ASSUME NEW S, IsFiniteSet(S), \A i \in S : i.size \in Nat
    PROVE  SumOf(S) \in Nat
<1> DEFINE C == {s \in SUBSET S : SumOf(s) \notin Nat}
<1> SUFFICES ASSUME C # {} PROVE FALSE
  <2>1. S \in SUBSET S
    OBVIOUS
  <2> QED
    BY <2>1
<1>1. \A s \in SUBSET S : IsFiniteSet(s)
  BY FS_Subset
<1>2. PICK U \in C : \A s \in C : s \subseteq U => s = U
  <2>1. C \subseteq FiniteSubsetsOf(S)
    BY <1>1 DEF FiniteSubsetsOf
  <2> HIDE DEF C
  <2> QED
    BY <2>1, SmallestSet
<1>3. IsFiniteSet(U) /\ U \in SUBSET S /\ SumOf(U) \notin Nat
  BY <1>1, <1>2
<1>4. SumOf(U) = IF U = {} THEN 0 ELSE First(U).size + SumOf(U \ {First(U)})
  BY <1>3, SumUnfolds, Zenon
<1>5. U # {}
  BY <1>3, <1>4
<1>6. First(U) \in U
  BY <1>5, FirstOfSome
<1>7. SumOf(U \ {First(U)}) \in Nat
  <2>1. U \ {First(U)} \in SUBSET S /\ U \ {First(U)} # U /\ U \ {First(U)} \subseteq U
    BY <1>3, <1>6
  <2>2. U \ {First(U)} \notin C
    BY <1>2, <2>1, Zenon
  <2> QED
    BY <2>1, <2>2
<1>8. First(U).size \in Nat
  BY <1>3, <1>6
<1> QED
  BY <1>3, <1>4, <1>5, <1>7, <1>8

\* The sum along First.
LEMMA SumStep ==
    ASSUME NEW S, IsFiniteSet(S), \A i \in S : i.size \in Nat
    PROVE  /\ Sum(S) \in Nat
           /\ Sum({}) = 0
           /\ S # {} => /\ First(S) \in S /\ First(S).size \in Nat
                        /\ Sum(S \ {First(S)}) \in Nat
                        /\ Sum(S) = First(S).size + Sum(S \ {First(S)})
<1>1. Sum(S) = SumOf(S) /\ Sum({}) = SumOf({})
      /\ Sum(S \ {First(S)}) = SumOf(S \ {First(S)})
  BY SumIsSumOf, Zenon
<1>2. IsFiniteSet({}) /\ IsFiniteSet(S \ {First(S)})
  BY FS_EmptySet, FS_RemoveElement, Zenon
<1>3. SumOf({}) = 0
  BY <1>2, SumUnfolds, Zenon
<1>4. S # {} => SumOf(S) = First(S).size + SumOf(S \ {First(S)})
  BY SumUnfolds, Zenon
<1>5. SumOf(S) \in Nat
  BY SumIsNumber
<1>6. SumOf(S \ {First(S)}) \in Nat
  <2>1. \A i \in S \ {First(S)} : i.size \in Nat
    OBVIOUS
  <2> HIDE DEF SumOf
  <2> QED
    BY <1>2, <2>1, SumIsNumber
<1>7. S # {} => First(S) \in S
  BY FirstOfSome
<1> HIDE DEF Sum, SumOf
<1> QED
  BY <1>1, <1>3, <1>4, <1>5, <1>6, <1>7

(***************************************************************************)
(* What a step leaves alone                                                *)
(***************************************************************************)
Handles(h) ==
    \/ Step(h) \/ StartTest(h)
    \/ \E kind \in {"plain", "archive"}, sel \in Selections : StartPush(h, kind, sel)
Outside ==
    \/ \E path \in Folders : StartServe(path) \/ AddFolder(path)
    \/ \E s \in DOMAIN roots : \E r \in roots[s] : RemoveFolder(r.name)
    \/ \E f \in Files : Change(f)

\* A step is one of a handler, one of the page or another program, or a stutter.
LEMMA NextSplits ==
    ASSUME [Next]_vars
    PROVE  (\E h \in Pushes : Handles(h)) \/ Outside \/ UNCHANGED vars
BY DEF Next, Handles, Outside

\* The page and other programs do not write to the handlers' records.
LEMMA OutsideLeaves ==
    ASSUME Outside \/ UNCHANGED vars
    PROVE  push' = push /\ prog' = prog /\ preparing' = preparing /\ uploader' = uploader
BY DEF Outside, StartServe, AddFolder, RemoveFolder, Change, OthersOnly, vars

\* A handler writes to its own records only.
LEMMA OthersKept ==
    ASSUME PushTyped, ProgTyped, NEW h \in Pushes, Handles(h)
    PROVE  /\ push' = [push EXCEPT ![h] = push'[h]]
           /\ prog' = [prog EXCEPT ![h] = prog'[h]]
           /\ \A g \in Pushes \ {h} : push'[g] = push[g] /\ prog'[g] = prog[g]
<1> USE DEF PushTyped, ProgTyped, Goto, Fail, UseHidden
<1> DEFINE Own == /\ push' = [push EXCEPT ![h] = push'[h]]
                  /\ prog' = [prog EXCEPT ![h] = prog'[h]]
                  /\ \A g \in Pushes \ {h} : push'[g] = push[g] /\ prog'[g] = prog[g]
<1> SUFFICES Own
  OBVIOUS
<1>1. CASE TakeSender(h) \/ Look(h) \/ Add(h) \/ Match(h)
  BY <1>1 DEF TakeSender, Look, Add, Match
<1>2. CASE PackOpen(h) \/ PackCopy(h) \/ PackEnd(h)
  BY <1>2 DEF PackOpen, PackCopy, PackEnd
<1>3. CASE TestLook(h) \/ TestAdd(h) \/ TestNamed(h)
  BY <1>3 DEF TestLook, TestAdd, TestNamed
<1>4. CASE Connect(h) \/ Open(h) \/ Queued(h) \/ Respond(h)
  BY <1>4 DEF Connect, Open, Queued, Respond
<1>5. CASE StartTest(h)
  BY <1>5 DEF StartTest
<1>6. ASSUME NEW kind, NEW sel, StartPush(h, kind, sel) PROVE Own
  BY <1>6 DEF StartPush
<1> HIDE DEF Own
<1> QED
  BY <1>1, <1>2, <1>3, <1>4, <1>5, <1>6, Zenon DEF Handles, Step

\* A selection is a sequence of paths that are not empty.
LEMMA SelectionsArePaths == \A sel \in Selections : sel \in Seq(Path)
<1> SUFFICES ASSUME NEW sel \in Selections PROVE sel \in Seq(Path)
  OBVIOUS
<1>1. sel \in Seq(Seq(STRING)) /\ <<>> \notin ToSet(sel)
  BY PathsAssumption
<1>2. Len(sel) \in Nat /\ \A i \in 1 .. Len(sel) : sel[i] \in Seq(STRING)
  BY <1>1
<1>3. \A i \in 1 .. Len(sel) : sel[i] # <<>>
  BY <1>1 DEF ToSet
<1>4. \A i \in 1 .. Len(sel) : sel[i] \in Path
  BY <1>2, <1>3 DEF Path
<1>5. sel = [i \in 1 .. Len(sel) |-> sel[i]]
  BY <1>1
<1>6. [i \in 1 .. Len(sel) |-> sel[i]] \in Seq(Path)
  <2> HIDE DEF Path
  <2> QED
    BY <1>2, <1>4, IsASeq
<1> QED
  BY <1>5, <1>6

\* Files, folders and the hidden folders have paths that are not empty.
LEMMA PathsArePaths ==
    /\ \A p \in Files \cup Folders \cup {SendDir, TestDir} : p \in Path /\ IsPath(p)
    /\ \A p \in Path : IsPath(p)
  BY PathsAssumption DEF Path, IsPath

\* The roots of a sender after one was added.
LEMMA SharesGrow ==
    ASSUME SharesTyped, NEW s \in DOMAIN roots, NEW path, IsPath(path), NEW test \in BOOLEAN,
           roots' = [roots EXCEPT ![s] = WithRoot(@, path, test)],
           sender' = sender, uploader' \in 0 .. Len(roots)
    PROVE  SharesTyped'
<1> DEFINE new == WithRoot(roots[s], path, test)
<1>1. /\ roots[s] \in SUBSET Root /\ IsFiniteSet(roots[s])
      /\ \A r \in roots[s] : r.file = (r.path \in Files)
      /\ \A q, r \in roots[s] : q.name = r.name => q = r
  BY DEF SharesTyped
<1>2. /\ new \in SUBSET Root /\ IsFiniteSet(new)
      /\ \A q, r \in new : q.name = r.name => q = r
      /\ \A r \in new : r.file = (r.path \in Files)
  BY <1>1, RootAdded
<1>3. roots' = [roots EXCEPT ![s] = new]
  OBVIOUS
<1> HIDE DEF new
<1>4. roots' \in Seq(SUBSET Root) /\ Len(roots') = Len(roots)
  BY <1>2, <1>3 DEF SharesTyped
<1>5. \A t \in DOMAIN roots' : t \in DOMAIN roots /\ (roots'[t] = new \/ roots'[t] = roots[t])
  BY <1>3
<1> QED
  BY <1>2, <1>4, <1>5 DEF SharesTyped

\* A sender of its own, with the given roots.
LEMMA SharesAppend ==
    ASSUME SharesTyped, NEW new \in SUBSET Root, IsFiniteSet(new),
           \A q, r \in new : q.name = r.name => q = r,
           \A r \in new : r.file = (r.path \in Files),
           roots' = Append(roots, new), sender' = Len(roots) + 1, uploader' = uploader
    PROVE  SharesTyped'
<1>1. roots' \in Seq(SUBSET Root) /\ Len(roots') = Len(roots) + 1
  BY DEF SharesTyped
<1>2. \A t \in DOMAIN roots' :
         (t \in DOMAIN roots /\ roots'[t] = roots[t]) \/ roots'[t] = new
  BY <1>1 DEF SharesTyped
<1>3. sender' \in 0 .. Len(roots') /\ uploader' \in 0 .. Len(roots')
  BY <1>1 DEF SharesTyped
<1> QED
  BY <1>1, <1>2, <1>3 DEF SharesTyped

\* The roots keep their types when they are not changed.
LEMMA SharesSame ==
    ASSUME SharesTyped, UNCHANGED shares, uploader' \in 0 .. Len(roots)
    PROVE  SharesTyped'
BY DEF SharesTyped, shares

\* The handlers that change the roots.
LEMMA RootsMove ==
    ASSUME SharesTyped, PushTyped, Flows, NEW h \in Pushes, Handles(h)
    PROVE  \/ UNCHANGED shares
           \/ TakeSender(h) /\ sender = 0 /\ roots' = Append(roots, {})
              /\ sender' = Len(roots) + 1 /\ uploader' = uploader
           \/ /\ push[h].s \in DOMAIN roots /\ sender' = sender /\ uploader' = uploader
              /\ \E path \in Path, test \in BOOLEAN :
                    roots' = [roots EXCEPT ![push[h].s] = WithRoot(@, path, test)]
<1> DEFINE Grows == \E path \in Path, test \in BOOLEAN :
                      roots' = [roots EXCEPT ![push[h].s] = WithRoot(@, path, test)]
<1>1. push[h].pc \in {"add", "testadd"} => push[h].s \in DOMAIN roots
  <2>1. roots \in Seq(SUBSET Root) /\ push[h].s \in 0 .. Len(roots)
    BY DEF PushTyped, SharesTyped
  <2>2. push[h].pc \in {"add", "testadd"} => push[h].s # 0
    BY DEF Flows, Flow
  <2> QED
    BY <2>1, <2>2
<1>2. CASE Add(h)
  <2>1. push[h].pc = "add" /\ sender' = sender /\ uploader' = uploader
    BY <1>2 DEF Add
  <2>2. push[h].todo \in Seq(Path) /\ push[h].todo # <<>>
    BY <2>1 DEF PushTyped, Handler, Flows, Flow
  <2>3. Head(push[h].todo) \in Path
    <3> HIDE DEF Path
    <3> QED
      BY <2>2
  <2>4. UNCHANGED roots \/ Grows
    BY <1>2, <2>3, Zenon DEF Add
  <2> QED
    BY <1>1, <2>1, <2>4, Zenon DEF shares
<1>3. CASE TestAdd(h)
  <2>1. push[h].pc = "testadd" /\ sender' = sender /\ uploader' = uploader
    BY <1>3 DEF TestAdd
  <2>2. HiddenDir(h) \in Path
    BY PathsArePaths DEF HiddenDir
  <2>3. UNCHANGED roots \/ Grows
    BY <1>3, <2>2, Zenon DEF TestAdd
  <2> QED
    BY <1>1, <2>1, <2>3, Zenon DEF shares
<1>4. CASE TakeSender(h)
  BY <1>4, Zenon DEF TakeSender, shares
<1>5. CASE UNCHANGED shares
  BY <1>5
<1>6. Add(h) \/ TestAdd(h) \/ TakeSender(h) \/ UNCHANGED shares
  BY Zenon DEF Handles, Step, StartTest, StartPush, Look, Match, PackOpen, PackCopy, PackEnd,
     TestLook, TestNamed, Connect, Open, Queued, Respond
<1> QED
  BY <1>2, <1>3, <1>4, <1>5, <1>6

\* The uploader is made once, with the sender of the push that makes it.
LEMMA UploaderMoves ==
    ASSUME SharesTyped, PushTyped, NEW h \in Pushes, Handles(h)
    PROVE  /\ uploader' \in 0 .. Len(roots)
           /\ uploader' = uploader \/ (uploader' = push[h].s /\ uploader = 0 /\ Connect(h))
<1>1. uploader \in 0 .. Len(roots) /\ push[h].s \in 0 .. Len(roots)
  BY DEF SharesTyped, PushTyped
<1>2. Connect(h) \/ uploader' = uploader
  BY Zenon DEF Handles, Step, StartTest, StartPush, TakeSender, Look, Add, Match, PackOpen,
     PackCopy, PackEnd, TestLook, TestAdd, TestNamed, Open, Queued, Respond
<1>3. Connect(h) => uploader' = uploader \/ (uploader' = push[h].s /\ uploader = 0)
  BY DEF Connect
<1> QED
  BY <1>1, <1>2, <1>3

\* The roots keep their types, and their names apart, in every step.
LEMMA SharesTypedStep ==
    ASSUME SharesTyped, PushTyped, Flows, [Next]_vars
    PROVE  SharesTyped'
<1>1. ASSUME NEW h \in Pushes, Handles(h) PROVE SharesTyped'
  <2>1. uploader' \in 0 .. Len(roots)
    BY <1>1, UploaderMoves
  <2>2. CASE UNCHANGED shares
    BY <2>1, <2>2, SharesSame
  <2>3. CASE sender = 0 /\ roots' = Append(roots, {}) /\ sender' = Len(roots) + 1
             /\ uploader' = uploader
    <3>1. {} \in SUBSET Root /\ IsFiniteSet({})
      BY FS_EmptySet
    <3> QED
      BY <2>3, <3>1, SharesAppend
  <2>4. CASE /\ push[h].s \in DOMAIN roots /\ sender' = sender
             /\ \E path \in Path, test \in BOOLEAN :
                   roots' = [roots EXCEPT ![push[h].s] = WithRoot(@, path, test)]
    BY <2>1, <2>4, PathsArePaths, SharesGrow, Zenon
  <2> QED
    BY <1>1, <2>2, <2>3, <2>4, RootsMove, Zenon
<1>2. ASSUME NEW path \in Folders, StartServe(path) PROVE SharesTyped'
  <2> DEFINE new == WithRoot({}, path, FALSE)
  <2>1. {} \in SUBSET Root /\ IsFiniteSet({}) /\ IsPath(path)
    BY FS_EmptySet, PathsArePaths
  <2>2. /\ new \in SUBSET Root /\ IsFiniteSet(new)
        /\ \A q, r \in new : q.name = r.name => q = r
        /\ \A r \in new : r.file = (r.path \in Files)
    BY <2>1, RootAdded
  <2>3. roots' = Append(roots, new) /\ sender' = Len(roots) + 1 /\ uploader' = uploader
    BY <1>2 DEF StartServe, OthersOnly
  <2> HIDE DEF new
  <2> QED
    BY <2>2, <2>3, SharesAppend
<1>3. ASSUME NEW path \in Folders, AddFolder(path) PROVE SharesTyped'
  <2>1. sender \in DOMAIN roots
    BY <1>3 DEF AddFolder, SharesTyped
  <2>2. roots' = [roots EXCEPT ![sender] = WithRoot(@, path, FALSE)] /\ sender' = sender
        /\ uploader' = uploader
    BY <1>3 DEF AddFolder, OthersOnly
  <2>3. uploader' \in 0 .. Len(roots)
    BY <2>2 DEF SharesTyped
  <2> QED
    BY <2>1, <2>2, <2>3, PathsArePaths, SharesGrow
<1>4. ASSUME NEW name, RemoveFolder(name) PROVE SharesTyped'
  <2>1. sender \in DOMAIN roots
    BY <1>4 DEF RemoveFolder, SharesTyped
  <2> DEFINE new == Without(roots[sender], name)
  <2>2. new \subseteq roots[sender]
    BY DEF Without
  <2>3. IsFiniteSet(new)
    BY <2>1, <2>2, FS_Subset DEF SharesTyped
  <2>4. roots' = [roots EXCEPT ![sender] = new] /\ sender' = sender /\ uploader' = uploader
    BY <1>4 DEF RemoveFolder, OthersOnly
  <2> HIDE DEF new
  <2>5. new \in SUBSET Root
    BY <2>1, <2>2 DEF SharesTyped
  <2>6. roots' \in Seq(SUBSET Root) /\ Len(roots') = Len(roots)
    BY <2>1, <2>4, <2>5 DEF SharesTyped
  <2>7. \A t \in DOMAIN roots' : t \in DOMAIN roots /\ ((t = sender /\ roots'[t] = new)
                                                      \/ roots'[t] = roots[t])
    BY <2>4
  <2> QED
    BY <2>1, <2>2, <2>3, <2>4, <2>6, <2>7 DEF SharesTyped
<1>5. ASSUME NEW f \in Files, Change(f) PROVE SharesTyped'
  BY <1>5 DEF Change, OthersOnly, shares, SharesTyped
<1>6. CASE UNCHANGED vars
  BY <1>6 DEF vars, shares, SharesTyped
<1> QED
  BY <1>1, <1>2, <1>3, <1>4, <1>5, <1>6, NextSplits, Zenon DEF Outside

(***************************************************************************)
(* Types and the order of a handler's steps                                *)
(***************************************************************************)
\* What Sender.open finds can be read.
LEMMA OpenedFile ==
    ASSUME NEW s, NEW name
    PROVE  Opened(s, name) # None => Opened(s, name) \in Readable
BY DEF Opened, Readable, Archives

\* The name of a path's root is a name.
LEMMA RootName ==
    ASSUME SharesTyped, NEW s \in DOMAIN roots, NEW path, NEW test \in BOOLEAN,
           RootsOf(roots[s], path, test) # {}
    PROVE  LET r == Oldest(RootsOf(roots[s], path, test))
           IN r \in roots[s] /\ r \in Root /\ r.path = path /\ r.test = test
<1> DEFINE rs == RootsOf(roots[s], path, test)
<1>1. rs \subseteq roots[s] /\ \A r \in rs : r.path = path /\ r.test = test
  BY DEF RootsOf
<1>2. \A r \in roots[s] : r \in Root
  BY DEF SharesTyped
<1>3. \A r \in rs : r.age \in Nat
  BY <1>1, <1>2 DEF Root
<1> HIDE DEF rs
<1>4. Oldest(rs) \in rs
  BY <1>3, OldestIsOne DEF rs
<1> QED
  BY <1>1, <1>2, <1>4 DEF rs

\* The folders that are added for the archives and for the test.
LEMMA HiddenItem ==
    ASSUME NEW h \in Pushes, NEW root \in STRING \X Nat
    PROVE  Item(root, <<HiddenName(h)>>, None, 0) \in Items
<1>1. HiddenName(h) \in Comp
  BY DEF HiddenName, Comp
<1>2. <<HiddenName(h)>> \in Seq(Comp)
  BY <1>1
<1>3. root \in Comp \X Nat
  BY DEF Comp
<1> QED
  BY <1>2, <1>3 DEF Item, Items, Name

\* What selectedFiles lists (selections.go:91-169): each selected file once, under
\* the name of its root.
LEMMA Listed ==
    ASSUME SharesTyped, PushTyped, NEW h \in Pushes, push[h].s \in DOMAIN roots,
           \A i \in DOMAIN push[h].sel : RootsOf(Mine(h), push[h].sel[i], FALSE) # {}
    PROVE  /\ ItemsOf(h) \in SUBSET Items /\ IsFiniteSet(ItemsOf(h))
           /\ {i.file : i \in ItemsOf(h)} = Selected(h)
           /\ \A i, j \in ItemsOf(h) : i.file = j.file => i = j
           /\ \A i \in ItemsOf(h) : HasRoot(Mine(h), i.name, i.file)
           /\ \A i \in ItemsOf(h) : NamesRoot(Mine(h), i.name)
<1> DEFINE rs == roots[push[h].s]
           Of(f, p) == Item(Oldest(RootsOf(rs, p, FALSE)).name,
                            SubSeq(f, Len(p) + 1, Len(f)), f, Size(version[f]))
<1>1. push[h].sel \in Seq(Path)
  BY DEF PushTyped, Handler
<1>2. \A f \in Selected(h) : f \in Files /\ f \in Path /\ IsPath(f)
                          /\ \E p \in ToSet(push[h].sel) : IsPrefix(p, f)
  BY PathsArePaths DEF Selected, ToSet
<1>3. \A f \in Selected(h) : \E p \in Holders(h, f) : Holders(h, f) = {p}
  BY <1>1, <1>2, OneHolder DEF Holders
<1>4. \A f \in Selected(h) : \A p \in Holders(h, f) :
        IsPrefix(p, f) /\ p \in Path /\ IsPath(p) /\ RootsOf(rs, p, FALSE) # {}
  <2>1. \A p \in ToSet(push[h].sel) : p \in Path /\ RootsOf(rs, p, FALSE) # {}
    <3> SUFFICES ASSUME NEW p \in ToSet(push[h].sel)
                 PROVE  p \in Path /\ RootsOf(rs, p, FALSE) # {}
      OBVIOUS
    <3>1. PICK i \in DOMAIN push[h].sel : p = push[h].sel[i]
      BY Zenon DEF ToSet
    <3>2. p \in Path
      <4> HIDE DEF Path
      <4> QED
        BY <1>1, <3>1
    <3> QED
      BY <3>1, <3>2, Zenon DEF Mine
  <2>2. \A f \in Selected(h) : \A p \in Holders(h, f) : IsPrefix(p, f) /\ p \in ToSet(push[h].sel)
    BY DEF Holders
  <2> QED
    BY <2>1, <2>2, PathsArePaths
<1>5. ItemsOf(h) = UNION {{Of(f, p) : p \in Holders(h, f)} : f \in Selected(h)}
  BY Zenon DEF ItemsOf, Mine
<1> DEFINE Holder(f) == CHOOSE p : Holders(h, f) = {p}
           item == [f \in Selected(h) |-> Of(f, Holder(f))]
<1>6. \A f \in Selected(h) : Holders(h, f) = {Holder(f)}
  BY <1>3, Zenon
<1> HIDE DEF Of, Holder
<1>7. ItemsOf(h) = {item[f] : f \in Selected(h)}
  <2>1. \A f \in Selected(h) : {Of(f, p) : p \in Holders(h, f)} = {item[f]}
    BY <1>6
  <2> HIDE DEF item
  <2> QED
    BY <1>5, <2>1
<1>8. ASSUME NEW f \in Selected(h)
      PROVE  /\ item[f] \in Items /\ item[f].file = f
             /\ HasRoot(Mine(h), item[f].name, f) /\ NamesRoot(Mine(h), item[f].name)
  <2> DEFINE p == Holder(f)
             r == Oldest(RootsOf(rs, p, FALSE))
             rest == SubSeq(f, Len(p) + 1, Len(f))
  <2>1. p \in Holders(h, f)
    BY <1>6
  <2>2. IsPrefix(p, f) /\ p \in Path /\ IsPath(p) /\ RootsOf(rs, p, FALSE) # {}
    BY <1>4, <2>1
  <2>3. r \in rs /\ r \in Root /\ r.path = p
    BY <2>2, RootName
  <2>4. f \in Files /\ IsPath(f)
    BY <1>2
  <2>5. p \o rest = f /\ rest \in Seq(STRING) /\ (rest = <<>> <=> p = f)
    BY <2>2, <2>4, RestOfPath
  <2>6. p \in Files => p = f
    BY <2>2, <2>4, PathsAssumption
  <2>7. r.file = (rest = <<>>)
    <3>1. r.file = (p \in Files)
      BY <2>3 DEF SharesTyped
    <3> HIDE DEF r, rest, p
    <3>2. (p \in Files) <=> (rest = <<>>)
      BY <2>4, <2>5, <2>6
    <3> QED
      BY <3>1, <3>2
  <2>8. item[f] = [name |-> [root |-> r.name, rel |-> rest], file |-> f,
                   size |-> Size(version[f])]
    BY Zenon DEF Of, Item
  <2> HIDE DEF r, rest, p
  <2>9. Size(version[f]) \in Nat
    BY <2>4 DEF PushTyped, Size, Readable
  <2>10. r.name \in Comp \X Nat /\ rest \in Seq(Comp)
    <3>1. r.name \in STRING \X Nat
      BY <2>3 DEF Root
    <3>2. STRING \subseteq Comp
      BY DEF Comp
    <3> QED
      BY <2>5, <3>1, <3>2, SeqMonotonic
  <2>11. item[f] \in Items
    BY <2>4, <2>8, <2>9, <2>10 DEF Items, Name
  <2>12. item[f].file = f /\ item[f].name.root = r.name /\ item[f].name.rel = rest
    BY <2>8
  <2> HIDE DEF item
  <2> QED
    BY <2>3, <2>5, <2>7, <2>11, <2>12, Zenon DEF HasRoot, NamesRoot, Mine
<1>9. IsFiniteSet(Selected(h))
  BY FS_Subset, PathsAssumption DEF Selected
<1>10. IsFiniteSet(ItemsOf(h))
  <2>1. item \in Surjection(Selected(h), ItemsOf(h))
    BY <1>7 DEF Surjection
  <2> QED
    BY <1>9, <2>1, FS_Surjection, Zenon
<1> HIDE DEF item
<1> QED
  BY <1>7, <1>8, <1>10

\* What is left of a selection is one.
LEMMA PathTail ==
    ASSUME NEW todo \in Seq(Path), todo # <<>>
    PROVE  Tail(todo) \in Seq(Path)
<1> HIDE DEF Path
<1> QED
  OBVIOUS

\* No handler takes a sender away.
LEMMA SharesReach ==
    ASSUME SharesTyped, PushTyped, Flows, NEW h \in Pushes, Handles(h)
    PROVE  Len(roots') \in Nat /\ Len(roots) \in Nat /\ Len(roots) <= Len(roots')
<1>1. SharesTyped'
  BY NextSplits, SharesTypedStep DEF Handles, Next
<1>2. roots \in Seq(SUBSET Root) /\ roots' \in Seq(SUBSET Root)
  BY <1>1 DEF SharesTyped
<1>3. Len(roots) \in Nat /\ Len(roots') \in Nat
  BY <1>2
<1>4. Len(roots) <= Len(roots')
  <2>1. UNCHANGED roots => Len(roots) <= Len(roots')
    BY <1>3
  <2>2. roots' = Append(roots, {}) => Len(roots) <= Len(roots')
    BY <1>2
  <2>3. ASSUME NEW s \in DOMAIN roots, NEW new, roots' = [roots EXCEPT ![s] = new]
        PROVE  Len(roots) <= Len(roots')
    BY <1>2, <2>3
  <2> QED
    BY <2>1, <2>2, <2>3, RootsMove, Zenon DEF shares
<1> QED
  BY <1>3, <1>4

\* What a step does to a handler's records p and a, which become q and b.
Copied(p) == [name |-> First(p.left).name, file |-> p.src,
              whole |-> version[p.src] = p.ver]
Asked(h, p) == [name |-> First(p.left).name, file |-> Source(h)]
Refused(p, q, a, b) ==
    /\ p.pc = "idle" /\ q = [p EXCEPT !.pc = "done", !.status = "busy"] /\ b = a
Begun(p, q, a, b) ==
    /\ p.pc = "idle" /\ b = Fresh
    /\ \E kind \in {"plain", "archive"}, sel \in Seq(Path) :
          q = [p EXCEPT !.pc = "sender", !.kind = kind, !.sel = sel, !.todo = sel]
TestBegun(p, q, a, b) ==
    /\ p.pc = "idle" /\ q = [p EXCEPT !.pc = "sender", !.kind = "test"] /\ b = a
Joined(p, q, a, b) ==
    /\ p.pc = "sender" /\ b = a /\ sender' # 0
    /\ q = [p EXCEPT !.s = sender', !.pc = IF p.kind = "test" THEN "testlook" ELSE "look"]
Matching(p, q, a, b) ==
    /\ p.pc = "look" /\ q = [p EXCEPT !.pc = "match"] /\ b = a
Adding(p, q, a, b) ==
    /\ p.pc = "look" /\ p.todo # <<>> /\ q = [p EXCEPT !.pc = "add"] /\ b = a
Passed(p, q, a, b) ==
    /\ p.pc \in {"look", "add"} /\ p.todo # <<>> /\ b = a
    /\ q = [p EXCEPT !.pc = "look", !.todo = Tail(p.todo)]
Listing(h, p, q, a, b) ==
    /\ p.pc = "match" /\ ItemsOf(h) # {}
    /\ \A i \in DOMAIN p.sel : RootsOf(Mine(h), p.sel[i], FALSE) # {}
    /\ q = [p EXCEPT !.items = ItemsOf(h), !.left = ItemsOf(h),
                     !.pc = IF p.kind = "archive" THEN "pack" ELSE "connect"]
    /\ b = [a EXCEPT !.total = Cardinality(ItemsOf(h)), !.totalBytes = Sum(ItemsOf(h))]
Packing(h, p, q, a, b) ==
    /\ p.pc = "pack" /\ p.left # {} /\ Source(h) # None
    /\ q = [p EXCEPT !.pc = "copy", !.src = Source(h), !.ver = version[Source(h)]]
    /\ b = [a EXCEPT !.stage = "compressing", !.totalBytes = Corrected(h)]
Copying(p, q, a, b) ==
    /\ p.pc = "copy" /\ version[p.src] = p.ver
    /\ q = [p EXCEPT !.pc = "pack", !.left = p.left \ {First(p.left)},
                     !.packed = p.packed \cup {Copied(p)}]
    /\ b = [a EXCEPT !.finished = a.finished + 1,
                     !.doneBytes = a.doneBytes + Size(version[p.src])]
Zipped(p, q, a, b) ==
    /\ p.pc = "pack" /\ p.left = {}
    /\ q = [p EXCEPT !.pc = "testlook", !.zip = TRUE]
    /\ b = [a EXCEPT !.stage = "verifying"]
Sharing(p, q, a, b) ==
    /\ p.pc = "testlook" /\ q = [p EXCEPT !.pc = "testadd"] /\ b = a
HiddenIn(h, p, item) ==
    \/ NamesRoot(roots'[p.s], item.name)
    \/ /\ item.name.root = <<TestName, 0>> /\ p.pc = "testname"
       /\ RootsOf(Mine(h), TestDir, TRUE) = {}
Hiding(h, p, q, a, b) ==
    /\ p.pc \in {"testlook", "testadd", "testname"} /\ b = a
    /\ \E item \in Items, pc \in {"testname", "connect"} :
          /\ pc = "testname" => p.kind = "test" /\ RootsOf(roots'[p.s], TestDir, TRUE) # {}
          /\ HiddenIn(h, p, item)
          /\ q = [p EXCEPT !.pc = pc, !.left = {item}]
Connected(p, q, a, b) ==
    /\ p.pc = "connect" /\ q = [p EXCEPT !.pc = "open"]
    /\ b = IF p.kind = "test" THEN a ELSE [a EXCEPT !.stage = "connecting"]
Asking(h, p, q, a, b) ==
    /\ p.pc = "open" /\ p.left # {} /\ Source(h) # None /\ b = a
    /\ q = [p EXCEPT !.left = p.left \ {First(p.left)}, !.sent = p.sent \cup {Asked(h, p)}]
Answered(p, q, a, b) ==
    /\ p.pc = "open" /\ p.left = {} /\ b = a
    /\ q = [p EXCEPT !.pc = "respond", !.status = "ok"]
Finished(p, q, a, b) ==
    /\ p.pc = "respond" /\ q = [p EXCEPT !.pc = "done"]
    /\ b = IF p.kind = "test" THEN a
           ELSE [a EXCEPT !.stage = IF p.status = "ok" THEN "ready" ELSE "error",
                          !.active = FALSE]
Failed(p, q, a, b) ==
    /\ p.pc \in {"add", "match", "pack", "copy", "testadd", "connect", "open"}
    /\ q = [p EXCEPT !.pc = "respond", !.status = "error"]
    /\ \/ b = a
       \/ \E n \in Nat : b = [a EXCEPT !.doneBytes = a.doneBytes + n]
       \/ \E m, n \in Nat : b = [a EXCEPT !.total = m, !.totalBytes = n]
       \/ p.pc = "pack" /\ b = [a EXCEPT !.stage = "verifying"]
       \/ p.kind # "test" /\ p.pc = "connect" /\ b = [a EXCEPT !.stage = "connecting"]
Moves(h, p, q, a, b) ==
    \/ Refused(p, q, a, b) \/ Begun(p, q, a, b)
    \/ TestBegun(p, q, a, b) \/ Joined(p, q, a, b)
    \/ Matching(p, q, a, b) \/ Adding(p, q, a, b)
    \/ Passed(p, q, a, b) \/ Listing(h, p, q, a, b)
    \/ Packing(h, p, q, a, b) \/ Copying(p, q, a, b)
    \/ Zipped(p, q, a, b) \/ Sharing(p, q, a, b)
    \/ Hiding(h, p, q, a, b) \/ Connected(p, q, a, b)
    \/ Asking(h, p, q, a, b) \/ Answered(p, q, a, b)
    \/ Finished(p, q, a, b) \/ Failed(p, q, a, b)

\* What the handlers' actions do, as a move of the records of the one that acts.
LEMMA Moved ==
    ASSUME SharesTyped, PushTyped, ProgTyped, Flows, NEW h \in Pushes, Handles(h)
    PROVE  Moves(h, push[h], push'[h], prog[h], prog'[h])
<1> DEFINE p == push[h]
           a == prog[h]
<1>1. push \in [Pushes -> Handler] /\ p \in Handler /\ Flow(p)
  BY DEF PushTyped, Flows
<1>2. prog \in [Pushes -> Progress] /\ a \in Progress
  BY DEF ProgTyped
<1>3. CASE Fail(h) /\ p.pc \in {"add", "match", "pack", "copy", "testadd", "connect", "open"}
           /\ \/ prog'[h] = a
              \/ \E n \in Nat : prog'[h] = [a EXCEPT !.doneBytes = a.doneBytes + n]
              \/ \E m, n \in Nat : prog'[h] = [a EXCEPT !.total = m, !.totalBytes = n]
              \/ p.pc = "pack" /\ prog'[h] = [a EXCEPT !.stage = "verifying"]
              \/ p.kind # "test" /\ p.pc = "connect" /\ prog'[h] = [a EXCEPT !.stage = "connecting"]
  <2>1. push'[h] = [p EXCEPT !.pc = "respond", !.status = "error"]
    BY <1>1, <1>3 DEF Fail
  <2> QED
    BY <1>3, <2>1, Zenon DEF Moves, Failed
<1>4. ASSUME NEW kind \in {"plain", "archive"}, NEW sel \in Selections, StartPush(h, kind, sel)
      PROVE  Moves(h, p, push'[h], a, prog'[h])
  <2>1. p.pc = "idle" /\ sel \in Seq(Path)
    BY <1>4, SelectionsArePaths DEF StartPush
  <2>2. CASE Busy
    <3>1. push'[h] = [p EXCEPT !.pc = "done", !.status = "busy"] /\ prog'[h] = a
      BY <1>1, <1>4, <2>2 DEF StartPush
    <3> QED
      BY <2>1, <3>1, Zenon DEF Moves, Refused
  <2>3. CASE ~ Busy
    <3>1. push'[h] = [p EXCEPT !.pc = "sender", !.kind = kind, !.sel = sel, !.todo = sel]
      BY <1>1, <1>4, <2>3 DEF StartPush
    <3>2. prog'[h] = Fresh
      BY <1>2, <1>4, <2>3 DEF StartPush
    <3> QED
      BY <2>1, <3>1, <3>2, Zenon DEF Moves, Begun
  <2> QED
    BY <2>2, <2>3
<1>5. CASE StartTest(h)
  <2>1. p.pc = "idle" /\ push'[h] = [p EXCEPT !.pc = "sender", !.kind = "test"] /\ prog'[h] = a
    BY <1>1, <1>5 DEF StartTest
  <2> QED
    BY <2>1, Zenon DEF Moves, TestBegun
<1>6. CASE TakeSender(h)
  <2>1. p.pc = "sender" /\ prog'[h] = a
    BY <1>6 DEF TakeSender
  <2>2. push'[h] = [p EXCEPT !.s = sender', !.pc = IF p.kind = "test" THEN "testlook" ELSE "look"]
    BY <1>1, <1>6 DEF TakeSender
  <2>3. sender' # 0
    BY <1>6 DEF TakeSender, SharesTyped, shares
  <2> QED
    BY <2>1, <2>2, <2>3, Zenon DEF Moves, Joined
<1>7. CASE Look(h)
  <2>1. p.pc = "look" /\ prog'[h] = a
    BY <1>7 DEF Look
  <2>2. CASE Goto(h, "match")
    <3>1. push'[h] = [p EXCEPT !.pc = "match"]
      BY <1>1, <2>2 DEF Goto
    <3> QED
      BY <2>1, <3>1, Zenon DEF Moves, Matching
  <2>3. CASE Goto(h, "add") /\ p.todo # <<>>
    <3>1. push'[h] = [p EXCEPT !.pc = "add"]
      BY <1>1, <2>3 DEF Goto
    <3> QED
      BY <2>1, <2>3, <3>1, Zenon DEF Moves, Adding
  <2>4. CASE push' = [push EXCEPT ![h].todo = Tail(@)] /\ p.todo # <<>>
    <3>1. push'[h] = [p EXCEPT !.pc = "look", !.todo = Tail(p.todo)]
      BY <1>1, <2>1, <2>4 DEF Handler
    <3> QED
      BY <2>1, <2>4, <3>1, Zenon DEF Moves, Passed
  <2> QED
    BY <1>7, <2>2, <2>3, <2>4, Zenon DEF Look
<1>8. CASE Add(h)
  <2>1. p.pc = "add" /\ p.todo # <<>> /\ prog'[h] = a
    BY <1>1, <1>8 DEF Add, Flow
  <2>2. CASE push' = [push EXCEPT ![h].pc = "look", ![h].todo = Tail(@)]
    <3>1. push'[h] = [p EXCEPT !.pc = "look", !.todo = Tail(p.todo)]
      BY <1>1, <2>2
    <3> QED
      BY <2>1, <3>1, Zenon DEF Moves, Passed
  <2> QED
    BY <1>3, <1>8, <2>1, <2>2 DEF Add
<1>9. CASE Match(h)
  <2> DEFINE items == ItemsOf(h)
  <2>1. p.pc = "match"
    BY <1>9 DEF Match
  <2>2. CASE /\ \A i \in DOMAIN p.sel : RootsOf(Mine(h), p.sel[i], FALSE) # {}
             /\ prog' = [prog EXCEPT ![h].total = Cardinality(items), ![h].totalBytes = Sum(items)]
             /\ IF items = {} THEN Fail(h)
                ELSE push' = [push EXCEPT ![h].items = items, ![h].left = items,
                       ![h].pc = IF p.kind = "archive" THEN "pack" ELSE "connect"]
    <3>1. prog'[h] = [a EXCEPT !.total = Cardinality(items), !.totalBytes = Sum(items)]
      BY <1>2, <2>2
    <3>2. p.s \in DOMAIN roots
      BY <1>1, <2>1 DEF PushTyped, Flow, SharesTyped
    <3>3. items \in SUBSET Items /\ IsFiniteSet(items)
      BY <2>2, <3>2, Listed, Zenon
    <3>4. Cardinality(items) \in Nat /\ Sum(items) \in Nat
      <4>1. \A i \in items : i.size \in Nat
        BY <3>3 DEF Items
      <4> HIDE DEF items
      <4> QED
        BY <3>3, <4>1, SumStep, FS_CardinalityType
    <3> HIDE DEF items
    <3>5. CASE items = {}
      <4>1. Fail(h)
        BY <2>2, <3>5
      <4> QED
        BY <1>3, <2>1, <3>1, <3>4, <4>1, Zenon
    <3>6. CASE items # {}
      <4>1. push'[h] = [p EXCEPT !.items = items, !.left = items,
                                 !.pc = IF p.kind = "archive" THEN "pack" ELSE "connect"]
        BY <1>1, <2>2, <3>6
      <4> QED
        BY <2>1, <2>2, <3>1, <3>6, <4>1, Zenon DEF Moves, Listing, items
    <3> QED
      BY <3>5, <3>6
  <2>3. CASE Fail(h) /\ UNCHANGED prog
    BY <1>3, <2>1, <2>3
  <2> QED
    BY <1>9, <2>2, <2>3, Zenon DEF Match, Sum
<1>10. CASE PackOpen(h)
  <2>1. p.pc = "pack" /\ p.left # {}
    BY <1>10 DEF PackOpen
  <2>2. CASE /\ Source(h) # None
             /\ push' = [push EXCEPT ![h].pc = "copy", ![h].src = Source(h),
                                     ![h].ver = version[Source(h)]]
             /\ prog' = [prog EXCEPT ![h].stage = "compressing", ![h].totalBytes = Corrected(h)]
    <3>1. push'[h] = [p EXCEPT !.pc = "copy", !.src = Source(h), !.ver = version[Source(h)]]
      BY <1>1, <2>2
    <3>2. prog'[h] = [a EXCEPT !.stage = "compressing", !.totalBytes = Corrected(h)]
      BY <1>2, <2>2
    <3> QED
      BY <2>1, <2>2, <3>1, <3>2, Zenon DEF Moves, Packing
  <2>3. CASE Fail(h) /\ UNCHANGED prog
    BY <1>3, <2>1, <2>3
  <2> QED
    BY <1>10, <2>2, <2>3, Zenon DEF PackOpen
<1>11. CASE PackCopy(h)
  <2>1. p.pc = "copy" /\ p.src \in Readable
    BY <1>1, <1>11 DEF PackCopy, Flow
  <2>2. version[p.src] \in Nat
    BY <2>1 DEF PushTyped
  <2>3. CASE /\ ~ Changed(h)
             /\ prog' = [prog EXCEPT ![h].finished = @ + 1,
                                     ![h].doneBytes = @ + Size(version[p.src])]
             /\ push' = [push EXCEPT ![h].pc = "pack", ![h].left = @ \ {First(p.left)},
                                     ![h].packed = @ \cup {Copied(p)}]
    <3>1. push'[h] = [p EXCEPT !.pc = "pack", !.left = p.left \ {First(p.left)},
                               !.packed = p.packed \cup {Copied(p)}]
      BY <1>1, <2>3
    <3>2. prog'[h] = [a EXCEPT !.finished = a.finished + 1,
                               !.doneBytes = a.doneBytes + Size(version[p.src])]
      BY <1>2, <2>3
    <3>3. version[p.src] = p.ver
      BY <2>3 DEF Changed
    <3> QED
      BY <2>1, <3>1, <3>2, <3>3, Zenon DEF Moves, Copying
  <2>4. CASE Fail(h) /\ prog' = [prog EXCEPT ![h].doneBytes = @ + Size(version[p.src])]
    <3>1. prog'[h] = [a EXCEPT !.doneBytes = a.doneBytes + Size(version[p.src])]
      BY <1>2, <2>4
    <3>2. Size(version[p.src]) \in Nat
      BY <2>2 DEF Size
    <3> QED
      BY <1>3, <2>1, <2>4, <3>1, <3>2
  <2>5. CASE Fail(h) /\ UNCHANGED prog
    BY <1>3, <2>1, <2>5
  <2> QED
    BY <1>11, <2>3, <2>4, <2>5, Zenon DEF PackCopy, Copied
<1>12. CASE PackEnd(h)
  <2>1. p.pc = "pack" /\ p.left = {} /\ prog'[h] = [a EXCEPT !.stage = "verifying"]
    BY <1>2, <1>12 DEF PackEnd
  <2>2. CASE push' = [push EXCEPT ![h].pc = "testlook", ![h].zip = TRUE]
    <3>1. push'[h] = [p EXCEPT !.pc = "testlook", !.zip = TRUE]
      BY <1>1, <2>2
    <3> QED
      BY <2>1, <3>1, Zenon DEF Moves, Zipped
  <2>3. CASE Fail(h)
    BY <1>3, <2>1, <2>3
  <2> QED
    BY <1>12, <2>2, <2>3, Zenon DEF PackEnd
<1>13. p.pc \in {"testlook", "testadd", "testname"} => p.s \in DOMAIN roots
  BY <1>1 DEF PushTyped, Flow, SharesTyped
<1>14. HiddenDir(h) \in Path /\ IsPath(HiddenDir(h)) /\ HiddenDir(h) \notin Files
       /\ (p.kind = "test" => HiddenDir(h) = TestDir)
  BY PathsArePaths, PathsAssumption DEF HiddenDir
<1>15. ASSUME NEW r \in roots'[p.s], r.name \in STRING \X Nat, r.file = FALSE, r.path = HiddenDir(h),
              r.test, UseHidden(h, r.name), p.pc \in {"testlook", "testadd"}, prog'[h] = a
       PROVE  Moves(h, p, push'[h], a, prog'[h])
  <2> DEFINE item == Item(r.name, <<HiddenName(h)>>, None, 0)
             pc == IF p.kind = "test" THEN "testname" ELSE "connect"
  <2>1. item \in Items
    BY <1>15, HiddenItem
  <2>2. HiddenIn(h, p, item)
    <3>1. item.name.root = r.name /\ item.name.rel = <<HiddenName(h)>>
      BY DEF Item
    <3>2. <<HiddenName(h)>> # <<>>
      OBVIOUS
    <3> HIDE DEF item
    <3>3. r.file = (item.name.rel = <<>>)
      BY <1>15, <3>1, <3>2
    <3> QED
      BY <1>15, <3>1, <3>3, Zenon DEF HiddenIn, NamesRoot
  <2>3. push' = [push EXCEPT ![h].pc = pc, ![h].left = {item}]
    BY <1>15, Zenon DEF UseHidden
  <2>4. pc = "testname" => p.kind = "test" /\ RootsOf(roots'[p.s], TestDir, TRUE) # {}
    BY <1>14, <1>15 DEF RootsOf
  <2>5. pc \in {"testname", "connect"}
    OBVIOUS
  <2> HIDE DEF item, pc
  <2>6. push'[h] = [p EXCEPT !.pc = pc, !.left = {item}]
    BY <1>1, <2>3
  <2> QED
    BY <1>15, <2>1, <2>2, <2>4, <2>5, <2>6, Zenon DEF Moves, Hiding
<1>16. CASE TestLook(h)
  <2>1. p.pc = "testlook" /\ prog'[h] = a /\ roots' = roots
    BY <1>16 DEF TestLook, shares
  <2>2. CASE Goto(h, "testadd")
    <3>1. push'[h] = [p EXCEPT !.pc = "testadd"]
      BY <1>1, <2>2 DEF Goto
    <3> QED
      BY <2>1, <3>1, Zenon DEF Moves, Sharing
  <2> DEFINE found == RootsOf(Mine(h), HiddenDir(h), TRUE)
             r == Oldest(found)
  <2>3. CASE found # {} /\ UseHidden(h, r.name)
    <3>1. r \in roots[p.s] /\ r \in Root /\ r.path = HiddenDir(h) /\ r.test
      BY <1>13, <2>1, <2>3, RootName DEF Mine
    <3>2. r.file = FALSE
      <4>1. r.file = (r.path \in Files)
        BY <1>13, <2>1, <3>1 DEF SharesTyped
      <4>2. r.file \in BOOLEAN /\ r.path = HiddenDir(h)
        BY <3>1 DEF Root
      <4> HIDE DEF r
      <4>3. ~ (r.path \in Files)
        BY <1>14, <4>2
      <4>4. ~ r.file
        BY <4>1, <4>3, Zenon
      <4> QED
        BY <4>2, <4>4
    <3>3. r.name \in STRING \X Nat
      BY <3>1 DEF Root
    <3> HIDE DEF r
    <3> QED
      BY <1>15, <2>1, <2>3, <3>1, <3>2, <3>3
  <2> QED
    BY <1>16, <2>2, <2>3, Zenon DEF TestLook
<1>17. CASE TestAdd(h)
  <2>1. p.pc = "testadd" /\ prog'[h] = a
    BY <1>17 DEF TestAdd
  <2>2. CASE UseHidden(h, NameFor(Mine(h), HiddenDir(h)))
             /\ roots' = [roots EXCEPT ![p.s] = WithRoot(@, HiddenDir(h), TRUE)]
    <3>1. p.s \in DOMAIN roots
      BY <1>13, <2>1
    <3> DEFINE rs == roots[p.s]
               test == TRUE
               new == WithRoot(rs, HiddenDir(h), test)
    <3>2. /\ new \in SUBSET Root
          /\ \E r \in new : /\ r.name = NameFor(rs, HiddenDir(h))
                            /\ r.path = HiddenDir(h) /\ r.test = test
                            /\ r.file = (HiddenDir(h) \in Files)
      <4>1. /\ rs \in SUBSET Root /\ IsFiniteSet(rs)
            /\ \A r \in rs : r.file = (r.path \in Files)
            /\ \A q, r \in rs : q.name = r.name => q = r
        BY <3>1 DEF SharesTyped
      <4>2. IsPath(HiddenDir(h)) /\ test \in BOOLEAN
        BY <1>14
      <4> HIDE DEF rs, test
      <4> QED
        BY <4>1, <4>2, RootAdded
    <3>3. roots'[p.s] = new
      BY <2>2, <3>1
    <3> HIDE DEF new
    <3>4. PICK r \in new : /\ r.name = NameFor(roots[p.s], HiddenDir(h))
                           /\ r.path = HiddenDir(h) /\ r.test = test
                           /\ r.file = (HiddenDir(h) \in Files)
      BY <3>2, Zenon
    <3>5. r.name \in STRING \X Nat /\ r.file = FALSE /\ r.test
      BY <1>14, <3>2, <3>4 DEF Root
    <3> QED
      BY <1>15, <2>1, <2>2, <3>3, <3>4, <3>5 DEF Mine
  <2>3. CASE Fail(h)
    BY <1>3, <2>1, <2>3
  <2> QED
    BY <1>17, <2>2, <2>3, Zenon DEF TestAdd
<1>18. CASE TestNamed(h)
  <2>1. p.pc = "testname" /\ prog'[h] = a /\ roots' = roots
    BY <1>18 DEF TestNamed, shares
  <2> DEFINE found == RootsOf(Mine(h), TestDir, TRUE)
             item == IF found = {} THEN Item(<<TestName, 0>>, <<>>, None, 0)
                     ELSE Item(Oldest(found).name, <<TestName>>, None, 0)
  <2>2. push' = [push EXCEPT ![h].pc = "connect", ![h].left = {item}]
    BY <1>18, Zenon DEF TestNamed
  <2>3. item \in Items /\ HiddenIn(h, p, item)
    <3>1. CASE found = {}
      <4>1. <<TestName, 0>> \in Comp \X Nat /\ <<>> \in Seq(Comp)
        BY DEF Comp
      <4>2. item = Item(<<TestName, 0>>, <<>>, None, 0)
        BY <3>1
      <4>3. item \in Items /\ item.name.root = <<TestName, 0>>
        BY <4>1, <4>2 DEF Item, Items, Name
      <4> QED
        BY <2>1, <3>1, <4>3, Zenon DEF HiddenIn
    <3>2. CASE found # {}
      <4> DEFINE r == Oldest(found)
      <4>1. r \in roots[p.s] /\ r \in Root /\ r.path = TestDir
        BY <1>13, <2>1, <3>2, RootName DEF Mine
      <4>2. r.file = FALSE
        <5>1. r.file = (r.path \in Files)
          BY <1>13, <2>1, <4>1 DEF SharesTyped
        <5>2. r.file \in BOOLEAN /\ r.path = TestDir
          BY <4>1 DEF Root
        <5> HIDE DEF r
        <5>3. ~ (r.path \in Files)
          BY <5>2, PathsAssumption
        <5>4. ~ r.file
          BY <5>1, <5>3, Zenon
        <5> QED
          BY <5>2, <5>4
      <4>3. TestName \in Comp /\ STRING \subseteq Comp
        BY DEF Comp
      <4>4. r.name \in STRING \X Nat
        BY <4>1 DEF Root
      <4>5. item = Item(r.name, <<TestName>>, None, 0)
        BY <3>2
      <4> HIDE DEF r, item
      <4>6. r.name \in Comp \X Nat
        BY <4>3, <4>4
      <4>7. <<TestName>> \in Seq(Comp)
        BY <4>3
      <4>8. item \in Items /\ item.name.root = r.name /\ item.name.rel # <<>>
        BY <4>5, <4>6, <4>7 DEF Item, Items, Name
      <4>9. r.file = (item.name.rel = <<>>)
        BY <4>2, <4>8
      <4> QED
        BY <2>1, <4>1, <4>8, <4>9, Zenon DEF HiddenIn, NamesRoot
    <3> QED
      BY <3>1, <3>2
  <2> HIDE DEF item
  <2>4. push'[h] = [p EXCEPT !.pc = "connect", !.left = {item}]
    BY <1>1, <2>2
  <2> QED
    BY <2>1, <2>3, <2>4, Zenon DEF Moves, Hiding
<1>19. CASE Connect(h)
  <2>1. p.pc = "connect"
    BY <1>19 DEF Connect
  <2>2. prog'[h] = IF p.kind = "test" THEN a ELSE [a EXCEPT !.stage = "connecting"]
    BY <1>2, <1>19 DEF Connect
  <2>3. CASE Goto(h, "open")
    <3>1. push'[h] = [p EXCEPT !.pc = "open"]
      BY <1>1, <2>3 DEF Goto
    <3> QED
      BY <2>1, <2>2, <3>1, Zenon DEF Moves, Connected
  <2>4. CASE Fail(h)
    BY <1>3, <2>1, <2>2, <2>4
  <2> QED
    BY <1>19, <2>3, <2>4, Zenon DEF Connect
<1>20. CASE Open(h)
  <2>1. p.pc = "open" /\ p.left # {} /\ prog'[h] = a
    BY <1>20 DEF Open
  <2>2. CASE Source(h) # None
             /\ push' = [push EXCEPT ![h].left = @ \ {First(@)}, ![h].sent = @ \cup {Asked(h, p)}]
    <3>1. push'[h] = [p EXCEPT !.left = p.left \ {First(p.left)},
                               !.sent = p.sent \cup {Asked(h, p)}]
      BY <1>1, <2>2
    <3> QED
      BY <2>1, <2>2, <3>1, Zenon DEF Moves, Asking
  <2>3. CASE Fail(h)
    BY <1>3, <2>1, <2>3
  <2> QED
    BY <1>20, <2>2, <2>3, Zenon DEF Open, Asked
<1>21. CASE Queued(h)
  <2>1. p.pc = "open" /\ p.left = {} /\ prog'[h] = a
        /\ push'[h] = [p EXCEPT !.pc = "respond", !.status = "ok"]
    BY <1>1, <1>21 DEF Queued
  <2> QED
    BY <2>1, Zenon DEF Moves, Answered
<1>22. CASE Respond(h)
  <2>1. push'[h] = [p EXCEPT !.pc = "done"] /\ p.pc = "respond"
    BY <1>1, <1>22 DEF Respond, Goto
  <2>2. prog'[h] = IF p.kind = "test" THEN a
                   ELSE [a EXCEPT !.stage = IF p.status = "ok" THEN "ready" ELSE "error",
                                  !.active = FALSE]
    BY <1>2, <1>22 DEF Respond, Ended
  <2> QED
    BY <2>1, <2>2, Zenon DEF Moves, Finished
<1> QED
  BY <1>4, <1>5, <1>6, <1>7, <1>8, <1>9, <1>10, <1>11, <1>12, <1>16, <1>17, <1>18, <1>19, <1>20,
     <1>21, <1>22, Zenon DEF Handles, Step

\* A handler stays of its type, and on its way, with every step.
LEMMA SoundStep ==
    ASSUME SharesTyped, PushTyped, ProgTyped, Flows, NEW h \in Pushes, Handles(h)
    PROVE  /\ push'[h] \in Handler /\ push'[h].s \in 0 .. Len(roots')
           /\ IsFiniteSet(push'[h].left) /\ Flow(push'[h])
<1> DEFINE p == push[h]
           q == push'[h]
           a == prog[h]
           b == prog'[h]
           Good == q \in Handler /\ q.s \in 0 .. Len(roots') /\ IsFiniteSet(q.left) /\ Flow(q)
<1> SUFFICES Good
  OBVIOUS
<1>1. p \in Handler /\ p.s \in 0 .. Len(roots) /\ IsFiniteSet(p.left) /\ Flow(p)
  BY DEF PushTyped, Flows
<1>2. Len(roots') \in Nat /\ Len(roots) \in Nat /\ Len(roots) <= Len(roots')
  BY SharesReach
<1>3. p.s \in 0 .. Len(roots')
  BY <1>1, <1>2
<1>4. Moves(h, p, q, a, b)
  BY Moved
<1>5. (p.pc = "copy" \/ (p.pc = "open" /\ p.left # {})) =>
        First(p.left) \in p.left /\ First(p.left).name \in Name
  BY <1>1, FirstOfSome DEF Flow, Handler, Items
<1>6. IsFiniteSet(p.left \ {First(p.left)})
  BY <1>1, FS_RemoveElement, Zenon
<1>7. Source(h) # None => Source(h) \in Readable /\ version[Source(h)] \in Nat
  BY OpenedFile DEF Source, PushTyped
<1>8. p.pc = "sender" /\ Joined(p, q, a, b) => sender' \in 0 .. Len(roots')
  <2>1. SharesTyped'
    BY SharesTypedStep, NextSplits DEF Handles, Next
  <2> QED
    BY <2>1 DEF SharesTyped
<1>9. ItemsOf(h) # {} /\ Listing(h, p, q, a, b) => ItemsOf(h) \in SUBSET Items /\ IsFiniteSet(ItemsOf(h))
  <2>1. p.pc = "match" => p.s \in DOMAIN roots
    BY <1>1 DEF Flow, SharesTyped
  <2> QED
    BY <2>1, Listed, Zenon DEF Listing
<1> HIDE DEF p, q, a, b
<1>10. CASE Refused(p, q, a, b)
  BY <1>1, <1>3, <1>10 DEF Refused, Handler, Flow, Pc, Kind
<1>11. CASE Begun(p, q, a, b)
  <2>1. PICK kind \in {"plain", "archive"}, sel \in Seq(Path) :
           q = [p EXCEPT !.pc = "sender", !.kind = kind, !.sel = sel, !.todo = sel]
    BY <1>11, Zenon DEF Begun
  <2>2. p.pc = "idle"
    BY <1>11 DEF Begun
  <2> QED
    BY <1>1, <1>3, <2>1, <2>2 DEF Handler, Flow, Pc, Kind
<1>12. CASE TestBegun(p, q, a, b)
  BY <1>1, <1>3, <1>12 DEF TestBegun, Handler, Flow, Pc, Kind
<1>13. CASE Joined(p, q, a, b)
  <2>1. sender' \in 0 .. Len(roots') /\ sender' # 0 /\ sender' \in Nat
    BY <1>2, <1>8, <1>13 DEF Joined
  <2> DEFINE s == sender'
             pc == IF p.kind = "test" THEN "testlook" ELSE "look"
  <2>2. q = [p EXCEPT !.s = s, !.pc = pc] /\ p.pc = "sender" /\ s \in Nat /\ s # 0
        /\ s \in 0 .. Len(roots')
    BY <2>1, <1>13 DEF Joined
  <2>3. (pc = "testlook" /\ p.kind = "test") \/ (pc = "look" /\ p.kind # "test")
    OBVIOUS
  <2> HIDE DEF s, pc
  <2>4. q \in Handler /\ q.s = s /\ IsFiniteSet(q.left)
    BY <1>1, <2>2, <2>3 DEF Handler, Pc
  <2>5. Flow(q)
    BY <1>1, <2>2, <2>3 DEF Handler, Flow
  <2> QED
    BY <2>2, <2>4, <2>5
<1>14. CASE Matching(p, q, a, b)
  BY <1>1, <1>3, <1>14 DEF Matching, Handler, Flow, Pc, Kind
<1>15. CASE Adding(p, q, a, b)
  BY <1>1, <1>3, <1>15 DEF Adding, Handler, Flow, Pc, Kind
<1>16. CASE Passed(p, q, a, b)
  <2>1. Tail(p.todo) \in Seq(Path)
    BY <1>1, <1>16, PathTail DEF Passed, Handler
  <2> QED
    BY <1>1, <1>3, <1>16, <2>1 DEF Passed, Handler, Flow, Pc
<1>17. CASE Listing(h, p, q, a, b)
  <2> DEFINE items == ItemsOf(h)
  <2>1. items \in SUBSET Items /\ IsFiniteSet(items)
    BY <1>9, <1>17 DEF Listing
  <2>2. p.pc = "match" /\ q = [p EXCEPT !.items = items, !.left = items,
                                       !.pc = IF p.kind = "archive" THEN "pack" ELSE "connect"]
    BY <1>17 DEF Listing
  <2> HIDE DEF items
  <2> QED
    BY <1>1, <1>3, <2>1, <2>2 DEF Handler, Flow, Pc, Kind
<1>18. CASE Packing(h, p, q, a, b)
  BY <1>1, <1>3, <1>7, <1>18 DEF Packing, Handler, Flow, Pc
<1>19. CASE Copying(p, q, a, b)
  <2> DEFINE more == p.packed \cup {Copied(p)}
             rest == p.left \ {First(p.left)}
  <2>1. p.pc = "copy" /\ q = [p EXCEPT !.pc = "pack", !.left = rest, !.packed = more]
    BY <1>19 DEF Copying
  <2>2. Copied(p) \in [name : Name, file : Readable, whole : BOOLEAN]
    BY <1>1, <1>5, <2>1 DEF Copied, Flow
  <2>3. more \in SUBSET [name : Name, file : Readable, whole : BOOLEAN]
    BY <1>1, <2>2 DEF Handler
  <2>4. rest \in SUBSET Items /\ IsFiniteSet(rest)
    BY <1>1, <1>6 DEF Handler
  <2> HIDE DEF more, rest
  <2> QED
    BY <1>1, <1>3, <2>1, <2>3, <2>4 DEF Handler, Flow, Pc
<1>20. CASE Zipped(p, q, a, b)
  BY <1>1, <1>3, <1>20 DEF Zipped, Handler, Flow, Pc, Kind
<1>21. CASE Sharing(p, q, a, b)
  BY <1>1, <1>3, <1>21 DEF Sharing, Handler, Flow, Pc, Kind
<1>22. CASE Hiding(h, p, q, a, b)
  <2>1. PICK item \in Items, pc \in {"testname", "connect"} :
           (pc = "testname" => p.kind = "test") /\ q = [p EXCEPT !.pc = pc, !.left = {item}]
    BY <1>22, Zenon DEF Hiding
  <2>2. IsFiniteSet({item}) /\ p.pc \in {"testlook", "testadd", "testname"}
    BY <1>22, FS_Singleton DEF Hiding
  <2> DEFINE left == {item}
  <2>3. left \in SUBSET Items /\ IsFiniteSet(left) /\ q = [p EXCEPT !.pc = pc, !.left = left]
    BY <2>1, <2>2
  <2> HIDE DEF left
  <2>4. q \in Handler /\ q.s \in 0 .. Len(roots') /\ IsFiniteSet(q.left)
    BY <1>1, <1>3, <2>1, <2>3 DEF Handler, Pc
  <2>5. Flow(q)
    BY <1>1, <2>1, <2>2, <2>3 DEF Handler, Flow
  <2> QED
    BY <2>4, <2>5
<1>23. CASE Connected(p, q, a, b)
  BY <1>1, <1>3, <1>23 DEF Connected, Handler, Flow, Pc, Kind
<1>24. CASE Asking(h, p, q, a, b)
  <2> DEFINE more == p.sent \cup {Asked(h, p)}
             rest == p.left \ {First(p.left)}
  <2>1. p.pc = "open" /\ p.left # {} /\ q = [p EXCEPT !.left = rest, !.sent = more]
    BY <1>24 DEF Asking
  <2>2. Asked(h, p) \in [name : Name, file : Readable]
    BY <1>5, <1>7, <2>1, <1>24 DEF Asked, Asking
  <2>3. more \in SUBSET [name : Name, file : Readable]
    BY <1>1, <2>2 DEF Handler
  <2>4. rest \in SUBSET Items /\ IsFiniteSet(rest)
    BY <1>1, <1>6 DEF Handler
  <2> HIDE DEF more, rest
  <2> QED
    BY <1>1, <1>3, <2>1, <2>3, <2>4 DEF Handler, Flow, Pc
<1>25. CASE Answered(p, q, a, b)
  BY <1>1, <1>3, <1>25 DEF Answered, Handler, Flow, Pc, Kind
<1>26. CASE Finished(p, q, a, b)
  BY <1>1, <1>3, <1>26 DEF Finished, Handler, Flow, Pc, Kind
<1>27. CASE Failed(p, q, a, b)
  BY <1>1, <1>3, <1>27 DEF Failed, Handler, Flow, Pc, Kind
<1> QED
  BY <1>4, <1>10, <1>11, <1>12, <1>13, <1>14, <1>15, <1>16, <1>17, <1>18, <1>19, <1>20, <1>21,
     <1>22, <1>23, <1>24, <1>25, <1>26, <1>27, Zenon DEF Moves

\* Nor does the page or another program.
LEMMA ReachOutside ==
    ASSUME SharesTyped, Outside \/ UNCHANGED vars
    PROVE  Len(roots') \in Nat /\ Len(roots) \in Nat /\ Len(roots) <= Len(roots')
<1>1. roots \in Seq(SUBSET Root)
  BY DEF SharesTyped
<1>2. \/ roots' = roots
      \/ \E new : roots' = Append(roots, new)
      \/ \E new : roots' = [roots EXCEPT ![sender] = new]
  BY Zenon DEF Outside, StartServe, AddFolder, RemoveFolder, Change, vars, shares
<1> QED
  BY <1>1, <1>2

\* Versions and events stay numbers.
LEMMA VersionStep ==
    ASSUME PushTyped, [Next]_vars
    PROVE  version' \in [Readable -> Nat] /\ events' \in Nat
<1>1. version \in [Readable -> Nat] /\ events \in Nat
  BY DEF PushTyped
<1>2. events' \in Nat
  <2>1. events' = events \/ events' = events + 1
    <3>1. ASSUME NEW h \in Pushes, Handles(h) PROVE events' = events \/ events' = events + 1
      BY <3>1, Zenon DEF Handles, Step, StartTest, StartPush, TakeSender, Look, Add, Match,
         PackOpen, PackCopy, PackEnd, TestLook, TestAdd, TestNamed, Connect, Open, Queued, Respond,
         Fails, Works
    <3>2. CASE Outside
      BY <3>2, Zenon DEF Outside, StartServe, AddFolder, RemoveFolder, Change, Others
    <3>3. CASE UNCHANGED vars
      BY <3>3 DEF vars
    <3> QED
      BY <3>1, <3>2, <3>3, NextSplits, Zenon
  <2> QED
    BY <1>1, <2>1
<1>3. UNCHANGED version \/ \E f \in Files : Change(f)
  <2>1. ASSUME NEW h \in Pushes, Handles(h) PROVE UNCHANGED version
    BY <2>1, Zenon DEF Handles, Step, StartTest, StartPush, TakeSender, Look, Add, Match,
       PackOpen, PackCopy, PackEnd, TestLook, TestAdd, TestNamed, Connect, Open, Queued, Respond
  <2>2. CASE Outside
    BY <2>2, Zenon DEF Outside, StartServe, AddFolder, RemoveFolder
  <2>3. CASE UNCHANGED vars
    BY <2>3 DEF vars
  <2> QED
    BY <2>1, <2>2, <2>3, NextSplits, Zenon
<1>4. ASSUME NEW f \in Files, Change(f) PROVE version' \in [Readable -> Nat]
  BY <1>1, <1>4 DEF Change, Readable
<1> QED
  BY <1>1, <1>2, <1>3, <1>4

\* Only startPreparation writes preparing, and only while none goes on.
LEMMA PreparingStep ==
    ASSUME PushTyped, NEW h \in Pushes, Handles(h)
    PROVE  \/ /\ preparing' = preparing
              /\ push[h].pc = "idle" => push'[h].kind = "test" \/ push'[h].pc = "done"
           \/ preparing' = h /\ ~ Busy
<1>1. ASSUME NEW kind \in {"plain", "archive"}, NEW sel \in Selections, StartPush(h, kind, sel)
      PROVE  (preparing' = preparing /\ push'[h].pc = "done") \/ (preparing' = h /\ ~ Busy)
  BY <1>1 DEF StartPush, PushTyped, Handler
<1>2. CASE StartTest(h)
  BY <1>2 DEF StartTest, PushTyped, Handler
<1>3. CASE Step(h)
  BY <1>3, Zenon DEF Step, TakeSender, Look, Add, Match, PackOpen, PackCopy, PackEnd, TestLook,
     TestAdd, TestNamed, Connect, Open, Queued, Respond
<1> QED
  BY <1>1, <1>2, <1>3, Zenon DEF Handles

\* The handlers keep their types, and their way, in every step.
LEMMA PushTypedStep ==
    ASSUME SharesTyped, PushTyped, ProgTyped, Flows, [Next]_vars
    PROVE  PushTyped' /\ Flows'
<1>1. push \in [Pushes -> Handler] /\ preparing \in Pushes \cup {None}
      /\ \A g \in Pushes : push[g].s \in 0 .. Len(roots) /\ IsFiniteSet(push[g].left)
                           /\ Flow(push[g])
  BY DEF PushTyped, Flows
<1>2. version' \in [Readable -> Nat] /\ events' \in Nat
  BY VersionStep
<1>3. ASSUME NEW h \in Pushes, Handles(h)
      PROVE  PushTyped' /\ Flows'
  <2>1. Len(roots') \in Nat /\ Len(roots) \in Nat /\ Len(roots) <= Len(roots')
    BY <1>3, SharesReach
  <2>2. /\ push'[h] \in Handler /\ push'[h].s \in 0 .. Len(roots')
        /\ IsFiniteSet(push'[h].left) /\ Flow(push'[h])
    BY <1>3, SoundStep
  <2>3. push' = [push EXCEPT ![h] = push'[h]]
        /\ \A g \in Pushes \ {h} : push'[g] = push[g]
    BY <1>3, OthersKept
  <2>4. preparing' \in Pushes \cup {None}
    BY <1>1, <1>3, PreparingStep
  <2>5. push' \in [Pushes -> Handler]
    <3> HIDE DEF Handler
    <3> QED
      BY <1>1, <2>2, <2>3
  <2>6. \A g \in Pushes : push'[g].s \in 0 .. Len(roots') /\ IsFiniteSet(push'[g].left)
                          /\ Flow(push'[g])
    <3> SUFFICES ASSUME NEW g \in Pushes
                 PROVE  push'[g].s \in 0 .. Len(roots') /\ IsFiniteSet(push'[g].left)
                        /\ Flow(push'[g])
      OBVIOUS
    <3>1. CASE g = h
      BY <2>2, <3>1
    <3>2. CASE g # h
      <4>1. push'[g] = push[g]
        BY <2>3, <3>2
      <4>2. push[g].s \in 0 .. Len(roots')
        BY <1>1, <2>1
      <4> QED
        BY <1>1, <4>1, <4>2
    <3> QED
      BY <3>1, <3>2
  <2> QED
    BY <1>2, <2>4, <2>5, <2>6 DEF PushTyped, Flows
<1>4. CASE Outside \/ UNCHANGED vars
  <2>1. Len(roots') \in Nat /\ Len(roots) \in Nat /\ Len(roots) <= Len(roots')
    BY <1>4, ReachOutside
  <2>2. push' = push /\ preparing' = preparing
    BY <1>4, OutsideLeaves
  <2>3. \A g \in Pushes : push[g].s \in 0 .. Len(roots')
    BY <1>1, <2>1
  <2> QED
    BY <1>1, <1>2, <2>2, <2>3 DEF PushTyped, Flows
<1> QED
  BY <1>3, <1>4, NextSplits

(***************************************************************************)
(* One preparation at a time                                               *)
(***************************************************************************)
\* A handler that prepares has begun in this step or did before, and is active since.
LEMMA ActiveStep ==
    ASSUME NEW h, NEW p \in Handler, NEW q, NEW a \in Progress, NEW b, Moves(h, p, q, a, b),
           q.kind # "test", q.pc \notin {"idle", "done"}
    PROVE  \/ p.pc = "idle" /\ b = Fresh
           \/ p.kind # "test" /\ p.pc \notin {"idle", "done"} /\ b.active = a.active
<1>1. CASE Refused(p, q, a, b)
  BY <1>1 DEF Refused, Handler, Progress
<1>2. CASE Begun(p, q, a, b)
  BY <1>2 DEF Begun, Handler, Progress
<1>3. CASE TestBegun(p, q, a, b)
  BY <1>3 DEF TestBegun, Handler, Progress
<1>4. CASE Joined(p, q, a, b)
  BY <1>4 DEF Joined, Handler, Progress
<1>5. CASE Matching(p, q, a, b)
  BY <1>5 DEF Matching, Handler, Progress
<1>6. CASE Adding(p, q, a, b)
  BY <1>6 DEF Adding, Handler, Progress
<1>7. CASE Passed(p, q, a, b)
  BY <1>7 DEF Passed, Handler, Progress
<1>8. CASE Listing(h, p, q, a, b)
  BY <1>8 DEF Listing, Handler, Progress
<1>9. CASE Packing(h, p, q, a, b)
  BY <1>9 DEF Packing, Handler, Progress
<1>10. CASE Copying(p, q, a, b)
  BY <1>10 DEF Copying, Handler, Progress
<1>11. CASE Zipped(p, q, a, b)
  BY <1>11 DEF Zipped, Handler, Progress
<1>12. CASE Sharing(p, q, a, b)
  BY <1>12 DEF Sharing, Handler, Progress
<1>13. CASE Hiding(h, p, q, a, b)
  BY <1>13 DEF Hiding, Handler, Progress
<1>14. CASE Connected(p, q, a, b)
  BY <1>14 DEF Connected, Handler, Progress
<1>15. CASE Asking(h, p, q, a, b)
  BY <1>15 DEF Asking, Handler, Progress
<1>16. CASE Answered(p, q, a, b)
  BY <1>16 DEF Answered, Handler, Progress
<1>17. CASE Finished(p, q, a, b)
  BY <1>17 DEF Finished, Handler, Progress
<1>18. CASE Failed(p, q, a, b)
  BY <1>18 DEF Failed, Handler, Progress
<1> QED
  BY <1>1, <1>2, <1>3, <1>4, <1>5, <1>6, <1>7, <1>8, <1>9, <1>10, <1>11, <1>12, <1>13,
     <1>14, <1>15, <1>16, <1>17, <1>18, Zenon DEF Moves

\* One preparation at a time is preserved by every step.
LEMMA PreparedStep ==
    ASSUME SharesTyped, PushTyped, ProgTyped, Flows, Prepared, [Next]_vars
    PROVE  Prepared'
<1>1. ASSUME NEW h \in Pushes, Handles(h) PROVE Prepared'
  <2>1. Moves(h, push[h], push'[h], prog[h], prog'[h])
    BY <1>1, Moved
  <2>2. \A g \in Pushes \ {h} : push'[g] = push[g] /\ prog'[g] = prog[g]
    BY <1>1, OthersKept
  <2>3. ASSUME NEW g \in Pushes \ {h}, Prepares(g)'
        PROVE  preparing' = g /\ prog'[g].active
    <3>1. Prepares(g)
      BY <2>2, <2>3 DEF Prepares
    <3>2. preparing = g /\ prog[g].active
      BY <3>1 DEF Prepared
    <3>3. g # None
      BY PathsAssumption
    <3>4. Busy
      BY <3>2, <3>3 DEF Busy
    <3>5. preparing' = preparing
      BY <1>1, <3>4, PreparingStep
    <3> QED
      BY <2>2, <3>2, <3>5
  <2>4. ASSUME Prepares(h)' PROVE preparing' = h /\ prog'[h].active
    <3>1. push'[h].kind # "test" /\ push'[h].pc \notin {"idle", "done"}
      BY <2>4 DEF Prepares
    <3>2. \/ push[h].pc = "idle" /\ prog'[h] = Fresh
          \/ push[h].kind # "test" /\ push[h].pc \notin {"idle", "done"}
             /\ prog'[h].active = prog[h].active
      <4>1. push[h] \in Handler /\ prog[h] \in Progress
        BY DEF PushTyped, ProgTyped
      <4> QED
        BY <2>1, <3>1, <4>1, ActiveStep
    <3>3. CASE push[h].pc = "idle" /\ prog'[h] = Fresh
      <4>1. preparing' = h
        BY <1>1, <3>1, <3>3, PreparingStep
      <4> QED
        BY <3>3, <4>1 DEF Fresh
    <3>4. CASE push[h].kind # "test" /\ push[h].pc \notin {"idle", "done"}
               /\ prog'[h].active = prog[h].active
      <4>1. preparing = h /\ prog[h].active
        BY <3>4 DEF Prepared, Prepares
      <4>2. preparing' = h
        BY <1>1, <4>1, PreparingStep
      <4> QED
        BY <3>4, <4>1, <4>2
    <3> QED
      BY <3>2, <3>3, <3>4
  <2> QED
    BY <2>3, <2>4 DEF Prepared
<1>2. CASE Outside \/ UNCHANGED vars
  BY <1>2, OutsideLeaves DEF Prepared, Prepares
<1> QED
  BY <1>1, <1>2, NextSplits

(***************************************************************************)
(* The numbers of a preparation                                            *)
(***************************************************************************)
\* The items that are left to pack, and the one that is packed next.
LEMMA LeftSums ==
    ASSUME NEW left \in SUBSET Items, IsFiniteSet(left)
    PROVE  /\ Sum(left) \in Nat /\ Sum({}) = 0
           /\ Cardinality(left) \in Nat /\ Cardinality({}) = 0
           /\ left # {} =>
                 /\ First(left) \in left /\ First(left).size \in Nat
                 /\ Sum(left \ {First(left)}) \in Nat
                 /\ Sum(left) = First(left).size + Sum(left \ {First(left)})
                 /\ Cardinality(left) = Cardinality(left \ {First(left)}) + 1
                 /\ Cardinality(left \ {First(left)}) \in Nat
<1>1. \A i \in left : i.size \in Nat
  BY DEF Items
<1>2. IsFiniteSet(left \ {First(left)})
  BY FS_RemoveElement, Zenon
<1>3. left # {} => Cardinality(left \ {First(left)}) = Cardinality(left) - 1
  BY FS_RemoveElement, FirstOfSome, Zenon
<1>4. Cardinality(left) \in Nat /\ Cardinality({}) = 0
      /\ Cardinality(left \ {First(left)}) \in Nat
  BY <1>2, FS_CardinalityType, FS_EmptySet, Zenon
<1>5. /\ Sum(left) \in Nat /\ Sum({}) = 0
      /\ left # {} =>
            /\ First(left) \in left /\ First(left).size \in Nat
            /\ Sum(left \ {First(left)}) \in Nat
            /\ Sum(left) = First(left).size + Sum(left \ {First(left)})
  BY <1>1, SumStep
<1> QED
  BY <1>3, <1>4, <1>5

\* The numbers of the handler that acts still agree.
LEMMA CountedByStep ==
    ASSUME SharesTyped, PushTyped, ProgTyped, Flows, Counted, NEW h \in Pushes, Handles(h)
    PROVE  prog'[h] \in Progress /\ Counts(push'[h], prog'[h])
<1> DEFINE p == push[h]
           q == push'[h]
           a == prog[h]
           b == prog'[h]
           rest == p.left \ {First(p.left)}
<1> SUFFICES b \in Progress /\ Counts(q, b)
  OBVIOUS
<1>1. p \in Handler /\ a \in Progress /\ Flow(p) /\ Counts(p, a) /\ q \in Handler
  BY SoundStep DEF PushTyped, ProgTyped, Flows, Counted
<1>2. /\ Sum(p.left) \in Nat /\ Sum({}) = 0
      /\ Cardinality(p.left) \in Nat /\ Cardinality({}) = 0
      /\ p.left # {} =>
            /\ First(p.left).size \in Nat /\ Sum(rest) \in Nat
            /\ Sum(p.left) = First(p.left).size + Sum(rest)
            /\ Cardinality(p.left) = Cardinality(rest) + 1 /\ Cardinality(rest) \in Nat
  <2>1. p.left \in SUBSET Items /\ IsFiniteSet(p.left)
    BY <1>1 DEF Handler, PushTyped
  <2> QED
    BY <2>1, LeftSums
<1>3. Moves(h, p, q, a, b)
  BY Moved
<1>4. Source(h) # None => version[Source(h)] \in Nat
  BY OpenedFile DEF Source, PushTyped
<1>5. p.pc = "match" /\ Listing(h, p, q, a, b) =>
        Cardinality(ItemsOf(h)) \in Nat /\ Sum(ItemsOf(h)) \in Nat
  <2>1. p.pc = "match" => p.s \in DOMAIN roots
    BY <1>1 DEF Flow, SharesTyped, PushTyped
  <2>2. p.pc = "match" /\ Listing(h, p, q, a, b) =>
          ItemsOf(h) \in SUBSET Items /\ IsFiniteSet(ItemsOf(h))
    BY <2>1, Listed, Zenon DEF Listing
  <2> QED
    BY <2>2, LeftSums
<1>6. Corrected(h) = a.totalBytes + Size(version[Source(h)]) - First(p.left).size
  BY DEF Corrected
<1> HIDE DEF p, q, a, b, rest
<1>7. CASE Refused(p, q, a, b)
  BY <1>1, <1>7 DEF Refused, Handler, Progress, Flow, Counts, PackedAll, AddsUp, Stage
<1>8. CASE Begun(p, q, a, b)
  <2>1. PICK kind \in {"plain", "archive"}, sel \in Seq(Path) :
           q = [p EXCEPT !.pc = "sender", !.kind = kind, !.sel = sel, !.todo = sel]
    BY <1>8, Zenon DEF Begun
  <2>2. q.pc = "sender" /\ q.status = "none" /\ b = Fresh
    BY <1>1, <1>8, <2>1 DEF Begun, Handler, Flow
  <2> QED
    BY <2>2 DEF Fresh, Progress, Counts, PackedAll, Stage
<1>9. CASE TestBegun(p, q, a, b)
  BY <1>1, <1>9 DEF TestBegun, Handler, Progress, Flow, Counts, PackedAll, AddsUp, Stage
<1>10. CASE Joined(p, q, a, b)
  BY <1>1, <1>10 DEF Joined, Handler, Progress, Flow, Counts, PackedAll, AddsUp, Stage
<1>11. CASE Matching(p, q, a, b)
  BY <1>1, <1>11 DEF Matching, Handler, Progress, Flow, Counts, PackedAll, AddsUp, Stage
<1>12. CASE Adding(p, q, a, b)
  BY <1>1, <1>12 DEF Adding, Handler, Progress, Flow, Counts, PackedAll, AddsUp, Stage
<1>13. CASE Passed(p, q, a, b)
  BY <1>1, <1>13 DEF Passed, Handler, Progress, Flow, Counts, PackedAll, AddsUp, Stage
<1>14. CASE Listing(h, p, q, a, b)
  <2> DEFINE items == ItemsOf(h)
  <2>1. p.pc = "match" /\ b = [a EXCEPT !.total = Cardinality(items), !.totalBytes = Sum(items)]
    BY <1>14 DEF Listing
  <2>2. q = [p EXCEPT !.items = items, !.left = items,
                      !.pc = IF p.kind = "archive" THEN "pack" ELSE "connect"]
    BY <1>14 DEF Listing
  <2>3. Cardinality(items) \in Nat /\ Sum(items) \in Nat
    BY <1>5, <1>14, <2>1
  <2> HIDE DEF items
  <2>4. b \in Progress
    BY <1>1, <2>1, <2>3 DEF Progress
  <2>5. CASE p.kind = "archive"
    <3>1. q.pc = "pack" /\ q.left = items /\ q.status = "none"
      BY <1>1, <2>1, <2>2, <2>5 DEF Handler, Flow
    <3>2. a.finished = 0 /\ a.doneBytes = 0 /\ a.stage # "ready"
      BY <1>1, <2>1, <2>5 DEF Counts
    <3>3. b.finished = 0 /\ b.doneBytes = 0 /\ b.total = Cardinality(items)
          /\ b.totalBytes = Sum(items) /\ b.stage # "ready"
      BY <1>1, <2>1, <3>2 DEF Progress
    <3> QED
      BY <2>3, <2>4, <3>1, <3>3 DEF Counts, PackedAll
  <2>6. CASE p.kind # "archive"
    <3>1. q.kind # "archive"
      BY <1>1, <2>2, <2>6 DEF Handler
    <3> QED
      BY <2>4, <3>1 DEF Counts
  <2> QED
    BY <2>5, <2>6
<1>15. CASE Packing(h, p, q, a, b)
  <2>1. p.pc = "pack" /\ p.left # {} /\ version[Source(h)] \in Nat /\ p.kind = "archive"
    BY <1>1, <1>4, <1>15 DEF Packing, Flow
  <2>2. q.pc = "copy" /\ q.left = p.left /\ q.ver = version[Source(h)] /\ q.status = p.status
    BY <1>1, <1>15 DEF Packing, Handler
  <2>3. a.finished + Cardinality(p.left) = a.total /\ a.doneBytes + Sum(p.left) = a.totalBytes
        /\ a.stage # "ready" /\ p.status # "ok"
    BY <1>1, <2>1 DEF Counts, Flow
  <2>4. /\ a.doneBytes + Sum(rest) + Size(version[Source(h)]) = Corrected(h)
        /\ Corrected(h) \in Nat
    BY <1>1, <1>2, <1>6, <2>1, <2>3 DEF Size, Progress
  <2>5. b = [a EXCEPT !.stage = "compressing", !.totalBytes = Corrected(h)]
    BY <1>15 DEF Packing
  <2>6. b \in Progress /\ b.stage # "ready" /\ b.totalBytes = Corrected(h)
        /\ b.doneBytes = a.doneBytes /\ b.finished = a.finished /\ b.total = a.total
    BY <1>1, <2>4, <2>5 DEF Progress, Stage
  <2> QED
    BY <2>2, <2>3, <2>4, <2>6 DEF Counts, PackedAll, rest
<1>16. CASE Copying(p, q, a, b)
  <2>1. p.pc = "copy" /\ p.left # {} /\ p.kind = "archive" /\ version[p.src] = p.ver
    BY <1>1, <1>16 DEF Copying, Flow
  <2>2. q.pc = "pack" /\ q.left = rest /\ q.status = p.status /\ p.ver \in Nat
    BY <1>1, <1>16 DEF Copying, Handler, rest
  <2>3. a.finished + Cardinality(p.left) = a.total
        /\ a.doneBytes + Sum(rest) + Size(p.ver) = a.totalBytes
        /\ a.stage # "ready" /\ p.status # "ok"
    BY <1>1, <2>1 DEF Counts, Flow, rest
  <2>4. b = [a EXCEPT !.finished = a.finished + 1, !.doneBytes = a.doneBytes + Size(p.ver)]
    BY <2>1, <1>16 DEF Copying
  <2>5. b.stage # "ready" /\ b.totalBytes = a.totalBytes /\ b.total = a.total
        /\ b.doneBytes = a.doneBytes + Size(p.ver) /\ b.finished = a.finished + 1
    BY <1>1, <2>3, <2>4 DEF Progress
  <2> DEFINE f == a.finished + 1
             d == a.doneBytes + Size(p.ver)
  <2>9. a.finished \in Nat /\ a.doneBytes \in Nat
    BY <1>1 DEF Progress
  <2>10. f \in Nat /\ d \in Nat /\ b = [a EXCEPT !.finished = f, !.doneBytes = d]
    BY <2>2, <2>4, <2>9 DEF Size
  <2> HIDE DEF f, d
  <2>6. b \in Progress
    BY <1>1, <2>10 DEF Progress
  <2>7. b.finished + Cardinality(rest) = b.total
    <3>1. Cardinality(rest) \in Nat /\ Cardinality(p.left) = Cardinality(rest) + 1
      BY <1>2, <2>1
    <3> QED
      BY <2>3, <2>5, <2>9, <3>1
  <2>8. b.doneBytes + Sum(rest) = b.totalBytes
    BY <1>1, <1>2, <2>1, <2>2, <2>3, <2>5 DEF Progress, Size
  <2> QED
    BY <2>2, <2>3, <2>5, <2>6, <2>7, <2>8 DEF Counts, PackedAll
<1>17. CASE Zipped(p, q, a, b)
  <2>1. p.pc = "pack" /\ p.left = {} /\ p.kind = "archive"
    BY <1>1, <1>17 DEF Zipped, Flow
  <2>2. a.finished = a.total /\ a.doneBytes = a.totalBytes
    BY <1>1, <1>2, <2>1 DEF Counts, Progress
  <2>3. q.pc = "testlook" /\ b = [a EXCEPT !.stage = "verifying"]
    BY <1>1, <1>17 DEF Zipped, Handler
  <2>4. b \in Progress /\ b.stage # "ready" /\ AddsUp(b)
    BY <1>1, <2>2, <2>3 DEF Progress, Stage, AddsUp
  <2> QED
    BY <2>3, <2>4 DEF Counts
<1>18. CASE Sharing(p, q, a, b)
  BY <1>1, <1>18 DEF Sharing, Handler, Progress, Flow, Counts, PackedAll, AddsUp, Stage
<1>19. CASE Hiding(h, p, q, a, b)
  <2>1. PICK item \in Items, pc \in {"testname", "connect"} :
           (pc = "testname" => p.kind = "test") /\ q = [p EXCEPT !.pc = pc, !.left = {item}]
    BY <1>19, Zenon DEF Hiding
  <2>2. q.pc \in {"testname", "connect"} /\ q.kind = p.kind /\ q.status = p.status
        /\ p.status # "ok" /\ p.pc \in {"testlook", "testadd", "testname"} /\ b = a
    BY <1>1, <1>19, <2>1 DEF Handler, Flow, Hiding
  <2>3. (q.pc = "testname" => q.kind = "test") /\ (p.pc = "testname" => p.kind = "test")
    BY <1>1, <2>1, <2>2 DEF Handler, Flow
  <2> QED
    BY <1>1, <2>2, <2>3 DEF Counts, PackedAll
<1>20. CASE Connected(p, q, a, b)
  BY <1>1, <1>20 DEF Connected, Handler, Progress, Flow, Counts, PackedAll, AddsUp, Stage
<1>21. CASE Asking(h, p, q, a, b)
  BY <1>1, <1>21 DEF Asking, Handler, Progress, Flow, Counts, PackedAll, AddsUp, Stage
<1>22. CASE Answered(p, q, a, b)
  BY <1>1, <1>22 DEF Answered, Handler, Progress, Flow, Counts, PackedAll, AddsUp, Stage
<1>23. CASE Finished(p, q, a, b)
  <2>1. p.pc = "respond" /\ q.pc = "done" /\ q.status = p.status /\ q.kind = p.kind
    BY <1>1, <1>23 DEF Finished, Handler
  <2>2. b \in Progress
    BY <1>1, <1>23 DEF Finished, Progress, Stage
  <2>3. p.kind = "archive" =>
          /\ b.finished = a.finished /\ b.total = a.total /\ b.doneBytes = a.doneBytes
          /\ b.totalBytes = a.totalBytes /\ (b.stage = "ready" => p.status = "ok")
    BY <1>1, <1>23 DEF Finished, Progress
  <2>4. p.kind = "archive" /\ p.status = "ok" => AddsUp(a)
    BY <1>1 DEF Counts, PackedAll
  <2> QED
    BY <2>1, <2>2, <2>3, <2>4 DEF Counts, PackedAll, AddsUp
<1>24. CASE Failed(p, q, a, b)
  <2>1. q.pc = "respond" /\ q.status = "error" /\ q.kind = p.kind
    BY <1>1, <1>24 DEF Failed, Handler
  <2>2. b \in Progress
    <3>1. ASSUME NEW n \in Nat, b = [a EXCEPT !.doneBytes = a.doneBytes + n]
          PROVE  b \in Progress
      <4>1. a.doneBytes + n \in Nat
        BY <1>1 DEF Progress
      <4> QED
        BY <1>1, <3>1, <4>1 DEF Progress
    <3>2. ASSUME NEW m \in Nat, NEW n \in Nat, b = [a EXCEPT !.total = m, !.totalBytes = n]
          PROVE  b \in Progress
      BY <1>1, <3>2 DEF Progress
    <3>3. ASSUME NEW st \in Stage, b = [a EXCEPT !.stage = st] PROVE b \in Progress
      BY <1>1, <3>3 DEF Progress
    <3>4. "verifying" \in Stage /\ "connecting" \in Stage
      BY DEF Stage
    <3> QED
      BY <1>1, <1>24, <3>1, <3>2, <3>3, <3>4, Zenon DEF Failed
  <2>3. b.stage = a.stage \/ b.stage # "ready"
    BY <1>1, <1>24 DEF Failed, Progress
  <2>4. p.kind = "archive" => a.stage # "ready"
    BY <1>1, <1>24 DEF Failed, Counts
  <2> QED
    BY <2>1, <2>2, <2>3, <2>4 DEF Counts, PackedAll
<1> QED
  BY <1>3, <1>7, <1>8, <1>9, <1>10, <1>11, <1>12, <1>13, <1>14, <1>15, <1>16, <1>17, <1>18,
     <1>19, <1>20, <1>21, <1>22, <1>23, <1>24, Zenon DEF Moves

\* And those of the others.
LEMMA CountedStep ==
    ASSUME SharesTyped, PushTyped, ProgTyped, Flows, Counted, [Next]_vars
    PROVE  ProgTyped' /\ Counted'
<1>1. ASSUME NEW h \in Pushes, Handles(h) PROVE ProgTyped' /\ Counted'
  <2>1. prog'[h] \in Progress /\ Counts(push'[h], prog'[h])
    BY <1>1, CountedByStep
  <2>2. prog' = [prog EXCEPT ![h] = prog'[h]]
        /\ \A g \in Pushes \ {h} : push'[g] = push[g] /\ prog'[g] = prog[g]
    BY <1>1, OthersKept
  <2>3. ProgTyped'
    <3> HIDE DEF Progress
    <3> QED
      BY <2>1, <2>2 DEF ProgTyped
  <2>4. \A g \in Pushes : Counts(push'[g], prog'[g])
    <3>1. \A g \in Pushes \ {h} : Counts(push'[g], prog'[g])
      BY <2>2 DEF Counted
    <3> QED
      BY <2>1, <3>1
  <2> QED
    BY <2>3, <2>4 DEF Counted
<1>2. CASE Outside \/ UNCHANGED vars
  BY <1>2, OutsideLeaves DEF ProgTyped, Counted
<1> QED
  BY <1>1, <1>2, NextSplits

(***************************************************************************)
(* Names and what they mean                                                *)
(***************************************************************************)
\* Whatever is shared since then, a root keeps its name until the user removes it.
LEMMA RootsKept ==
    ASSUME SharesTyped, PushTyped, Flows, [Next]_vars
    PROVE  /\ gone \subseteq gone' /\ Bare \subseteq Bare'
           /\ \A s \in DOMAIN roots : \A r \in roots[s] : r \in roots'[s] \/ r.name \in gone'
<1> DEFINE Kept == \A s \in DOMAIN roots : \A r \in roots[s] : r \in roots'[s] \/ r.name \in gone'
<1>1. roots \in Seq(SUBSET Root)
  BY DEF SharesTyped
<1>2. ASSUME NEW new, roots' = Append(roots, new) PROVE Kept
  <2>1. \A s \in DOMAIN roots : roots'[s] = roots[s]
    BY <1>1, <1>2
  <2> QED
    BY <2>1
<1>3. ASSUME NEW t, NEW new, roots' = [roots EXCEPT ![t] = new],
             t \in DOMAIN roots => \A r \in roots[t] : r \in new \/ r.name \in gone'
      PROVE  Kept
  <2> SUFFICES ASSUME NEW s \in DOMAIN roots, NEW r \in roots[s]
               PROVE  r \in roots'[s] \/ r.name \in gone'
    OBVIOUS
  <2>1. CASE s = t
    BY <1>3, <2>1
  <2>2. CASE s # t
    BY <1>3, <2>2
  <2> QED
    BY <2>1, <2>2
<1>4. \A rs, path, test : rs \subseteq WithRoot(rs, path, test)
  BY Zenon DEF WithRoot
<1>5. ASSUME NEW t, NEW path, NEW test, roots' = [roots EXCEPT ![t] = WithRoot(@, path, test)]
      PROVE  Kept
  <2> DEFINE new == WithRoot(roots[t], path, test)
  <2>1. roots[t] \subseteq new
    BY <1>4
  <2>2. roots' = [roots EXCEPT ![t] = new]
    BY <1>5
  <2> HIDE DEF new, Kept
  <2> QED
    BY <1>3, <2>1, <2>2
<1>6. ASSUME NEW h \in Pushes, Handles(h) PROVE gone \subseteq gone' /\ Kept
  <2>1. gone' = gone
    BY <1>6, Zenon DEF Handles, Step, StartTest, StartPush, TakeSender, Look, Add, Match, PackOpen,
       PackCopy, PackEnd, TestLook, TestAdd, TestNamed, Connect, Open, Queued, Respond
  <2>2. roots' = roots => Kept
    OBVIOUS
  <2> HIDE DEF Kept
  <2> QED
    BY <1>2, <1>5, <1>6, <2>1, <2>2, RootsMove, Zenon DEF shares
<1>7. ASSUME NEW path \in Folders, StartServe(path) \/ AddFolder(path)
      PROVE  gone \subseteq gone' /\ Kept
  <2>1. gone' = gone
    BY <1>7 DEF StartServe, AddFolder
  <2> HIDE DEF Kept
  <2> QED
    BY <1>2, <1>5, <1>7, <2>1, Zenon DEF StartServe, AddFolder
<1>8. ASSUME NEW name, RemoveFolder(name) PROVE gone \subseteq gone' /\ Kept
  <2>1. roots' = [roots EXCEPT ![sender] = Without(@, name)] /\ gone' = gone \cup {name}
    BY <1>8 DEF RemoveFolder
  <2>2. \A r \in roots[sender] : r \in Without(roots[sender], name) \/ r.name \in gone'
    BY <2>1 DEF Without
  <2>3. Kept
    <3> DEFINE new == Without(roots[sender], name)
    <3>1. roots' = [roots EXCEPT ![sender] = new]
      BY <2>1
    <3> HIDE DEF new, Kept
    <3> QED
      BY <1>3, <2>2, <3>1 DEF new
  <2> QED
    BY <2>1, <2>3
<1>9. ASSUME (\E f \in Files : Change(f)) \/ UNCHANGED vars PROVE gone \subseteq gone' /\ Kept
  <2>1. gone' = gone /\ roots' = roots
    BY <1>9, Zenon DEF Change, vars, shares
  <2> QED
    BY <2>1
<1>10. gone \subseteq gone' /\ Kept
  <2> HIDE DEF Kept
  <2> QED
    BY <1>6, <1>7, <1>8, <1>9, NextSplits, Zenon DEF Outside
<1>11. gone \subseteq gone' => Bare \subseteq Bare'
  BY DEF Bare
<1> QED
  BY <1>10, <1>11

\* So a name that has its root has it still, or was taken away.
LEMMA NamesKept ==
    ASSUME NEW rs, NEW new, NEW names, \A r \in rs : r \in new \/ r.name \in names,
           NEW name
    PROVE  /\ \A file : HasRoot(rs, name, file) => name.root \in names \/ HasRoot(new, name, file)
           /\ NamesRoot(rs, name) => name.root \in names \/ NamesRoot(new, name)
<1>1. ASSUME NEW file, HasRoot(rs, name, file)
      PROVE  name.root \in names \/ HasRoot(new, name, file)
  BY <1>1, Zenon DEF HasRoot
<1>2. ASSUME NamesRoot(rs, name) PROVE name.root \in names \/ NamesRoot(new, name)
  BY <1>2, Zenon DEF NamesRoot
<1> QED
  BY <1>1, <1>2

\* What holds of a handler's names holds of them after any step, of the roots there
\* are then.
LEMMA BoundsKept ==
    ASSUME SharesTyped, PushTyped, Flows, [Next]_vars, NEW h \in Pushes
    PROVE  LET p   == push[h]
               new == roots'[p.s]
           IN /\ Picks(p, Mine(h), gone) => Picks(p, new, gone')
              /\ Leaves(p, Mine(h), gone \cup Bare, gone # {})
                    => Leaves(p, new, gone' \cup Bare', gone' # {})
              /\ \A archived, more :
                    Sends(p, Mine(h), gone \cup Bare, archived) /\ archived \subseteq more
                    => Sends(p, new, gone' \cup Bare', more)
<1> DEFINE p   == push[h]
           rs  == Mine(h)
           new == roots'[p.s]
<1>1. gone \subseteq gone' /\ Bare \subseteq Bare'
  BY RootsKept
<1>2. CASE p.s = 0
  <2>1. p.items = {} /\ p.left = {} /\ p.sent = {} /\ p.pc # "testname"
    BY <1>2 DEF Flows, Flow
  <2> QED
    BY <2>1 DEF Picks, Leaves, Sends
<1>3. CASE p.s # 0
  <2>1. p.s \in DOMAIN roots
    BY <1>3 DEF PushTyped, SharesTyped
  <2>2. \A r \in rs : r \in new \/ r.name \in gone'
    BY <2>1, RootsKept DEF Mine
  <2>3. \A r \in rs : r \in new \/ r.name \in gone' \cup Bare'
    BY <2>2
  <2> HIDE DEF p, rs, new
  <2>4. ASSUME Picks(p, rs, gone) PROVE Picks(p, new, gone')
    <3>1. \A i \in p.items : i.name.root \in gone' \/ HasRoot(new, i.name, i.file)
      BY <1>1, <2>2, <2>4, NamesKept DEF Picks
    <3> QED
      BY <2>4, <3>1 DEF Picks
  <2>5. ASSUME Leaves(p, rs, gone \cup Bare, gone # {})
        PROVE  Leaves(p, new, gone' \cup Bare', gone' # {})
    <3>1. \A i \in p.left : i.name.root \in gone' \cup Bare' \/ NamesRoot(new, i.name)
      BY <1>1, <2>3, <2>5, NamesKept DEF Leaves
    <3>2. ASSUME p.pc = "testname", gone' = {} PROVE RootsOf(new, TestDir, TRUE) # {}
      <4>1. RootsOf(rs, TestDir, TRUE) # {}
        BY <1>1, <2>5, <3>2 DEF Leaves
      <4> QED
        BY <2>2, <3>2, <4>1 DEF RootsOf
    <3> QED
      BY <3>1, <3>2 DEF Leaves
  <2>6. ASSUME NEW archived, NEW more, Sends(p, rs, gone \cup Bare, archived),
               archived \subseteq more
        PROVE  Sends(p, new, gone' \cup Bare', more)
    <3>1. ASSUME NEW x \in p.sent
          PROVE  x.name.root \in gone' \cup Bare' \/ HasRoot(new, x.name, x.file)
      <4>1. x.name.root \in gone \cup Bare \/ HasRoot(rs, x.name, x.file)
        BY <2>6 DEF Sends
      <4> QED
        BY <1>1, <2>3, <4>1, NamesKept
    <3> QED
      BY <2>6, <3>1 DEF Sends
  <2> QED
    BY <2>4, <2>5, <2>6 DEF p, rs, new
<1> QED
  BY <1>2, <1>3

\* Sender.open finds the one root that has the name.
LEMMA LocatedOnce ==
    ASSUME SharesTyped, NEW s \in DOMAIN roots, NEW name
    PROVE  /\ NamesRoot(roots[s], name) => HasRoot(roots[s], name, Located(roots[s], name))
           /\ \A file : HasRoot(roots[s], name, file) => Located(roots[s], name) = file
<1> DEFINE rs   == roots[s]
           fits == {r \in rs : r.name = name.root /\ r.file = (name.rel = <<>>)}
<1>1. \A q, r \in fits : q = r
  BY DEF SharesTyped
<1>2. \A r \in fits : r.age \in Nat
  BY DEF SharesTyped, Root
<1>3. fits # {} => Oldest(fits) \in fits
  <2> HIDE DEF fits
  <2> QED
    BY <1>2, OldestIsOne
<1>4. fits # {} => Located(rs, name) = Oldest(fits).path \o name.rel
  BY Zenon DEF Located
<1>5. \A r \in fits : r \in rs /\ r.name = name.root /\ r.file = (name.rel = <<>>)
  OBVIOUS
<1>6. \A r \in rs : r.name = name.root /\ r.file = (name.rel = <<>>) => r \in fits
  OBVIOUS
<1>7. ASSUME NamesRoot(rs, name) PROVE HasRoot(rs, name, Located(rs, name))
  <2> HIDE DEF rs, fits
  <2>1. fits # {}
    BY <1>6, <1>7, Zenon DEF NamesRoot
  <2> QED
    BY <1>3, <1>4, <1>5, <2>1, Zenon DEF HasRoot
<1>8. ASSUME NEW file, HasRoot(rs, name, file) PROVE Located(rs, name) = file
  <2> HIDE DEF rs, fits
  <2>1. PICK r \in fits : r.path \o name.rel = file
    BY <1>6, <1>8, Zenon DEF HasRoot
  <2>2. fits # {} /\ Oldest(fits) = r
    BY <1>1, <1>3, Zenon
  <2> QED
    BY <1>4, <2>1, <2>2, Zenon
<1> QED
  BY <1>7, <1>8

\* What a step of a handler leaves of what it has.
LEMMA MoveKeeps ==
    ASSUME NEW h, NEW p \in Handler, NEW q, NEW a, NEW b, Flow(p), Moves(h, p, q, a, b)
    PROVE  /\ q.s = p.s \/ (p.pc = "sender" /\ q.s = sender' /\ sender' # 0)
           /\ p.zip => q.zip
           /\ \/ Listing(h, p, q, a, b)
              \/ q.items = p.items /\ (p.items = {} \/ q.sel = p.sel) /\ (Matched(q) => Matched(p))
           /\ \/ Listing(h, p, q, a, b) \/ Hiding(h, p, q, a, b)
              \/ q.left \subseteq p.left /\ q.pc # "testname"
           /\ q.sent = p.sent \/ Asking(h, p, q, a, b)
           /\ Asks(q) => Asks(p) \/ Connected(p, q, a, b)
<1>1. CASE Refused(p, q, a, b)
  BY <1>1 DEF Refused, Handler, Flow, Matched, Asks
<1>2. CASE Begun(p, q, a, b)
  <2>1. PICK kind \in {"plain", "archive"}, sel \in Seq(Path) :
           q = [p EXCEPT !.pc = "sender", !.kind = kind, !.sel = sel, !.todo = sel]
    BY <1>2, Zenon DEF Begun
  <2>2. p.pc = "idle"
    BY <1>2 DEF Begun
  <2> QED
    BY <2>1, <2>2 DEF Handler, Flow, Matched, Asks
<1>3. CASE TestBegun(p, q, a, b)
  BY <1>3 DEF TestBegun, Handler, Flow, Matched, Asks
<1>4. CASE Joined(p, q, a, b)
  BY <1>4 DEF Joined, Handler, Flow, Matched, Asks
<1>5. CASE Matching(p, q, a, b)
  BY <1>5 DEF Matching, Handler, Flow, Matched, Asks
<1>6. CASE Adding(p, q, a, b)
  BY <1>6 DEF Adding, Handler, Flow, Matched, Asks
<1>7. CASE Passed(p, q, a, b)
  BY <1>7 DEF Passed, Handler, Flow, Matched, Asks
<1>8. CASE Listing(h, p, q, a, b)
  BY <1>8 DEF Listing, Handler, Flow, Matched, Asks
<1>9. CASE Packing(h, p, q, a, b)
  BY <1>9 DEF Packing, Handler, Flow, Matched, Asks
<1>10. CASE Copying(p, q, a, b)
  BY <1>10 DEF Copying, Handler, Flow, Matched, Asks
<1>11. CASE Zipped(p, q, a, b)
  BY <1>11 DEF Zipped, Handler, Flow, Matched, Asks
<1>12. CASE Sharing(p, q, a, b)
  BY <1>12 DEF Sharing, Handler, Flow, Matched, Asks
<1>13. CASE Hiding(h, p, q, a, b)
  <2>1. PICK item \in Items, pc \in {"testname", "connect"} :
           (pc = "testname" => p.kind = "test") /\ q = [p EXCEPT !.pc = pc, !.left = {item}]
    BY <1>13, Zenon DEF Hiding
  <2>2. p.pc \in {"testlook", "testadd", "testname"}
    BY <1>13 DEF Hiding
  <2> QED
    BY <1>13, <2>1, <2>2 DEF Handler, Flow, Matched, Asks
<1>14. CASE Connected(p, q, a, b)
  BY <1>14 DEF Connected, Handler, Flow, Matched, Asks
<1>15. CASE Asking(h, p, q, a, b)
  BY <1>15 DEF Asking, Handler, Flow, Matched, Asks
<1>16. CASE Answered(p, q, a, b)
  BY <1>16 DEF Answered, Handler, Flow, Matched, Asks
<1>17. CASE Finished(p, q, a, b)
  BY <1>17 DEF Finished, Handler, Flow, Matched, Asks
<1>18. CASE Failed(p, q, a, b)
  BY <1>18 DEF Failed, Handler, Flow, Matched, Asks
<1> QED
  BY <1>1, <1>2, <1>3, <1>4, <1>5, <1>6, <1>7, <1>8, <1>9, <1>10, <1>11, <1>12, <1>13,
     <1>14, <1>15, <1>16, <1>17, <1>18, Zenon DEF Moves

\* Archives are not taken away.
LEMMA ArchivedGrows ==
    ASSUME SharesTyped, PushTyped, ProgTyped, Flows, [Next]_vars
    PROVE  Archived \subseteq Archived'
<1>1. ASSUME NEW h \in Pushes, Handles(h), NEW g \in Pushes, push[g].zip PROVE push'[g].zip
  <2>1. CASE g = h
    <3>1. push[h] \in Handler /\ Flow(push[h])
      BY DEF PushTyped, Flows
    <3> QED
      BY <1>1, <2>1, <3>1, Moved, MoveKeeps
  <2>2. CASE g # h
    BY <1>1, <2>2, OthersKept
  <2> QED
    BY <2>1, <2>2
<1>2. ASSUME NEW g \in Pushes, push[g].zip PROVE push'[g].zip
  BY <1>1, <1>2, NextSplits, OutsideLeaves
<1> QED
  BY <1>2, Zenon DEF Archived

\* What a handler has queued is what its name meant when it was opened.
LEMMA AskedIsBound ==
    ASSUME SharesTyped, PushTyped, Flows, NEW h \in Pushes, push[h].pc = "open",
           push[h].left # {}, Source(h) # None,
           Leaves(push[h], Mine(h), gone \cup Bare, gone # {})
    PROVE  /\ Source(h) \in Files \cup {TestFile} \cup Archived
           /\ First(push[h].left).name.root \in gone \cup Bare
              \/ HasRoot(Mine(h), First(push[h].left).name, Source(h))
<1> DEFINE p    == push[h]
           item == First(p.left)
           path == Located(roots[p.s], item.name)
<1>1. p.s \in DOMAIN roots
  BY DEF PushTyped, Flows, Flow, SharesTyped
<1>2. item \in p.left
  BY FirstOfSome
<1>3. Source(h) = path /\ path \in Files \cup {TestFile} \cup Archived
  BY Zenon DEF Source, Opened, Archived
<1>4. item.name.root \in gone \cup Bare \/ NamesRoot(Mine(h), item.name)
  BY <1>2 DEF Leaves
<1> HIDE DEF item
<1>5. NamesRoot(Mine(h), item.name) => HasRoot(Mine(h), item.name, path)
  BY <1>1, LocatedOnce, Zenon DEF Mine
<1> QED
  BY <1>3, <1>4, <1>5, Zenon DEF item

\* The names of the handler that acts are bound to their files after it.
LEMMA BoundsByStep ==
    ASSUME SharesTyped, PushTyped, ProgTyped, Flows, Picked, LeftBound, SentBound,
           NEW h \in Pushes, Handles(h)
    PROVE  LET q  == push'[h]
               rs == roots'[q.s]
           IN /\ Picks(q, rs, gone')
              /\ Leaves(q, rs, gone' \cup Bare', gone' # {})
              /\ Sends(q, rs, gone' \cup Bare', Archived')
<1> DEFINE p   == push[h]
           q   == push'[h]
           a   == prog[h]
           b   == prog'[h]
           new == roots'[p.s]
           names   == gone'
           no      == gone' \cup Bare'
           removed == gone' # {}
<1> SUFFICES /\ Picks(q, roots'[q.s], names)
             /\ Leaves(q, roots'[q.s], no, removed)
             /\ Sends(q, roots'[q.s], no, Archived')
  OBVIOUS
<1>1. [Next]_vars
  BY DEF Handles, Next
<1>2. p \in Handler /\ Flow(p) /\ Moves(h, p, q, a, b)
  BY Moved DEF PushTyped, Flows
<1>3. /\ q.s = p.s \/ p.pc = "sender"
      /\ \/ Listing(h, p, q, a, b)
         \/ q.items = p.items /\ (p.items = {} \/ q.sel = p.sel) /\ (Matched(q) => Matched(p))
      /\ \/ Listing(h, p, q, a, b) \/ Hiding(h, p, q, a, b)
         \/ q.left \subseteq p.left /\ q.pc # "testname"
      /\ q.sent = p.sent \/ Asking(h, p, q, a, b)
  <2> HIDE DEF p, q, a, b
  <2>1. /\ q.s = p.s \/ (p.pc = "sender" /\ q.s = sender' /\ sender' # 0)
        /\ p.zip => q.zip
        /\ \/ Listing(h, p, q, a, b)
           \/ q.items = p.items /\ (p.items = {} \/ q.sel = p.sel) /\ (Matched(q) => Matched(p))
        /\ \/ Listing(h, p, q, a, b) \/ Hiding(h, p, q, a, b)
           \/ q.left \subseteq p.left /\ q.pc # "testname"
        /\ q.sent = p.sent \/ Asking(h, p, q, a, b)
        /\ Asks(q) => Asks(p) \/ Connected(p, q, a, b)
    BY <1>2, MoveKeeps, Zenon
  <2> QED
    BY <2>1, Zenon
<1>4. /\ Picks(p, Mine(h), gone) /\ Leaves(p, Mine(h), gone \cup Bare, gone # {})
      /\ Sends(p, Mine(h), gone \cup Bare, Archived)
  BY DEF Picked, LeftBound, SentBound
<1>5. Picks(p, new, names) /\ Leaves(p, new, no, removed) /\ Sends(p, new, no, Archived')
  BY <1>1, <1>4, ArchivedGrows, BoundsKept
<1>6. p.pc = "sender" => p.items = {} /\ p.left = {} /\ p.sent = {} /\ ~ Matched(p)
  BY <1>2 DEF Flow, Matched
<1>7. Mine(h) = roots[p.s] /\ Selected(h) = SelectedBy(p.sel)
  BY DEF Mine, Selected, SelectedBy
<1>8. p.s # 0 => \A r \in Mine(h) : r \in new \/ (r.name \in names /\ r.name \in no)
  <2>1. p.s # 0 => p.s \in DOMAIN roots
    BY DEF PushTyped, SharesTyped
  <2> QED
    BY <1>1, <2>1, RootsKept DEF Mine
<1>9. gone \subseteq names /\ gone \cup Bare \subseteq no /\ (gone # {} => removed)
  BY <1>1, RootsKept
<1>10. gone # {} => <<TestName, 0>> \in no
  BY <1>1, RootsKept DEF Bare
<1> HIDE DEF p, q, a, b, new, names, no, removed
<1>11. CASE q.s # p.s
  <2>1. p.pc = "sender"
    BY <1>3, <1>11
  <2>2. ~ Listing(h, p, q, a, b) /\ ~ Hiding(h, p, q, a, b) /\ ~ Asking(h, p, q, a, b)
    BY <2>1 DEF Listing, Hiding, Asking
  <2>3. q.items = {} /\ q.left = {} /\ q.sent = {} /\ ~ Matched(q) /\ q.pc # "testname"
    BY <1>3, <1>6, <2>1, <2>2
  <2> QED
    BY <2>3 DEF Picks, Leaves, Sends
<1>12. CASE q.s = p.s
  <2>1. roots'[q.s] = new
    BY <1>12 DEF new
  <2>2. Listing(h, p, q, a, b) =>
          /\ q.items = ItemsOf(h) /\ q.left = ItemsOf(h) /\ q.pc # "testname" /\ q.sel = p.sel
          /\ ItemsOf(h) # {} /\ {i.file : i \in ItemsOf(h)} = SelectedBy(p.sel)
          /\ \A i, j \in ItemsOf(h) : i.file = j.file => i = j
          /\ \A i \in ItemsOf(h) : /\ i.name.root \in names \/ HasRoot(new, i.name, i.file)
                                   /\ i.name.root \in no \/ NamesRoot(new, i.name)
    <3> SUFFICES ASSUME Listing(h, p, q, a, b)
                 PROVE  /\ q.items = ItemsOf(h) /\ q.left = ItemsOf(h)
                        /\ q.pc # "testname" /\ q.sel = p.sel
                        /\ ItemsOf(h) # {} /\ {i.file : i \in ItemsOf(h)} = SelectedBy(p.sel)
                        /\ \A i, j \in ItemsOf(h) : i.file = j.file => i = j
                        /\ \A i \in ItemsOf(h) :
                              /\ i.name.root \in names \/ HasRoot(new, i.name, i.file)
                              /\ i.name.root \in no \/ NamesRoot(new, i.name)
      OBVIOUS
    <3>1. q.items = ItemsOf(h) /\ q.left = ItemsOf(h) /\ q.pc # "testname" /\ q.sel = p.sel
          /\ ItemsOf(h) # {}
      BY <1>2 DEF Listing, Handler
    <3>2. p.pc = "match" /\ \A i \in DOMAIN p.sel : RootsOf(Mine(h), p.sel[i], FALSE) # {}
      BY DEF Listing
    <3>3. p.s # 0 /\ p.s \in DOMAIN roots
      BY <1>2, <3>2 DEF Flow, p, PushTyped, SharesTyped
    <3>4. /\ {i.file : i \in ItemsOf(h)} = Selected(h)
          /\ \A i, j \in ItemsOf(h) : i.file = j.file => i = j
          /\ \A i \in ItemsOf(h) : HasRoot(Mine(h), i.name, i.file)
          /\ \A i \in ItemsOf(h) : NamesRoot(Mine(h), i.name)
      BY <3>2, <3>3, Listed, Zenon DEF p
    <3>5. ASSUME NEW i \in ItemsOf(h)
          PROVE  /\ i.name.root \in names \/ HasRoot(new, i.name, i.file)
                 /\ i.name.root \in no \/ NamesRoot(new, i.name)
      <4>1. (\A r \in Mine(h) : r \in new \/ r.name \in names)
            /\ (\A r \in Mine(h) : r \in new \/ r.name \in no)
        BY <1>8, <3>3
      <4> QED
        BY <3>4, <4>1, NamesKept
    <3> QED
      BY <1>7, <3>1, <3>4, <3>5
  <2>3. Picks(q, new, names)
    BY <1>3, <1>5, <2>2 DEF Picks
  <2>4. Hiding(h, p, q, a, b) => Leaves(q, new, no, removed)
    <3> SUFFICES ASSUME Hiding(h, p, q, a, b) PROVE Leaves(q, new, no, removed)
      OBVIOUS
    <3>1. PICK item \in Items, pc \in {"testname", "connect"} :
             /\ pc = "testname" => p.kind = "test" /\ RootsOf(new, TestDir, TRUE) # {}
             /\ HiddenIn(h, p, item)
             /\ q = [p EXCEPT !.pc = pc, !.left = {item}]
      BY Zenon DEF Hiding, new
    <3>2. q.pc = pc /\ q.left = {item}
      BY <1>2, <3>1 DEF Handler
    <3>3. item.name.root \in no \/ NamesRoot(new, item.name)
      <4>1. CASE NamesRoot(new, item.name)
        BY <4>1
      <4>2. CASE /\ item.name.root = <<TestName, 0>> /\ p.pc = "testname"
                 /\ RootsOf(Mine(h), TestDir, TRUE) = {}
        <5>1. gone # {}
          BY <1>4, <4>2 DEF Leaves
        <5> QED
          BY <1>10, <4>2, <5>1
      <4> QED
        BY <3>1, <4>1, <4>2, Zenon DEF HiddenIn, new
    <3> QED
      BY <3>1, <3>2, <3>3 DEF Leaves
  <2>5. Leaves(q, new, no, removed)
    BY <1>3, <1>5, <2>2, <2>4 DEF Leaves
  <2>6. Asking(h, p, q, a, b) => Sends(q, new, no, Archived')
    <3> SUFFICES ASSUME Asking(h, p, q, a, b) PROVE Sends(q, new, no, Archived')
      OBVIOUS
    <3> DEFINE name == First(p.left).name
    <3>1. p.pc = "open" /\ p.left # {} /\ Source(h) # None
      BY DEF Asking
    <3>2. q.sent = p.sent \cup {[name |-> name, file |-> Source(h)]}
      BY <1>2 DEF Asking, Asked, Handler
    <3>3. /\ Source(h) \in Files \cup {TestFile} \cup Archived
          /\ name.root \in gone \cup Bare \/ HasRoot(Mine(h), name, Source(h))
      BY <1>4, <3>1, AskedIsBound DEF p
    <3>4. name.root \in no \/ HasRoot(new, name, Source(h))
      <4>1. p.s # 0
        BY <1>2, <3>1 DEF Flow
      <4>2. \A r \in Mine(h) : r \in new \/ r.name \in no
        BY <1>8, <4>1
      <4> HIDE DEF name
      <4> QED
        BY <1>9, <3>3, <4>2, NamesKept
    <3>5. Source(h) \in Files \cup {TestFile} \cup Archived'
      BY <1>1, <3>3, ArchivedGrows
    <3> HIDE DEF name
    <3> QED
      BY <1>5, <3>2, <3>4, <3>5 DEF Sends
  <2>7. Sends(q, new, no, Archived')
    BY <1>3, <1>5, <2>6 DEF Sends
  <2> QED
    BY <2>1, <2>3, <2>5, <2>7
<1> QED
  BY <1>11, <1>12

\* And those of every handler.
LEMMA BoundsStep ==
    ASSUME SharesTyped, PushTyped, ProgTyped, Flows, Picked, LeftBound, SentBound, [Next]_vars
    PROVE  Picked' /\ LeftBound' /\ SentBound'
<1> DEFINE Sound(q) == /\ Picks(q, roots'[q.s], gone')
                       /\ Leaves(q, roots'[q.s], gone' \cup Bare', gone' # {})
                       /\ Sends(q, roots'[q.s], gone' \cup Bare', Archived')
<1>1. ASSUME NEW g \in Pushes PROVE Sound(push[g])
  <2>1. /\ Picks(push[g], Mine(g), gone) /\ Leaves(push[g], Mine(g), gone \cup Bare, gone # {})
        /\ Sends(push[g], Mine(g), gone \cup Bare, Archived)
    BY DEF Picked, LeftBound, SentBound
  <2> QED
    BY <2>1, ArchivedGrows, BoundsKept
<1>2. ASSUME NEW h \in Pushes, Handles(h) PROVE Sound(push'[h])
  BY <1>2, BoundsByStep
<1> HIDE DEF Sound
<1>3. ASSUME NEW g \in Pushes PROVE Sound(push'[g])
  <2>1. ASSUME NEW h \in Pushes, Handles(h) PROVE Sound(push'[g])
    <3>1. g # h => push'[g] = push[g]
      BY <2>1, OthersKept
    <3> QED
      BY <1>1, <1>2, <2>1, <3>1
  <2>2. CASE Outside \/ UNCHANGED vars
    BY <1>1, <2>2, OutsideLeaves
  <2> QED
    BY <2>1, <2>2, NextSplits
<1> QED
  BY <1>3 DEF Sound, Picked, LeftBound, SentBound, Mine

(***************************************************************************)
(* What is packed and what is queued                                       *)
(***************************************************************************)
\* A listed name that was not taken away opens the file it was listed for.
LEMMA FindsFile ==
    ASSUME SharesTyped, NEW h \in Pushes, push[h].s \in DOMAIN roots, Source(h) # None,
           Picks(push[h], Mine(h), gone), Clear(push[h].items, gone),
           First(push[h].left) \in push[h].items
    PROVE  Source(h) = First(push[h].left).file
<1> DEFINE item == First(push[h].left)
<1>1. HasRoot(Mine(h), item.name, item.file)
  BY DEF Picks, Clear
<1>2. Located(roots[push[h].s], item.name) = item.file
  <2> HIDE DEF item
  <2> QED
    BY <1>1, LocatedOnce DEF Mine
<1> QED
  BY <1>2, Zenon DEF Source, Opened

\* What the handler that acts has packed and queued is what it no longer has left.
LEMMA ShippedByStep ==
    ASSUME SharesTyped, PushTyped, ProgTyped, Flows, Picked, Shipped, NEW h \in Pushes, Handles(h)
    PROVE  Ships(push'[h], gone)
<1> DEFINE p == push[h]
           q == push'[h]
           a == prog[h]
           b == prog'[h]
           i == First(p.left)
           rest == p.left \ {i}
           names == gone
<1> SUFFICES Ships(q, names)
  OBVIOUS
<1>1. p \in Handler /\ Flow(p) /\ Ships(p, names) /\ Moves(h, p, q, a, b)
  BY Moved DEF PushTyped, Flows, Shipped
<1>2. p.left # {} => i \in p.left
  BY FirstOfSome
<1>3. p.left \subseteq p.items /\ p.left # {} =>
        /\ SentOf(p.items \ rest) = SentOf(p.items \ p.left) \cup {[name |-> i.name, file |-> i.file]}
        /\ PackedOf(p.items \ rest)
              = PackedOf(p.items \ p.left) \cup {[name |-> i.name, file |-> i.file, whole |-> TRUE]}
  <2>1. p.left \subseteq p.items /\ p.left # {} => p.items \ rest = (p.items \ p.left) \cup {i}
    <3> HIDE DEF p, i
    <3> QED
      BY <1>2
  <2>2. \A items : /\ SentOf(items \cup {i}) = SentOf(items) \cup {[name |-> i.name, file |-> i.file]}
                   /\ PackedOf(items \cup {i})
                        = PackedOf(items) \cup {[name |-> i.name, file |-> i.file, whole |-> TRUE]}
    BY DEF SentOf, PackedOf
  <2> QED
    BY <2>1, <2>2, Zenon
<1>4. p.pc \in {"pack", "open"} /\ p.left # {} /\ p.left \subseteq p.items /\ Source(h) # None
      /\ Clear(p.items, names) => Source(h) = i.file
  <2>1. p.pc \in {"pack", "open"} => p.s \in DOMAIN roots
    BY <1>1 DEF Flow, PushTyped, SharesTyped
  <2>2. Picks(p, Mine(h), gone)
    BY DEF Picked
  <2> QED
    BY <1>2, <2>1, <2>2, FindsFile, Zenon
<1>5. \A items : SentOf(items \ items) = {} /\ PackedOf(items \ items) = {}
                /\ SentOf(items \ {}) = SentOf(items) /\ PackedOf(items \ {}) = PackedOf(items)
  BY DEF SentOf, PackedOf
<1> HIDE DEF p, q, a, b, i, rest, names
<1>6. CASE Refused(p, q, a, b)
  BY <1>1, <1>6 DEF Refused, Handler, Flow, Ships, Plainly, Packed, Hidden, PackedAll
<1>7. CASE Begun(p, q, a, b)
  <2>1. PICK kind \in {"plain", "archive"}, sel \in Seq(Path) :
           q = [p EXCEPT !.pc = "sender", !.kind = kind, !.sel = sel, !.todo = sel]
    BY <1>7, Zenon DEF Begun
  <2>2. q.pc = "sender" /\ q.status = "none"
    BY <1>1, <1>7, <2>1 DEF Begun, Handler, Flow
  <2> QED
    BY <2>2 DEF Ships, Plainly, Packed, Hidden, PackedAll
<1>8. CASE TestBegun(p, q, a, b)
  BY <1>1, <1>8 DEF TestBegun, Handler, Flow, Ships, Plainly, Packed, Hidden, PackedAll
<1>9. CASE Joined(p, q, a, b)
  BY <1>1, <1>9 DEF Joined, Handler, Flow, Ships, Plainly, Packed, Hidden, PackedAll
<1>10. CASE Matching(p, q, a, b)
  BY <1>1, <1>10 DEF Matching, Handler, Flow, Ships, Plainly, Packed, Hidden, PackedAll
<1>11. CASE Adding(p, q, a, b)
  BY <1>1, <1>11 DEF Adding, Handler, Flow, Ships, Plainly, Packed, Hidden, PackedAll
<1>12. CASE Passed(p, q, a, b)
  BY <1>1, <1>12 DEF Passed, Handler, Flow, Ships, Plainly, Packed, Hidden, PackedAll
<1>13. CASE Listing(h, p, q, a, b)
  <2> DEFINE items == ItemsOf(h)
  <2>1. /\ q.items = items /\ q.left = items /\ q.kind = p.kind /\ q.status = "none"
        /\ q.sent = {} /\ q.packed = {}
        /\ q.pc = IF p.kind = "archive" THEN "pack" ELSE "connect"
    BY <1>1, <1>13 DEF Listing, Handler, Flow
  <2>2. SentOf(items \ items) = {} /\ PackedOf(items \ items) = {}
    BY <1>5
  <2> HIDE DEF items
  <2> QED
    BY <2>1, <2>2 DEF Ships, Plainly, Packed, Hidden, PackedAll
<1>14. CASE Packing(h, p, q, a, b)
  <2>1. p.pc = "pack" /\ p.left # {} /\ Source(h) # None
    BY <1>14 DEF Packing
  <2>2. /\ q.pc = "copy" /\ q.left = p.left /\ q.items = p.items /\ q.packed = p.packed
        /\ q.kind = "archive" /\ p.kind = "archive" /\ q.status = "none" /\ q.src = Source(h)
    BY <1>1, <1>14 DEF Packing, Handler, Flow
  <2>3. p.left \subseteq p.items /\ (Clear(p.items, names) => p.packed = PackedOf(p.items \ p.left))
    BY <1>1, <2>1, <2>2 DEF Ships, Packed
  <2>4. Clear(p.items, names) => q.src = First(q.left).file
    BY <1>4, <2>1, <2>2, <2>3 DEF i
  <2> QED
    BY <2>2, <2>3, <2>4 DEF Ships, Plainly, Packed, Hidden, PackedAll
<1>15. CASE Copying(p, q, a, b)
  <2>1. p.pc = "copy" /\ p.left # {} /\ p.kind = "archive" /\ version[p.src] = p.ver
    BY <1>1, <1>15 DEF Copying, Flow
  <2>2. /\ q.pc = "pack" /\ q.left = rest /\ q.items = p.items /\ q.kind = "archive"
        /\ q.status = "none" /\ q.packed = p.packed \cup {Copied(p)}
    BY <1>1, <1>15 DEF Copying, Handler, Flow, rest, i
  <2>3. /\ p.left \subseteq p.items
        /\ Clear(p.items, names) => p.packed = PackedOf(p.items \ p.left) /\ p.src = i.file
    BY <1>1, <2>1 DEF Ships, Packed, i
  <2>4. Clear(p.items, names) => Copied(p) = [name |-> i.name, file |-> i.file, whole |-> TRUE]
    BY <2>1, <2>3 DEF Copied, i
  <2>5. rest \subseteq p.items
    BY <2>3 DEF rest
  <2> QED
    BY <1>3, <2>1, <2>2, <2>3, <2>4, <2>5 DEF Ships, Plainly, Packed, Hidden, PackedAll
<1>16. CASE Zipped(p, q, a, b)
  <2>1. p.pc = "pack" /\ p.left = {} /\ p.kind = "archive"
    BY <1>1, <1>16 DEF Zipped, Flow
  <2>2. /\ q.pc = "testlook" /\ q.items = p.items /\ q.kind = "archive" /\ q.status = "none"
        /\ q.packed = p.packed
    BY <1>1, <1>16 DEF Zipped, Handler, Flow
  <2>3. Clear(p.items, names) => p.packed = PackedOf(p.items)
    BY <1>1, <1>5, <2>1 DEF Ships, Packed
  <2> QED
    BY <2>2, <2>3 DEF Ships, Plainly, Packed, Hidden, PackedAll
<1>17. CASE Sharing(p, q, a, b)
  BY <1>1, <1>17 DEF Sharing, Handler, Flow, Ships, Plainly, Packed, Hidden, PackedAll
<1>18. CASE Hiding(h, p, q, a, b)
  <2>1. PICK item \in Items, pc \in {"testname", "connect"} :
           (pc = "testname" => p.kind = "test") /\ q = [p EXCEPT !.pc = pc, !.left = {item}]
    BY <1>18, Zenon DEF Hiding
  <2>2. p.pc \in {"testlook", "testadd", "testname"}
    BY <1>18 DEF Hiding
  <2>3. q.kind = p.kind /\ q.kind # "plain" /\ q.status = "none" /\ q.sent = {} /\ q.left = {item}
        /\ q.items = p.items /\ q.packed = p.packed /\ q.pc \in {"testname", "connect"}
    BY <1>1, <2>1, <2>2 DEF Handler, Flow
  <2>4. q.kind = "archive" => PackedAll(p)
    BY <1>1, <2>2, <2>3 DEF Flow, PackedAll
  <2> QED
    BY <1>1, <2>3, <2>4 DEF Ships, Plainly, Packed, Hidden
<1>19. CASE Connected(p, q, a, b)
  BY <1>1, <1>19 DEF Connected, Handler, Flow, Ships, Plainly, Packed, Hidden, PackedAll
<1>20. CASE Asking(h, p, q, a, b)
  <2>1. p.pc = "open" /\ p.left # {} /\ Source(h) # None
    BY <1>20 DEF Asking
  <2> DEFINE x == [name |-> i.name, file |-> Source(h)]
  <2>2. /\ q.pc = "open" /\ q.left = rest /\ q.items = p.items /\ q.packed = p.packed
        /\ q.kind = p.kind /\ q.status = "none" /\ p.status = "none" /\ q.sent = p.sent \cup {x}
    BY <1>1, <1>20 DEF Asking, Asked, Handler, Flow, rest, i
  <2>3. p.kind = "plain" => Plainly(q, names)
    <3>1. p.kind = "plain" =>
            p.left \subseteq p.items /\ (Clear(p.items, names) => p.sent = SentOf(p.items \ p.left))
      BY <1>1, <2>1 DEF Ships, Plainly
    <3>2. p.kind = "plain" /\ Clear(p.items, names) => x = [name |-> i.name, file |-> i.file]
      BY <1>4, <2>1, <3>1
    <3>3. rest \subseteq p.left
      BY DEF rest
    <3> HIDE DEF x
    <3> QED
      BY <1>3, <2>1, <2>2, <3>1, <3>2, <3>3 DEF Plainly
  <2> HIDE DEF x
  <2>4. p.kind = "archive" => q.left = {} /\ q.sent = {x}
    <3>1. p.kind = "archive" => p.sent = {} /\ \E j \in p.left : p.left = {j}
      BY <1>1, <2>1 DEF Ships, Hidden
    <3> QED
      BY <1>2, <2>1, <2>2, <3>1 DEF rest
  <2>5. Packed(q, names)
    BY <1>1, <2>1, <2>2 DEF Ships, Packed, PackedAll
  <2> QED
    BY <2>2, <2>3, <2>4, <2>5 DEF Ships, Plainly, Hidden
<1>21. CASE Answered(p, q, a, b)
  BY <1>1, <1>21 DEF Answered, Handler, Flow, Ships, Plainly, Packed, Hidden, PackedAll
<1>22. CASE Finished(p, q, a, b)
  BY <1>1, <1>22 DEF Finished, Handler, Flow, Ships, Plainly, Packed, Hidden, PackedAll
<1>23. CASE Failed(p, q, a, b)
  <2>1. q.pc = "respond" /\ q.status = "error"
    BY <1>1, <1>23 DEF Failed, Handler
  <2> QED
    BY <2>1 DEF Ships, Plainly, Packed, Hidden, PackedAll
<1> QED
  BY <1>1, <1>6, <1>7, <1>8, <1>9, <1>10, <1>11, <1>12, <1>13, <1>14, <1>15, <1>16, <1>17,
     <1>18, <1>19, <1>20, <1>21, <1>22, <1>23, Zenon DEF Moves

\* And what every handler has, for the names that are taken away only grow.
LEMMA ShippedStep ==
    ASSUME SharesTyped, PushTyped, ProgTyped, Flows, Picked, Shipped, [Next]_vars
    PROVE  Shipped'
<1>1. gone \subseteq gone'
  BY RootsKept
<1>2. ASSUME NEW p, Ships(p, gone) PROVE Ships(p, gone')
  <2>1. Clear(p.items, gone') => Clear(p.items, gone)
    BY <1>1 DEF Clear
  <2> QED
    BY <1>2, <2>1 DEF Ships, Plainly, Packed
<1>3. ASSUME NEW g \in Pushes PROVE Ships(push'[g], gone)
  <2>1. Ships(push[g], gone)
    BY DEF Shipped
  <2>2. ASSUME NEW h \in Pushes, Handles(h) PROVE Ships(push'[g], gone)
    <3>1. g # h => push'[g] = push[g]
      BY <2>2, OthersKept
    <3>2. Ships(push'[h], gone)
      BY <2>2, ShippedByStep
    <3> QED
      BY <2>1, <3>1, <3>2
  <2>3. CASE Outside \/ UNCHANGED vars
    BY <2>1, <2>3, OutsideLeaves
  <2> QED
    BY <2>2, <2>3, NextSplits
<1> QED
  BY <1>2, <1>3 DEF Shipped

\* What is sent or packed of some items has their files.
LEMMA FilesOfItems ==
    ASSUME NEW items
    PROVE  /\ {x.file : x \in SentOf(items)} = {i.file : i \in items}
           /\ {x.file : x \in PackedOf(items)} = {i.file : i \in items}
<1>1. \A i \in items : \E x \in SentOf(items) : x.file = i.file
  <2> SUFFICES ASSUME NEW i \in items PROVE \E x \in SentOf(items) : x.file = i.file
    OBVIOUS
  <2>1. [name |-> i.name, file |-> i.file] \in SentOf(items)
    BY DEF SentOf
  <2> QED
    BY <2>1
<1>2. \A x \in SentOf(items) : \E i \in items : x.file = i.file
  BY DEF SentOf
<1>3. \A i \in items : \E x \in PackedOf(items) : x.file = i.file
  <2> SUFFICES ASSUME NEW i \in items PROVE \E x \in PackedOf(items) : x.file = i.file
    OBVIOUS
  <2>1. [name |-> i.name, file |-> i.file, whole |-> TRUE] \in PackedOf(items)
    BY DEF PackedOf
  <2> QED
    BY <2>1
<1>4. \A x \in PackedOf(items) : \E i \in items : x.file = i.file
  BY DEF PackedOf
<1> QED
  BY <1>1, <1>2, <1>3, <1>4

\* Items of different files make as many records as there are files.
LEMMA ExactlyThose ==
    ASSUME NEW set, NEW files, IsFiniteSet(files), {x.file : x \in set} = files,
           \A x, y \in set : x.file = y.file => x = y
    PROVE  IsFiniteSet(set) /\ Exactly(set, files)
<1> DEFINE of == [f \in files |-> CHOOSE x \in set : x.file = f]
<1>1. \A f \in files : of[f] \in set /\ of[f].file = f
  <2> SUFFICES ASSUME NEW f \in files PROVE of[f] \in set /\ of[f].file = f
    OBVIOUS
  <2>1. \E x \in set : x.file = f
    OBVIOUS
  <2> QED
    BY <2>1
<1>2. of \in [files -> set]
  BY <1>1
<1>3. \A x \in set : x.file \in files /\ of[x.file] = x
  BY <1>1
<1> HIDE DEF of
<1>4. of \in Bijection(files, set)
  <2>1. of \in Injection(files, set)
    BY <1>1, <1>2 DEF Injection, IsInjective
  <2>2. of \in Surjection(files, set)
    BY <1>2, <1>3 DEF Surjection
  <2> QED
    BY <2>1, <2>2 DEF Bijection
<1>5. IsFiniteSet(set) /\ Cardinality(set) = Cardinality(files)
  BY <1>4, FS_Bijection, Zenon DEF ExistsBijection
<1> QED
  BY <1>5 DEF Exactly

(***************************************************************************)
(* One sender, while none is replaced                                      *)
(***************************************************************************)
\* A push that goes on to open has an uploader.
LEMMA ConnectedOnly ==
    ASSUME SharesTyped, PushTyped, Flows, NEW h \in Pushes, Handles(h),
           push[h].pc = "connect", push'[h].pc = "open"
    PROVE  uploader' # 0
<1>1. Connect(h)
  BY Zenon DEF Handles, Step, StartTest, StartPush, TakeSender, Look, Add, Match, PackOpen,
     PackCopy, PackEnd, TestLook, TestAdd, TestNamed, Open, Queued, Respond
<1>2. ~ Fail(h)
  BY DEF Fail, PushTyped, Handler
<1>3. push[h].s # 0
  BY DEF Flows, Flow
<1> QED
  BY <1>1, <1>2, <1>3 DEF Connect

\* While no sender is replaced, every handler and the uploader have the one there is.
LEMMA OneSenderStep ==
    ASSUME Races = {}, SharesTyped, PushTyped, ProgTyped, Flows, OneSender, [Next]_vars
    PROVE  OneSender'
<1>1. ASSUME NEW h \in Pushes, Handles(h) PROVE OneSender'
  <2> DEFINE p == push[h]
             q == push'[h]
  <2>1. /\ q.s = p.s \/ (p.pc = "sender" /\ q.s = sender' /\ sender' # 0)
        /\ Asks(q) => Asks(p) \/ Connected(p, q, prog[h], prog'[h])
    <3>1. p \in Handler /\ Flow(p) /\ Moves(h, p, q, prog[h], prog'[h])
      BY <1>1, Moved DEF PushTyped, Flows
    <3> QED
      BY <3>1, MoveKeeps
  <2>2. Connected(p, q, prog[h], prog'[h]) => uploader' # 0
    <3>1. p \in Handler
      BY DEF PushTyped
    <3>2. Connected(p, q, prog[h], prog'[h]) => p.pc = "connect" /\ q.pc = "open"
      BY <3>1 DEF Connected, Handler
    <3> QED
      BY <1>1, <3>2, ConnectedOnly
  <2>3. \A g \in Pushes \ {h} : push'[g] = push[g]
    BY <1>1, OthersKept
  <2>4. sender' = sender \/ sender = 0
    BY <1>1, RootsMove, Zenon DEF shares
  <2>5. uploader' = uploader \/ (uploader' = p.s /\ uploader = 0)
    BY <1>1, UploaderMoves
  <2> HIDE DEF p, q
  <2>6. \A g \in Pushes : push[g].s \in {0, sender} /\ p.s \in {0, sender}
    BY DEF OneSender, p
  <2>7. \A g \in Pushes : push'[g].s \in {0, sender'}
    BY <2>1, <2>3, <2>4, <2>6 DEF p, q
  <2>8. uploader' \in {0, sender'}
    BY <2>4, <2>5, <2>6 DEF OneSender
  <2>9. ASSUME NEW g \in Pushes, push[g].s # 0 PROVE push'[g].s # 0
    BY <2>1, <2>3, <2>9 DEF p, q
  <2>10. uploader' # 0 => \E g \in Pushes : push'[g].s # 0
    BY <2>5, <2>9 DEF OneSender, p
  <2>11. ASSUME NEW g \in Pushes, Asks(push'[g]) PROVE uploader' # 0
    <3>1. Asks(push[g]) => uploader # 0
      BY DEF OneSender
    <3>2. CASE g = h
      BY <2>1, <2>2, <2>5, <2>11, <3>1, <3>2 DEF p, q
    <3>3. CASE g # h
      BY <2>3, <2>5, <2>11, <3>1, <3>3
    <3> QED
      BY <3>2, <3>3
  <2> QED
    BY <2>7, <2>8, <2>10, <2>11 DEF OneSender
<1>2. ASSUME NEW path \in Folders, StartServe(path) PROVE OneSender'
  <2>1. push' = push /\ uploader' = uploader
    BY <1>2 DEF StartServe, OthersOnly
  <2>2. \A h \in Pushes : push[h].s = 0
    BY <1>2 DEF StartServe
  <2>3. uploader = 0
    BY <2>2 DEF OneSender
  <2> QED
    BY <2>1, <2>2, <2>3 DEF OneSender
<1>3. ASSUME UNCHANGED <<push, uploader, sender>> PROVE OneSender'
  BY <1>3 DEF OneSender
<1>4. ASSUME Outside \/ UNCHANGED vars
      PROVE  UNCHANGED <<push, uploader, sender>> \/ \E path \in Folders : StartServe(path)
  <2>1. push' = push /\ uploader' = uploader
    BY <1>4, OutsideLeaves
  <2>2. sender' = sender \/ \E path \in Folders : StartServe(path)
    BY <1>4, Zenon DEF Outside, AddFolder, RemoveFolder, Change, vars, shares
  <2> QED
    BY <2>1, <2>2
<1> QED
  BY <1>1, <1>2, <1>3, <1>4, NextSplits, Zenon

(***************************************************************************)
(* The theorems                                                            *)
(***************************************************************************)
Inv ==
    /\ SharesTyped /\ PushTyped /\ ProgTyped /\ Flows
    /\ Prepared /\ Counted
    /\ Picked /\ LeftBound /\ SentBound /\ Shipped

\* The invariant holds at the start
LEMMA InvInit == Init => Inv
<1> SUFFICES ASSUME Init PROVE Inv
  OBVIOUS
<1>1. roots = <<>> /\ sender = 0 /\ uploader = 0 /\ preparing = None /\ events = 0 /\ gone = {}
  BY DEF Init
<1>2. SharesTyped
  <2>1. roots \in Seq(SUBSET Root) /\ Len(roots) = 0 /\ DOMAIN roots = {}
    BY <1>1
  <2> QED
    BY <1>1, <2>1 DEF SharesTyped
<1> DEFINE idle == [pc |-> "idle", kind |-> "plain", sel |-> <<>>, s |-> 0, todo |-> <<>>,
                    items |-> {}, left |-> {}, src |-> None, ver |-> 0, packed |-> {},
                    zip |-> FALSE, sent |-> {}, status |-> "none"]
<1>3. push = [h \in Pushes |-> idle]
  BY DEF Init
<1>4. <<>> \in Seq(Path)
  <2> HIDE DEF Path
  <2> QED
    OBVIOUS
<1>5. idle \in Handler
  BY <1>4 DEF Handler, Pc, Kind
<1>6. idle.pc = "idle" /\ idle.status = "none" /\ idle.s = 0 /\ idle.items = {} /\ idle.left = {}
      /\ idle.packed = {} /\ idle.sent = {} /\ idle.kind = "plain"
  OBVIOUS
<1> HIDE DEF idle
<1>7. push \in [Pushes -> Handler] /\ \A h \in Pushes : push[h] = idle
  <2> HIDE DEF Handler
  <2> QED
    BY <1>3, <1>5
<1>8. PushTyped
  <2>1. version \in [Readable -> Nat]
    BY DEF Init
  <2>2. Len(roots) = 0
    BY <1>1
  <2>3. \A h \in Pushes : push[h].s \in 0 .. Len(roots) /\ IsFiniteSet(push[h].left)
    <3>1. \A h \in Pushes : push[h].s = 0 /\ push[h].left = {}
      BY <1>6, <1>7
    <3>2. 0 \in 0 .. Len(roots) /\ IsFiniteSet({})
      BY <2>2, FS_EmptySet
    <3> QED
      BY <3>1, <3>2
  <2> QED
    BY <1>1, <1>7, <2>1, <2>3 DEF PushTyped
<1>9. \A h \in Pushes : prog[h] = NoProgress
  BY DEF Init
<1>10. NoProgress \in Progress /\ NoProgress.stage = "idle"
  BY DEF NoProgress, Fresh, Progress, Stage
<1>11. ProgTyped
  <2> HIDE DEF Progress, NoProgress
  <2> QED
    BY <1>10 DEF Init, ProgTyped
<1>12. Flows /\ Prepared
  BY <1>6, <1>7 DEF Flows, Flow, Prepared, Prepares
<1>13. Counted
  BY <1>6, <1>7 DEF Counted, Counts
<1>14. Picked /\ LeftBound /\ SentBound
  BY <1>6, <1>7 DEF Picked, Picks, Matched, LeftBound, Leaves, SentBound, Sends
<1>15. Shipped
  BY <1>6, <1>7 DEF Shipped, Ships, Plainly, Packed, Hidden
<1> QED
  BY <1>2, <1>8, <1>11, <1>12, <1>13, <1>14, <1>15 DEF Inv

\* and is preserved by every step.
LEMMA InvStep == Inv /\ [Next]_vars => Inv'
<1> SUFFICES ASSUME Inv, [Next]_vars PROVE Inv'
  OBVIOUS
<1> USE DEF Inv
<1>1. SharesTyped'
  BY SharesTypedStep
<1>2. PushTyped' /\ Flows'
  BY PushTypedStep
<1>3. ProgTyped' /\ Counted'
  BY CountedStep
<1>4. Prepared'
  BY PreparedStep
<1>5. Picked' /\ LeftBound' /\ SentBound'
  BY BoundsStep
<1>6. Shipped'
  BY ShippedStep
<1> QED
  BY <1>1, <1>2, <1>3, <1>4, <1>5, <1>6

\* The variables keep their types: every handler is at a step of its own, serves from
\* a sender there is and reads and queues files that may be read
\* (transfer.go:640-760, preparation.go:13-40).
THEOREM TypesCorrect == Spec => []TypeOK
<1>1. Inv => TypeOK
  <2> SUFFICES ASSUME Inv PROVE TypeOK
    OBVIOUS
  <2>1. \A h \in Pushes : push[h] \in Handler /\ prog[h] \in Progress
    BY DEF Inv, PushTyped, ProgTyped
  <2>2. \A h \in Pushes :
          /\ prog[h].stage \in Stage /\ prog[h].active \in BOOLEAN
          /\ {prog[h].total, prog[h].finished, prog[h].totalBytes, prog[h].doneBytes} \subseteq Nat
    BY <2>1 DEF Progress
  <2>3. \A h \in Pushes :
          /\ push[h].pc \in Pc /\ push[h].kind \in Kind /\ push[h].src \in Readable \cup {None}
          /\ push[h].zip \in BOOLEAN /\ push[h].status \in {"none", "ok", "error", "busy"}
          /\ \A x \in push[h].sent : x.file \in Readable
    BY <2>1 DEF Handler
  <2>4. \A h \in Pushes : push[h].s \in 0 .. Len(roots)
    BY DEF Inv, PushTyped
  <2> QED
    BY <2>2, <2>3, <2>4, Zenon DEF Inv, SharesTyped, PushTyped, TypeOK
<1> QED
  BY <1>1, InvInit, InvStep, PTL DEF Spec

\* However many pushes are started, one prepares at a time, it is the one the page
\* shows, as active until its handler has returned, and the numbers of an archive
\* that is ready add up to all its files and bytes, also when files grew between
\* listing and packing (preparation.go:66-77, selections.go:156-160,
\* transfer.go:734, 740-757, 1195-1201).
THEOREM OnePreparationShown == Spec => []PreparationShown
<1>1. Inv => PreparationShown
  <2> SUFFICES ASSUME Inv, NEW h \in Pushes
               PROVE  /\ Prepares(h) => preparing = h /\ prog[h].active
                      /\ push[h].kind = "archive" /\ prog[h].stage = "ready" => AddsUp(prog[h])
    BY DEF PreparationShown
  <2>1. Prepares(h) => preparing = h /\ prog[h].active
    BY DEF Inv, Prepared
  <2>2. push[h].kind = "archive" /\ prog[h].stage = "ready" => AddsUp(prog[h])
    BY DEF Inv, Counted, Counts, PackedAll
  <2> QED
    BY <2>1, <2>2
<1> QED
  BY <1>1, InvInit, InvStep, PTL DEF Spec

\* A push that was answered ok has queued every selected file once, or one archive
\* with every selected file, each as it was at one moment, whatever was shared or
\* written meanwhile, unless the user took one of the names away (selections.go:
\* 122-162, transfer.go:710-757, upload_client.go:92-127).
THEOREM SelectionIsSent == Spec => []SendsSelection
<1>1. Inv => SendsSelection
  <2> SUFFICES ASSUME Inv, NEW h \in Pushes, push[h].status = "ok", ~ Renamed(push[h].items)
               PROVE  /\ push[h].kind = "plain" => Exactly(push[h].sent, Selected(h))
                      /\ push[h].kind = "archive" =>
                            /\ Exactly(push[h].packed, Selected(h))
                            /\ \A x \in push[h].packed : x.whole
                            /\ Cardinality(push[h].sent) = 1
    BY DEF SendsSelection
  <2> DEFINE p == push[h]
             items == p.items
  <2>1. Clear(items, gone) /\ Ships(p, gone) /\ Picks(p, Mine(h), gone)
    BY DEF Renamed, Clear, Inv, Shipped, Picked
  <2>2. p.kind # "test" =>
          /\ {i.file : i \in items} = Selected(h)
          /\ \A i, j \in items : i.file = j.file => i = j
    BY <2>1 DEF Picks, Matched, Selected, SelectedBy
  <2>3. IsFiniteSet(Selected(h))
    BY FS_Subset, PathsAssumption DEF Selected
  <2> HIDE DEF items
  <2>4. CASE p.kind = "plain"
    <3>1. p.sent = SentOf(items)
      <4>1. p.left = {} /\ p.sent = SentOf(items \ p.left) /\ items \ {} = items
        BY <2>1, <2>4 DEF Ships, Plainly, items
      <4> QED
        BY <4>1
    <3>2. {x.file : x \in SentOf(items)} = Selected(h)
      BY <2>2, <2>4, FilesOfItems, Zenon
    <3>3. \A x, y \in SentOf(items) : x.file = y.file => x = y
      <4> SUFFICES ASSUME NEW x \in SentOf(items), NEW y \in SentOf(items), x.file = y.file
                   PROVE  x = y
        OBVIOUS
      <4>1. PICK i \in items : x = [name |-> i.name, file |-> i.file]
        BY DEF SentOf
      <4>2. PICK j \in items : y = [name |-> j.name, file |-> j.file]
        BY DEF SentOf
      <4>3. i = j
        BY <2>2, <2>4, <4>1, <4>2
      <4> QED
        BY <4>1, <4>2, <4>3
    <3> QED
      BY <2>3, <2>4, <3>1, <3>2, <3>3, ExactlyThose
  <2>5. CASE p.kind = "archive"
    <3>1. p.packed = PackedOf(items)
      BY <2>1, <2>5 DEF Ships, Packed, PackedAll, items
    <3>2. {x.file : x \in PackedOf(items)} = Selected(h)
      BY <2>2, <2>5, FilesOfItems, Zenon
    <3>3. \A x, y \in PackedOf(items) : x.file = y.file => x = y
      <4> SUFFICES ASSUME NEW x \in PackedOf(items), NEW y \in PackedOf(items), x.file = y.file
                   PROVE  x = y
        OBVIOUS
      <4>1. PICK i \in items : x = [name |-> i.name, file |-> i.file, whole |-> TRUE]
        BY DEF PackedOf
      <4>2. PICK j \in items : y = [name |-> j.name, file |-> j.file, whole |-> TRUE]
        BY DEF PackedOf
      <4>3. i = j
        BY <2>2, <2>5, <4>1, <4>2
      <4> QED
        BY <4>1, <4>2, <4>3
    <3>4. Exactly(p.packed, Selected(h))
      BY <2>3, <3>1, <3>2, <3>3, ExactlyThose
    <3>5. \A x \in p.packed : x.whole
      BY <3>1 DEF PackedOf
    <3>6. Cardinality(p.sent) = 1
      <4>1. \E x \in p.sent : p.sent = {x}
        BY <2>1, <2>5 DEF Ships, Hidden
      <4> QED
        BY <4>1, FS_Singleton
    <3> QED
      BY <2>5, <3>4, <3>5, <3>6
  <2> QED
    BY <2>4, <2>5
<1> QED
  BY <1>1, InvInit, InvStep, PTL DEF Spec

\* What is queued means, to the uploader that reads it, the file that was queued,
\* whatever is shared since then, unless the user took its name away or a test found
\* its folder taken away; provided that no sender is replaced while a push holds one:
\* with that overlap it fails (upload_client.go:288, 375, 409, transfer.go:1319-1325).
THEOREM QueuedIsServed ==
    ASSUME Races = {}
    PROVE  Spec => []ServesQueued
<1>1. Init => Inv /\ OneSender
  <2> SUFFICES ASSUME Init PROVE OneSender
    BY InvInit
  <2>1. sender = 0 /\ uploader = 0 /\ \A h \in Pushes : push[h].s = 0 /\ ~ Asks(push[h])
    BY DEF Init, Asks
  <2> QED
    BY <2>1 DEF OneSender
<1>2. (Inv /\ OneSender) /\ [Next]_vars => (Inv /\ OneSender)'
  <2> SUFFICES ASSUME Inv, OneSender, [Next]_vars PROVE Inv' /\ OneSender'
    OBVIOUS
  <2>1. Inv'
    BY InvStep
  <2>2. OneSender'
    BY OneSenderStep DEF Inv
  <2> QED
    BY <2>1, <2>2
<1>3. Inv /\ OneSender => ServesQueued
  <2> SUFFICES ASSUME Inv, OneSender, NEW h \in Pushes, NEW x \in push[h].sent,
                      x.name.root \notin gone \cup Bare
               PROVE  Opened(uploader, x.name) = x.file
    BY DEF ServesQueued
  <2>1. x.file \in Files \cup {TestFile} \cup Archived /\ HasRoot(Mine(h), x.name, x.file)
    BY DEF Inv, SentBound, Sends
  <2>2. push[h].s # 0
    BY DEF Inv, Flows, Flow
  <2>3. uploader # 0
    BY DEF OneSender, Asks
  <2>4. uploader = push[h].s /\ uploader \in DOMAIN roots
    BY <2>2, <2>3 DEF OneSender, Inv, SharesTyped
  <2>5. Located(roots[uploader], x.name) = x.file
    BY <2>1, <2>4, LocatedOnce DEF Inv, Mine
  <2> QED
    BY <2>1, <2>5, Zenon DEF Opened, Archived
<1> QED
  BY <1>1, <1>2, <1>3, PTL DEF Spec
=============================================================================
