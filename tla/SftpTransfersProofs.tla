------------------------ MODULE SftpTransfersProofs -------------------------
(***************************************************************************)
(* Proofs about the transfer loop of the SFTP worker, for any finite sets  *)
(* of roots, files and uploads and any limits.                             *)
(*                                                                         *)
(* The loop composes small operators on the worker's record, so the        *)
(* inductive invariant is a predicate Sound(w) of a record, and most       *)
(* lemmas say that an operator maps sound records to sound ones.           *)
(***************************************************************************)
EXTENDS SftpTransfers, FiniteSetTheorems, SequenceTheorems, TLAPS

Places == {"none", "queue", "opening", "active", "stopping", "posted", "reaped",
           "dropped", "conflict"}
Results == Outcomes \cup {"Conflict"}
Policies == {Nil, "Skip", "Overwrite"}

DirRec == [is : BOOLEAN, kids : SUBSET Kids, done : BOOLEAN, cancelled : BOOLEAN, failed : Nat]
ScanRec == [root : Roots \cup {Nil}, left : Seq(Downloads), told : BOOLEAN,
            st : {"none", "run", "done"}]

WorkerRec ==
  [open : BOOLEAN,
   roots : Seq(Roots),
   pending : [Roots -> {Nil, "on", "cancelled"}],
   scan : ScanRec,
   found : Seq(Messages), deferred : Messages \cup {Nil},
   dirs : [Roots -> DirRec],
   parent : [Downloads -> Roots \cup {Nil}],
   queue : Seq(Downloads), uploads : Seq(Uploads),
   place : [Ids -> Places],
   result : [Ids -> Results \cup {Nil}],
   slots : SUBSET Uploads, policy : Policies,
   choice : [Uploads -> Policies],
   ends : [Ids -> Outcomes \cup {"Partial", Nil}], again : SUBSET Ids,
   skipped : BOOLEAN]

-----------------------------------------------------------------------------
(* The inductive invariant.                                                *)

Live(w, i) == w.place[i] \notin {"none", "dropped"}
Untouched(w, k) == w.ends[k] = Nil /\ w.place[k] = "none"

\* The messages of the discovery that are still to be handled.
Pending(w) == Range(w.found) \cup (IF w.deferred = Nil THEN {} ELSE {w.deferred})

\* Only directories have aggregates. One that has is not reported, and its discovery is
\* over only when it says so.
Aggregates(w) ==
  /\ \A f \in FileRoots : w.dirs[f] = NoDir
  /\ \A r \in DirRoots :
       /\ w.dirs[r] # NoDir => w.dirs[r].is /\ w.ends[r] = Nil
       /\ w.pending[r] # Nil => w.dirs[r].is /\ ~w.dirs[r].done
       /\ w.pending[r] = "cancelled" => w.dirs[r].cancelled

\* A root that waits for its discovery has not been discovered.
RootsWait(w) ==
  /\ IsInjective(w.roots)
  /\ \A r \in Range(w.roots) :
       /\ w.pending[r] = Nil
       /\ r \in DirRoots => w.dirs[r].is /\ ~w.dirs[r].done /\ w.dirs[r].kids = {}

\* The discovery's messages belong to roots that wait for them, and Finished is the last.
StreamOrdered(w) ==
  /\ \A m \in Pending(w) :
       w.pending[m.root] # Nil /\ (m.file # Nil => m.file \in Range(FilesOf(m.root)))
  /\ w.scan.st = "run" =>
       /\ w.scan.root \in Roots /\ w.pending[w.scan.root] # Nil
       /\ \A m \in Pending(w) : m.file = Nil => m.root # w.scan.root
       /\ Range(w.scan.left) \subseteq Range(FilesOf(w.scan.root))
  /\ w.deferred # Nil /\ w.deferred.file = Nil
       => \A m \in Range(w.found) : m.root # w.deferred.root
  /\ \A i, j \in DOMAIN w.found :
       i < j /\ w.found[i].file = Nil => w.found[j].root # w.found[i].root

\* A file is found once: until its message is handled nothing has happened to it.
FilesAreNew(w) ==
  /\ \A m \in Pending(w) : m.file \in Kids => Untouched(w, m.file)
  /\ w.scan.st = "run" =>
       /\ \A k \in Range(w.scan.left) \cap Kids :
            Untouched(w, k) /\ \A m \in Pending(w) : m.file # k
       /\ IsInjective(w.scan.left)
  /\ w.deferred # Nil /\ w.deferred.file \in Kids
       => \A m \in Range(w.found) : m.file # w.deferred.file
  /\ \A i, j \in DOMAIN w.found :
       i # j /\ w.found[i].file \in Kids => w.found[j].file # w.found[i].file
  /\ \A r \in DirRoots :
       (w.ends[r] = Nil /\ w.dirs[r] = NoDir) \/ r \in Range(w.roots)
         => \A k \in Range(Contents[r]) : Untouched(w, k)

\* A file is in its directory's aggregate exactly while it is under way.
Family(w) ==
  /\ \A f \in FileRoots : w.parent[f] = Nil
  /\ \A k \in Kids :
       /\ w.parent[k] # Nil <=> Live(w, k)
       /\ \A r \in Roots : w.parent[k] = r <=> k \in w.dirs[r].kids
       /\ \A r \in DirRoots : w.parent[k] = r => k \in Range(Contents[r])

\* What is under way is not reported; the queues hold what is queued, once; only an
\* upload is skipped or waits for an answer.
InOrder(w) ==
  /\ \A i \in Kids \cup Uploads : Live(w, i) => w.ends[i] = Nil
  /\ \A n \in DOMAIN w.queue : w.queue[n] \in Kids => w.place[w.queue[n]] = "queue"
  /\ \A n, p \in DOMAIN w.queue : w.queue[n] \in Kids /\ w.queue[n] = w.queue[p] => n = p
  /\ \A n \in DOMAIN w.uploads : w.place[w.uploads[n]] = "queue"
  /\ IsInjective(w.uploads)
  /\ \A i \in Ids :
       /\ w.place[i] = "conflict" => i \in Uploads
       /\ w.place[i] \in {"posted", "reaped"} => w.result[i] # Nil
       /\ w.result[i] \in {"Conflict", "Skipped"} => i \in Uploads
       /\ i \in DirRoots => w.place[i] = "none"

\* Files of r that are still to come.
Comes(w, r, k) ==
  \/ \E m \in Pending(w) : m.file = k
  \/ w.scan.st = "run" /\ w.scan.root = r /\ k \in Range(w.scan.left)

\* Something is missing from directory r, or will be.
Lacks(w, r) ==
  \/ w.dirs[r].cancelled \/ w.dirs[r].failed > 0
  \/ \E m \in Pending(w) : m.root = r /\ m.file = Nil /\ ~m.ok

\* Of a directory that lacks nothing every file has arrived, is under way or comes; one
\* reported as complete has them all.
NothingSkipped(w) ==
  \A r \in DirRoots :
    /\ w.dirs[r].is /\ ~Lacks(w, r) /\ r \notin Range(w.roots)
         => \A k \in Range(Contents[r]) :
              w.ends[k] = "Completed" \/ k \in w.dirs[r].kids \/ Comes(w, r, k)
    /\ w.ends[r] = "Completed" => \A k \in Range(Contents[r]) : w.ends[k] = "Completed"

DirPart(w) ==
  /\ Aggregates(w) /\ RootsWait(w) /\ StreamOrdered(w) /\ FilesAreNew(w)
  /\ Family(w) /\ NothingSkipped(w)

Sound(w) ==
  /\ w \in WorkerRec
  /\ w.again \subseteq FileRoots
  /\ DirPart(w) /\ InOrder(w)
  /\ Busy(w) <= PerTab

\* What is left of a worker whose loop has ended.
Over(w) ==
  /\ w \in WorkerRec
  /\ w.again \subseteq FileRoots
  /\ w = Drained(w)
  /\ \A r \in DirRoots :
       w.ends[r] = "Completed" => \A k \in Range(Contents[r]) : w.ends[k] = "Completed"

TransferInv ==
  /\ wanted \subseteq Roots \cup Uploads
  /\ elsewhere \in 0..GlobalUploads
  /\ Sound(x) \/ Over(x)

-----------------------------------------------------------------------------
(* Sequences.                                                              *)

\* retain leaves the ids outside S, each as often as before.
LEMMA UnqueueFacts ==
    ASSUME NEW D, NEW q \in Seq(D), NEW S
    PROVE  /\ Unqueue(q, S) \in Seq(D)
           /\ Range(Unqueue(q, S)) = Range(q) \ S
           /\ \A i, j \in DOMAIN Unqueue(q, S) : \E n, p \in DOMAIN q :
                /\ Unqueue(q, S)[i] = q[n] /\ Unqueue(q, S)[j] = q[p]
                /\ n = p => i = j
<1> DEFINE kept == {n \in DOMAIN q : q[n] \notin S}
           Below(n) == {m \in kept : m <= n}
           Nth(j) == CHOOSE n \in kept : Cardinality(Below(n)) = j
           c == Cardinality(kept)
<1>1. DOMAIN q = 1..Len(q) /\ Len(q) \in Nat /\ IsFiniteSet(DOMAIN q)
  BY FS_Interval
<1>2. kept \in SUBSET (DOMAIN q)
  OBVIOUS
<1>3. IsFiniteSet(kept) /\ c \in Nat
  BY <1>1, <1>2, FS_Subset, FS_CardinalityType
<1>4. \A n \in kept : IsFiniteSet(Below(n)) /\ Cardinality(Below(n)) \in 1..c
  <2> SUFFICES ASSUME NEW n \in kept
               PROVE  IsFiniteSet(Below(n)) /\ Cardinality(Below(n)) \in 1..c
    OBVIOUS
  <2>1. Below(n) \in SUBSET kept
    OBVIOUS
  <2>2. IsFiniteSet(Below(n)) /\ Cardinality(Below(n)) <= c /\ Cardinality(Below(n)) \in Nat
    BY <1>3, <2>1, FS_Subset, FS_CardinalityType
  <2>3. n \in Below(n)
    BY <1>1
  <2>4. Cardinality(Below(n)) # 0
    BY <2>2, <2>3, FS_EmptySet
  <2> QED BY <1>3, <2>2, <2>4
<1>5. \A n, p \in kept : Cardinality(Below(n)) = Cardinality(Below(p)) => n = p
  <2> SUFFICES ASSUME NEW n \in kept, NEW p \in kept, n < p
               PROVE  Cardinality(Below(n)) # Cardinality(Below(p))
    BY <1>1
  <2>1. Below(n) \in SUBSET Below(p) /\ p \in Below(p) /\ p \notin Below(n)
    BY <1>1
  <2> QED BY <1>4, <2>1, FS_Subset
<1> DEFINE f == [n \in kept |-> Cardinality(Below(n))]
<1>6. f \in Injection(kept, 1..c)
  BY <1>4, <1>5 DEF Injection, IsInjective
<1>7. IsFiniteSet(1..c) /\ Cardinality(1..c) = c
  BY <1>3, FS_Interval
<1>8. f \in Surjection(kept, 1..c)
  BY <1>3, <1>6, <1>7, FS_Injection
<1>9. \A j \in 1..c : Nth(j) \in kept /\ Cardinality(Below(Nth(j))) = j
  <2> SUFFICES ASSUME NEW j \in 1..c
               PROVE  \E n \in kept : Cardinality(Below(n)) = j
    OBVIOUS
  <2> QED BY <1>8 DEF Surjection
<1>10. \A n \in kept : f[n] \in 1..c /\ Nth(f[n]) = n
  <2> SUFFICES ASSUME NEW n \in kept PROVE f[n] \in 1..c /\ Nth(f[n]) = n
    OBVIOUS
  <2>1. f[n] \in 1..c /\ f[n] = Cardinality(Below(n))
    BY <1>4
  <2> QED BY <1>5, <1>9, <2>1
<1>11. Unqueue(q, S) = [j \in 1..c |-> q[Nth(j)]]
  BY DEF Unqueue
<1> HIDE DEF kept, Below, Nth, c, f
<1>12. \A j \in 1..c : Nth(j) \in DOMAIN q /\ q[Nth(j)] \in D /\ q[Nth(j)] \notin S
  BY <1>1, <1>9 DEF kept
<1>13. Unqueue(q, S) \in Seq(D)
  BY <1>3, <1>11, <1>12, IsASeq
<1>14. Range(Unqueue(q, S)) = Range(q) \ S
  <2>1. ASSUME NEW v \in Range(q) \ S PROVE v \in Range(Unqueue(q, S))
    <3>1. PICK n \in DOMAIN q : v = q[n]
      BY <2>1 DEF Range
    <3>2. n \in kept
      BY <2>1, <3>1 DEF kept
    <3> QED BY <1>10, <1>11, <3>1, <3>2 DEF Range
  <2>2. ASSUME NEW v \in Range(Unqueue(q, S)) PROVE v \in Range(q) \ S
    BY <1>11, <1>12 DEF Range
  <2> QED BY <2>1, <2>2
<1>15. ASSUME NEW i \in 1..c, NEW j \in 1..c
       PROVE  \E n, p \in DOMAIN q : /\ Unqueue(q, S)[i] = q[n] /\ Unqueue(q, S)[j] = q[p]
                                     /\ n = p => i = j
  <2>1. Unqueue(q, S)[i] = q[Nth(i)] /\ Unqueue(q, S)[j] = q[Nth(j)]
    BY <1>11
  <2>2. Nth(i) = Nth(j) => i = j
    BY <1>9
  <2> QED BY <1>12, <2>1, <2>2
<1> QED BY <1>11, <1>13, <1>14, <1>15

\* A finite set as a sequence holds each of its elements once.
LEMMA SetToSeqFacts ==
    ASSUME NEW S, IsFiniteSet(S)
    PROVE  SetToSeq(S) \in Seq(S) /\ IsInjective(SetToSeq(S)) /\ Range(SetToSeq(S)) = S
<1>1. Cardinality(S) \in Nat /\ ExistsBijection(1..Cardinality(S), S)
  BY FS_CardinalityType
<1>2. IsFiniteSet(1..Cardinality(S)) /\ Cardinality(1..Cardinality(S)) = Cardinality(S)
  BY <1>1, FS_Interval
<1>3. \E f \in [1..Cardinality(S) -> S] : IsInjective(f)
  BY <1>1 DEF ExistsBijection, Bijection, Injection
<1>4. SetToSeq(S) \in [1..Cardinality(S) -> S] /\ IsInjective(SetToSeq(S))
  BY <1>3 DEF SetToSeq
<1>5. SetToSeq(S) \in Surjection(1..Cardinality(S), S)
  BY <1>2, <1>4, FS_Injection DEF Injection
<1> QED BY <1>1, <1>4, <1>5, IsASeq DEF Surjection, Range

\* The least of three numbers is one of them and not above the others.
LEMMA MinFacts ==
    ASSUME NEW a \in Nat, NEW b \in Nat, NEW c \in Nat
    PROVE  Min({a, b, c}) \in Nat /\ \A n \in {a, b, c} : Min({a, b, c}) <= n
<1>1. \E m \in {a, b, c} : \A n \in {a, b, c} : m <= n
  <2>1. CASE a <= b /\ a <= c
    BY <2>1
  <2>2. CASE b <= a /\ b <= c
    BY <2>2
  <2>3. CASE c <= a /\ c <= b
    BY <2>3
  <2> QED BY <2>1, <2>2, <2>3
<1> QED BY <1>1 DEF Min

\* The first n of a queue and the rest.
LEMMA SplitFacts ==
    ASSUME NEW D, NEW q \in Seq(D), NEW n \in 0..Len(q)
    PROVE  /\ SubSeq(q, n + 1, Len(q)) \in Seq(D)
           /\ Len(SubSeq(q, n + 1, Len(q))) = Len(q) - n
           /\ \A i \in 1..(Len(q) - n) : SubSeq(q, n + 1, Len(q))[i] = q[n + i]
           /\ Range(SubSeq(q, 1, n)) = {q[i] : i \in 1..n}
           /\ IsFiniteSet(Range(SubSeq(q, 1, n)))
           /\ Cardinality(Range(SubSeq(q, 1, n))) <= n
<1> DEFINE s == SubSeq(q, 1, n)
           t == SubSeq(q, n + 1, Len(q))
<1>1. t \in Seq(D) /\ Len(t) = Len(q) - n /\ \A i \in 1..(Len(q) - n) : t[i] = q[n + i]
  BY SubSeqProperties
<1>2. s \in Seq(D) /\ Len(s) = n /\ \A i \in 1..n : s[i] = q[i]
  BY SubSeqProperties
<1> HIDE DEF s
<1>3. Range(s) = {q[i] : i \in 1..n}
  BY <1>2 DEF Range
<1>4. ExistsSurjection(1..n, Range(s))
  <2>1. s \in [1..n -> Range(s)]
    BY <1>2 DEF Range
  <2>2. \A v \in Range(s) : \E i \in 1..n : s[i] = v
    BY <1>2 DEF Range
  <2> QED BY <2>1, <2>2, Zenon DEF ExistsSurjection, Surjection
<1>5. IsFiniteSet(Range(s)) /\ Cardinality(Range(s)) <= n
  <2>1. n \in Nat
    OBVIOUS
  <2>2. IsFiniteSet(Range(s))
    BY <1>4, <2>1, FS_NatSurjection
  <2> QED BY <1>4, <2>1, <2>2, FS_SurjCardinalityBound
<1> USE DEF s
<1> QED BY <1>1, <1>3, <1>5

\* Appending an element.
LEMMA AppendFacts ==
    ASSUME NEW D, NEW q \in Seq(D), NEW e \in D
    PROVE  /\ Append(q, e) \in Seq(D) /\ Len(Append(q, e)) = Len(q) + 1
           /\ Append(q, e)[Len(q) + 1] = e
           /\ \A i \in 1..Len(q) : Append(q, e)[i] = q[i]
           /\ Range(Append(q, e)) = Range(q) \cup {e}
<1> DEFINE s == Append(q, e)
<1>1. s \in Seq(D) /\ Len(s) = Len(q) + 1 /\ s[Len(q) + 1] = e /\ \A i \in 1..Len(q) : s[i] = q[i]
  BY AppendProperties
<1> HIDE DEF s
<1>2. Range(s) \subseteq Range(q) \cup {e}
  BY <1>1 DEF Range
<1>3. Range(q) \cup {e} \subseteq Range(s)
  <2>1. \A i \in 1..Len(q) : i \in DOMAIN s
    BY <1>1
  <2>2. Len(q) + 1 \in DOMAIN s
    BY <1>1
  <2> QED BY <1>1, <2>1, <2>2 DEF Range
<1>4. Range(s) = Range(q) \cup {e}
  BY <1>2, <1>3
<1> QED BY <1>1, <1>4 DEF s

\* Taking the first element.
LEMMA TailFacts ==
    ASSUME NEW D, NEW q \in Seq(D), q # <<>>
    PROVE  /\ Len(q) \in Nat \ {0}
           /\ Head(q) \in D /\ Head(q) = q[1]
           /\ Tail(q) \in Seq(D) /\ Len(Tail(q)) = Len(q) - 1
           /\ \A i \in 1..(Len(q) - 1) : Tail(q)[i] = q[i + 1]
           /\ Range(q) = {Head(q)} \cup Range(Tail(q))
           /\ \A i \in 2..Len(q) : q[i] \in Range(Tail(q))
           /\ \A v \in Range(Tail(q)) : \E i \in 2..Len(q) : v = q[i]
<1> DEFINE s == Tail(q)
<1>1. Len(q) \in Nat \ {0}
  BY EmptySeq
<1>2. Head(q) \in D /\ Head(q) = q[1]
  BY <1>1
<1>3. s \in Seq(D) /\ Len(s) = Len(q) - 1 /\ \A i \in 1..Len(s) : s[i] = q[i + 1]
  BY HeadTailProperties
<1> HIDE DEF s
<1>4. \A i \in 2..Len(q) : q[i] \in Range(s)
  <2> SUFFICES ASSUME NEW i \in 2..Len(q) PROVE q[i] \in Range(s)
    OBVIOUS
  <2>1. i - 1 \in 1..Len(s) /\ s[i - 1] = q[i]
    BY <1>1, <1>3
  <2> QED BY <1>3, <2>1 DEF Range
<1>5. \A v \in Range(s) : \E i \in 2..Len(q) : v = q[i]
  <2> SUFFICES ASSUME NEW v \in Range(s) PROVE \E i \in 2..Len(q) : v = q[i]
    OBVIOUS
  <2>1. PICK j \in 1..Len(s) : v = s[j]
    BY <1>3 DEF Range
  <2>2. j + 1 \in 2..Len(q) /\ v = q[j + 1]
    BY <1>1, <1>3, <2>1
  <2> QED BY <2>2
<1>6. Range(q) = {Head(q)} \cup Range(s)
  <2>1. Range(q) \subseteq {Head(q)} \cup Range(s)
    BY <1>1, <1>2, <1>4 DEF Range
  <2>2. Head(q) \in Range(q)
    BY <1>1, <1>2 DEF Range
  <2>3. Range(s) \subseteq Range(q)
    BY <1>1, <1>5 DEF Range
  <2> QED BY <2>1, <2>2, <2>3
<1> QED BY <1>1, <1>2, <1>3, <1>4, <1>5, <1>6 DEF s

-----------------------------------------------------------------------------
(* Identifiers and channels.                                               *)

\* Files belong to one directory each; ids are finite and of one kind.
LEMMA IdFacts ==
    /\ \A r \in DirRoots : /\ Contents[r] \in Seq(Kids) /\ IsInjective(Contents[r])
                           /\ Range(Contents[r]) \subseteq Kids /\ FilesOf(r) = Contents[r]
    /\ \A f \in FileRoots : FilesOf(f) = <<f>> /\ Range(FilesOf(f)) = {f}
    /\ \A k \in Kids : \E r \in DirRoots : k \in Range(Contents[r])
    /\ \A r, s \in DirRoots, k \in Kids :
         k \in Range(Contents[r]) /\ k \in Range(Contents[s]) => r = s
    /\ \A r \in Roots : FilesOf(r) \in Seq(Downloads) /\ IsInjective(FilesOf(r))
    /\ Nil \notin Ids
<1>1. ASSUME NEW r \in DirRoots
      PROVE  /\ Contents[r] \in Seq(Kids) /\ IsInjective(Contents[r])
             /\ Range(Contents[r]) \subseteq Kids /\ FilesOf(r) = Contents[r]
  BY TransferAssumption, DistinctFiles DEF FilesOf, Kids
<1>2. ASSUME NEW f \in FileRoots
      PROVE  FilesOf(f) = <<f>> /\ Range(FilesOf(f)) = {f}
  <2>1. FilesOf(f) = <<f>>
    BY TransferAssumption DEF FilesOf
  <2> QED BY <2>1 DEF Range
<1>3. \A k \in Kids : \E r \in DirRoots : k \in Range(Contents[r])
  BY DEF Kids
<1>4. ASSUME NEW r \in Roots PROVE FilesOf(r) \in Seq(Downloads) /\ IsInjective(FilesOf(r))
  <2>1. CASE r \in DirRoots
    <3>1. Kids \subseteq Downloads
      BY DEF Downloads
    <3> QED BY <1>1, <2>1, <3>1, SeqMonotonic
  <2>2. CASE r \in FileRoots
    <3>1. r \in Downloads /\ <<r>> \in Seq(Downloads) /\ DOMAIN <<r>> = 1..1
      BY <2>2 DEF Downloads
    <3>2. \A a, b \in 1..1 : a = b
      OBVIOUS
    <3> QED BY <1>2, <2>2, <3>1, <3>2, Zenon DEF IsInjective
  <2> QED BY <2>1, <2>2 DEF Roots
<1> QED BY <1>1, <1>2, <1>3, <1>4, DistinctFiles, TransferNil

\* The ids that hold a channel.
Under(w) == In(w, {"active", "stopping", "posted", "opening", "dropped"})

\* The channels in use are those of the ids under way.
LEMMA BusyIsUnder ==
    ASSUME NEW w \in WorkerRec
    PROVE  IsFiniteSet(Under(w)) /\ Busy(w) = Cardinality(Under(w)) /\ Busy(w) \in Nat
<1>1. Transfers(w) \in SUBSET Ids /\ Openings(w) \in SUBSET Ids
  BY DEF Transfers, Openings, In
<1>2. /\ IsFiniteSet(Transfers(w)) /\ IsFiniteSet(Openings(w))
      /\ Cardinality(Transfers(w)) \in Nat /\ Cardinality(Openings(w)) \in Nat
  BY <1>1, TransferAssumption, FS_Subset, FS_CardinalityType
<1>3. Transfers(w) \cap Openings(w) = {}
  BY DEF Transfers, Openings, In
<1>4. Under(w) = Transfers(w) \cup Openings(w)
  BY DEF Under, Transfers, Openings, In
<1>5. Cardinality(Transfers(w) \cap Openings(w)) = 0
  BY <1>3, FS_EmptySet
<1>6. /\ IsFiniteSet(Transfers(w) \cup Openings(w))
      /\ Cardinality(Transfers(w) \cup Openings(w))
           = Cardinality(Transfers(w)) + Cardinality(Openings(w))
             - Cardinality(Transfers(w) \cap Openings(w))
  BY <1>2, FS_Union
<1> QED BY <1>2, <1>4, <1>5, <1>6 DEF Busy

\* A step after which no other id is under way takes no channel.
LEMMA BusyShrinks ==
    ASSUME NEW v \in WorkerRec, NEW w \in WorkerRec, Under(v) \subseteq Under(w)
    PROVE  Busy(v) <= Busy(w)
<1>1. Under(v) \in SUBSET Under(w)
  OBVIOUS
<1> QED BY <1>1, BusyIsUnder, FS_Subset

\* Starting no more than there is room for keeps the limit.
LEMMA BusyGrows ==
    ASSUME NEW v \in WorkerRec, NEW w \in WorkerRec, Busy(w) <= PerTab,
           NEW go, IsFiniteSet(go), Cardinality(go) <= Room(w),
           Under(v) \subseteq Under(w) \cup go
    PROVE  Busy(v) <= PerTab
<1>1. /\ IsFiniteSet(Under(w)) /\ Busy(w) = Cardinality(Under(w)) /\ Busy(w) \in Nat
      /\ IsFiniteSet(Under(v)) /\ Busy(v) = Cardinality(Under(v)) /\ Busy(v) \in Nat
      /\ PerTab \in Nat
  BY BusyIsUnder, TransferAssumption
<1>2. /\ IsFiniteSet(Under(w) \cup go)
      /\ Cardinality(Under(w) \cup go) = Cardinality(Under(w)) + Cardinality(go)
                                         - Cardinality(Under(w) \cap go)
  BY <1>1, FS_Union
<1>3. Cardinality(Under(w) \cap go) \in Nat /\ Cardinality(go) \in Nat
  BY <1>1, FS_Intersection, FS_CardinalityType
<1>4. Under(v) \in SUBSET (Under(w) \cup go)
  OBVIOUS
<1>5. Cardinality(Under(v)) <= Cardinality(Under(w) \cup go)
  BY <1>2, <1>4, FS_Subset
<1> QED BY <1>1, <1>2, <1>3, <1>5 DEF Room

-----------------------------------------------------------------------------
(* Steps that move transfers and leave discoveries and directories alone.  *)

SameDirectories(v, w) ==
  /\ v.roots = w.roots /\ v.pending = w.pending /\ v.scan = w.scan
  /\ v.found = w.found /\ v.deferred = w.deferred
  /\ v.dirs = w.dirs /\ v.parent = w.parent

\* Discoveries and directories see of a transfer whether it is under way, and its end.
LEMMA DirPartKept ==
    ASSUME NEW v \in WorkerRec, NEW w \in WorkerRec, DirPart(w), SameDirectories(v, w),
           \A i \in Kids \cup DirRoots : v.ends[i] = w.ends[i],
           \A k \in Kids : /\ Live(v, k) <=> Live(w, k)
                           /\ w.place[k] = "none" => v.place[k] = "none"
    PROVE  DirPart(v)
<1> USE DEF SameDirectories
<1>1. Pending(v) = Pending(w)
  BY DEF Pending
<1>2. Aggregates(v) /\ RootsWait(v)
  BY ZenonT(40) DEF DirPart, Aggregates, RootsWait
<1>3. StreamOrdered(v)
  BY <1>1, SMT DEF DirPart, StreamOrdered
<1>4. \A k \in Kids : Untouched(w, k) => Untouched(v, k)
  BY DEF Untouched
<1>5. \A r \in DirRoots : Range(Contents[r]) \subseteq Kids
  BY IdFacts
<1>6. FilesAreNew(v)
  <2>1. \A m \in Pending(v) : m.file \in Kids => Untouched(v, m.file)
    BY <1>1, <1>4 DEF DirPart, FilesAreNew
  <2>2. v.scan.st = "run" =>
          /\ \A k \in Range(v.scan.left) \cap Kids :
               Untouched(v, k) /\ \A m \in Pending(v) : m.file # k
          /\ IsInjective(v.scan.left)
    BY <1>1, <1>4, Zenon DEF DirPart, FilesAreNew
  <2>3. \A r \in DirRoots :
          (v.ends[r] = Nil /\ v.dirs[r] = NoDir) \/ r \in Range(v.roots)
            => \A k \in Range(Contents[r]) : Untouched(v, k)
    BY <1>4, <1>5, Zenon DEF DirPart, FilesAreNew
  <2>4. /\ v.deferred # Nil /\ v.deferred.file \in Kids
             => \A m \in Range(v.found) : m.file # v.deferred.file
        /\ \A i, j \in DOMAIN v.found :
             i # j /\ v.found[i].file \in Kids => v.found[j].file # v.found[i].file
    BY ZenonT(40) DEF DirPart, FilesAreNew
  <2> QED BY <2>1, <2>2, <2>3, <2>4 DEF FilesAreNew
<1>7. Family(v)
  BY SMT DEF DirPart, Family
<1>8. NothingSkipped(v)
  <2> SUFFICES ASSUME NEW r \in DirRoots
               PROVE  /\ v.dirs[r].is /\ ~Lacks(v, r) /\ r \notin Range(v.roots)
                           => \A k \in Range(Contents[r]) :
                                v.ends[k] = "Completed" \/ k \in v.dirs[r].kids \/ Comes(v, r, k)
                      /\ v.ends[r] = "Completed"
                           => \A k \in Range(Contents[r]) : v.ends[k] = "Completed"
    BY DEF NothingSkipped
  <2>1. Lacks(v, r) <=> Lacks(w, r)
    BY <1>1 DEF Lacks
  <2>2. \A k \in Kids : Comes(v, r, k) <=> Comes(w, r, k)
    BY <1>1 DEF Comes
  <2> QED BY <1>5, <2>1, <2>2, Zenon DEF DirPart, NothingSkipped
<1> QED BY <1>2, <1>3, <1>6, <1>7, <1>8 DEF DirPart

\* start_queued_sftp_transfers keeps everything.
LEMMA StartDownloadsSound ==
    ASSUME NEW w, Sound(w)
    PROVE  Sound(StartDownloads(w))
<1> DEFINE n == Min({Room(w), Len(w.queue)})
           go == Range(SubSeq(w.queue, 1, n))
           v == StartDownloads(w)
<1>0. w \in WorkerRec /\ DirPart(w) /\ InOrder(w) /\ Busy(w) <= PerTab /\ w.again \subseteq FileRoots
  BY DEF Sound
<1>1. w.queue \in Seq(Downloads) /\ Len(w.queue) \in Nat /\ Room(w) \in Nat
  <2>1. Busy(w) \in Nat /\ PerTab \in Nat
    BY <1>0, BusyIsUnder, TransferAssumption
  <2>2. w.queue \in Seq(Downloads)
    BY <1>0 DEF WorkerRec
  <2> QED BY <2>1, <2>2 DEF Room
<1>2. n \in Nat /\ n <= Room(w) /\ n <= Len(w.queue) /\ n \in 0..Len(w.queue)
  <2>1. {Room(w), Len(w.queue)} = {Room(w), Len(w.queue), Len(w.queue)}
    OBVIOUS
  <2> QED BY <1>1, <2>1, MinFacts
<1> HIDE DEF n
<1>3. /\ v = [w EXCEPT !.queue = SubSeq(w.queue, n + 1, Len(w.queue)),
                       !.place = [i \in Ids |-> IF i \in go THEN "opening" ELSE w.place[i]]]
      /\ SubSeq(w.queue, n + 1, Len(w.queue)) \in Seq(Downloads)
      /\ go = {w.queue[i] : i \in 1..n}
      /\ IsFiniteSet(go) /\ Cardinality(go) <= n
  BY <1>1, <1>2, SplitFacts DEF StartDownloads, n
<1>4. DEFINE rest == SubSeq(w.queue, n + 1, Len(w.queue))
<1>5. /\ rest \in Seq(Downloads) /\ Len(rest) = Len(w.queue) - n
      /\ \A i \in 1..(Len(w.queue) - n) : rest[i] = w.queue[n + i]
  BY <1>1, <1>2, SplitFacts
<1> HIDE DEF rest, go, v
<1>6. v \in WorkerRec
  <2>1. "opening" \in Places
    BY DEF Places
  <2>2. [i \in Ids |-> IF i \in go THEN "opening" ELSE w.place[i]] \in [Ids -> Places]
    BY <1>0, <2>1 DEF WorkerRec
  <2> QED BY <1>0, <1>3, <2>2, Zenon DEF WorkerRec, rest
<1>7. /\ SameDirectories(v, w) /\ v.ends = w.ends /\ v.again = w.again /\ v.result = w.result
      /\ v.uploads = w.uploads /\ v.queue = rest
      /\ v.place = [i \in Ids |-> IF i \in go THEN "opening" ELSE w.place[i]]
  BY <1>0, <1>3 DEF SameDirectories, WorkerRec, rest
<1>8. \A i \in go \cap Kids : w.place[i] = "queue"
  BY <1>0, <1>1, <1>2, <1>3 DEF InOrder
<1>9. go \cap (Uploads \cup DirRoots) = {} /\ go \subseteq Downloads
  BY SMTT(40), <1>1, <1>2, <1>3, TransferAssumption DEF Downloads, Roots
<1>10. DirPart(v)
  <2>1. \A k \in Kids : /\ Live(v, k) <=> Live(w, k)
                        /\ w.place[k] = "none" => v.place[k] = "none"
    BY <1>7, <1>8 DEF Live, Ids
  <2> QED BY <1>0, <1>6, <1>7, <2>1, DirPartKept
<1>11. InOrder(v)
  <2>1. \A i \in Kids \cup Uploads : Live(v, i) => v.ends[i] = Nil
    BY <1>0, <1>7, <1>8, <1>9 DEF InOrder, Live, Ids
  <2>2. \A i \in DOMAIN v.queue : /\ n + i \in DOMAIN w.queue /\ v.queue[i] = w.queue[n + i]
                                  /\ i \in Nat \ {0}
    <3> SUFFICES ASSUME NEW i \in DOMAIN rest
                 PROVE  n + i \in DOMAIN w.queue /\ rest[i] = w.queue[n + i] /\ i \in Nat \ {0}
      BY <1>7
    <3>1. PICK m, l \in Nat : m = Len(w.queue) /\ l = Len(rest) /\ l = m - n
      BY <1>1, <1>5
    <3>2. i \in 1..l
      BY <1>5, <3>1
    <3>3. i \in 1..(m - n) /\ n + i \in 1..m
      BY <1>2, <3>1, <3>2
    <3> QED BY <1>1, <1>5, <3>1, <3>3
  <2>3. ASSUME NEW i \in DOMAIN v.queue, v.queue[i] \in Kids
        PROVE  v.place[v.queue[i]] = "queue"
    <3>1. w.place[v.queue[i]] = "queue" /\ v.queue[i] \in Ids
      BY <1>0, <2>2, <2>3 DEF InOrder, Ids
    <3>2. v.queue[i] \notin go
      <4> SUFFICES ASSUME NEW j \in 1..n, v.queue[i] = w.queue[j] PROVE FALSE
        BY <1>3
      <4>1. j \in DOMAIN w.queue
        BY <1>1, <1>2
      <4>2. n + i = j
        BY <1>0, <2>2, <2>3, <4>1 DEF InOrder
      <4>3. i \in Nat \ {0}
        BY <2>2
      <4> HIDE <2>2
      <4> QED BY <1>2, <4>2, <4>3
    <3> QED BY <1>7, <3>1, <3>2
  <2>4. ASSUME NEW i \in DOMAIN v.queue, NEW j \in DOMAIN v.queue, v.queue[i] \in Kids,
               v.queue[i] = v.queue[j]
        PROVE  i = j
    <3>1. n + i = n + j
      BY <1>0, <2>2, <2>4 DEF InOrder
    <3> QED BY <1>2, <2>2, <3>1
  <2>5. \A i \in DOMAIN v.uploads : v.place[v.uploads[i]] = "queue"
    <3>1. \A i \in DOMAIN w.uploads : w.uploads[i] \in Uploads
      BY <1>0 DEF WorkerRec
    <3> QED BY <1>0, <1>7, <1>9, <3>1 DEF InOrder, Ids
  <2>6. ASSUME NEW i \in Ids
        PROVE  /\ v.place[i] = "conflict" => i \in Uploads
               /\ v.place[i] \in {"posted", "reaped"} => v.result[i] # Nil
               /\ v.result[i] \in {"Conflict", "Skipped"} => i \in Uploads
               /\ i \in DirRoots => v.place[i] = "none"
    BY <1>0, <1>7, <1>9 DEF InOrder
  <2> QED BY <1>0, <1>7, <2>1, <2>3, <2>4, <2>5, <2>6 DEF InOrder
<1>12. Busy(v) <= PerTab
  <2>1. Under(v) \subseteq Under(w) \cup go
    BY <1>7 DEF Under, In
  <2>2. Cardinality(go) <= Room(w)
    BY <1>1, <1>2, <1>3, FS_CardinalityType
  <2> QED BY <1>0, <1>3, <1>6, <2>1, <2>2, BusyGrows
<1> QED BY <1>0, <1>6, <1>7, <1>10, <1>11, <1>12 DEF v, Sound

\* start_queued_uploads keeps everything.
LEMMA StartUploadsSound ==
    ASSUME NEW w, Sound(w), elsewhere \in Nat
    PROVE  Sound(StartUploads(w))
<1> DEFINE n == Min({Room(w), Permits(w), Len(w.uploads)})
           go == Range(SubSeq(w.uploads, 1, n))
           rest == SubSeq(w.uploads, n + 1, Len(w.uploads))
           v == StartUploads(w)
<1>0. w \in WorkerRec /\ DirPart(w) /\ InOrder(w) /\ Busy(w) <= PerTab /\ w.again \subseteq FileRoots
  BY DEF Sound
<1>1. /\ w.uploads \in Seq(Uploads) /\ Len(w.uploads) \in Nat
      /\ Room(w) \in Nat /\ Permits(w) \in Nat
  <2>1. Busy(w) \in Nat /\ PerTab \in Nat /\ GlobalUploads \in Nat
    BY <1>0, BusyIsUnder, TransferAssumption
  <2>2. w.uploads \in Seq(Uploads)
    BY <1>0 DEF WorkerRec
  <2>3. Transfers(w) \cap Uploads \in SUBSET Ids
    BY DEF Transfers, In
  <2>4. Cardinality(Transfers(w) \cap Uploads) \in Nat
    BY <2>3, TransferAssumption, FS_Subset, FS_CardinalityType
  <2> QED BY <2>1, <2>2, <2>4 DEF Room, Permits
<1>2. n \in Nat /\ n <= Room(w) /\ n <= Len(w.uploads) /\ n \in 0..Len(w.uploads)
  BY <1>1, MinFacts
<1> HIDE DEF n
<1>3. /\ v = [w EXCEPT !.uploads = rest,
                       !.place = [i \in Ids |-> IF i \in go THEN "active" ELSE w.place[i]]]
      /\ go = {w.uploads[i] : i \in 1..n}
      /\ IsFiniteSet(go) /\ Cardinality(go) <= n
      /\ rest \in Seq(Uploads) /\ Len(rest) = Len(w.uploads) - n
      /\ \A i \in 1..(Len(w.uploads) - n) : rest[i] = w.uploads[n + i]
  BY <1>1, <1>2, SplitFacts DEF StartUploads, n
<1> HIDE DEF rest, go, v
<1>4. v \in WorkerRec
  <2>1. "active" \in Places
    BY DEF Places
  <2>2. [i \in Ids |-> IF i \in go THEN "active" ELSE w.place[i]] \in [Ids -> Places]
    BY <1>0, <2>1 DEF WorkerRec
  <2> QED BY <1>0, <1>3, <2>2, Zenon DEF WorkerRec
<1>5. /\ SameDirectories(v, w) /\ v.ends = w.ends /\ v.again = w.again /\ v.result = w.result
      /\ v.queue = w.queue /\ v.uploads = rest
      /\ v.place = [i \in Ids |-> IF i \in go THEN "active" ELSE w.place[i]]
  BY <1>0, <1>3 DEF SameDirectories, WorkerRec
<1>6. go \subseteq Uploads /\ \A i \in go : w.place[i] = "queue"
  BY SMTT(40), <1>0, <1>1, <1>2, <1>3 DEF InOrder
<1>7. (\A k \in Kids : k \notin Uploads) /\ DirRoots \cap Uploads = {}
  BY TransferAssumption DEF Roots
<1>8. DirPart(v)
  <2>1. \A k \in Kids : v.place[k] = w.place[k]
    BY <1>5, <1>6, <1>7 DEF Ids
  <2> QED BY <1>0, <1>4, <1>5, <2>1, DirPartKept DEF Live
<1>9. InOrder(v)
  <2>1. \A i \in Kids \cup Uploads : Live(v, i) => v.ends[i] = Nil
    BY <1>0, <1>5, <1>6 DEF InOrder, Live, Ids
  <2>2. \A i \in DOMAIN v.queue : v.queue[i] \in Kids => v.place[v.queue[i]] = "queue"
    BY <1>0, <1>5, <1>6, <1>7 DEF InOrder, Ids
  <2>3. \A i \in DOMAIN rest : /\ n + i \in DOMAIN w.uploads /\ rest[i] = w.uploads[n + i]
                               /\ i \in Nat \ {0}
    <3> SUFFICES ASSUME NEW i \in DOMAIN rest
                 PROVE  /\ n + i \in DOMAIN w.uploads /\ rest[i] = w.uploads[n + i]
                        /\ i \in Nat \ {0}
      OBVIOUS
    <3>0. Len(rest) \in Nat /\ Len(rest) = Len(w.uploads) - n
      BY <1>3
    <3>1. PICK m, l \in Nat : m = Len(w.uploads) /\ l = Len(rest) /\ l = m - n
      BY <1>1, <3>0
    <3>2. i \in 1..l
      BY <1>3, <3>1
    <3>3. i \in 1..(m - n) /\ n + i \in 1..m
      BY <1>2, <3>1, <3>2
    <3> QED BY <1>1, <1>3, <3>1, <3>3
  <2>4. ASSUME NEW i \in DOMAIN rest
        PROVE  v.place[rest[i]] = "queue"
    <3>1. w.place[rest[i]] = "queue" /\ rest[i] \in Ids
      BY <1>0, <1>1, <2>3 DEF InOrder, Ids
    <3>2. rest[i] \notin go
      <4> SUFFICES ASSUME NEW j \in 1..n, rest[i] = w.uploads[j] PROVE FALSE
        BY <1>3
      <4>1. j \in DOMAIN w.uploads
        BY <1>1, <1>2
      <4>2. n + i = j
        BY <1>0, <2>3, <4>1 DEF InOrder, IsInjective
      <4>3. i \in Nat \ {0}
        BY <2>3
      <4> QED BY <1>2, <4>2, <4>3
    <3> QED BY <1>5, <3>1, <3>2
  <2>5. ASSUME NEW i \in DOMAIN rest, NEW j \in DOMAIN rest, rest[i] = rest[j]
        PROVE  i = j
    <3>1. n + i = n + j
      BY <1>0, <2>3, <2>5 DEF InOrder, IsInjective
    <3> QED BY <1>2, <2>3, <3>1
  <2>6. ASSUME NEW i \in Ids
        PROVE  /\ v.place[i] = "conflict" => i \in Uploads
               /\ v.place[i] \in {"posted", "reaped"} => v.result[i] # Nil
               /\ v.result[i] \in {"Conflict", "Skipped"} => i \in Uploads
               /\ i \in DirRoots => v.place[i] = "none"
    BY <1>0, <1>5, <1>6, <1>7 DEF InOrder
  <2>7. \A i \in DOMAIN v.uploads : v.place[v.uploads[i]] = "queue"
    BY <1>5, <2>4
  <2>8. IsInjective(v.uploads)
    BY <1>5, <2>5 DEF IsInjective
  <2> QED BY <1>0, <1>5, <2>1, <2>2, <2>6, <2>7, <2>8 DEF InOrder
<1>10. Busy(v) <= PerTab
  <2>1. Under(v) \subseteq Under(w) \cup go
    BY <1>5 DEF Under, In
  <2>2. Cardinality(go) <= Room(w)
    BY <1>1, <1>2, <1>3, FS_CardinalityType
  <2> QED BY <1>0, <1>3, <1>4, <2>1, <2>2, BusyGrows
<1> QED BY <1>0, <1>4, <1>5, <1>8, <1>9, <1>10 DEF v, Sound

\* Both, after an opening or an event.
LEMMA StartNextSound ==
    ASSUME NEW w, Sound(w), elsewhere \in Nat, NEW v \in StartNext({w})
    PROVE  Sound(v)
  BY StartDownloadsSound, StartUploadsSound DEF StartNext

\* Every element of s is one of q, and no two of s are the same one of q.
Within(s, q) ==
  \A i, j \in DOMAIN s : \E n, p \in DOMAIN q : s[i] = q[n] /\ s[j] = q[p] /\ (n = p => i = j)

\* What InOrder asks of one id.
IdInOrder(w, i) ==
  /\ i \in Kids \cup Uploads /\ Live(w, i) => w.ends[i] = Nil
  /\ w.place[i] = "conflict" => i \in Uploads
  /\ w.place[i] \in {"posted", "reaped"} => w.result[i] # Nil
  /\ w.result[i] \in {"Conflict", "Skipped"} => i \in Uploads
  /\ i \in DirRoots => w.place[i] = "none"

SameId(v, w, i) ==
  v.place[i] = w.place[i] /\ v.ends[i] = w.ends[i] /\ v.result[i] = w.result[i]

\* InOrder, id by id and queue by queue.
LEMMA InOrderParts ==
    ASSUME NEW w \in WorkerRec
    PROVE  InOrder(w) <=>
             /\ \A i \in Ids : IdInOrder(w, i)
             /\ \A n \in DOMAIN w.queue : w.queue[n] \in Kids => w.place[w.queue[n]] = "queue"
             /\ \A n, p \in DOMAIN w.queue : w.queue[n] \in Kids /\ w.queue[n] = w.queue[p] => n = p
             /\ \A n \in DOMAIN w.uploads : w.place[w.uploads[n]] = "queue"
             /\ \A n, p \in DOMAIN w.uploads : w.uploads[n] = w.uploads[p] => n = p
<1>1. Kids \cup Uploads \subseteq Ids
  BY DEF Ids
<1>2. IsInjective(w.uploads) <=> \A n, p \in DOMAIN w.uploads : w.uploads[n] = w.uploads[p] => n = p
  BY DEF IsInjective
<1>3. (\A i \in Ids : IdInOrder(w, i)) <=>
        /\ \A i \in Kids \cup Uploads : Live(w, i) => w.ends[i] = Nil
        /\ \A i \in Ids :
             /\ w.place[i] = "conflict" => i \in Uploads
             /\ w.place[i] \in {"posted", "reaped"} => w.result[i] # Nil
             /\ w.result[i] \in {"Conflict", "Skipped"} => i \in Uploads
             /\ i \in DirRoots => w.place[i] = "none"
  BY <1>1, Zenon DEF IdInOrder
<1> QED BY <1>2, <1>3, Zenon DEF InOrder

\* Ids that change leave the queues.
LEMMA InOrderKept ==
    ASSUME NEW v \in WorkerRec, NEW w \in WorkerRec, InOrder(w), NEW C,
           \A i \in Ids \ C : SameId(v, w, i),
           \A i \in C \cap Ids : IdInOrder(v, i),
           Within(v.queue, w.queue), \A n \in DOMAIN v.queue : v.queue[n] \notin C \cap Kids,
           Within(v.uploads, w.uploads), \A n \in DOMAIN v.uploads : v.uploads[n] \notin C
    PROVE  InOrder(v)
<1>0. /\ \A i \in Ids : IdInOrder(w, i)
      /\ \A n \in DOMAIN w.queue : w.queue[n] \in Kids => w.place[w.queue[n]] = "queue"
      /\ \A n, p \in DOMAIN w.queue : w.queue[n] \in Kids /\ w.queue[n] = w.queue[p] => n = p
      /\ \A n \in DOMAIN w.uploads : w.place[w.uploads[n]] = "queue"
      /\ \A n, p \in DOMAIN w.uploads : w.uploads[n] = w.uploads[p] => n = p
  BY InOrderParts
<1>1. ASSUME NEW i \in Ids PROVE IdInOrder(v, i)
  BY <1>0 DEF IdInOrder, SameId, Live
<1>2. ASSUME NEW i \in DOMAIN v.queue, v.queue[i] \in Kids PROVE v.place[v.queue[i]] = "queue"
  <2>1. v.queue[i] \in Ids \ C
    BY <1>2 DEF Ids
  <2>2. PICK n \in DOMAIN w.queue : v.queue[i] = w.queue[n]
    BY DEF Within
  <2> QED BY <1>0, <1>2, <2>1, <2>2 DEF SameId
<1>3. ASSUME NEW i \in DOMAIN v.queue, NEW j \in DOMAIN v.queue,
             v.queue[i] \in Kids, v.queue[i] = v.queue[j]
      PROVE  i = j
  BY <1>0, <1>3 DEF Within
<1>4. ASSUME NEW i \in DOMAIN v.uploads PROVE v.place[v.uploads[i]] = "queue"
  <2>1. v.uploads[i] \in Ids \ C
    BY DEF Ids, WorkerRec
  <2>2. PICK n \in DOMAIN w.uploads : v.uploads[i] = w.uploads[n]
    BY DEF Within
  <2> QED BY <1>0, <2>1, <2>2 DEF SameId
<1>5. ASSUME NEW i \in DOMAIN v.uploads, NEW j \in DOMAIN v.uploads, v.uploads[i] = v.uploads[j]
      PROVE  i = j
  BY <1>0, <1>5 DEF Within
<1> QED BY <1>1, <1>2, <1>3, <1>4, <1>5, InOrderParts

\* A download joins the queue.
LEMMA InOrderQueues ==
    ASSUME NEW v \in WorkerRec, NEW w \in WorkerRec, InOrder(w), NEW e \in Downloads,
           \A i \in Ids \ {e} : SameId(v, w, i),
           e \in Kids => w.place[e] # "queue" /\ v.ends[e] = Nil,
           v.place[e] = "queue", v.result[e] = w.result[e],
           v.queue = Append(w.queue, e), v.uploads = w.uploads
    PROVE  InOrder(v)
<1>0. /\ \A i \in Ids : IdInOrder(w, i)
      /\ \A n \in DOMAIN w.queue : w.queue[n] \in Kids => w.place[w.queue[n]] = "queue"
      /\ \A n, p \in DOMAIN w.queue : w.queue[n] \in Kids /\ w.queue[n] = w.queue[p] => n = p
      /\ \A n \in DOMAIN w.uploads : w.place[w.uploads[n]] = "queue"
      /\ \A n, p \in DOMAIN w.uploads : w.uploads[n] = w.uploads[p] => n = p
  BY InOrderParts
<1>1. /\ w.queue \in Seq(Downloads) /\ Len(w.queue) \in Nat
      /\ DOMAIN v.queue = 1..(Len(w.queue) + 1) /\ DOMAIN w.queue = 1..Len(w.queue)
      /\ v.queue[Len(w.queue) + 1] = e
      /\ \A i \in DOMAIN w.queue : v.queue[i] = w.queue[i] /\ w.queue[i] \in Downloads
  <2>1. w.queue \in Seq(Downloads)
    BY DEF WorkerRec
  <2> QED BY <2>1, AppendFacts
<1>2. \A i \in DOMAIN v.queue : i \in DOMAIN w.queue \/ i = Len(w.queue) + 1
  BY <1>1
<1>3. e \in Ids /\ e \notin Uploads /\ e \notin DirRoots
  BY TransferAssumption DEF Ids, Downloads, Roots
<1>4. ASSUME NEW i \in Ids PROVE IdInOrder(v, i)
  BY <1>0, <1>3 DEF IdInOrder, SameId, Live
<1>5. \A i \in DOMAIN w.queue : w.queue[i] \in Kids => w.queue[i] # e
  BY <1>0
<1>6. ASSUME NEW i \in DOMAIN v.queue, v.queue[i] \in Kids PROVE v.place[v.queue[i]] = "queue"
  BY <1>0, <1>1, <1>2, <1>6 DEF SameId, Ids
<1>7. ASSUME NEW i \in DOMAIN v.queue, NEW j \in DOMAIN v.queue,
             v.queue[i] \in Kids, v.queue[i] = v.queue[j]
      PROVE  i = j
  BY <1>0, <1>1, <1>2, <1>5, <1>7
<1>8. ASSUME NEW i \in DOMAIN v.uploads PROVE v.place[v.uploads[i]] = "queue"
  <2>1. v.uploads[i] \in Uploads /\ v.uploads[i] \in Ids \ {e}
    BY <1>3 DEF WorkerRec, Ids
  <2> QED BY <1>0, <2>1 DEF SameId
<1> QED BY SMTT(40), <1>0, <1>4, <1>6, <1>7, <1>8, InOrderParts

\* Uploads join their queue.
LEMMA InOrderUploads ==
    ASSUME NEW v \in WorkerRec, NEW w \in WorkerRec, InOrder(w),
           NEW s \in Seq(Uploads), IsInjective(s),
           \A i \in Ids \ Range(s) : SameId(v, w, i),
           \A u \in Range(s) : /\ w.place[u] # "queue" /\ v.place[u] = "queue"
                               /\ v.ends[u] = Nil,
           v.queue = w.queue, v.uploads = w.uploads \o s
    PROVE  InOrder(v)
<1>0. /\ \A i \in Ids : IdInOrder(w, i)
      /\ \A n \in DOMAIN w.queue : w.queue[n] \in Kids => w.place[w.queue[n]] = "queue"
      /\ \A n, p \in DOMAIN w.queue : w.queue[n] \in Kids /\ w.queue[n] = w.queue[p] => n = p
      /\ \A n \in DOMAIN w.uploads : w.place[w.uploads[n]] = "queue"
      /\ \A n, p \in DOMAIN w.uploads : w.uploads[n] = w.uploads[p] => n = p
  BY InOrderParts
<1>1. PICK m, l \in Nat :
        /\ m = Len(w.uploads) /\ l = Len(s)
        /\ DOMAIN w.uploads = 1..m /\ DOMAIN s = 1..l
        /\ DOMAIN v.uploads = 1..(m + l)
        /\ \A i \in 1..(m + l) : v.uploads[i] = IF i <= m THEN w.uploads[i] ELSE s[i - m]
  <2>1. w.uploads \in Seq(Uploads)
    BY DEF WorkerRec
  <2>2. PICK m, l \in Nat : m = Len(w.uploads) /\ l = Len(s)
    BY <2>1
  <2>3. /\ v.uploads \in Seq(Uploads) /\ Len(v.uploads) = m + l
        /\ \A i \in 1..(m + l) : v.uploads[i] = IF i <= m THEN w.uploads[i] ELSE s[i - m]
    BY <2>1, <2>2, ConcatProperties
  <2>4. DOMAIN w.uploads = 1..m /\ DOMAIN s = 1..l /\ DOMAIN v.uploads = 1..(m + l)
    BY <2>1, <2>2, <2>3
  <2> QED BY <2>2, <2>3, <2>4, Zenon
<1>2. Range(s) \subseteq Uploads /\ Range(s) \cap (Kids \cup DirRoots) = {}
  BY TransferAssumption DEF Range, Roots
<1>3. ASSUME NEW i \in Ids PROVE IdInOrder(v, i)
  <2>1. CASE i \in Range(s)
    BY <1>2, <2>1 DEF IdInOrder
  <2>2. CASE i \notin Range(s)
    BY <1>0, <2>2 DEF IdInOrder, SameId, Live
  <2> QED BY <2>1, <2>2
<1>4. ASSUME NEW i \in DOMAIN v.queue, v.queue[i] \in Kids PROVE v.place[v.queue[i]] = "queue"
  <2>1. v.queue[i] \in Ids \ Range(s)
    BY <1>2, <1>4 DEF Ids
  <2>2. w.place[v.queue[i]] = "queue"
    BY <1>0, <1>4
  <2> QED BY <2>1, <2>2 DEF SameId
<1>5. \A i \in 1..(m + l) : \/ i \in 1..m /\ v.uploads[i] = w.uploads[i]
                            \/ i \notin 1..m /\ i - m \in 1..l /\ v.uploads[i] = s[i - m]
  BY <1>1
<1>6. \A i \in 1..m, j \in 1..l : w.uploads[i] # s[j]
  <2> SUFFICES ASSUME NEW i \in 1..m, NEW j \in 1..l PROVE w.uploads[i] # s[j]
    OBVIOUS
  <2>1. w.place[w.uploads[i]] = "queue"
    BY <1>0, <1>1
  <2>2. s[j] \in Range(s)
    BY <1>1 DEF Range
  <2> QED BY <2>1, <2>2
<1>7. ASSUME NEW i \in DOMAIN v.uploads PROVE v.place[v.uploads[i]] = "queue"
  <2>1. CASE i \in 1..m
    <3>1. v.uploads[i] = w.uploads[i] /\ v.uploads[i] \in Uploads /\ v.uploads[i] \notin Range(s)
      BY <1>1, <1>5, <1>6, <2>1 DEF WorkerRec, Range
    <3>2. v.uploads[i] \in Ids \ Range(s)
      BY <3>1 DEF Ids
    <3> QED BY <1>0, <1>1, <2>1, <3>1, <3>2 DEF SameId
  <2>2. CASE i \notin 1..m
    BY <1>1, <1>5, <2>2 DEF Range
  <2> QED BY <2>1, <2>2
<1>8. ASSUME NEW i \in DOMAIN v.uploads, NEW j \in DOMAIN v.uploads, v.uploads[i] = v.uploads[j]
      PROVE  i = j
  <2>1. CASE i \in 1..m /\ j \in 1..m
    BY <1>0, <1>1, <1>5, <1>8, <2>1
  <2>2. CASE i \notin 1..m /\ j \notin 1..m
    <3>1. i - m \in DOMAIN s /\ j - m \in DOMAIN s /\ s[i - m] = s[j - m]
      BY <1>1, <1>5, <1>8, <2>2
    <3>2. i - m = j - m
      BY <3>1 DEF IsInjective
    <3>3. i \in Nat /\ j \in Nat
      BY <1>1
    <3> QED BY <3>2, <3>3
  <2>3. CASE (i \in 1..m) # (j \in 1..m)
    BY SMTT(40), <1>1, <1>5, <1>6, <1>8, <2>3
  <2> QED BY <2>1, <2>2, <2>3
<1> QED BY <1>0, <1>3, <1>4, <1>7, <1>8, InOrderParts

\* Ids under way that move and stay under way, or are joined after they were dropped.
LEMMA MovesSound ==
    ASSUME NEW v \in WorkerRec, NEW w, Sound(w), SameDirectories(v, w),
           v.ends = w.ends, v.again = w.again, v.queue = w.queue, v.uploads = w.uploads,
           NEW C, \A i \in Ids \ C : SameId(v, w, i),
           \A i \in C \cap Ids : /\ w.place[i] \notin {"none", "queue"}
                                 /\ Live(v, i) <=> Live(w, i)
                                 /\ IdInOrder(v, i),
           Under(v) \subseteq Under(w)
    PROVE  Sound(v)
<1>0. w \in WorkerRec /\ DirPart(w) /\ InOrder(w) /\ Busy(w) <= PerTab /\ w.again \subseteq FileRoots
  BY DEF Sound
<1>1. DirPart(v)
  <2>1. ASSUME NEW k \in Kids
        PROVE  /\ Live(v, k) <=> Live(w, k)
               /\ w.place[k] = "none" => v.place[k] = "none"
    <3>1. k \in Ids
      BY DEF Ids
    <3> QED BY <3>1 DEF SameId, Live
  <2> QED BY <1>0, <2>1, DirPartKept
<1>2. InOrder(v)
  <2>1. Within(v.queue, w.queue) /\ Within(v.uploads, w.uploads)
    BY DEF Within
  <2>2. \A n \in DOMAIN v.queue : v.queue[n] \notin C \cap Kids
    BY <1>0 DEF InOrder, Ids
  <2>3. \A n \in DOMAIN v.uploads : v.uploads[n] \notin C
    BY <1>0 DEF InOrder, Ids, WorkerRec
  <2> QED BY <1>0, <2>1, <2>2, <2>3, InOrderKept
<1>3. Busy(v) <= PerTab
  <2>1. Busy(v) <= Busy(w) /\ Busy(v) \in Nat /\ Busy(w) \in Nat /\ PerTab \in Nat
    BY <1>0, BusyShrinks, BusyIsUnder, TransferAssumption
  <2> QED BY <1>0, <2>1
<1> QED BY <1>0, <1>1, <1>2, <1>3 DEF Sound

\* v is w once the end e of i is reported.
Told(v, w, i, e) ==
  /\ v \in WorkerRec /\ SameDirectories(v, w)
  /\ v.queue = w.queue /\ v.uploads = w.uploads
  /\ v.place = w.place /\ v.result = w.result
  /\ \A j \in Ids : v.ends[j] = IF j = i /\ w.ends[i] = Nil THEN e ELSE w.ends[j]
  /\ v.again = IF w.ends[i] = Nil THEN w.again ELSE w.again \cup {i}

\* The first report of an id is its end.
LEMMA TellFacts ==
    ASSUME NEW w \in WorkerRec, NEW i \in Ids, NEW e \in Outcomes \cup {"Partial"}
    PROVE  Told(Tell(w, i, e), w, i, e)
<1> DEFINE v == Tell(w, i, e)
<1>1. CASE w.ends[i] = Nil
  <2>1. v = [w EXCEPT !.ends[i] = e]
    BY <1>1 DEF Tell
  <2>2. w.ends \in [Ids -> Outcomes \cup {"Partial", Nil}]
    BY DEF WorkerRec
  <2>3. [w.ends EXCEPT ![i] = e] \in [Ids -> Outcomes \cup {"Partial", Nil}]
    BY <2>2
  <2>4. v.ends = [w.ends EXCEPT ![i] = e]
    BY <2>1 DEF WorkerRec
  <2>5. v \in WorkerRec
    BY <2>1, <2>3, Zenon DEF WorkerRec
  <2>6. /\ SameDirectories(v, w) /\ v.queue = w.queue /\ v.uploads = w.uploads
        /\ v.place = w.place /\ v.result = w.result /\ v.again = w.again
    BY <2>1 DEF SameDirectories, WorkerRec
  <2> QED BY <1>1, <2>2, <2>3, <2>4, <2>5, <2>6 DEF Told
<1>2. CASE w.ends[i] # Nil
  <2>1. v = [w EXCEPT !.again = @ \cup {i}]
    BY <1>2 DEF Tell
  <2>2. w.again \cup {i} \in SUBSET Ids
    BY DEF WorkerRec
  <2>3. v \in WorkerRec
    BY <2>1, <2>2, Zenon DEF WorkerRec
  <2>4. /\ SameDirectories(v, w) /\ v.queue = w.queue /\ v.uploads = w.uploads
        /\ v.place = w.place /\ v.result = w.result /\ v.ends = w.ends
        /\ v.again = w.again \cup {i}
    BY <2>1 DEF SameDirectories, WorkerRec
  <2> QED BY <1>2, <2>3, <2>4 DEF WorkerRec, Told
<1> QED BY <1>1, <1>2

\* The end of an upload or of a single-file root.
LEMMA OutsiderEnds ==
    ASSUME NEW v \in WorkerRec, NEW w, Sound(w), SameDirectories(v, w),
           v.ends = w.ends, v.again = w.again,
           NEW i \in FileRoots \cup Uploads, NEW e \in Outcomes \cup {"Partial"},
           i \in Uploads => w.ends[i] = Nil,
           \A j \in Ids \ {i} : SameId(v, w, j),
           \/ v.place[i] \in {"none", "dropped"} /\ v.result[i] \in {Nil, w.result[i]}
           \/ i \in FileRoots /\ v.place[i] = w.place[i] /\ v.result[i] = w.result[i],
           Within(v.queue, w.queue),
           Within(v.uploads, w.uploads), \A n \in DOMAIN v.uploads : v.uploads[n] # i,
           Under(v) \subseteq Under(w)
    PROVE  Sound(Tell(v, i, e))
<1> DEFINE u == Tell(v, i, e)
<1>0. w \in WorkerRec /\ DirPart(w) /\ InOrder(w) /\ Busy(w) <= PerTab /\ w.again \subseteq FileRoots
  BY DEF Sound
<1>1. i \in Ids /\ i \notin Kids /\ i \notin DirRoots /\ Kids \cup DirRoots \subseteq Ids
  BY TransferAssumption DEF Ids, Roots
<1>2. /\ u \in WorkerRec /\ SameDirectories(u, v)
      /\ u.queue = v.queue /\ u.uploads = v.uploads
      /\ u.place = v.place /\ u.result = v.result
      /\ \A j \in Ids : u.ends[j] = IF j = i /\ v.ends[i] = Nil THEN e ELSE v.ends[j]
      /\ u.again = IF v.ends[i] = Nil THEN v.again ELSE v.again \cup {i}
  <2>1. i \in Ids /\ v \in WorkerRec /\ e \in Outcomes \cup {"Partial"}
    BY <1>1
  <2> QED BY <2>1, TellFacts, ZenonT(40) DEF Told
<1> HIDE DEF u
<1>3. DirPart(u)
  <2>1. SameDirectories(u, w)
    BY <1>2 DEF SameDirectories
  <2>2. \A k \in Kids : u.place[k] = w.place[k]
    BY <1>1, <1>2 DEF SameId
  <2>3. \A j \in Kids \cup DirRoots : u.ends[j] = w.ends[j]
    BY <1>1, <1>2
  <2> QED BY <1>0, <1>2, <2>1, <2>2, <2>3, DirPartKept DEF Live
<1>4. InOrder(u)
  <2>1. \A j \in Ids \ {i} : SameId(u, w, j)
    BY <1>2 DEF SameId
  <2>2. IdInOrder(u, i)
    <3>1. w.result[i] \in {"Conflict", "Skipped"} => i \in Uploads
      BY <1>0, <1>1 DEF InOrder
    <3>2. CASE v.place[i] \in {"none", "dropped"} /\ v.result[i] \in {Nil, w.result[i]}
      BY <1>1, <1>2, <3>1, <3>2, TransferNil DEF IdInOrder, Live, Outcomes
    <3>3. CASE i \in FileRoots /\ v.place[i] = w.place[i] /\ v.result[i] = w.result[i]
      <4>1. i \notin Uploads
        BY <3>3, TransferAssumption DEF Roots
      <4> QED BY <1>0, <1>1, <1>2, <3>3, <4>1 DEF IdInOrder, InOrder
    <3> QED BY <3>2, <3>3
  <2>3. \A n \in DOMAIN u.queue : u.queue[n] \notin {i} \cap Kids
    BY <1>1
  <2>4. \A n \in DOMAIN u.uploads : u.uploads[n] \notin {i}
    BY <1>2
  <2>5. Within(u.queue, w.queue) /\ Within(u.uploads, w.uploads)
    BY <1>2
  <2> QED BY <1>0, <1>2, <2>1, <2>2, <2>3, <2>4, <2>5, InOrderKept
<1>5. Busy(u) <= PerTab
  <2>1. Under(u) \subseteq Under(w)
    BY <1>2 DEF Under, In
  <2>2. Busy(u) <= Busy(w) /\ Busy(u) \in Nat /\ Busy(w) \in Nat /\ PerTab \in Nat
    BY <1>0, <1>2, <2>1, BusyShrinks, BusyIsUnder, TransferAssumption
  <2> QED BY <1>0, <2>2
<1>6. u.again \subseteq FileRoots
  <2>1. v.ends[i] = Nil \/ i \in FileRoots
    OBVIOUS
  <2> QED BY <1>0, <1>2, <2>1, Zenon
<1> QED BY <1>2, <1>3, <1>4, <1>5, <1>6 DEF Sound, u

-----------------------------------------------------------------------------
(* Directories.                                                            *)

\* What is pending are messages.
LEMMA PendingTyped ==
    ASSUME NEW w \in WorkerRec
    PROVE  /\ w.found \in Seq(Messages) /\ w.deferred \in Messages \cup {Nil}
           /\ Pending(w) \subseteq Messages
<1>1. w.found \in Seq(Messages) /\ w.deferred \in Messages \cup {Nil}
  BY Zenon DEF WorkerRec
<1>2. Range(w.found) \subseteq Messages
  BY <1>1 DEF Range
<1> QED BY <1>1, <1>2 DEF Pending

\* A message about a file belongs to the root of that file.
LEMMA MessageRoots ==
    ASSUME NEW w \in WorkerRec, StreamOrdered(w), NEW r \in DirRoots,
           NEW k \in Range(Contents[r]), NEW m \in Pending(w), m.file = k
    PROVE  m.root = r
<1>1. m \in Messages /\ m.root \in Roots
  BY PendingTyped DEF Messages
<1>2. k \in Kids /\ k # Nil
  BY IdFacts, TransferNil DEF Ids
<1>3. k \in Range(FilesOf(m.root))
  BY <1>2 DEF StreamOrdered
<1>4. k \notin FileRoots
  BY <1>2, TransferAssumption DEF Roots
<1>5. m.root \in DirRoots
  BY <1>1, <1>3, <1>4, IdFacts DEF Roots
<1> QED BY <1>2, <1>3, <1>5, IdFacts

\* Nothing comes any more for a root without a discovery.
LEMMA NothingComes ==
    ASSUME NEW w \in WorkerRec, StreamOrdered(w), NEW r \in DirRoots, w.pending[r] = Nil
    PROVE  /\ \A k \in Range(Contents[r]) : ~Comes(w, r, k)
           /\ \A m \in Pending(w) : m.root # r
<1>1. \A m \in Pending(w) : m.root # r
  BY DEF StreamOrdered
<1>2. ASSUME NEW k \in Range(Contents[r]), Comes(w, r, k) PROVE FALSE
  <2>1. CASE \E m \in Pending(w) : m.file = k
    BY <1>1, <2>1, MessageRoots
  <2>2. CASE w.scan.st = "run" /\ w.scan.root = r
    BY <2>2 DEF StreamOrdered
  <2> QED BY <1>2, <2>1, <2>2 DEF Comes
<1> QED BY <1>1, <1>2

\* A root that nothing happens for any more is reported, for the first time.
LEMMA RootEnds ==
    ASSUME NEW w, Sound(w), NEW r \in DirRoots, w.ends[r] = Nil, w.pending[r] = Nil,
           r \notin Range(w.roots), w.dirs[r].kids = {},
           NEW e \in Outcomes \cup {"Partial"},
           e = "Completed"
             => w.dirs[r].is /\ ~w.dirs[r].cancelled /\ ~(w.dirs[r].failed > 0)
    PROVE  Sound(Tell([w EXCEPT !.dirs[r] = NoDir], r, e))
<1>0. /\ w \in WorkerRec /\ InOrder(w) /\ Busy(w) <= PerTab /\ w.again \subseteq FileRoots
      /\ Aggregates(w) /\ RootsWait(w) /\ StreamOrdered(w) /\ FilesAreNew(w)
      /\ Family(w) /\ NothingSkipped(w)
  BY DEF Sound, DirPart
<1> DEFINE v == [w EXCEPT !.dirs[r] = NoDir]
           u == Tell(v, r, e)
<1>1. /\ r \in Roots /\ r \in Ids /\ r \notin Kids /\ r \notin Uploads /\ r \notin FileRoots
      /\ Kids \subseteq Ids /\ Uploads \subseteq Ids /\ DirRoots \subseteq Ids
  BY TransferAssumption DEF Ids, Roots
<1>2. e # Nil
  BY TransferNil DEF Outcomes
<1>3. /\ v \in WorkerRec
      /\ v.dirs = [w.dirs EXCEPT ![r] = NoDir]
      /\ v.roots = w.roots /\ v.pending = w.pending /\ v.scan = w.scan
      /\ v.found = w.found /\ v.deferred = w.deferred /\ v.parent = w.parent
      /\ v.ends = w.ends /\ v.again = w.again /\ v.queue = w.queue
      /\ v.uploads = w.uploads /\ v.place = w.place /\ v.result = w.result
  <2>1. NoDir \in DirRec
    BY DEF NoDir, DirRec
  <2>2. [w.dirs EXCEPT ![r] = NoDir] \in [Roots -> DirRec]
    BY <1>0, <2>1 DEF WorkerRec
  <2>3. v \in WorkerRec
    BY <1>0, <2>2, Zenon DEF WorkerRec
  <2> QED BY <1>0, <2>3 DEF WorkerRec
<1> HIDE DEF v, u
<1>4. /\ u \in WorkerRec /\ SameDirectories(u, v)
      /\ u.queue = v.queue /\ u.uploads = v.uploads
      /\ u.place = v.place /\ u.result = v.result
      /\ \A j \in Ids : u.ends[j] = IF j = r /\ v.ends[r] = Nil THEN e ELSE v.ends[j]
      /\ u.again = IF v.ends[r] = Nil THEN v.again ELSE v.again \cup {r}
  <2>1. v \in WorkerRec /\ r \in Ids /\ e \in Outcomes \cup {"Partial"}
    BY <1>1, <1>3
  <2>2. Told(u, v, r, e)
    BY <2>1, TellFacts, ZenonT(40) DEF u
  <2> QED BY <2>2 DEF Told
<1>5. /\ u.again = w.again /\ u.place = w.place /\ u.result = w.result
      /\ u.queue = w.queue /\ u.uploads = w.uploads
      /\ u.roots = w.roots /\ u.pending = w.pending /\ u.scan = w.scan
      /\ u.found = w.found /\ u.deferred = w.deferred /\ u.parent = w.parent
      /\ u.ends[r] = e /\ \A j \in Ids \ {r} : u.ends[j] = w.ends[j]
      /\ u.dirs[r] = NoDir /\ \A s \in Roots \ {r} : u.dirs[s] = w.dirs[s]
  BY <1>0, <1>1, <1>2, <1>3, <1>4 DEF SameDirectories, WorkerRec
<1>6. Pending(u) = Pending(w) /\ \A k \in Kids : Untouched(w, k) => Untouched(u, k)
  BY <1>1, <1>5 DEF Pending, Untouched
<1>7. Aggregates(u)
  <2>1. \A f \in FileRoots : u.dirs[f] = NoDir
    BY <1>0, <1>1, <1>5 DEF Aggregates, Roots
  <2>2. ASSUME NEW s \in DirRoots
        PROVE  /\ u.dirs[s] # NoDir => u.dirs[s].is /\ u.ends[s] = Nil
               /\ u.pending[s] # Nil => u.dirs[s].is /\ ~u.dirs[s].done
               /\ u.pending[s] = "cancelled" => u.dirs[s].cancelled
    <3>1. CASE s = r
      BY <1>5, <3>1, TransferNil
    <3>2. CASE s # r
      <4>1. u.dirs[s] = w.dirs[s] /\ u.ends[s] = w.ends[s]
        BY <1>1, <1>5, <3>2 DEF Roots
      <4> QED BY <1>0, <1>5, <4>1 DEF Aggregates
    <3> QED BY <3>1, <3>2
  <2> QED BY <2>1, <2>2 DEF Aggregates
<1>8. RootsWait(u)
  <2>1. \A s \in Range(w.roots) : s \in Roots
    BY <1>0 DEF WorkerRec, Range
  <2> QED BY <1>0, <1>5, <2>1 DEF RootsWait
<1>9. StreamOrdered(u)
  BY <1>0, <1>5, <1>6, SMT DEF StreamOrdered
<1>10. FilesAreNew(u)
  <2>1. \A m \in Pending(u) : m.file \in Kids => Untouched(u, m.file)
    BY <1>0, <1>6 DEF FilesAreNew
  <2>2. u.scan.st = "run" =>
          /\ \A k \in Range(u.scan.left) \cap Kids :
               Untouched(u, k) /\ \A m \in Pending(u) : m.file # k
          /\ IsInjective(u.scan.left)
    BY <1>0, <1>5, <1>6 DEF FilesAreNew
  <2>3. /\ u.deferred # Nil /\ u.deferred.file \in Kids
             => \A m \in Range(u.found) : m.file # u.deferred.file
        /\ \A i, j \in DOMAIN u.found :
             i # j /\ u.found[i].file \in Kids => u.found[j].file # u.found[i].file
    BY <1>0, <1>5 DEF FilesAreNew
  <2>4. ASSUME NEW s \in DirRoots, (u.ends[s] = Nil /\ u.dirs[s] = NoDir) \/ s \in Range(u.roots),
               NEW k \in Range(Contents[s])
        PROVE  Untouched(u, k)
    <3>1. s # r /\ s \in Roots /\ s \in Ids
      BY <1>2, <1>5, <2>4 DEF Roots, Ids
    <3>2. (w.ends[s] = Nil /\ w.dirs[s] = NoDir) \/ s \in Range(w.roots)
      BY <1>5, <2>4, <3>1
    <3>3. Untouched(w, k) /\ k \in Kids
      BY <1>0, <3>2, IdFacts DEF FilesAreNew
    <3> QED BY <1>6, <3>3
  <2> QED BY <2>1, <2>2, <2>3, <2>4 DEF FilesAreNew
<1>11. Family(u)
  <2>1. \A s \in Roots : u.dirs[s].kids = w.dirs[s].kids
    <3>1. u.dirs[r].kids = {} /\ w.dirs[r].kids = {}
      BY <1>5 DEF NoDir
    <3> QED BY <1>5, <3>1
  <2> QED BY <1>0, <1>5, <2>1 DEF Family, Live
<1>12. NothingSkipped(u)
  <2> SUFFICES ASSUME NEW s \in DirRoots
               PROVE  /\ u.dirs[s].is /\ ~Lacks(u, s) /\ s \notin Range(u.roots)
                           => \A k \in Range(Contents[s]) :
                                u.ends[k] = "Completed" \/ k \in u.dirs[s].kids \/ Comes(u, s, k)
                      /\ u.ends[s] = "Completed"
                           => \A k \in Range(Contents[s]) : u.ends[k] = "Completed"
    BY DEF NothingSkipped
  <2>1. \A k \in Range(Contents[s]) : k \in Kids /\ k \in Ids /\ u.ends[k] = w.ends[k]
    BY <1>1, <1>5, IdFacts
  <2>2. CASE s = r
    <3>1. ASSUME u.ends[r] = "Completed", NEW k \in Range(Contents[r])
          PROVE  w.ends[k] = "Completed"
      <4>1. w.dirs[r].is /\ ~w.dirs[r].cancelled /\ ~(w.dirs[r].failed > 0)
        BY <1>5, <3>1
      <4>2. (\A m \in Pending(w) : m.root # r) /\ ~Comes(w, r, k)
        BY <1>0, NothingComes
      <4>3. ~Lacks(w, r)
        BY <4>1, <4>2 DEF Lacks
      <4> QED BY <1>0, <4>1, <4>2, <4>3 DEF NothingSkipped
    <3>2. ~u.dirs[r].is
      BY <1>5 DEF NoDir
    <3> QED BY <2>1, <2>2, <3>1, <3>2
  <2>3. CASE s # r
    <3>1. u.dirs[s] = w.dirs[s] /\ u.ends[s] = w.ends[s]
      BY <1>1, <1>5, <2>3 DEF Roots
    <3>2. Lacks(u, s) <=> Lacks(w, s)
      BY <1>6, <3>1 DEF Lacks
    <3>3. \A k \in Range(Contents[s]) : Comes(u, s, k) <=> Comes(w, s, k)
      BY <1>5, <1>6 DEF Comes
    <3> QED BY <1>0, <1>5, <2>1, <3>1, <3>2, <3>3 DEF NothingSkipped
  <2> QED BY <2>2, <2>3
<1>13. InOrder(u)
  <2>1. Within(u.queue, w.queue) /\ Within(u.uploads, w.uploads)
    BY <1>5 DEF Within
  <2>2. \A i \in Ids \ {r} : SameId(u, w, i)
    BY <1>5 DEF SameId
  <2>3. IdInOrder(u, r)
    BY <1>0, <1>1, <1>5 DEF IdInOrder, InOrder
  <2>4. (\A n \in DOMAIN u.queue : u.queue[n] \notin {r} \cap Kids)
    BY <1>1
  <2>5. \A n \in DOMAIN u.uploads : u.uploads[n] \notin {r}
    BY <1>1, <1>4 DEF WorkerRec
  <2> QED BY ZenonT(40), <1>0, <1>1, <1>4, <2>1, <2>2, <2>3, <2>4, <2>5, InOrderKept
<1>14. Busy(u) <= PerTab
  <2>1. Under(u) \subseteq Under(w)
    BY <1>5 DEF Under, In
  <2>2. Busy(u) <= Busy(w) /\ Busy(u) \in Nat /\ Busy(w) \in Nat /\ PerTab \in Nat
    BY <1>0, <1>4, <2>1, BusyShrinks, BusyIsUnder, TransferAssumption
  <2> QED BY <1>0, <2>2
<1>15. Sound(u)
  BY <1>0, <1>4, <1>5, <1>7, <1>8, <1>9, <1>10, <1>11, <1>12, <1>13, <1>14 DEF Sound, DirPart
<1> QED BY <1>15 DEF u, v

\* finish_directory_transfer: the root of a finished directory has not been reported.
LEMMA FinishDirectorySound ==
    ASSUME NEW w, Sound(w), NEW r \in DirRoots
    PROVE  Sound(FinishDirectory(w, r))
<1>0. w \in WorkerRec /\ Aggregates(w) /\ RootsWait(w)
  BY DEF Sound, DirPart
<1>1. CASE ~DirectoryReady(w.dirs[r])
  BY <1>1 DEF FinishDirectory
<1>2. CASE DirectoryReady(w.dirs[r])
  <2> DEFINE e == Summary(w.dirs[r])
  <2>1. w.dirs[r].done /\ w.dirs[r].kids = {} /\ w.dirs[r] # NoDir
    BY <1>2 DEF DirectoryReady, NoDir
  <2>2. w.dirs[r].is /\ w.ends[r] = Nil /\ w.pending[r] = Nil /\ r \notin Range(w.roots)
    BY <1>0, <2>1 DEF Aggregates, RootsWait
  <2>3. /\ e \in Outcomes \cup {"Partial"}
        /\ e = "Completed" => ~w.dirs[r].cancelled /\ ~(w.dirs[r].failed > 0)
    BY DEF Summary, Outcomes
  <2>4. FinishDirectory(w, r) = Tell([w EXCEPT !.dirs[r] = NoDir], r, e)
    BY <1>2 DEF FinishDirectory
  <2> HIDE DEF e
  <2> QED BY <2>1, <2>2, <2>3, <2>4, RootEnds
<1> QED BY <1>1, <1>2

\* u is w once the files S of directory r have ended as e.
KidsEnded(u, w, r, S, e) ==
  /\ u.roots = w.roots /\ u.pending = w.pending /\ u.scan = w.scan
  /\ u.found = w.found /\ u.deferred = w.deferred
  /\ \A s \in Roots \ {r} : u.dirs[s] = w.dirs[s]
  /\ u.dirs[r].is /\ u.dirs[r].done = w.dirs[r].done
  /\ u.dirs[r].cancelled = w.dirs[r].cancelled /\ u.dirs[r].kids = w.dirs[r].kids \ S
  /\ ~(u.dirs[r].failed > 0) => ~(w.dirs[r].failed > 0) /\ (e = "Completed" \/ S = {})
  /\ \A k \in Downloads : u.parent[k] = IF k \in S THEN Nil ELSE w.parent[k]
  /\ \A i \in Ids \ S : SameId(u, w, i)
  /\ \A i \in S : /\ u.place[i] \in {"none", "dropped"} /\ u.ends[i] = e
                   /\ u.result[i] \in {Nil, w.result[i]}
  /\ Within(u.queue, w.queue) /\ \A n \in DOMAIN u.queue : u.queue[n] \notin S
  /\ Within(u.uploads, w.uploads) /\ u.again \subseteq FileRoots /\ Under(u) \subseteq Under(w)

\* Files of one directory end: each leaves the aggregate, which remembers that one was missed.
LEMMA KidsEnd ==
    ASSUME NEW u \in WorkerRec, NEW w, Sound(w), NEW r \in DirRoots, w.dirs[r].is,
           NEW S, S \subseteq w.dirs[r].kids,
           NEW e \in {"Completed", "Failed", "Cancelled"},
           KidsEnded(u, w, r, S, e)
    PROVE  Sound(u)
<1> USE DEF KidsEnded
<1>0. /\ w \in WorkerRec /\ InOrder(w) /\ Busy(w) <= PerTab
      /\ Aggregates(w) /\ RootsWait(w) /\ StreamOrdered(w) /\ FilesAreNew(w)
      /\ Family(w) /\ NothingSkipped(w)
  BY DEF Sound, DirPart
<1>1. /\ r \in Roots /\ r \in Ids /\ FileRoots \subseteq Roots /\ DirRoots \subseteq Roots
      /\ Roots = FileRoots \cup DirRoots /\ FileRoots \cap DirRoots = {}
      /\ Kids \subseteq Ids /\ Uploads \subseteq Ids /\ DirRoots \subseteq Ids
      /\ Kids \cap Roots = {} /\ Kids \cap Uploads = {} /\ Nil \notin Roots
      /\ Kids \subseteq Downloads /\ FileRoots \subseteq Downloads
  BY TransferAssumption, TransferNil DEF Ids, Roots, Downloads
<1>2. w.dirs[r] \in DirRec /\ S \subseteq Kids
  BY <1>0, <1>1 DEF WorkerRec, DirRec
<1>3. \A k \in S : /\ w.parent[k] = r /\ Live(w, k) /\ k \in Range(Contents[r])
                   /\ w.ends[k] = Nil /\ ~Untouched(w, k)
  <2> SUFFICES ASSUME NEW k \in S
               PROVE  /\ w.parent[k] = r /\ Live(w, k) /\ k \in Range(Contents[r])
                      /\ w.ends[k] = Nil /\ ~Untouched(w, k)
    OBVIOUS
  <2>1. w.parent[k] = r
    BY <1>0, <1>1, <1>2 DEF Family
  <2>2. Live(w, k) /\ k \in Range(Contents[r])
    BY <1>0, <1>1, <1>2, <2>1 DEF Family
  <2> QED BY <1>0, <1>2, <2>1, <2>2 DEF InOrder, Live, Untouched
<1>4. \A i \in Ids \ S : /\ Live(u, i) <=> Live(w, i)
                         /\ Untouched(u, i) <=> Untouched(w, i)
                         /\ u.ends[i] = w.ends[i]
  BY DEF SameId, Live, Untouched
<1>5. \A s \in DirRoots : u.ends[s] = w.ends[s]
  BY <1>1, <1>2, <1>4
<1>6. Pending(u) = Pending(w) /\ \A k \in Kids : Untouched(w, k) => Untouched(u, k)
  BY <1>1, <1>3, <1>4 DEF Pending
<1>7. w.dirs[r] # NoDir /\ w.ends[r] = Nil /\ u.dirs[r] # NoDir
  BY <1>0 DEF NoDir, Aggregates
<1>8. Aggregates(u)
  <2>1. \A f \in FileRoots : u.dirs[f] = NoDir
    BY <1>0, <1>1 DEF Aggregates
  <2>2. ASSUME NEW s \in DirRoots
        PROVE  /\ u.dirs[s] # NoDir => u.dirs[s].is /\ u.ends[s] = Nil
               /\ u.pending[s] # Nil => u.dirs[s].is /\ ~u.dirs[s].done
               /\ u.pending[s] = "cancelled" => u.dirs[s].cancelled
    <3>1. CASE s = r
      BY <1>0, <1>5, <1>7, <3>1 DEF Aggregates
    <3>2. CASE s # r
      BY <1>0, <1>1, <1>5, <3>2 DEF Aggregates
    <3> QED BY <3>1, <3>2
  <2> QED BY <2>1, <2>2 DEF Aggregates
<1>9. RootsWait(u)
  <2> SUFFICES ASSUME NEW s \in Range(u.roots)
               PROVE  /\ u.pending[s] = Nil
                      /\ s \in DirRoots => u.dirs[s].is /\ ~u.dirs[s].done /\ u.dirs[s].kids = {}
    BY <1>0 DEF RootsWait
  <2>1. CASE s = r
    BY <1>0, <2>1 DEF RootsWait
  <2>2. CASE s # r
    BY <1>0, <1>1, <2>2 DEF RootsWait
  <2> QED BY <2>1, <2>2
<1>10. StreamOrdered(u)
  BY <1>0, <1>6, SMT DEF StreamOrdered
<1>11. FilesAreNew(u)
  <2>1. \A m \in Pending(u) : m.file \in Kids => Untouched(u, m.file)
    BY <1>0, <1>6 DEF FilesAreNew
  <2>2. u.scan.st = "run" =>
          /\ \A k \in Range(u.scan.left) \cap Kids :
               Untouched(u, k) /\ \A m \in Pending(u) : m.file # k
          /\ IsInjective(u.scan.left)
    BY <1>0, <1>6 DEF FilesAreNew
  <2>3. /\ u.deferred # Nil /\ u.deferred.file \in Kids
             => \A m \in Range(u.found) : m.file # u.deferred.file
        /\ \A i, j \in DOMAIN u.found :
             i # j /\ u.found[i].file \in Kids => u.found[j].file # u.found[i].file
    BY <1>0 DEF FilesAreNew
  <2>4. ASSUME NEW s \in DirRoots, (u.ends[s] = Nil /\ u.dirs[s] = NoDir) \/ s \in Range(u.roots),
               NEW k \in Range(Contents[s])
        PROVE  Untouched(u, k)
    <3>1. (w.ends[s] = Nil /\ w.dirs[s] = NoDir) \/ s \in Range(w.roots)
      BY <1>1, <1>5, <1>7, <2>4
    <3>2. Untouched(w, k) /\ k \in Kids
      BY <1>0, <3>1, IdFacts DEF FilesAreNew
    <3> QED BY <1>6, <3>2
  <2> QED BY <2>1, <2>2, <2>3, <2>4 DEF FilesAreNew
<1>12. Family(u)
  <2>1. \A f \in FileRoots : u.parent[f] = Nil
    BY <1>0, <1>1, <1>2 DEF Family
  <2>2. ASSUME NEW k \in Kids
        PROVE  /\ u.parent[k] # Nil <=> Live(u, k)
               /\ \A s \in Roots : u.parent[k] = s <=> k \in u.dirs[s].kids
               /\ \A s \in DirRoots : u.parent[k] = s => k \in Range(Contents[s])
    <3>1. CASE k \in S
      <4>1. u.parent[k] = Nil /\ ~Live(u, k) /\ w.parent[k] = r
        BY <1>1, <1>3, <3>1 DEF Live
      <4>2. \A s \in Roots : k \notin u.dirs[s].kids
        BY <1>0, <3>1, <4>1 DEF Family
      <4> QED BY <1>1, <4>1, <4>2
    <3>2. CASE k \notin S
      <4>1. u.parent[k] = w.parent[k] /\ (Live(u, k) <=> Live(w, k))
        BY <1>1, <1>4, <3>2
      <4>2. \A s \in Roots : k \in u.dirs[s].kids <=> k \in w.dirs[s].kids
        BY <3>2
      <4> QED BY <1>0, <4>1, <4>2 DEF Family
    <3> QED BY <3>1, <3>2
  <2> QED BY <2>1, <2>2 DEF Family
<1>13. NothingSkipped(u)
  <2> SUFFICES ASSUME NEW s \in DirRoots
               PROVE  /\ u.dirs[s].is /\ ~Lacks(u, s) /\ s \notin Range(u.roots)
                           => \A k \in Range(Contents[s]) :
                                u.ends[k] = "Completed" \/ k \in u.dirs[s].kids \/ Comes(u, s, k)
                      /\ u.ends[s] = "Completed"
                           => \A k \in Range(Contents[s]) : u.ends[k] = "Completed"
    BY DEF NothingSkipped
  <2>1. \A k \in Range(Contents[s]) : k \in Kids /\ k \in Ids /\ (Comes(u, s, k) <=> Comes(w, s, k))
    BY <1>1, <1>6, IdFacts DEF Comes
  <2>2. CASE s = r
    <3>1. u.ends[r] # "Completed"
      BY <1>5, <1>7, TransferNil DEF Outcomes
    <3>2. ASSUME ~Lacks(u, r), r \notin Range(u.roots), NEW k \in Range(Contents[r])
          PROVE  u.ends[k] = "Completed" \/ k \in u.dirs[r].kids \/ Comes(u, r, k)
      <4>1. ~Lacks(w, r) /\ (e = "Completed" \/ S = {})
        BY <1>6, <3>2 DEF Lacks
      <4>2. w.ends[k] = "Completed" \/ k \in w.dirs[r].kids \/ Comes(w, r, k)
        BY <1>0, <3>2, <4>1 DEF NothingSkipped
      <4>3. CASE k \in S
        BY <4>1, <4>3
      <4>4. CASE k \notin S
        <5>1. u.ends[k] = w.ends[k] /\ (Comes(u, r, k) <=> Comes(w, r, k))
          BY <1>4, <2>1, <2>2, <4>4
        <5> QED BY <4>2, <4>4, <5>1
      <4> QED BY <4>3, <4>4
    <3> QED BY <2>2, <3>1, <3>2
  <2>3. CASE s # r
    <3>1. u.dirs[s] = w.dirs[s] /\ (Lacks(u, s) <=> Lacks(w, s))
      BY <1>1, <1>6, <2>3 DEF Lacks
    <3>2. \A k \in Range(Contents[s]) : k \notin S
      BY <1>2, <1>3, <2>3, IdFacts
    <3>3. \A k \in Range(Contents[s]) : u.ends[k] = w.ends[k]
      BY <1>4, <2>1, <3>2
    <3> QED BY <1>0, <1>5, <2>1, <3>1, <3>3 DEF NothingSkipped
  <2> QED BY <2>2, <2>3
<1>14. InOrder(u)
  <2>1. \A i \in S \cap Ids : IdInOrder(u, i)
    <3> SUFFICES ASSUME NEW i \in S, i \in Ids PROVE IdInOrder(u, i)
      OBVIOUS
    <3>1. w.result[i] \in {"Conflict", "Skipped"} => i \in Uploads
      BY <1>0 DEF InOrder
    <3> QED BY <1>1, <1>2, <3>1, TransferNil DEF IdInOrder, Live, Outcomes
  <2>2. \A n \in DOMAIN u.uploads : u.uploads[n] \notin S
    BY <1>1, <1>2 DEF WorkerRec
  <2>3. \A n \in DOMAIN u.queue : u.queue[n] \notin S \cap Kids
    OBVIOUS
  <2> QED BY <1>0, <2>1, <2>2, <2>3, InOrderKept
<1>15. Busy(u) <= PerTab
  <2>1. Busy(u) <= Busy(w) /\ Busy(u) \in Nat /\ Busy(w) \in Nat /\ PerTab \in Nat
    BY <1>0, BusyShrinks, BusyIsUnder, TransferAssumption
  <2> QED BY <1>0, <2>1
<1> QED BY <1>8, <1>9, <1>10, <1>11, <1>12, <1>13, <1>14, <1>15 DEF Sound, DirPart

\* The end of a file or upload that was under way.
LEMMA FileEnds ==
    ASSUME NEW v \in WorkerRec, NEW w, Sound(w), SameDirectories(v, w),
           v.ends = w.ends, v.again = w.again,
           NEW i \in Downloads \cup Uploads, i \notin FileRoots => Live(w, i),
           NEW e \in Outcomes, e = "Skipped" => i \in Uploads,
           \A j \in Ids \ {i} : SameId(v, w, j),
           v.place[i] \in {"none", "dropped"}, v.result[i] \in {Nil, w.result[i]},
           Within(v.queue, w.queue), \A n \in DOMAIN v.queue : i \in Kids => v.queue[n] # i,
           Within(v.uploads, w.uploads), \A n \in DOMAIN v.uploads : v.uploads[n] # i,
           Under(v) \subseteq Under(w)
    PROVE  Sound(TellFile(v, i, e))
<1>0. /\ w \in WorkerRec /\ InOrder(w) /\ w.again \subseteq FileRoots
      /\ Aggregates(w) /\ Family(w)
  BY DEF Sound, DirPart
<1>1. /\ i \in Ids /\ Downloads = FileRoots \cup Kids /\ Downloads \cap Uploads = {}
      /\ Roots = FileRoots \cup DirRoots /\ Nil \notin Roots
      /\ i \in Kids \cup Uploads => i \notin FileRoots
  BY TransferAssumption, TransferNil DEF Ids, Roots, Downloads
<1>2. i \in Kids \cup Uploads => w.ends[i] = Nil
  BY <1>0, <1>1 DEF InOrder
<1> DEFINE t == Tell(v, i, e)
<1>3. Told(t, v, i, e)
  BY <1>1, TellFacts
<1>4. CASE i \in FileRoots \cup Uploads
  <2>1. Sound(t)
    BY <1>1, <1>2, <1>4, OutsiderEnds
  <2>2. CASE i \in Uploads
    BY <1>1, <2>1, <2>2 DEF TellFile
  <2>3. CASE i \in FileRoots
    <3>1. t.parent[i] = Nil
      BY <1>0, <1>3, <2>3 DEF Told, SameDirectories, Family
    <3> QED BY <1>1, <2>1, <2>3, <3>1 DEF TellFile, CompleteChild
  <2> QED BY <1>4, <2>2, <2>3
<1>5. CASE i \in Kids
  <2> HIDE DEF t
  <2> DEFINE r == w.parent[i]
             u == [t EXCEPT !.parent[i] = Nil,
                            !.dirs[r].kids = @ \ {i},
                            !.dirs[r].failed = IF ChildFails(e) THEN @ + 1 ELSE @]
  <2>1. /\ i \in Downloads /\ i \notin Uploads /\ r \in Roots \cup {Nil} /\ r # Nil
        /\ w.ends[i] = Nil
    BY <1>0, <1>1, <1>2, <1>5 DEF Family, WorkerRec
  <2>2. i \in w.dirs[r].kids /\ r \in DirRoots
    <3>1. i \in w.dirs[r].kids
      BY <1>0, <1>5, <2>1 DEF Family
    <3>2. r \notin FileRoots
      BY <1>0, <3>1 DEF Aggregates, NoDir
    <3> QED BY <1>1, <2>1, <3>1, <3>2
  <2>3. w.dirs[r] # NoDir /\ w.dirs[r].is
    BY <1>0, <2>2 DEF Aggregates, NoDir
  <2>4. /\ t \in WorkerRec /\ SameDirectories(t, w)
        /\ t.queue = v.queue /\ t.uploads = v.uploads /\ t.place = v.place /\ t.result = v.result
        /\ t.again = w.again /\ \A j \in Ids : t.ends[j] = IF j = i THEN e ELSE w.ends[j]
    BY <1>3, <2>1 DEF Told, SameDirectories
  <2>5. TellFile(v, i, e) = FinishDirectory(u, r)
    BY <2>1, <2>4 DEF TellFile, CompleteChild, t, SameDirectories
  <2>6. /\ u.roots = t.roots /\ u.pending = t.pending /\ u.scan = t.scan
        /\ u.found = t.found /\ u.deferred = t.deferred /\ u.queue = t.queue
        /\ u.uploads = t.uploads /\ u.place = t.place /\ u.result = t.result
        /\ u.ends = t.ends /\ u.again = t.again
    BY <2>4 DEF WorkerRec
  <2>7. /\ r \in Roots /\ t.dirs \in [Roots -> DirRec] /\ t.dirs = w.dirs
        /\ t.parent \in [Downloads -> Roots \cup {Nil}] /\ t.parent = w.parent
        /\ t.dirs[r] \in DirRec
    BY <1>1, <2>2, <2>4 DEF WorkerRec, SameDirectories
  <2> DEFINE d == [t.dirs[r] EXCEPT !.kids = @ \ {i},
                                    !.failed = IF ChildFails(e) THEN @ + 1 ELSE @]
  <2>8. d \in DirRec
    <3>1. t.dirs[r].failed \in Nat /\ t.dirs[r].kids \ {i} \in SUBSET Kids
      BY <2>7 DEF DirRec
    <3>2. (IF ChildFails(e) THEN t.dirs[r].failed + 1 ELSE t.dirs[r].failed) \in Nat
      BY <3>1
    <3> QED BY <2>7, <3>1, <3>2, Zenon DEF DirRec
  <2>9. /\ d.is = w.dirs[r].is /\ d.done = w.dirs[r].done /\ d.cancelled = w.dirs[r].cancelled
        /\ d.kids = w.dirs[r].kids \ {i}
        /\ d.failed = IF ChildFails(e) THEN w.dirs[r].failed + 1 ELSE w.dirs[r].failed
    BY <2>7 DEF DirRec
  <2>10. w.dirs[r].failed \in Nat
    BY <2>7 DEF DirRec
  <2>11. /\ u = [t EXCEPT !.parent = [t.parent EXCEPT ![i] = Nil],
                          !.dirs = [t.dirs EXCEPT ![r] = d]]
         /\ u.dirs = [t.dirs EXCEPT ![r] = d] /\ u.parent = [t.parent EXCEPT ![i] = Nil]
    <3>1. [t.dirs EXCEPT ![r].kids = @ \ {i},
                         ![r].failed = IF ChildFails(e) THEN @ + 1 ELSE @]
            = [t.dirs EXCEPT ![r] = d]
      BY <2>7
    <3>2. u = [t EXCEPT !.parent = [t.parent EXCEPT ![i] = Nil],
                        !.dirs = [t.dirs EXCEPT ![r].kids = @ \ {i},
                                    ![r].failed = IF ChildFails(e) THEN @ + 1 ELSE @]]
      BY <2>4, <2>7 DEF WorkerRec
    <3>3. u = [t EXCEPT !.parent = [t.parent EXCEPT ![i] = Nil],
                        !.dirs = [t.dirs EXCEPT ![r] = d]]
      BY <3>1, <3>2, Zenon
    <3> HIDE DEF u, d
    <3> QED BY <2>4, <3>3 DEF WorkerRec
  <2> HIDE DEF d, u
  <2>12. u \in WorkerRec
    <3>1. [t.parent EXCEPT ![i] = Nil] \in [Downloads -> Roots \cup {Nil}]
      BY <2>7
    <3>2. [t.dirs EXCEPT ![r] = d] \in [Roots -> DirRec]
      BY <2>7, <2>8
    <3> QED BY <2>4, <2>11, <3>1, <3>2, Zenon DEF WorkerRec
  <2>13. /\ u.dirs[r] = d /\ \A s \in Roots \ {r} : u.dirs[s] = w.dirs[s]
         /\ \A k \in Downloads : u.parent[k] = IF k \in {i} THEN Nil ELSE w.parent[k]
    BY <2>7, <2>11
  <2>14. e \in {"Completed", "Failed", "Cancelled"}
    BY <2>1 DEF Outcomes
  <2>15. ~(u.dirs[r].failed > 0)
           => ~(w.dirs[r].failed > 0) /\ (e = "Completed" \/ {i} = {})
    BY <2>9, <2>10, <2>13, <2>14 DEF ChildFails
  <2>16. /\ u.dirs[r].is /\ u.dirs[r].done = w.dirs[r].done
         /\ u.dirs[r].cancelled = w.dirs[r].cancelled /\ u.dirs[r].kids = w.dirs[r].kids \ {i}
    BY <2>3, <2>9, <2>13
  <2>17. /\ \A j \in Ids \ {i} : SameId(u, w, j)
         /\ \A j \in {i} : /\ u.place[j] \in {"none", "dropped"} /\ u.ends[j] = e
                           /\ u.result[j] \in {Nil, w.result[j]}
    BY <1>1, <2>4, <2>6 DEF SameId
  <2>18. /\ Within(u.queue, w.queue) /\ \A n \in DOMAIN u.queue : u.queue[n] \notin {i}
         /\ Within(u.uploads, w.uploads)
         /\ u.again \subseteq FileRoots /\ Under(u) \subseteq Under(w)
    <3>1. Under(u) = Under(v)
      BY <2>4, <2>6 DEF Under, In
    <3> QED BY <1>0, <1>5, <2>4, <2>6, <3>1
  <2>19. /\ u.roots = w.roots /\ u.pending = w.pending /\ u.scan = w.scan
         /\ u.found = w.found /\ u.deferred = w.deferred
    BY <2>4, <2>6 DEF SameDirectories
  <2>20. {i} \subseteq w.dirs[r].kids
    BY <2>2
  <2> HIDE DEF r
  <2>21. KidsEnded(u, w, r, {i}, e)
    BY <2>13, <2>15, <2>16, <2>17, <2>18, <2>19, Zenon DEF KidsEnded
  <2>22. Sound(u)
    BY <2>2, <2>3, <2>12, <2>14, <2>20, <2>21, KidsEnd
  <2> QED BY <2>2, <2>5, <2>22, FinishDirectorySound
<1> QED BY <1>1, <1>4, <1>5

-----------------------------------------------------------------------------
(* Steps of transfers.                                                     *)

\* Uploads that were not queued are queued.
LEMMA UploadsQueued ==
    ASSUME NEW v \in WorkerRec, NEW w, Sound(w), SameDirectories(v, w),
           v.ends = w.ends, v.again = w.again,
           NEW s \in Seq(Uploads), IsInjective(s),
           \A i \in Ids \ Range(s) : SameId(v, w, i),
           \A u \in Range(s) : /\ w.place[u] # "queue" /\ v.place[u] = "queue"
                               /\ v.ends[u] = Nil,
           v.queue = w.queue, v.uploads = w.uploads \o s
    PROVE  Sound(v)
<1>0. w \in WorkerRec /\ DirPart(w) /\ InOrder(w) /\ Busy(w) <= PerTab /\ w.again \subseteq FileRoots
  BY DEF Sound
<1>1. DirPart(v)
  <2>1. \A k \in Kids : k \in Ids \ Range(s)
    BY TransferAssumption DEF Ids, Range
  <2>2. \A k \in Kids : v.place[k] = w.place[k]
    BY <2>1 DEF SameId
  <2> QED BY <1>0, <2>2, DirPartKept DEF Live
<1>2. InOrder(v)
  BY <1>0, InOrderUploads
<1>3. Busy(v) <= PerTab
  <2>1. Under(v) \subseteq Under(w)
    BY DEF Under, In, SameId
  <2>2. Busy(v) <= Busy(w) /\ Busy(v) \in Nat /\ Busy(w) \in Nat /\ PerTab \in Nat
    BY <1>0, <2>1, BusyShrinks, BusyIsUnder, TransferAssumption
  <2> QED BY <1>0, <2>2
<1> QED BY <1>0, <1>1, <1>2, <1>3 DEF Sound

\* Whether an upload keeps its slot concerns nothing else.
LEMMA SlotFreed ==
    ASSUME NEW w, Sound(w), NEW i
    PROVE  Sound([w EXCEPT !.slots = @ \ {i}])
<1> DEFINE v == [w EXCEPT !.slots = @ \ {i}]
<1>0. w \in WorkerRec
  BY DEF Sound
<1>1. w.slots \ {i} \in SUBSET Uploads
  BY <1>0 DEF WorkerRec
<1>2. v \in WorkerRec
  BY <1>0, <1>1, Zenon DEF WorkerRec
<1>3. /\ SameDirectories(v, w) /\ v.ends = w.ends /\ v.again = w.again
      /\ v.queue = w.queue /\ v.uploads = w.uploads /\ v.place = w.place /\ v.result = w.result
  BY <1>0 DEF WorkerRec, SameDirectories
<1> HIDE DEF v
<1>4. Under(v) \subseteq Under(w) /\ \A j \in Ids \ {} : SameId(v, w, j)
  BY <1>3 DEF Under, In, SameId
<1>5. \A j \in {} \cap Ids : /\ w.place[j] \notin {"none", "queue"}
                             /\ Live(v, j) <=> Live(w, j)
                             /\ IdInOrder(v, j)
  OBVIOUS
<1>6. Sound(v)
  BY <1>2, <1>3, <1>4, <1>5, MovesSound, ZenonT(40)
<1> QED BY <1>6 DEF v

\* What changes when ids move and nothing is reported.
LEMMA PlaceFacts ==
    ASSUME NEW w \in WorkerRec, NEW i \in Ids, NEW p \in Places
    PROVE  /\ [w EXCEPT !.place[i] = p] \in WorkerRec
           /\ SameDirectories([w EXCEPT !.place[i] = p], w)
           /\ [w EXCEPT !.place[i] = p].ends = w.ends /\ [w EXCEPT !.place[i] = p].again = w.again
           /\ [w EXCEPT !.place[i] = p].queue = w.queue
           /\ [w EXCEPT !.place[i] = p].uploads = w.uploads
           /\ [w EXCEPT !.place[i] = p].result = w.result
           /\ \A j \in Ids : [w EXCEPT !.place[i] = p].place[j] = IF j = i THEN p ELSE w.place[j]
<1>1. w.place \in [Ids -> Places]
  BY DEF WorkerRec
<1>2. [w.place EXCEPT ![i] = p] \in [Ids -> Places]
  BY <1>1
<1>3. [w EXCEPT !.place[i] = p] \in WorkerRec
  BY <1>2, Zenon DEF WorkerRec
<1> QED BY <1>1, <1>3 DEF WorkerRec, SameDirectories

\* A task that ended is joined before its event is read (reap_finished_sftp_transfers).
LEMMA ReapsSound ==
    ASSUME NEW w, Sound(w), NEW v \in Reaps(w)
    PROVE  /\ Sound(v) /\ v \in WorkerRec
           /\ SameDirectories(v, w) /\ v.ends = w.ends /\ v.again = w.again /\ v.result = w.result
           /\ v.queue = w.queue /\ v.uploads = w.uploads
           /\ \A i \in Ids : v.place[i] = w.place[i] \/ (w.place[i] = "posted" /\ v.place[i] = "reaped")
<1>0. w \in WorkerRec /\ InOrder(w)
  BY DEF Sound
<1>1. PICK S \in SUBSET In(w, {"posted"}) :
        v = [w EXCEPT !.place = [i \in Ids |-> IF i \in S THEN "reaped" ELSE w.place[i]]]
  BY DEF Reaps
<1>2. [i \in Ids |-> IF i \in S THEN "reaped" ELSE w.place[i]] \in [Ids -> Places]
  BY <1>0 DEF WorkerRec, Places
<1>3. v \in WorkerRec
  BY <1>0, <1>1, <1>2, Zenon DEF WorkerRec
<1>4. /\ SameDirectories(v, w) /\ v.ends = w.ends /\ v.again = w.again /\ v.result = w.result
      /\ v.queue = w.queue /\ v.uploads = w.uploads
      /\ v.place = [i \in Ids |-> IF i \in S THEN "reaped" ELSE w.place[i]]
  BY <1>0, <1>1 DEF WorkerRec, SameDirectories
<1>5. \A i \in S : i \in Ids /\ w.place[i] = "posted"
  BY DEF In
<1>6. \A i \in Ids \ S : SameId(v, w, i)
  BY <1>4 DEF SameId
<1>7. \A i \in S \cap Ids : /\ w.place[i] \notin {"none", "queue"}
                            /\ Live(v, i) <=> Live(w, i)
                            /\ IdInOrder(v, i)
  BY <1>0, <1>4, <1>5 DEF Live, IdInOrder, InOrder
<1>8. Under(v) \subseteq Under(w)
  BY <1>4 DEF Under, In
<1>9. Sound(v)
  BY <1>3, <1>4, <1>6, <1>7, <1>8, MovesSound, ZenonT(40)
<1>10. \A i \in Ids : v.place[i] = w.place[i] \/ (w.place[i] = "posted" /\ v.place[i] = "reaped")
  <2> SUFFICES ASSUME NEW i \in Ids
               PROVE  v.place[i] = w.place[i] \/ (w.place[i] = "posted" /\ v.place[i] = "reaped")
    OBVIOUS
  <2>1. v.place[i] = IF i \in S THEN "reaped" ELSE w.place[i]
    BY <1>4
  <2>2. i \in S => w.place[i] = "posted"
    BY <1>5
  <2> QED BY <2>1, <2>2
<1> QED BY <1>3, <1>4, <1>9, <1>10

\* A cancelled opening is joined, or a task posts its end.
LEMMA TaskStepsSound ==
    ASSUME Sound(x), NEW i \in Ids, DroppedOpeningEnds(i) \/ TaskPosts(i)
    PROVE  Sound(x')
<1>0. x \in WorkerRec /\ InOrder(x)
  BY DEF Sound
<1>1. CASE DroppedOpeningEnds(i)
  <2>1. x.place[i] = "dropped" /\ x' = [x EXCEPT !.place[i] = "none", !.skipped = TRUE]
    BY <1>1 DEF DroppedOpeningEnds
  <2>2. x' \in WorkerRec
    <3>1. [x.place EXCEPT ![i] = "none"] \in [Ids -> Places]
      BY <1>0 DEF WorkerRec, Places
    <3> QED BY <1>0, <2>1, <3>1, Zenon DEF WorkerRec
  <2>3. /\ SameDirectories(x', x) /\ x'.ends = x.ends /\ x'.again = x.again
        /\ x'.queue = x.queue /\ x'.uploads = x.uploads /\ x'.result = x.result
        /\ \A j \in Ids : x'.place[j] = IF j = i THEN "none" ELSE x.place[j]
    BY <1>0, <2>1 DEF WorkerRec, SameDirectories
  <2>4. /\ \A j \in Ids \ {i} : SameId(x', x, j)
        /\ \A j \in {i} \cap Ids : /\ x.place[j] \notin {"none", "queue"}
                                   /\ Live(x', j) <=> Live(x, j)
                                   /\ IdInOrder(x', j)
        /\ Under(x') \subseteq Under(x)
    BY <1>0, <2>1, <2>3 DEF SameId, Live, IdInOrder, InOrder, Under, In
  <2> QED BY <2>2, <2>3, <2>4, MovesSound
<1>2. CASE TaskPosts(i)
  <2>1. PICK e \in Outcomes \cup {"Conflict"} :
          /\ e \in {"Skipped", "Conflict"} => i \in Uploads
          /\ x' = [x EXCEPT !.place[i] = "posted", !.result[i] = e]
    BY <1>2 DEF TaskPosts
  <2>2. x' \in WorkerRec
    <3>1. [x.place EXCEPT ![i] = "posted"] \in [Ids -> Places]
      BY <1>0 DEF WorkerRec, Places
    <3>2. [x.result EXCEPT ![i] = e] \in [Ids -> Results \cup {Nil}]
      BY <1>0 DEF WorkerRec, Results
    <3> QED BY <1>0, <2>1, <3>1, <3>2, Zenon DEF WorkerRec
  <2>3. /\ SameDirectories(x', x) /\ x'.ends = x.ends /\ x'.again = x.again
        /\ x'.queue = x.queue /\ x'.uploads = x.uploads
        /\ \A j \in Ids : /\ x'.place[j] = IF j = i THEN "posted" ELSE x.place[j]
                          /\ x'.result[j] = IF j = i THEN e ELSE x.result[j]
    BY <1>0, <2>1 DEF WorkerRec, SameDirectories
  <2>4. e # Nil /\ x.place[i] \in {"active", "stopping"}
    BY <1>2, TransferNil DEF TaskPosts
  <2>5. /\ \A j \in Ids \ {i} : SameId(x', x, j)
        /\ \A j \in {i} \cap Ids : /\ x.place[j] \notin {"none", "queue"}
                                   /\ Live(x', j) <=> Live(x, j)
                                   /\ IdInOrder(x', j)
        /\ Under(x') \subseteq Under(x)
    BY <1>0, <2>1, <2>3, <2>4 DEF SameId, Live, IdInOrder, InOrder, Under, In
  <2> QED BY <2>2, <2>3, <2>5, MovesSound
<1> QED BY <1>1, <1>2

\* An opening ends: the transfer runs, or has failed.
LEMMA OpeningEndsSound ==
    ASSUME Sound(x), elsewhere \in Nat, NEW i \in Ids, OpeningEnds(i)
    PROVE  Sound(x')
<1>0. x \in WorkerRec /\ InOrder(x) /\ x.place[i] = "opening"
  BY DEF Sound, OpeningEnds
<1> DEFINE v(p) == [x EXCEPT !.place[i] = p]
<1>1. PICK w : /\ w = v("active") \/ w = TellFile(v("none"), i, "Failed")
               /\ x' \in StartNext({w})
  BY DEF OpeningEnds
<1>2. i \in Downloads \cup Uploads /\ Live(x, i)
  BY <1>0 DEF InOrder, Ids, Roots, Downloads, Live
<1>3. ASSUME NEW p \in {"active", "none"}
      PROVE  /\ v(p) \in WorkerRec /\ SameDirectories(v(p), x)
             /\ v(p).ends = x.ends /\ v(p).again = x.again
             /\ v(p).queue = x.queue /\ v(p).uploads = x.uploads
             /\ v(p).result = x.result
             /\ \A j \in Ids : v(p).place[j] = IF j = i THEN p ELSE x.place[j]
  <2>1. p \in Places
    BY DEF Places
  <2> QED BY <1>0, <2>1, PlaceFacts, ZenonT(40)
<1> HIDE DEF v
<1>4. ASSUME NEW p \in {"active", "none"}
      PROVE  /\ \A j \in Ids \ {i} : SameId(v(p), x, j)
             /\ Under(v(p)) \subseteq Under(x)
  BY <1>0, <1>3 DEF SameId, Under, In
<1>5. CASE w = v("active")
  <2>1. \A j \in {i} \cap Ids : /\ x.place[j] \notin {"none", "queue"}
                                /\ Live(v("active"), j) <=> Live(x, j)
                                /\ IdInOrder(v("active"), j)
    BY <1>0, <1>3 DEF Live, IdInOrder, InOrder
  <2>2. Sound(v("active"))
    BY <1>3, <1>4, <2>1, MovesSound
  <2> QED BY <1>1, <1>5, <2>2, StartNextSound
<1>6. CASE w = TellFile(v("none"), i, "Failed")
  <2>1. /\ \A n \in DOMAIN x.queue : i \in Kids => x.queue[n] # i
        /\ \A n \in DOMAIN x.uploads : x.uploads[n] # i
    BY <1>0 DEF InOrder
  <2>2. Within(x.queue, x.queue) /\ Within(x.uploads, x.uploads)
    BY DEF Within
  <2>3. "Failed" \in Outcomes
    BY DEF Outcomes
  <2>4. /\ v("none") \in WorkerRec /\ SameDirectories(v("none"), x)
        /\ v("none").ends = x.ends /\ v("none").again = x.again
        /\ v("none").queue = x.queue /\ v("none").uploads = x.uploads
        /\ v("none").place[i] \in {"none", "dropped"} /\ v("none").result[i] \in {Nil, x.result[i]}
        /\ \A j \in Ids \ {i} : SameId(v("none"), x, j)
        /\ Under(v("none")) \subseteq Under(x)
    BY <1>3, <1>4
  <2>5. Sound(w)
    BY <1>2, <1>6, <2>1, <2>2, <2>3, <2>4, FileEnds
  <2> QED BY <1>1, <2>5, StartNextSound
<1> QED BY <1>1, <1>5, <1>6

\* The event of a task is read: the transfer has ended, waits for an answer, or is queued again
\* with the answer of its batch.
LEMMA TransferEventSound ==
    ASSUME Sound(x), elsewhere \in Nat, NEW i \in Ids, TransferEvent(i)
    PROVE  Sound(x')
<1> DEFINE e == x.result[i]
           done == [x EXCEPT !.place[i] = "none", !.result[i] = Nil]
           again == [done EXCEPT !.choice[i] = x.policy, !.uploads = Append(@, i),
                                 !.place[i] = "queue"]
           asks == [done EXCEPT !.place[i] = "conflict"]
<1>0. /\ x \in WorkerRec /\ InOrder(x) /\ x.place[i] \in {"posted", "reaped"}
      /\ e \in Results
  BY DEF Sound, TransferEvent, InOrder, WorkerRec
<1>1. i \in Downloads \cup Uploads /\ Live(x, i) /\ (i \in Kids \cup Uploads => x.ends[i] = Nil)
  BY <1>0 DEF InOrder, Ids, Roots, Downloads, Live
<1>2. \E w : /\ \/ e # "Conflict" /\ w = TellFile(done, i, e)
                \/ e = "Conflict" /\ x.policy # Nil /\ w = again
                \/ e = "Conflict" /\ w = asks
             /\ \/ x' \in StartNext({w})
                \/ x' \in StartNext({[w EXCEPT !.slots = @ \ {i}]})
  BY DEF TransferEvent
<1>3. /\ done \in WorkerRec /\ SameDirectories(done, x)
      /\ done.ends = x.ends /\ done.again = x.again
      /\ done.queue = x.queue /\ done.uploads = x.uploads
      /\ done.choice = x.choice
      /\ \A j \in Ids : /\ done.place[j] = IF j = i THEN "none" ELSE x.place[j]
                        /\ done.result[j] = IF j = i THEN Nil ELSE x.result[j]
  <2>1. [x.place EXCEPT ![i] = "none"] \in [Ids -> Places]
    BY <1>0 DEF WorkerRec, Places
  <2>2. [x.result EXCEPT ![i] = Nil] \in [Ids -> Results \cup {Nil}]
    BY <1>0 DEF WorkerRec
  <2>3. done \in WorkerRec
    BY <1>0, <2>1, <2>2, Zenon DEF WorkerRec
  <2> QED BY <1>0, <2>3 DEF WorkerRec, SameDirectories
<1> HIDE DEF done
<1>4. Under(done) \subseteq Under(x) /\ \A j \in Ids \ {i} : SameId(done, x, j)
  BY <1>3 DEF Under, In, SameId
<1>5. CASE e # "Conflict"
  <2>1. /\ \A n \in DOMAIN done.queue : i \in Kids => done.queue[n] # i
        /\ \A n \in DOMAIN done.uploads : done.uploads[n] # i
    BY <1>0, <1>3 DEF InOrder
  <2>2. Within(done.queue, x.queue) /\ Within(done.uploads, x.uploads)
    BY <1>3 DEF Within
  <2>3. e \in Outcomes /\ (e = "Skipped" => i \in Uploads)
    BY <1>0, <1>5 DEF Results, InOrder
  <2>4. done.place[i] \in {"none", "dropped"} /\ done.result[i] \in {Nil, x.result[i]}
    BY <1>3
  <2> HIDE DEF e
  <2>5. Sound(TellFile(done, i, e))
    BY <1>1, <1>3, <1>4, <2>1, <2>2, <2>3, <2>4, FileEnds
  <2> QED BY <1>2, <1>5, <2>5, SlotFreed, StartNextSound
<1>6. CASE e = "Conflict"
  <2>1. i \in Uploads
    BY <1>0, <1>6 DEF InOrder
  <2>2. ASSUME x.policy # Nil PROVE Sound(again)
    <3>1. /\ Append(x.uploads, i) \in Seq(Uploads)
          /\ [done.choice EXCEPT ![i] = x.policy] \in [Uploads -> Policies]
          /\ [done.place EXCEPT ![i] = "queue"] \in [Ids -> Places]
      BY <1>0, <1>3, <2>1 DEF WorkerRec, Places
    <3>2. again \in WorkerRec
      BY <1>3, <3>1, Zenon DEF WorkerRec
    <3>3. /\ SameDirectories(again, x) /\ again.ends = x.ends /\ again.again = x.again
          /\ again.queue = x.queue /\ again.uploads = Append(x.uploads, i)
          /\ \A j \in Ids : /\ again.place[j] = IF j = i THEN "queue" ELSE x.place[j]
                            /\ again.result[j] = IF j = i THEN Nil ELSE x.result[j]
      BY <1>3 DEF WorkerRec, SameDirectories
    <3> DEFINE s == <<i>>
    <3>4. s \in Seq(Uploads) /\ Append(x.uploads, i) = x.uploads \o s
      BY <1>0, <2>1, AppendIsConcat DEF WorkerRec
    <3>5. IsInjective(s) /\ Range(s) = {i}
      BY DEF IsInjective, Range
    <3> HIDE DEF again, s
    <3>6. /\ \A j \in Ids \ Range(s) : SameId(again, x, j)
          /\ \A j \in Range(s) : /\ x.place[j] # "queue" /\ again.place[j] = "queue"
                                 /\ again.ends[j] = Nil
      BY <1>0, <1>1, <2>1, <3>3, <3>5 DEF SameId
    <3> QED BY <3>2, <3>3, <3>4, <3>5, <3>6, UploadsQueued, ZenonT(40)
  <2>3. Sound(asks)
    <3>1. [done.place EXCEPT ![i] = "conflict"] \in [Ids -> Places]
      BY <1>3 DEF WorkerRec, Places
    <3>2. asks \in WorkerRec
      BY <1>3, <3>1, Zenon DEF WorkerRec
    <3>3. /\ SameDirectories(asks, x) /\ asks.ends = x.ends /\ asks.again = x.again
          /\ asks.queue = x.queue /\ asks.uploads = x.uploads
          /\ \A j \in Ids : /\ asks.place[j] = IF j = i THEN "conflict" ELSE x.place[j]
                            /\ asks.result[j] = IF j = i THEN Nil ELSE x.result[j]
      BY <1>3 DEF WorkerRec, SameDirectories
    <3> HIDE DEF asks
    <3>4. /\ \A j \in Ids \ {i} : SameId(asks, x, j)
          /\ Under(asks) \subseteq Under(x)
      BY <3>3 DEF SameId, Under, In
    <3>5. i \notin DirRoots /\ Nil \notin {"Conflict", "Skipped"}
      BY <2>1, TransferAssumption, TransferNil DEF Roots, Outcomes
    <3>6. \A j \in {i} \cap Ids : /\ x.place[j] \notin {"none", "queue"}
                                  /\ Live(asks, j) <=> Live(x, j)
                                  /\ IdInOrder(asks, j)
      BY <1>0, <1>1, <2>1, <3>3, <3>5 DEF Live, IdInOrder
    <3> QED BY <3>2, <3>3, <3>4, <3>6, MovesSound
  <2> HIDE DEF again, asks, e
  <2> QED BY <1>2, <1>6, <2>2, <2>3, SlotFreed, StartNextSound
<1> QED BY <1>5, <1>6

\* An element in front of a sequence without it.
LEMMA ConsFacts ==
    ASSUME NEW D, NEW e \in D, NEW t \in Seq(D), IsInjective(t), e \notin Range(t)
    PROVE  /\ <<e>> \o t \in Seq(D) /\ IsInjective(<<e>> \o t)
           /\ Range(<<e>> \o t) = {e} \cup Range(t)
<1> DEFINE s == <<e>> \o t
<1>1. <<e>> \in Seq(D) /\ Len(<<e>>) = 1 /\ <<e>>[1] = e
  OBVIOUS
<1>2. PICK l \in Nat : l = Len(t) /\ DOMAIN t = 1..l
  OBVIOUS
<1>3. /\ s \in Seq(D) /\ Len(s) = 1 + l
      /\ \A i \in 1..(1 + l) : s[i] = IF i <= 1 THEN e ELSE t[i - 1]
  BY <1>1, <1>2, ConcatProperties
<1>4. DOMAIN s = 1..(1 + l)
  BY <1>3
<1> HIDE DEF s
<1>5. \A i \in 1..(1 + l) : \/ i = 1 /\ s[i] = e
                            \/ i # 1 /\ i - 1 \in 1..l /\ s[i] = t[i - 1] /\ s[i] \in Range(t)
  BY <1>2, <1>3 DEF Range
<1>6. ASSUME NEW i \in 1..(1 + l), NEW j \in 1..(1 + l), s[i] = s[j] PROVE i = j
  <2>1. CASE i # 1 /\ j # 1
    <3>1. i - 1 \in DOMAIN t /\ j - 1 \in DOMAIN t /\ t[i - 1] = t[j - 1]
      BY <1>2, <1>5, <1>6, <2>1
    <3>2. i - 1 = j - 1
      BY <3>1, Zenon DEF IsInjective
    <3> QED BY <3>2
  <2>2. CASE i = 1 \/ j = 1
    BY <1>5, <1>6, <2>2
  <2> QED BY <2>1, <2>2
<1>7. IsInjective(s)
  BY <1>4, <1>6 DEF IsInjective
<1>8. Range(t) \subseteq Range(s)
  <2> SUFFICES ASSUME NEW i \in 1..l PROVE t[i] \in Range(s)
    BY <1>2 DEF Range
  <2>1. i + 1 \in 1..(1 + l) /\ s[i + 1] = t[i]
    BY <1>3
  <2> QED BY <1>4, <2>1 DEF Range
<1>9. e \in Range(s)
  BY <1>3, <1>4 DEF Range
<1>10. Range(s) \subseteq {e} \cup Range(t)
  BY <1>4, <1>5 DEF Range
<1> QED BY <1>3, <1>7, <1>8, <1>9, <1>10 DEF s

\* A single file is queued.
LEMMA FileRootQueued ==
    ASSUME NEW w, Sound(w), NEW f \in FileRoots
    PROVE  Sound([w EXCEPT !.queue = Append(@, f), !.place[f] = "queue"])
<1> DEFINE v == [w EXCEPT !.queue = Append(@, f), !.place[f] = "queue"]
<1>2. /\ f \in FileRoots /\ f \in Downloads /\ f \in Ids /\ f \notin Kids /\ f \notin Uploads
      /\ f \notin DirRoots
  BY TransferAssumption DEF Downloads, Ids, Roots
<1>3. /\ w \in WorkerRec /\ DirPart(w) /\ InOrder(w) /\ Busy(w) <= PerTab
      /\ w.again \subseteq FileRoots
  BY DEF Sound
<1>4. v \in WorkerRec
  <2>1. Append(w.queue, f) \in Seq(Downloads)
    BY <1>2, <1>3 DEF WorkerRec
  <2>2. [w.place EXCEPT ![f] = "queue"] \in [Ids -> Places]
    BY <1>3 DEF WorkerRec, Places
  <2> QED BY <1>3, <2>1, <2>2, Zenon DEF WorkerRec
<1>5. /\ SameDirectories(v, w) /\ v.ends = w.ends /\ v.again = w.again
      /\ v.queue = Append(w.queue, f) /\ v.uploads = w.uploads /\ v.result = w.result
      /\ \A j \in Ids : v.place[j] = IF j = f THEN "queue" ELSE w.place[j]
  BY <1>2, <1>3 DEF WorkerRec, SameDirectories
<1> HIDE DEF v
<1>6. DirPart(v)
  <2>1. \A k \in Kids : v.place[k] = w.place[k]
    BY <1>2, <1>5 DEF Ids
  <2> QED BY <1>3, <1>4, <1>5, <2>1, DirPartKept DEF Live
<1>7. InOrder(v)
  <2>1. \A i \in Ids \ {f} : SameId(v, w, i)
    BY <1>5 DEF SameId
  <2>2. v.place[f] = "queue" /\ v.result[f] = w.result[f]
    BY <1>2, <1>5
  <2>3. f \in Kids => w.place[f] # "queue" /\ v.ends[f] = Nil
    BY <1>2
  <2> QED BY <1>2, <1>3, <1>4, <1>5, <2>1, <2>2, <2>3, InOrderQueues
<1>8. Busy(v) <= PerTab
  <2>1. Under(v) \subseteq Under(w)
    BY <1>5 DEF Under, In
  <2>2. Busy(v) <= Busy(w) /\ Busy(v) \in Nat /\ Busy(w) \in Nat /\ PerTab \in Nat
    BY <1>3, <1>4, <2>1, BusyShrinks, BusyIsUnder, TransferAssumption
  <2> QED BY <1>3, <2>2
<1>9. Sound(v)
  BY <1>3, <1>4, <1>5, <1>6, <1>7, <1>8 DEF Sound
<1> QED BY <1>9 DEF v

\* OpenSftpFileAtLocalPath.
LEMMA OpenRequestSound ==
    ASSUME Sound(x), NEW f \in Roots, OpenRequest(f)
    PROVE  Sound(x')
<1>1. PICK w \in Reaps(x) :
        x' = StartDownloads([w EXCEPT !.queue = Append(@, f), !.place[f] = "queue"])
  BY DEF OpenRequest
<1>2. f \in FileRoots
  BY DEF OpenRequest
<1>3. Sound(w)
  BY ReapsSound
<1> QED BY <1>1, <1>2, <1>3, FileRootQueued, StartDownloadsSound

\* OpenSftpUpload.
LEMMA OpenUploadSound ==
    ASSUME Sound(x), elsewhere \in Nat, NEW u \in Uploads, OpenUpload(u)
    PROVE  Sound(x')
<1>1. PICK w \in Reaps(x) :
        x' = StartUploads([w EXCEPT !.uploads = Append(@, u), !.place[u] = "queue",
                                    !.slots = @ \cup {u}, !.choice[u] = w.policy])
  BY DEF OpenUpload
<1> DEFINE v == [w EXCEPT !.uploads = Append(@, u), !.place[u] = "queue",
                          !.slots = @ \cup {u}, !.choice[u] = w.policy]
           s == <<u>>
<1>2. u \in Ids /\ x.place[u] = "none" /\ x.ends[u] = Nil
  BY DEF OpenUpload, Known, Ids
<1>3. Sound(w) /\ w \in WorkerRec /\ w.place[u] = "none" /\ w.ends[u] = Nil
  BY <1>2, ReapsSound
<1>4. /\ Append(w.uploads, u) \in Seq(Uploads)
      /\ [w.place EXCEPT ![u] = "queue"] \in [Ids -> Places]
      /\ w.slots \cup {u} \in SUBSET Uploads
      /\ [w.choice EXCEPT ![u] = w.policy] \in [Uploads -> Policies]
  <2>1. /\ w.uploads \in Seq(Uploads) /\ w.place \in [Ids -> Places] /\ w.slots \in SUBSET Uploads
        /\ w.choice \in [Uploads -> Policies] /\ w.policy \in Policies
    BY <1>3 DEF WorkerRec
  <2>2. "queue" \in Places
    BY DEF Places
  <2>3. w.slots \cup {u} \in SUBSET Uploads
    BY <2>1
  <2>4. [w.place EXCEPT ![u] = "queue"] \in [Ids -> Places]
    BY <2>1, <2>2
  <2>5. [w.choice EXCEPT ![u] = w.policy] \in [Uploads -> Policies]
    BY <2>1
  <2> QED BY <2>1, <2>3, <2>4, <2>5
<1>5. v \in WorkerRec
  BY <1>3, <1>4, Zenon DEF WorkerRec
<1>6. /\ SameDirectories(v, w) /\ v.ends = w.ends /\ v.again = w.again
      /\ v.queue = w.queue /\ v.uploads = Append(w.uploads, u) /\ v.result = w.result
      /\ \A j \in Ids : v.place[j] = IF j = u THEN "queue" ELSE w.place[j]
  BY <1>3 DEF WorkerRec, SameDirectories
<1>7. s \in Seq(Uploads) /\ Append(w.uploads, u) = w.uploads \o s
  BY <1>3, AppendIsConcat DEF WorkerRec
<1>8. IsInjective(s) /\ Range(s) = {u}
  BY DEF IsInjective, Range
<1> HIDE DEF v, s
<1>9. /\ \A j \in Ids \ Range(s) : SameId(v, w, j)
      /\ \A j \in Range(s) : /\ w.place[j] # "queue" /\ v.place[j] = "queue"
                             /\ v.ends[j] = Nil
  BY <1>2, <1>3, <1>6, <1>8 DEF SameId
<1>10. Sound(v)
  BY <1>3, <1>5, <1>6, <1>7, <1>8, <1>9, UploadsQueued, ZenonT(40)
<1> QED BY <1>1, <1>10, StartUploadsSound DEF v

\* ResolveSftpUploadConflict, for one file or for all that wait.
LEMMA ResolveSound ==
    ASSUME Sound(x), elsewhere \in Nat, NEW u \in Uploads, NEW choice \in {"Skip", "Overwrite"},
           NEW batch \in BOOLEAN, Resolve(u, choice, batch)
    PROVE  Sound(x')
<1> DEFINE go(w) == IF batch THEN In(w, {"conflict"}) ELSE {u}
           v(w) == [w EXCEPT !.policy = IF batch THEN choice ELSE @,
                             !.choice = [i \in Uploads |-> IF i \in go(w) THEN choice ELSE @[i]],
                             !.place = [i \in Ids |-> IF i \in go(w) THEN "queue" ELSE @[i]],
                             !.uploads = @ \o <<u>> \o SetToSeq(go(w) \ {u})]
<1>1. PICK w \in Reaps(x) : x' = StartUploads(v(w))
  BY DEF Resolve
<1>2. u \in Ids /\ x.place[u] = "conflict"
  BY DEF Resolve, Ids
<1>3. Sound(w) /\ w \in WorkerRec /\ w.place[u] = "conflict" /\ InOrder(w)
  BY <1>2, ReapsSound DEF Sound
<1>4. /\ go(w) \subseteq Uploads /\ u \in go(w) /\ go(w) \subseteq Ids
      /\ \A i \in go(w) : w.place[i] = "conflict" /\ w.ends[i] = Nil
  <2>1. \A i \in go(w) : i \in Ids /\ w.place[i] = "conflict"
    BY <1>2, <1>3 DEF In
  <2>2. u \in go(w)
    BY <1>2, <1>3 DEF In
  <2> QED BY <1>3, <2>1, <2>2 DEF InOrder, Live
<1> DEFINE t == SetToSeq(go(w) \ {u})
           s == <<u>> \o t
<1>5. s \in Seq(Uploads) /\ IsInjective(s) /\ Range(s) = go(w)
  <2>1. go(w) \ {u} \in SUBSET Ids
    BY <1>4
  <2>2. IsFiniteSet(go(w) \ {u})
    BY <2>1, TransferAssumption, FS_Subset
  <2>3. t \in Seq(go(w) \ {u}) /\ IsInjective(t) /\ Range(t) = go(w) \ {u}
    BY <2>2, SetToSeqFacts
  <2> HIDE DEF t, go
  <2>4. t \in Seq(Uploads)
    <3>1. go(w) \ {u} \subseteq Uploads
      BY <1>4
    <3> QED BY <2>3, <3>1, SeqMonotonic
  <2>5. Range(t) = go(w) \ {u} /\ u \notin Range(t)
    BY <2>3
  <2>6. /\ <<u>> \o t \in Seq(Uploads) /\ IsInjective(<<u>> \o t)
        /\ Range(<<u>> \o t) = {u} \cup Range(t)
    BY <2>3, <2>4, <2>5, ConsFacts
  <2>7. {u} \cup Range(t) = go(w)
    BY <1>4, <2>5
  <2> QED BY <2>6, <2>7
<1>6. (w.uploads \o <<u>>) \o t = w.uploads \o s
  <2>1. w.uploads \in Seq(Uploads) /\ <<u>> \in Seq(Uploads)
    BY <1>3 DEF WorkerRec
  <2>2. IsFiniteSet(go(w) \ {u}) /\ go(w) \ {u} \subseteq Uploads
    <3>1. go(w) \ {u} \in SUBSET Ids
      BY <1>4
    <3> QED BY <1>4, <3>1, TransferAssumption, FS_Subset
  <2>3. t \in Seq(Uploads)
    BY <2>2, SetToSeqFacts, SeqMonotonic
  <2> HIDE DEF t, go
  <2>4. \A a, b, c \in Seq(Uploads) : (a \o b) \o c = a \o (b \o c)
    BY ConcatAssociative
  <2> QED BY <2>1, <2>3, <2>4, Zenon
<1> DEFINE c == [i \in Uploads |-> IF i \in go(w) THEN choice ELSE w.choice[i]]
           p == [i \in Ids |-> IF i \in go(w) THEN "queue" ELSE w.place[i]]
           b == IF batch THEN choice ELSE w.policy
<1>7. v(w) = [w EXCEPT !.policy = b, !.choice = c, !.place = p, !.uploads = w.uploads \o s]
  BY <1>6, Zenon
<1>8. /\ c \in [Uploads -> Policies] /\ p \in [Ids -> Places] /\ b \in Policies
      /\ w.uploads \o s \in Seq(Uploads)
  <2>1. choice \in Policies /\ "queue" \in Places
    BY DEF Policies, Places
  <2>2. w.uploads \o s \in Seq(Uploads)
    BY <1>3, <1>5, ConcatProperties DEF WorkerRec
  <2> QED BY <1>3, <2>1, <2>2 DEF WorkerRec
<1> DEFINE z == v(w)
<1> HIDE DEF s, t, c, b, go
<1>9. z \in WorkerRec
  <2> HIDE DEF p
  <2> QED BY <1>3, <1>7, <1>8, ZenonT(40) DEF WorkerRec
<1>10. /\ SameDirectories(z, w) /\ z.ends = w.ends /\ z.again = w.again
       /\ z.queue = w.queue /\ z.uploads = w.uploads \o s /\ z.result = w.result /\ z.place = p
  <2> HIDE DEF v, p
  <2> QED BY <1>3, <1>7 DEF WorkerRec, SameDirectories
<1> HIDE DEF v
<1>11. \A j \in Ids : z.place[j] = IF j \in go(w) THEN "queue" ELSE w.place[j]
  BY <1>10
<1> HIDE DEF z, p
<1>12. /\ \A j \in Ids \ Range(s) : SameId(z, w, j)
       /\ \A j \in Range(s) : /\ w.place[j] # "queue" /\ z.place[j] = "queue"
                              /\ z.ends[j] = Nil
  BY <1>4, <1>5, <1>10, <1>11 DEF SameId
<1>13. Sound(z)
  <2>1. s \in Seq(Uploads) /\ IsInjective(s)
    BY <1>5
  <2> QED BY <1>3, <1>9, <1>10, <1>12, <2>1, UploadsQueued, ZenonT(40)
<1> QED BY <1>1, <1>13, StartUploadsSound DEF z

-----------------------------------------------------------------------------
(* Steps of the discovery.                                                 *)

SameTransfers(v, w) ==
  /\ v.place = w.place /\ v.ends = w.ends /\ v.result = w.result /\ v.again = w.again
  /\ v.queue = w.queue /\ v.uploads = w.uploads

\* A step that leaves the transfers alone keeps what concerns them.
LEMMA TransfersKept ==
    ASSUME NEW v \in WorkerRec, NEW w, Sound(w), SameTransfers(v, w), DirPart(v)
    PROVE  Sound(v)
<1>0. w \in WorkerRec /\ InOrder(w) /\ Busy(w) <= PerTab /\ w.again \subseteq FileRoots
  BY DEF Sound
<1>1. InOrder(v)
  <2>1. \A i \in Ids : SameId(v, w, i)
    BY DEF SameTransfers, SameId
  <2>2. Within(v.queue, w.queue) /\ Within(v.uploads, w.uploads)
    BY DEF SameTransfers, Within
  <2>3. \A i \in {} \cap Ids : IdInOrder(v, i)
    OBVIOUS
  <2> QED BY <1>0, <2>1, <2>2, <2>3, InOrderKept, ZenonT(40)
<1>2. Busy(v) <= PerTab
  <2>1. Under(v) \subseteq Under(w)
    BY DEF SameTransfers, Under, In
  <2>2. Busy(v) <= Busy(w) /\ Busy(v) \in Nat /\ Busy(w) \in Nat /\ PerTab \in Nat
    BY <1>0, <2>1, BusyShrinks, BusyIsUnder, TransferAssumption
  <2> QED BY <1>0, <2>2
<1> QED BY <1>0, <1>1, <1>2 DEF Sound, SameTransfers

\* The discovery sends m, about its root, with the files left for later ones.
LEMMA MessageSent ==
    ASSUME NEW v \in WorkerRec, NEW w, Sound(w), SameTransfers(v, w),
           w.scan.st = "run", NEW m \in Messages, m.root = w.scan.root,
           v.roots = w.roots, v.pending = w.pending, v.deferred = w.deferred,
           v.dirs = w.dirs, v.parent = w.parent, v.found = Append(w.found, m),
           v.scan.root = w.scan.root,
           \/ /\ m.file \in Range(w.scan.left) /\ m.file # Nil
              /\ Range(w.scan.left) = {m.file} \cup Range(v.scan.left)
              /\ m.file \notin Range(v.scan.left) /\ IsInjective(v.scan.left)
              /\ v.scan.st = "run"
           \/ /\ m.file = Nil /\ v.scan.st = "done"
              /\ m.ok => w.scan.left = <<>>
    PROVE  Sound(v)
<1>0. /\ w \in WorkerRec
      /\ Aggregates(w) /\ RootsWait(w) /\ StreamOrdered(w) /\ FilesAreNew(w)
      /\ Family(w) /\ NothingSkipped(w)
  BY DEF Sound, DirPart
<1>1. /\ w.found \in Seq(Messages) /\ Len(w.found) \in Nat
      /\ DOMAIN v.found = 1..(Len(w.found) + 1) /\ DOMAIN w.found = 1..Len(w.found)
      /\ v.found[Len(w.found) + 1] = m
      /\ \A i \in DOMAIN w.found : v.found[i] = w.found[i] /\ w.found[i] \in Range(w.found)
      /\ Range(v.found) = Range(w.found) \cup {m}
  <2>1. w.found \in Seq(Messages)
    BY <1>0, PendingTyped
  <2> QED BY <2>1, AppendFacts DEF Range
<1>2. /\ Pending(v) = Pending(w) \cup {m} /\ Range(w.found) \subseteq Pending(w)
      /\ w.deferred # Nil => w.deferred \in Pending(w)
  BY <1>1 DEF Pending
<1>3. \A i, j \in DOMAIN v.found : i < j =>
        /\ i \in DOMAIN w.found
        /\ j \in DOMAIN w.found \/ j = Len(w.found) + 1
  BY <1>1
<1>4. \A i, j \in DOMAIN v.found : i # j =>
        \/ i \in DOMAIN w.found /\ j \in DOMAIN w.found
        \/ i = Len(w.found) + 1 /\ j \in DOMAIN w.found
        \/ i \in DOMAIN w.found /\ j = Len(w.found) + 1
  BY <1>1
<1>5. /\ w.scan.root \in Roots /\ w.pending[w.scan.root] # Nil
      /\ \A n \in Pending(w) : n.file = Nil => n.root # w.scan.root
      /\ Range(w.scan.left) \subseteq Range(FilesOf(w.scan.root))
  BY <1>0 DEF StreamOrdered
<1>6. Nil \notin Kids
  BY TransferNil DEF Ids
<1>7. \A k \in Range(w.scan.left) \cap Kids : Untouched(w, k) /\ \A n \in Pending(w) : n.file # k
  BY <1>0 DEF FilesAreNew
<1>8. Aggregates(v) /\ RootsWait(v)
  BY <1>0, ZenonT(40) DEF Aggregates, RootsWait, SameTransfers
<1>9. StreamOrdered(v)
  <2>1. \A n \in Pending(v) :
          v.pending[n.root] # Nil /\ (n.file # Nil => n.file \in Range(FilesOf(n.root)))
    BY <1>0, <1>2, <1>5 DEF StreamOrdered
  <2>2. v.scan.st = "run" =>
          /\ v.scan.root \in Roots /\ v.pending[v.scan.root] # Nil
          /\ \A n \in Pending(v) : n.file = Nil => n.root # v.scan.root
          /\ Range(v.scan.left) \subseteq Range(FilesOf(v.scan.root))
    BY <1>2, <1>5
  <2>3. v.deferred # Nil /\ v.deferred.file = Nil
          => \A n \in Range(v.found) : n.root # v.deferred.root
    BY <1>0, <1>1, <1>2, <1>5 DEF StreamOrdered
  <2>4. ASSUME NEW i \in DOMAIN v.found, NEW j \in DOMAIN v.found, i < j, v.found[i].file = Nil
        PROVE  v.found[j].root # v.found[i].root
    <3>1. i \in DOMAIN w.found /\ v.found[i] = w.found[i] /\ w.found[i] \in Pending(w)
      BY <1>1, <1>2, <1>3, <2>4
    <3>2. CASE j \in DOMAIN w.found
      <4>1. v.found[j] = w.found[j]
        BY <1>1, <3>2
      <4> QED BY <1>0, <2>4, <3>1, <3>2, <4>1 DEF StreamOrdered
    <3>3. CASE j = Len(w.found) + 1
      BY <1>1, <1>5, <2>4, <3>1, <3>3
    <3> QED BY <1>3, <2>4, <3>2, <3>3
  <2> QED BY <2>1, <2>2, <2>3, <2>4 DEF StreamOrdered
<1>10. \A k \in Kids : Untouched(v, k) <=> Untouched(w, k)
  BY DEF Untouched, SameTransfers
<1>11. m.file \in Kids => Untouched(w, m.file) /\ \A n \in Pending(w) : n.file # m.file
  BY <1>6, <1>7
<1>12. FilesAreNew(v)
  <2>1. \A n \in Pending(v) : n.file \in Kids => Untouched(v, n.file)
    BY <1>0, <1>2, <1>10, <1>11 DEF FilesAreNew
  <2>2. v.scan.st = "run" =>
          /\ \A k \in Range(v.scan.left) \cap Kids :
               Untouched(v, k) /\ \A n \in Pending(v) : n.file # k
          /\ IsInjective(v.scan.left)
    BY <1>2, <1>7, <1>10
  <2>3. v.deferred # Nil /\ v.deferred.file \in Kids
          => \A n \in Range(v.found) : n.file # v.deferred.file
    BY <1>0, <1>1, <1>2, <1>11 DEF FilesAreNew
  <2>4. ASSUME NEW i \in DOMAIN v.found, NEW j \in DOMAIN v.found, i # j, v.found[i].file \in Kids
        PROVE  v.found[j].file # v.found[i].file
    <3>1. CASE i \in DOMAIN w.found /\ j \in DOMAIN w.found
      <4>1. v.found[i] = w.found[i] /\ v.found[j] = w.found[j]
        BY <1>1, <3>1
      <4> QED BY <1>0, <2>4, <3>1, <4>1 DEF FilesAreNew
    <3>2. CASE i = Len(w.found) + 1 /\ j \in DOMAIN w.found
      BY <1>1, <1>2, <1>11, <2>4, <3>2
    <3>3. CASE i \in DOMAIN w.found /\ j = Len(w.found) + 1
      BY <1>1, <1>2, <1>11, <2>4, <3>3
    <3> QED BY <1>4, <2>4, <3>1, <3>2, <3>3
  <2>5. \A r \in DirRoots :
          (v.ends[r] = Nil /\ v.dirs[r] = NoDir) \/ r \in Range(v.roots)
            => \A k \in Range(Contents[r]) : Untouched(v, k)
    <3>1. \A r \in DirRoots : \A k \in Range(Contents[r]) : k \in Kids
      BY IdFacts
    <3> QED BY <1>0, <1>10, <3>1, Zenon DEF FilesAreNew, SameTransfers
  <2> QED BY <2>1, <2>2, <2>3, <2>4, <2>5 DEF FilesAreNew
<1>13. Family(v)
  BY <1>0, SMT DEF Family, Live, SameTransfers
<1>14. NothingSkipped(v)
  <2> SUFFICES ASSUME NEW r \in DirRoots
               PROVE  /\ v.dirs[r].is /\ ~Lacks(v, r) /\ r \notin Range(v.roots)
                           => \A k \in Range(Contents[r]) :
                                v.ends[k] = "Completed" \/ k \in v.dirs[r].kids \/ Comes(v, r, k)
                      /\ v.ends[r] = "Completed"
                           => \A k \in Range(Contents[r]) : v.ends[k] = "Completed"
    BY DEF NothingSkipped
  <2>1. ~Lacks(v, r) => ~Lacks(w, r)
    BY <1>2 DEF Lacks
  <2>2. ASSUME NEW k \in Range(Contents[r]), ~Lacks(v, r), Comes(w, r, k)
        PROVE  Comes(v, r, k)
    <3>1. CASE \E n \in Pending(w) : n.file = k
      BY <1>2, <3>1 DEF Comes
    <3>2. CASE w.scan.root = r /\ k \in Range(w.scan.left)
      <4>1. CASE m.file # Nil
        BY <1>2, <3>2, <4>1 DEF Comes
      <4>2. CASE m.file = Nil
        <5>1. m.ok
          BY <1>2, <2>2, <3>2, <4>2 DEF Lacks
        <5> QED BY <3>2, <4>2, <5>1 DEF Range
      <4> QED BY <4>1, <4>2
    <3> QED BY <2>2, <3>1, <3>2 DEF Comes
  <2> QED BY <1>0, <2>1, <2>2 DEF NothingSkipped, SameTransfers
<1> QED BY <1>8, <1>9, <1>12, <1>13, <1>14, TransfersKept DEF DirPart

\* The discovery finds a file, or ends.
LEMMA ScanSound ==
    ASSUME Sound(x), ScanFinds \/ ScanEnds
    PROVE  Sound(x')
<1>0. x \in WorkerRec /\ StreamOrdered(x) /\ FilesAreNew(x) /\ x.scan.st = "run"
  BY DEF Sound, DirPart, ScanFinds, ScanEnds
<1>1. /\ x.scan \in ScanRec /\ x.scan.left \in Seq(Downloads) /\ x.scan.root \in Roots
      /\ x.found \in Seq(Messages)
  BY <1>0 DEF WorkerRec, ScanRec, StreamOrdered
<1>2. CASE ScanFinds
  <2> DEFINE m == [root |-> x.scan.root, file |-> Head(x.scan.left), ok |-> TRUE]
  <2>1. x.scan.left # <<>> /\ x' = [x EXCEPT !.scan.left = Tail(@), !.found = Append(@, m)]
    BY <1>2 DEF ScanFinds
  <2>2. /\ Head(x.scan.left) \in Downloads /\ Head(x.scan.left) = x.scan.left[1]
        /\ Tail(x.scan.left) \in Seq(Downloads)
        /\ Len(x.scan.left) \in Nat \ {0} /\ Len(Tail(x.scan.left)) = Len(x.scan.left) - 1
        /\ \A i \in 1..(Len(x.scan.left) - 1) : Tail(x.scan.left)[i] = x.scan.left[i + 1]
        /\ Range(x.scan.left) = {Head(x.scan.left)} \cup Range(Tail(x.scan.left))
        /\ \A f \in Range(Tail(x.scan.left)) : \E i \in 2..Len(x.scan.left) : f = x.scan.left[i]
    BY <1>1, <2>1, TailFacts
  <2>3. m \in Messages /\ m.file \in Downloads /\ m.file # Nil
    BY <1>1, <2>2, TransferNil DEF Messages, Downloads, Ids, Roots
  <2>4. x' \in WorkerRec
    <3>1. [x.scan EXCEPT !.left = Tail(@)] \in ScanRec
      BY <1>1, <2>2, Zenon DEF ScanRec
    <3>2. Append(x.found, m) \in Seq(Messages)
      BY <1>1, <2>3
    <3> HIDE DEF m
    <3> QED BY <1>0, <2>1, <3>1, <3>2, Zenon DEF WorkerRec
  <2>5. /\ SameTransfers(x', x) /\ x'.roots = x.roots /\ x'.pending = x.pending
        /\ x'.deferred = x.deferred /\ x'.dirs = x.dirs /\ x'.parent = x.parent
        /\ x'.found = Append(x.found, m) /\ x'.scan = [x.scan EXCEPT !.left = Tail(@)]
    BY <1>0, <2>1 DEF WorkerRec, SameTransfers
  <2>6. x'.scan.root = x.scan.root /\ x'.scan.st = "run" /\ x'.scan.left = Tail(x.scan.left)
    BY <1>0, <1>1, <2>5 DEF ScanRec
  <2>7. IsInjective(x.scan.left)
    BY <1>0 DEF FilesAreNew
  <2>8. PICK n \in Nat \ {0} : n = Len(x.scan.left) /\ DOMAIN x.scan.left = 1..n
    BY <1>1, <2>2
  <2>9. DOMAIN Tail(x.scan.left) = 1..(n - 1)
    BY <2>2, <2>8
  <2>10. IsInjective(Tail(x.scan.left))
    <3> SUFFICES ASSUME NEW i \in 1..(n - 1), NEW j \in 1..(n - 1),
                        Tail(x.scan.left)[i] = Tail(x.scan.left)[j]
                 PROVE  i = j
      BY <2>9 DEF IsInjective
    <3>1. i + 1 \in DOMAIN x.scan.left /\ j + 1 \in DOMAIN x.scan.left
      BY <2>8
    <3>2. x.scan.left[i + 1] = x.scan.left[j + 1]
      BY <2>2, <2>8
    <3>3. i + 1 = j + 1
      BY <2>7, <3>1, <3>2, Zenon DEF IsInjective
    <3> QED BY <3>3
  <2>11. Head(x.scan.left) \notin Range(Tail(x.scan.left))
    <3> SUFFICES ASSUME NEW i \in 2..n, x.scan.left[1] = x.scan.left[i] PROVE FALSE
      BY <2>2, <2>8
    <3>1. 1 \in DOMAIN x.scan.left /\ i \in DOMAIN x.scan.left /\ i # 1
      BY <2>8
    <3> QED BY <2>7, <3>1, Zenon DEF IsInjective
  <2>12. m.root = x.scan.root /\ m.file = Head(x.scan.left)
    OBVIOUS
  <2> HIDE DEF m
  <2>13. /\ m.file \in Range(x.scan.left) /\ m.file # Nil
         /\ Range(x.scan.left) = {m.file} \cup Range(x'.scan.left)
         /\ m.file \notin Range(x'.scan.left) /\ IsInjective(x'.scan.left)
    BY <2>2, <2>3, <2>6, <2>10, <2>11, <2>12
  <2> QED BY <1>0, <2>3, <2>4, <2>5, <2>6, <2>12, <2>13, MessageSent
<1>3. CASE ScanEnds
  <2>1. PICK ok \in BOOLEAN :
          /\ ok => x.scan.left = <<>>
          /\ x' = [x EXCEPT !.scan.st = "done",
                     !.found = Append(@, [root |-> x.scan.root, file |-> Nil, ok |-> ok])]
    BY <1>3 DEF ScanEnds
  <2> DEFINE m == [root |-> x.scan.root, file |-> Nil, ok |-> ok]
  <2>2. m \in Messages /\ m.root = x.scan.root /\ m.file = Nil /\ m.ok = ok
    BY <1>1 DEF Messages
  <2>3. x' = [x EXCEPT !.scan.st = "done", !.found = Append(@, m)]
    BY <2>1
  <2> HIDE DEF m
  <2>4. x' \in WorkerRec
    <3>1. [x.scan EXCEPT !.st = "done"] \in ScanRec
      BY <1>1, Zenon DEF ScanRec
    <3>2. Append(x.found, m) \in Seq(Messages)
      BY <1>1, <2>2
    <3> QED BY <1>0, <2>3, <3>1, <3>2, Zenon DEF WorkerRec
  <2>5. /\ SameTransfers(x', x) /\ x'.roots = x.roots /\ x'.pending = x.pending
        /\ x'.deferred = x.deferred /\ x'.dirs = x.dirs /\ x'.parent = x.parent
        /\ x'.found = Append(x.found, m) /\ x'.scan = [x.scan EXCEPT !.st = "done"]
    BY <1>0, <2>3 DEF WorkerRec, SameTransfers
  <2>6. x'.scan.root = x.scan.root /\ x'.scan.st = "done"
    BY <1>1, <2>5 DEF ScanRec
  <2>7. m.ok => x.scan.left = <<>>
    BY <2>1, <2>2
  <2> QED BY <1>0, <2>2, <2>4, <2>5, <2>6, <2>7, MessageSent
<1> QED BY <1>2, <1>3

\* The next message is set aside: what is pending stays the same.
LEMMA DeferSound ==
    ASSUME Sound(x), Defer
    PROVE  Sound(x')
<1>0. /\ x \in WorkerRec
      /\ Aggregates(x) /\ RootsWait(x) /\ StreamOrdered(x) /\ FilesAreNew(x)
      /\ Family(x) /\ NothingSkipped(x)
  BY DEF Sound, DirPart
<1>1. /\ x.deferred = Nil /\ x.found # <<>> /\ x.found \in Seq(Messages)
      /\ x' = [x EXCEPT !.deferred = Head(x.found), !.found = Tail(x.found)]
  BY <1>0, PendingTyped DEF Defer
<1>2. /\ Head(x.found) \in Messages /\ Head(x.found) = x.found[1]
      /\ Tail(x.found) \in Seq(Messages)
      /\ Len(x.found) \in Nat \ {0} /\ Len(Tail(x.found)) = Len(x.found) - 1
      /\ \A i \in 1..(Len(x.found) - 1) : Tail(x.found)[i] = x.found[i + 1]
      /\ Range(x.found) = {Head(x.found)} \cup Range(Tail(x.found))
      /\ \A m \in Range(Tail(x.found)) : \E i \in 2..Len(x.found) : m = x.found[i]
  BY <1>1, TailFacts
<1>3. x' \in WorkerRec
  <2>1. Head(x.found) \in Messages \cup {Nil}
    BY <1>2
  <2> QED BY <1>0, <1>1, <1>2, <2>1, Zenon DEF WorkerRec
<1>4. /\ SameTransfers(x', x) /\ x'.roots = x.roots /\ x'.pending = x.pending /\ x'.scan = x.scan
      /\ x'.dirs = x.dirs /\ x'.parent = x.parent
      /\ x'.found = Tail(x.found) /\ x'.deferred = Head(x.found)
  BY <1>0, <1>1 DEF WorkerRec, SameTransfers
<1>5. x'.deferred # Nil
  BY <1>2, <1>4, TransferNil
<1>6. Pending(x') = Pending(x)
  BY <1>1, <1>2, <1>4, <1>5 DEF Pending
<1>7. PICK n \in Nat \ {0} : n = Len(x.found) /\ DOMAIN x.found = 1..n /\ DOMAIN x'.found = 1..(n - 1)
  BY <1>1, <1>2, <1>4
<1>8. /\ \A i \in DOMAIN x'.found : /\ i + 1 \in DOMAIN x.found /\ x'.found[i] = x.found[i + 1]
                                    /\ i \in Nat
      /\ \A m \in Range(x'.found) : \E i \in DOMAIN x.found : i # 1 /\ 1 < i /\ m = x.found[i]
      /\ 1 \in DOMAIN x.found /\ x'.deferred = x.found[1]
  BY <1>2, <1>4, <1>7
<1>9. Aggregates(x') /\ RootsWait(x')
  BY <1>0, <1>4, ZenonT(40) DEF Aggregates, RootsWait, SameTransfers
<1>10. StreamOrdered(x')
  <2>1. /\ \A m \in Pending(x') :
             x'.pending[m.root] # Nil /\ (m.file # Nil => m.file \in Range(FilesOf(m.root)))
        /\ x'.scan.st = "run" =>
             /\ x'.scan.root \in Roots /\ x'.pending[x'.scan.root] # Nil
             /\ \A m \in Pending(x') : m.file = Nil => m.root # x'.scan.root
             /\ Range(x'.scan.left) \subseteq Range(FilesOf(x'.scan.root))
    BY <1>0, <1>4, <1>6 DEF StreamOrdered
  <2>2. ASSUME x'.deferred.file = Nil, NEW m \in Range(x'.found)
        PROVE  m.root # x'.deferred.root
    <3>1. PICK i \in DOMAIN x.found : 1 < i /\ m = x.found[i]
      BY <1>8
    <3> QED BY <1>0, <1>8, <2>2, <3>1 DEF StreamOrdered
  <2>3. ASSUME NEW i \in DOMAIN x'.found, NEW j \in DOMAIN x'.found, i < j, x'.found[i].file = Nil
        PROVE  x'.found[j].root # x'.found[i].root
    <3>1. /\ i + 1 \in DOMAIN x.found /\ x'.found[i] = x.found[i + 1]
          /\ j + 1 \in DOMAIN x.found /\ x'.found[j] = x.found[j + 1] /\ i + 1 < j + 1
      BY <1>8, <2>3
    <3> QED BY <1>0, <2>3, <3>1 DEF StreamOrdered
  <2> QED BY <2>1, <2>2, <2>3 DEF StreamOrdered
<1>11. \A k \in Kids : Untouched(x', k) <=> Untouched(x, k)
  BY <1>4 DEF Untouched, SameTransfers
<1>12. FilesAreNew(x')
  <2>1. /\ \A m \in Pending(x') : m.file \in Kids => Untouched(x', m.file)
        /\ x'.scan.st = "run" =>
             /\ \A k \in Range(x'.scan.left) \cap Kids :
                  Untouched(x', k) /\ \A m \in Pending(x') : m.file # k
             /\ IsInjective(x'.scan.left)
    BY <1>0, <1>4, <1>6, <1>11 DEF FilesAreNew
  <2>2. ASSUME x'.deferred.file \in Kids, NEW m \in Range(x'.found)
        PROVE  m.file # x'.deferred.file
    <3>1. PICK i \in DOMAIN x.found : i # 1 /\ m = x.found[i]
      BY <1>8
    <3> QED BY <1>0, <1>8, <2>2, <3>1 DEF FilesAreNew
  <2>3. ASSUME NEW i \in DOMAIN x'.found, NEW j \in DOMAIN x'.found, i # j,
               x'.found[i].file \in Kids
        PROVE  x'.found[j].file # x'.found[i].file
    <3>1. /\ i + 1 \in DOMAIN x.found /\ x'.found[i] = x.found[i + 1]
          /\ j + 1 \in DOMAIN x.found /\ x'.found[j] = x.found[j + 1] /\ i + 1 # j + 1
      BY <1>8, <2>3
    <3> QED BY <1>0, <2>3, <3>1 DEF FilesAreNew
  <2>4. \A r \in DirRoots :
          (x'.ends[r] = Nil /\ x'.dirs[r] = NoDir) \/ r \in Range(x'.roots)
            => \A k \in Range(Contents[r]) : Untouched(x', k)
    <3>1. \A r \in DirRoots : \A k \in Range(Contents[r]) : k \in Kids
      BY IdFacts
    <3> QED BY <1>0, <1>4, <1>11, <3>1, Zenon DEF FilesAreNew, SameTransfers
  <2> QED BY <2>1, <2>2, <2>3, <2>4 DEF FilesAreNew
<1>13. Family(x')
  BY <1>0, <1>4, SMT DEF Family, Live, SameTransfers
<1>14. NothingSkipped(x')
  <2>1. \A r \in DirRoots : Lacks(x', r) <=> Lacks(x, r)
    BY <1>4, <1>6 DEF Lacks
  <2>2. \A r \in DirRoots : \A k \in Range(Contents[r]) : Comes(x', r, k) <=> Comes(x, r, k)
    BY <1>4, <1>6 DEF Comes
  <2> QED BY <1>0, <1>4, <2>1, <2>2, Zenon DEF NothingSkipped, SameTransfers
<1> QED BY <1>3, <1>4, <1>9, <1>10, <1>12, <1>13, <1>14, TransfersKept DEF DirPart

\* A new root waits for its discovery.
LEMMA RootQueued ==
    ASSUME NEW v \in WorkerRec, NEW w, Sound(w), SameTransfers(v, w),
           NEW r \in Roots, r \notin Range(w.roots), w.pending[r] = Nil, w.dirs[r] = NoDir,
           w.ends[r] = Nil,
           v.pending = w.pending, v.scan = w.scan, v.found = w.found, v.deferred = w.deferred,
           v.parent = w.parent, v.roots = Append(w.roots, r),
           v.dirs = [w.dirs EXCEPT ![r].is = r \in DirRoots]
    PROVE  Sound(v)
<1>0. /\ w \in WorkerRec
      /\ Aggregates(w) /\ RootsWait(w) /\ StreamOrdered(w) /\ FilesAreNew(w)
      /\ Family(w) /\ NothingSkipped(w)
  BY DEF Sound, DirPart
<1>1. /\ w.roots \in Seq(Roots) /\ Range(v.roots) = Range(w.roots) \cup {r}
      /\ Len(w.roots) \in Nat /\ DOMAIN w.roots = 1..Len(w.roots)
      /\ DOMAIN v.roots = 1..(Len(w.roots) + 1) /\ v.roots[Len(w.roots) + 1] = r
      /\ \A i \in 1..Len(w.roots) : v.roots[i] = w.roots[i]
  <2>1. w.roots \in Seq(Roots)
    BY <1>0 DEF WorkerRec
  <2> QED BY <2>1, AppendFacts
<1>2. IsInjective(v.roots)
  <2> SUFFICES ASSUME NEW i \in DOMAIN v.roots, NEW j \in DOMAIN v.roots, v.roots[i] = v.roots[j]
               PROVE  i = j
    BY DEF IsInjective
  <2>1. \A n \in DOMAIN v.roots : n \in DOMAIN w.roots \/ n = Len(w.roots) + 1
    BY <1>1
  <2>2. \A n \in DOMAIN w.roots : w.roots[n] # r /\ v.roots[n] = w.roots[n]
    BY <1>1 DEF Range
  <2> QED BY <1>0, <1>1, <2>1, <2>2 DEF RootsWait, IsInjective
<1>3. w.dirs \in [Roots -> DirRec] /\ NoDir.is = FALSE
  BY <1>0 DEF WorkerRec, NoDir
<1>4. /\ \A s \in Roots \ {r} : v.dirs[s] = w.dirs[s]
      /\ v.dirs[r] = [NoDir EXCEPT !.is = r \in DirRoots]
  BY <1>3
<1>5. /\ v.dirs[r].is = (r \in DirRoots) /\ ~v.dirs[r].done /\ ~v.dirs[r].cancelled
      /\ v.dirs[r].kids = {} /\ w.dirs[r].kids = {}
      /\ r \notin DirRoots => v.dirs[r] = NoDir
  <2>1. CASE r \in DirRoots
    <3>1. (r \in DirRoots) = TRUE
      BY <2>1
    <3>2. v.dirs[r] = [NoDir EXCEPT !.is = TRUE]
      BY <1>4, <3>1, Zenon
    <3> QED BY <2>1, <3>1, <3>2 DEF NoDir
  <2>2. CASE r \notin DirRoots
    <3>1. (r \in DirRoots) = FALSE
      BY <2>2
    <3>2. v.dirs[r] = [NoDir EXCEPT !.is = FALSE]
      BY <1>4, <3>1, Zenon
    <3> QED BY <2>2, <3>1, <3>2 DEF NoDir
  <2> QED BY <2>1, <2>2
<1>6. /\ Pending(v) = Pending(w) /\ Roots = FileRoots \cup DirRoots /\ FileRoots \cap DirRoots = {}
      /\ v.ends = w.ends
  BY TransferAssumption DEF Pending, Roots, SameTransfers
<1>7. Aggregates(v)
  <2>1. ASSUME NEW f \in FileRoots PROVE v.dirs[f] = NoDir
    BY <1>0, <1>4, <1>5, <1>6 DEF Aggregates
  <2>2. ASSUME NEW s \in DirRoots
        PROVE  /\ v.dirs[s] # NoDir => v.dirs[s].is /\ v.ends[s] = Nil
               /\ v.pending[s] # Nil => v.dirs[s].is /\ ~v.dirs[s].done
               /\ v.pending[s] = "cancelled" => v.dirs[s].cancelled
    <3>1. CASE s = r
      BY <1>5, <1>6, <3>1, TransferNil
    <3>2. CASE s # r
      BY <1>0, <1>4, <1>6, <3>2 DEF Aggregates
    <3> QED BY <3>1, <3>2
  <2> QED BY <2>1, <2>2 DEF Aggregates
<1>8. RootsWait(v)
  <2> SUFFICES ASSUME NEW s \in Range(v.roots)
               PROVE  /\ v.pending[s] = Nil
                      /\ s \in DirRoots => v.dirs[s].is /\ ~v.dirs[s].done /\ v.dirs[s].kids = {}
    BY <1>2 DEF RootsWait
  <2>1. CASE s = r
    BY <1>5, <2>1
  <2>2. CASE s # r
    BY <1>0, <1>1, <1>4, <1>6, <2>2 DEF RootsWait
  <2> QED BY <2>1, <2>2
<1>9. StreamOrdered(v)
  BY <1>0, <1>6, SMT DEF StreamOrdered
<1>10. \A k \in Kids : Untouched(v, k) <=> Untouched(w, k)
  BY DEF Untouched, SameTransfers
<1>11. FilesAreNew(v)
  <2>1. /\ \A m \in Pending(v) : m.file \in Kids => Untouched(v, m.file)
        /\ v.scan.st = "run" =>
             /\ \A k \in Range(v.scan.left) \cap Kids :
                  Untouched(v, k) /\ \A m \in Pending(v) : m.file # k
             /\ IsInjective(v.scan.left)
    BY <1>0, <1>6, <1>10 DEF FilesAreNew
  <2>2. /\ v.deferred # Nil /\ v.deferred.file \in Kids
             => \A m \in Range(v.found) : m.file # v.deferred.file
        /\ \A i, j \in DOMAIN v.found :
             i # j /\ v.found[i].file \in Kids => v.found[j].file # v.found[i].file
    BY <1>0, Zenon DEF FilesAreNew
  <2>3. ASSUME NEW s \in DirRoots, (v.ends[s] = Nil /\ v.dirs[s] = NoDir) \/ s \in Range(v.roots),
               NEW k \in Range(Contents[s])
        PROVE  Untouched(v, k)
    <3>1. (w.ends[s] = Nil /\ w.dirs[s] = NoDir) \/ s \in Range(w.roots)
      BY <1>1, <1>4, <1>6, <2>3
    <3> QED BY <1>0, <1>10, <3>1, IdFacts DEF FilesAreNew
  <2> QED BY <2>1, <2>2, <2>3 DEF FilesAreNew
<1>12. Family(v)
  <2>1. \A s \in Roots : v.dirs[s].kids = w.dirs[s].kids
    BY <1>4, <1>5
  <2> QED BY <1>0, <2>1, SMT DEF Family, Live, SameTransfers
<1>13. NothingSkipped(v)
  <2> SUFFICES ASSUME NEW s \in DirRoots
               PROVE  /\ v.dirs[s].is /\ ~Lacks(v, s) /\ s \notin Range(v.roots)
                           => \A k \in Range(Contents[s]) :
                                v.ends[k] = "Completed" \/ k \in v.dirs[s].kids \/ Comes(v, s, k)
                      /\ v.ends[s] = "Completed"
                           => \A k \in Range(Contents[s]) : v.ends[k] = "Completed"
    BY DEF NothingSkipped
  <2>1. CASE s = r
    BY <1>1, <1>6, <2>1, TransferNil DEF Outcomes
  <2>2. CASE s # r
    <3>1. v.dirs[s] = w.dirs[s] /\ s \notin Range(v.roots) => s \notin Range(w.roots)
      BY <1>1, <1>4, <1>6, <2>2
    <3>2. v.dirs[s] = w.dirs[s] /\ (Lacks(v, s) <=> Lacks(w, s))
      BY <1>4, <1>6, <2>2 DEF Lacks
    <3>3. \A k \in Range(Contents[s]) : Comes(v, s, k) <=> Comes(w, s, k)
      BY <1>6 DEF Comes
    <3> QED BY <1>0, <1>1, <1>6, <3>2, <3>3 DEF NothingSkipped
  <2> QED BY <2>1, <2>2
<1> QED BY <1>7, <1>8, <1>9, <1>11, <1>12, <1>13, TransfersKept DEF DirPart

\* The discovery of a waiting root starts: all its files are still to come.
LEMMA ScanStarted ==
    ASSUME NEW v \in WorkerRec, NEW w, Sound(w), SameTransfers(v, w),
           NEW r \in Range(w.roots), w.scan.st # "run",
           IsInjective(v.roots), Range(v.roots) = Range(w.roots) \ {r},
           v.pending = [w.pending EXCEPT ![r] = "on"],
           v.scan.root = r, v.scan.left = FilesOf(r), v.scan.st = "run",
           v.found = w.found, v.deferred = w.deferred, v.dirs = w.dirs, v.parent = w.parent
    PROVE  Sound(v)
<1>0. /\ w \in WorkerRec
      /\ Aggregates(w) /\ RootsWait(w) /\ StreamOrdered(w) /\ FilesAreNew(w)
      /\ Family(w) /\ NothingSkipped(w)
  BY DEF Sound, DirPart
<1>1. /\ r \in Roots /\ Roots = FileRoots \cup DirRoots /\ Kids \cap Roots = {}
      /\ w.pending \in [Roots -> {Nil, "on", "cancelled"}]
  BY <1>0, TransferAssumption DEF WorkerRec, Range, Roots
<1>2. /\ v.pending[r] = "on" /\ \A s \in Roots \ {r} : v.pending[s] = w.pending[s]
      /\ "on" # Nil /\ w.pending[r] = Nil
  BY <1>0, <1>1, TransferNil DEF RootsWait
<1>3. Pending(v) = Pending(w) /\ Pending(w) \subseteq Messages
  BY <1>0, PendingTyped DEF Pending
<1>4. \A m \in Pending(w) : m.root \in Roots /\ m.root # r
  BY <1>0, <1>2, <1>3 DEF StreamOrdered, Messages
<1>5. Aggregates(v)
  <2>1. ASSUME NEW s \in DirRoots
        PROVE  /\ v.dirs[s] # NoDir => v.dirs[s].is /\ v.ends[s] = Nil
               /\ v.pending[s] # Nil => v.dirs[s].is /\ ~v.dirs[s].done
               /\ v.pending[s] = "cancelled" => v.dirs[s].cancelled
    <3>1. CASE s = r
      BY <1>0, <1>2, <3>1 DEF Aggregates, RootsWait, SameTransfers
    <3>2. CASE s # r
      BY <1>0, <1>1, <1>2, <3>2 DEF Aggregates, SameTransfers
    <3> QED BY <3>1, <3>2
  <2> QED BY <1>0, <2>1 DEF Aggregates
<1>6. RootsWait(v)
  <2>1. \A s \in Range(w.roots) : s \in Roots
    BY <1>0 DEF WorkerRec, Range
  <2> QED BY <1>0, <1>2, <2>1 DEF RootsWait
<1>7. StreamOrdered(v)
  <2>1. \A m \in Pending(v) :
          v.pending[m.root] # Nil /\ (m.file # Nil => m.file \in Range(FilesOf(m.root)))
    BY <1>0, <1>2, <1>3, <1>4 DEF StreamOrdered
  <2>2. /\ v.scan.root \in Roots /\ v.pending[v.scan.root] # Nil
        /\ \A m \in Pending(v) : m.file = Nil => m.root # v.scan.root
        /\ Range(v.scan.left) \subseteq Range(FilesOf(v.scan.root))
    BY <1>1, <1>2, <1>3, <1>4
  <2>3. /\ v.deferred # Nil /\ v.deferred.file = Nil
             => \A m \in Range(v.found) : m.root # v.deferred.root
        /\ \A i, j \in DOMAIN v.found :
             i < j /\ v.found[i].file = Nil => v.found[j].root # v.found[i].root
    BY <1>0 DEF StreamOrdered
  <2> QED BY <2>1, <2>2, <2>3 DEF StreamOrdered
<1>8. \A k \in Kids : Untouched(v, k) <=> Untouched(w, k)
  BY DEF Untouched, SameTransfers
<1>9. FilesAreNew(v)
  <2>1. \A m \in Pending(v) : m.file \in Kids => Untouched(v, m.file)
    BY <1>0, <1>3, <1>8 DEF FilesAreNew
  <2>2. ASSUME NEW k \in Range(FilesOf(r)) \cap Kids
        PROVE  Untouched(v, k) /\ \A m \in Pending(v) : m.file # k
    <3>1. r \in DirRoots /\ k \in Range(Contents[r])
      BY <1>1, <2>2, IdFacts
    <3>2. Untouched(w, k)
      BY <1>0, <3>1 DEF FilesAreNew
    <3>3. \A m \in Pending(w) : m.file # k
      BY <1>0, <1>4, <3>1, MessageRoots
    <3> QED BY <1>3, <1>8, <3>2, <3>3
  <2>3. IsInjective(v.scan.left)
    BY <1>1, IdFacts
  <2>4. /\ v.deferred # Nil /\ v.deferred.file \in Kids
             => \A m \in Range(v.found) : m.file # v.deferred.file
        /\ \A i, j \in DOMAIN v.found :
             i # j /\ v.found[i].file \in Kids => v.found[j].file # v.found[i].file
    BY <1>0 DEF FilesAreNew
  <2>5. ASSUME NEW s \in DirRoots, (v.ends[s] = Nil /\ v.dirs[s] = NoDir) \/ s \in Range(v.roots),
               NEW k \in Range(Contents[s])
        PROVE  Untouched(v, k)
    <3>1. (w.ends[s] = Nil /\ w.dirs[s] = NoDir) \/ s \in Range(w.roots)
      BY <2>5 DEF SameTransfers
    <3> QED BY <1>0, <1>8, <3>1, IdFacts DEF FilesAreNew
  <2> QED BY <2>1, <2>2, <2>3, <2>4, <2>5 DEF FilesAreNew
<1>10. Family(v)
  BY <1>0, SMT DEF Family, Live, SameTransfers
<1>11. NothingSkipped(v)
  <2> SUFFICES ASSUME NEW s \in DirRoots
               PROVE  /\ v.dirs[s].is /\ ~Lacks(v, s) /\ s \notin Range(v.roots)
                           => \A k \in Range(Contents[s]) :
                                v.ends[k] = "Completed" \/ k \in v.dirs[s].kids \/ Comes(v, s, k)
                      /\ v.ends[s] = "Completed"
                           => \A k \in Range(Contents[s]) : v.ends[k] = "Completed"
    BY DEF NothingSkipped
  <2>1. CASE s = r
    <3>1. \A k \in Range(Contents[s]) : Comes(v, s, k)
      BY <2>1, IdFacts DEF Comes
    <3> QED BY <1>0, <3>1 DEF NothingSkipped, SameTransfers
  <2>2. CASE s # r
    <3>1. Lacks(v, s) <=> Lacks(w, s)
      BY <1>3 DEF Lacks
    <3>2. \A k \in Range(Contents[s]) : Comes(w, s, k) => Comes(v, s, k)
      BY <1>3 DEF Comes
    <3> QED BY <1>0, <2>2, <3>1, <3>2 DEF NothingSkipped, SameTransfers
  <2> QED BY <2>1, <2>2
<1> QED BY <1>5, <1>6, <1>7, <1>9, <1>10, <1>11, TransfersKept DEF DirPart

\* The record of a discovery that has ended is of no concern.
LEMMA ScanJoined ==
    ASSUME NEW v \in WorkerRec, NEW w, Sound(w), SameTransfers(v, w),
           w.scan.st # "run", v.scan.st # "run",
           v.roots = w.roots, v.pending = w.pending, v.found = w.found, v.deferred = w.deferred,
           v.dirs = w.dirs, v.parent = w.parent
    PROVE  Sound(v)
<1>0. /\ w \in WorkerRec
      /\ Aggregates(w) /\ RootsWait(w) /\ StreamOrdered(w) /\ FilesAreNew(w)
      /\ Family(w) /\ NothingSkipped(w)
  BY DEF Sound, DirPart
<1>1. Pending(v) = Pending(w)
  BY DEF Pending
<1>2. Aggregates(v) /\ RootsWait(v)
  BY <1>0, Zenon DEF Aggregates, RootsWait, SameTransfers
<1>3. StreamOrdered(v)
  BY <1>0, <1>1, SMT DEF StreamOrdered
<1>4. \A k \in Kids : Untouched(v, k) <=> Untouched(w, k)
  BY DEF Untouched, SameTransfers
<1>5. FilesAreNew(v)
  <2>1. \A m \in Pending(v) : m.file \in Kids => Untouched(v, m.file)
    BY <1>0, <1>1, <1>4 DEF FilesAreNew
  <2>2. /\ v.deferred # Nil /\ v.deferred.file \in Kids
             => \A m \in Range(v.found) : m.file # v.deferred.file
        /\ \A i, j \in DOMAIN v.found :
             i # j /\ v.found[i].file \in Kids => v.found[j].file # v.found[i].file
    BY <1>0 DEF FilesAreNew
  <2>3. \A r \in DirRoots :
          (v.ends[r] = Nil /\ v.dirs[r] = NoDir) \/ r \in Range(v.roots)
            => \A k \in Range(Contents[r]) : Untouched(v, k)
    <3>1. \A r \in DirRoots : \A k \in Range(Contents[r]) : k \in Kids
      BY IdFacts
    <3> QED BY <1>0, <1>4, <3>1, Zenon DEF FilesAreNew, SameTransfers
  <2> QED BY <2>1, <2>2, <2>3 DEF FilesAreNew
<1>6. Family(v)
  BY <1>0, SMT DEF Family, Live, SameTransfers
<1>7. NothingSkipped(v)
  <2>1. \A r \in DirRoots : Lacks(v, r) <=> Lacks(w, r)
    BY <1>1 DEF Lacks
  <2>2. \A r \in DirRoots : \A k \in Range(Contents[r]) : Comes(v, r, k) <=> Comes(w, r, k)
    BY <1>1 DEF Comes
  <2> QED BY <1>0, <2>1, <2>2, Zenon DEF NothingSkipped, SameTransfers
<1> QED BY <1>2, <1>3, <1>5, <1>6, <1>7, TransfersKept DEF DirPart

\* A discovery is joined and the next one starts.
LEMMA JoinScanSound ==
    ASSUME Sound(x), JoinScan
    PROVE  Sound(x')
<1> DEFINE idle == [x EXCEPT !.scan = NoScan]
           r == Head(x.roots)
           scan == [root |-> r, left |-> FilesOf(r), told |-> FALSE, st |-> "run"]
           next == StartScan([idle EXCEPT !.roots = Tail(@)], r)
<1>0. /\ x \in WorkerRec /\ RootsWait(x) /\ x.scan.st = "done"
      /\ x.roots \in Seq(Roots)
  BY DEF Sound, DirPart, JoinScan, WorkerRec
<1>1. x' = StartDownloads(IF x.roots = <<>> THEN idle ELSE next)
  BY DEF JoinScan
<1>2. Sound(idle)
  <2>1. NoScan \in ScanRec /\ NoScan.st # "run"
    BY DEF NoScan, ScanRec
  <2>2. idle \in WorkerRec
    BY <1>0, <2>1, Zenon DEF WorkerRec
  <2>3. /\ SameTransfers(idle, x) /\ idle.scan = NoScan
        /\ idle.roots = x.roots /\ idle.pending = x.pending /\ idle.found = x.found
        /\ idle.deferred = x.deferred /\ idle.dirs = x.dirs /\ idle.parent = x.parent
    BY <1>0 DEF WorkerRec, SameTransfers
  <2> HIDE DEF idle
  <2> QED BY <1>0, <2>1, <2>2, <2>3, ScanJoined
<1>3. ASSUME x.roots # <<>> PROVE Sound(next)
  <2>1. /\ r \in Roots /\ r = x.roots[1] /\ Tail(x.roots) \in Seq(Roots)
        /\ Len(x.roots) \in Nat \ {0} /\ Len(Tail(x.roots)) = Len(x.roots) - 1
        /\ \A i \in 1..(Len(x.roots) - 1) : Tail(x.roots)[i] = x.roots[i + 1]
        /\ Range(x.roots) = {r} \cup Range(Tail(x.roots))
        /\ \A s \in Range(Tail(x.roots)) : \E i \in 2..Len(x.roots) : s = x.roots[i]
    BY <1>0, <1>3, TailFacts
  <2>2. next = [x EXCEPT !.scan = scan, !.roots = Tail(x.roots),
                         !.pending = [x.pending EXCEPT ![r] = "on"]]
    BY <1>0 DEF StartScan, WorkerRec
  <2>3. scan \in ScanRec
    <3>1. FilesOf(r) \in Seq(Downloads)
      BY <2>1, IdFacts
    <3> QED BY <2>1, <3>1, Zenon DEF ScanRec
  <2>4. [x.pending EXCEPT ![r] = "on"] \in [Roots -> {Nil, "on", "cancelled"}]
    BY <1>0, <2>1 DEF WorkerRec
  <2>5. scan.root = r /\ scan.left = FilesOf(r) /\ scan.st = "run"
    OBVIOUS
  <2> HIDE DEF scan, r
  <2>6. next \in WorkerRec
    <3> HIDE DEF next
    <3> QED BY <1>0, <2>1, <2>2, <2>3, <2>4, Zenon DEF WorkerRec
  <2>7. /\ SameTransfers(next, x) /\ next.scan = scan /\ next.roots = Tail(x.roots)
        /\ next.pending = [x.pending EXCEPT ![r] = "on"] /\ next.found = x.found
        /\ next.deferred = x.deferred /\ next.dirs = x.dirs /\ next.parent = x.parent
    <3> HIDE DEF next
    <3> QED BY <1>0, <2>2 DEF WorkerRec, SameTransfers
  <2>8. PICK n \in Nat \ {0} : n = Len(x.roots) /\ DOMAIN x.roots = 1..n
                               /\ DOMAIN Tail(x.roots) = 1..(n - 1)
    BY <1>0, <2>1
  <2>9. IsInjective(x.roots)
    BY <1>0 DEF RootsWait
  <2>10. IsInjective(Tail(x.roots))
    <3> SUFFICES ASSUME NEW i \in 1..(n - 1), NEW j \in 1..(n - 1),
                        Tail(x.roots)[i] = Tail(x.roots)[j]
                 PROVE  i = j
      BY <2>8 DEF IsInjective
    <3>1. i + 1 \in DOMAIN x.roots /\ j + 1 \in DOMAIN x.roots
      BY <2>8
    <3>2. x.roots[i + 1] = x.roots[j + 1]
      BY <2>1, <2>8
    <3>3. i + 1 = j + 1
      BY <2>9, <3>1, <3>2, Zenon DEF IsInjective
    <3> QED BY <3>3
  <2>11. r \notin Range(Tail(x.roots))
    <3> SUFFICES ASSUME NEW i \in 2..n, x.roots[1] = x.roots[i] PROVE FALSE
      BY <2>1, <2>8
    <3>1. 1 \in DOMAIN x.roots /\ i \in DOMAIN x.roots /\ i # 1
      BY <2>8
    <3> QED BY <2>9, <3>1, Zenon DEF IsInjective
  <2>12. /\ r \in Range(x.roots) /\ Range(Tail(x.roots)) = Range(x.roots) \ {r}
         /\ x.scan.st # "run"
    BY <1>0, <2>1, <2>11
  <2> HIDE DEF next
  <2> QED BY <2>5, <2>6, <2>7, <2>10, <2>12, ScanStarted, ZenonT(40)
<1> QED BY <1>1, <1>2, <1>3, StartDownloadsSound

\* OpenSftpFile: the new root is discovered, waits, or is refused.
LEMMA OpenRootSound ==
    ASSUME Sound(x), NEW r \in Roots, OpenRoot(r)
    PROVE  Sound(x')
<1> DEFINE opened(w) == [w EXCEPT !.dirs[r].is = r \in DirRoots]
           queued(w) == [opened(w) EXCEPT !.roots = Append(@, r)]
<1>1. PICK w \in Reaps(x) :
        \/ w.scan = NoScan /\ x' = StartScan(opened(w), r)
        \/ x' = queued(w)
        \/ x' = Tell(w, r, "Failed")
  <2>1. PICK w \in Reaps(x) :
          x' = IF opened(w).scan = NoScan THEN StartScan(opened(w), r)
               ELSE IF Len(opened(w).roots) < QueueWindow THEN queued(w)
               ELSE Tell(w, r, "Failed")
    BY DEF OpenRoot
  <2>2. opened(w).scan = w.scan
    BY ReapsSound DEF WorkerRec
  <2> QED BY <2>1, <2>2
<1>2. /\ Sound(w) /\ w \in WorkerRec /\ SameDirectories(w, x) /\ w.ends = x.ends
      /\ RootsWait(w) /\ w.roots \in Seq(Roots)
  <2>1. Sound(w) /\ w \in WorkerRec /\ SameDirectories(w, x) /\ w.ends = x.ends
    BY ReapsSound
  <2>2. RootsWait(w)
    BY <2>1 DEF Sound, DirPart
  <2> QED BY <2>1, <2>2 DEF WorkerRec
<1>3. r \in Ids /\ Roots = FileRoots \cup DirRoots
  BY DEF Ids, Roots
<1>4. /\ w.place[r] = "none" /\ w.ends[r] = Nil /\ w.pending[r] = Nil /\ w.dirs[r] = NoDir
      /\ r \notin Range(w.roots)
  <2>1. /\ x.place[r] = "none" /\ x.ends[r] = Nil /\ x.pending[r] = Nil /\ x.dirs[r] = NoDir
        /\ r \notin Range(x.roots)
    BY DEF OpenRoot, Known
  <2> QED BY <1>2, <1>3, <2>1, ReapsSound DEF SameDirectories
<1> DEFINE dirs == [w.dirs EXCEPT ![r].is = r \in DirRoots]
           q == queued(w)
<1>5. /\ opened(w) = [w EXCEPT !.dirs = dirs]
      /\ q = [w EXCEPT !.dirs = dirs, !.roots = Append(w.roots, r)]
  BY <1>2 DEF WorkerRec
<1>6. dirs \in [Roots -> DirRec] /\ Append(w.roots, r) \in Seq(Roots)
  <2>1. w.dirs \in [Roots -> DirRec] /\ (r \in DirRoots) \in BOOLEAN
    BY <1>2 DEF WorkerRec
  <2>2. [w.dirs[r] EXCEPT !.is = r \in DirRoots] \in DirRec
    BY <2>1, Zenon DEF DirRec
  <2> QED BY <1>2, <2>1, <2>2
<1> HIDE DEF dirs, opened
<1>7. Sound(q)
  <2>1. q \in WorkerRec
    BY <1>2, <1>5, <1>6, Zenon DEF WorkerRec
  <2> HIDE DEF q, queued
  <2>2. /\ SameTransfers(q, w) /\ q.roots = Append(w.roots, r) /\ q.dirs = dirs
        /\ q.pending = w.pending /\ q.scan = w.scan /\ q.found = w.found
        /\ q.deferred = w.deferred /\ q.parent = w.parent
    BY <1>2, <1>5 DEF WorkerRec, SameTransfers
  <2>3. q.dirs = [w.dirs EXCEPT ![r].is = r \in DirRoots]
    BY <2>2 DEF dirs
  <2> QED BY <1>2, <1>4, <2>1, <2>2, <2>3, RootQueued
<1>8. CASE x' = queued(w)
  BY <1>7, <1>8
<1>9. CASE w.scan = NoScan /\ x' = StartScan(opened(w), r)
  <2> DEFINE scan == [root |-> r, left |-> FilesOf(r), told |-> FALSE, st |-> "run"]
  <2>1. x' = [w EXCEPT !.dirs = dirs, !.scan = scan, !.pending = [w.pending EXCEPT ![r] = "on"]]
    BY <1>2, <1>5, <1>9 DEF StartScan, WorkerRec
  <2>2. scan \in ScanRec
    <3>1. FilesOf(r) \in Seq(Downloads)
      BY IdFacts
    <3> QED BY <3>1, Zenon DEF ScanRec
  <2>3. [w.pending EXCEPT ![r] = "on"] \in [Roots -> {Nil, "on", "cancelled"}]
    BY <1>2 DEF WorkerRec
  <2>4. scan.root = r /\ scan.left = FilesOf(r) /\ scan.st = "run"
    OBVIOUS
  <2> HIDE DEF scan
  <2>5. x' \in WorkerRec
    BY <1>2, <1>6, <2>1, <2>2, <2>3, Zenon DEF WorkerRec
  <2>6. /\ SameTransfers(x', w) /\ x'.scan = scan /\ x'.roots = w.roots
        /\ x'.pending = [w.pending EXCEPT ![r] = "on"] /\ x'.found = w.found
        /\ x'.deferred = w.deferred /\ x'.dirs = dirs /\ x'.parent = w.parent
    BY <1>2, <2>1 DEF WorkerRec, SameTransfers
  <2> HIDE DEF q, queued
  <2>7. /\ SameTransfers(q, w) /\ q.roots = Append(w.roots, r) /\ q.dirs = dirs
        /\ q.pending = w.pending /\ q.scan = w.scan /\ q.found = w.found
        /\ q.deferred = w.deferred /\ q.parent = w.parent
    BY <1>2, <1>5 DEF WorkerRec, SameTransfers
  <2>8. Range(q.roots) = Range(w.roots) \cup {r}
    BY <1>2, <2>7, AppendFacts
  <2>9. /\ r \in Range(q.roots) /\ IsInjective(x'.roots) /\ Range(x'.roots) = Range(q.roots) \ {r}
        /\ q.scan.st # "run"
    BY <1>2, <1>4, <1>9, <2>6, <2>7, <2>8 DEF RootsWait, NoScan
  <2>10. /\ SameTransfers(x', q) /\ x'.pending = [q.pending EXCEPT ![r] = "on"]
         /\ x'.found = q.found /\ x'.deferred = q.deferred /\ x'.dirs = q.dirs
         /\ x'.parent = q.parent
         /\ x'.scan.root = r /\ x'.scan.left = FilesOf(r) /\ x'.scan.st = "run"
    BY <2>4, <2>6, <2>7 DEF SameTransfers
  <2> QED BY <1>7, <2>5, <2>9, <2>10, ScanStarted, ZenonT(40)
<1>10. CASE x' = Tell(w, r, "Failed")
  <2>1. "Failed" \in Outcomes \cup {"Partial"}
    BY DEF Outcomes
  <2>2. CASE r \in DirRoots
    <3>1. [w EXCEPT !.dirs[r] = NoDir] = w
      BY <1>2, <1>4 DEF WorkerRec
    <3>2. w.dirs[r].kids = {}
      BY <1>4 DEF NoDir
    <3> QED BY <1>2, <1>4, <1>10, <2>1, <2>2, <3>1, <3>2, RootEnds
  <2>3. CASE r \in FileRoots
    <3>1. r \notin Uploads
      BY TransferAssumption
    <3>2. /\ SameDirectories(w, w) /\ \A j \in Ids \ {r} : SameId(w, w, j)
          /\ Within(w.queue, w.queue) /\ Within(w.uploads, w.uploads)
      BY DEF SameDirectories, SameId, Within
    <3>3. \A n \in DOMAIN w.uploads : w.uploads[n] # r
      BY <1>2, <3>1 DEF WorkerRec
    <3>4. w.place[r] \in {"none", "dropped"} /\ w.result[r] \in {Nil, w.result[r]}
      BY <1>4
    <3>5. Sound(Tell(w, r, "Failed"))
      BY <1>2, <1>4, <2>1, <2>3, <3>1, <3>2, <3>3, <3>4, OutsiderEnds
    <3> QED BY <1>10, <3>5
  <2> QED BY <1>3, <2>2, <2>3
<1> QED BY <1>1, <1>8, <1>9, <1>10

\* A message about a file is dropped: of a file that is its own root, or of a cancelled directory.
LEMMA FoundDropped ==
    ASSUME NEW v \in WorkerRec, NEW w, Sound(w), SameTransfers(v, w),
           w.deferred # Nil, w.deferred.file # Nil,
           w.deferred.root \in DirRoots => w.dirs[w.deferred.root].cancelled,
           v.deferred = Nil, v.found = w.found,
           v.roots = w.roots, v.pending = w.pending, v.scan = w.scan,
           v.dirs = w.dirs, v.parent = w.parent
    PROVE  Sound(v)
<1>0. /\ w \in WorkerRec
      /\ Aggregates(w) /\ RootsWait(w) /\ StreamOrdered(w) /\ FilesAreNew(w)
      /\ Family(w) /\ NothingSkipped(w)
  BY DEF Sound, DirPart
<1>1. Pending(v) = Range(w.found) /\ Pending(w) = Range(w.found) \cup {w.deferred}
  BY DEF Pending
<1>2. Aggregates(v) /\ RootsWait(v)
  <2>1. v.ends = w.ends
    BY DEF SameTransfers
  <2>2. Aggregates(v)
    BY <1>0, <2>1 DEF Aggregates
  <2> QED BY <1>0, <2>2 DEF RootsWait
<1>3. StreamOrdered(v)
  <2>1. /\ \A m \in Pending(v) :
             v.pending[m.root] # Nil /\ (m.file # Nil => m.file \in Range(FilesOf(m.root)))
        /\ v.scan.st = "run" =>
             /\ v.scan.root \in Roots /\ v.pending[v.scan.root] # Nil
             /\ \A m \in Pending(v) : m.file = Nil => m.root # v.scan.root
             /\ Range(v.scan.left) \subseteq Range(FilesOf(v.scan.root))
    BY <1>0, <1>1 DEF StreamOrdered
  <2>2. \A i, j \in DOMAIN v.found :
          i < j /\ v.found[i].file = Nil => v.found[j].root # v.found[i].root
    BY <1>0 DEF StreamOrdered
  <2> QED BY <2>1, <2>2 DEF StreamOrdered
<1>4. \A k \in Kids : Untouched(v, k) <=> Untouched(w, k)
  BY DEF Untouched, SameTransfers
<1>5. FilesAreNew(v)
  <2>1. /\ \A m \in Pending(v) : m.file \in Kids => Untouched(v, m.file)
        /\ v.scan.st = "run" =>
             /\ \A k \in Range(v.scan.left) \cap Kids :
                  Untouched(v, k) /\ \A m \in Pending(v) : m.file # k
             /\ IsInjective(v.scan.left)
    BY <1>0, <1>1, <1>4 DEF FilesAreNew
  <2>2. \A i, j \in DOMAIN v.found :
          i # j /\ v.found[i].file \in Kids => v.found[j].file # v.found[i].file
    BY <1>0, ZenonT(40) DEF FilesAreNew
  <2>3. \A r \in DirRoots :
          (v.ends[r] = Nil /\ v.dirs[r] = NoDir) \/ r \in Range(v.roots)
            => \A k \in Range(Contents[r]) : Untouched(v, k)
    <3>1. \A r \in DirRoots : \A k \in Range(Contents[r]) : k \in Kids
      BY IdFacts
    <3> QED BY <1>0, <1>4, <3>1, Zenon DEF FilesAreNew, SameTransfers
  <2> QED BY <2>1, <2>2, <2>3 DEF FilesAreNew
<1>6. Family(v)
  BY <1>0, SMT DEF Family, Live, SameTransfers
<1>7. NothingSkipped(v)
  <2> SUFFICES ASSUME NEW r \in DirRoots
               PROVE  /\ v.dirs[r].is /\ ~Lacks(v, r) /\ r \notin Range(v.roots)
                           => \A k \in Range(Contents[r]) :
                                v.ends[k] = "Completed" \/ k \in v.dirs[r].kids \/ Comes(v, r, k)
                      /\ v.ends[r] = "Completed"
                           => \A k \in Range(Contents[r]) : v.ends[k] = "Completed"
    BY DEF NothingSkipped
  <2>1. ~Lacks(v, r) => ~Lacks(w, r)
    BY <1>1 DEF Lacks
  <2>2. ASSUME NEW k \in Range(Contents[r]), ~Lacks(v, r), Comes(w, r, k)
        PROVE  Comes(v, r, k)
    <3>1. ~w.dirs[r].cancelled
      BY <2>2 DEF Lacks
    <3>2. w.deferred.file # k
      BY <1>0, <1>1, <3>1, MessageRoots
    <3> QED BY <1>1, <2>2, <3>2 DEF Comes
  <2> QED BY <1>0, <2>1, <2>2 DEF NothingSkipped, SameTransfers
<1> QED BY <1>2, <1>3, <1>5, <1>6, <1>7, TransfersKept DEF DirPart

\* w, whose next message is the last about r, becomes v: a directory knows that its discovery
\* is over and, when it failed, that something is missing.
Finishes(v, w, r) ==
  /\ SameTransfers(v, w)
  /\ w.deferred # Nil /\ w.deferred.file = Nil /\ w.deferred.root = r
  /\ v.deferred = Nil /\ v.found = w.found
  /\ v.roots = w.roots /\ v.pending = [w.pending EXCEPT ![r] = Nil] /\ v.scan = w.scan
  /\ v.parent = w.parent /\ \A s \in Roots \ {r} : v.dirs[s] = w.dirs[s]
  /\ r \in FileRoots => v.dirs[r] = w.dirs[r]
  /\ r \in DirRoots =>
       /\ v.dirs[r].is = w.dirs[r].is /\ v.dirs[r].kids = w.dirs[r].kids
       /\ (w.dirs[r].cancelled \/ w.dirs[r].failed > 0 \/ ~w.deferred.ok)
            => (v.dirs[r].cancelled \/ v.dirs[r].failed > 0)

\* The discovery of a root is over.
LEMMA FinishedTaken ==
    ASSUME NEW v \in WorkerRec, NEW w, Sound(w), NEW r \in Roots, Finishes(v, w, r)
    PROVE  Sound(v)
<1> USE DEF Finishes
<1>0. /\ w \in WorkerRec
      /\ Aggregates(w) /\ RootsWait(w) /\ StreamOrdered(w) /\ FilesAreNew(w)
      /\ Family(w) /\ NothingSkipped(w)
  BY DEF Sound, DirPart
<1>1. /\ Pending(v) = Range(w.found) /\ Pending(w) = Range(w.found) \cup {w.deferred}
      /\ Pending(w) \subseteq Messages
  BY <1>0, PendingTyped DEF Pending
<1>2. /\ w.pending \in [Roots -> {Nil, "on", "cancelled"}]
      /\ v.pending[r] = Nil /\ \A s \in Roots \ {r} : v.pending[s] = w.pending[s]
      /\ w.pending[r] # Nil /\ Roots = FileRoots \cup DirRoots /\ FileRoots \cap DirRoots = {}
  BY <1>0, <1>1, TransferAssumption DEF WorkerRec, StreamOrdered, Roots
<1>3. \A m \in Range(w.found) : m.root \in Roots /\ m.root # r
  BY <1>0, <1>1 DEF StreamOrdered, Messages
<1>4. r \notin Range(w.roots) /\ \A s \in Range(w.roots) : s \in Roots
  BY <1>0, <1>2 DEF RootsWait, WorkerRec, Range
<1>5. r \in DirRoots => v.dirs[r].is /\ v.dirs[r] # NoDir /\ v.ends[r] = Nil
  <2>1. r \in DirRoots => w.dirs[r].is
    BY <1>0, <1>2 DEF Aggregates
  <2>2. ~NoDir.is
    BY DEF NoDir
  <2> QED BY <1>0, <2>1, <2>2 DEF Aggregates, SameTransfers
<1>6. Aggregates(v)
  <2>1. ASSUME NEW f \in FileRoots PROVE v.dirs[f] = NoDir
    BY <1>0, <1>2 DEF Aggregates
  <2>2. ASSUME NEW s \in DirRoots
        PROVE  /\ v.dirs[s] # NoDir => v.dirs[s].is /\ v.ends[s] = Nil
               /\ v.pending[s] # Nil => v.dirs[s].is /\ ~v.dirs[s].done
               /\ v.pending[s] = "cancelled" => v.dirs[s].cancelled
    <3>1. CASE s = r
      BY <1>2, <1>5, <2>2, <3>1, TransferNil
    <3>2. CASE s # r
      BY <1>0, <1>2, <3>2 DEF Aggregates, SameTransfers
    <3> QED BY <3>1, <3>2
  <2> QED BY <2>1, <2>2 DEF Aggregates
<1>7. RootsWait(v)
  BY <1>0, <1>2, <1>4 DEF RootsWait
<1>8. StreamOrdered(v)
  <2>1. \A m \in Pending(v) :
          v.pending[m.root] # Nil /\ (m.file # Nil => m.file \in Range(FilesOf(m.root)))
    BY <1>0, <1>1, <1>2, <1>3 DEF StreamOrdered
  <2>2. v.scan.st = "run" =>
          /\ v.scan.root \in Roots /\ v.pending[v.scan.root] # Nil
          /\ \A m \in Pending(v) : m.file = Nil => m.root # v.scan.root
          /\ Range(v.scan.left) \subseteq Range(FilesOf(v.scan.root))
    BY <1>0, <1>1, <1>2 DEF StreamOrdered
  <2>3. \A i, j \in DOMAIN v.found :
          i < j /\ v.found[i].file = Nil => v.found[j].root # v.found[i].root
    BY <1>0 DEF StreamOrdered
  <2> QED BY <2>1, <2>2, <2>3 DEF StreamOrdered
<1>9. \A k \in Kids : Untouched(v, k) <=> Untouched(w, k)
  BY DEF Untouched, SameTransfers
<1>10. FilesAreNew(v)
  <2>1. /\ \A m \in Pending(v) : m.file \in Kids => Untouched(v, m.file)
        /\ v.scan.st = "run" =>
             /\ \A k \in Range(v.scan.left) \cap Kids :
                  Untouched(v, k) /\ \A m \in Pending(v) : m.file # k
             /\ IsInjective(v.scan.left)
    BY <1>0, <1>1, <1>9 DEF FilesAreNew
  <2>2. \A i, j \in DOMAIN v.found :
          i # j /\ v.found[i].file \in Kids => v.found[j].file # v.found[i].file
    BY <1>0 DEF FilesAreNew
  <2>3. ASSUME NEW s \in DirRoots, (v.ends[s] = Nil /\ v.dirs[s] = NoDir) \/ s \in Range(v.roots),
               NEW k \in Range(Contents[s])
        PROVE  Untouched(v, k)
    <3>1. s # r
      BY <1>4, <1>5, <2>3
    <3>2. (w.ends[s] = Nil /\ w.dirs[s] = NoDir) \/ s \in Range(w.roots)
      BY <1>2, <2>3, <3>1 DEF SameTransfers
    <3> QED BY <1>0, <1>9, <3>2, IdFacts DEF FilesAreNew
  <2> QED BY <2>1, <2>2, <2>3 DEF FilesAreNew
<1>11. Family(v)
  <2>1. \A s \in Roots : v.dirs[s].kids = w.dirs[s].kids
    BY <1>2
  <2> QED BY <1>0, <2>1, SMT DEF Family, Live, SameTransfers
<1>12. NothingSkipped(v)
  <2> SUFFICES ASSUME NEW s \in DirRoots
               PROVE  /\ v.dirs[s].is /\ ~Lacks(v, s) /\ s \notin Range(v.roots)
                           => \A k \in Range(Contents[s]) :
                                v.ends[k] = "Completed" \/ k \in v.dirs[s].kids \/ Comes(v, s, k)
                      /\ v.ends[s] = "Completed"
                           => \A k \in Range(Contents[s]) : v.ends[k] = "Completed"
    BY DEF NothingSkipped
  <2>1. \A k \in Range(Contents[s]) : k # Nil /\ (Comes(w, s, k) => Comes(v, s, k))
    <3>1. \A k \in Range(Contents[s]) : k # Nil
      BY IdFacts, TransferNil DEF Ids
    <3> QED BY <1>1, <3>1 DEF Comes
  <2>2. CASE s = r
    <3>1. ~Lacks(v, s) => ~Lacks(w, s)
      BY <1>1, <1>3, <2>2 DEF Lacks
    <3>2. v.dirs[s].is = w.dirs[s].is /\ v.dirs[s].kids = w.dirs[s].kids
      BY <2>2
    <3> QED BY <1>0, <2>1, <3>1, <3>2 DEF NothingSkipped, SameTransfers
  <2>3. CASE s # r
    <3>1. v.dirs[s] = w.dirs[s]
      BY <1>2, <2>3
    <3>2. Lacks(v, s) <=> Lacks(w, s)
      BY <1>1, <2>3, <3>1 DEF Lacks
    <3> QED BY <1>0, <2>1, <3>1, <3>2 DEF NothingSkipped, SameTransfers
  <2> QED BY <2>2, <2>3
<1> QED BY <1>6, <1>7, <1>8, <1>10, <1>11, <1>12, TransfersKept DEF DirPart

\* w, whose next message is about file f of r, becomes v: the file joins r and is queued.
KidJoins(v, w, r, f) ==
  /\ w.deferred # Nil /\ w.deferred.file = f /\ w.deferred.root = r
  /\ v.deferred = Nil /\ v.found = w.found
  /\ v.roots = w.roots /\ v.pending = w.pending /\ v.scan = w.scan
  /\ \A s \in Roots \ {r} : v.dirs[s] = w.dirs[s]
  /\ v.dirs[r].is /\ v.dirs[r].kids = w.dirs[r].kids \cup {f}
  /\ v.dirs[r].done = w.dirs[r].done /\ v.dirs[r].cancelled = w.dirs[r].cancelled
  /\ v.dirs[r].failed = w.dirs[r].failed
  /\ \A k \in Downloads : v.parent[k] = IF k = f THEN r ELSE w.parent[k]
  /\ v.queue = Append(w.queue, f) /\ v.uploads = w.uploads
  /\ v.ends = w.ends /\ v.again = w.again /\ v.result = w.result
  /\ \A i \in Ids : v.place[i] = IF i = f THEN "queue" ELSE w.place[i]

\* A file of directory r joins its aggregate and is queued.
LEMMA KidQueued ==
    ASSUME NEW v \in WorkerRec, NEW w, Sound(w), NEW r \in DirRoots, NEW f \in Range(Contents[r]),
           KidJoins(v, w, r, f)
    PROVE  Sound(v)
<1> USE DEF KidJoins
<1>0. /\ w \in WorkerRec /\ InOrder(w) /\ Busy(w) <= PerTab /\ w.again \subseteq FileRoots
      /\ Aggregates(w) /\ RootsWait(w) /\ StreamOrdered(w) /\ FilesAreNew(w)
      /\ Family(w) /\ NothingSkipped(w)
  BY DEF Sound, DirPart
<1>1. /\ Pending(v) = Range(w.found) /\ Pending(w) = Range(w.found) \cup {w.deferred}
      /\ Pending(w) \subseteq Messages
  BY <1>0, PendingTyped DEF Pending
<1>2. /\ r \in Roots /\ f \in Kids /\ f \in Downloads /\ f \in Ids /\ f # Nil /\ r # Nil
      /\ Kids \subseteq Ids /\ Kids \subseteq Downloads
      /\ Roots = FileRoots \cup DirRoots /\ FileRoots \cap DirRoots = {}
      /\ Kids \cap Roots = {} /\ FileRoots \subseteq Downloads
  BY IdFacts, TransferNil, TransferAssumption DEF Ids, Roots, Downloads
<1>3. Untouched(w, f) /\ w.ends[f] = Nil /\ w.place[f] = "none"
  BY <1>0, <1>1, <1>2 DEF FilesAreNew, Untouched
<1>4. w.pending[r] # Nil /\ w.dirs[r].is /\ w.ends[r] = Nil
  <2>1. w.pending[r] # Nil
    BY <1>0, <1>1 DEF StreamOrdered
  <2>2. w.dirs[r].is
    BY <1>0, <2>1 DEF Aggregates
  <2> QED BY <1>0, <2>1, <2>2 DEF Aggregates, NoDir
<1>5. v.dirs[r] # NoDir /\ r \notin Range(w.roots)
  BY <1>0, <1>4 DEF NoDir, RootsWait
<1>6. Aggregates(v)
  <2>1. ASSUME NEW g \in FileRoots PROVE v.dirs[g] = NoDir
    BY <1>0, <1>2 DEF Aggregates
  <2>2. ASSUME NEW s \in DirRoots
        PROVE  /\ v.dirs[s] # NoDir => v.dirs[s].is /\ v.ends[s] = Nil
               /\ v.pending[s] # Nil => v.dirs[s].is /\ ~v.dirs[s].done
               /\ v.pending[s] = "cancelled" => v.dirs[s].cancelled
    <3>1. CASE s = r
      BY <1>0, <1>4, <3>1 DEF Aggregates
    <3>2. CASE s # r
      BY <1>0, <1>2, <3>2 DEF Aggregates
    <3> QED BY <3>1, <3>2
  <2> QED BY <2>1, <2>2 DEF Aggregates
<1>7. RootsWait(v)
  <2>1. \A s \in DirRoots : s # r => v.dirs[s] = w.dirs[s]
    BY <1>2
  <2> QED BY <1>0, <1>5, <2>1 DEF RootsWait
<1>8. StreamOrdered(v)
  <2>1. /\ \A m \in Pending(v) :
             v.pending[m.root] # Nil /\ (m.file # Nil => m.file \in Range(FilesOf(m.root)))
        /\ v.scan.st = "run" =>
             /\ v.scan.root \in Roots /\ v.pending[v.scan.root] # Nil
             /\ \A m \in Pending(v) : m.file = Nil => m.root # v.scan.root
             /\ Range(v.scan.left) \subseteq Range(FilesOf(v.scan.root))
    BY <1>0, <1>1 DEF StreamOrdered
  <2>2. \A i, j \in DOMAIN v.found :
          i < j /\ v.found[i].file = Nil => v.found[j].root # v.found[i].root
    BY <1>0 DEF StreamOrdered
  <2> QED BY <2>1, <2>2 DEF StreamOrdered
<1>9. \A k \in Kids : k # f => (Untouched(v, k) <=> Untouched(w, k))
  BY <1>2 DEF Untouched
<1>10. \A m \in Range(w.found) : m.file # f
  BY <1>0, <1>2 DEF FilesAreNew
<1>11. FilesAreNew(v)
  <2>1. \A m \in Pending(v) : m.file \in Kids => Untouched(v, m.file)
    BY <1>0, <1>1, <1>9, <1>10 DEF FilesAreNew
  <2>2. v.scan.st = "run" =>
          /\ \A k \in Range(v.scan.left) \cap Kids :
               Untouched(v, k) /\ \A m \in Pending(v) : m.file # k
          /\ IsInjective(v.scan.left)
    BY <1>0, <1>1, <1>9 DEF FilesAreNew
  <2>3. \A i, j \in DOMAIN v.found :
          i # j /\ v.found[i].file \in Kids => v.found[j].file # v.found[i].file
    BY <1>0 DEF FilesAreNew
  <2>4. ASSUME NEW s \in DirRoots, (v.ends[s] = Nil /\ v.dirs[s] = NoDir) \/ s \in Range(v.roots),
               NEW k \in Range(Contents[s])
        PROVE  Untouched(v, k)
    <3>1. s # r
      BY <1>5, <2>4
    <3>2. k \in Kids /\ k # f
      BY <1>2, <3>1, IdFacts
    <3>3. (w.ends[s] = Nil /\ w.dirs[s] = NoDir) \/ s \in Range(w.roots)
      BY <1>2, <2>4, <3>1
    <3> QED BY <1>0, <1>9, <3>2, <3>3 DEF FilesAreNew
  <2> QED BY <2>1, <2>2, <2>3, <2>4 DEF FilesAreNew
<1>12. Family(v)
  <2>1. ASSUME NEW g \in FileRoots PROVE v.parent[g] = Nil
    BY <1>0, <1>2 DEF Family
  <2>2. ASSUME NEW k \in Kids
        PROVE  /\ v.parent[k] # Nil <=> Live(v, k)
               /\ \A s \in Roots : v.parent[k] = s <=> k \in v.dirs[s].kids
               /\ \A s \in DirRoots : v.parent[k] = s => k \in Range(Contents[s])
    <3>1. CASE k = f
      <4>1. w.parent[k] = Nil
        BY <1>0, <1>3, <3>1 DEF Family, Live
      <4>2. \A s \in Roots : s # Nil
        BY TransferNil DEF Ids
      <4>3. \A s \in Roots : k \notin w.dirs[s].kids
        BY <1>0, <4>1, <4>2 DEF Family
      <4> QED BY <1>2, <3>1, <4>3 DEF Live
    <3>2. CASE k # f
      BY <1>0, <1>2, <3>2 DEF Family, Live
    <3> QED BY <3>1, <3>2
  <2> QED BY <2>1, <2>2 DEF Family
<1>13. NothingSkipped(v)
  <2> SUFFICES ASSUME NEW s \in DirRoots
               PROVE  /\ v.dirs[s].is /\ ~Lacks(v, s) /\ s \notin Range(v.roots)
                           => \A k \in Range(Contents[s]) :
                                v.ends[k] = "Completed" \/ k \in v.dirs[s].kids \/ Comes(v, s, k)
                      /\ v.ends[s] = "Completed"
                           => \A k \in Range(Contents[s]) : v.ends[k] = "Completed"
    BY DEF NothingSkipped
  <2>1. \A k \in Range(Contents[s]) : k # f => (Comes(w, s, k) => Comes(v, s, k))
    BY <1>1 DEF Comes
  <2>2. CASE s = r
    <3>1. ~Lacks(v, s) => ~Lacks(w, s)
      BY <1>1, <1>2, <2>2 DEF Lacks
    <3> QED BY <1>0, <1>4, <2>1, <2>2, <3>1 DEF NothingSkipped
  <2>3. CASE s # r
    <3>1. v.dirs[s] = w.dirs[s] /\ f \notin Range(Contents[s])
      BY <1>2, <2>3, IdFacts
    <3>2. Lacks(v, s) <=> Lacks(w, s)
      BY <1>1, <2>3, <3>1 DEF Lacks
    <3> QED BY <1>0, <2>1, <3>1, <3>2 DEF NothingSkipped
  <2> QED BY <2>2, <2>3
<1>14. InOrder(v)
  <2>1. \A i \in Ids \ {f} : SameId(v, w, i)
    BY DEF SameId
  <2>2. v.place[f] = "queue" /\ v.result[f] = w.result[f]
    BY <1>2
  <2>3. f \in Kids => w.place[f] # "queue" /\ v.ends[f] = Nil
    BY <1>3
  <2> QED BY <1>0, <1>2, <2>1, <2>2, <2>3, InOrderQueues
<1>15. Busy(v) <= PerTab
  <2>1. Under(v) \subseteq Under(w)
    BY DEF Under, In
  <2>2. Busy(v) <= Busy(w) /\ Busy(v) \in Nat /\ Busy(w) \in Nat /\ PerTab \in Nat
    BY <1>0, <2>1, BusyShrinks, BusyIsUnder, TransferAssumption
  <2> QED BY <1>0, <2>2
<1> QED BY <1>0, <1>6, <1>7, <1>8, <1>11, <1>12, <1>13, <1>14, <1>15 DEF Sound, DirPart

\* A discovered file is queued, or dropped with its cancelled root.
LEMMA TakeFoundSound ==
    ASSUME Sound(x), TakeFound
    PROVE  Sound(x')
<1> DEFINE r == x.deferred.root
           f == x.deferred.file
           taken == [x EXCEPT !.deferred = Nil]
<1>0. /\ x \in WorkerRec /\ Aggregates(x) /\ StreamOrdered(x)
      /\ x.deferred # Nil /\ f # Nil
  BY DEF Sound, DirPart, TakeFound
<1>1. /\ x.deferred \in Messages /\ r \in Roots /\ f \in Downloads /\ x.deferred \in Pending(x)
      /\ Roots = FileRoots \cup DirRoots /\ f \in Range(FilesOf(r))
      /\ FileRoots \cap DirRoots = {} /\ Kids \cap Roots = {}
  <2>1. x.deferred \in Messages /\ x.deferred \in Pending(x)
    BY <1>0, PendingTyped DEF Pending
  <2> QED BY <1>0, <2>1, TransferAssumption DEF Messages, StreamOrdered, Roots
<1>2. /\ taken \in WorkerRec /\ SameTransfers(taken, x)
      /\ taken.deferred = Nil /\ taken.found = x.found /\ taken.roots = x.roots
      /\ taken.pending = x.pending /\ taken.scan = x.scan
      /\ taken.dirs = x.dirs /\ taken.parent = x.parent
  <2>1. taken \in WorkerRec
    BY <1>0, Zenon DEF WorkerRec
  <2> QED BY <1>0, <2>1 DEF WorkerRec, SameTransfers
<1>3. (r \in DirRoots => x.dirs[r].cancelled) => Sound(taken)
  <2> HIDE DEF taken
  <2> QED BY <1>0, <1>2, FoundDropped
<1>4. CASE x.pending[r] = "cancelled" \/ x.dirs[r].cancelled
  <2>1. x' = taken
    BY <1>4 DEF TakeFound
  <2>2. r \in DirRoots => x.dirs[r].cancelled
    BY <1>0, <1>4 DEF Aggregates
  <2> QED BY <1>3, <2>1, <2>2
<1>5. CASE ~(x.pending[r] = "cancelled" \/ x.dirs[r].cancelled) /\ f = r
  <2>1. x' = StartDownloads([taken EXCEPT !.queue = Append(@, f), !.place[f] = "queue"])
    BY <1>5 DEF TakeFound
  <2>2. r \in FileRoots
    <3>1. r \in DirRoots => f \in Kids
      BY <1>1, IdFacts
    <3> QED BY <1>1, <1>5, <3>1
  <2>3. Sound(taken)
    BY <1>1, <1>3, <2>2
  <2> HIDE DEF taken
  <2> QED BY <1>5, <2>1, <2>2, <2>3, FileRootQueued, StartDownloadsSound
<1>6. CASE ~(x.pending[r] = "cancelled" \/ x.dirs[r].cancelled) /\ f # r
  <2> DEFINE owned == [taken EXCEPT !.parent[f] = r, !.dirs[r].kids = @ \cup {f},
                                    !.dirs[r].is = TRUE]
             v == [owned EXCEPT !.queue = Append(@, f), !.place[f] = "queue"]
             dir == [x.dirs[r] EXCEPT !.kids = @ \cup {f}, !.is = TRUE]
             dirs == [x.dirs EXCEPT ![r] = dir]
             parent == [x.parent EXCEPT ![f] = r]
             place == [x.place EXCEPT ![f] = "queue"]
             queue == Append(x.queue, f)
  <2>1. x' = StartDownloads(v)
    BY <1>6 DEF TakeFound
  <2>2. r \in DirRoots /\ f \in Range(Contents[r]) /\ f \in Kids /\ f \in Ids
    <3>1. r \in DirRoots /\ f \in Range(Contents[r])
      BY <1>1, <1>6, IdFacts
    <3> QED BY <3>1, IdFacts DEF Ids
  <2>3. v = [x EXCEPT !.deferred = Nil, !.parent = parent, !.dirs = dirs, !.queue = queue,
                      !.place = place]
    <3>1. /\ x.dirs \in [Roots -> DirRec] /\ x.parent \in [Downloads -> Roots \cup {Nil}]
          /\ x.place \in [Ids -> Places] /\ x.queue \in Seq(Downloads)
      BY <1>0 DEF WorkerRec
    <3>2. owned = [taken EXCEPT !.parent = parent, !.dirs = dirs]
      <4> DEFINE one == [taken EXCEPT !.parent[f] = r]
                 two == [one EXCEPT !.dirs[r].kids = @ \cup {f}]
                 kids == [x.dirs EXCEPT ![r].kids = @ \cup {f}]
      <4>1. one = [taken EXCEPT !.parent = parent] /\ one.dirs = x.dirs
        BY <1>2 DEF WorkerRec
      <4>2. two = [taken EXCEPT !.parent = parent, !.dirs = kids] /\ two.dirs = kids
        <5> HIDE DEF one
        <5> QED BY <1>2, <4>1 DEF WorkerRec
      <4>3. dirs = [kids EXCEPT ![r].is = TRUE]
        BY <1>1, <3>1
      <4>4. owned = [two EXCEPT !.dirs[r].is = TRUE]
        OBVIOUS
      <4> HIDE DEF two, kids, dirs, taken, owned
      <4> QED BY <1>2, <4>2, <4>3, <4>4 DEF WorkerRec
    <3> QED BY <1>0, <1>1, <3>1, <3>2 DEF WorkerRec
  <2>4. /\ dir \in DirRec /\ dir.is /\ dir.kids = x.dirs[r].kids \cup {f}
        /\ dir.done = x.dirs[r].done /\ dir.cancelled = x.dirs[r].cancelled
        /\ dir.failed = x.dirs[r].failed
    <3>1. x.dirs[r] \in DirRec
      BY <1>0, <1>1 DEF WorkerRec
    <3>2. x.dirs[r].kids \cup {f} \in SUBSET Kids
      BY <2>2, <3>1 DEF DirRec
    <3>3. dir \in DirRec
      BY <3>1, <3>2, Zenon DEF DirRec
    <3> QED BY <3>1, <3>3 DEF DirRec
  <2> HIDE DEF dir
  <2>5. /\ dirs \in [Roots -> DirRec] /\ dirs[r] = dir
        /\ \A s \in Roots \ {r} : dirs[s] = x.dirs[s]
    BY <1>0, <1>1, <2>4 DEF WorkerRec
  <2>6. /\ parent \in [Downloads -> Roots \cup {Nil}]
        /\ \A k \in Downloads : parent[k] = IF k = f THEN r ELSE x.parent[k]
    BY <1>0, <1>1 DEF WorkerRec
  <2>7. /\ place \in [Ids -> Places]
        /\ \A i \in Ids : place[i] = IF i = f THEN "queue" ELSE x.place[i]
    BY <1>0, <2>2 DEF WorkerRec, Places
  <2>8. queue \in Seq(Downloads)
    BY <1>0, <1>1 DEF WorkerRec
  <2> HIDE DEF v, owned, taken, dirs, parent, place, queue
  <2>9. v \in WorkerRec
    BY <1>0, <2>3, <2>5, <2>6, <2>7, <2>8, Zenon DEF WorkerRec
  <2>10. /\ v.deferred = Nil /\ v.found = x.found /\ v.roots = x.roots /\ v.pending = x.pending
         /\ v.scan = x.scan /\ v.dirs = dirs /\ v.parent = parent /\ v.queue = queue
         /\ v.uploads = x.uploads /\ v.ends = x.ends /\ v.again = x.again
         /\ v.result = x.result /\ v.place = place
    BY <1>0, <2>3 DEF WorkerRec
  <2>11. /\ \A s \in Roots \ {r} : v.dirs[s] = x.dirs[s]
         /\ v.dirs[r].is /\ v.dirs[r].kids = x.dirs[r].kids \cup {f}
         /\ v.dirs[r].done = x.dirs[r].done /\ v.dirs[r].cancelled = x.dirs[r].cancelled
         /\ v.dirs[r].failed = x.dirs[r].failed
    BY <2>4, <2>5, <2>10
  <2>12. /\ \A k \in Downloads : v.parent[k] = IF k = f THEN r ELSE x.parent[k]
         /\ \A i \in Ids : v.place[i] = IF i = f THEN "queue" ELSE x.place[i]
         /\ v.queue = Append(x.queue, f)
    BY <2>6, <2>7, <2>10 DEF queue
  <2>13. Sound(v)
    <3>1. x.deferred.file = f /\ x.deferred.root = r
      OBVIOUS
    <3> HIDE DEF f, r
    <3>2. KidJoins(v, x, r, f)
      BY <1>0, <2>10, <2>11, <2>12, <3>1 DEF KidJoins
    <3> QED BY <2>2, <2>9, <3>2, KidQueued
  <2> QED BY <2>1, <2>13, StartDownloadsSound
<1> QED BY <1>4, <1>5, <1>6

\* The worker w that has handled the last message of r's discovery, d being r's aggregate then.
Settled(w, r, d) == [w EXCEPT !.deferred = Nil, !.pending[r] = Nil, !.dirs[r] = d]

\* The end of a discovery, as its root's aggregate sees it.
LEMMA SettledSound ==
    ASSUME NEW w, Sound(w), w.deferred # Nil, w.deferred.file = Nil,
           NEW r \in Roots, r = w.deferred.root, NEW d \in DirRec,
           r \in FileRoots => d = w.dirs[r],
           r \in DirRoots =>
             /\ d.is = w.dirs[r].is /\ d.kids = w.dirs[r].kids
             /\ (w.dirs[r].cancelled \/ w.dirs[r].failed > 0 \/ ~w.deferred.ok)
                  => (d.cancelled \/ d.failed > 0)
    PROVE  /\ Sound(Settled(w, r, d)) /\ Settled(w, r, d) \in WorkerRec
           /\ Settled(w, r, d).dirs[r] = d /\ Settled(w, r, d).pending[r] = Nil
           /\ Settled(w, r, d).ends = w.ends /\ Settled(w, r, d).roots = w.roots
<1>0. w \in WorkerRec
  BY DEF Sound
<1> DEFINE v == Settled(w, r, d)
           dirs == [w.dirs EXCEPT ![r] = d]
           pending == [w.pending EXCEPT ![r] = Nil]
<1>1. v = [w EXCEPT !.deferred = Nil, !.pending = pending, !.dirs = dirs]
  BY <1>0 DEF Settled, WorkerRec
<1>2. /\ dirs \in [Roots -> DirRec] /\ dirs[r] = d
      /\ \A s \in Roots \ {r} : dirs[s] = w.dirs[s]
  BY <1>0 DEF WorkerRec
<1>3. pending \in [Roots -> {Nil, "on", "cancelled"}] /\ pending[r] = Nil
  BY <1>0 DEF WorkerRec
<1>4. pending = [w.pending EXCEPT ![r] = Nil]
  OBVIOUS
<1> HIDE DEF v, dirs, pending
<1>5. v \in WorkerRec
  BY <1>0, <1>1, <1>2, <1>3, Zenon DEF WorkerRec
<1>6. /\ SameTransfers(v, w) /\ v.deferred = Nil /\ v.found = w.found /\ v.roots = w.roots
      /\ v.pending = pending /\ v.scan = w.scan /\ v.parent = w.parent /\ v.dirs = dirs
  BY <1>0, <1>1 DEF WorkerRec, SameTransfers
<1>7. /\ v.pending = [w.pending EXCEPT ![r] = Nil]
      /\ \A s \in Roots \ {r} : v.dirs[s] = w.dirs[s]
      /\ r \in FileRoots => v.dirs[r] = w.dirs[r]
  BY <1>2, <1>4, <1>6
<1>8. r \in DirRoots =>
        /\ v.dirs[r].is = w.dirs[r].is /\ v.dirs[r].kids = w.dirs[r].kids
        /\ (w.dirs[r].cancelled \/ w.dirs[r].failed > 0 \/ ~w.deferred.ok)
             => (v.dirs[r].cancelled \/ v.dirs[r].failed > 0)
  BY <1>2, <1>6
<1>9. Sound(v)
  <2>1. Finishes(v, w, r)
    BY <1>6, <1>7, <1>8 DEF Finishes
  <2> QED BY <1>5, <2>1, FinishedTaken
<1> QED BY <1>2, <1>3, <1>5, <1>6, <1>9 DEF v, SameTransfers

\* Settling twice keeps the second aggregate.
LEMMA SettledTwice ==
    ASSUME NEW w \in WorkerRec, NEW r \in Roots, NEW d, NEW e
    PROVE  /\ Settled(w, r, d).dirs[r] = d
           /\ [Settled(w, r, d) EXCEPT !.dirs[r] = e] = Settled(w, r, e)
<1> DEFINE one == [w.dirs EXCEPT ![r] = d]
           pending == [w.pending EXCEPT ![r] = Nil]
<1>1. Settled(w, r, d) = [w EXCEPT !.deferred = Nil, !.pending = pending, !.dirs = one]
  BY DEF Settled, WorkerRec
<1>2. one[r] = d /\ [one EXCEPT ![r] = e] = [w.dirs EXCEPT ![r] = e]
  BY DEF WorkerRec
<1>3. Settled(w, r, e)
        = [w EXCEPT !.deferred = Nil, !.pending = pending, !.dirs = [w.dirs EXCEPT ![r] = e]]
  BY DEF Settled, WorkerRec
<1> HIDE DEF one, pending
<1> QED BY ZenonT(40), <1>1, <1>2, <1>3 DEF WorkerRec

\* A single file has no aggregate: its report is all that is left.
LEMMA FileRootEnds ==
    ASSUME NEW w, Sound(w), NEW r \in FileRoots, NEW e \in Outcomes
    PROVE  Sound(Tell(w, r, e))
<1>1. w \in WorkerRec /\ r \notin Uploads /\ r \in FileRoots \cup Uploads /\ e \in Outcomes \cup {"Partial"}
  BY TransferAssumption DEF Sound, Roots
<1>2. /\ SameDirectories(w, w) /\ \A j \in Ids \ {r} : SameId(w, w, j)
      /\ Within(w.queue, w.queue) /\ Within(w.uploads, w.uploads)
  BY DEF SameDirectories, SameId, Within
<1>3. \A n \in DOMAIN w.uploads : w.uploads[n] # r
  BY <1>1 DEF WorkerRec
<1> QED BY <1>1, <1>2, <1>3, OutsiderEnds

\* Finished, for every way a discovery can end.
LEMMA TakeFinishedSound ==
    ASSUME Sound(x), TakeFinished
    PROVE  Sound(x')
<1> DEFINE r == x.deferred.root
           d == x.dirs[r]
           taken == [x EXCEPT !.deferred = Nil, !.pending[r] = Nil]
           gone == [taken EXCEPT !.dirs[r] = NoDir]
           done == [taken EXCEPT !.dirs[r].done = TRUE]
           dDone == [d EXCEPT !.done = TRUE]
           dCancelled == [dDone EXCEPT !.cancelled = TRUE]
           dFailed == [dDone EXCEPT !.failed = @ + 1]
           S(e) == Settled(x, r, e)
<1>0. /\ x \in WorkerRec /\ Aggregates(x) /\ RootsWait(x) /\ StreamOrdered(x)
      /\ x.deferred # Nil /\ x.deferred.file = Nil
  BY DEF Sound, DirPart, TakeFinished
<1>1. /\ x.deferred \in Messages /\ r \in Roots /\ x.deferred \in Pending(x)
      /\ Roots = FileRoots \cup DirRoots /\ FileRoots \cap DirRoots = {}
  <2>1. x.deferred \in Messages /\ x.deferred \in Pending(x)
    BY <1>0, PendingTyped DEF Pending
  <2> QED BY <2>1, TransferAssumption DEF Messages, Roots
<1>2. x.dirs \in [Roots -> DirRec] /\ d \in DirRec
  BY <1>0, <1>1 DEF WorkerRec
<1>3. x.pending[r] # Nil /\ r \notin Range(x.roots)
  BY <1>0, <1>1 DEF StreamOrdered, RootsWait
<1>4. r \in DirRoots => d.is /\ x.ends[r] = Nil
  <2>1. r \in DirRoots => d.is
    BY <1>0, <1>3 DEF Aggregates
  <2> QED BY <1>0, <2>1 DEF Aggregates, NoDir
<1>5. r \in FileRoots => d = NoDir
  BY <1>0 DEF Aggregates
<1>6. /\ dDone \in DirRec /\ dDone.is = d.is /\ dDone.kids = d.kids /\ dDone.done
      /\ dDone.cancelled = d.cancelled /\ dDone.failed = d.failed
  BY <1>2 DEF DirRec
<1>7. /\ dCancelled \in DirRec /\ dCancelled.is = d.is /\ dCancelled.kids = d.kids
      /\ dCancelled.done /\ dCancelled.cancelled
  <2> HIDE DEF dDone
  <2> QED BY <1>6 DEF DirRec
<1>8. /\ dFailed \in DirRec /\ dFailed.is = d.is /\ dFailed.kids = d.kids
      /\ dFailed.done /\ dFailed.failed > 0
  <2> HIDE DEF dDone
  <2>1. dDone.failed \in Nat
    BY <1>6 DEF DirRec
  <2>2. dDone.failed + 1 \in Nat /\ dDone.failed + 1 > 0
    BY <2>1
  <2> QED BY <1>6, <2>2 DEF DirRec
<1>9. /\ done = S(dDone) /\ gone = S(NoDir)
      /\ [done EXCEPT !.dirs[r].cancelled = TRUE] = S(dCancelled)
      /\ [done EXCEPT !.dirs[r].failed = @ + 1] = S(dFailed)
  <2> DEFINE pending == [x.pending EXCEPT ![r] = Nil]
             at(e) == [x EXCEPT !.deferred = Nil, !.pending = pending,
                                !.dirs = [x.dirs EXCEPT ![r] = e]]
  <2>1. \A e : S(e) = at(e)
    BY <1>0 DEF Settled, WorkerRec
  <2>2. taken = [x EXCEPT !.deferred = Nil, !.pending = pending]
    BY <1>0 DEF WorkerRec
  <2> HIDE DEF pending
  <2>3. done = at(dDone) /\ gone = at(NoDir)
    BY <1>0, <1>1, <1>2, <2>2 DEF WorkerRec
  <2>4. [at(dDone) EXCEPT !.dirs[r].cancelled = TRUE] = at(dCancelled)
    <3> HIDE DEF dDone
    <3> QED BY ZenonT(40), <1>0, <1>1, <1>2 DEF WorkerRec
  <2>5. [at(dDone) EXCEPT !.dirs[r].failed = @ + 1] = at(dFailed)
    <3> DEFINE n == dDone.failed + 1
    <3>1. at(dDone).dirs[r] = dDone
      <4> HIDE DEF dDone
      <4> QED BY <1>1, <1>2
    <3>2. [at(dDone) EXCEPT !.dirs[r].failed = @ + 1] = [at(dDone) EXCEPT !.dirs[r].failed = n]
      BY <3>1
    <3>3. dFailed = [dDone EXCEPT !.failed = n]
      OBVIOUS
    <3>4. [at(dDone) EXCEPT !.dirs[r].failed = n] = at([dDone EXCEPT !.failed = n])
      <4> DEFINE one == [x.dirs EXCEPT ![r] = dDone]
                 two == [x.dirs EXCEPT ![r] = [dDone EXCEPT !.failed = n]]
      <4> HIDE DEF n, dDone, dFailed
      <4>1. [one EXCEPT ![r].failed = n] = two
        BY <1>1, <1>2
      <4>2. at(dDone).dirs = one
        BY <1>0 DEF WorkerRec
      <4>3. [at(dDone) EXCEPT !.dirs[r].failed = n] = [at(dDone) EXCEPT !.dirs = two]
        <5> HIDE DEF one, two, at
        <5> QED BY <4>1, <4>2, Zenon
      <4>4. [at(dDone) EXCEPT !.dirs = two] = at([dDone EXCEPT !.failed = n])
        <5> HIDE DEF two
        <5>1. at([dDone EXCEPT !.failed = n]) = [x EXCEPT !.deferred = Nil, !.pending = pending, !.dirs = two]
          BY DEF two
        <5> HIDE DEF dFailed
        <5> QED BY <1>0, <5>1 DEF WorkerRec
      <4> QED BY <4>3, <4>4
    <3> HIDE DEF n, at, dDone, dFailed
    <3> QED BY <3>2, <3>3, <3>4
  <2> HIDE DEF done, gone, at, S, dDone, dCancelled, dFailed
  <2> QED BY <2>1, <2>3, <2>4, <2>5
<1>10. x' = IF x.pending[r] = "cancelled" THEN FinishDirectory(S(dCancelled), r)
            ELSE IF x.deferred.ok
            THEN IF r \in FileRoots THEN S(NoDir) ELSE FinishDirectory(S(dDone), r)
            ELSE IF d.cancelled THEN FinishDirectory(S(dDone), r)
            ELSE IF d.kids = {} THEN Tell(S(NoDir), r, "Failed")
            ELSE FinishDirectory(S(dFailed), r)
  <2>1. x' = IF x.pending[r] = "cancelled"
             THEN FinishDirectory([done EXCEPT !.dirs[r].cancelled = TRUE], r)
             ELSE IF x.deferred.ok
             THEN IF r \in FileRoots THEN gone ELSE FinishDirectory(done, r)
             ELSE IF d.cancelled THEN FinishDirectory(done, r)
             ELSE IF d.kids = {} THEN Tell(gone, r, "Failed")
             ELSE FinishDirectory([done EXCEPT !.dirs[r].failed = @ + 1], r)
    BY DEF TakeFinished
  <2> HIDE DEF S, dDone, dCancelled, dFailed, done, gone, r, d
  <2> QED BY <1>9, <2>1
<1>11. "Failed" \in Outcomes /\ "Cancelled" \in Outcomes
  BY DEF Outcomes
<1>12. CASE r \in FileRoots
  <2>1. Sound(S(NoDir)) /\ S(NoDir) \in WorkerRec
    BY <1>0, <1>1, <1>2, <1>5, <1>12, SettledSound
  <2>2. d.kids = {} /\ ~d.cancelled /\ dCancelled.kids = {}
    BY <1>5, <1>7, <1>12 DEF NoDir
  <2>3. FinishDirectory(S(dCancelled), r) = Tell(S(NoDir), r, "Cancelled")
    <3>1. S(dCancelled).dirs[r] = dCancelled /\ [S(dCancelled) EXCEPT !.dirs[r] = NoDir] = S(NoDir)
      <4> HIDE DEF dCancelled
      <4> QED BY <1>0, <1>1, SettledTwice
    <3> HIDE DEF S, dCancelled
    <3> QED BY <1>7, <2>2, <3>1 DEF FinishDirectory, DirectoryReady, Summary
  <2> HIDE DEF S, dCancelled, dDone, dFailed
  <2>4. x' \in {S(NoDir), Tell(S(NoDir), r, "Cancelled"), Tell(S(NoDir), r, "Failed")}
    BY <1>10, <1>12, <2>2, <2>3
  <2> QED BY <1>11, <1>12, <2>1, <2>4, FileRootEnds
<1>13. CASE r \in DirRoots
  <2>1. Sound(S(dCancelled))
    <3> HIDE DEF dCancelled
    <3> QED BY <1>0, <1>1, <1>7, <1>13, SettledSound
  <2>2. ASSUME x.deferred.ok \/ d.cancelled PROVE Sound(S(dDone))
    <3> HIDE DEF dDone
    <3> QED BY <1>0, <1>1, <1>6, <1>13, <2>2, SettledSound
  <2>3. /\ Sound(S(dFailed)) /\ S(dFailed) \in WorkerRec /\ S(dFailed).dirs[r] = dFailed
        /\ S(dFailed).pending[r] = Nil /\ S(dFailed).ends = x.ends /\ S(dFailed).roots = x.roots
    <3> HIDE DEF dFailed
    <3> QED BY <1>0, <1>1, <1>8, <1>13, SettledSound
  <2>4. ASSUME d.kids = {} PROVE Sound(Tell(S(NoDir), r, "Failed"))
    <3>1. [S(dFailed) EXCEPT !.dirs[r] = NoDir] = S(NoDir)
      <4> HIDE DEF dFailed
      <4> QED BY <1>0, <1>1, SettledTwice
    <3> HIDE DEF S, dFailed
    <3>2. S(dFailed).dirs[r].kids = {} /\ r \notin Range(S(dFailed).roots) /\ S(dFailed).ends[r] = Nil
      BY <1>3, <1>4, <1>8, <1>13, <2>3, <2>4
    <3>3. "Failed" \in Outcomes \cup {"Partial"} /\ "Failed" # "Completed"
      BY <1>11
    <3>4. Sound(Tell([S(dFailed) EXCEPT !.dirs[r] = NoDir], r, "Failed"))
      BY <1>13, <2>3, <3>2, <3>3, RootEnds
    <3> QED BY <3>1, <3>4
  <2> HIDE DEF S, dCancelled, dDone, dFailed
  <2>5. r \notin FileRoots
    BY <1>1, <1>13
  <2> QED BY <1>10, <1>13, <2>1, <2>2, <2>3, <2>4, <2>5, FinishDirectorySound
<1> QED BY <1>1, <1>12, <1>13

-----------------------------------------------------------------------------
(* Cancelling.                                                             *)

\* v is w once the discovery of r has been told to stop, or has lost its turn.
Stops(v, w, r) ==
  /\ SameTransfers(v, w)
  /\ v.found = w.found /\ v.deferred = w.deferred /\ v.parent = w.parent
  /\ v.scan.root = w.scan.root /\ v.scan.left = w.scan.left /\ v.scan.st = w.scan.st
  /\ \A s \in Roots \ {r} : v.pending[s] = w.pending[s] /\ v.dirs[s] = w.dirs[s]
  /\ v.pending[r] = Nil <=> w.pending[r] = Nil
  /\ IsInjective(v.roots) /\ Range(v.roots) = Range(w.roots) \ {r}
  /\ r \in FileRoots => v.dirs[r] = w.dirs[r]
  /\ r \in DirRoots =>
       /\ w.dirs[r] # NoDir /\ v.dirs[r].is = w.dirs[r].is /\ v.dirs[r].kids = w.dirs[r].kids
       /\ v.dirs[r].cancelled /\ (v.dirs[r].done => w.dirs[r].done \/ w.pending[r] = Nil)

\* A discovery that is told to stop still ends with its last message.
LEMMA DiscoveryStopped ==
    ASSUME NEW v \in WorkerRec, NEW w, Sound(w), NEW r \in Roots, Stops(v, w, r)
    PROVE  Sound(v)
<1> USE DEF Stops
<1>0. /\ w \in WorkerRec
      /\ Aggregates(w) /\ RootsWait(w) /\ StreamOrdered(w) /\ FilesAreNew(w)
      /\ Family(w) /\ NothingSkipped(w)
  BY DEF Sound, DirPart
<1>1. Pending(v) = Pending(w) /\ Pending(w) \subseteq Messages
  BY <1>0, PendingTyped DEF Pending
<1>2. /\ Roots = FileRoots \cup DirRoots /\ FileRoots \cap DirRoots = {} /\ v.ends = w.ends
      /\ \A s \in Roots : v.pending[s] = Nil <=> w.pending[s] = Nil
      /\ \A s \in Range(v.roots) : s \in Roots \ {r} /\ s \in Range(w.roots)
  <2>1. Roots = FileRoots \cup DirRoots /\ FileRoots \cap DirRoots = {} /\ v.ends = w.ends
    BY TransferAssumption DEF Roots, SameTransfers
  <2>2. \A s \in Range(w.roots) : s \in Roots
    BY <1>0 DEF WorkerRec, Range
  <2> QED BY <2>1, <2>2
<1>3. r \in DirRoots => v.dirs[r] # NoDir /\ v.dirs[r].is /\ w.ends[r] = Nil
  BY <1>0 DEF Aggregates, NoDir
<1>4. Aggregates(v)
  <2>1. ASSUME NEW f \in FileRoots PROVE v.dirs[f] = NoDir
    BY <1>0, <1>2 DEF Aggregates
  <2>2. ASSUME NEW s \in DirRoots
        PROVE  /\ v.dirs[s] # NoDir => v.dirs[s].is /\ v.ends[s] = Nil
               /\ v.pending[s] # Nil => v.dirs[s].is /\ ~v.dirs[s].done
               /\ v.pending[s] = "cancelled" => v.dirs[s].cancelled
    <3>1. CASE s = r
      BY <1>0, <1>2, <1>3, <2>2, <3>1 DEF Aggregates
    <3>2. CASE s # r
      BY <1>0, <1>2, <3>2 DEF Aggregates
    <3> QED BY <3>1, <3>2
  <2> QED BY <2>1, <2>2 DEF Aggregates
<1>5. RootsWait(v)
  BY <1>0, <1>2 DEF RootsWait
<1>6. StreamOrdered(v)
  <2>1. \A m \in Pending(v) :
          v.pending[m.root] # Nil /\ (m.file # Nil => m.file \in Range(FilesOf(m.root)))
    BY <1>0, <1>1, <1>2 DEF StreamOrdered, Messages
  <2>2. v.scan.st = "run" =>
          /\ v.scan.root \in Roots /\ v.pending[v.scan.root] # Nil
          /\ \A m \in Pending(v) : m.file = Nil => m.root # v.scan.root
          /\ Range(v.scan.left) \subseteq Range(FilesOf(v.scan.root))
    BY <1>0, <1>1, <1>2 DEF StreamOrdered
  <2>3. /\ v.deferred # Nil /\ v.deferred.file = Nil
             => \A m \in Range(v.found) : m.root # v.deferred.root
        /\ \A i, j \in DOMAIN v.found :
             i < j /\ v.found[i].file = Nil => v.found[j].root # v.found[i].root
    BY <1>0 DEF StreamOrdered
  <2> QED BY <2>1, <2>2, <2>3 DEF StreamOrdered
<1>7. \A k \in Kids : Untouched(v, k) <=> Untouched(w, k)
  BY DEF Untouched, SameTransfers
<1>8. FilesAreNew(v)
  <2>1. /\ \A m \in Pending(v) : m.file \in Kids => Untouched(v, m.file)
        /\ v.scan.st = "run" =>
             /\ \A k \in Range(v.scan.left) \cap Kids :
                  Untouched(v, k) /\ \A m \in Pending(v) : m.file # k
             /\ IsInjective(v.scan.left)
    BY <1>0, <1>1, <1>7 DEF FilesAreNew
  <2>2. /\ v.deferred # Nil /\ v.deferred.file \in Kids
             => \A m \in Range(v.found) : m.file # v.deferred.file
        /\ \A i, j \in DOMAIN v.found :
             i # j /\ v.found[i].file \in Kids => v.found[j].file # v.found[i].file
    BY <1>0 DEF FilesAreNew
  <2>3. ASSUME NEW s \in DirRoots, (v.ends[s] = Nil /\ v.dirs[s] = NoDir) \/ s \in Range(v.roots),
               NEW k \in Range(Contents[s])
        PROVE  Untouched(v, k)
    <3>1. s # r
      BY <1>2, <1>3, <2>3
    <3>2. (w.ends[s] = Nil /\ w.dirs[s] = NoDir) \/ s \in Range(w.roots)
      BY <1>2, <2>3, <3>1
    <3> QED BY <1>0, <1>7, <3>2, IdFacts DEF FilesAreNew
  <2> QED BY <2>1, <2>2, <2>3 DEF FilesAreNew
<1>9. Family(v)
  <2>1. \A s \in Roots : v.dirs[s].kids = w.dirs[s].kids
    BY <1>2
  <2> QED BY <1>0, <2>1, SMT DEF Family, Live, SameTransfers
<1>10. NothingSkipped(v)
  <2> SUFFICES ASSUME NEW s \in DirRoots
               PROVE  /\ v.dirs[s].is /\ ~Lacks(v, s) /\ s \notin Range(v.roots)
                           => \A k \in Range(Contents[s]) :
                                v.ends[k] = "Completed" \/ k \in v.dirs[s].kids \/ Comes(v, s, k)
                      /\ v.ends[s] = "Completed"
                           => \A k \in Range(Contents[s]) : v.ends[k] = "Completed"
    BY DEF NothingSkipped
  <2>1. v.ends[s] = "Completed" => \A k \in Range(Contents[s]) : v.ends[k] = "Completed"
    BY <1>0, <1>2 DEF NothingSkipped
  <2>2. CASE s = r
    BY <2>1, <2>2 DEF Lacks
  <2>3. CASE s # r
    <3>1. v.dirs[s] = w.dirs[s] /\ (s \notin Range(v.roots) => s \notin Range(w.roots))
      BY <1>2, <2>3
    <3>2. Lacks(v, s) <=> Lacks(w, s)
      BY <1>1, <3>1 DEF Lacks
    <3>3. \A k \in Range(Contents[s]) : Comes(w, s, k) => Comes(v, s, k)
      BY <1>1 DEF Comes
    <3> QED BY <1>0, <1>2, <2>1, <3>1, <3>2, <3>3 DEF NothingSkipped
  <2> QED BY <2>2, <2>3
<1> QED BY <1>4, <1>5, <1>6, <1>8, <1>9, <1>10, TransfersKept DEF DirPart

\* cancel_pending_discovery changes the state of one discovery.
LEMMA StopScanFacts ==
    ASSUME NEW w \in WorkerRec, NEW r \in Roots
    PROVE  /\ StopScan(w, r) \in WorkerRec /\ SameTransfers(StopScan(w, r), w)
           /\ StopScan(w, r).found = w.found /\ StopScan(w, r).deferred = w.deferred
           /\ StopScan(w, r).parent = w.parent /\ StopScan(w, r).dirs = w.dirs
           /\ StopScan(w, r).roots = w.roots
           /\ StopScan(w, r).scan.root = w.scan.root /\ StopScan(w, r).scan.left = w.scan.left
           /\ StopScan(w, r).scan.st = w.scan.st
           /\ \A s \in Roots \ {r} : StopScan(w, r).pending[s] = w.pending[s]
           /\ StopScan(w, r).pending[r] = Nil <=> w.pending[r] = Nil
<1> DEFINE v == StopScan(w, r)
           pending == [w.pending EXCEPT ![r] = IF @ = Nil THEN Nil ELSE "cancelled"]
           scan == [w.scan EXCEPT !.told = IF w.scan.root = r THEN TRUE ELSE @]
<1>1. v = [w EXCEPT !.pending = pending, !.scan = scan]
  BY DEF StopScan, WorkerRec
<1>2. /\ pending \in [Roots -> {Nil, "on", "cancelled"}]
      /\ \A s \in Roots \ {r} : pending[s] = w.pending[s]
      /\ pending[r] = Nil <=> w.pending[r] = Nil
  BY TransferNil DEF WorkerRec
<1>3. w.scan \in ScanRec
  BY DEF WorkerRec
<1>4. /\ scan \in ScanRec /\ scan.root = w.scan.root /\ scan.left = w.scan.left
      /\ scan.st = w.scan.st
  <2>1. scan = [w.scan EXCEPT !.told = TRUE] \/ scan = w.scan
    BY <1>3 DEF ScanRec
  <2>2. [w.scan EXCEPT !.told = TRUE] \in ScanRec
    BY <1>3, Zenon DEF ScanRec
  <2> HIDE DEF scan
  <2> QED BY <1>3, <2>1, <2>2 DEF ScanRec
<1> HIDE DEF v, pending, scan
<1>5. v \in WorkerRec
  BY <1>1, <1>2, <1>4, Zenon DEF WorkerRec
<1>6. /\ SameTransfers(v, w) /\ v.found = w.found /\ v.deferred = w.deferred
      /\ v.parent = w.parent /\ v.dirs = w.dirs /\ v.roots = w.roots
      /\ v.pending = pending /\ v.scan = scan
  BY <1>1 DEF WorkerRec, SameTransfers
<1> QED BY <1>2, <1>4, <1>5, <1>6 DEF v

\* A root leaves the queue of discoveries.
LEMMA RootUnqueued ==
    ASSUME NEW w \in WorkerRec, RootsWait(w), NEW r \in Roots
    PROVE  /\ Unqueue(w.roots, {r}) \in Seq(Roots) /\ IsInjective(Unqueue(w.roots, {r}))
           /\ Range(Unqueue(w.roots, {r})) = Range(w.roots) \ {r}
<1>1. w.roots \in Seq(Roots) /\ IsInjective(w.roots)
  BY DEF WorkerRec, RootsWait
<1> DEFINE q == w.roots
           S == {r}
<1> HIDE DEF q, S
<1>2. /\ Unqueue(q, S) \in Seq(Roots) /\ Range(Unqueue(q, S)) = Range(q) \ S
      /\ \A i, j \in DOMAIN Unqueue(q, S) : \E n, p \in DOMAIN q :
           /\ Unqueue(q, S)[i] = q[n] /\ Unqueue(q, S)[j] = q[p]
           /\ n = p => i = j
  <2>1. q \in Seq(Roots)
    BY <1>1 DEF q
  <2> QED BY <2>1, UnqueueFacts
<1>3. ASSUME NEW i \in DOMAIN Unqueue(q, S), NEW j \in DOMAIN Unqueue(q, S),
             Unqueue(q, S)[i] = Unqueue(q, S)[j]
      PROVE  i = j
  <2>1. PICK n \in DOMAIN q, p \in DOMAIN q :
          /\ Unqueue(q, S)[i] = q[n] /\ Unqueue(q, S)[j] = q[p]
          /\ n = p => i = j
    BY <1>2
  <2> QED BY <1>1, <1>3, <2>1, Zenon DEF IsInjective, q
<1>4. IsInjective(Unqueue(q, S))
  BY <1>3, Zenon DEF IsInjective
<1> QED BY <1>2, <1>4 DEF q, S

\* The discovery of a cancelled directory is over for its transfers.
LEMMA CancelScanSound ==
    ASSUME NEW w, Sound(w), NEW r \in DirRoots, w.dirs[r] # NoDir
    PROVE  /\ Sound(CancelScan(w, r)) /\ CancelScan(w, r) \in WorkerRec
           /\ SameTransfers(CancelScan(w, r), w) /\ CancelScan(w, r).parent = w.parent
           /\ CancelScan(w, r).dirs[r].is /\ CancelScan(w, r).dirs[r].kids = w.dirs[r].kids
<1> DEFINE s == StopScan(w, r)
           d == w.dirs[r]
           over == d.done \/ w.pending[r] = Nil
           dir == [d EXCEPT !.cancelled = TRUE, !.done = over]
           dirs == [w.dirs EXCEPT ![r] = dir]
           roots == Unqueue(w.roots, {r})
           drops == w.deferred # Nil /\ w.deferred.root = r /\ w.deferred.file # Nil
           mid == [s EXCEPT !.dirs = dirs, !.roots = roots]
           c == CancelScan(w, r)
<1>0. w \in WorkerRec /\ RootsWait(w) /\ r \in Roots /\ r \notin FileRoots /\ Aggregates(w)
  BY TransferAssumption DEF Sound, DirPart, Roots
<1>1. /\ s \in WorkerRec /\ SameTransfers(s, w) /\ s.found = w.found /\ s.deferred = w.deferred
      /\ s.parent = w.parent /\ s.dirs = w.dirs /\ s.roots = w.roots
      /\ s.scan.root = w.scan.root /\ s.scan.left = w.scan.left /\ s.scan.st = w.scan.st
      /\ \A t \in Roots \ {r} : s.pending[t] = w.pending[t]
      /\ s.pending[r] = Nil <=> w.pending[r] = Nil
  BY <1>0, StopScanFacts
<1>2. d \in DirRec /\ w.dirs \in [Roots -> DirRec] /\ over \in BOOLEAN /\ d.is
  BY <1>0 DEF WorkerRec, DirRec, Aggregates
<1>3. /\ dir \in DirRec /\ dir.is = d.is /\ dir.kids = d.kids /\ dir.cancelled /\ dir.done = over
  <2> HIDE DEF d, over
  <2>1. dir \in DirRec
    BY <1>2, Zenon DEF DirRec
  <2> QED BY <1>2, <2>1 DEF DirRec
<1>4. /\ dirs \in [Roots -> DirRec] /\ dirs[r] = dir
      /\ \A t \in Roots \ {r} : dirs[t] = w.dirs[t]
  <2> HIDE DEF dir
  <2> QED BY <1>0, <1>2, <1>3
<1>5. roots \in Seq(Roots) /\ IsInjective(roots) /\ Range(roots) = Range(w.roots) \ {r}
  BY <1>0, RootUnqueued
<1>6. c = [s EXCEPT !.dirs = dirs, !.roots = roots,
                    !.deferred = IF drops THEN Nil ELSE w.deferred]
  <2>1. [s.dirs EXCEPT ![r].cancelled = TRUE, ![r].done = @ \/ w.pending[r] = Nil] = dirs
    <3> HIDE DEF s
    <3> QED BY <1>0, <1>1, <1>2
  <2>2. [s EXCEPT !.dirs[r].cancelled = TRUE, !.dirs[r].done = @ \/ w.pending[r] = Nil]
          = [s EXCEPT !.dirs = dirs]
    <3> HIDE DEF s, dirs
    <3> QED BY ZenonT(40), <1>1, <2>1 DEF WorkerRec
  <2>3. c = [s EXCEPT !.dirs[r].cancelled = TRUE, !.dirs[r].done = @ \/ w.pending[r] = Nil,
                      !.roots = Unqueue(@, {r}),
                      !.deferred = IF @ # Nil /\ w.deferred.root = r /\ w.deferred.file # Nil
                                   THEN Nil ELSE @]
    BY DEF CancelScan
  <2>4. c = [[s EXCEPT !.dirs[r].cancelled = TRUE, !.dirs[r].done = @ \/ w.pending[r] = Nil]
               EXCEPT !.roots = roots, !.deferred = IF drops THEN Nil ELSE w.deferred]
    <3> HIDE DEF s, c
    <3> QED BY <1>1, <2>3 DEF WorkerRec
  <2> HIDE DEF s, dirs, c, roots, drops
  <2> QED BY <1>1, <2>2, <2>4 DEF WorkerRec
<1> HIDE DEF s, dir, dirs, roots, c, d
<1>7. mid \in WorkerRec
  BY <1>1, <1>4, <1>5, Zenon DEF WorkerRec
<1>8. /\ mid.dirs = dirs /\ mid.roots = roots /\ mid.found = w.found /\ mid.deferred = w.deferred
      /\ mid.pending = s.pending /\ mid.scan = s.scan /\ mid.parent = w.parent
      /\ SameTransfers(mid, w)
  BY <1>1 DEF WorkerRec, SameTransfers
<1>9. Sound(mid)
  <2> HIDE DEF mid
  <2>1. Stops(mid, w, r)
    <3>1. /\ \A t \in Roots \ {r} : mid.pending[t] = w.pending[t] /\ mid.dirs[t] = w.dirs[t]
          /\ mid.pending[r] = Nil <=> w.pending[r] = Nil
          /\ mid.scan.root = w.scan.root /\ mid.scan.left = w.scan.left
          /\ mid.scan.st = w.scan.st
          /\ IsInjective(mid.roots) /\ Range(mid.roots) = Range(w.roots) \ {r}
      BY <1>1, <1>4, <1>5, <1>8
    <3>2. /\ mid.dirs[r].is = w.dirs[r].is /\ mid.dirs[r].kids = w.dirs[r].kids
          /\ mid.dirs[r].cancelled /\ (mid.dirs[r].done => w.dirs[r].done \/ w.pending[r] = Nil)
      BY <1>3, <1>4, <1>8 DEF d
    <3> QED BY <1>0, <1>8, <3>1, <3>2 DEF Stops
  <2> QED BY <1>0, <1>7, <2>1, DiscoveryStopped
<1> DEFINE e == [mid EXCEPT !.deferred = Nil]
<1>10. e \in WorkerRec
  <2> HIDE DEF mid
  <2> QED BY <1>7, Zenon DEF WorkerRec
<1>11. /\ e.dirs = dirs /\ e.roots = mid.roots /\ e.found = mid.found /\ e.deferred = Nil
       /\ e.pending = mid.pending /\ e.scan = mid.scan /\ e.parent = mid.parent
       /\ SameTransfers(e, mid) /\ SameTransfers(e, w)
  <2> HIDE DEF mid
  <2> QED BY <1>7, <1>8 DEF WorkerRec, SameTransfers
<1>12. ASSUME drops PROVE Sound(e)
  <2> HIDE DEF mid, e
  <2>1. /\ mid.deferred # Nil /\ mid.deferred.file # Nil /\ mid.deferred.root = r
        /\ mid.dirs[r].cancelled
    BY <1>3, <1>4, <1>8, <1>12
  <2> QED BY <1>8, <1>9, <1>10, <1>11, <2>1, FoundDropped
<1>13. c = mid \/ (drops /\ c = e)
  BY ZenonT(40), <1>1, <1>6 DEF WorkerRec
<1>14. dirs[r].is /\ dirs[r].kids = w.dirs[r].kids
  BY <1>2, <1>3, <1>4 DEF d
<1> HIDE DEF mid, e
<1> QED BY <1>7, <1>8, <1>9, <1>10, <1>11, <1>12, <1>13, <1>14 DEF c

\* A directory is cancelled with all its files.
LEMMA CancelDirectorySound ==
    ASSUME NEW w, Sound(w), NEW r \in DirRoots, w.dirs[r] # NoDir
    PROVE  Sound(CancelDirectory(w, r))
<1> DEFINE c == CancelScan(w, r)
           kids == w.dirs[r].kids
           S == {k \in kids : w.place[k] \in {"queue", "opening"}}
           Q == {k \in kids : w.place[k] = "queue"}
           queue == Unqueue(c.queue, Q)
           place == [i \in Ids |-> IF i \notin kids THEN c.place[i]
                                   ELSE CASE c.place[i] = "queue" -> "none"
                                          [] c.place[i] = "opening" -> "dropped"
                                          [] c.place[i] = "active" -> "stopping"
                                          [] OTHER -> c.place[i]]
           moved == [i \in Ids |-> IF i \in kids /\ w.place[i] = "active" THEN "stopping"
                                   ELSE w.place[i]]
           v == [c EXCEPT !.place = moved]
           dir == [c.dirs[r] EXCEPT !.kids = @ \ S, !.failed = @ + Cardinality(S)]
           dirs == [c.dirs EXCEPT ![r] = dir]
           ends == [i \in Ids |-> IF i \in S /\ c.ends[i] = Nil THEN "Cancelled" ELSE c.ends[i]]
           again == c.again \cup {k \in S : c.ends[k] # Nil}
           parent == [k \in Downloads |-> IF k \in S THEN Nil ELSE c.parent[k]]
           u == [c EXCEPT !.queue = queue, !.place = place, !.ends = ends, !.again = again,
                          !.parent = parent, !.dirs = dirs]
<1>0. /\ w \in WorkerRec /\ InOrder(w) /\ r \in Roots /\ r # Nil
  BY TransferNil DEF Sound, Ids, Roots
<1>1. /\ Sound(c) /\ c \in WorkerRec /\ InOrder(c) /\ Family(c) /\ c.again \subseteq FileRoots
      /\ SameTransfers(c, w) /\ c.parent = w.parent /\ c.dirs[r].is /\ c.dirs[r].kids = kids
  <2>1. /\ Sound(c) /\ c \in WorkerRec
        /\ SameTransfers(c, w) /\ c.parent = w.parent /\ c.dirs[r].is /\ c.dirs[r].kids = kids
    BY CancelScanSound
  <2> QED BY <2>1 DEF Sound, DirPart
<1>2. /\ c.place = w.place /\ c.ends = w.ends /\ c.result = w.result /\ c.queue = w.queue
      /\ c.uploads = w.uploads /\ c.again = w.again
  BY <1>1 DEF SameTransfers
<1>3. c.dirs \in [Roots -> DirRec] /\ c.dirs[r] \in DirRec /\ kids \subseteq Kids
  <2>1. c.dirs \in [Roots -> DirRec] /\ c.dirs[r] \in DirRec
    BY <1>0, <1>1 DEF WorkerRec
  <2> QED BY <1>1, <2>1 DEF DirRec
<1>4. S \subseteq kids /\ S \subseteq Ids /\ kids \subseteq Ids /\ S \subseteq Downloads /\ Q \subseteq S
  BY <1>3 DEF Ids, Downloads
<1>5. \A k \in S : c.ends[k] = Nil /\ k \in Kids /\ w.place[k] \in {"queue", "opening"}
  BY <1>1, <1>2, <1>3 DEF InOrder, Live
<1>6. CancelDirectory(w, r) = FinishDirectory(u, r)
  <2>1. CancelDirectory(w, r) = FinishDirectory(TellKids(StopKids(c, r), r, S, "Cancelled"), r)
    BY DEF CancelDirectory
  <2>2. StopKids(c, r) = [c EXCEPT !.queue = queue, !.place = place]
    <3> HIDE DEF c, kids
    <3> QED BY <1>1, <1>2 DEF StopKids, WorkerRec
  <2> DEFINE t == [c EXCEPT !.queue = queue, !.place = place]
  <2>3. /\ t.ends = c.ends /\ t.again = c.again /\ t.parent = c.parent /\ t.dirs = c.dirs
    <3> HIDE DEF c, queue, place
    <3> QED BY <1>1 DEF WorkerRec
  <2>4. TellKids(t, r, S, "Cancelled")
          = [t EXCEPT !.ends = ends, !.again = again, !.parent = parent, !.dirs = dirs]
    <3>1. ChildFails("Cancelled")
      BY DEF ChildFails
    <3> DEFINE e3 == [i \in Ids |-> IF i \in S /\ t.ends[i] = Nil THEN "Cancelled" ELSE t.ends[i]]
               a3 == t.again \cup {k \in S : t.ends[k] # Nil}
               p3 == [k \in Downloads |-> IF k \in S THEN Nil ELSE t.parent[k]]
               d3 == [t.dirs[r] EXCEPT !.kids = @ \ S, !.failed = @ + Cardinality(S)]
               one == [t EXCEPT !.ends = e3, !.again = a3, !.parent = p3]
    <3>2. TellKids(t, r, S, "Cancelled")
            = [one EXCEPT !.dirs[r] = d3]
      <4> HIDE DEF t, c, S
      <4> QED BY <3>1 DEF TellKids
    <3>3. e3 = ends /\ a3 = again /\ p3 = parent /\ d3 = dir
      BY <2>3
    <3>4. one.dirs = t.dirs
      <4> HIDE DEF e3, a3, p3, c, queue, place
      <4> QED BY <1>1 DEF WorkerRec
    <3>5. TellKids(t, r, S, "Cancelled") = [one EXCEPT !.dirs = [t.dirs EXCEPT ![r] = d3]]
      <4> HIDE DEF t, c, S, one
      <4>1. [one EXCEPT !.dirs[r] = d3] = [one EXCEPT !.dirs = [one.dirs EXCEPT ![r] = d3]]
        OBVIOUS
      <4> QED BY <3>2, <3>4, <4>1
    <3>6. dirs = [t.dirs EXCEPT ![r] = d3]
      BY <2>3, <3>3
    <3> HIDE DEF t, c, S, dir, dirs, e3, a3, p3, d3, ends, again, parent
    <3>7. [one EXCEPT !.dirs = dirs]
            = [t EXCEPT !.ends = ends, !.again = again, !.parent = parent, !.dirs = dirs]
      BY <3>3
    <3> QED BY <3>5, <3>6, <3>7
  <2> HIDE DEF c, queue, place, ends, again, parent, dirs, S
  <2> QED BY <1>1, <2>1, <2>2, <2>4 DEF WorkerRec

<1>7. moved \in [Ids -> Places] /\ place \in [Ids -> Places]
  BY <1>0, <1>1 DEF WorkerRec, Places
<1>8. /\ \A i \in Ids : moved[i] = IF i \in kids /\ w.place[i] = "active" THEN "stopping"
                                   ELSE w.place[i]
      /\ \A i \in Ids \ S : place[i] = moved[i]
      /\ \A i \in S : place[i] \in {"none", "dropped"} /\ (place[i] = "dropped" => w.place[i] = "opening")
                      /\ moved[i] = w.place[i]
  BY <1>2, <1>4, <1>5
<1> HIDE DEF c, place, moved
<1>9. Sound(v) /\ v \in WorkerRec /\ v.place = moved /\ SameDirectories(v, c)
      /\ v.ends = c.ends /\ v.again = c.again /\ v.queue = c.queue /\ v.uploads = c.uploads
      /\ v.result = c.result
  <2>1. v \in WorkerRec
    BY <1>1, <1>7, Zenon DEF WorkerRec
  <2>2. /\ v.place = moved /\ SameDirectories(v, c)
        /\ v.ends = c.ends /\ v.again = c.again /\ v.queue = c.queue /\ v.uploads = c.uploads
        /\ v.result = c.result
    BY <1>1 DEF WorkerRec, SameDirectories
  <2> HIDE DEF v
  <2> DEFINE C == {k \in kids : w.place[k] = "active"}
  <2>3. \A i \in Ids \ C : SameId(v, c, i)
    BY <1>2, <1>8, <2>2 DEF SameId
  <2>4. ASSUME NEW i \in C \cap Ids
        PROVE  /\ c.place[i] \notin {"none", "queue"}
               /\ Live(v, i) <=> Live(c, i)
               /\ IdInOrder(v, i)
    <3>1. v.place[i] = "stopping" /\ c.place[i] = "active" /\ i \in Kids /\ i \notin DirRoots
      BY <1>2, <1>3, <1>8, <2>2, <2>4, TransferAssumption DEF Roots
    <3>2. c.ends[i] = Nil /\ (c.result[i] \in {"Conflict", "Skipped"} => i \in Uploads)
      BY <1>1, <2>4, <3>1 DEF InOrder, Live
    <3> QED BY <2>2, <3>1, <3>2 DEF Live, IdInOrder
  <2>5. Under(v) \subseteq Under(c)
    BY <1>2, <1>8, <2>2 DEF Under, In
  <2> HIDE DEF C
  <2>6. Sound(v)
    BY <1>1, <2>1, <2>2, <2>3, <2>4, <2>5, MovesSound, ZenonT(40)
  <2> QED BY <2>1, <2>2, <2>6
<1>10. IsFiniteSet(S) /\ Cardinality(S) \in Nat /\ (Cardinality(S) = 0 <=> S = {})
  <2>1. IsFiniteSet(S)
    BY <1>4, TransferAssumption, FS_Subset
  <2> QED BY <2>1, FS_CardinalityType, FS_EmptySet
<1>11. /\ dirs \in [Roots -> DirRec] /\ \A s \in Roots \ {r} : dirs[s] = c.dirs[s]
       /\ dirs[r].is /\ dirs[r].done = c.dirs[r].done /\ dirs[r].cancelled = c.dirs[r].cancelled
       /\ dirs[r].kids = c.dirs[r].kids \ S
       /\ ~(dirs[r].failed > 0) => ~(c.dirs[r].failed > 0) /\ S = {}
  <2> DEFINE d == c.dirs[r]
             n == Cardinality(S)
  <2>1. d \in DirRec /\ d.failed \in Nat /\ d.kids \subseteq Kids /\ d.is
    BY <1>1, <1>3 DEF DirRec
  <2>2. dir = [d EXCEPT !.kids = d.kids \ S, !.failed = d.failed + n]
    OBVIOUS
  <2>3. d.failed + n \in Nat /\ (~(d.failed + n > 0) => ~(d.failed > 0) /\ S = {})
    BY <1>10, <2>1
  <2> DEFINE k == d.kids \ S
             f == d.failed + n
  <2>4. k \in SUBSET Kids /\ f \in Nat
    BY <2>1, <2>3
  <2>5. dir = [d EXCEPT !.kids = k, !.failed = f]
    BY <2>2
  <2> HIDE DEF d, n, k, f, dir, S
  <2>6. dir \in DirRec
    BY <2>1, <2>4, <2>5, Zenon DEF DirRec
  <2>7. /\ dir.is = d.is /\ dir.done = d.done /\ dir.cancelled = d.cancelled
        /\ dir.kids = k /\ dir.failed = f
    BY <2>1, <2>5 DEF DirRec
  <2>8. dirs \in [Roots -> DirRec] /\ dirs[r] = dir /\ \A s \in Roots \ {r} : dirs[s] = c.dirs[s]
    BY <1>0, <1>3, <2>6
  <2> HIDE DEF dirs
  <2> QED BY <2>1, <2>3, <2>7, <2>8 DEF k, f, d
<1>12. /\ queue \in Seq(Downloads) /\ Range(queue) = Range(c.queue) \ Q
       /\ Within(queue, c.queue)
  <2>1. c.queue \in Seq(Downloads)
    BY <1>1 DEF WorkerRec
  <2> DEFINE q == c.queue
  <2> HIDE DEF Q, q
  <2>2. /\ Unqueue(q, Q) \in Seq(Downloads) /\ Range(Unqueue(q, Q)) = Range(q) \ Q
        /\ \A i, j \in DOMAIN Unqueue(q, Q) : \E n, p \in DOMAIN q :
             /\ Unqueue(q, Q)[i] = q[n] /\ Unqueue(q, Q)[j] = q[p]
             /\ n = p => i = j
    <3>1. q \in Seq(Downloads)
      BY <2>1 DEF q
    <3> QED BY <3>1, UnqueueFacts
  <2>3. Within(Unqueue(q, Q), q)
    BY <2>2, Zenon DEF Within
  <2> QED BY <2>2, <2>3 DEF q
<1>13. \A n \in DOMAIN queue : queue[n] \notin S
  <2> SUFFICES ASSUME NEW n \in DOMAIN queue, queue[n] \in S PROVE FALSE
    OBVIOUS
  <2>1. queue[n] \in Range(c.queue) /\ queue[n] \notin Q
    BY <1>12 DEF Range
  <2>2. PICK p \in DOMAIN c.queue : queue[n] = c.queue[p]
    BY <2>1 DEF Range
  <2>3. w.place[queue[n]] = "queue"
    BY ZenonT(40), <1>1, <1>2, <1>5, <2>2 DEF InOrder
  <2> QED BY <2>1, <2>3
<1>14. /\ ends \in [Ids -> Outcomes \cup {"Partial", Nil}]
       /\ \A i \in Ids : ends[i] = IF i \in S THEN "Cancelled" ELSE c.ends[i]
  <2>1. c.ends \in [Ids -> Outcomes \cup {"Partial", Nil}]
    BY <1>1 DEF WorkerRec
  <2> QED BY <1>5, <2>1 DEF Outcomes
<1>15. again = c.again /\ again \in SUBSET Ids
  <2>1. c.again \in SUBSET Ids
    BY <1>1 DEF WorkerRec
  <2> QED BY <1>5, <2>1
<1>16. /\ parent \in [Downloads -> Roots \cup {Nil}]
       /\ \A k \in Downloads : parent[k] = IF k \in S THEN Nil ELSE c.parent[k]
  BY <1>1 DEF WorkerRec
<1> HIDE DEF queue, ends, again, parent, dirs, S, Q, kids, v, u
<1>17. u \in WorkerRec
  BY <1>1, <1>7, <1>11, <1>12, <1>14, <1>15, <1>16, Zenon DEF WorkerRec, u
<1>18. /\ u.roots = c.roots /\ u.pending = c.pending /\ u.scan = c.scan /\ u.found = c.found
       /\ u.deferred = c.deferred /\ u.result = c.result /\ u.uploads = c.uploads
       /\ u.queue = queue /\ u.place = place /\ u.ends = ends /\ u.again = again
       /\ u.parent = parent /\ u.dirs = dirs
  BY <1>1 DEF WorkerRec, u
<1>19. KidsEnded(u, v, r, S, "Cancelled")
  <2>1. /\ u.roots = v.roots /\ u.pending = v.pending /\ u.scan = v.scan
        /\ u.found = v.found /\ u.deferred = v.deferred
        /\ v.dirs = c.dirs /\ v.parent = c.parent
    BY <1>9, <1>18 DEF SameDirectories
  <2>2. \A s \in Roots \ {r} : u.dirs[s] = v.dirs[s]
    BY <1>11, <1>18, <2>1
  <2>3. /\ u.dirs[r].is /\ u.dirs[r].done = v.dirs[r].done
        /\ u.dirs[r].cancelled = v.dirs[r].cancelled /\ u.dirs[r].kids = v.dirs[r].kids \ S
        /\ ~(u.dirs[r].failed > 0) => ~(v.dirs[r].failed > 0) /\ ("Cancelled" = "Completed" \/ S = {})
    BY <1>11, <1>18, <2>1
  <2>4. \A k \in Downloads : u.parent[k] = IF k \in S THEN Nil ELSE v.parent[k]
    BY <1>16, <1>18, <2>1
  <2>5. \A i \in Ids \ S : SameId(u, v, i)
    BY <1>8, <1>9, <1>14, <1>18 DEF SameId
  <2>6. \A i \in S : /\ u.place[i] \in {"none", "dropped"} /\ u.ends[i] = "Cancelled"
                      /\ u.result[i] \in {Nil, v.result[i]}
    BY <1>4, <1>8, <1>9, <1>14, <1>18
  <2>7. Within(u.queue, v.queue) /\ \A n \in DOMAIN u.queue : u.queue[n] \notin S
    BY <1>9, <1>12, <1>13, <1>18
  <2>8. Within(u.uploads, v.uploads) /\ u.again \subseteq FileRoots
    BY <1>1, <1>9, <1>15, <1>18 DEF Within
  <2>9. Under(u) \subseteq Under(v)
    BY <1>4, <1>8, <1>9, <1>18 DEF Under, In
  <2> QED BY <2>1, <2>2, <2>3, <2>4, <2>5, <2>6, <2>7, <2>8, <2>9 DEF KidsEnded
<1>20. v.dirs[r].is /\ S \subseteq v.dirs[r].kids
  BY <1>1, <1>4, <1>9 DEF SameDirectories
<1>21. Sound(u)
  BY <1>9, <1>17, <1>19, <1>20, KidsEnd
<1> QED BY <1>6, <1>21, FinishDirectorySound

\* v is w without the place of i and its entry in the queues.
Leaves(v, w, i) ==
  /\ SameDirectories(v, w) /\ v.ends = w.ends /\ v.again = w.again /\ v.result = w.result
  /\ \A j \in Ids \ {i} : v.place[j] = w.place[j]
  /\ v.place[i] = "none" \/ (v.place[i] = "dropped" /\ w.place[i] = "opening")
  /\ Within(v.queue, w.queue) /\ \A n \in DOMAIN v.queue : i \in Kids => v.queue[n] # i
  /\ Within(v.uploads, w.uploads) /\ \A n \in DOMAIN v.uploads : v.uploads[n] # i

\* A file that waits, or whose channel is being opened, is cancelled.
LEMMA WaitingCancelled ==
    ASSUME NEW v \in WorkerRec, NEW w, Sound(w), NEW i \in Downloads \cup Uploads,
           i \notin FileRoots => Live(w, i), Leaves(v, w, i)
    PROVE  Sound(TellFile(v, i, "Cancelled"))
<1> USE DEF Leaves
<1>1. \A j \in Ids \ {i} : SameId(v, w, j)
  BY DEF SameId
<1>2. v.place[i] \in {"none", "dropped"} /\ v.result[i] \in {Nil, w.result[i]}
  OBVIOUS
<1>3. Under(v) \subseteq Under(w)
  BY DEF Under, In
<1>4. "Cancelled" \in Outcomes /\ ("Cancelled" = "Skipped" => i \in Uploads)
  BY DEF Outcomes
<1> QED BY <1>1, <1>2, <1>3, <1>4, FileEnds, ZenonT(40)

\* Leaving a queue, or none.
LEMMA QueueLeft ==
    ASSUME NEW D, NEW q \in Seq(D), NEW i
    PROVE  /\ Within(q, q) /\ Unqueue(q, {i}) \in Seq(D) /\ Within(Unqueue(q, {i}), q)
           /\ \A n \in DOMAIN Unqueue(q, {i}) : Unqueue(q, {i})[n] # i
<1> DEFINE S == {i}
<1> HIDE DEF S
<1>1. /\ Unqueue(q, S) \in Seq(D) /\ Range(Unqueue(q, S)) = Range(q) \ S
      /\ \A k, j \in DOMAIN Unqueue(q, S) : \E n, p \in DOMAIN q :
           /\ Unqueue(q, S)[k] = q[n] /\ Unqueue(q, S)[j] = q[p]
           /\ n = p => k = j
  BY UnqueueFacts
<1>2. Within(Unqueue(q, S), q)
  BY <1>1, Zenon DEF Within
<1>3. \A n \in DOMAIN Unqueue(q, S) : Unqueue(q, S)[n] # i
  BY <1>1 DEF Range, S
<1>4. Within(q, q)
  BY DEF Within
<1> QED BY <1>1, <1>2, <1>3, <1>4 DEF S

\* A running task is told to stop.
LEMMA StopRunningSound ==
    ASSUME NEW w, Sound(w), NEW i \in Transfers(w)
    PROVE  Sound(StopRunning(w, i))
<1>0. w \in WorkerRec /\ InOrder(w) /\ i \in Ids /\ i \notin DirRoots
      /\ w.place \in [Ids -> Places] /\ w.place[i] \in {"active", "stopping", "posted"}
  <2>1. i \in Ids /\ w.place[i] \in {"active", "stopping", "posted"}
    BY DEF Transfers, In
  <2> QED BY <2>1 DEF Sound, WorkerRec, InOrder
<1>1. CASE w.place[i] # "active"
  <2>1. StopRunning(w, i) = w
    BY <1>0, <1>1 DEF StopRunning, WorkerRec
  <2> QED BY <2>1
<1>2. CASE w.place[i] = "active"
  <2> DEFINE v == [w EXCEPT !.place[i] = "stopping"]
  <2>1. StopRunning(w, i) = v
    BY <1>0, <1>2 DEF StopRunning, WorkerRec
  <2>2. "stopping" \in Places
    BY DEF Places
  <2>3. /\ v \in WorkerRec /\ SameDirectories(v, w) /\ v.ends = w.ends /\ v.again = w.again
        /\ v.queue = w.queue /\ v.uploads = w.uploads /\ v.result = w.result
        /\ \A j \in Ids : v.place[j] = IF j = i THEN "stopping" ELSE w.place[j]
    BY <1>0, <2>2, PlaceFacts
  <2> HIDE DEF v
  <2>4. \A j \in Ids \ {i} : SameId(v, w, j)
    BY <2>3 DEF SameId
  <2>5. w.place[i] \notin {"none", "queue"} /\ (Live(v, i) <=> Live(w, i)) /\ IdInOrder(v, i)
    BY <1>0, <1>2, <2>3 DEF Live, IdInOrder, InOrder
  <2>6. Under(v) \subseteq Under(w)
    BY <1>2, <2>3 DEF Under, In
  <2> DEFINE C == {i}
  <2>7. /\ \A j \in Ids \ C : SameId(v, w, j)
        /\ \A j \in C \cap Ids : w.place[j] \notin {"none", "queue"}
        /\ \A j \in C \cap Ids : Live(v, j) <=> Live(w, j)
        /\ \A j \in C \cap Ids : IdInOrder(v, j)
    BY <2>4, <2>5
  <2>8. /\ v \in WorkerRec /\ SameDirectories(v, w) /\ v.ends = w.ends /\ v.again = w.again
        /\ v.queue = w.queue /\ v.uploads = w.uploads
    BY <2>3
  <2> HIDE DEF C
  <2>9. Sound(v)
    <3>1. \A j \in C \cap Ids : /\ w.place[j] \notin {"none", "queue"}
                               /\ Live(v, j) <=> Live(w, j)
                               /\ IdInOrder(v, j)
      BY <2>7
    <3> QED BY <2>6, <2>7, <2>8, <3>1, MovesSound, Zenon
  <2> QED BY <2>1, <2>9
<1> QED BY <1>1, <1>2

\* A single file whose discovery waits or runs is cancelled.
LEMMA FileRootCancelled ==
    ASSUME NEW w, Sound(w), NEW r \in FileRoots
    PROVE  /\ Sound(Tell([w EXCEPT !.roots = Unqueue(@, {r})], r, "Cancelled"))
           /\ r \notin Range(w.roots) => Sound(Tell(StopScan(w, r), r, "Cancelled"))
<1>0. /\ w \in WorkerRec /\ RootsWait(w) /\ r \in Roots /\ r \notin DirRoots
      /\ "Cancelled" \in Outcomes
  BY TransferAssumption DEF Sound, DirPart, Roots, Outcomes
<1> DEFINE q == Unqueue(w.roots, {r})
           v == [w EXCEPT !.roots = q]
           s == StopScan(w, r)
<1>1. q \in Seq(Roots) /\ IsInjective(q) /\ Range(q) = Range(w.roots) \ {r}
  BY <1>0, RootUnqueued
<1> HIDE DEF q
<1>2. v \in WorkerRec
  BY <1>0, <1>1, Zenon DEF WorkerRec
<1>3. Stops(v, w, r)
  BY <1>0, <1>1 DEF Stops, WorkerRec, SameTransfers
<1>4. Sound(v)
  <2> HIDE DEF v
  <2> QED BY <1>0, <1>2, <1>3, DiscoveryStopped
<1>5. ASSUME r \notin Range(w.roots) PROVE Sound(s)
  <2>1. /\ s \in WorkerRec /\ SameTransfers(s, w) /\ s.found = w.found /\ s.deferred = w.deferred
        /\ s.parent = w.parent /\ s.dirs = w.dirs /\ s.roots = w.roots
        /\ s.scan.root = w.scan.root /\ s.scan.left = w.scan.left /\ s.scan.st = w.scan.st
        /\ \A t \in Roots \ {r} : s.pending[t] = w.pending[t]
        /\ s.pending[r] = Nil <=> w.pending[r] = Nil
    BY <1>0, StopScanFacts
  <2> HIDE DEF s
  <2>2. IsInjective(s.roots) /\ Range(s.roots) = Range(w.roots) \ {r}
    BY <1>0, <1>5, <2>1 DEF RootsWait
  <2>3. Stops(s, w, r)
    BY <1>0, <2>1, <2>2 DEF Stops
  <2> QED BY <1>0, <2>1, <2>3, DiscoveryStopped
<1>6. [w EXCEPT !.roots = Unqueue(@, {r})] = v
  BY DEF q
<1> HIDE DEF v, s
<1>7. Sound(Tell(v, r, "Cancelled")) /\ (r \notin Range(w.roots) => Sound(Tell(s, r, "Cancelled")))
  BY <1>0, <1>4, <1>5, FileRootEnds
<1> QED BY <1>6, <1>7 DEF s

\* CancelSftpTransfer, for every structure that can know the id.
LEMMA CancelOneSound ==
    ASSUME NEW w, Sound(w), NEW i \in Ids
    PROVE  Sound(CancelOne(w, i))
<1>0. /\ w \in WorkerRec /\ InOrder(w) /\ Aggregates(w) /\ RootsWait(w) /\ w.roots \in Seq(Roots)
      /\ w.place \in [Ids -> Places] /\ w.queue \in Seq(Downloads) /\ w.uploads \in Seq(Uploads)
  <2>1. w \in WorkerRec /\ InOrder(w) /\ Aggregates(w) /\ RootsWait(w)
    BY DEF Sound, DirPart
  <2>2. w.place \in [Ids -> Places] /\ w.roots \in Seq(Roots)
    BY <2>1 DEF WorkerRec
  <2>3. w.queue \in Seq(Downloads) /\ w.uploads \in Seq(Uploads)
    BY <2>1 DEF WorkerRec
  <2> QED BY <2>1, <2>2, <2>3
<1>1. /\ Roots = FileRoots \cup DirRoots /\ FileRoots \cap DirRoots = {}
      /\ Ids = Roots \cup Kids \cup Uploads /\ Downloads = FileRoots \cup Kids
      /\ Roots \cap (Kids \cup Uploads) = {} /\ Kids \cap Uploads = {} /\ ~NoDir.is
      /\ "none" \in Places /\ "dropped" \in Places
  BY TransferAssumption DEF Roots, Ids, Downloads, NoDir, Places
<1> DEFINE q == Unqueue(w.queue, {i})
           l == Unqueue(w.uploads, {i})
           p == [w.place EXCEPT ![i] = "none"]
           none == [w EXCEPT !.place[i] = "none"]
           dropped == [w EXCEPT !.place[i] = "dropped"]
           unqueued == [none EXCEPT !.queue = q]
           removed == [none EXCEPT !.uploads = l, !.slots = @ \ {i}]
           freed == [none EXCEPT !.slots = @ \ {i}]
<1>2. CASE i \in Roots /\ w.dirs[i] # NoDir
  <2>1. i \in DirRoots
    BY <1>0, <1>1, <1>2 DEF Aggregates
  <2>2. CancelOne(w, i) = CancelDirectory(w, i)
    BY <1>2 DEF CancelOne
  <2> QED BY <1>2, <2>1, <2>2, CancelDirectorySound
<1> DEFINE Known1 == i \in Roots /\ w.dirs[i] # NoDir
           Known2 == i \in Transfers(w)
           Known3 == i \in Range(w.roots)
           Known4 == i \in Roots /\ w.pending[i] # Nil
           Known5 == i \in Range(w.queue)
           Known6 == i \in Range(w.uploads)
           Known7 == w.place[i] = "conflict"
           Known8 == w.place[i] = "opening"
<1>3. /\ none \in WorkerRec /\ SameDirectories(none, w)
      /\ none.ends = w.ends /\ none.again = w.again /\ none.queue = w.queue
      /\ none.uploads = w.uploads /\ none.result = w.result
      /\ \A j \in Ids : none.place[j] = IF j = i THEN "none" ELSE w.place[j]
  BY <1>0, <1>1, PlaceFacts
<1>4. /\ dropped \in WorkerRec /\ SameDirectories(dropped, w)
      /\ dropped.ends = w.ends /\ dropped.again = w.again /\ dropped.queue = w.queue
      /\ dropped.uploads = w.uploads /\ dropped.result = w.result
      /\ \A j \in Ids : dropped.place[j] = IF j = i THEN "dropped" ELSE w.place[j]
  BY <1>0, <1>1, PlaceFacts
<1>5. /\ q \in Seq(Downloads) /\ Within(q, w.queue) /\ Within(w.queue, w.queue)
      /\ \A n \in DOMAIN q : q[n] # i
  BY <1>0, QueueLeft
<1>6. /\ l \in Seq(Uploads) /\ Within(l, w.uploads) /\ Within(w.uploads, w.uploads)
      /\ \A n \in DOMAIN l : l[n] # i
  BY <1>0, QueueLeft
<1>7. w.place[i] # "queue" =>
        /\ \A n \in DOMAIN w.queue : i \in Kids => w.queue[n] # i
        /\ \A n \in DOMAIN w.uploads : w.uploads[n] # i
  BY <1>0 DEF InOrder
<1>8. i \in Kids \cup Uploads /\ Live(w, i) => w.ends[i] = Nil
  BY <1>0 DEF InOrder
<1>9. CASE ~Known1 /\ Known2
  <2>1. CancelOne(w, i) = StopRunning(w, i)
    BY <1>9 DEF CancelOne
  <2> QED BY <1>9, <2>1, StopRunningSound
<1>10. CASE ~Known1 /\ ~Known2 /\ Known3
  <2>1. CancelOne(w, i) = Tell([w EXCEPT !.roots = Unqueue(@, {i})], i, "Cancelled")
    BY <1>10 DEF CancelOne
  <2>2. i \in Roots
    BY <1>0, <1>10 DEF Range
  <2>3. i \in FileRoots
    BY <1>0, <1>1, <1>10, <2>2 DEF RootsWait
  <2> QED BY <2>1, <2>3, FileRootCancelled
<1>11. CASE ~Known1 /\ ~Known2 /\ ~Known3 /\ Known4
  <2>1. CancelOne(w, i) = Tell(StopScan(w, i), i, "Cancelled")
    BY <1>11 DEF CancelOne
  <2>2. i \in FileRoots
    BY <1>0, <1>1, <1>11 DEF Aggregates
  <2> QED BY <1>11, <2>1, <2>2, FileRootCancelled
<1>12. CASE ~Known1 /\ ~Known2 /\ ~Known3 /\ ~Known4 /\ Known5
  <2>1. CancelOne(w, i) = TellFile(unqueued, i, "Cancelled")
    <3>1. [w EXCEPT !.queue = Unqueue(@, {i}), !.place[i] = "none"] = unqueued
      BY <1>0 DEF WorkerRec
    <3>2. CancelOne(w, i)
            = TellFile([w EXCEPT !.queue = Unqueue(@, {i}), !.place[i] = "none"], i, "Cancelled")
      BY <1>12 DEF CancelOne
    <3> QED BY <3>1, <3>2
  <2>2. i \in Downloads
    BY <1>0, <1>12 DEF Range
  <2>3. i \notin FileRoots => Live(w, i)
    <3>1. i \in Kids => w.place[i] = "queue"
      BY <1>0, <1>12 DEF InOrder, Range
    <3> QED BY <1>1, <2>2, <3>1 DEF Live
  <2>4. \A n \in DOMAIN w.uploads : w.uploads[n] # i
    BY <1>0, <1>1, <2>2
  <2> HIDE DEF none, q
  <2>5. unqueued \in WorkerRec
    BY <1>3, <1>5, Zenon DEF WorkerRec
  <2>6. /\ SameDirectories(unqueued, none) /\ unqueued.place = none.place /\ unqueued.queue = q
        /\ unqueued.uploads = none.uploads /\ unqueued.ends = none.ends
        /\ unqueued.again = none.again /\ unqueued.result = none.result
    BY <1>3 DEF WorkerRec, SameDirectories
  <2> HIDE DEF unqueued
  <2>7. Leaves(unqueued, w, i)
    <3>1. SameDirectories(unqueued, w)
      BY <1>3, <2>6 DEF SameDirectories
    <3> QED BY <1>3, <1>5, <1>6, <2>4, <2>6, <3>1 DEF Leaves
  <2> QED BY <2>1, <2>2, <2>3, <2>5, <2>7, WaitingCancelled
<1>13. CASE ~Known1 /\ ~Known2 /\ ~Known3 /\ ~Known4 /\ ~Known5 /\ Known6
  <2>1. CancelOne(w, i) = Tell(removed, i, "Cancelled")
    <3>1. [w EXCEPT !.uploads = Unqueue(@, {i}), !.place[i] = "none", !.slots = @ \ {i}] = removed
      BY <1>0 DEF WorkerRec
    <3>2. CancelOne(w, i)
            = Tell([w EXCEPT !.uploads = Unqueue(@, {i}), !.place[i] = "none", !.slots = @ \ {i}],
                   i, "Cancelled")
      BY <1>13 DEF CancelOne
    <3> QED BY <3>1, <3>2
  <2>2. i \in Uploads /\ i \notin Downloads /\ Live(w, i)
    <3>1. i \in Uploads
      BY <1>0, <1>13 DEF Range
    <3>2. w.place[i] = "queue"
      BY <1>0, <1>13 DEF InOrder, Range
    <3> QED BY <1>1, <3>1, <3>2 DEF Live
  <2>3. \A n \in DOMAIN w.queue : i \in Kids => w.queue[n] # i
    BY <1>1, <2>2
  <2> HIDE DEF none, l
  <2>4. none.slots \ {i} \in SUBSET Uploads
    BY <1>3 DEF WorkerRec
  <2>5. removed \in WorkerRec
    BY <1>3, <1>6, <2>4, Zenon DEF WorkerRec
  <2>6. /\ SameDirectories(removed, none) /\ removed.place = none.place /\ removed.uploads = l
        /\ removed.queue = none.queue /\ removed.ends = none.ends
        /\ removed.again = none.again /\ removed.result = none.result
    BY <1>3 DEF WorkerRec, SameDirectories
  <2> HIDE DEF removed
  <2>7. Leaves(removed, w, i)
    <3>1. SameDirectories(removed, w)
      BY <1>3, <2>6 DEF SameDirectories
    <3> QED BY <1>3, <1>5, <1>6, <2>3, <2>6, <3>1 DEF Leaves
  <2>8. TellFile(removed, i, "Cancelled") = Tell(removed, i, "Cancelled")
    BY <2>2 DEF TellFile
  <2> QED BY <2>1, <2>2, <2>5, <2>7, <2>8, WaitingCancelled
<1>14. CASE ~Known1 /\ ~Known2 /\ ~Known3 /\ ~Known4 /\ ~Known5 /\ ~Known6 /\ Known7
  <2>1. CancelOne(w, i) = Tell(freed, i, "Cancelled")
    BY <1>14 DEF CancelOne
  <2>2. i \in Uploads /\ i \notin Downloads /\ Live(w, i)
    BY <1>0, <1>1, <1>14 DEF InOrder, Live
  <2>3. w.place[i] # "queue"
    BY <1>14
  <2> HIDE DEF none
  <2>4. none.slots \ {i} \in SUBSET Uploads
    BY <1>3 DEF WorkerRec
  <2>5. freed \in WorkerRec
    BY <1>3, <2>4, Zenon DEF WorkerRec
  <2>6. /\ SameDirectories(freed, none) /\ freed.place = none.place /\ freed.uploads = none.uploads
        /\ freed.queue = none.queue /\ freed.ends = none.ends
        /\ freed.again = none.again /\ freed.result = none.result
    BY <1>3 DEF WorkerRec, SameDirectories
  <2> HIDE DEF freed
  <2>7. Leaves(freed, w, i)
    <3>1. SameDirectories(freed, w)
      BY <1>3, <2>6 DEF SameDirectories
    <3> QED BY <1>3, <1>5, <1>6, <1>7, <2>3, <2>6, <3>1 DEF Leaves
  <2>8. TellFile(freed, i, "Cancelled") = Tell(freed, i, "Cancelled")
    BY <2>2 DEF TellFile
  <2> QED BY <2>1, <2>2, <2>5, <2>7, <2>8, WaitingCancelled
<1>15. CASE ~Known1 /\ ~Known2 /\ ~Known3 /\ ~Known4 /\ ~Known5 /\ ~Known6 /\ ~Known7 /\ Known8
  <2>1. CancelOne(w, i) = TellFile(dropped, i, "Cancelled")
    BY <1>15 DEF CancelOne
  <2>2. i \notin DirRoots /\ Live(w, i) /\ w.place[i] # "queue"
    BY <1>0, <1>15 DEF InOrder, Live
  <2>3. i \in Downloads \cup Uploads
    BY <1>1, <2>2
  <2> HIDE DEF dropped
  <2>4. Leaves(dropped, w, i)
    BY <1>4, <1>5, <1>6, <1>7, <1>15, <2>2 DEF Leaves
  <2> QED BY <1>4, <2>1, <2>2, <2>3, <2>4, WaitingCancelled
<1>16. CASE ~Known1 /\ ~Known2 /\ ~Known3 /\ ~Known4 /\ ~Known5 /\ ~Known6 /\ ~Known7 /\ ~Known8
  <2>1. CancelOne(w, i) = w
    BY <1>16 DEF CancelOne
  <2> QED BY <2>1
<1> QED BY <1>2, <1>9, <1>10, <1>11, <1>12, <1>13, <1>14, <1>15, <1>16

\* A request or a task's end is cancelled after the tasks that ended were reaped.
LEMMA CancelSound ==
    ASSUME Sound(x), NEW i \in Ids, Cancel(i)
    PROVE  Sound(x')
<1>1. PICK w \in Reaps(x) : x' = CancelOne(w, i)
  BY DEF Cancel
<1>2. Sound(w)
  BY <1>1, ReapsSound
<1> QED BY <1>1, <1>2, CancelOneSound

-----------------------------------------------------------------------------
(* The start and the end of the loop.                                      *)

\* The worker of a new session, and what Drained makes of it.
LEMMA IdleFacts ==
  /\ Idle \in WorkerRec
  /\ Idle.open /\ Idle.roots = <<>> /\ Idle.scan = NoScan /\ Idle.found = <<>>
  /\ Idle.deferred = Nil /\ Idle.queue = <<>> /\ Idle.uploads = <<>> /\ Idle.again = {}
  /\ \A r \in Roots : Idle.pending[r] = Nil /\ Idle.dirs[r] = NoDir
  /\ \A k \in Downloads : Idle.parent[k] = Nil
  /\ \A i \in Ids : Idle.place[i] = "none" /\ Idle.result[i] = Nil /\ Idle.ends[i] = Nil
<1>1. /\ [r \in Roots |-> Nil] \in [Roots -> {Nil, "on", "cancelled"}]
      /\ [r \in Roots |-> NoDir] \in [Roots -> DirRec]
    <2>1. NoDir \in DirRec
      BY DEF NoDir, DirRec
    <2> QED BY <2>1
<1>2. NoScan \in ScanRec
  BY DEF NoScan, ScanRec
<1>3. /\ [k \in Downloads |-> Nil] \in [Downloads -> Roots \cup {Nil}]
      /\ [u \in Uploads |-> Nil] \in [Uploads -> Policies]
      /\ Nil \in Policies
  BY DEF Policies
<1>4. /\ [i \in Ids |-> "none"] \in [Ids -> Places]
      /\ [i \in Ids |-> Nil] \in [Ids -> Results \cup {Nil}]
      /\ [i \in Ids |-> Nil] \in [Ids -> Outcomes \cup {"Partial", Nil}]
  BY DEF Places
<1>5. /\ <<>> \in Seq(Roots) /\ <<>> \in Seq(Messages) /\ <<>> \in Seq(Downloads)
      /\ <<>> \in Seq(Uploads)
  OBVIOUS
<1>6. {} \in SUBSET Uploads /\ {} \in SUBSET Ids /\ TRUE \in BOOLEAN /\ FALSE \in BOOLEAN
      /\ Nil \in Messages \cup {Nil}
  OBVIOUS
<1>7. Idle \in WorkerRec
  BY <1>1, <1>2, <1>3, <1>4, <1>5, <1>6, Zenon DEF Idle, WorkerRec
<1> QED BY <1>7 DEF Idle

\* A new session is sound.
LEMMA IdleSound == Sound(Idle)
<1> DEFINE w == Idle
<1>0. /\ w \in WorkerRec
      /\ w.open /\ w.roots = <<>> /\ w.scan = NoScan /\ w.found = <<>>
      /\ w.deferred = Nil /\ w.queue = <<>> /\ w.uploads = <<>> /\ w.again = {}
      /\ \A r \in Roots : w.pending[r] = Nil /\ w.dirs[r] = NoDir
      /\ \A k \in Downloads : w.parent[k] = Nil
      /\ \A i \in Ids : w.place[i] = "none" /\ w.result[i] = Nil /\ w.ends[i] = Nil
  BY IdleFacts
<1> HIDE DEF w
<1>1. /\ NoScan.st # "run" /\ ~NoDir.is /\ NoDir.kids = {} /\ FileRoots \subseteq Roots
      /\ DirRoots \subseteq Roots /\ Nil \notin Roots /\ Nil \notin Outcomes
      /\ Nil # "cancelled" /\ Nil \notin {"Conflict", "Completed", "Skipped"}
  BY TransferNil DEF NoScan, NoDir, Roots, Ids, Outcomes
<1>2. /\ FileRoots \subseteq Ids /\ FileRoots \subseteq Downloads /\ DirRoots \subseteq Ids
      /\ Kids \subseteq Ids /\ Kids \subseteq Downloads /\ Uploads \subseteq Ids
      /\ \A r \in DirRoots : Range(Contents[r]) \subseteq Kids
  BY <1>1 DEF Ids, Downloads, Roots, Kids
<1>3. Pending(w) = {} /\ Range(w.roots) = {} /\ DOMAIN w.queue = {} /\ DOMAIN w.uploads = {}
      /\ DOMAIN w.found = {} /\ Range(w.found) = {} /\ DOMAIN w.roots = {}
  BY <1>0 DEF Pending, Range
<1>4. Aggregates(w)
  BY <1>0, <1>1, <1>2 DEF Aggregates
<1>5. RootsWait(w)
  BY <1>3 DEF RootsWait, IsInjective
<1>6. StreamOrdered(w)
  BY <1>0, <1>1, <1>3 DEF StreamOrdered
<1>7. FilesAreNew(w)
  BY <1>0, <1>1, <1>2, <1>3 DEF FilesAreNew, Untouched
<1>8. Family(w)
  BY <1>0, <1>1, <1>2 DEF Family, Live
<1>9. NothingSkipped(w)
  BY <1>0, <1>1, <1>2 DEF NothingSkipped
<1>10. InOrder(w)
  BY <1>0, <1>1, <1>2, <1>3 DEF InOrder, Live, IsInjective
<1>11. Busy(w) <= PerTab
  <2>1. Transfers(w) = {} /\ Openings(w) = {}
    BY <1>0 DEF Transfers, Openings, In
  <2>2. PerTab \in Nat
    BY TransferAssumption
  <2> QED BY <2>1, <2>2, FS_EmptySet DEF Busy
<1> QED BY <1>0, <1>4, <1>5, <1>6, <1>7, <1>8, <1>9, <1>10, <1>11 DEF Sound, DirPart, w

\* A worker that is over is closed, and nothing of it is under way.
LEMMA OverFacts ==
    ASSUME NEW w, Over(w)
    PROVE  /\ ~w.open /\ w.scan = NoScan
           /\ \A k \in Downloads : w.parent[k] = Nil
           /\ \A i \in Ids : w.place[i] = "none"
<1>1. w = Drained(w)
  BY DEF Over
<1>2. /\ ~Drained(w).open /\ Drained(w).scan = Idle.scan /\ Drained(w).parent = Idle.parent
      /\ Drained(w).place = Idle.place
  BY IdleFacts DEF Drained, WorkerRec
<1> QED BY <1>1, <1>2, IdleFacts

\* The session ends: everything is cancelled and joined.
LEMMA EndSessionOver ==
    ASSUME Sound(x), EndSession
    PROVE  Over(x')
<1>0. /\ x \in WorkerRec /\ NothingSkipped(x) /\ x.again \subseteq FileRoots
      /\ x' = Drained(x)
  BY DEF Sound, DirPart, EndSession
<1>1. x.ends \in [Ids -> Outcomes \cup {"Partial", Nil}] /\ x.again \in SUBSET Ids
  BY <1>0 DEF WorkerRec
<1>2. x'.ends = x.ends /\ x'.again = x.again
  BY <1>0, IdleFacts DEF Drained, WorkerRec
<1>3. x' \in WorkerRec
  <2>1. Idle \in WorkerRec /\ FALSE \in BOOLEAN
    BY IdleFacts
  <2> HIDE DEF Idle
  <2> QED BY <1>0, <1>1, <2>1, Zenon DEF Drained, WorkerRec
<1>4. x' = Drained(x')
  BY <1>0, <1>2 DEF Drained
<1> QED BY <1>0, <1>2, <1>3, <1>4 DEF Over, NothingSkipped

-----------------------------------------------------------------------------
(* The theorems.                                                           *)

\* The loop begins and stays sound until it ends, and then stays over.
LEMMA TransferInvInductive == SftpInit /\ [][SftpNext]_transferVars => []TransferInv
<1>1. SftpInit => TransferInv
  <2>1. GlobalUploads \in Nat
    BY TransferAssumption
  <2> QED BY <2>1, IdleSound DEF SftpInit, TransferInv
<1>2. ASSUME TransferInv, SftpNext PROVE TransferInv'
  <2>0. GlobalUploads \in Nat /\ elsewhere \in Nat /\ wanted \subseteq Roots \cup Uploads
    BY <1>2, TransferAssumption DEF TransferInv
  <2>1. CASE OtherTabs
    BY <1>2, <2>1 DEF TransferInv, OtherTabs
  <2> SUFFICES ASSUME SftpNext, ~OtherTabs
               PROVE  /\ UNCHANGED <<elsewhere, wanted>>
                      /\ Sound(x') \/ Over(x')
    BY <1>2, <2>1 DEF TransferInv
  <2>2. CASE Over(x)
    <3>1. ~x.open
      BY <2>2, OverFacts
    <3> QED BY <3>1 DEF SftpNext, LoopStep, UserStep, ScanFinds, ScanEnds, JoinScan, Defer,
                        TakeFound, TakeFinished, OpeningEnds, DroppedOpeningEnds, TaskPosts,
                        TransferEvent, OpenRoot, OpenRequest, OpenUpload, Resolve, Cancel,
                        EndSession
  <2>3. CASE Sound(x)
    <3>1. CASE ScanFinds \/ ScanEnds
      BY <2>3, <3>1, ScanSound DEF ScanFinds, ScanEnds
    <3>2. CASE JoinScan
      BY <2>3, <3>2, JoinScanSound DEF JoinScan
    <3>3. CASE Defer
      BY <2>3, <3>3, DeferSound DEF Defer
    <3>4. CASE TakeFound
      BY <2>3, <3>4, TakeFoundSound DEF TakeFound
    <3>5. CASE TakeFinished
      BY <2>3, <3>5, TakeFinishedSound DEF TakeFinished
    <3>6. ASSUME NEW i \in Ids, OpeningEnds(i)
          PROVE  UNCHANGED <<elsewhere, wanted>> /\ Sound(x')
      BY <2>0, <2>3, <3>6, OpeningEndsSound DEF OpeningEnds
    <3>7. ASSUME NEW i \in Ids, DroppedOpeningEnds(i) \/ TaskPosts(i)
          PROVE  UNCHANGED <<elsewhere, wanted>> /\ Sound(x')
      BY <2>3, <3>7, TaskStepsSound DEF DroppedOpeningEnds, TaskPosts
    <3>8. ASSUME NEW i \in Ids, TransferEvent(i)
          PROVE  UNCHANGED <<elsewhere, wanted>> /\ Sound(x')
      BY <2>0, <2>3, <3>8, TransferEventSound DEF TransferEvent
    <3>9. ASSUME NEW r \in Roots, OpenRoot(r)
          PROVE  UNCHANGED <<elsewhere, wanted>> /\ Sound(x')
      BY <2>3, <3>9, OpenRootSound DEF OpenRoot
    <3>10. ASSUME NEW r \in Roots, OpenRequest(r)
           PROVE  UNCHANGED <<elsewhere, wanted>> /\ Sound(x')
      BY <2>3, <3>10, OpenRequestSound DEF OpenRequest
    <3>11. ASSUME NEW u \in Uploads, OpenUpload(u)
           PROVE  UNCHANGED <<elsewhere, wanted>> /\ Sound(x')
      BY <2>0, <2>3, <3>11, OpenUploadSound DEF OpenUpload
    <3>12. ASSUME NEW u \in Uploads, NEW c \in {"Skip", "Overwrite"}, NEW b \in BOOLEAN,
                  Resolve(u, c, b)
           PROVE  UNCHANGED <<elsewhere, wanted>> /\ Sound(x')
      <4>1. UNCHANGED <<elsewhere, wanted>>
        BY <3>12 DEF Resolve
      <4> QED BY <2>0, <2>3, <3>12, <4>1, ResolveSound
    <3>13. ASSUME NEW i \in Ids, Cancel(i)
           PROVE  UNCHANGED <<elsewhere, wanted>> /\ Sound(x')
      BY <2>3, <3>13, CancelSound DEF Cancel
    <3>14. CASE EndSession
      BY <2>3, <3>14, EndSessionOver DEF EndSession
    <3> QED BY <3>1, <3>2, <3>3, <3>4, <3>5, <3>6, <3>7, <3>8, <3>9, <3>10, <3>11, <3>12, <3>13,
               <3>14 DEF SftpNext, LoopStep, UserStep
  <2> QED BY <1>2, <2>2, <2>3 DEF TransferInv
<1>3. TransferInv /\ UNCHANGED transferVars => TransferInv'
  BY DEF transferVars, TransferInv
<1> QED BY <1>1, <1>2, <1>3, PTL

\* The channels of the tab, the discovery's included, stay within the reservation
\* (start_queued_sftp_transfers, start_queued_uploads, spawn_pending_sftp_discovery).
THEOREM ChannelsStayReserved == SftpInit /\ [][SftpNext]_transferVars => []ChannelsReserved
<1>1. TransferInv => ChannelsReserved
  <2> SUFFICES ASSUME TransferInv PROVE ChannelsReserved
    OBVIOUS
  <2>1. PerTab \in Nat
    BY TransferAssumption
  <2>2. CASE Over(x)
    <3>1. Transfers(x) = {} /\ Openings(x) = {} /\ x.scan.st # "run"
      BY <2>2, OverFacts DEF Transfers, Openings, In, NoScan
    <3> QED BY <2>1, <3>1, FS_EmptySet DEF Busy, ChannelsReserved
  <2>3. CASE Sound(x)
    <3>1. Busy(x) <= PerTab /\ Busy(x) \in Nat
      <4>1. Transfers(x) \in SUBSET Ids /\ Openings(x) \in SUBSET Ids
        BY DEF Transfers, Openings, In
      <4>2. IsFiniteSet(Transfers(x)) /\ IsFiniteSet(Openings(x))
        BY <4>1, TransferAssumption, FS_Subset
      <4>3. Cardinality(Transfers(x)) \in Nat /\ Cardinality(Openings(x)) \in Nat
        BY <4>2, FS_CardinalityType
      <4> QED BY <2>3, <4>3 DEF Sound, Busy
    <3> QED BY <2>1, <3>1 DEF ChannelsReserved
  <2> QED BY <2>2, <2>3 DEF TransferInv
<1> QED BY <1>1, TransferInvInductive, PTL

\* Every transfer but a single-file root is reported once (send_sftp_transfer_event).
THEOREM TransfersReportedOnce == SftpInit /\ [][SftpNext]_transferVars => []ReportedOnce
<1>1. TransferInv => ReportedOnce
  BY DEF TransferInv, ReportedOnce, Sound, Over
<1> QED BY <1>1, TransferInvInductive, PTL

\* A directory is reported after the last of its files, and as complete only with all of
\* them (cancel_directory_download, complete_directory_child, finish_directory_transfer).
THEOREM DirectoriesEndLast == SftpInit /\ [][SftpNext]_transferVars => []DirectoryEndsLast
<1>1. TransferInv => DirectoryEndsLast
  <2> SUFFICES ASSUME TransferInv, NEW r \in DirRoots, x.ends[r] # Nil
               PROVE  /\ \A k \in Kids : x.parent[k] # r
                      /\ \A k \in Range(Contents[r]) : x.place[k] \in {"none", "dropped"}
                      /\ x.ends[r] = "Completed"
                           => \A k \in Range(Contents[r]) : x.ends[k] = "Completed"
    BY DEF DirectoryEndsLast
  <2>1. /\ r \in Roots /\ r # Nil /\ Kids \subseteq Downloads /\ Kids \subseteq Ids
        /\ Range(Contents[r]) \subseteq Kids /\ NoDir.kids = {}
    BY TransferNil DEF Roots, Downloads, Ids, Kids, NoDir
  <2>2. CASE Over(x)
    <3>1. (\A k \in Downloads : x.parent[k] = Nil) /\ \A i \in Ids : x.place[i] = "none"
      BY <2>2, OverFacts
    <3> QED BY <2>1, <2>2, <3>1 DEF Over
  <2>3. CASE Sound(x)
    <3>0. Aggregates(x) /\ Family(x) /\ NothingSkipped(x) /\ x \in WorkerRec
      BY <2>3 DEF Sound, DirPart
    <3>1. x.dirs[r] = NoDir
      BY <3>0 DEF Aggregates
    <3>2. \A k \in Kids : x.parent[k] # r
      BY <2>1, <3>0, <3>1 DEF Family
    <3>3. ASSUME NEW k \in Range(Contents[r]) PROVE ~Live(x, k)
      <4>1. k \in Kids /\ k \in Downloads
        BY <2>1
      <4>2. x.parent[k] \in Roots \cup {Nil}
        BY <3>0, <4>1 DEF WorkerRec
      <4>3. SUFFICES ASSUME x.parent[k] # Nil PROVE FALSE
        BY <3>0, <4>1 DEF Family
      <4>4. x.parent[k] \in Roots /\ x.parent[k] # r
        BY <3>2, <4>1, <4>2, <4>3
      <4>5. x.parent[k] \in DirRoots
        <5>1. k \in x.dirs[x.parent[k]].kids
          BY <3>0, <4>1, <4>4 DEF Family
        <5>2. x.parent[k] \notin FileRoots
          BY <2>1, <3>0, <5>1 DEF Aggregates
        <5> QED BY <4>4, <5>2 DEF Roots
      <4>6. k \in Range(Contents[x.parent[k]])
        BY <3>0, <4>1, <4>5 DEF Family
      <4> QED BY <3>3, <4>4, <4>5, <4>6, DistinctFiles
    <3> QED BY <3>0, <3>2, <3>3 DEF NothingSkipped, Live
  <2> QED BY <2>2, <2>3 DEF TransferInv
<1> QED BY <1>1, TransferInvInductive, PTL

=============================================================================
