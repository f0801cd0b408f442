---------------------------- MODULE ArchiveProofs -----------------------------
(***************************************************************************)
(* Proofs about Archive, for any files and directories, any arguments and  *)
(* sizes, and any number of descriptors, changes and runs.                 *)
(***************************************************************************)
EXTENDS Archive, SequenceTheorems, FiniteSetTheorems, WellFoundedInduction, TLAPS

-----------------------------------------------------------------------------
(* The inductive invariant                                                 *)

\* A run of recover that is on, has ended without an error, or is lost
Running == {"entry", "content", "done", "lost"}

\* Types of what backup works with, and of what recover does
BackupTypes ==
  /\ args \in Seq(Nodes \cup {Cwd})
  /\ size \in [Files -> Nat \cup {Nothing}]
  /\ changes \in Nat /\ fds \in Nat
  /\ todo \in Seq(Nodes \cup {Cwd}) /\ reading \in Files \cup {Nothing}
  /\ archive \in Seq([head : BOOLEAN, node : Nodes \cup {Nothing}, size : Nat])

RecoverTypes ==
  /\ pc \in Running \cup {"off", "failed"}
  /\ pos \in Nat \ {0} /\ cur \in Files \cup {Nothing} /\ left \in Int
  /\ tree \in [Nodes -> {Nothing} \cup [bytes : Nat, locked : BOOLEAN]]
  /\ starved \in SUBSET Nodes

\* A byte is behind a byte or behind the header of a file.
BytesBehindHeader ==
  \A i \in DOMAIN archive :
    ~archive[i].head =>
      /\ archive[i].node \in Files
      /\ i > 1 /\ (archive[i - 1].head => archive[i - 1].node \in Files)

\* backup reads the file whose header it has just written.
ReadsLast ==
  reading # Nothing =>
    /\ todo # << >> /\ Head(todo) = reading
    /\ archive # << >> /\ archive[Len(archive)].head /\ archive[Len(archive)].node = reading

\* Nobody recovers an archive that is not finished.
BackupFirst ==
  todo # << >> \/ reading # Nothing => pc = "off" /\ \A n \in Nodes : tree[n] = Nothing

\* Neither a change of a file nor anything left out
Quiet == changes = 0 /\ missed = {}

\* The content of header i is in the archive, and no more.
Filled(i) ==
  LET s == archive[i].size
  IN  archive[i].node \in Files =>
        /\ i + s <= Len(archive)
        /\ \A k \in i + 1..i + s : ~archive[k].head
        /\ i + s = Len(archive) \/ archive[i + s + 1].head

\* As long as nothing changed or was missed, the headers are those of the files, and
\* the contents are as long as they say, up to the one under way.
HeadersTrue ==
  Quiet =>
    /\ \A f \in Files : size[f] \in Nat
    /\ \A i \in Heads :
         /\ archive[i].node \in Nodes
         /\ archive[i].node \in Files => archive[i].size = size[archive[i].node]
         /\ Filled(i) \/ (i = Len(archive) /\ reading # Nothing)

\* n is an argument, is still to be looked at, or has a header behind entry i.
Named(n) == \E j \in DOMAIN args : args[j] = n
Waits(n) == \E j \in DOMAIN todo : todo[j] = n
Behind(i, n) == \E k \in Heads : i < k /\ archive[k].node = n

\* What is asked for is waiting or in the archive, and the same holds of what is in a
\* directory of the archive, behind that.
NothingForgotten ==
  Quiet =>
    /\ \A n \in Nodes \ {Device} : Named(n) => Waits(n) \/ Behind(0, n)
    /\ \A i \in Heads, n \in Nodes \ {Device} :
         archive[i].node \in Dirs /\ Parent[n] = archive[i].node => Waits(n) \/ Behind(i, n)

\* Where recover is in the archive: k buffers behind the header of its file, which holds
\* them all unless the disk was full.
InContent ==
  pc = "content" =>
    /\ cur \in Files /\ tree[cur] # Nothing /\ (superuser \/ ~tree[cur].locked)
    /\ \E h \in Heads, k \in Nat :
         /\ archive[h].node = cur /\ Whole(cur, k)
         /\ pos = h + 1 + k /\ pos <= Len(archive) + 1
         /\ \A j \in h + 1..pos - 1 : ~archive[j].head
         /\ left = FileEnd(archive[h].size) - k
         /\ k > 0 => left >= 0

AtEntry ==
  pc = "entry" =>
    /\ cur = Nothing
    /\ \/ pos = 1
       \/ pos - 1 \in Heads /\ archive[pos - 1].node \in Dirs
       \/ \E h \in Heads : /\ archive[h].node \in Files /\ h < pos
                           /\ Matches(h) => pos = h + 1 + archive[h].size

AtEnd ==
  pc = "done" =>
    /\ cur = Nothing
    /\ pos > Len(archive) \/ (pos - 1 \in Heads /\ archive[pos - 1].node = Nothing)

Lost == pc = "lost" => \E i \in Heads : i < pos /\ ~Matches(i)

\* Header i is the last one recover has met of its file, and all was well up to it.
Settled(i) ==
  /\ i < pos /\ archive[i].node \in Files /\ archive[i].node # cur
  /\ \A j \in Heads : j <= i => Matches(j)
  /\ ~\E k \in Heads : k > i /\ k < pos /\ archive[k].node = archive[i].node

\* Then its file is as long as it says, unless the disk was full.
Kept ==
  pc \in Running =>
    \A i \in Heads :
      Settled(i) => /\ tree[archive[i].node] # Nothing
                    /\ Whole(archive[i].node, archive[i].size)

\* So is a protected file, for one of its headers.
ProtectedWhole ==
  Sound /\ ~superuser =>
    \A n \in Files :
      tree[n] # Nothing /\ tree[n].locked =>
        \E k \in Heads : archive[k].node = n /\ Whole(n, archive[k].size)

\* A set of entries with the directories of ".", and with each directory that is behind
\* an entry of the set for its parent
Reaching(S) ==
  \A k \in Heads :
    /\ archive[k].node \in Dirs
    /\ \/ Parent[archive[k].node] = Cwd
       \/ \E h \in S : h < k /\ archive[h].node = Parent[archive[k].node]
    => k \in S

Reached == {i \in Heads : \A S \in SUBSET Heads : Reaching(S) => i \in S}

\* Each that recover has met is in the tree, if it is the superuser who recovers, but
\* those a full disk refused and what is below them.
DirsMade ==
  superuser /\ pc \in Running \ {"lost"} =>
    \A i \in Reached : i < pos => tree[archive[i].node] # Nothing \/ archive[i].node \in Refused

\* What backup keeps true, and recover
InArchive == BackupTypes /\ BytesBehindHeader /\ ReadsLast /\ HeadersTrue /\ NothingForgotten
InTree ==
  RecoverTypes /\ InContent /\ AtEntry /\ AtEnd /\ Lost /\ Kept /\ ProtectedWhole /\ DirsMade

Inv == InArchive /\ BackupFirst /\ InTree

\* What the archive may hold
Entries == [head : BOOLEAN, node : Nodes \cup {Nothing}, size : Nat]

-----------------------------------------------------------------------------
(* Sequences                                                               *)

\* A header more
LEMMA AppendIs ==
  ASSUME NEW a \in Seq(Entries), NEW e \in Entries
  PROVE  /\ Append(a, e) \in Seq(Entries) /\ Len(Append(a, e)) = Len(a) + 1
         /\ DOMAIN Append(a, e) = 1..Len(a) + 1 /\ Append(a, e) # << >>
         /\ \A i \in 1..Len(a) : Append(a, e)[i] = a[i]
         /\ Append(a, e)[Len(a) + 1] = e
BY AppendProperties, LenProperties

\* Some bytes more
LEMMA BytesIs ==
  ASSUME NEW a \in Seq(Entries), NEW n \in Files, NEW k \in Nat
  PROVE  LET b == a \o [i \in 1..k |-> Byte(n)]
         IN  /\ b \in Seq(Entries) /\ Len(b) = Len(a) + k
             /\ DOMAIN b = 1..Len(a) + k
             /\ \A i \in 1..Len(a) : b[i] = a[i]
             /\ \A i \in Len(a) + 1..Len(a) + k : b[i] = Byte(n)
<1> DEFINE c == [i \in 1..k |-> Byte(n)]
<1>1. Byte(n) \in Entries
  BY DEF Byte, Entries, Nodes
<1>2. c \in Seq(Entries) /\ Len(c) = k /\ \A i \in 1..k : c[i] = Byte(n)
  BY <1>1, IsASeq
<1> HIDE DEF c
<1>3. /\ a \o c \in Seq(Entries) /\ Len(a \o c) = Len(a) + k
      /\ \A i \in 1..Len(a) + k : (a \o c)[i] = IF i <= Len(a) THEN a[i] ELSE c[i - Len(a)]
  BY <1>2, ConcatProperties
<1>4. Len(a) \in Nat /\ DOMAIN (a \o c) = 1..Len(a) + k
  BY <1>3, LenProperties
<1>5. ASSUME NEW i \in 1..Len(a) PROVE (a \o c)[i] = a[i]
  BY <1>3, <1>4, <1>5
<1>6. ASSUME NEW i \in Len(a) + 1..Len(a) + k PROVE (a \o c)[i] = Byte(n)
  <2>1. i \in 1..Len(a) + k /\ ~(i <= Len(a)) /\ i - Len(a) \in 1..k
    BY <1>4, <1>6
  <2>2. QED BY <2>1, <1>2, <1>3
<1>7. QED BY <1>3, <1>4, <1>5, <1>6 DEF c

\* The head gone, the others are still there.
LEMMA TailIs ==
  ASSUME NEW S, NEW t \in Seq(S), t # << >>
  PROVE  /\ Head(t) \in S /\ Tail(t) \in Seq(S)
         /\ \A j \in DOMAIN t :
              t[j] = Head(t) \/ \E l \in DOMAIN Tail(t) : Tail(t)[l] = t[j]
<1>1. /\ Head(t) \in S /\ Tail(t) \in Seq(S) /\ Head(t) = t[1]
      /\ DOMAIN t = 1..Len(t) /\ Len(t) \in Nat
      /\ DOMAIN Tail(t) = 1..Len(t) - 1 /\ \A l \in 1..Len(t) - 1 : Tail(t)[l] = t[l + 1]
  BY HeadTailProperties, LenProperties, EmptySeq
<1>2. ASSUME NEW j \in DOMAIN t, j # 1 PROVE \E l \in DOMAIN Tail(t) : Tail(t)[l] = t[j]
  <2>1. j - 1 \in 1..Len(t) - 1 /\ (j - 1) + 1 = j
    BY <1>1, <1>2
  <2>2. QED BY <2>1, <1>1
<1>3. QED BY <1>1, <1>2

\* The entries of a directory, in any order, are all of them.
LEMMA AllInside ==
  ASSUME NEW S, IsFiniteSet(S), NEW s \in SetToSeqs(S)
  PROVE  s \in Seq(S) /\ \A n \in S : \E j \in DOMAIN s : s[j] = n
<1> DEFINE c == Cardinality(S)
<1>1. c \in Nat
  BY FS_CardinalityType
<1>2. s \in [1..c -> S] /\ \A i, j \in 1..c : i # j => s[i] # s[j]
  BY DEF SetToSeqs
<1>3. s \in Injection(1..c, S)
  BY <1>2 DEF Injection, IsInjective
<1>4. Cardinality(1..c) = c
  BY <1>1, FS_Interval
<1>5. s \in Surjection(1..c, S)
  BY <1>3, <1>4, FS_Injection
<1>6. s \in Seq(S)
  BY <1>1, <1>2
<1>7. \A n \in S : \E j \in 1..c : s[j] = n
  BY <1>5 DEF Surjection
<1>8. QED BY <1>2, <1>6, <1>7

-----------------------------------------------------------------------------
(* backup: what each step adds to the archive and what is left to visit.   *)
(* Nobody recovers meanwhile, so only what is in the archive matters.      *)

\* The constants, as the steps need them
LEMMA Constants ==
  /\ Nodes = Files \cup Dirs /\ Files \cap Dirs = {} /\ Cwd \notin Nodes
  /\ Device \in Files /\ Nothing \notin Nodes /\ Nothing \notin Nat /\ Nothing # Cwd
  /\ \A n \in Nodes : Parent[n] \in Dirs \cup {Cwd}
  /\ \A r \in [bytes : Nat, locked : BOOLEAN] : r # Nothing
BY ArchiveAssumption DEF Nodes

\* An archive is a sequence from 1 to its length.
LEMMA ArchiveIs ==
  ASSUME BackupTypes
  PROVE  /\ archive \in Seq(Entries) /\ Len(archive) \in Nat
         /\ DOMAIN archive = 1..Len(archive)
         /\ Heads \in SUBSET (1..Len(archive))
         /\ \A i \in 1..Len(archive) :
              /\ archive[i].head \in BOOLEAN /\ archive[i].node \in Nodes \cup {Nothing}
              /\ archive[i].size \in Nat
<1>1. archive \in Seq(Entries)
  BY DEF BackupTypes, Entries
<1>2. Len(archive) \in Nat /\ DOMAIN archive = 1..Len(archive)
  BY <1>1, LenProperties
<1>3. \A i \in 1..Len(archive) : archive[i] \in Entries
  BY <1>1, <1>2, ElementOfSeq
<1>4. QED BY <1>1, <1>2, <1>3 DEF Entries, Heads

\* What waits goes on waiting, but for the head.
LEMMA TailWaits ==
  ASSUME BackupTypes, todo # << >>, todo' = Tail(todo)
  PROVE  /\ Head(todo) \in Nodes \cup {Cwd} /\ todo' \in Seq(Nodes \cup {Cwd})
         /\ \A n : Waits(n) => n = Head(todo) \/ Waits(n)'
<1>1. todo \in Seq(Nodes \cup {Cwd})
  BY DEF BackupTypes
<1>2. /\ Head(todo) \in Nodes \cup {Cwd} /\ Tail(todo) \in Seq(Nodes \cup {Cwd})
      /\ \A j \in DOMAIN todo :
           todo[j] = Head(todo) \/ \E l \in DOMAIN Tail(todo) : Tail(todo)[l] = todo[j]
  BY <1>1, TailIs
<1>3. QED BY <1>2 DEF Waits

\* A header is behind all there is, and what was behind an entry stays there.
LEMMA AppendBehind ==
  ASSUME BackupTypes, NEW e \in Entries, archive' = Append(archive, e)
  PROVE  /\ archive' \in Seq(Entries) /\ Len(archive') = Len(archive) + 1
         /\ DOMAIN archive' = 1..Len(archive) + 1 /\ archive' # << >>
         /\ \A i \in 1..Len(archive) : archive'[i] = archive[i]
         /\ archive'[Len(archive) + 1] = e
         /\ e.head => Heads' = Heads \cup {Len(archive) + 1}
         /\ \A i, n : Behind(i, n) => Behind(i, n)'
         /\ e.head => \A i \in 0..Len(archive) : Behind(i, e.node)'
<1>1. archive \in Seq(Entries) /\ Len(archive) \in Nat /\ DOMAIN archive = 1..Len(archive)
  BY ArchiveIs
<1>2. /\ archive' \in Seq(Entries) /\ Len(archive') = Len(archive) + 1
      /\ DOMAIN archive' = 1..Len(archive) + 1 /\ archive' # << >>
      /\ \A i \in 1..Len(archive) : archive'[i] = archive[i]
      /\ archive'[Len(archive) + 1] = e
  BY <1>1, AppendIs
<1>3. e.head => Heads' = Heads \cup {Len(archive) + 1}
  BY <1>1, <1>2 DEF Heads
<1>4. Heads \in SUBSET Heads' /\ Heads \in SUBSET (1..Len(archive))
  BY <1>1, <1>2 DEF Heads
<1>5. \A i, n : Behind(i, n) => Behind(i, n)'
  BY <1>2, <1>4 DEF Behind
<1>6. ASSUME e.head, NEW i \in 0..Len(archive) PROVE Behind(i, e.node)'
  <2>1. Len(archive) + 1 \in Heads' /\ i < Len(archive) + 1
    BY <1>1, <1>3, <1>6
  <2>2. QED BY <2>1, <1>2 DEF Behind
<1>7. QED BY <1>2, <1>3, <1>5, <1>6

\* Bytes add no header.
LEMMA BytesBehind ==
  ASSUME BackupTypes, NEW n \in Files, NEW k \in Nat, archive' = archive \o [i \in 1..k |-> Byte(n)]
  PROVE  /\ archive' \in Seq(Entries) /\ Len(archive') = Len(archive) + k
         /\ DOMAIN archive' = 1..Len(archive) + k
         /\ \A i \in 1..Len(archive) : archive'[i] = archive[i]
         /\ \A i \in Len(archive) + 1..Len(archive) + k :
              ~archive'[i].head /\ archive'[i].node = n
         /\ Heads' = Heads
         /\ \A i, m : Behind(i, m) => Behind(i, m)'
<1>1. archive \in Seq(Entries) /\ Len(archive) \in Nat /\ DOMAIN archive = 1..Len(archive)
  BY ArchiveIs
<1>2. /\ archive' \in Seq(Entries) /\ Len(archive') = Len(archive) + k
      /\ DOMAIN archive' = 1..Len(archive) + k
      /\ \A i \in 1..Len(archive) : archive'[i] = archive[i]
      /\ \A i \in Len(archive) + 1..Len(archive) + k : archive'[i] = Byte(n)
  BY <1>1, BytesIs
<1>3. \A i \in Len(archive) + 1..Len(archive) + k : ~archive'[i].head /\ archive'[i].node = n
  BY <1>2 DEF Byte
<1>4. Heads' = Heads /\ Heads \in SUBSET (1..Len(archive))
  <2>1. Heads \in SUBSET (1..Len(archive))
    BY <1>1 DEF Heads
  <2>2. ASSUME NEW i \in 1..Len(archive) + k
        PROVE  archive'[i].head <=> (i \in 1..Len(archive) /\ archive[i].head)
    <3>1. CASE i \in 1..Len(archive)
      BY <1>2, <3>1
    <3>2. CASE i \notin 1..Len(archive)
      BY <1>1, <1>3, <3>2
    <3>3. QED BY <3>1, <3>2
  <2>3. QED BY <1>1, <1>2, <2>1, <2>2 DEF Heads
<1>5. \A i, m : Behind(i, m) => Behind(i, m)'
  BY <1>2, <1>4 DEF Behind
<1>6. QED BY <1>2, <1>3, <1>4, <1>5

\* What is passed over was not asked for, or is gone.
LEMMA BackupSkipStep ==
  ASSUME InArchive, BackupSkip
  PROVE  InArchive'
<1> USE DEF InArchive
<1>1. /\ archive' = archive /\ size' = size /\ args' = args /\ changes' = changes
      /\ missed' = missed /\ fds' = fds /\ reading = Nothing /\ reading' = Nothing
      /\ todo # << >> /\ todo' = Tail(todo) /\ Skip(Head(todo))
  BY DEF BackupSkip
<1>2. BytesBehindHeader' /\ ReadsLast'
  BY <1>1 DEF BytesBehindHeader, ReadsLast
<1>3. HeadersTrue'
  BY <1>1 DEF HeadersTrue, Quiet, Heads, Filled
<1>4. \A n : Waits(n) => n = Head(todo) \/ Waits(n)'
  BY <1>1, TailWaits
<1>5. NothingForgotten'
  <2> SUFFICES ASSUME Quiet PROVE NothingForgotten'
    BY <1>1 DEF NothingForgotten, Quiet
  <2>1. \A n \in Nodes \ {Device} : n # Head(todo)
    BY <1>1, Constants DEF Skip, HeadersTrue
  <2>2. Heads' = Heads /\ \A i, n : Behind(i, n)' <=> Behind(i, n)
    BY <1>1 DEF Heads, Behind
  <2>3. ASSUME NEW n \in Nodes \ {Device}, Named(n)
        PROVE  Waits(n)' \/ Behind(0, n)
    BY <1>4, <2>1, <2>3 DEF NothingForgotten
  <2>4. ASSUME NEW i \in Heads, NEW n \in Nodes \ {Device},
               archive[i].node \in Dirs, Parent[n] = archive[i].node
        PROVE  Waits(n)' \/ Behind(i, n)
    BY <1>4, <2>1, <2>4 DEF NothingForgotten
  <2>5. QED BY <1>1, <2>2, <2>3, <2>4 DEF NothingForgotten, Named
<1>6. BackupTypes'
  BY <1>1, TailWaits DEF BackupTypes
<1>7. QED BY <1>2, <1>3, <1>5, <1>6

\* The headers before another are as true as they were.
LEMMA AppendHeaders ==
  ASSUME InArchive, NEW e \in Entries, e.head, archive' = Append(archive, e),
         size' = size, reading = Nothing
  PROVE  /\ BytesBehindHeader'
         /\ Quiet => \A i \in Heads :
                       /\ archive'[i].node \in Nodes
                       /\ archive'[i].node \in Files => archive'[i].size = size[archive'[i].node]
                       /\ Filled(i)'
<1> USE DEF InArchive
<1>1. /\ Len(archive') = Len(archive) + 1
      /\ DOMAIN archive' = 1..Len(archive) + 1
      /\ \A i \in 1..Len(archive) : archive'[i] = archive[i]
      /\ archive'[Len(archive) + 1] = e
      /\ Len(archive) \in Nat /\ DOMAIN archive = 1..Len(archive)
      /\ Heads \in SUBSET (1..Len(archive))
  BY AppendBehind, ArchiveIs
<1>2. ASSUME NEW i \in 1..Len(archive) + 1, ~archive'[i].head
      PROVE  /\ archive'[i].node \in Files
             /\ i > 1 /\ (archive'[i - 1].head => archive'[i - 1].node \in Files)
  <2>1. i \in 1..Len(archive) /\ archive'[i] = archive[i]
    BY <1>1, <1>2
  <2>2. /\ archive[i].node \in Files
        /\ i > 1 /\ (archive[i - 1].head => archive[i - 1].node \in Files)
    BY <1>1, <1>2, <2>1 DEF BytesBehindHeader
  <2>3. i - 1 \in 1..Len(archive)
    BY <2>1, <2>2
  <2>4. QED BY <1>1, <2>1, <2>2, <2>3
<1>3. BytesBehindHeader'
  BY <1>1, <1>2 DEF BytesBehindHeader
<1>4. ASSUME Quiet, NEW i \in Heads
      PROVE  /\ archive'[i].node \in Nodes
             /\ archive'[i].node \in Files => archive'[i].size = size[archive'[i].node]
             /\ Filled(i)'
  <2>1. archive'[i] = archive[i] /\ i \in 1..Len(archive)
    BY <1>1
  <2>2. /\ archive[i].node \in Nodes /\ Filled(i)
        /\ archive[i].node \in Files => archive[i].size = size[archive[i].node]
    BY <1>4 DEF HeadersTrue
  <2>3. archive[i].size \in Nat
    BY ArchiveIs
  <2>4. Filled(i)'
    <3> SUFFICES ASSUME archive[i].node \in Files
                 PROVE  LET s == archive[i].size
                        IN /\ i + s <= Len(archive')
                           /\ \A k \in i + 1..i + s : ~archive'[k].head
                           /\ i + s = Len(archive') \/ archive'[i + s + 1].head
      BY <2>1 DEF Filled
    <3>1. i + archive[i].size <= Len(archive)
      BY <2>2 DEF Filled
    <3>2. ASSUME NEW k \in i + 1..i + archive[i].size PROVE ~archive'[k].head
      <4>1. k \in 1..Len(archive)
        BY <2>1, <2>3, <3>1, <1>1
      <4>2. QED BY <4>1, <1>1, <2>2 DEF Filled
    <3>3. archive'[i + archive[i].size + 1].head
      <4>1. CASE i + archive[i].size = Len(archive)
        BY <4>1, <1>1
      <4>2. CASE i + archive[i].size # Len(archive)
        <5>1. i + archive[i].size + 1 \in 1..Len(archive)
          BY <4>2, <2>1, <2>3, <3>1, <1>1
        <5>2. QED BY <5>1, <4>2, <1>1, <2>2 DEF Filled
      <4>3. QED BY <4>1, <4>2
    <3>4. QED BY <3>1, <3>2, <3>3, <1>1, <2>1, <2>3
  <2>5. QED BY <2>1, <2>2, <2>4
<1>5. QED BY <1>3, <1>4

\* A header of its own, with the content still to come
LEMMA BackupFileStep ==
  ASSUME InArchive, BackupFile
  PROVE  InArchive'
<1> DEFINE n == Head(todo)
<1> DEFINE e == Header(n, size[n])
<1> USE DEF InArchive
<1>1. /\ archive' = Append(archive, e) /\ size' = size /\ args' = args /\ todo' = todo
      /\ changes' = changes /\ missed' = missed /\ fds' = fds
      /\ reading = Nothing /\ reading' = n
      /\ todo # << >> /\ n \in Files /\ size[n] # Nothing
  BY DEF BackupFile, Skip
<1>2. e \in Entries /\ e.head /\ e.node = n /\ e.size = size[n]
  BY <1>1, Constants DEF Header, Entries, BackupTypes
<1> HIDE DEF e, n
<1>3. /\ archive' \in Seq(Entries) /\ Len(archive') = Len(archive) + 1
      /\ DOMAIN archive' = 1..Len(archive) + 1 /\ archive' # << >>
      /\ \A i \in 1..Len(archive) : archive'[i] = archive[i]
      /\ archive'[Len(archive) + 1] = e
      /\ Heads' = Heads \cup {Len(archive) + 1}
      /\ \A i, m : Behind(i, m) => Behind(i, m)'
      /\ Len(archive) \in Nat /\ DOMAIN archive = 1..Len(archive)
      /\ Heads \in SUBSET (1..Len(archive))
  BY <1>1, <1>2, AppendBehind, ArchiveIs
<1>4. BytesBehindHeader'
  BY <1>1, <1>2, AppendHeaders
<1>5. ReadsLast'
  BY <1>1, <1>2, <1>3 DEF ReadsLast, n
<1>6. HeadersTrue'
  <2> SUFFICES ASSUME Quiet PROVE HeadersTrue'
    BY <1>1 DEF HeadersTrue, Quiet
  <2>1. \A i \in Heads :
          /\ archive'[i].node \in Nodes
          /\ archive'[i].node \in Files => archive'[i].size = size[archive'[i].node]
          /\ Filled(i)'
    BY <1>1, <1>2, AppendHeaders
  <2>2. n \in Nodes /\ n # Nothing
    BY <1>1, Constants
  <2>3. QED BY <1>1, <1>2, <1>3, <2>1, <2>2 DEF HeadersTrue
<1>7. NothingForgotten'
  <2> SUFFICES ASSUME Quiet PROVE NothingForgotten'
    BY <1>1 DEF NothingForgotten, Quiet
  <2>1. \A m : (Waits(m)' <=> Waits(m)) /\ (Named(m)' <=> Named(m))
    BY <1>1 DEF Waits, Named
  <2>2. e.node \notin Dirs
    BY <1>1, <1>2, Constants
  <2>3. QED BY <1>3, <2>1, <2>2 DEF NothingForgotten
<1>8. BackupTypes'
  BY <1>1, <1>3 DEF BackupTypes, Entries
<1>9. QED BY <1>4, <1>5, <1>6, <1>7, <1>8

\* Bytes go behind the header of their file.
LEMMA BytesForm ==
  ASSUME InArchive, reading # Nothing, NEW k \in Nat,
         archive' = archive \o [i \in 1..k |-> Byte(reading)]
  PROVE  BytesBehindHeader'
<1> USE DEF InArchive
<1>1. reading \in Files
  BY DEF BackupTypes
<1>2. /\ Len(archive') = Len(archive) + k
      /\ DOMAIN archive' = 1..Len(archive) + k
      /\ \A i \in 1..Len(archive) : archive'[i] = archive[i]
      /\ \A i \in Len(archive) + 1..Len(archive) + k :
           ~archive'[i].head /\ archive'[i].node = reading
      /\ Len(archive) \in Nat /\ DOMAIN archive = 1..Len(archive)
  BY <1>1, BytesBehind, ArchiveIs
<1>3. /\ Len(archive) >= 1 /\ archive[Len(archive)].node = reading
  <2>1. archive # << >> /\ archive[Len(archive)].node = reading
    BY DEF ReadsLast
  <2>2. QED BY <2>1, <1>2, ArchiveIs, EmptySeq
<1>4. ASSUME NEW i \in 1..Len(archive) + k, ~archive'[i].head
      PROVE  /\ archive'[i].node \in Files
             /\ i > 1 /\ (archive'[i - 1].head => archive'[i - 1].node \in Files)
  <2>1. CASE i \in 1..Len(archive)
    <3>1. archive'[i] = archive[i]
      BY <1>2, <2>1
    <3>2. /\ archive[i].node \in Files
          /\ i > 1 /\ (archive[i - 1].head => archive[i - 1].node \in Files)
      BY <1>2, <1>4, <2>1, <3>1 DEF BytesBehindHeader
    <3>3. i - 1 \in 1..Len(archive)
      BY <2>1, <3>2
    <3>4. QED BY <1>2, <3>1, <3>2, <3>3
  <2>2. CASE i = Len(archive) + 1
    <3>1. i - 1 = Len(archive) /\ Len(archive) \in 1..Len(archive) /\ i > 1
      BY <1>2, <1>3, <2>2
    <3>2. archive'[i - 1] = archive[Len(archive)]
      BY <1>2, <3>1
    <3>3. archive'[i].node = reading
      BY <1>2, <1>4, <2>2
    <3>4. QED BY <1>1, <1>3, <3>1, <3>2, <3>3
  <2>3. CASE i > Len(archive) + 1
    <3>1. /\ i \in Len(archive) + 1..Len(archive) + k
          /\ i - 1 \in Len(archive) + 1..Len(archive) + k /\ i > 1
      BY <1>2, <1>4, <2>3
    <3>2. QED BY <1>1, <1>2, <3>1
  <2>4. QED BY <1>2, <1>4, <2>1, <2>2, <2>3
<1>5. QED BY <1>2, <1>4 DEF BytesBehindHeader

\* The content of a file fills what its header says, unless the file has changed.
LEMMA WriteContentStep ==
  ASSUME InArchive, WriteContent
  PROVE  InArchive'
<1> USE DEF InArchive
<1>1. /\ reading \in Files /\ reading # Nothing /\ size' = size /\ args' = args
      /\ changes' = changes /\ fds' = fds /\ reading' = Nothing
      /\ todo # << >> /\ todo' = Tail(todo) /\ Head(todo) = reading
      /\ archive # << >> /\ archive[Len(archive)].head /\ archive[Len(archive)].node = reading
      /\ \/ /\ archive' = archive \o [i \in 1..size[reading] |-> Byte(reading)]
            /\ size[reading] \in Nat /\ missed' = missed
         \/ archive' = archive /\ missed' = missed \cup {reading}
  BY DEF WriteContent, Contents, BackupTypes, ReadsLast
<1>2. /\ Len(archive) \in Nat /\ DOMAIN archive = 1..Len(archive) /\ archive \in Seq(Entries)
      /\ Heads \in SUBSET (1..Len(archive)) /\ Len(archive) \in Heads
  <2>1. Len(archive) \in Nat \ {0} /\ DOMAIN archive = 1..Len(archive) /\ archive \in Seq(Entries)
    BY <1>1, ArchiveIs, EmptySeq
  <2>2. QED BY <1>1, <2>1, ArchiveIs DEF Heads
<1>3. BackupTypes' /\ BytesBehindHeader' /\ ReadsLast'
  <2>1. archive' \in Seq(Entries)
    BY <1>1, <1>2, BytesBehind
  <2>2. todo' \in Seq(Nodes \cup {Cwd})
    BY <1>1, TailWaits
  <2>3. BytesBehindHeader'
    BY <1>1, BytesForm DEF BytesBehindHeader
  <2>4. QED BY <1>1, <2>1, <2>2, <2>3 DEF BackupTypes, ReadsLast, Entries
<1> SUFFICES ASSUME Quiet, Quiet' PROVE HeadersTrue' /\ NothingForgotten'
  <2>1. Quiet' => Quiet
    BY <1>1 DEF Quiet
  <2>2. QED BY <1>3, <2>1 DEF HeadersTrue, NothingForgotten
<1> DEFINE k == size[reading]
<1> DEFINE L == Len(archive)
<1>L. /\ L \in Nat /\ DOMAIN archive = 1..L /\ Heads \in SUBSET (1..L) /\ L \in Heads
      /\ archive[L].head /\ archive[L].node = reading
  BY <1>1, <1>2
<1>4. /\ k \in Nat /\ Len(archive') = L + k
      /\ DOMAIN archive' = 1..L + k
      /\ \A i \in 1..L : archive'[i] = archive[i]
      /\ \A i \in L + 1..L + k :
           ~archive'[i].head /\ archive'[i].node = reading
      /\ Heads' = Heads
      /\ \A i, m : Behind(i, m) => Behind(i, m)'
  BY <1>1, BytesBehind DEF Quiet
<1> HIDE DEF k, L
<1>5. HeadersTrue'
  <2>1. ASSUME NEW i \in Heads
        PROVE  /\ archive'[i].node \in Nodes
               /\ archive'[i].node \in Files => archive'[i].size = size[archive'[i].node]
               /\ Filled(i)'
    <3>1. archive'[i] = archive[i] /\ i \in 1..L
      BY <1>L, <1>2, <1>4
    <3>2. /\ archive[i].node \in Nodes /\ (Filled(i) \/ i = L)
          /\ archive[i].node \in Files => archive[i].size = size[archive[i].node]
      BY DEF HeadersTrue, L
    <3>3. archive[i].size \in Nat
      BY ArchiveIs, <1>L, <1>2
    <3>4. Filled(i)'
      <4> DEFINE s == archive[i].size
      <4> SUFFICES ASSUME archive[i].node \in Files
                   PROVE  /\ i + s <= Len(archive')
                          /\ \A j \in i + 1..i + s : ~archive'[j].head
                          /\ i + s = Len(archive') \/ archive'[i + s + 1].head
        BY <3>1 DEF Filled, L
      <4>1. CASE i = L
        <5>1. s = k
          BY <1>1, <1>L, <3>2, <4>1 DEF k
        <5>2. QED BY <5>1, <4>1, <1>L, <1>2, <1>4
      <4>2. CASE i # L
        <5>1. /\ i + s <= L /\ \A j \in i + 1..i + s : ~archive[j].head
              /\ i + s = L \/ archive[i + s + 1].head
          BY <3>2, <4>2 DEF Filled, L
        <5> HIDE DEF s
        <5>2. s \in Nat
          BY <3>3 DEF s
        <5>3. i + s # L
          <6>1. i + s = L => L \in i + 1..i + s
            BY <5>2, <3>1, <4>2, <1>L, <1>2
          <6>2. QED BY <6>1, <5>1, <1>L
        <5>4. i + s + 1 \in 1..L /\ archive'[i + s + 1].head
          BY <5>1, <5>2, <5>3, <3>1, <1>L, <1>2, <1>4
        <5>5. ASSUME NEW j \in i + 1..i + s PROVE ~archive'[j].head
          <6>1. j \in 1..L
            BY <5>1, <5>2, <3>1, <1>L, <1>2
          <6>2. QED BY <6>1, <5>1, <1>4
        <5>6. QED BY <5>1, <5>2, <5>4, <5>5, <3>1, <1>L, <1>2, <1>4
      <4>3. QED BY <4>1, <4>2
    <3>5. QED BY <3>1, <3>2, <3>4
  <2>2. \A f \in Files : size'[f] \in Nat
    BY <1>1 DEF HeadersTrue
  <2>3. QED BY <1>1, <1>L, <1>4, <2>1, <2>2 DEF HeadersTrue
<1>6. NothingForgotten'
  <2>1. \A m : (Waits(m) => m = reading \/ Waits(m)') /\ (Named(m)' <=> Named(m))
    BY <1>1, <1>L, TailWaits DEF Named
  <2>2. ASSUME NEW i \in 0..L - 1, NEW m, m = reading PROVE Behind(i, m)'
    <3>1. L \in Heads' /\ i < L /\ archive'[L].node = m
      BY <1>L, <2>2, <1>4
    <3>2. QED BY <3>1 DEF Behind
  <2>3. 0 \in 0..L - 1
    BY <1>L, <1>2
  <2>4. ASSUME NEW i \in Heads, archive'[i].node \in Dirs
        PROVE  i \in 0..L - 1 /\ archive'[i].node = archive[i].node
    <3>1. i \in 1..L /\ archive'[i] = archive[i]
      BY <1>L, <1>2, <1>4
    <3>2. i # L
      BY <1>1, <1>L, <2>4, <3>1, Constants
    <3>3. QED BY <3>1, <3>2, <1>L, <1>2
  <2>5. QED BY <1>4, <2>1, <2>2, <2>3, <2>4 DEF NothingForgotten
<1>7. QED BY <1>3, <1>5, <1>6

\* A directory waits no longer, but all that is in it does.
LEMMA BackupDirStep ==
  ASSUME InArchive, BackupDir
  PROVE  InArchive'
<1> DEFINE n == Head(todo)
<1> DEFINE e == Header(n, 0)
<1> USE DEF InArchive
<1>1. /\ archive' = Append(archive, e) /\ size' = size /\ args' = args
      /\ changes' = changes /\ reading = Nothing /\ reading' = Nothing
      /\ todo # << >> /\ n \in Dirs
      /\ \/ /\ fds > 0 /\ fds' = fds - 1 /\ missed' = missed
            /\ \E s \in SetToSeqs(Inside(n)) : todo' = s \o Tail(todo)
         \/ fds' = fds /\ missed' = missed \cup {n} /\ todo' = Tail(todo)
  BY DEF BackupDir
<1>2. e \in Entries /\ e.head /\ e.node = n
  BY <1>1, Constants DEF Header, Entries
<1>3. /\ n \in Nodes \cup {Cwd} /\ Tail(todo) \in Seq(Nodes \cup {Cwd})
      /\ \A j \in DOMAIN todo :
           todo[j] = n \/ \E l \in DOMAIN Tail(todo) : Tail(todo)[l] = todo[j]
  BY <1>1, TailIs DEF BackupTypes
<1> HIDE DEF e
<1>4. /\ archive' \in Seq(Entries) /\ Len(archive') = Len(archive) + 1
      /\ DOMAIN archive' = 1..Len(archive) + 1 /\ archive' # << >>
      /\ \A i \in 1..Len(archive) : archive'[i] = archive[i]
      /\ archive'[Len(archive) + 1] = e
      /\ Heads' = Heads \cup {Len(archive) + 1}
      /\ \A i, m : Behind(i, m) => Behind(i, m)'
      /\ \A m : \A i \in 0..Len(archive) : m = n => Behind(i, m)'
      /\ Len(archive) \in Nat /\ DOMAIN archive = 1..Len(archive)
      /\ Heads \in SUBSET (1..Len(archive))
  BY <1>1, <1>2, AppendBehind, ArchiveIs
<1>5. /\ todo' \in Seq(Nodes \cup {Cwd})
      /\ Quiet' =>
           /\ \A m : Waits(m) => m = n \/ Waits(m)'
           /\ \A m \in Inside(n) : Waits(m)'
  <2>1. CASE todo' = Tail(todo) /\ missed' = missed \cup {n}
    BY <1>3, <2>1 DEF Quiet
  <2>2. CASE \E s \in SetToSeqs(Inside(n)) : todo' = s \o Tail(todo)
    <3> HIDE DEF n
    <3>1. PICK s \in SetToSeqs(Inside(n)) : todo' = s \o Tail(todo)
      BY <2>2
    <3>2. IsFiniteSet(Inside(n))
      BY FS_Subset, ArchiveAssumption DEF Inside, Nodes
    <3>3. s \in Seq(Inside(n)) /\ \A m \in Inside(n) : \E j \in DOMAIN s : s[j] = m
      BY <3>1, <3>2, AllInside
    <3>4. s \in Seq(Nodes \cup {Cwd})
      <4>1. Inside(n) \in SUBSET (Nodes \cup {Cwd})
        BY DEF Inside
      <4>2. QED BY <3>3, <4>1
    <3> DEFINE t == Tail(todo)
    <3>5. t \in Seq(Nodes \cup {Cwd}) /\ todo' = s \o t
      BY <1>3, <3>1
    <3> HIDE DEF t
    <3>6. /\ todo' \in Seq(Nodes \cup {Cwd}) /\ Len(s) \in Nat /\ Len(t) \in Nat
          /\ DOMAIN s = 1..Len(s) /\ DOMAIN t = 1..Len(t)
          /\ Len(todo') = Len(s) + Len(t) /\ DOMAIN todo' = 1..Len(todo')
          /\ \A i \in 1..Len(s) + Len(t) :
               todo'[i] = IF i <= Len(s) THEN s[i] ELSE t[i - Len(s)]
      BY <3>4, <3>5, ConcatProperties, LenProperties
    <3>7. ASSUME NEW j \in DOMAIN s PROVE j \in DOMAIN todo' /\ todo'[j] = s[j]
      BY <3>6, <3>7
    <3>8. ASSUME NEW l \in DOMAIN t
          PROVE  Len(s) + l \in DOMAIN todo' /\ todo'[Len(s) + l] = t[l]
      <4>1. /\ Len(s) + l \in 1..Len(s) + Len(t) /\ ~(Len(s) + l <= Len(s))
            /\ (Len(s) + l) - Len(s) = l
        BY <3>6, <3>8
      <4>2. QED BY <4>1, <3>6
    <3>9. \A m \in Inside(n) : Waits(m)'
      BY <3>3, <3>7 DEF Waits
    <3>10. \A m : Waits(m) => m = n \/ Waits(m)'
      BY <1>3, <3>8 DEF Waits, t
    <3>11. QED BY <3>6, <3>9, <3>10
  <2>3. QED BY <1>1, <2>1, <2>2
<1> HIDE DEF n
<1>6. BytesBehindHeader' /\ ReadsLast'
  BY <1>1, <1>2, AppendHeaders DEF ReadsLast
<1>7. BackupTypes'
  BY <1>1, <1>4, <1>5 DEF BackupTypes, Entries
<1> SUFFICES ASSUME Quiet, Quiet' PROVE HeadersTrue' /\ NothingForgotten'
  <2>1. Quiet' => Quiet
    BY <1>1 DEF Quiet
  <2>2. QED BY <1>6, <1>7, <2>1 DEF HeadersTrue, NothingForgotten
<1>8. HeadersTrue'
  <2>1. \A i \in Heads :
          /\ archive'[i].node \in Nodes
          /\ archive'[i].node \in Files => archive'[i].size = size[archive'[i].node]
          /\ Filled(i)'
    BY <1>1, <1>2, AppendHeaders
  <2>2. n \in Nodes /\ n \notin Files
    BY <1>1, Constants
  <2>3. ASSUME NEW i, i = Len(archive) + 1
        PROVE  archive'[i].node \in Nodes \ Files /\ Filled(i)'
    BY <1>2, <1>4, <2>2, <2>3 DEF Filled
  <2>4. QED BY <1>1, <1>4, <2>1, <2>3 DEF HeadersTrue
<1>9. NothingForgotten'
  <2>1. \A m : Named(m)' <=> Named(m)
    BY <1>1 DEF Named
  <2>2. \A m \in Nodes : Parent[m] = n => Waits(m)'
    BY <1>5, Constants DEF Inside, HeadersTrue
  <2>3. ASSUME NEW i \in Heads PROVE archive'[i] = archive[i] /\ i \in 0..Len(archive)
    BY <1>4
  <2>4. 0 \in 0..Len(archive)
    BY <1>4
  <2>5. QED BY <1>2, <1>4, <1>5, <2>1, <2>2, <2>3, <2>4 DEF NothingForgotten
<1>10. QED BY <1>6, <1>7, <1>8, <1>9

\* The archive may end anywhere, and then something is missed.
LEMMA TruncateStep ==
  ASSUME InArchive, Truncate
  PROVE  InArchive'
<1> USE DEF InArchive
<1>1. /\ size' = size /\ args' = args /\ changes' = changes /\ fds' = fds
      /\ todo # << >> /\ todo' = << >> /\ reading' = Nothing
      /\ missed' = missed \cup ToSet(todo)
      /\ IF reading = Nothing
         THEN archive' = archive \/ archive' = Append(archive, Header(Nothing, 0))
         ELSE \E k \in Nat : archive' = archive \o [i \in 1..k |-> Byte(reading)]
  <2>1. CASE reading = Nothing
    BY <2>1 DEF Truncate
  <2>2. CASE reading # Nothing
    <3>1. size[reading] \in Nat \cup {Nothing}
      BY <2>2 DEF BackupTypes
    <3>2. PICK k \in 0..(IF size[reading] = Nothing THEN 0 ELSE size[reading]) :
            archive' = archive \o [i \in 1..k |-> Byte(reading)]
      BY <2>2 DEF Truncate
    <3>3. k \in Nat
      BY <3>1, <3>2
    <3>4. QED BY <2>2, <3>2, <3>3 DEF Truncate
  <2>3. QED BY <2>1, <2>2
<1>2. archive' \in Seq(Entries) /\ BytesBehindHeader'
  <2>1. CASE archive' = archive
    BY <2>1, ArchiveIs DEF BytesBehindHeader
  <2>2. CASE reading = Nothing /\ archive' = Append(archive, Header(Nothing, 0))
    <3>1. Header(Nothing, 0) \in Entries /\ Header(Nothing, 0).head
      BY DEF Header, Entries
    <3>2. QED BY <1>1, <2>2, <3>1, AppendHeaders, AppendBehind
  <2>3. CASE reading # Nothing
    <3>1. PICK k \in Nat : archive' = archive \o [i \in 1..k |-> Byte(reading)]
      BY <1>1, <2>3
    <3>2. reading \in Files
      BY <2>3 DEF BackupTypes
    <3>3. QED BY <2>3, <3>1, <3>2, BytesBehind, BytesForm
  <2>4. QED BY <1>1, <2>1, <2>2, <2>3
<1>3. BackupTypes' /\ ReadsLast'
  BY <1>1, <1>2 DEF BackupTypes, ReadsLast, Entries
<1>4. ~Quiet'
  <2>1. todo \in Seq(Nodes \cup {Cwd})
    BY DEF BackupTypes
  <2>2. 1 \in DOMAIN todo
    BY <1>1, <2>1, LenProperties, EmptySeq
  <2>3. todo[1] \in missed'
    BY <1>1, <2>2 DEF ToSet
  <2>4. QED BY <2>3 DEF Quiet
<1>5. QED BY <1>2, <1>3, <1>4 DEF HeadersTrue, NothingForgotten

\* Somebody changes a file.
LEMMA ChangeStep ==
  ASSUME InArchive, Change
  PROVE  InArchive'
<1>1. PICK n \in Files \ {Device}, s \in Sizes \cup {Nothing} : size' = [size EXCEPT ![n] = s]
  BY DEF Change
<1>2. s \in Nat \cup {Nothing}
  BY ArchiveAssumption
<1>3. /\ args' = args /\ missed' = missed /\ fds' = fds /\ todo' = todo
      /\ reading' = reading /\ archive' = archive /\ changes' = changes + 1
  BY DEF Change
<1>4. BackupTypes' /\ ~Quiet'
  BY <1>1, <1>2, <1>3 DEF InArchive, BackupTypes, Quiet
<1>5. BytesBehindHeader' /\ ReadsLast'
  BY <1>3 DEF InArchive, BytesBehindHeader, ReadsLast
<1>6. QED BY <1>4, <1>5 DEF InArchive, HeadersTrue, NothingForgotten

\* The steps of backup, and of who changes files meanwhile
Backup == BackupSkip \/ BackupFile \/ WriteContent \/ BackupDir \/ Truncate \/ Change

\* While backup runs there is nothing to say about what was recovered.
LEMMA BackupStep ==
  ASSUME Inv, Backup, UNCHANGED <<pc, pos, cur, left, tree, starved, runs>>
  PROVE  Inv'
<1>1. InArchive'
  BY BackupSkipStep, BackupFileStep, WriteContentStep, BackupDirStep, TruncateStep, ChangeStep
     DEF Inv, Backup
<1>2. todo # << >> \/ reading # Nothing
  BY DEF Backup, BackupSkip, BackupFile, WriteContent, BackupDir, Truncate, Change
<1>3. pc = "off" /\ \A n \in Nodes : tree[n] = Nothing
  BY <1>2 DEF Inv, BackupFirst
<1>4. pc' = "off" /\ (\A n \in Nodes : tree'[n] = Nothing) /\ RecoverTypes'
  BY <1>3 DEF Inv, InTree, RecoverTypes
<1>5. InContent' /\ AtEntry' /\ AtEnd' /\ Lost' /\ Kept' /\ DirsMade'
  BY <1>4 DEF InContent, AtEntry, AtEnd, Lost, Kept, DirsMade, Running
<1>6. ProtectedWhole' /\ BackupFirst'
  BY <1>4 DEF ProtectedWhole, BackupFirst, Nodes
<1>7. QED BY <1>1, <1>4, <1>5, <1>6 DEF Inv, InTree

-----------------------------------------------------------------------------
(* recover: what each step makes of the tree.  The archive stays the same. *)

Tree == [Nodes -> {Nothing} \cup [bytes : Nat, locked : BOOLEAN]]

\* What is said of the archive is said of it for ever.
LEMMA SameArchive ==
  ASSUME UNCHANGED backup
  PROVE  /\ InArchive => InArchive'
         /\ archive' = archive /\ (superuser' <=> superuser) /\ todo' = todo /\ reading' = reading
         /\ Heads' = Heads /\ \A i : Matches(i)' <=> Matches(i)
         /\ (Sound' <=> Sound) /\ Reached' = Reached
<1>1. /\ args' = args /\ (superuser' <=> superuser) /\ size' = size /\ changes' = changes
      /\ missed' = missed /\ fds' = fds /\ todo' = todo /\ reading' = reading
      /\ archive' = archive
  BY DEF backup
<1>2. Heads' = Heads /\ \A i : Matches(i)' <=> Matches(i)
  BY <1>1 DEF Heads, Matches
<1>3. Sound' <=> Sound
  BY <1>2 DEF Sound
<1>4. \A S : Reaching(S)' <=> Reaching(S)
  BY <1>1, <1>2 DEF Reaching
<1>5. Reached' = Reached
  BY <1>2, <1>4 DEF Reached
<1>6. InArchive => InArchive'
  <2>1. \A i, n : (Named(n)' <=> Named(n)) /\ (Waits(n)' <=> Waits(n))
                  /\ (Behind(i, n)' <=> Behind(i, n)) /\ (Filled(i)' <=> Filled(i))
    BY <1>1, <1>2 DEF Named, Waits, Behind, Filled
  <2>2. HeadersTrue => HeadersTrue'
    BY <1>1, <1>2, <2>1 DEF HeadersTrue, Quiet
  <2>3. NothingForgotten => NothingForgotten'
    BY <1>1, <1>2, <2>1 DEF NothingForgotten, Quiet
  <2>4. (BackupTypes => BackupTypes') /\ (BytesBehindHeader => BytesBehindHeader')
        /\ (ReadsLast => ReadsLast')
    BY <1>1 DEF BackupTypes, BytesBehindHeader, ReadsLast
  <2>5. QED BY <2>2, <2>3, <2>4 DEF InArchive
<1>7. QED BY <1>1, <1>2, <1>3, <1>5, <1>6

\* The int that is counted down is one.
LEMMA FileEndInt == ASSUME NEW s \in Nat PROVE FileEnd(s) \in Int
BY ArchiveAssumption DEF FileEnd

\* mkdir makes one directory or none and leaves all else.
LEMMA MkdirMakes ==
  ASSUME NEW t \in Tree, NEW d \in Dirs \cup {Cwd}, NEW l \in BOOLEAN
  PROVE  /\ Mkdir(t, d, l) \in Tree
         /\ \A n \in Nodes : t[n] # Nothing \/ n \in Files => Mkdir(t, d, l)[n] = t[n]
         /\ d # Cwd /\ superuser /\ (Parent[d] = Cwd \/ t[Parent[d]] # Nothing)
              => Mkdir(t, d, l)[d] # Nothing
<1> DEFINE r == [bytes |-> 0, locked |-> l]
<1>1. r \in [bytes : Nat, locked : BOOLEAN] /\ r # Nothing
  BY Constants
<1>2. \/ Mkdir(t, d, l) = t
      \/ d # Cwd /\ t[d] = Nothing /\ Mkdir(t, d, l) = [t EXCEPT ![d] = r]
  BY DEF Mkdir
<1>3. d # Cwd /\ superuser /\ (Parent[d] = Cwd \/ t[Parent[d]] # Nothing)
        => Mkdir(t, d, l) = [t EXCEPT ![d] = r] \/ (Mkdir(t, d, l) = t /\ t[d] # Nothing)
  BY DEF Mkdir
<1> HIDE DEF r
<1>4. d # Cwd => d \in Nodes /\ d \notin Files
  BY Constants
<1>5. d # Cwd /\ t[d] = Nothing =>
        /\ [t EXCEPT ![d] = r] \in Tree /\ [t EXCEPT ![d] = r][d] = r
        /\ \A n \in Nodes \ {d} : [t EXCEPT ![d] = r][n] = t[n]
  BY <1>1, <1>4 DEF Tree
<1>6. QED BY <1>1, <1>2, <1>3, <1>4, <1>5

\* An entry that was reached is a directory, of "." or of one reached before.
LEMMA ReachedIs ==
  ASSUME NEW i \in Reached
  PROVE  /\ i \in Heads /\ archive[i].node \in Dirs
         /\ \/ Parent[archive[i].node] = Cwd
            \/ \E h \in Reached : h < i /\ archive[h].node = Parent[archive[i].node]
<1> DEFINE D(k) == /\ archive[k].node \in Dirs
                   /\ \/ Parent[archive[k].node] = Cwd
                      \/ \E h \in Reached : h < k /\ archive[h].node = Parent[archive[k].node]
<1> DEFINE S == {k \in Heads : D(k)}
<1>1. ASSUME NEW k \in Heads, archive[k].node \in Dirs,
             \/ Parent[archive[k].node] = Cwd
             \/ \E h \in S : h < k /\ archive[h].node = Parent[archive[k].node]
      PROVE  D(k)
  <2>1. ASSUME NEW h \in S PROVE h \in Reached
    <3>1. h \in Heads /\ D(h)
      OBVIOUS
    <3>2. ASSUME NEW T \in SUBSET Heads, Reaching(T) PROVE h \in T
      <4>1. CASE Parent[archive[h].node] = Cwd
        BY <3>1, <3>2, <4>1 DEF Reaching
      <4>2. CASE \E g \in Reached : g < h /\ archive[g].node = Parent[archive[h].node]
        <5>1. PICK g \in Reached : g < h /\ archive[g].node = Parent[archive[h].node]
          BY <4>2
        <5>2. g \in T
          BY <3>2 DEF Reached
        <5>3. QED BY <3>1, <3>2, <5>1, <5>2 DEF Reaching
      <4>3. QED BY <3>1, <4>1, <4>2
    <3>3. QED BY <3>1, <3>2 DEF Reached
  <2>2. QED BY <1>1, <2>1
<1>2. Reaching(S)
  BY <1>1 DEF Reaching
<1>3. i \in S
  BY <1>2 DEF Reached
<1>4. QED BY <1>3

\* A set of entries that is reached goes on growing with what is behind it.
LEMMA ReachedGrows ==
  ASSUME NEW k \in Heads, archive[k].node \in Dirs,
         \/ Parent[archive[k].node] = Cwd
         \/ \E h \in Reached : h < k /\ archive[h].node = Parent[archive[k].node]
  PROVE  k \in Reached
<1>1. ASSUME NEW T \in SUBSET Heads, Reaching(T) PROVE k \in T
  <2>1. Reached \in SUBSET T
    BY <1>1 DEF Reached
  <2>2. QED BY <1>1, <2>1 DEF Reaching
<1>2. QED BY <1>1 DEF Reached

\* What is refused stays so, as long as all that a full disk refused is remembered.
LEMMA RefusedGrows ==
  ASSUME Dirs \cap starved \in SUBSET starved'
  PROVE  Refused \in SUBSET Refused'
BY DEF Refused

\* A full disk refuses a directory, and what is below a directory it refused.
LEMMA RefusedIs ==
  ASSUME NEW d \in Dirs, d \in starved \/ Parent[d] \in Refused
  PROVE  d \in Refused
BY DEF Refused

\* What a step that leaves the tree and the archive alone keeps.
LEMMA SameTree ==
  ASSUME Inv, UNCHANGED backup, tree' = tree, Files \cap starved' = Files \cap starved
  PROVE  ProtectedWhole'
BY SameArchive DEF Inv, InTree, ProtectedWhole, Whole

\* A run begins at the first entry.
LEMMA StartStep ==
  ASSUME Inv, Start, UNCHANGED backup
  PROVE  InTree'
<1>1. /\ pc' \in {"entry", "failed"} /\ pos' = 1 /\ cur' = Nothing
      /\ left' = left /\ tree' = tree /\ starved' = starved \ Dirs
  BY DEF Start
<1>2. RecoverTypes' /\ AtEntry'
  BY <1>1 DEF Inv, InTree, RecoverTypes, AtEntry, Running
<1>3. \A i \in Heads' : ~(i < pos')
  BY <1>1, SameArchive, ArchiveIs DEF Inv, InArchive
<1>4. InContent' /\ AtEnd' /\ Lost'
  BY <1>1 DEF InContent, AtEnd, Lost
<1>5. Kept' /\ DirsMade'
  BY <1>3 DEF Kept, DirsMade, Settled, Reached
<1>6. Files \cap starved' = Files \cap starved
  BY <1>1, Constants
<1>7. QED BY <1>1, <1>2, <1>4, <1>5, <1>6, SameTree DEF InTree

\* A run that is stopped leaves what it has made.
LEMMA CrashStep ==
  ASSUME Inv, Crash, UNCHANGED backup
  PROVE  InTree'
<1>1. /\ pc' = "off" /\ pos' = pos /\ cur' = cur /\ left' = left /\ tree' = tree
      /\ starved' = starved
  BY DEF Crash
<1>2. RecoverTypes' /\ InContent' /\ AtEntry' /\ AtEnd' /\ Lost' /\ Kept' /\ DirsMade'
  BY <1>1 DEF Inv, InTree, RecoverTypes, InContent, AtEntry, AtEnd, Lost, Kept, DirsMade, Running
<1>3. QED BY <1>1, <1>2, SameTree DEF InTree

\* The entry that is met next is no later one of a file met before.
LEMMA SettledBefore ==
  ASSUME Inv, UNCHANGED backup, pos <= Len(archive), pos' = pos + 1,
         NEW i \in Heads, i # pos, Settled(i)', archive[i].node # cur
  PROVE  Settled(i)
<1>1. archive' = archive /\ Heads' = Heads /\ \A j : Matches(j)' <=> Matches(j)
  BY SameArchive
<1>2. i \in Nat /\ pos \in Nat /\ Heads \in SUBSET Nat
  BY ArchiveIs DEF Inv, InArchive, InTree, RecoverTypes
<1>3. i < pos /\ archive[i].node \in Files
  BY <1>1, <1>2 DEF Settled
<1>4. \A j \in Heads : j <= i => Matches(j)
  BY <1>1 DEF Settled
<1>5. ~\E k \in Heads : k > i /\ k < pos /\ archive[k].node = archive[i].node
  BY <1>1, <1>2 DEF Settled
<1>6. QED BY <1>3, <1>4, <1>5 DEF Settled

\* Where the content of a file ends another begins, if it is as long as it should be.
LEMMA NextIsHead ==
  ASSUME Inv, pc = "entry", pos <= Len(archive), ~archive[pos].head
  PROVE  \E i \in Heads : i < pos /\ ~Matches(i)
<1>1. /\ Len(archive) \in Nat /\ DOMAIN archive = 1..Len(archive) /\ pos \in 1..Len(archive)
      /\ \A i \in Heads : archive[i].head /\ i \in 1..Len(archive)
  BY ArchiveIs DEF Inv, InArchive, InTree, RecoverTypes, Heads
<1>2. pos > 1 /\ (archive[pos - 1].head => archive[pos - 1].node \in Files)
  BY <1>1 DEF Inv, InArchive, BytesBehindHeader
<1>3. PICK h \in Heads : /\ archive[h].node \in Files /\ h < pos
                         /\ Matches(h) => pos = h + 1 + archive[h].size
  BY <1>1, <1>2, Constants DEF Inv, InTree, AtEntry
<1>4. SUFFICES ASSUME Matches(h) PROVE FALSE
  BY <1>3
<1>5. archive[h].size \in Nat
  BY <1>1, ArchiveIs DEF Inv, InArchive
<1>6. h + archive[h].size = Len(archive) \/ archive[h + archive[h].size + 1].head
  BY <1>3, <1>4 DEF Matches
<1>7. h + archive[h].size + 1 = pos
  BY <1>1, <1>3, <1>4, <1>5
<1>8. h + archive[h].size # Len(archive)
  BY <1>1, <1>5, <1>7
<1>9. QED BY <1>1, <1>6, <1>7, <1>8

\* The end of the archive, a byte where a header should be, or a header cut off
LEMMA EntryStops ==
  ASSUME Inv, UNCHANGED backup, pc = "entry", tree' = tree, starved' = starved, cur' = cur,
         left' = left,
         \/ pos > Len(archive) /\ pc' = "done" /\ pos' = pos
         \/ /\ pos <= Len(archive) /\ pos' = pos + 1
            /\ \/ ~archive[pos].head /\ pc' = "lost"
               \/ archive[pos].node = Nothing /\ pc' \in {"done", "failed"}
  PROVE  InTree'
<1>1. /\ archive' = archive /\ Heads' = Heads /\ (superuser' <=> superuser)
      /\ Reached' = Reached /\ \A j : Matches(j)' <=> Matches(j)
  BY SameArchive
<1>2. /\ cur = Nothing /\ pos \in Nat \ {0} /\ Len(archive) \in Nat
      /\ DOMAIN archive = 1..Len(archive) /\ Heads \in SUBSET (1..Len(archive))
      /\ \A i \in DOMAIN archive : i \in Heads <=> archive[i].head
  BY ArchiveIs DEF Inv, InArchive, InTree, AtEntry, RecoverTypes, Heads
<1>3. RecoverTypes' /\ InContent' /\ AtEntry'
  BY <1>2 DEF Inv, InTree, RecoverTypes, InContent, AtEntry, Running
<1>4. pos <= Len(archive) /\ archive[pos].node = Nothing => pos \in Heads
  <2>1. pos <= Len(archive) => pos \in DOMAIN archive
    BY <1>2
  <2>2. pos <= Len(archive) /\ ~archive[pos].head => archive[pos].node \in Files
    BY <2>1 DEF Inv, InArchive, BytesBehindHeader
  <2>3. QED BY <1>2, <2>1, <2>2, Constants
<1>5. AtEnd'
  <2>1. pos' = pos + 1 => pos' - 1 = pos
    BY <1>2
  <2>2. pos <= Len(archive) => ~(pos > Len(archive))
    BY <1>2
  <2>3. QED BY <1>1, <1>2, <1>4, <2>1, <2>2 DEF AtEnd
<1>6. Lost'
  <2> SUFFICES ASSUME pc' = "lost" PROVE \E i \in Heads : i < pos' /\ ~Matches(i)
    BY <1>1 DEF Lost
  <2>1. PICK i \in Heads : i < pos /\ ~Matches(i)
    BY NextIsHead
  <2>2. i < pos'
    BY <1>2, <2>1
  <2>3. QED BY <2>1, <2>2
<1>7. ASSUME NEW i \in Heads, Settled(i)' PROVE Settled(i)
  <2>1. CASE pos' = pos
    BY <1>1, <1>7, <2>1 DEF Settled
  <2>2. CASE pos <= Len(archive) /\ pos' = pos + 1
    <3>1. archive[i].head /\ archive[i].node \in Files
      BY <1>1, <1>2, <1>7 DEF Settled
    <3>2. i # pos
      BY <2>2, <3>1, Constants, <1>2
    <3>3. archive[i].node # cur
      BY <1>2, <3>1, Constants
    <3>4. QED BY <1>7, <2>2, <3>2, <3>3, SettledBefore
  <2>3. QED BY <2>1, <2>2
<1>8. Kept'
  BY <1>1, <1>7 DEF Inv, InTree, Kept, Running, Whole
<1>9. DirsMade'
  <2> SUFFICES ASSUME superuser, pc' = "done", NEW i \in Reached, i < pos'
               PROVE  tree[archive[i].node] # Nothing \/ archive[i].node \in Refused
    <3>1. Refused \in SUBSET Refused'
      BY RefusedGrows
    <3>2. QED BY <1>1, <3>1 DEF DirsMade, Running
  <2>1. i \in Heads /\ archive[i].node \in Dirs
    BY ReachedIs
  <2>2. i < pos
    <3>1. i # pos \/ pos > Len(archive)
      BY <1>2, <2>1, Constants
    <3>2. i \in 1..Len(archive)
      BY <1>2, <2>1
    <3>3. QED BY <3>1, <3>2, <1>2
  <2>3. QED BY <2>2 DEF Inv, InTree, DirsMade, Running
<1>10. QED BY <1>3, <1>5, <1>6, <1>8, <1>9, SameTree DEF InTree

\* Entry pos is a header, and with it one more has been met.
LEMMA EntryMet ==
  ASSUME Inv, UNCHANGED backup, pc = "entry", pos <= Len(archive), archive[pos].head,
         pos' = pos + 1
  PROVE  /\ archive' = archive /\ Heads' = Heads /\ (superuser' <=> superuser)
         /\ (Sound' <=> Sound) /\ Reached' = Reached /\ \A j : Matches(j)' <=> Matches(j)
         /\ cur = Nothing /\ pos \in Nat \ {0} /\ pos' \in Nat \ {0} /\ Len(archive) \in Nat
         /\ Heads \in SUBSET (1..Len(archive)) /\ pos \in Heads /\ pos' - 1 = pos
         /\ \A i \in Heads : i < pos' => i < pos \/ i = pos
         /\ archive[pos].size \in Nat
         /\ tree \in Tree
<1>1. /\ archive' = archive /\ Heads' = Heads /\ (superuser' <=> superuser)
      /\ (Sound' <=> Sound) /\ Reached' = Reached /\ \A j : Matches(j)' <=> Matches(j)
  BY SameArchive
<1>2. /\ cur = Nothing /\ pos \in Nat \ {0} /\ tree \in Tree
  BY DEF Inv, InTree, AtEntry, RecoverTypes, Tree
<1>3. /\ Len(archive) \in Nat /\ DOMAIN archive = 1..Len(archive)
      /\ Heads \in SUBSET (1..Len(archive))
  BY ArchiveIs DEF Inv, InArchive
<1>4. pos \in 1..Len(archive)
  BY <1>2, <1>3
<1>5. pos \in Heads
  BY <1>3, <1>4 DEF Heads
<1>6. archive[pos].size \in Nat
  BY <1>4, ArchiveIs DEF Inv, InArchive
<1>7. \A i \in Heads : i < pos' => i < pos \/ i = pos
  BY <1>2, <1>3
<1>8. QED BY <1>1, <1>2, <1>3, <1>5, <1>6, <1>7

\* A directory is made if it was reached and it is the superuser who recovers, and the
\* disk takes it.
LEMMA EntryDir ==
  ASSUME Inv, UNCHANGED backup, pc = "entry", pos <= Len(archive), archive[pos].head,
         archive[pos].node \in Dirs, RecoverDir(archive[pos].node), pos' = pos + 1
  PROVE  InTree'
<1> DEFINE n == archive[pos].node
<1>1. /\ pc' = pc /\ cur' = cur /\ left' = left
      /\ \/ tree' = Mkdir(tree, n, n \in Locked) /\ starved' = starved
         \/ tree' = tree /\ starved' = starved \cup {n}
  BY DEF RecoverDir
<1>2. /\ archive' = archive /\ Heads' = Heads /\ (superuser' <=> superuser)
      /\ (Sound' <=> Sound) /\ Reached' = Reached /\ \A j : Matches(j)' <=> Matches(j)
      /\ cur = Nothing /\ pos \in Nat \ {0} /\ pos' \in Nat \ {0} /\ Len(archive) \in Nat
      /\ Heads \in SUBSET (1..Len(archive)) /\ pos \in Heads /\ pos' - 1 = pos
      /\ \A i \in Heads : i < pos' => i < pos \/ i = pos
      /\ tree \in Tree
  BY EntryMet
<1>3. /\ tree' \in Tree
      /\ \A m \in Nodes : tree[m] # Nothing \/ m \in Files => tree'[m] = tree[m]
      /\ superuser /\ (Parent[n] = Cwd \/ tree[Parent[n]] # Nothing)
           => tree'[n] # Nothing \/ n \in starved'
      /\ starved \in SUBSET starved' /\ starved' \in SUBSET (starved \cup {n})
  <2> DEFINE l == n \in Locked
  <2>1. n \in Dirs \cup {Cwd} /\ n # Cwd /\ l \in BOOLEAN
    BY Constants
  <2>2. \/ tree' = Mkdir(tree, n, l) /\ starved' = starved
        \/ tree' = tree /\ starved' = starved \cup {n}
    BY <1>1
  <2> HIDE DEF n, l
  <2>3. CASE tree' = Mkdir(tree, n, l) /\ starved' = starved
    BY <1>2, <2>1, <2>3, MkdirMakes
  <2>4. CASE tree' = tree /\ starved' = starved \cup {n}
    BY <1>2, <2>4
  <2>5. QED BY <2>2, <2>3, <2>4
<1>10. n \in Dirs /\ n \in Nodes /\ n \notin Files
  BY Constants
<1> HIDE DEF n
<1>4. RecoverTypes' /\ InContent' /\ AtEnd' /\ Lost'
  BY <1>1, <1>2, <1>3, <1>10 DEF Inv, InTree, RecoverTypes, InContent, AtEnd, Lost, Tree
<1>5. AtEntry'
  BY <1>1, <1>2 DEF AtEntry, n
<1>6. Kept'
  <2> SUFFICES ASSUME NEW i \in Heads, Settled(i)'
               PROVE  tree'[archive[i].node] # Nothing /\ Whole(archive[i].node, archive[i].size)'
    BY <1>2 DEF Kept
  <2>1. archive[i].node \in Files
    BY <1>2 DEF Settled
  <2>2. i # pos /\ archive[i].node # cur /\ archive[i].node \in Nodes
    BY <1>2, <2>1, Constants
  <2>3. Settled(i)
    BY <2>2, SettledBefore
  <2>4. tree[archive[i].node] # Nothing /\ Whole(archive[i].node, archive[i].size)
    BY <2>3 DEF Inv, InTree, Kept, Running
  <2>5. archive[i].node \in starved' <=> archive[i].node \in starved
    BY <1>3, <1>10, <2>1
  <2>6. QED BY <1>2, <1>3, <2>2, <2>4, <2>5 DEF Whole
<1>7. ProtectedWhole'
  <2> SUFFICES ASSUME Sound, ~superuser, NEW m \in Files, tree'[m] # Nothing, tree'[m].locked
               PROVE  \E k \in Heads : archive[k].node = m /\ Whole(m, archive[k].size)'
    BY <1>2 DEF ProtectedWhole
  <2>1. tree'[m] = tree[m] /\ (m \in starved' <=> m \in starved)
    BY <1>3, <1>10, Constants
  <2>2. QED BY <1>2, <2>1 DEF Inv, InTree, ProtectedWhole, Whole
<1>8. DirsMade'
  <2>1. Refused \in SUBSET Refused'
    BY <1>3, RefusedGrows
  <2> SUFFICES ASSUME superuser, NEW i \in Reached, i < pos'
               PROVE  tree'[archive[i].node] # Nothing \/ archive[i].node \in Refused'
    BY <1>2 DEF DirsMade
  <2>2. /\ i \in Heads /\ archive[i].node \in Dirs
        /\ \/ Parent[archive[i].node] = Cwd
           \/ \E h \in Reached : h < i /\ archive[h].node = Parent[archive[i].node]
    BY ReachedIs
  <2>3. \A h \in Reached : h < pos => tree[archive[h].node] # Nothing \/ archive[h].node \in Refused
    BY DEF Inv, InTree, DirsMade, Running
  <2>4. CASE i < pos
    BY <1>3, <2>1, <2>2, <2>3, <2>4, Constants
  <2>5. CASE i = pos
    <3>1. archive[i].node = n
      BY <2>5 DEF n
    <3>2. Parent[n] = Cwd \/ tree[Parent[n]] # Nothing \/ Parent[n] \in Refused
      BY <2>2, <2>3, <2>5, <3>1
    <3>3. n \in starved' => n \in Refused'
      BY <1>10 DEF Refused
    <3>4. Parent[n] \in Refused => n \in Refused'
      BY <1>10, <2>1, RefusedIs
    <3>5. QED BY <1>3, <3>1, <3>2, <3>3, <3>4
  <2>6. QED BY <1>2, <2>2, <2>4, <2>5
<1>9. QED BY <1>4, <1>5, <1>6, <1>7, <1>8 DEF InTree

\* A file is made anew, and is not protected unless it is the superuser who recovers.
LEMMA EntryFile ==
  ASSUME Inv, UNCHANGED backup, pc = "entry", pos <= Len(archive), archive[pos].head,
         archive[pos].node \in Files, RecoverFile(archive[pos].node, archive[pos].size),
         pos' = pos + 1
  PROVE  InTree'
<1> DEFINE n == archive[pos].node
<1>1. n \in Nodes /\ n \notin Dirs /\ n # Nothing
  BY Constants
<1>2. /\ archive' = archive /\ Heads' = Heads /\ (superuser' <=> superuser)
      /\ (Sound' <=> Sound) /\ Reached' = Reached /\ \A j : Matches(j)' <=> Matches(j)
      /\ cur = Nothing /\ pos \in Nat \ {0} /\ pos' \in Nat \ {0} /\ Len(archive) \in Nat
      /\ Heads \in SUBSET (1..Len(archive)) /\ pos \in Heads /\ pos' - 1 = pos
      /\ \A i \in Heads : i < pos' => i < pos \/ i = pos
      /\ archive[pos].size \in Nat
      /\ tree \in Tree
  BY EntryMet
<1>3. /\ pc' \in {"content", "failed"} /\ cur' = n /\ left' = FileEnd(archive[pos].size)
      /\ tree' \in Tree
      /\ \A m \in Nodes \ {n} : tree[m] # Nothing \/ m \in Files => tree'[m] = tree[m]
      /\ pc' = "failed" => tree'[n] = tree[n] /\ starved' = starved
      /\ pc' = "content" =>
           /\ tree'[n] # Nothing /\ tree'[n].bytes = 0 /\ (superuser \/ ~tree'[n].locked)
           /\ starved' = starved \ {n}
  <2>14. PICK p \in Paths(n) : \E t \in {Mkdir(tree, p, FALSE), tree} :
          LET d == Parent[n]
              may == /\ d = Cwd \/ t[d] # Nothing
                     /\ \/ superuser
                        \/ t[n] # Nothing /\ ~t[n].locked
                        \/ t[n] = Nothing /\ (d = Cwd \/ ~t[d].locked)
          IN  \E made \in IF ~may THEN {FALSE} ELSE IF t[n] = Nothing THEN BOOLEAN ELSE {TRUE} :
                /\ tree' = IF made THEN Creat(t, n) ELSE t
                /\ pc' = IF made THEN "content" ELSE "failed"
                /\ starved' = IF made THEN starved \ {n} ELSE starved
                /\ cur' = n /\ left' = FileEnd(archive[pos].size)
    BY DEF RecoverFile
  <2>1. PICK t \in {Mkdir(tree, p, FALSE), tree} :
          LET d == Parent[n]
              may == /\ d = Cwd \/ t[d] # Nothing
                     /\ \/ superuser
                        \/ t[n] # Nothing /\ ~t[n].locked
                        \/ t[n] = Nothing /\ (d = Cwd \/ ~t[d].locked)
          IN  \E made \in IF ~may THEN {FALSE} ELSE IF t[n] = Nothing THEN BOOLEAN ELSE {TRUE} :
                /\ tree' = IF made THEN Creat(t, n) ELSE t
                /\ pc' = IF made THEN "content" ELSE "failed"
                /\ starved' = IF made THEN starved \ {n} ELSE starved
                /\ cur' = n /\ left' = FileEnd(archive[pos].size)
    BY <2>14
  <2>2. p \in Dirs \cup {Cwd}
    BY <1>1, <2>14, Constants DEF Paths
  <2>3. /\ t \in Tree
        /\ \A m \in Nodes : tree[m] # Nothing \/ m \in Files => t[m] = tree[m]
    <3>1. /\ Mkdir(tree, p, FALSE) \in Tree
          /\ \A m \in Nodes : tree[m] # Nothing \/ m \in Files => Mkdir(tree, p, FALSE)[m] = tree[m]
      BY <1>2, <2>2, MkdirMakes
    <3>2. QED BY <1>2, <3>1
  <2> HIDE DEF n
  <2>4. \/ tree' = t /\ pc' = "failed" /\ starved' = starved
        \/ /\ tree' = Creat(t, n) /\ pc' = "content" /\ starved' = starved \ {n}
           /\ superuser \/ (t[n] # Nothing /\ ~t[n].locked) \/ t[n] = Nothing
    BY <2>1
  <2>5. cur' = n /\ left' = FileEnd(archive[pos].size)
    BY <2>1
  <2> DEFINE l == t[n] # Nothing /\ t[n].locked
  <2> DEFINE r == [bytes |-> 0, locked |-> l]
  <2>6. Creat(t, n) = [t EXCEPT ![n] = r]
    BY DEF Creat
  <2>7. l \in BOOLEAN
    OBVIOUS
  <2>8. r \in [bytes : Nat, locked : BOOLEAN] /\ r # Nothing /\ r.bytes = 0 /\ (r.locked <=> l)
    <3> HIDE DEF l
    <3>1. r \in [bytes : Nat, locked : BOOLEAN] /\ r.bytes = 0 /\ r.locked = l
      BY <2>7
    <3>2. QED BY <3>1, Constants
  <2>9. n \in Files
    BY DEF n
  <2> HIDE DEF r
  <2>10. /\ [t EXCEPT ![n] = r] \in Tree /\ [t EXCEPT ![n] = r][n] = r
         /\ \A m \in Nodes \ {n} : [t EXCEPT ![n] = r][m] = t[m]
    BY <1>1, <2>3, <2>8 DEF Tree, n
  <2>11. CASE tree' = t /\ pc' = "failed" /\ starved' = starved
    BY <1>1, <2>3, <2>5, <2>9, <2>11 DEF n
  <2>12. CASE /\ tree' = Creat(t, n) /\ pc' = "content" /\ starved' = starved \ {n}
              /\ superuser \/ (t[n] # Nothing /\ ~t[n].locked) \/ t[n] = Nothing
    BY <1>1, <2>3, <2>5, <2>6, <2>8, <2>10, <2>12
  <2>13. QED BY <2>4, <2>11, <2>12
<1> HIDE DEF n
<1>4. RecoverTypes'
  <2>1. n \in Files /\ FileEnd(archive[pos].size) \in Int
    BY <1>2, FileEndInt DEF n
  <2>2. starved' \in SUBSET Nodes
    BY <1>3 DEF Inv, InTree, RecoverTypes
  <2>3. QED BY <1>2, <1>3, <2>1, <2>2 DEF RecoverTypes, Running, Tree
<1>5. AtEntry' /\ AtEnd' /\ Lost'
  BY <1>3 DEF AtEntry, AtEnd, Lost
<1>6. InContent'
  <2> SUFFICES ASSUME pc' = "content" PROVE InContent'
    BY DEF InContent
  <2>1. /\ pos' = pos + 1 + 0 /\ pos' <= Len(archive) + 1
        /\ \A k \in pos + 1..pos' - 1 : ~archive[k].head
        /\ left' = FileEnd(archive[pos].size) - 0
        /\ ~(0 > 0)
    <3>1. FileEnd(archive[pos].size) \in Int
      BY <1>2, <1>3, FileEndInt
    <3>2. pos' <= Len(archive) + 1 /\ pos + 1..pos' - 1 = {}
      BY <1>2
    <3>3. QED BY <1>2, <1>3, <3>1, <3>2
  <2>2. cur' \in Files /\ archive[pos].node = cur'
    BY <1>3 DEF n
  <2>3. Whole(cur, 0)'
    <3>1. tree'[cur'].bytes = 0 /\ cur' \notin starved'
      BY <1>3
    <3>2. QED BY <3>1 DEF Whole
  <2>4. QED BY <1>2, <1>3, <2>1, <2>2, <2>3 DEF InContent, Whole
<1>7. Kept'
  <2> SUFFICES ASSUME NEW i \in Heads, Settled(i)'
               PROVE  tree'[archive[i].node] # Nothing /\ Whole(archive[i].node, archive[i].size)'
    BY <1>2 DEF Kept
  <2>1. archive[i].node \in Files /\ archive[i].node # n
    BY <1>2, <1>3 DEF Settled
  <2>2. i # pos /\ archive[i].node # cur /\ archive[i].node \in Nodes
    BY <1>2, <2>1, Constants DEF n
  <2>3. Settled(i)
    BY <2>2, SettledBefore
  <2>4. tree[archive[i].node] # Nothing /\ Whole(archive[i].node, archive[i].size)
    BY <2>3 DEF Inv, InTree, Kept, Running
  <2>5. archive[i].node \in starved' <=> archive[i].node \in starved
    BY <1>3, <2>1
  <2>6. QED BY <1>2, <1>3, <2>1, <2>2, <2>4, <2>5 DEF Whole
<1>8. ProtectedWhole'
  <2> SUFFICES ASSUME Sound, ~superuser, NEW m \in Files, tree'[m] # Nothing, tree'[m].locked
               PROVE  \E k \in Heads : archive[k].node = m /\ Whole(m, archive[k].size)'
    BY <1>2 DEF ProtectedWhole
  <2>1. tree'[m] = tree[m] /\ (m \in starved' <=> m \in starved)
    BY <1>3, Constants
  <2>2. QED BY <1>2, <2>1 DEF Inv, InTree, ProtectedWhole, Whole
<1>9. DirsMade'
  <2> SUFFICES ASSUME superuser, NEW i \in Reached, i < pos'
               PROVE  tree'[archive[i].node] # Nothing \/ archive[i].node \in Refused
    <3>1. Dirs \cap starved \in SUBSET starved'
      BY <1>1, <1>3
    <3>2. Refused \in SUBSET Refused'
      BY <3>1, RefusedGrows
    <3>3. QED BY <1>2, <3>2 DEF DirsMade
  <2>1. i \in Heads /\ archive[i].node \in Dirs
    BY ReachedIs
  <2>2. archive[i].node # n /\ archive[i].node \in Nodes
    BY <1>1, <2>1, Constants DEF n
  <2>3. i < pos
    BY <1>2, <2>1, <2>2 DEF n
  <2>4. tree[archive[i].node] # Nothing \/ archive[i].node \in Refused
    BY <2>3 DEF Inv, InTree, DirsMade, Running
  <2>5. QED BY <1>3, <2>2, <2>4
<1>10. QED BY <1>4, <1>5, <1>6, <1>7, <1>8, <1>9 DEF InTree

\* One header, whatever it is
LEMMA EntryStep ==
  ASSUME Inv, Entry, UNCHANGED backup
  PROVE  InTree'
<1>1. CASE pos > Len(archive)
  BY <1>1, EntryStops DEF Entry
<1>2. CASE ~(pos > Len(archive))
  <2>1. pos <= Len(archive) /\ pos \in DOMAIN archive
    BY <1>2, ArchiveIs DEF Inv, InArchive, InTree, RecoverTypes
  <2>2. pc = "entry" /\ pos' = pos + 1
    BY <1>2 DEF Entry
  <2>3. \/ /\ ~archive[pos].head \/ archive[pos].node = Nothing
           /\ tree' = tree /\ starved' = starved /\ cur' = cur /\ left' = left
           /\ \/ ~archive[pos].head /\ pc' = "lost"
              \/ archive[pos].node = Nothing /\ pc' \in {"done", "failed"}
        \/ archive[pos].head /\ archive[pos].node \in Dirs /\ RecoverDir(archive[pos].node)
        \/ archive[pos].head /\ archive[pos].node \in Files
           /\ RecoverFile(archive[pos].node, archive[pos].size)
    BY <1>2 DEF Entry
  <2>4. QED BY <2>1, <2>2, <2>3, EntryStops, EntryDir, EntryFile
<1>3. QED BY <1>1, <1>2

\* The header of the file that is being written, and how far its content has been read
LEMMA ContentIs ==
  ASSUME Inv, pc = "content"
  PROVE  /\ cur \in Files /\ cur \in Nodes /\ tree \in Tree
         /\ tree[cur] \in [bytes : Nat, locked : BOOLEAN] /\ tree[cur] # Nothing
         /\ superuser \/ ~tree[cur].locked
         /\ pos \in Nat \ {0} /\ left \in Int /\ Len(archive) \in Nat
         /\ Heads \in SUBSET (1..Len(archive))
         /\ \A i \in 1..Len(archive) : i \in Heads <=> archive[i].head
         /\ \E h \in Heads, k \in Nat :
              /\ archive[h].node = cur /\ archive[h].size \in Nat /\ Whole(cur, k)
              /\ pos = h + 1 + k /\ pos <= Len(archive) + 1
              /\ \A j \in h + 1..pos - 1 : ~archive[j].head
              /\ left = FileEnd(archive[h].size) - k
              /\ k > 0 => left >= 0
<1>1. /\ cur \in Files /\ tree[cur] # Nothing /\ (superuser \/ ~tree[cur].locked)
      /\ \E h \in Heads, k \in Nat :
           /\ archive[h].node = cur /\ Whole(cur, k)
           /\ pos = h + 1 + k /\ pos <= Len(archive) + 1
           /\ \A j \in h + 1..pos - 1 : ~archive[j].head
           /\ left = FileEnd(archive[h].size) - k
           /\ k > 0 => left >= 0
  BY DEF Inv, InTree, InContent
<1>2. pos \in Nat \ {0} /\ left \in Int /\ tree \in Tree
  BY DEF Inv, InTree, RecoverTypes, Tree
<1>3. cur \in Nodes /\ tree[cur] \in [bytes : Nat, locked : BOOLEAN]
  BY <1>1, <1>2, Constants DEF Tree
<1>4. /\ Len(archive) \in Nat /\ DOMAIN archive = 1..Len(archive)
      /\ Heads \in SUBSET (1..Len(archive))
      /\ \A h \in Heads : archive[h].size \in Nat
  BY ArchiveIs DEF Inv, InArchive
<1>5. \A i \in 1..Len(archive) : i \in Heads <=> archive[i].head
  BY <1>4 DEF Heads
<1>6. QED BY <1>1, <1>2, <1>3, <1>4, <1>5

\* One buffer of content, or a header where it should be
LEMMA ContentStep ==
  ASSUME Inv, Content, UNCHANGED backup
  PROVE  InTree'
<1>1. /\ pc = "content" /\ left > 0 /\ pos <= Len(archive)
      /\ pos' = pos + 1 /\ left' = left - 1 /\ cur' = cur
      /\ \/ archive[pos].head /\ pc' = "lost" /\ tree' = tree /\ starved' = starved
         \/ /\ ~archive[pos].head /\ pc' = pc
            /\ tree' = [tree EXCEPT ![cur].bytes = @ + 1] /\ starved' = starved
         \/ /\ ~archive[pos].head /\ pc' = pc
            /\ tree' = tree /\ starved' = starved \cup {cur}
  BY DEF Content, More
<1> DEFINE B == tree[cur].bytes
<1>2. /\ archive' = archive /\ Heads' = Heads /\ (superuser' <=> superuser)
      /\ (Sound' <=> Sound) /\ Reached' = Reached /\ \A j : Matches(j)' <=> Matches(j)
  BY SameArchive
<1>3. /\ cur \in Files /\ cur \in Nodes /\ tree \in Tree
      /\ tree[cur] \in [bytes : Nat, locked : BOOLEAN] /\ tree[cur] # Nothing
      /\ superuser \/ ~tree[cur].locked
      /\ pos \in Nat \ {0} /\ left \in Int /\ Len(archive) \in Nat
      /\ Heads \in SUBSET (1..Len(archive))
      /\ \A i \in 1..Len(archive) : i \in Heads <=> archive[i].head
  BY <1>1, ContentIs
<1>4. PICK h \in Heads, K \in Nat :
        /\ archive[h].node = cur /\ archive[h].size \in Nat
        /\ pos = h + 1 + K /\ \A k \in h + 1..pos - 1 : ~archive[k].head
        /\ left = FileEnd(archive[h].size) - K
        /\ Whole(cur, K)
  BY <1>1, ContentIs
<1>5. B \in Nat /\ K \in Nat
  BY <1>3
<1> HIDE DEF B
<1>6. h \in Nat /\ h < pos /\ FileEnd(archive[h].size) \in Int
  BY <1>3, <1>4, <1>5, FileEndInt
<1>7. /\ tree' \in Tree /\ \A m \in Nodes \ {cur} : tree'[m] = tree[m]
      /\ tree'[cur] # Nothing /\ (tree'[cur].locked <=> tree[cur].locked)
      /\ starved \in SUBSET starved' /\ starved' \in SUBSET (starved \cup {cur})
      /\ pc' = "content" =>
           \/ tree'[cur].bytes = B + 1 /\ starved' = starved
           \/ tree'[cur].bytes = B /\ cur \in starved'
  <2>1. CASE tree' = tree /\ starved' = starved /\ pc' = "lost"
    BY <1>3, <2>1
  <2>4. CASE tree' = tree /\ starved' = starved \cup {cur}
    BY <1>3, <2>4 DEF B
  <2>2. CASE tree' = [tree EXCEPT ![cur].bytes = @ + 1] /\ starved' = starved
    <3> DEFINE r == [tree[cur] EXCEPT !.bytes = B + 1]
    <3>1. tree' = [tree EXCEPT ![cur] = r]
      BY <2>2 DEF B
    <3>2. /\ r \in [bytes : Nat, locked : BOOLEAN] /\ r.bytes = B + 1
          /\ r.locked <=> tree[cur].locked
      BY <1>3, <1>5
    <3> HIDE DEF r
    <3>3. r # Nothing
      BY <3>2, Constants
    <3>4. /\ tree' \in Tree /\ tree'[cur] = r /\ \A m \in Nodes \ {cur} : tree'[m] = tree[m]
      BY <1>3, <3>1, <3>2 DEF Tree
    <3>5. QED BY <2>2, <3>2, <3>3, <3>4
  <2>3. QED BY <1>1, <2>1, <2>2, <2>4
<1>8. RecoverTypes'
  <2>1. pos' \in Nat \ {0} /\ left' \in Int
    BY <1>1, <1>3
  <2>2. pc' \in {"lost", "content"} /\ cur' \in Files
    BY <1>1, <1>3
  <2>3. starved' \in SUBSET Nodes
    BY <1>3, <1>7 DEF Inv, InTree, RecoverTypes
  <2>4. QED BY <1>7, <2>1, <2>2, <2>3 DEF RecoverTypes, Running, Tree
<1>9. AtEntry' /\ AtEnd'
  BY <1>1 DEF AtEntry, AtEnd
<1>10. InContent'
  <2> SUFFICES ASSUME pc' = "content" PROVE InContent'
    BY DEF InContent
  <2>1. ~archive[pos].head
    BY <1>1
  <2>2. left' >= 0 /\ \A b \in Nat : pos = h + 1 + b => pos' = h + 1 + (b + 1)
    BY <1>1, <1>3, <1>6
  <2>3. pos' <= Len(archive) + 1
    BY <1>1, <1>3
  <2>4. ASSUME NEW F \in Int, left = F - K PROVE left' = F - (K + 1)
    BY <1>1, <1>5, <2>4
  <2>5. left' = FileEnd(archive[h].size) - (K + 1) /\ pos' = h + 1 + (K + 1)
    BY <1>4, <1>5, <1>6, <2>2, <2>4
  <2>6. ASSUME NEW k \in h + 1..pos' - 1 PROVE ~archive[k].head
    <3>1. k \in h + 1..pos - 1 \/ k = pos
      BY <1>1, <1>3, <1>6
    <3>2. QED BY <3>1, <2>1, <1>4
  <2>11. Whole(cur, K + 1)'
    <3>1. B <= K /\ (B < K <=> cur \in starved)
      BY <1>4 DEF Whole, B
    <3>2. \/ tree'[cur].bytes = B + 1 /\ (cur \in starved' <=> cur \in starved)
          \/ tree'[cur].bytes = B /\ cur \in starved'
      BY <1>7
    <3>3. tree'[cur].bytes <= K + 1 /\ (tree'[cur].bytes < K + 1 <=> cur \in starved')
      BY <1>5, <3>1, <3>2
    <3>4. QED BY <1>1, <3>3 DEF Whole
  <2>8. K + 1 \in Nat /\ archive[h].node = cur' /\ cur' = cur /\ h \in Heads'
    BY <1>1, <1>2, <1>4, <1>5
  <2>9. cur' \in Files /\ tree'[cur'] # Nothing /\ (superuser \/ ~tree'[cur'].locked)
    BY <1>1, <1>3, <1>7
  <2>10. \A j \in h + 1..pos' - 1 : ~archive'[j].head
    BY <1>2, <2>6
  <2>12. QED BY <1>2, <2>2, <2>3, <2>5, <2>8, <2>9, <2>10, <2>11 DEF InContent, Whole
<1>11. archive[pos].head => ~Matches(h)
  <2> SUFFICES ASSUME archive[pos].head, Matches(h) PROVE FALSE
    OBVIOUS
  <2>1. /\ FileEnd(archive[h].size) = archive[h].size
        /\ \A k \in h + 1..h + archive[h].size : ~archive[k].head
    BY <1>3, <1>4 DEF Matches
  <2>5. left > 0 /\ h \in Nat
    BY <1>1, <1>6
  <2>2. ASSUME NEW s \in Nat, left = s - K, pos = h + 1 + K PROVE pos \in h + 1..h + s
    BY <1>5, <2>2, <2>5
  <2>3. pos \in h + 1..h + archive[h].size
    BY <2>1, <2>2, <1>4
  <2>4. QED BY <2>1, <2>3
<1>12. Lost'
  <2>1. h < pos'
    BY <1>1, <1>3, <1>6
  <2>2. pc' = "lost" => archive[pos].head
    BY <1>1
  <2>3. QED BY <1>2, <1>11, <2>1, <2>2 DEF Lost
<1>13. ASSUME NEW i \in Heads, Settled(i)'
       PROVE  i # pos /\ archive[i].node # cur /\ Settled(i)
  <2>1. archive[i].node \in Files /\ archive[i].node # cur
        /\ \A j \in Heads : j <= i => Matches(j)
    BY <1>1, <1>2, <1>13 DEF Settled
  <2>2. i # pos
    <3>1. i = pos => h <= i /\ archive[pos].head
      BY <1>3, <1>6
    <3>2. QED BY <3>1, <2>1, <1>11
  <2>3. QED BY <2>1, <2>2, <1>1, <1>13, SettledBefore
<1>14. Kept'
  <2> SUFFICES ASSUME NEW i \in Heads, Settled(i)'
               PROVE  tree'[archive[i].node] # Nothing /\ Whole(archive[i].node, archive[i].size)'
    BY <1>2 DEF Kept
  <2>1. Settled(i) /\ archive[i].node # cur
    BY <1>13
  <2>2. archive[i].node \in Nodes
    BY <2>1, Constants DEF Settled
  <2>3. tree[archive[i].node] # Nothing /\ Whole(archive[i].node, archive[i].size)
    BY <1>1, <2>1 DEF Inv, InTree, Kept, Running
  <2>4. archive[i].node \in starved' <=> archive[i].node \in starved
    BY <1>7, <2>1
  <2>5. QED BY <1>2, <1>7, <2>1, <2>2, <2>3, <2>4 DEF Whole
<1>15. ProtectedWhole'
  <2> SUFFICES ASSUME Sound, ~superuser, NEW m \in Files, tree'[m] # Nothing, tree'[m].locked
               PROVE  \E k \in Heads : archive[k].node = m /\ Whole(m, archive[k].size)'
    BY <1>2 DEF ProtectedWhole
  <2>1. m # cur /\ m \in Nodes
    BY <1>3, <1>7, Constants
  <2>2. tree'[m] = tree[m] /\ (m \in starved' <=> m \in starved)
    BY <1>7, <2>1
  <2>3. QED BY <1>2, <2>2 DEF Inv, InTree, ProtectedWhole, Whole
<1>16. DirsMade'
  <2> SUFFICES ASSUME superuser, pc' = "content", NEW i \in Reached, i < pos'
               PROVE  tree'[archive[i].node] # Nothing \/ archive[i].node \in Refused
    <3>1. Refused \in SUBSET Refused'
      BY <1>7, RefusedGrows
    <3>2. QED BY <1>1, <1>2, <3>1 DEF DirsMade
  <2>1. i \in Heads /\ archive[i].node \in Dirs
    BY ReachedIs
  <2>2. i # pos
    <3>1. archive[i].head /\ ~archive[pos].head
      BY <1>1, <1>3, <2>1
    <3>2. QED BY <3>1
  <2>3. i < pos
    BY <1>1, <1>3, <2>1, <2>2
  <2>4. tree[archive[i].node] # Nothing \/ archive[i].node \in Refused
    BY <1>1, <2>3 DEF Inv, InTree, DirsMade, Running
  <2>5. archive[i].node # cur /\ archive[i].node \in Nodes
    BY <1>3, <2>1, Constants
  <2>6. QED BY <1>7, <2>4, <2>5
<1>17. QED BY <1>8, <1>9, <1>10, <1>12, <1>14, <1>15, <1>16 DEF InTree

\* The file that is closed is as long as its header says, if its content is.
LEMMA CloseFileStep ==
  ASSUME Inv, CloseFile, UNCHANGED backup
  PROVE  InTree'
<1> DEFINE B == tree[cur].bytes
<1>1. /\ pc = "content" /\ (~(left > 0) \/ pos > Len(archive))
      /\ tree' = [tree EXCEPT ![cur].locked = cur \in Locked]
      /\ pc' = "entry" /\ cur' = Nothing /\ left' = 0 /\ pos' = pos /\ starved' = starved
  BY DEF CloseFile, More
<1>2. /\ archive' = archive /\ Heads' = Heads /\ (superuser' <=> superuser)
      /\ (Sound' <=> Sound) /\ Reached' = Reached /\ \A j : Matches(j)' <=> Matches(j)
  BY SameArchive
<1>3. /\ cur \in Files /\ cur \in Nodes /\ tree \in Tree
      /\ tree[cur] \in [bytes : Nat, locked : BOOLEAN] /\ tree[cur] # Nothing
      /\ pos \in Nat \ {0} /\ left \in Int /\ Len(archive) \in Nat
      /\ Heads \in SUBSET (1..Len(archive))
      /\ \A i \in 1..Len(archive) : i \in Heads <=> archive[i].head
  BY <1>1, ContentIs
<1>4. PICK h \in Heads, K \in Nat :
        /\ archive[h].node = cur /\ archive[h].size \in Nat
        /\ pos = h + 1 + K /\ \A k \in h + 1..pos - 1 : ~archive[k].head
        /\ left = FileEnd(archive[h].size) - K /\ (K > 0 => left >= 0)
        /\ Whole(cur, K)
  BY <1>1, ContentIs
<1>5. B \in Nat /\ K \in Nat
  BY <1>3
<1>6. /\ tree' \in Tree /\ \A m \in Nodes \ {cur} : tree'[m] = tree[m]
      /\ tree'[cur] # Nothing /\ tree'[cur].bytes = B
  <2> DEFINE l == cur \in Locked
  <2> DEFINE r == [tree[cur] EXCEPT !.locked = l]
  <2>1. tree' = [tree EXCEPT ![cur] = r] /\ l \in BOOLEAN
    BY <1>1
  <2> HIDE DEF l
  <2>2. r \in [bytes : Nat, locked : BOOLEAN] /\ r.bytes = B
    BY <1>3, <2>1
  <2> HIDE DEF r
  <2>3. r # Nothing
    BY <2>2, Constants
  <2>4. /\ tree' \in Tree /\ tree'[cur] = r /\ \A m \in Nodes \ {cur} : tree'[m] = tree[m]
    BY <1>3, <2>1, <2>2 DEF Tree
  <2>5. QED BY <2>2, <2>3, <2>4
<1>16. B <= K /\ (B < K <=> cur \in starved')
  BY <1>1, <1>4 DEF Whole
<1> HIDE DEF B
<1>7. h \in Nat /\ h < pos
  BY <1>3, <1>4, <1>5
<1>8. Matches(h) => K = archive[h].size
  <2> SUFFICES ASSUME Matches(h) PROVE K = archive[h].size
    OBVIOUS
  <2>1. FileEnd(archive[h].size) = archive[h].size /\ h + archive[h].size <= Len(archive)
    BY <1>3, <1>4 DEF Matches
  <2>2. ASSUME NEW s \in Nat, NEW L \in Nat, left = s - K, pos = h + 1 + K, h + s <= L,
               ~(left > 0) \/ pos > L, K > 0 => left >= 0
        PROVE  K = s
    BY <1>3, <1>5, <1>7, <2>2
  <2>3. QED BY <1>1, <1>3, <1>4, <2>1, <2>2
<1>9. RecoverTypes'
  BY <1>1, <1>3, <1>6 DEF Inv, InTree, RecoverTypes, Running, Tree
<1>10. InContent' /\ AtEnd' /\ Lost'
  BY <1>1 DEF InContent, AtEnd, Lost
<1>11. AtEntry'
  <2>1. Matches(h) => pos = h + 1 + archive[h].size
    BY <1>4, <1>8
  <2>2. QED BY <1>1, <1>2, <1>3, <1>4, <1>7, <2>1 DEF AtEntry
<1>12. Kept'
  <2> SUFFICES ASSUME NEW i \in Heads, Settled(i)'
               PROVE  tree'[archive[i].node] # Nothing /\ Whole(archive[i].node, archive[i].size)'
    BY <1>2 DEF Kept
  <2>1. /\ i < pos /\ archive[i].node \in Files
        /\ \A j \in Heads : j <= i => Matches(j)
        /\ ~\E k \in Heads : k > i /\ k < pos /\ archive[k].node = archive[i].node
    BY <1>1, <1>2 DEF Settled
  <2>2. CASE archive[i].node # cur
    <3>1. Settled(i) /\ archive[i].node \in Nodes
      BY <2>1, <2>2, Constants DEF Settled
    <3>2. tree[archive[i].node] # Nothing /\ Whole(archive[i].node, archive[i].size)
      BY <1>1, <3>1 DEF Inv, InTree, Kept, Running
    <3>3. QED BY <1>1, <1>2, <1>6, <2>2, <3>1, <3>2 DEF Whole
  <2>3. CASE archive[i].node = cur
    <3>1. ~(h > i)
      BY <1>4, <1>7, <2>1, <2>3
    <3>2. ~(i > h)
      <4>3. i \in Nat /\ pos \in Nat /\ i < pos
        BY <1>3, <2>1
      <4>1. i > h => i \in h + 1..pos - 1
        BY <1>7, <4>3
      <4>2. i \in 1..Len(archive)
        BY <1>3
      <4>4. QED BY <1>3, <1>4, <4>1, <4>2
    <3>3. i = h
      BY <1>3, <3>1, <3>2
    <3>4. Matches(h)
      BY <1>7, <2>1, <3>3
    <3>5. K = archive[i].size /\ archive[i].node = cur
      BY <1>4, <1>8, <3>3, <3>4
    <3>6. QED BY <1>2, <1>6, <1>16, <3>5 DEF Whole
  <2>4. QED BY <2>2, <2>3
<1>13. ProtectedWhole'
  <2> SUFFICES ASSUME Sound, ~superuser, NEW m \in Files, tree'[m] # Nothing, tree'[m].locked
               PROVE  \E k \in Heads : archive[k].node = m /\ Whole(m, archive[k].size)'
    BY <1>2 DEF ProtectedWhole
  <2>1. CASE m = cur
    <3>1. Matches(h)
      BY DEF Sound
    <3>2. K = archive[h].size /\ archive[h].node = m
      BY <1>4, <1>8, <2>1, <3>1
    <3>3. Whole(m, archive[h].size)'
      BY <1>2, <1>6, <1>16, <2>1, <3>2 DEF Whole
    <3>4. QED BY <3>2, <3>3
  <2>2. CASE m # cur
    <3>1. tree'[m] = tree[m] /\ (m \in starved' <=> m \in starved)
      BY <1>1, <1>6, <2>2, Constants
    <3>2. QED BY <1>2, <3>1 DEF Inv, InTree, ProtectedWhole, Whole
  <2>3. QED BY <2>1, <2>2
<1>14. DirsMade'
  <2> SUFFICES ASSUME superuser, NEW i \in Reached, i < pos
               PROVE  tree'[archive[i].node] # Nothing \/ archive[i].node \in Refused
    <3>1. Refused \in SUBSET Refused'
      BY <1>1, RefusedGrows
    <3>2. QED BY <1>1, <1>2, <3>1 DEF DirsMade
  <2>1. i \in Heads /\ archive[i].node \in Dirs
    BY ReachedIs
  <2>2. tree[archive[i].node] # Nothing \/ archive[i].node \in Refused
    BY <1>1 DEF Inv, InTree, DirsMade, Running
  <2>3. archive[i].node # cur /\ archive[i].node \in Nodes
    BY <1>3, <2>1, Constants
  <2>4. QED BY <1>6, <2>2, <2>3
<1>15. QED BY <1>9, <1>10, <1>11, <1>12, <1>13, <1>14 DEF InTree

\* The steps of recover
Recover == Start \/ Entry \/ Content \/ CloseFile \/ Crash

\* Nobody recovers before the archive is finished, and then it stays as it is.
LEMMA RecoverStep ==
  ASSUME Inv, Recover, UNCHANGED backup
  PROVE  Inv'
<1>1. InTree'
  BY StartStep, EntryStep, ContentStep, CloseFileStep, CrashStep DEF Recover
<1>2. InArchive'
  BY SameArchive DEF Inv
<1>3. todo = << >> /\ reading = Nothing
  <2>1. Start \/ pc # "off"
    BY DEF Recover, Entry, Content, CloseFile, Crash
  <2>2. QED BY <2>1 DEF Start, Inv, BackupFirst
<1>4. BackupFirst'
  BY <1>3, SameArchive DEF BackupFirst
<1>5. QED BY <1>1, <1>2, <1>4 DEF Inv

-----------------------------------------------------------------------------
(* The theorems                                                            *)

\* An empty archive, and nothing made of it
LEMMA InitInv == Init => Inv
<1> SUFFICES ASSUME Init PROVE Inv
  OBVIOUS
<1>1. /\ args \in Seq(Nodes \cup {Cwd}) /\ size \in [Files -> Sizes]
      /\ changes = 0 /\ missed = {} /\ fds \in 1..MaxOpen /\ todo = args /\ reading = Nothing
      /\ archive = << >> /\ pc = "off" /\ pos = 1 /\ cur = Nothing /\ left = 0
      /\ tree = [n \in Nodes |-> Nothing] /\ starved = {}
  BY ArchiveAssumption DEF Init, Nodes
<1>2. \A f \in Files : size[f] \in Nat
  BY <1>1, ArchiveAssumption
<1>3. BackupTypes /\ RecoverTypes
  <2>1. size \in [Files -> Nat \cup {Nothing}]
    BY <1>1, ArchiveAssumption
  <2>2. fds \in Nat
    BY <1>1, ArchiveAssumption
  <2>3. QED BY <1>1, <2>1, <2>2 DEF BackupTypes, RecoverTypes
<1>4. Heads = {} /\ BytesBehindHeader /\ ReadsLast
  BY <1>1 DEF Heads, BytesBehindHeader, ReadsLast
<1>5. HeadersTrue /\ NothingForgotten
  BY <1>1, <1>2, <1>4 DEF HeadersTrue, NothingForgotten, Named, Waits
<1>6. /\ BackupFirst /\ InContent /\ AtEntry /\ AtEnd /\ Lost /\ Kept /\ DirsMade
  BY <1>1 DEF BackupFirst, InContent, AtEntry, AtEnd, Lost, Kept, DirsMade, Running
<1>7. ProtectedWhole
  BY <1>1 DEF ProtectedWhole, Nodes
<1>8. QED BY <1>3, <1>4, <1>5, <1>6, <1>7 DEF Inv, InArchive, InTree

\* A step of either program, or of neither, keeps the invariant.
LEMMA NextInv == Inv /\ [Next]_vars => Inv'
<1> SUFFICES ASSUME Inv, [Next]_vars PROVE Inv'
  OBVIOUS
<1>1. CASE UNCHANGED vars
  <2>1. /\ UNCHANGED backup /\ pc' = pc /\ pos' = pos /\ cur' = cur /\ left' = left
        /\ tree' = tree /\ starved' = starved
    BY <1>1 DEF vars
  <2>2. InArchive' /\ ProtectedWhole'
    BY <2>1, SameArchive, SameTree DEF Inv
  <2>3. /\ archive' = archive /\ (superuser' <=> superuser) /\ todo' = todo /\ reading' = reading
        /\ Heads' = Heads /\ (\A i : Matches(i)' <=> Matches(i)) /\ Reached' = Reached
    BY <2>1, SameArchive
  <2>4. RecoverTypes' /\ BackupFirst' /\ InContent' /\ AtEntry' /\ AtEnd' /\ Lost'
    BY <2>1, <2>3
       DEF Inv, InTree, RecoverTypes, BackupFirst, InContent, AtEntry, AtEnd, Lost, Whole
  <2>5. \A i : Settled(i)' <=> Settled(i)
    BY <2>1, <2>3 DEF Settled
  <2>6. Kept' /\ DirsMade'
    BY <2>1, <2>3, <2>5 DEF Inv, InTree, Kept, DirsMade, Whole, Refused
  <2>7. QED BY <2>2, <2>4, <2>6 DEF Inv, InTree
<1>2. CASE Next
  BY <1>2, BackupStep, RecoverStep DEF Next, Backup, Recover
<1>3. QED BY <1>1, <1>2

\* The archive is what it is taken for, and the tree is what was made of it, in every
\* reachable state.
THEOREM Invariant == Spec => []Inv
<1> QED BY InitInv, NextInv, PTL DEF Spec

\* A file that has a header has a last one.
LEMMA LastHeader ==
  ASSUME BackupTypes, NEW n, Behind(0, n)
  PROVE  \E i \in Heads : /\ archive[i].node = n
                          /\ \A k \in Heads : archive[k].node = n => ~(k > i)
<1> DEFINE L == Len(archive)
<1>1. L \in Nat /\ Heads \in SUBSET (1..L)
  BY ArchiveIs
<1> HIDE DEF L
<1> DEFINE T == {l \in Nat : \E i \in Heads : archive[i].node = n /\ l = L - i}
<1>2. \A i \in Heads : archive[i].node = n => L - i \in T
  BY <1>1
<1>3. T # {} /\ T \in SUBSET Nat
  BY <1>2 DEF Behind
<1> HIDE DEF T
<1>4. PICK l \in T : \A m \in T : ~(<<m, l>> \in OpToRel(<, Nat))
  BY <1>3, NatLessThanWellFounded, WFMin
<1>5. \A m \in T : ~(m < l)
  BY <1>3, <1>4 DEF OpToRel
<1>6. PICK i \in Heads : archive[i].node = n /\ l = L - i
  BY DEF T
<1>7. ASSUME NEW k \in Heads, archive[k].node = n PROVE ~(k > i)
  <2>1. ~(L - k < L - i)
    BY <1>2, <1>5, <1>6, <1>7
  <2>2. QED BY <1>1, <2>1
<1>8. QED BY <1>6, <1>7

\* What was asked for is in an archive that is finished.
LEMMA AskedIsThere ==
  ASSUME BackupTypes, NothingForgotten, Quiet, todo = << >>, NEW n \in Asked
  PROVE  n \in Nodes \ {Device} /\ Behind(0, n)
<1> DEFINE S == {m \in Nodes : m = Device \/ Behind(0, m)}
<1>1. \A m \in Nodes \ {Device} : ~Waits(m)
  BY DEF Waits
<1>2. \A j \in DOMAIN args : args[j] \in Nodes => args[j] \in S
  BY <1>1 DEF NothingForgotten, Named
<1>3. ASSUME NEW m \in Nodes, Parent[m] \in S PROVE m \in S
  <2>1. Parent[m] \in Dirs /\ Parent[m] # Device
    BY <1>3, Constants
  <2>2. PICK i \in Heads : archive[i].node = Parent[m]
    BY <1>3, <2>1 DEF Behind
  <2>3. m # Device => Behind(i, m)
    BY <1>1, <2>1, <2>2 DEF NothingForgotten
  <2>4. \A k \in Heads : 0 < k
    BY ArchiveIs
  <2>5. QED BY <2>3, <2>4 DEF Behind
<1>4. n \in Nodes \ {Device} /\ n \in S
  BY <1>2, <1>3 DEF Asked
<1>5. QED BY <1>4

\* What is rooted was reached: each directory has a header behind one of its parent.
LEMMA RootedIsReached ==
  ASSUME BackupTypes, NothingForgotten, Quiet, todo = << >>, NEW d \in Rooted
  PROVE  \E i \in Reached : archive[i].node = d
<1> DEFINE S == {m \in Dirs : \E i \in Reached : archive[i].node = m}
<1>1. ASSUME NEW m \in Asked \cap Dirs, Parent[m] \in S \cup {Cwd} PROVE m \in S
  <2>1. m \in Nodes \ {Device} /\ Behind(0, m)
    BY AskedIsThere
  <2>2. CASE Parent[m] = Cwd
    <3>1. PICK k \in Heads : archive[k].node = m
      BY <2>1 DEF Behind
    <3>2. k \in Reached
      BY <2>2, <3>1, ReachedGrows
    <3>3. QED BY <3>1, <3>2
  <2>3. CASE Parent[m] \in S
    <3>1. PICK i \in Reached : archive[i].node = Parent[m] /\ Parent[m] \in Dirs
      BY <2>3
    <3>2. Behind(i, m)
      BY <2>1, <3>1, ReachedIs DEF NothingForgotten, Waits
    <3>3. PICK k \in Heads : i < k /\ archive[k].node = m
      BY <3>2 DEF Behind
    <3>4. k \in Reached
      BY <3>1, <3>3, ReachedGrows
    <3>5. QED BY <3>3, <3>4
  <2>4. QED BY <1>1, <2>2, <2>3
<1>2. d \in S
  BY <1>1 DEF Rooted
<1>3. QED BY <1>2

\* recover makes every file again, at its full length unless the disk was full, and for
\* the superuser every directory but what a full disk refused, however earlier runs
\* ended, if backup missed nothing and no file is too long for recover's int.
THEOREM MadeAgain == Spec => []RestoredInFull
<1>1. Inv => RestoredInFull
  <2> SUFFICES ASSUME Inv, pc = "done", Quiet, \A f \in Files : FileEnd(size[f]) = size[f]
               PROVE  /\ \A f \in Asked \cap Files :
                           tree[f] # Nothing /\ Whole(f, size[f])
                      /\ superuser => \A d \in Rooted \ Refused : tree[d] # Nothing
    BY DEF RestoredInFull, Quiet
  <2>1. todo = << >> /\ reading = Nothing /\ cur = Nothing /\ pos \in Nat
    BY DEF Inv, BackupFirst, InTree, AtEnd, RecoverTypes
  <2>2. BackupTypes /\ NothingForgotten
    BY DEF Inv, InArchive
  <2>3. \A i \in Heads : /\ archive[i].node \in Nodes /\ Filled(i)
                         /\ archive[i].node \in Files => archive[i].size = size[archive[i].node]
    BY <2>1 DEF Inv, InArchive, HeadersTrue
  <2>4. \A i \in Heads : Matches(i)
    BY <2>3 DEF Matches, Filled
  <2>5. pos > Len(archive)
    BY <2>3, Constants DEF Inv, InTree, AtEnd
  <2>6. \A i \in Heads : i < pos
    BY <2>1, <2>2, <2>5, ArchiveIs
  <2>7. ASSUME NEW f \in Asked \cap Files PROVE tree[f] # Nothing /\ Whole(f, size[f])
    <3>1. Behind(0, f)
      BY <2>1, <2>2, AskedIsThere
    <3>2. PICK i \in Heads : /\ archive[i].node = f
                             /\ \A k \in Heads : archive[k].node = f => ~(k > i)
      BY <2>2, <3>1, LastHeader
    <3>3. Settled(i)
      BY <2>1, <2>4, <2>6, <3>2, Constants DEF Settled
    <3>4. QED BY <2>3, <2>7, <3>2, <3>3 DEF Inv, InTree, Kept, Running, Whole
  <2>8. ASSUME superuser, NEW d \in Rooted \ Refused PROVE tree[d] # Nothing
    <3>1. PICK i \in Reached : archive[i].node = d
      BY <2>1, <2>2, RootedIsReached
    <3>2. i < pos
      BY <2>6, ReachedIs
    <3>3. QED BY <2>8, <3>1, <3>2 DEF Inv, InTree, DirsMade, Running
  <2>9. QED BY <2>7, <2>8
<1>2. QED BY <1>1, Invariant, PTL

\* A content that is not as long as its header says does no harm to what recover made
\* before it, and only such a content makes recover lose its place.
THEOREM ForwardOnly == Spec => []DamageGoesForward
<1>1. Inv => DamageGoesForward
  BY DEF Inv, InTree, Kept, Lost, Settled, Running, DamageGoesForward
<1>2. QED BY <1>1, Invariant, PTL

\* recover protects a file behind its content: no run, stopped or not, leaves a protected
\* file that is short, unless it is the superuser's or the disk was full.
THEOREM WholeBeforeProtected == Spec => []ProtectedIsWhole
<1>1. Inv => ProtectedIsWhole
  BY DEF Inv, InTree, ProtectedWhole, ProtectedIsWhole
<1>2. QED BY <1>1, Invariant, PTL
===============================================================================
