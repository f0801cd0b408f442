------------------------------ MODULE Archive -------------------------------
(***************************************************************************)
(* Backup/backup.c writes the files and directories below its arguments    *)
(* into an archive, Recover/recover.c makes them again.  An entry is a     *)
(* header with name and inode, and behind the header of a file comes its   *)
(* content, as long as the inode says: there is nothing else to find the   *)
(* next entry by.  Files change while backup runs, descriptors run out,    *)
(* the disks may be full, which recover does not notice when it writes,    *)
(* and recover may be stopped and run again over what it left.             *)
(*                                                                         *)
(* A byte is the file it comes from.  Where recover takes a part of a      *)
(* header for content, or content for a header, the model stops: "lost".   *)
(***************************************************************************)
EXTENDS Integers, Sequences, SequencesExt, FiniteSets

CONSTANTS
  Files, Dirs,
  Cwd,        \* "."
  Device,     \* BACKUPDEVICE, one of Files
  Parent,     \* the directory of each
  Arguments,  \* the choices of what backup is called with
  Sizes,      \* of files, in units of BUFSIZE bytes
  Half,       \* an int holds -Half .. Half - 1
  Locked,     \* what one may read and not write
  MaxOpen,    \* the most descriptors that may be left when backup starts
  MaxChanges, \* bound: changes of files while backup runs
  MaxRuns,    \* bound: runs of recover
  Nothing

ASSUME ArchiveAssumption ==
  /\ Files \cap Dirs = {} /\ Cwd \notin Files \cup Dirs /\ Device \in Files
  /\ Parent \in [Files \cup Dirs -> Dirs \cup {Cwd}]
  /\ IsFiniteSet(Files \cup Dirs) /\ Arguments \subseteq Seq(Files \cup Dirs \cup {Cwd})
  /\ Sizes \subseteq Nat /\ Half \in Nat \ {0} /\ MaxOpen \in Nat
  /\ Nothing \notin Files \cup Dirs \cup {Cwd} \cup Nat \cup [bytes : Nat, locked : BOOLEAN]

Nodes == Files \cup Dirs

VARIABLES
  args, superuser,  \* what backup is called with and who recovers; they never change
  size,     \* of the files, Nothing when they are removed
  changes,
  missed,   \* what backup could not open or write
  fds,      \* descriptors left
  todo,     \* what backup has still to look at
  reading,  \* the file whose header it wrote last
  archive,
  pc,       \* of recover
  pos,      \* how far it has read
  cur, left,\* the file it writes, and fileEnd
  tree,     \* what it has made
  starved,  \* the directories a full disk refused in this run of recover, and
            \* the files that lost some of their content when it last made them
  runs

backup == <<args, superuser, size, changes, missed, fds, todo, reading, archive>>
vars == <<backup, pc, pos, cur, left, tree, starved, runs>>

Init ==
  /\ args \in Arguments /\ superuser \in BOOLEAN
  /\ size \in [Files -> Sizes] /\ size[Device] = 0
  /\ changes = 0 /\ missed = {} /\ fds \in 1..MaxOpen
  /\ todo = args /\ reading = Nothing
  /\ archive = << >>
  /\ pc = "off" /\ pos = 1 /\ cur = Nothing /\ left = 0
  /\ tree = [n \in Nodes |-> Nothing] /\ starved = {}
  /\ runs = 0

-----------------------------------------------------------------------------
(* backup                                                                  *)

Header(n, s) == [head |-> TRUE, node |-> n, size |-> s]
Byte(n) == [head |-> FALSE, node |-> n, size |-> 0]
Inside(d) == {n \in Nodes : Parent[n] = d /\ (n \in Files => size[n] # Nothing)}

\* The archive itself, "." and what is gone are passed over.
Skip(n) == n \in {Cwd, Device} \/ (n \in Files /\ size[n] = Nothing)

BackupSkip ==
  /\ todo # << >> /\ reading = Nothing /\ Skip(Head(todo))
  /\ todo' = Tail(todo)
  /\ UNCHANGED <<args, superuser, size, changes, missed, fds, reading, archive>>

\* lstat and HeaderWrite of a file
BackupFile ==
  LET n == Head(todo)
  IN  /\ todo # << >> /\ reading = Nothing /\ ~Skip(n) /\ n \in Files
      /\ archive' = Append(archive, Header(n, size[n]))
      /\ reading' = n
      /\ UNCHANGED <<args, superuser, size, changes, missed, fds, todo>>

ContentsMut(n) == [i \in 1..size[n] - 1 |-> Byte(n)]  \* without the last buffer
Contents(n) == [i \in 1..size[n] |-> Byte(n)]

\* WriteContent: what the file is by now, or nothing if it can not be opened.
WriteContent ==
  LET n == reading
      opened == fds > 0 /\ size[n] # Nothing
  IN  /\ n # Nothing
      /\ archive' = IF opened THEN archive \o Contents(n) ELSE archive
      /\ missed' = IF opened THEN missed ELSE missed \cup {n}
      /\ reading' = Nothing /\ todo' = Tail(todo)
      /\ UNCHANGED <<args, superuser, size, changes, fds>>

\* BackupDirContent keeps the directory open.
BackupDir ==
  LET n == Head(todo)
  IN  /\ todo # << >> /\ reading = Nothing /\ n \in Dirs
      /\ archive' = Append(archive, Header(n, 0))
      /\ \/ /\ fds > 0
            /\ \E s \in SetToSeqs(Inside(n)) : todo' = s \o Tail(todo)
            /\ fds' = fds - 1
            /\ UNCHANGED missed
         \/ fds = 0 /\ missed' = missed \cup {n} /\ todo' = Tail(todo) /\ UNCHANGED fds
      /\ UNCHANGED <<args, superuser, size, changes, reading>>

\* The disk is full, which goes unnoticed, or backup is stopped: the archive
\* ends within a header or a content.
Truncate ==
  /\ todo # << >>
  /\ IF reading = Nothing THEN archive' \in {archive, Append(archive, Header(Nothing, 0))}
     ELSE LET s == size[reading]
          IN  \E k \in 0..(IF s = Nothing THEN 0 ELSE s) :
                archive' = archive \o [i \in 1..k |-> Byte(reading)]
  /\ missed' = missed \cup ToSet(todo)
  /\ todo' = << >> /\ reading' = Nothing
  /\ UNCHANGED <<args, superuser, size, changes, fds>>

\* by somebody else
Change ==
  /\ todo # << >> /\ changes < MaxChanges
  /\ \E n \in Files \ {Device}, s \in Sizes \cup {Nothing} :
       s # size[n] /\ size[n] # Nothing /\ size' = [size EXCEPT ![n] = s]
  /\ changes' = changes + 1
  /\ UNCHANGED <<args, superuser, missed, fds, todo, reading, archive>>

-----------------------------------------------------------------------------
(* recover                                                                 *)

\* The magic bytes are compared with a string whose end was never read: a good
\* archive may be refused.
Start ==
  /\ todo = << >> /\ reading = Nothing /\ pc \in {"off", "done", "failed"} /\ runs < MaxRuns
  /\ \/ pc' = "entry" /\ UNCHANGED runs
     \/ pc' = "failed" /\ runs' = runs + 1
  /\ pos' = 1 /\ cur' = Nothing /\ starved' = starved \ Dirs
  /\ UNCHANGED <<left, tree>>

\* mkdir makes one level, and its failure goes unnoticed.
Mkdir(t, d, locked) ==
  IF d = Cwd \/ t[d] # Nothing \/ ~(Parent[d] = Cwd \/ (t[Parent[d]] # Nothing
                                      /\ (superuser \/ ~t[Parent[d]].locked)))
  THEN t ELSE [t EXCEPT ![d] = [bytes |-> 0, locked |-> locked]]

RecoverDir(n) ==
  LET t == Mkdir(tree, n, n \in Locked)
  IN  /\ \/ tree' = t /\ UNCHANGED starved
         \/ t # tree /\ UNCHANGED tree /\ starved' = starved \cup {n}
      /\ UNCHANGED <<pc, cur, left>>

\* The int that is counted down
FileEnd(s) == ((s + Half) % (2 * Half)) - Half

\* pathFromFile leaves the path unset for a name without a directory, and
\* ensurePath may then make any.
Paths(n) == IF Parent[n] = Cwd THEN Dirs \cup {Cwd} ELSE {Parent[n]}

CreatMut(t, n) == [t EXCEPT ![n] = [bytes |-> 0, locked |-> n \in Locked]]  \* with its mode
\* creat keeps the mode of a file that is there.
Creat(t, n) ==
  [t EXCEPT ![n] = [bytes |-> 0, locked |-> t[n] # Nothing /\ t[n].locked]]

\* A disk that is full takes no new directory and no new file; only the latter
\* is noticed.
RecoverFile(n, s) ==
  \E p \in Paths(n) : \E t \in {Mkdir(tree, p, FALSE), tree} :
    LET d == Parent[n]
        may == /\ d = Cwd \/ t[d] # Nothing
               /\ \/ superuser
                  \/ t[n] # Nothing /\ ~t[n].locked
                  \/ t[n] = Nothing /\ (d = Cwd \/ ~t[d].locked)
    IN  \E made \in IF ~may THEN {FALSE} ELSE IF t[n] = Nothing THEN BOOLEAN ELSE {TRUE} :
          /\ tree' = IF made THEN Creat(t, n) ELSE t
          /\ pc' = IF made THEN "content" ELSE "failed"
          /\ starved' = IF made THEN starved \ {n} ELSE starved
          /\ cur' = n /\ left' = FileEnd(s)

Entry ==
  /\ pc = "entry"
  /\ IF pos > Len(archive)
     THEN pc' = "done" /\ UNCHANGED <<pos, cur, left, tree, starved>>
     ELSE LET e == archive[pos]
          IN  /\ pos' = pos + 1
              /\ \/ ~e.head /\ pc' = "lost" /\ UNCHANGED <<cur, left, tree, starved>>
                 \/ /\ e.node = Nothing /\ pc' \in {"done", "failed"}
                    /\ UNCHANGED <<cur, left, tree, starved>>
                 \/ e.head /\ e.node \in Dirs /\ RecoverDir(e.node)
                 \/ e.head /\ e.node \in Files /\ RecoverFile(e.node, e.size)
  /\ runs' = IF pc' \in {"done", "failed"} THEN runs + 1 ELSE runs

MoreMut == left > 1                         \* < for <=
More == left > 0

\* One buffer of content.  A full disk takes less of it, or nothing, and the
\* result of write is not looked at.
Content ==
  /\ pc = "content" /\ More /\ pos <= Len(archive)
  /\ IF archive[pos].head THEN pc' = "lost" /\ UNCHANGED <<tree, starved>>
     ELSE /\ \/ tree' = [tree EXCEPT ![cur].bytes = @ + 1] /\ UNCHANGED starved
             \/ UNCHANGED tree /\ starved' = starved \cup {cur}
          /\ UNCHANGED pc
  /\ pos' = pos + 1 /\ left' = left - 1
  /\ UNCHANGED <<cur, runs>>

\* fchmod and close; after the last byte or at the end of the archive
CloseFile ==
  /\ pc = "content" /\ (~More \/ pos > Len(archive))
  /\ tree' = [tree EXCEPT ![cur].locked = cur \in Locked]
  /\ pc' = "entry" /\ cur' = Nothing /\ left' = 0
  /\ UNCHANGED <<pos, starved, runs>>

\* recover is stopped.
Crash ==
  /\ pc \in {"entry", "content"}
  /\ pc' = "off" /\ runs' = runs + 1
  /\ UNCHANGED <<pos, cur, left, tree, starved>>

-----------------------------------------------------------------------------
Next ==
  \/ /\ BackupSkip \/ BackupFile \/ WriteContent \/ BackupDir \/ Truncate \/ Change
     /\ UNCHANGED <<pc, pos, cur, left, tree, starved, runs>>
  \/ /\ Start \/ Entry \/ Content \/ CloseFile \/ Crash
     /\ UNCHANGED backup

Spec == Init /\ [][Next]_vars

-----------------------------------------------------------------------------
(* Properties                                                              *)

\* The content behind header i is as long as the header says and recover counts.
Matches(i) ==
  LET s == archive[i].size
  IN  archive[i].node \in Files =>
        /\ FileEnd(s) = s
        /\ i + s <= Len(archive)
        /\ \A k \in i + 1..i + s : ~archive[k].head
        /\ i + s = Len(archive) \/ archive[i + s + 1].head

Heads == {i \in DOMAIN archive : archive[i].head}
Sound == \A i \in Heads : Matches(i)

\* What backup was asked for: the arguments and all below them
Asked ==
  LET Closed(S) == /\ \A i \in DOMAIN args : args[i] \in Nodes => args[i] \in S
                   /\ \A n \in Nodes : Parent[n] \in S => n \in S
  IN  {n \in Nodes \ {Device} : \A S \in SUBSET Nodes : Closed(S) => n \in S}

\* Directories of it that have their parents in it too, up to "."
Rooted ==
  LET asked == Asked \cap Dirs
      Closed(S) == \A n \in asked : Parent[n] \in S \cup {Cwd} => n \in S
  IN  {n \in asked : \A S \in SUBSET Dirs : Closed(S) => n \in S}

\* The directories a full disk refused, and all below them
Refused ==
  LET Closed(S) == /\ Dirs \cap starved \subseteq S
                   /\ \A n \in Dirs : Parent[n] \in S => n \in S
  IN  {n \in Dirs : \A S \in SUBSET Dirs : Closed(S) => n \in S}

\* A recovered file is as long as s, and shorter only if the disk was full.
Whole(f, s) ==
  tree[f].bytes <= s /\ (tree[f].bytes < s <=> f \in starved)

\* When no file changed, backup could open and write each, and no file is too long for
\* recover's int, a run of recover that ends without an error has made every
\* file again, at its full length unless the disk was full, however earlier runs
\* ended; and for the superuser every directory whose parents are all in the
\* archive, but those a full disk did not take and what is below them.
RestoredInFull ==
  /\ pc = "done" /\ changes = 0 /\ missed = {}
  /\ \A f \in Files : FileEnd(size[f]) = size[f]
  =>
    /\ \A f \in Asked \cap Files : tree[f] # Nothing /\ Whole(f, size[f])
    /\ superuser => \A d \in Rooted \ Refused : tree[d] # Nothing

\* A content that is not as long as its header says does no damage to what was
\* recovered before it, and without one recover never takes a header for
\* content or content for a header, not even when the disk is full.
DamageGoesForward ==
  pc \in {"entry", "content", "done", "lost"} =>
    /\ \A i \in Heads :
         LET e == archive[i]
         IN  /\ i < pos /\ e.node \in Files /\ e.node # cur
             /\ \A j \in Heads : j <= i => Matches(j)
             /\ ~\E k \in Heads : k > i /\ k < pos /\ archive[k].node = e.node
             => tree[e.node] # Nothing /\ Whole(e.node, e.size)
    /\ pc = "lost" => \E i \in Heads : i < pos /\ ~Matches(i)

\* The mode is set behind the content: unless it is the superuser who recovers, a
\* run that was stopped leaves no file that the next run cannot write and that
\* is short, but one for which the disk was full.
ProtectedIsWhole ==
  Sound /\ ~superuser =>
    \A i \in Heads :
      LET n == archive[i].node
      IN  n \in Files /\ tree[n] # Nothing /\ tree[n].locked =>
            \E k \in Heads : archive[k].node = n /\ Whole(n, archive[k].size)
=============================================================================
