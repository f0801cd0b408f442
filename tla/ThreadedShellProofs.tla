------------------------ MODULE ThreadedShellProofs -------------------------
(***************************************************************************)
(* The threaded shell keeps its promises about directories and the log for *)
(* any number of clients, commands and directories.                        *)
(***************************************************************************)
EXTENDS ThreadedShell, SequenceTheorems, TLAPS

PCs == {"prompt", "cd", "chdir", "printenv", "setenv", "print", "log", "flush",
        "getlog", "stop-server", "exit", "fork", "wait", "ended"}
Holders == Threads \cup {Nobody}
Processes == [cwd : Dirs, cwdMutex : Holders, logMutex : Holders, pathMutex : Holders,
              envLock : Holders, buf : Seq(Entries), log : Seq(Entries),
              open : BOOLEAN, echoed : BOOLEAN]

\* The values of the variables; who runs a command has read one, and Root stays.
Shape ==
  /\ onDisk \subseteq Dirs /\ Root \in onDisk
  /\ proc \in Processes
  /\ pc \in [Threads -> PCs]
  /\ dir \in [Threads -> Dirs]
  /\ cmd \in [Threads -> Commands \cup {"none"}]
  /\ count \in [Threads -> 0..MaxCommands]
  /\ kids \subseteq Kids
  /\ wild \in BOOLEAN
  /\ \A t \in Threads : pc[t] \notin {"prompt", "ended"} =>
       cmd[t] \in Commands /\ count[t] \in 1..MaxCommands
  /\ \A t \in Threads : pc[t] \in {"cd", "chdir"} => cmd[t] \in {"cd", "cd-x"}

\* A thread in cd holds the mutex, and the process is where its client was.
Directories ==
  \A t \in Threads : pc[t] = "chdir" =>
    proc.cwdMutex = t /\ (proc.cwd = dir[t] \/ dir[t] \notin onDisk)

\* So is a child that has called cwd_fake.
KidsAtHome ==
  \A k \in kids : k.at \in {"exec", "running"} => k.cwd = k.home \/ k.home \notin onDisk

\* Who works with the log holds its mutex, and only who has written to the
\* buffer has not flushed it, as long as the log is open; nobody exits before.
LogHeld ==
  /\ \A t \in Threads : pc[t] = "exit" => ~proc.open
  /\ proc.buf # << >> => proc.open /\ \E t \in Threads : pc[t] = "flush"
  /\ proc.open => \A t \in Threads :
       pc[t] = "flush" \/ (pc[t] \in {"fork", "wait"} /\ cmd[t] = "getlog") =>
         proc.logMutex = t

\* Except for background commands, a child has a parent that waits for it, and
\* for no other.
Waited(k) == k.cmd # "run-bg" /\ pc[k.of] # "ended"
KidsWaitedFor ==
  /\ \A k \in kids : Waited(k) =>
       pc[k.of] = "wait" /\ k.nr = count[k.of] /\ k.cmd = cmd[k.of]
  /\ \A j, k \in kids : Waited(j) /\ Waited(k) /\ j.of = k.of => j = k
  /\ \A k \in kids : k.at \in {"zero", "nonzero"} => k.cmd # "run-bg"

\* What is in the log and its buffer is in order, and older than a command that
\* is under way.
All == proc.log \o proc.buf
Ordered(s) == \A i, j \in DOMAIN s : i < j /\ s[i].by = s[j].by => s[i].nr < s[j].nr
Older(s) ==
  \A i \in DOMAIN s :
    \/ s[i].nr < count[s[i].by]
    \/ s[i].nr = count[s[i].by] /\ pc[s[i].by] \in {"prompt", "flush", "ended"}
InOrder == proc.echoed \/ (Ordered(All) /\ Older(All))

IInv == Shape /\ Directories /\ KidsAtHome /\ LogHeld /\ KidsWaitedFor /\ InOrder

\* The process and no child is there at the start.
LEMMA InitInv == Init => IInv
<1> SUFFICES ASSUME Init PROVE IInv
    OBVIOUS
<1> USE ShellAssumption
<1>1. Shape
  <2>1. proc \in Processes
    BY EmptySeq DEF Init, Processes, Holders
  <2>2. wild \in BOOLEAN
    BY DEF Init
  <2>3. pc \in [Threads -> PCs] /\ \A t \in Threads : pc[t] = "prompt"
    BY DEF Init, PCs
  <2>4. /\ dir \in [Threads -> Dirs] /\ cmd \in [Threads -> Commands \cup {"none"}]
        /\ onDisk \subseteq Dirs /\ Root \in onDisk
    BY DEF Init
  <2>6. count \in [Threads -> 0..MaxCommands]
    BY DEF Init
  <2>5. kids \subseteq Kids
    BY DEF Init
  <2>7. QED
    BY <2>1, <2>2, <2>3, <2>4, <2>5, <2>6 DEF Shape
<1>2. Directories /\ KidsAtHome /\ KidsWaitedFor /\ LogHeld
  BY DEF Init, Directories, KidsAtHome, KidsWaitedFor, LogHeld
<1>3. InOrder
  <2>1. proc.log = << >> /\ proc.buf = << >> /\ << >> \in Seq(Entries)
    BY EmptySeq DEF Init
  <2>2. All = << >>
    BY <2>1, ConcatEmptySeq DEF All
  <2>3. DOMAIN All = {}
    <3>1. Len(All) = 0 /\ DOMAIN All = 1..Len(All)
      BY <2>1, <2>2, LenProperties, EmptySeq
    <3>2. QED
      BY <3>1
  <2>4. QED
    BY <2>3 DEF InOrder, Ordered, Older
<1>4. QED
  BY <1>1, <1>2, <1>3 DEF IInv

-----------------------------------------------------------------------------
(* What the helpers return.                                                *)

\* A command begins at a place of its kind.
LEMMA FirstStepType ==
  ASSUME NEW c \in Commands
  PROVE  /\ FirstStep(c) \in PCs \ {"prompt", "ended", "chdir", "log", "flush", "wait",
                                    "setenv", "print", "exit"}
         /\ FirstStep(c) = "cd" => c \in {"cd", "cd-x"}
         /\ FirstStep(c) = "fork" => c # "getlog"
BY ShellAssumption DEF FirstStep, PCs

\* A directory is where it was or where it should be, and is one.
LEMMA CwdFakeType ==
  ASSUME NEW home \in Dirs, NEW cwd \in Dirs
  PROVE  /\ CwdFake(home, cwd) \in Dirs
         /\ CwdFake(home, cwd) = home \/ home \notin onDisk
BY DEF CwdFake

\* chdir goes to a directory that exists, or nowhere.
LEMMA ChdirType ==
  ASSUME onDisk \subseteq Dirs, proc.cwd \in Dirs, NEW to
  PROVE  Chdir(to) \in Dirs /\ (Chdir(to) = to \/ Chdir(to) = proc.cwd)
BY DEF Chdir

\* The fields of the process
LEMMA ProcType ==
  ASSUME Shape
  PROVE  /\ proc.cwd \in Dirs /\ proc.cwdMutex \in Holders /\ proc.logMutex \in Holders
         /\ proc.pathMutex \in Holders /\ proc.envLock \in Holders
         /\ proc.buf \in Seq(Entries) /\ proc.log \in Seq(Entries)
         /\ All \in Seq(Entries)
<1>1. proc.buf \in Seq(Entries) /\ proc.log \in Seq(Entries)
  BY DEF Shape, Processes
<1>2. QED
  BY <1>1, ConcatProperties DEF Shape, Processes, All

\* A thread that moves leaves the others where they are.
LEMMA Moves ==
  ASSUME Shape, NEW t \in Threads, NEW l \in PCs, Goto(t, l)
  PROVE  /\ pc' \in [Threads -> PCs]
         /\ \A u \in Threads : pc'[u] = IF u = t THEN l ELSE pc[u]
BY DEF Shape, Goto

\* A child that moves on stays a child of the same command.
LEMMA BecomesType ==
  ASSUME Shape, NEW k \in kids, NEW new \in Kids, Becomes(k, new)
  PROVE  kids' \subseteq Kids
BY DEF Becomes, Shape

-----------------------------------------------------------------------------
(* The types.                                                              *)

\* A thread that is busy with its command goes on to another place.
LEMMA BusyShape ==
  ASSUME Shape, NEW t \in Threads, NEW l \in PCs \ {"cd", "chdir"}, Goto(t, l),
         pc[t] \notin {"prompt", "ended"},
         onDisk' \subseteq Dirs, Root \in onDisk', proc' \in Processes,
         dir' \in [Threads -> Dirs], cmd' = cmd, count' = count,
         kids' \subseteq Kids, wild' \in BOOLEAN
  PROVE  Shape'
<1>1. pc' \in [Threads -> PCs] /\ \A u \in Threads : pc'[u] = IF u = t THEN l ELSE pc[u]
  BY Moves
<1>2. \A u \in Threads : pc'[u] \notin {"prompt", "ended"} =>
        cmd'[u] \in Commands /\ count'[u] \in 1..MaxCommands
  BY <1>1 DEF Shape
<1>3. \A u \in Threads : pc'[u] \in {"cd", "chdir"} => cmd'[u] \in {"cd", "cd-x"}
  BY <1>1 DEF Shape
<1>4. QED
  BY <1>1, <1>2, <1>3 DEF Shape

\* The step of a child moves no thread.
LEMMA KidShape ==
  ASSUME Shape, UNCHANGED <<onDisk, pc, dir, cmd, count, wild>>, proc' \in Processes,
         kids' \subseteq Kids
  PROVE  Shape'
BY DEF Shape

\* Each operation of a client, a child or another process keeps the types.
LEMMA NextShape == IInv /\ [Next]_vars => Shape'
<1> SUFFICES ASSUME IInv, [Next]_vars PROVE Shape'
    OBVIOUS
<1> USE ShellAssumption
<1>0. Shape
  BY DEF IInv
<1>1. /\ onDisk \subseteq Dirs /\ Root \in onDisk /\ proc \in Processes
      /\ pc \in [Threads -> PCs] /\ dir \in [Threads -> Dirs] /\ kids \subseteq Kids
      /\ wild \in BOOLEAN
  BY <1>0 DEF Shape
<1>2. /\ proc.cwd \in Dirs /\ proc.buf \in Seq(Entries) /\ proc.log \in Seq(Entries)
      /\ All \in Seq(Entries)
  BY <1>0, ProcType
<1>3. \A t \in Threads : t \in Holders
  BY DEF Holders
<1>4. Nobody \in Holders
  BY DEF Holders
<1>5. << >> \in Seq(Entries)
  BY EmptySeq
<1>6. ASSUME NEW t \in Threads, pc[t] \notin {"prompt", "ended"}
      PROVE  /\ cmd[t] \in Commands /\ count[t] \in 1..MaxCommands
             /\ [by |-> t, nr |-> count[t]] \in Entries
  BY <1>0, <1>6 DEF Shape, Entries
<1>7. PCs = {"prompt", "cd", "chdir", "printenv", "setenv", "print", "log", "flush",
             "getlog", "stop-server", "exit", "fork", "wait", "ended"}
  BY DEF PCs
<1>10. ASSUME NEW t \in Threads, ReadCommand(t) PROVE Shape'
  <2>1. PICK c \in Commands : cmd' = [cmd EXCEPT ![t] = c] /\ Goto(t, FirstStep(c))
    BY <1>10 DEF ReadCommand
  <2>2. /\ pc' \in [Threads -> PCs]
        /\ \A u \in Threads : pc'[u] = IF u = t THEN FirstStep(c) ELSE pc[u]
    BY <1>0, <2>1, FirstStepType, Moves
  <2>3. /\ cmd' \in [Threads -> Commands \cup {"none"}]
        /\ \A u \in Threads : cmd'[u] = IF u = t THEN c ELSE cmd[u]
    BY <1>0, <2>1 DEF Shape
  <2>4. /\ count' \in [Threads -> 0..MaxCommands] /\ count'[t] \in 1..MaxCommands
        /\ \A u \in Threads \ {t} : count'[u] = count[u]
    <3>1. /\ count \in [Threads -> 0..MaxCommands] /\ count[t] < MaxCommands
          /\ count' = [count EXCEPT ![t] = @ + 1]
      BY <1>0, <1>10 DEF Shape, ReadCommand
    <3>2. count[t] + 1 \in 1..MaxCommands /\ count[t] + 1 \in 0..MaxCommands
      BY <3>1
    <3>3. QED
      BY <3>1, <3>2
  <2>5. UNCHANGED <<onDisk, proc, dir, kids, wild>>
    BY <1>10 DEF ReadCommand
  <2>6. \A u \in Threads : pc'[u] \notin {"prompt", "ended"} =>
          cmd'[u] \in Commands /\ count'[u] \in 1..MaxCommands
    BY <1>0, <2>2, <2>3, <2>4 DEF Shape
  <2>7. \A u \in Threads : pc'[u] \in {"cd", "chdir"} => cmd'[u] \in {"cd", "cd-x"}
    BY <1>0, <2>2, <2>3, FirstStepType DEF Shape
  <2>8. QED
    BY <1>1, <2>2, <2>3, <2>4, <2>5, <2>6, <2>7 DEF Shape
<1>11. ASSUME NEW t \in Threads, CdLock(t) PROVE Shape'
  <2>1. proc' \in Processes
    BY <1>1, <1>2, <1>3, <1>11, CwdFakeType DEF CdLock, Processes, Shape
  <2>2. /\ pc' \in [Threads -> PCs]
        /\ \A u \in Threads : pc'[u] = IF u = t THEN "chdir" ELSE pc[u]
    BY <1>0, <1>7, <1>11, Moves DEF CdLock
  <2>3. UNCHANGED <<onDisk, dir, cmd, count, kids, wild>> /\ pc[t] = "cd"
    BY <1>11 DEF CdLock, own
  <2>4. QED
    BY <1>0, <2>1, <2>2, <2>3 DEF Shape
<1>12. ASSUME NEW t \in Threads, CdChange(t) PROVE Shape'
  <2> DEFINE new == Chdir(Target(cmd[t]))
  <2>1. new \in Dirs
    BY <1>1, <1>2, ChdirType
  <2>2. proc' \in Processes
    BY <1>1, <1>4, <1>12, <2>1 DEF CdChange, Processes
  <2>3. dir' \in [Threads -> Dirs]
    BY <1>1, <1>12, <2>1 DEF CdChange
  <2>4. QED
    BY <1>0, <1>1, <1>7, <1>12, <2>2, <2>3, BusyShape DEF CdChange
<1>13. ASSUME NEW t \in Threads, PrintLock(t) \/ PrintSet(t) \/ PrintUnlock(t) PROVE Shape'
  <2>1. proc' \in Processes
    BY <1>1, <1>3, <1>4, <1>13 DEF PrintLock, PrintSet, PrintUnlock, Processes
  <2>2. PICK l \in {"setenv", "print", "log"} : Goto(t, l)
    BY <1>13 DEF PrintLock, PrintSet, PrintUnlock
  <2>3. /\ UNCHANGED <<onDisk, dir, cmd, count, kids, wild>>
        /\ pc[t] \in {"printenv", "setenv", "print"}
    BY <1>13 DEF PrintLock, PrintSet, PrintUnlock, own
  <2>4. QED
    BY <1>0, <1>1, <1>7, <2>1, <2>2, <2>3, BusyShape
<1>14. ASSUME NEW t \in Threads, LogLock(t) \/ LogFlush(t) \/ GetlogLock(t) PROVE Shape'
  <2>1. /\ UNCHANGED <<onDisk, dir, cmd, count, kids>>
        /\ pc[t] \in {"log", "flush", "getlog"}
    BY <1>14 DEF LogLock, LogFlush, GetlogLock, own
  <2>2. Append(proc.buf, [by |-> t, nr |-> count[t]]) \in Seq(Entries)
    BY <1>2, <1>6, <2>1, AppendProperties
  <2>3. proc' \in Processes
    <3>1. CASE LogLock(t)
      BY <1>1, <1>3, <2>2, <3>1 DEF LogLock, Processes
    <3>2. CASE LogFlush(t)
      BY <1>1, <1>2, <1>4, <1>5, <3>2 DEF LogFlush, Processes, All
    <3>3. CASE GetlogLock(t)
      BY <1>1, <1>3, <3>3 DEF GetlogLock, Processes
    <3>4. QED
      BY <1>14, <3>1, <3>2, <3>3
  <2>4. PICK l \in {"flush", "prompt", "fork"} : Goto(t, l)
    BY <1>14 DEF LogLock, LogFlush, GetlogLock
  <2>5. wild' \in BOOLEAN
    BY <1>1, <1>14 DEF LogLock, LogFlush, GetlogLock
  <2>6. QED
    BY <1>0, <1>1, <1>7, <2>1, <2>3, <2>4, <2>5, BusyShape
<1>15. ASSUME NEW t \in Threads, StopClose(t) PROVE Shape'
  <2>1. proc' \in Processes
    BY <1>1, <1>2, <1>5, <1>15 DEF StopClose, Processes, All
  <2>2. QED
    BY <1>0, <1>1, <1>7, <1>15, <2>1, BusyShape DEF StopClose, own
<1>16. ASSUME NEW t \in Threads, StopExit(t) PROVE Shape'
  <2>1. pc' \in [Threads -> PCs] /\ \A u \in Threads : pc'[u] = "ended"
    BY <1>7, <1>16 DEF StopExit
  <2>2. QED
    BY <1>0, <1>16, <2>1 DEF StopExit, own, Shape
<1>17. ASSUME NEW t \in Threads, pc[t] \in {"fork", "wait"} PROVE AfterGetlog(t) \in Processes
  BY <1>1, <1>4 DEF AfterGetlog, Processes
<1>18. ASSUME NEW t \in Threads, Fork(t) PROVE Shape'
  <2> DEFINE k == [of |-> t, nr |-> count[t], cmd |-> cmd[t], at |-> "setup",
                   home |-> dir[t], cwd |-> proc.cwd, buf |-> proc.buf,
                   blocked |-> proc.envLock # Nobody]
  <2>1. pc[t] = "fork"
    BY <1>18 DEF Fork
  <2>2. k \in Kids
    BY <1>1, <1>2, <1>6, <2>1 DEF Kids
  <2>3. kids' \subseteq Kids
    BY <1>1, <1>18, <2>2 DEF Fork
  <2>4. PICK l \in {"prompt", "wait"} : Goto(t, l)
    BY <1>18 DEF Fork
  <2>5. QED
    BY <1>0, <1>1, <1>7, <1>18, <2>1, <2>3, <2>4, BusyShape DEF Fork, own
<1>19. ASSUME NEW t \in Threads, ForkFails(t) PROVE Shape'
  BY <1>0, <1>1, <1>7, <1>17, <1>19, BusyShape DEF ForkFails, own
<1>20. ASSUME NEW t \in Threads, Wait(t) PROVE Shape'
  <2>1. /\ pc[t] = "wait" /\ proc' = AfterGetlog(t) /\ kids' \subseteq kids
        /\ UNCHANGED <<onDisk, dir, cmd, count, wild>>
    BY <1>20 DEF Wait, own
  <2>2. PICK l \in {"log", "prompt"} : Goto(t, l)
    BY <1>20 DEF Wait
  <2>3. proc' \in Processes
    BY <1>17, <2>1
  <2>4. QED
    BY <1>0, <1>1, <1>7, <2>1, <2>2, <2>3, BusyShape
<1>21. ASSUME NEW k \in kids, KidStep(k) PROVE Shape'
  <2>1. k \in Kids
    BY <1>1, <1>21
  <2>2. /\ [k EXCEPT !.cwd = CwdFake(k.home, @), !.at = "exec"] \in Kids
        /\ \A s \in {"running", "zero", "nonzero"} : [k EXCEPT !.at = s] \in Kids
    BY <2>1, CwdFakeType DEF Kids
  <2>3. kids' \subseteq Kids
    BY <1>0, <1>21, <2>2, BecomesType DEF KidStep, KidSetup, KidExec, KidFails, KidEnd
  <2>4. k.buf \in Seq(Entries)
    BY <2>1 DEF Kids
  <2>5. proc.log \o k.buf \in Seq(Entries) /\ proc.log \o << >> \in Seq(Entries)
    BY <1>2, <1>5, <2>4, ConcatProperties
  <2>6. proc' \in Processes
    <3>1. CASE KidFails(k)
      BY <1>1, <2>5, <3>1 DEF KidFails, Processes
    <3>2. CASE KidEnd(k)
      BY <1>1, <2>5, <3>2 DEF KidEnd, LeavesBehind, Processes
    <3>3. CASE KidSetup(k) \/ KidExec(k)
      BY <1>1, <3>3 DEF KidSetup, KidExec
    <3>4. QED
      BY <1>21, <3>1, <3>2, <3>3 DEF KidStep
  <2>7. UNCHANGED <<onDisk, pc, dir, cmd, count, wild>>
    BY <1>21 DEF KidStep, KidSetup, KidExec, KidFails, KidEnd, own
  <2>8. QED
    BY <1>0, <2>3, <2>6, <2>7, KidShape
<1>22. ASSUME NEW d \in Dirs, Remove(d) PROVE Shape'
  BY <1>0, <1>22 DEF Remove, own, Shape
<1>23. CASE UNCHANGED vars
  BY <1>0, <1>23 DEF vars, own, Shape
<1>24. QED
  BY <1>10, <1>11, <1>12, <1>13, <1>14, <1>15, <1>16, <1>18, <1>19, <1>20, <1>21, <1>22,
     <1>23 DEF Next, ThreadStep

-----------------------------------------------------------------------------
(* The directory of the process.                                           *)

\* A step that neither moves a thread into cd nor touches the directories
LEMMA SameDirectories ==
  ASSUME Directories, UNCHANGED dir, onDisk' \subseteq onDisk,
         proc'.cwd = proc.cwd, proc'.cwdMutex = proc.cwdMutex,
         \A u \in Threads : pc'[u] = "chdir" => pc[u] = "chdir"
  PROVE  Directories'
BY DEF Directories

\* The directory of the process only moves under its mutex.
LEMMA NextDirectories == IInv /\ [Next]_vars => Directories'
<1> SUFFICES ASSUME IInv, [Next]_vars PROVE Directories'
    OBVIOUS
<1> USE ShellAssumption
<1>0. Shape /\ Directories /\ proc \in Processes
  BY DEF IInv, Shape
<1>1. ASSUME NEW t \in Threads, NEW l \in PCs \ {"chdir"}, Goto(t, l),
             UNCHANGED <<dir, onDisk>>, proc'.cwd = proc.cwd, proc'.cwdMutex = proc.cwdMutex
      PROVE  Directories'
  BY <1>0, <1>1, Moves, SameDirectories
<1>2. {"setenv", "print", "log", "flush", "prompt", "fork", "exit", "wait"}
        \subseteq PCs \ {"chdir"}
  BY DEF PCs
<1>3. ASSUME NEW t \in Threads, CdLock(t) PROVE Directories'
  <2>1. \A u \in Threads : pc[u] # "chdir"
    BY <1>0, <1>3 DEF CdLock, CwdFree, Directories
  <2>2. \A u \in Threads : pc'[u] = "chdir" => u = t
    BY <1>0, <1>3, <2>1, Moves DEF CdLock, PCs
  <2>3. proc'.cwdMutex = t /\ proc'.cwd = CwdFake(dir[t], proc.cwd)
    BY <1>0, <1>3 DEF CdLock, Processes
  <2>4. dir[t] \in Dirs /\ proc.cwd \in Dirs
    BY <1>0 DEF Shape, Processes
  <2>5. UNCHANGED <<dir, onDisk>>
    BY <1>3 DEF CdLock, own
  <2>6. QED
    BY <2>2, <2>3, <2>4, <2>5, CwdFakeType DEF Directories
<1>4. ASSUME NEW t \in Threads, CdChange(t) PROVE Directories'
  <2>1. pc[t] = "chdir" /\ proc.cwdMutex = t
    BY <1>0, <1>4 DEF CdChange, Directories
  <2>2. PICK l \in {"log", "prompt"} : Goto(t, l)
    BY <1>4 DEF CdChange
  <2>3. \A u \in Threads : pc'[u] # "chdir"
    BY <1>0, <1>2, <2>1, <2>2, Moves DEF Directories
  <2>4. QED
    BY <2>3 DEF Directories
<1>5. ASSUME NEW t \in Threads, ReadCommand(t) PROVE Directories'
  <2>1. PICK c \in Commands : Goto(t, FirstStep(c))
    BY <1>5 DEF ReadCommand
  <2>2. FirstStep(c) \in PCs \ {"chdir"}
    BY FirstStepType
  <2>3. QED
    BY <1>1, <1>5, <2>1, <2>2 DEF ReadCommand
<1>6. ASSUME NEW t \in Threads, PrintLock(t) \/ PrintSet(t) \/ PrintUnlock(t)
      PROVE  Directories'
  <2>1. PICK l \in {"setenv", "print", "log"} : Goto(t, l)
    BY <1>6 DEF PrintLock, PrintSet, PrintUnlock
  <2>2. proc'.cwd = proc.cwd /\ proc'.cwdMutex = proc.cwdMutex
    BY <1>0, <1>6 DEF PrintLock, PrintSet, PrintUnlock, Processes
  <2>3. UNCHANGED <<dir, onDisk>>
    BY <1>6 DEF PrintLock, PrintSet, PrintUnlock, own
  <2>4. QED
    BY <1>1, <1>2, <2>1, <2>2, <2>3
<1>7. ASSUME NEW t \in Threads, LogLock(t) \/ LogFlush(t) \/ GetlogLock(t) \/ StopClose(t)
      PROVE  Directories'
  <2>1. PICK l \in {"flush", "prompt", "fork", "exit"} : Goto(t, l)
    BY <1>7 DEF LogLock, LogFlush, GetlogLock, StopClose
  <2>2. proc'.cwd = proc.cwd /\ proc'.cwdMutex = proc.cwdMutex
    BY <1>0, <1>7 DEF LogLock, LogFlush, GetlogLock, StopClose, Processes
  <2>3. UNCHANGED <<dir, onDisk>>
    BY <1>7 DEF LogLock, LogFlush, GetlogLock, StopClose, own
  <2>4. QED
    BY <1>1, <1>2, <2>1, <2>2, <2>3
<1>8. ASSUME NEW t \in Threads, Fork(t) \/ ForkFails(t) \/ Wait(t) PROVE Directories'
  <2>1. PICK l \in {"prompt", "wait", "log"} : Goto(t, l)
    BY <1>8 DEF Fork, ForkFails, Wait
  <2>2. proc'.cwd = proc.cwd /\ proc'.cwdMutex = proc.cwdMutex
    BY <1>0, <1>8 DEF Fork, ForkFails, Wait, AfterGetlog, Processes
  <2>3. UNCHANGED <<dir, onDisk>>
    BY <1>8 DEF Fork, ForkFails, Wait, own
  <2>4. QED
    BY <1>1, <1>2, <2>1, <2>2, <2>3
<1>9. ASSUME NEW t \in Threads, StopExit(t) PROVE Directories'
  BY <1>9 DEF StopExit, Directories
<1>10. ASSUME NEW k \in kids, KidStep(k) PROVE Directories'
  <2>1. proc'.cwd = proc.cwd /\ proc'.cwdMutex = proc.cwdMutex
    BY <1>0, <1>10 DEF KidStep, KidSetup, KidExec, KidFails, KidEnd, Processes
  <2>2. UNCHANGED <<dir, onDisk, pc>>
    BY <1>10 DEF KidStep, KidSetup, KidExec, KidFails, KidEnd, own
  <2>3. QED
    BY <1>0, <2>1, <2>2, SameDirectories
<1>11. ASSUME NEW d \in Dirs, Remove(d) PROVE Directories'
  BY <1>0, <1>11, SameDirectories DEF Remove, own
<1>12. CASE UNCHANGED vars
  BY <1>0, <1>12, SameDirectories DEF vars, own
<1>13. QED
  BY <1>3, <1>4, <1>5, <1>6, <1>7, <1>8, <1>9, <1>10, <1>11, <1>12 DEF Next, ThreadStep

\* A child calls cwd_fake before it becomes a program.
LEMMA NextKidsAtHome == IInv /\ [Next]_vars => KidsAtHome'
<1> SUFFICES ASSUME IInv, [Next]_vars PROVE KidsAtHome'
    OBVIOUS
<1> USE ShellAssumption
<1>0. Shape /\ KidsAtHome
  BY DEF IInv
<1>1. onDisk' \subseteq onDisk
  BY DEF Next, ThreadStep, ReadCommand, CdLock, CdChange, PrintLock, PrintSet, PrintUnlock,
     LogLock, LogFlush, GetlogLock, StopClose, StopExit, Fork, ForkFails, Wait,
     KidStep, KidSetup, KidExec, KidFails, KidEnd, Remove, vars
<1>2. ASSUME kids' \subseteq kids PROVE KidsAtHome'
  BY <1>0, <1>1, <1>2 DEF KidsAtHome
<1>3. ASSUME NEW t \in Threads, Fork(t) PROVE KidsAtHome'
  BY <1>0, <1>1, <1>3 DEF Fork, KidsAtHome
<1>4. ASSUME NEW k \in kids, KidStep(k) PROVE KidsAtHome'
  <2>1. k \in Kids /\ k.cwd \in Dirs /\ k.home \in Dirs
    BY <1>0 DEF Shape, Kids
  <2>2. CASE KidSetup(k)
    <3> DEFINE new == [k EXCEPT !.cwd = CwdFake(k.home, @), !.at = "exec"]
    <3>1. new.cwd = CwdFake(k.home, k.cwd) /\ new.home = k.home
      BY <2>1 DEF Kids
    <3>2. new.cwd = new.home \/ new.home \notin onDisk
      BY <2>1, <3>1, CwdFakeType
    <3>3. kids' \subseteq kids \cup {new}
      BY <2>2 DEF KidSetup, Becomes
    <3> HIDE DEF new
    <3>4. QED
      BY <1>0, <1>1, <3>2, <3>3 DEF KidsAtHome
  <2>3. ASSUME NEW s, kids' \subseteq kids \cup {[k EXCEPT !.at = s]},
               k.at \in {"exec", "running"}
        PROVE  KidsAtHome'
    BY <1>0, <1>1, <2>1, <2>3 DEF KidsAtHome, Kids
  <2>4. CASE KidExec(k)
    BY <2>3, <2>4 DEF KidExec, Becomes
  <2>5. CASE KidFails(k)
    BY <2>3, <2>5 DEF KidFails, Becomes
  <2>6. CASE KidEnd(k)
    <3>1. PICK s \in {"zero", "nonzero"} : Becomes(k, [k EXCEPT !.at = s])
      BY <2>6 DEF KidEnd
    <3>2. QED
      BY <2>3, <2>6, <3>1 DEF KidEnd, Becomes
  <2>7. QED
    BY <1>4, <2>2, <2>4, <2>5, <2>6 DEF KidStep
<1>5. QED
  BY <1>2, <1>3, <1>4
     DEF Next, ThreadStep, ReadCommand, CdLock, CdChange, PrintLock, PrintSet, PrintUnlock,
     LogLock, LogFlush, GetlogLock, StopClose, StopExit, ForkFails, Wait, Remove, vars

-----------------------------------------------------------------------------
(* The log and its mutex.                                                  *)

WithLog(t) == pc[t] = "flush" \/ (pc[t] \in {"fork", "wait"} /\ cmd[t] = "getlog")

\* A step that takes nobody to the log or away from it
LEMMA SameLog ==
  ASSUME LogHeld, proc'.buf = proc.buf, proc'.open = proc.open,
         proc'.logMutex = proc.logMutex,
         \A u \in Threads : pc'[u] = "exit" => pc[u] = "exit",
         \A u \in Threads : pc[u] = "flush" => pc'[u] = "flush",
         \A u \in Threads : WithLog(u)' => WithLog(u)
  PROVE  LogHeld'
BY DEF LogHeld, WithLog

\* The mutex of the log is taken by whoever works with it, and given back.
LEMMA NextLogHeld == IInv /\ [Next]_vars => LogHeld'
<1> SUFFICES ASSUME IInv, [Next]_vars PROVE LogHeld'
    OBVIOUS
<1> USE ShellAssumption
<1>0. Shape /\ LogHeld /\ proc \in Processes
  BY DEF IInv, Shape
<1>1. proc.logMutex = Nobody /\ proc.open => \A u \in Threads : ~WithLog(u)
  BY <1>0 DEF LogHeld, WithLog
<1>2. \A t, u \in Threads : WithLog(t) /\ WithLog(u) /\ proc.open => t = u
  BY <1>0 DEF LogHeld, WithLog
<1>3. ASSUME NEW t \in Threads, NEW l \in PCs \ {"flush", "exit"}, Goto(t, l),
             pc[t] \notin {"flush"},
             \A u \in Threads \ {t} : cmd'[u] = cmd[u],
             l \in {"fork", "wait"} => cmd'[t] # "getlog" \/ WithLog(t),
             proc'.buf = proc.buf, proc'.open = proc.open, proc'.logMutex = proc.logMutex
      PROVE  LogHeld'
  BY <1>0, <1>3, Moves, SameLog DEF WithLog
<1>4. ASSUME NEW t \in Threads, ReadCommand(t) PROVE LogHeld'
  <2>1. PICK c \in Commands : cmd' = [cmd EXCEPT ![t] = c] /\ Goto(t, FirstStep(c))
    BY <1>4 DEF ReadCommand
  <2>2. /\ FirstStep(c) \in PCs \ {"flush", "exit", "wait"}
        /\ FirstStep(c) = "fork" => c # "getlog"
    BY FirstStepType
  <2>3. cmd'[t] = c /\ \A u \in Threads \ {t} : cmd'[u] = cmd[u]
    BY <1>0, <2>1 DEF Shape
  <2>4. pc[t] = "prompt" /\ proc' = proc
    BY <1>4 DEF ReadCommand
  <2>5. QED
    BY <1>3, <2>1, <2>2, <2>3, <2>4
<1>5. {"chdir", "log", "prompt", "setenv", "print", "fork", "wait"} \subseteq PCs \ {"flush", "exit"}
  BY DEF PCs
<1>6. ASSUME NEW t \in Threads,
             CdLock(t) \/ CdChange(t) \/ PrintLock(t) \/ PrintSet(t) \/ PrintUnlock(t)
      PROVE  LogHeld'
  <2>1. PICK l \in {"chdir", "log", "prompt", "setenv", "print"} : Goto(t, l)
    BY <1>6 DEF CdLock, CdChange, PrintLock, PrintSet, PrintUnlock
  <2>2. pc[t] # "flush" /\ cmd' = cmd
    BY <1>6 DEF CdLock, CdChange, PrintLock, PrintSet, PrintUnlock, own
  <2>3. proc'.buf = proc.buf /\ proc'.open = proc.open /\ proc'.logMutex = proc.logMutex
    BY <1>0, <1>6 DEF CdLock, CdChange, PrintLock, PrintSet, PrintUnlock, Processes
  <2>4. QED
    BY <1>3, <1>5, <2>1, <2>2, <2>3
<1>7. ASSUME NEW t \in Threads, LogLock(t) PROVE LogHeld'
  <2>1. /\ \A u \in Threads : pc'[u] = IF u = t THEN "flush" ELSE pc[u]
        /\ cmd' = cmd /\ proc.logMutex = Nobody
    BY <1>0, <1>7, Moves DEF LogLock, LogFree, PCs, own
  <2>2. CASE proc.open
    <3>1. proc'.logMutex = t /\ proc'.open = proc.open
      BY <1>0, <1>7, <2>2 DEF LogLock, Processes
    <3>2. QED
      BY <1>0, <1>1, <2>1, <2>2, <3>1 DEF LogHeld, WithLog
  <2>3. CASE ~proc.open
    BY <1>0, <1>7, <2>1, <2>3 DEF LogLock, LogHeld
  <2>4. QED
    BY <2>2, <2>3
<1>8. ASSUME NEW t \in Threads, LogFlush(t) PROVE LogHeld'
  <2>1. /\ \A u \in Threads : pc'[u] = IF u = t THEN "prompt" ELSE pc[u]
        /\ cmd' = cmd /\ WithLog(t)
    BY <1>0, <1>8, Moves DEF LogFlush, PCs, own, WithLog
  <2>2. CASE proc.open
    <3>1. proc'.buf = << >> /\ proc'.open = proc.open
      BY <1>0, <1>8, <2>2 DEF LogFlush, Processes
    <3>2. QED
      BY <1>0, <1>2, <2>1, <2>2, <3>1 DEF LogHeld, WithLog
  <2>3. CASE ~proc.open
    BY <1>0, <1>8, <2>1, <2>3 DEF LogFlush, LogHeld
  <2>4. QED
    BY <2>2, <2>3
<1>9. ASSUME NEW t \in Threads, GetlogLock(t) PROVE LogHeld'
  <2>1. /\ \A u \in Threads : pc'[u] = IF u = t THEN "fork" ELSE pc[u]
        /\ cmd' = cmd /\ proc.logMutex = Nobody /\ pc[t] = "getlog"
    BY <1>0, <1>9, Moves DEF GetlogLock, LogFree, PCs, own
  <2>2. proc'.logMutex = t /\ proc'.open = proc.open /\ proc'.buf = proc.buf
    BY <1>0, <1>9 DEF GetlogLock, Processes
  <2>3. QED
    BY <1>0, <1>1, <2>1, <2>2 DEF LogHeld, WithLog
<1>10. ASSUME NEW t \in Threads, StopClose(t) PROVE LogHeld'
  <2>1. proc'.buf = << >> /\ proc'.open = FALSE
    BY <1>0, <1>10 DEF StopClose, Processes
  <2>2. QED
    BY <2>1 DEF LogHeld
<1>11. ASSUME NEW t \in Threads, StopExit(t) PROVE LogHeld'
  <2>1. ~proc.open /\ proc' = proc /\ \A u \in Threads : pc'[u] = "ended"
    BY <1>0, <1>11 DEF StopExit, LogHeld
  <2>2. QED
    BY <1>0, <2>1 DEF LogHeld
<1>12. ASSUME NEW t \in Threads, Fork(t) PROVE LogHeld'
  <2>1. PICK l \in {"prompt", "wait"} : Goto(t, l)
    BY <1>12 DEF Fork
  <2>2. pc[t] = "fork" /\ cmd' = cmd /\ proc' = proc
    BY <1>12 DEF Fork, own
  <2>3. cmd[t] = "getlog" => WithLog(t)
    BY <2>2 DEF WithLog
  <2>4. QED
    BY <1>3, <1>5, <2>1, <2>2, <2>3
<1>13. ASSUME NEW t \in Threads, ForkFails(t) \/ Wait(t) PROVE LogHeld'
  <2>1. PICK l \in {"log", "prompt"} : Goto(t, l)
    BY <1>13 DEF ForkFails, Wait
  <2>2. pc[t] \in {"fork", "wait"} /\ cmd' = cmd /\ proc' = AfterGetlog(t)
    BY <1>13 DEF ForkFails, Wait, own
  <2>3. proc'.buf = proc.buf /\ proc'.open = proc.open
    BY <1>0, <2>2 DEF AfterGetlog, Processes
  <2>4. \A u \in Threads : pc'[u] = IF u = t THEN l ELSE pc[u]
    BY <1>0, <1>5, <2>1, Moves
  <2>5. CASE cmd[t] = "getlog"
    <3>1. WithLog(t)
      BY <2>2, <2>5 DEF WithLog
    <3>2. \A u \in Threads : WithLog(u)' => WithLog(u) /\ u # t
      BY <2>1, <2>2, <2>4 DEF WithLog
    <3>3. proc.open => \A u \in Threads : ~WithLog(u)'
      BY <1>2, <3>1, <3>2
    <3>4. QED
      BY <1>0, <2>1, <2>2, <2>3, <2>4, <3>3 DEF LogHeld, WithLog
  <2>6. CASE cmd[t] # "getlog"
    <3>1. proc' = proc
      BY <2>2, <2>6 DEF AfterGetlog
    <3>2. QED
      BY <1>3, <1>5, <2>1, <2>2, <2>6, <3>1
  <2>7. QED
    BY <2>5, <2>6
<1>14. ASSUME UNCHANGED <<pc, cmd>>, proc'.buf = proc.buf, proc'.open = proc.open,
              proc'.logMutex = proc.logMutex
       PROVE  LogHeld'
  BY <1>0, <1>14, SameLog DEF WithLog
<1>15. ASSUME NEW k \in kids, KidStep(k) PROVE LogHeld'
  <2>1. proc'.buf = proc.buf /\ proc'.open = proc.open /\ proc'.logMutex = proc.logMutex
    BY <1>0, <1>15 DEF KidStep, KidSetup, KidExec, KidFails, KidEnd, Processes
  <2>2. UNCHANGED <<pc, cmd>>
    BY <1>15 DEF KidStep, KidSetup, KidExec, KidFails, KidEnd, own
  <2>3. QED
    BY <1>14, <2>1, <2>2
<1>16. ASSUME NEW d \in Dirs, Remove(d) PROVE LogHeld'
  BY <1>14, <1>16 DEF Remove, own
<1>17. CASE UNCHANGED vars
  BY <1>14, <1>17 DEF vars, own
<1>18. QED
  BY <1>4, <1>6, <1>7, <1>8, <1>9, <1>10, <1>11, <1>12, <1>13, <1>15, <1>16, <1>17
     DEF Next, ThreadStep

-----------------------------------------------------------------------------
(* The children.                                                           *)

\* A thread that does not wait has no child but background commands.
LEMMA NoChild ==
  ASSUME KidsWaitedFor, NEW t \in Threads, pc[t] \notin {"wait", "ended"}
  PROVE  \A k \in kids : k.of = t => k.cmd = "run-bg"
BY DEF KidsWaitedFor, Waited

\* What a thread does that has no child it waits for
LEMMA SameChildren ==
  ASSUME Shape, KidsWaitedFor, NEW t \in Threads, pc[t] \notin {"wait", "ended"},
         \A u \in Threads \ {t} : pc'[u] = pc[u] /\ count'[u] = count[u] /\ cmd'[u] = cmd[u],
         kids' = kids
  PROVE  KidsWaitedFor'
<1>1. \A k \in kids : k.of \in Threads /\ (k.cmd # "run-bg" => k.of # t)
  BY NoChild DEF Shape, Kids
<1>2. \A k \in kids : Waited(k)' => Waited(k) /\ k.of # t
  BY <1>1 DEF Waited
<1>3. QED
  BY <1>1, <1>2 DEF KidsWaitedFor

\* A parent starts one child and waits for it, before it goes on to the next.
LEMMA NextChildren == IInv /\ [Next]_vars => KidsWaitedFor'
<1> SUFFICES ASSUME IInv, [Next]_vars PROVE KidsWaitedFor'
    OBVIOUS
<1> USE ShellAssumption
<1>0. Shape /\ KidsWaitedFor
  BY DEF IInv
<1>1. \A k \in kids : k \in Kids /\ k.of \in Threads
  BY <1>0 DEF Shape, Kids
<1>2. ASSUME NEW t \in Threads, ReadCommand(t) PROVE KidsWaitedFor'
  BY <1>0, <1>2, SameChildren DEF ReadCommand, Goto, Shape
<1>3. ASSUME NEW t \in Threads,
             \/ CdLock(t) \/ CdChange(t) \/ PrintLock(t) \/ PrintSet(t) \/ PrintUnlock(t)
             \/ LogLock(t) \/ LogFlush(t) \/ GetlogLock(t) \/ StopClose(t) \/ ForkFails(t)
      PROVE  KidsWaitedFor'
  <2>1. PICK l : Goto(t, l)
    BY <1>3 DEF CdLock, CdChange, PrintLock, PrintSet, PrintUnlock, LogLock, LogFlush,
       GetlogLock, StopClose, ForkFails
  <2>2. UNCHANGED <<cmd, count, kids>> /\ pc[t] \notin {"wait", "ended"}
    BY <1>3 DEF CdLock, CdChange, PrintLock, PrintSet, PrintUnlock, LogLock, LogFlush,
       GetlogLock, StopClose, ForkFails, own
  <2>3. \A u \in Threads \ {t} : pc'[u] = pc[u]
    BY <1>0, <2>1 DEF Shape, Goto
  <2>4. QED
    BY <1>0, <2>2, <2>3, SameChildren
<1>4. ASSUME NEW t \in Threads, StopExit(t) PROVE KidsWaitedFor'
  <2>1. kids' = kids /\ \A u \in Threads : pc'[u] = "ended"
    BY <1>4 DEF StopExit
  <2>2. QED
    BY <1>0, <1>1, <2>1 DEF KidsWaitedFor, Waited
<1>5. ASSUME NEW t \in Threads, Fork(t) PROVE KidsWaitedFor'
  <2> DEFINE new == [of |-> t, nr |-> count[t], cmd |-> cmd[t], at |-> "setup",
                     home |-> dir[t], cwd |-> proc.cwd, buf |-> proc.buf,
                     blocked |-> proc.envLock # Nobody]
  <2>1. new.of = t /\ new.nr = count[t] /\ new.cmd = cmd[t] /\ new.at = "setup"
    OBVIOUS
  <2>2. kids' = kids \cup {new}
    BY <1>5 DEF Fork
  <2> HIDE DEF new
  <2>3. /\ \A u \in Threads :
             pc'[u] = IF u # t THEN pc[u] ELSE IF cmd[t] = "run-bg" THEN "prompt" ELSE "wait"
        /\ UNCHANGED <<cmd, count>> /\ pc[t] = "fork"
    BY <1>0, <1>5 DEF Fork, Goto, Shape, own
  <2>4. \A k \in kids : k.of = t => k.cmd = "run-bg"
    BY <1>0, <2>3, NoChild
  <2>5. \A k \in kids : Waited(k)' => Waited(k) /\ k.of # t
    BY <1>1, <2>3, <2>4 DEF Waited
  <2>6. /\ \A k \in kids' : Waited(k)' =>
             pc'[k.of] = "wait" /\ k.nr = count'[k.of] /\ k.cmd = cmd'[k.of]
        /\ \A k \in kids' : k.at \in {"zero", "nonzero"} => k.cmd # "run-bg"
    BY <1>0, <1>1, <2>1, <2>2, <2>3, <2>5 DEF KidsWaitedFor, Waited
  <2>7. \A j, k \in kids' : Waited(j)' /\ Waited(k)' /\ j.of = k.of => j = k
    BY <1>0, <2>1, <2>2, <2>5 DEF KidsWaitedFor
  <2>8. QED
    BY <2>6, <2>7 DEF KidsWaitedFor
<1>6. ASSUME NEW t \in Threads, Wait(t) PROVE KidsWaitedFor'
  <2>1. PICK k \in kids : /\ pc[t] = "wait" /\ k.of = t /\ k.at \in {"zero", "nonzero"}
                          /\ kids' = kids \ {k}
                          /\ Goto(t, IF k.at = "zero" THEN "log" ELSE "prompt")
    BY <1>6 DEF Wait
  <2>2. Waited(k)
    BY <1>0, <2>1 DEF KidsWaitedFor, Waited
  <2>3. UNCHANGED <<cmd, count>> /\ \A u \in Threads \ {t} : pc'[u] = pc[u]
    BY <1>0, <1>6, <2>1 DEF Wait, own, Goto, Shape
  <2>4. \A j \in kids' : Waited(j)' => Waited(j) /\ j.of # t
    BY <1>0, <1>1, <2>1, <2>2, <2>3 DEF KidsWaitedFor, Waited
  <2>5. QED
    BY <1>0, <1>1, <2>1, <2>3, <2>4 DEF KidsWaitedFor
<1>7. ASSUME NEW k \in kids, KidStep(k) PROVE KidsWaitedFor'
  <2>1. PICK new : /\ Becomes(k, new)
                   /\ new.of = k.of /\ new.nr = k.nr /\ new.cmd = k.cmd
    <3>1. /\ [k EXCEPT !.cwd = CwdFake(k.home, @), !.at = "exec"].of = k.of
          /\ [k EXCEPT !.cwd = CwdFake(k.home, @), !.at = "exec"].nr = k.nr
          /\ [k EXCEPT !.cwd = CwdFake(k.home, @), !.at = "exec"].cmd = k.cmd
      BY <1>1 DEF Kids
    <3>2. \A s : /\ [k EXCEPT !.at = s].of = k.of /\ [k EXCEPT !.at = s].nr = k.nr
                 /\ [k EXCEPT !.at = s].cmd = k.cmd
      BY <1>1 DEF Kids
    <3>3. CASE KidSetup(k)
      BY <3>1, <3>3 DEF KidSetup
    <3>4. CASE KidExec(k)
      BY <3>2, <3>4 DEF KidExec
    <3>5. CASE KidFails(k)
      BY <3>2, <3>5 DEF KidFails
    <3>6. CASE KidEnd(k)
      BY <3>2, <3>6 DEF KidEnd
    <3>7. QED
      BY <1>7, <3>3, <3>4, <3>5, <3>6 DEF KidStep
  <2>2. UNCHANGED <<pc, cmd, count>>
    BY <1>7 DEF KidStep, KidSetup, KidExec, KidFails, KidEnd, own
  <2>3. /\ kids' \subseteq (kids \ {k}) \cup {new}
        /\ new \in kids' => new.cmd # "run-bg" \/ new.at \notin {"zero", "nonzero"} \/ new \in kids
    BY <2>1 DEF Becomes
  <2>4. \A j : Waited(j)' <=> Waited(j)
    BY <2>2 DEF Waited
  <2>5. Waited(new) <=> Waited(k)
    BY <2>1 DEF Waited
  <2>6. \A j \in kids' : Waited(j)' =>
          pc'[j.of] = "wait" /\ j.nr = count'[j.of] /\ j.cmd = cmd'[j.of]
    BY <1>0, <2>1, <2>2, <2>3, <2>4, <2>5 DEF KidsWaitedFor
  <2>7. \A i, j \in kids' : Waited(i)' /\ Waited(j)' /\ i.of = j.of => i = j
    BY <1>0, <2>1, <2>3, <2>4, <2>5 DEF KidsWaitedFor
  <2>8. \A j \in kids' : j.at \in {"zero", "nonzero"} => j.cmd # "run-bg"
    BY <1>0, <2>3 DEF KidsWaitedFor
  <2>9. QED
    BY <2>6, <2>7, <2>8 DEF KidsWaitedFor
<1>8. ASSUME UNCHANGED <<pc, cmd, count, kids>> PROVE KidsWaitedFor'
  BY <1>0, <1>8 DEF KidsWaitedFor, Waited
<1>9. ASSUME NEW d \in Dirs, Remove(d) PROVE KidsWaitedFor'
  BY <1>8, <1>9 DEF Remove, own
<1>10. CASE UNCHANGED vars
  BY <1>8, <1>10 DEF vars, own
<1>11. QED
  BY <1>2, <1>3, <1>4, <1>5, <1>6, <1>7, <1>9, <1>10 DEF Next, ThreadStep

-----------------------------------------------------------------------------
(* The order of the log.                                                   *)

Settled == {"prompt", "flush", "ended"}

\* A step that adds nothing to the log, and takes no command back
LEMMA SameOrder ==
  ASSUME Shape, InOrder, proc'.echoed = proc.echoed, All' = All,
         \A u \in Threads : \/ count'[u] = count[u] /\ (pc[u] \in Settled => pc'[u] \in Settled)
                            \/ count'[u] = count[u] + 1
  PROVE  InOrder'
<1>1. CASE proc.echoed
  BY <1>1 DEF InOrder
<1>2. CASE ~proc.echoed
  <2>1. Ordered(All) /\ Older(All)
    BY <1>2 DEF InOrder
  <2>2. Ordered(All)'
    BY <2>1 DEF Ordered
  <2>3. ASSUME NEW i \in DOMAIN All
        PROVE  \/ All[i].nr < count'[All[i].by]
               \/ All[i].nr = count'[All[i].by] /\ pc'[All[i].by] \in Settled
    <3> DEFINE u == All[i].by
    <3>1. All[i] \in Entries
      <4>1. All \in Seq(Entries)
        BY ProcType
      <4>2. QED
        BY <4>1, LenProperties, ElementOfSeq
    <3>2. u \in Threads /\ All[i].nr \in Int
      BY <3>1 DEF Entries
    <3>3. count[u] \in Int
      BY <3>2, ShellAssumption DEF Shape
    <3>4. All[i].nr < count[u] \/ (All[i].nr = count[u] /\ pc[u] \in Settled)
      BY <2>1 DEF Older, Settled
    <3> HIDE DEF u
    <3>5. All[i].nr < count'[u] \/ (All[i].nr = count'[u] /\ pc'[u] \in Settled)
      BY <3>2, <3>3, <3>4
    <3>6. QED
      BY <3>5 DEF u
  <2>4. Older(All)'
    BY <2>3 DEF Older, Settled
  <2>5. QED
    BY <2>2, <2>4 DEF InOrder
<1>3. QED
  BY <1>1, <1>2

\* What is appended to the second part is appended to the whole.
LEMMA ConcatAppend ==
  ASSUME NEW S, NEW q \in Seq(S), NEW r \in Seq(S), NEW e \in S
  PROVE  q \o Append(r, e) = Append(q \o r, e)
<1>1. /\ q \o r \in Seq(S) /\ Append(r, e) \in Seq(S)
      /\ Len(q) \in Nat /\ Len(r) \in Nat /\ Len(q \o r) = Len(q) + Len(r)
      /\ Len(Append(r, e)) = Len(r) + 1
  BY ConcatProperties, AppendProperties, LenProperties
<1> DEFINE a == q \o Append(r, e)
           b == Append(q \o r, e)
<1>2. /\ a \in Seq(S) /\ b \in Seq(S)
      /\ Len(a) = Len(q) + Len(r) + 1 /\ Len(b) = Len(q) + Len(r) + 1
  BY <1>1, ConcatProperties, AppendProperties
<1>3. ASSUME NEW i \in 1..(Len(q) + Len(r) + 1)
      PROVE  a[i] = b[i]
  <2> DEFINE s == Append(r, e)
  <2>1. a[i] = IF i <= Len(q) THEN q[i] ELSE s[i - Len(q)]
    <3>1. s \in Seq(S) /\ a = q \o s /\ i \in 1..(Len(q) + Len(s))
      BY <1>1
    <3> HIDE DEF a, s
    <3>2. QED
      BY <3>1, ConcatProperties
  <2>2. CASE i \in 1..(Len(q) + Len(r))
    <3>1. b[i] = (q \o r)[i]
      BY <1>1, <2>2, AppendProperties
    <3>2. (q \o r)[i] = IF i <= Len(q) THEN q[i] ELSE r[i - Len(q)]
      BY <2>2, ConcatProperties
    <3>3. i > Len(q) => i - Len(q) \in 1..Len(r)
      BY <1>1, <2>2
    <3>4. i > Len(q) => Append(r, e)[i - Len(q)] = r[i - Len(q)]
      BY <3>3, AppendProperties
    <3>5. QED
      BY <1>1, <2>1, <2>2, <3>1, <3>2, <3>4
  <2>3. CASE i = Len(q) + Len(r) + 1
    <3>1. b[i] = e
      BY <1>1, <2>3, AppendProperties
    <3>2. Append(r, e)[i - Len(q)] = e
      BY <1>1, <2>3, AppendProperties
    <3>3. QED
      BY <1>1, <2>1, <2>3, <3>1, <3>2
  <2>4. QED
    BY <1>1, <2>2, <2>3
<1>4. QED
  BY <1>2, <1>3, SeqEqual

\* A thread logs its command after those that it has logged before.
LEMMA LogsNext ==
  ASSUME Shape, InOrder, NEW t \in Threads, LogLock(t), proc.open
  PROVE  InOrder'
<1> DEFINE e == [by |-> t, nr |-> count[t]]
<1>0. /\ proc \in Processes /\ pc[t] = "log" /\ count' = count
      /\ proc' = [proc EXCEPT !.logMutex = t, !.buf = Append(@, e)]
  BY DEF Shape, LogLock, own
<1>1. proc'.log = proc.log /\ proc'.buf = Append(proc.buf, e) /\ proc'.echoed = proc.echoed
  BY <1>0 DEF Processes
<1>2. e \in Entries /\ e.by = t /\ e.nr = count[t]
  BY <1>0 DEF Shape, Entries
<1>3. \A u \in Threads : pc'[u] = IF u = t THEN "flush" ELSE pc[u]
  BY Moves DEF LogLock, PCs
<1> HIDE DEF e
<1>4. proc.log \in Seq(Entries) /\ proc.buf \in Seq(Entries) /\ All \in Seq(Entries)
  BY ProcType
<1>5. All' = Append(All, e)
  <2>1. proc.log \o Append(proc.buf, e) = Append(proc.log \o proc.buf, e)
    <3>1. \A q, r \in Seq(Entries), x \in Entries : q \o Append(r, x) = Append(q \o r, x)
      BY ConcatAppend
    <3>2. QED
      BY <1>2, <1>4, <3>1, Zenon
  <2>2. QED
    BY <1>1, <2>1 DEF All
<1>6. /\ Len(All') = Len(All) + 1 /\ Len(All) \in Nat
      /\ \A i \in 1..Len(All) : All'[i] = All[i] /\ All[i] \in Entries
      /\ All'[Len(All) + 1] = e
      /\ DOMAIN All = 1..Len(All) /\ DOMAIN All' = 1..(Len(All) + 1)
  <2>1. All' \in Seq(Entries) /\ Len(All') = Len(All) + 1 /\ Len(All) \in Nat
    BY <1>2, <1>4, <1>5, AppendProperties, LenProperties
  <2>2. DOMAIN All = 1..Len(All) /\ DOMAIN All' = 1..(Len(All) + 1)
    BY <1>4, <2>1, LenProperties
  <2>3. /\ \A i \in 1..Len(All) : All'[i] = All[i] /\ All[i] \in Entries
        /\ All'[Len(All) + 1] = e
    BY <1>2, <1>4, <1>5, AppendProperties, ElementOfSeq
  <2>4. QED
    BY <2>1, <2>2, <2>3
<1>7. CASE proc.echoed
  BY <1>1, <1>7 DEF InOrder
<1>8. CASE ~proc.echoed
  <2>1. Ordered(All) /\ Older(All)
    BY <1>8 DEF InOrder
  <2>2. \A i \in 1..Len(All) : /\ All[i].by \in Threads /\ All[i].nr \in Int
                               /\ All[i].by = t => All[i].nr < count[t]
    BY <1>0, <1>6, <2>1 DEF Older, Entries
  <2>3. Older(All)'
    <3>1. ASSUME NEW i \in 1..Len(All)
          PROVE  \/ All'[i].nr < count'[All'[i].by]
                 \/ All'[i].nr = count'[All'[i].by] /\ pc'[All'[i].by] \in Settled
      BY <1>0, <1>3, <1>6, <2>1, <2>2 DEF Older, Settled
    <3>2. e.nr = count'[e.by] /\ pc'[e.by] \in Settled
      BY <1>0, <1>2, <1>3 DEF Settled
    <3>3. \A i \in 1..(Len(All) + 1) : i \in 1..Len(All) \/ i = Len(All) + 1
      BY <1>6
    <3>4. QED
      BY <1>6, <3>1, <3>2, <3>3 DEF Older, Settled
  <2>4. Ordered(All)'
    <3>1. ASSUME NEW i \in 1..(Len(All) + 1), NEW j \in 1..(Len(All) + 1), i < j,
                 All'[i].by = All'[j].by
          PROVE  All'[i].nr < All'[j].nr
      <4>1. CASE j \in 1..Len(All)
        <5>1. i \in 1..Len(All)
          BY <1>6, <3>1, <4>1
        <5>2. QED
          BY <1>6, <2>1, <3>1, <4>1, <5>1 DEF Ordered
      <4>2. CASE j = Len(All) + 1
        <5>1. i \in 1..Len(All)
          BY <1>6, <3>1, <4>2
        <5>2. QED
          BY <1>2, <1>6, <2>2, <3>1, <4>2, <5>1
      <4>3. QED
        BY <1>6, <4>1, <4>2
    <3>2. QED
      BY <1>6, <3>1 DEF Ordered
  <2>5. QED
    BY <2>3, <2>4 DEF InOrder, Ordered, Older
<1>9. QED
  BY <1>7, <1>8

\* What a child has copied is written by one that found no program only.
LEMMA NextInOrder == IInv /\ [Next]_vars => InOrder'
<1> SUFFICES ASSUME IInv, [Next]_vars PROVE InOrder'
    OBVIOUS
<1> USE ShellAssumption
<1>0. Shape /\ InOrder /\ proc \in Processes
  BY DEF IInv, Shape
<1>1. proc.log \in Seq(Entries) /\ proc.buf \in Seq(Entries) /\ All \in Seq(Entries)
  BY <1>0, ProcType
<1>2. ASSUME proc'.log = proc.log, proc'.buf = proc.buf PROVE All' = All
  BY <1>2 DEF All
<1>3. ASSUME proc'.log = All, proc'.buf = << >> PROVE All' = All
  BY <1>1, <1>3, ConcatEmptySeq DEF All
<1>4. ASSUME NEW t \in Threads, NEW l \in PCs, Goto(t, l), pc[t] \notin Settled \/ l \in Settled,
             count' = count, proc'.echoed = proc.echoed, All' = All
      PROVE  InOrder'
  BY <1>0, <1>4, Moves, SameOrder
<1>5. {"chdir", "log", "prompt", "setenv", "print", "flush", "fork", "wait", "exit"} \subseteq PCs
  BY DEF PCs
<1>6. ASSUME NEW t \in Threads, ReadCommand(t) PROVE InOrder'
  <2>1. /\ count' = [count EXCEPT ![t] = @ + 1] /\ proc' = proc
        /\ \A u \in Threads \ {t} : pc'[u] = pc[u]
    BY <1>0, <1>6 DEF ReadCommand, Goto, Shape
  <2>2. \A u \in Threads : \/ count'[u] = count[u] /\ pc'[u] = pc[u]
                           \/ count'[u] = count[u] + 1
    BY <1>0, <2>1 DEF Shape
  <2>3. QED
    BY <1>0, <1>2, <2>1, <2>2, SameOrder
<1>7. ASSUME NEW t \in Threads,
             \/ CdLock(t) \/ CdChange(t) \/ PrintLock(t) \/ PrintSet(t) \/ PrintUnlock(t)
             \/ GetlogLock(t) \/ Fork(t) \/ ForkFails(t) \/ Wait(t)
      PROVE  InOrder'
  <2>1. PICK l \in {"chdir", "log", "prompt", "setenv", "print", "fork", "wait"} : Goto(t, l)
    BY <1>7 DEF CdLock, CdChange, PrintLock, PrintSet, PrintUnlock, GetlogLock, Fork,
       ForkFails, Wait
  <2>2. pc[t] \notin Settled /\ count' = count
    BY <1>7 DEF CdLock, CdChange, PrintLock, PrintSet, PrintUnlock, GetlogLock, Fork,
       ForkFails, Wait, own, Settled
  <2>3. proc'.log = proc.log /\ proc'.buf = proc.buf /\ proc'.echoed = proc.echoed
    <3>1. CASE \/ CdLock(t) \/ CdChange(t) \/ PrintLock(t) \/ PrintSet(t) \/ PrintUnlock(t)
               \/ GetlogLock(t) \/ Fork(t)
      BY <1>0, <3>1 DEF CdLock, CdChange, PrintLock, PrintSet, PrintUnlock, GetlogLock,
         Fork, Processes
    <3>2. CASE ForkFails(t) \/ Wait(t)
      BY <1>0, <3>2 DEF ForkFails, Wait, AfterGetlog, Processes
    <3>3. QED
      BY <1>7, <3>1, <3>2
  <2>4. QED
    BY <1>2, <1>4, <1>5, <2>1, <2>2, <2>3
<1>8. ASSUME NEW t \in Threads, LogLock(t) PROVE InOrder'
  <2>1. CASE proc.open
    BY <1>0, <1>8, <2>1, LogsNext
  <2>2. CASE ~proc.open
    <3>1. Goto(t, "flush") /\ count' = count /\ proc' = proc
      BY <1>8, <2>2 DEF LogLock, own
    <3>2. QED
      BY <1>2, <1>4, <1>5, <3>1 DEF Settled
  <2>3. QED
    BY <2>1, <2>2
<1>9. ASSUME NEW t \in Threads, LogFlush(t) PROVE InOrder'
  <2>1. Goto(t, "prompt") /\ count' = count
    BY <1>9 DEF LogFlush, own
  <2>2. proc'.echoed = proc.echoed
    BY <1>0, <1>9 DEF LogFlush, Processes
  <2>3. All' = All
    <3>1. ASSUME proc.open PROVE proc'.log = All /\ proc'.buf = << >>
      BY <1>0, <1>9, <3>1 DEF LogFlush, Processes, All
    <3>2. ASSUME ~proc.open PROVE proc' = proc
      BY <1>9, <3>2 DEF LogFlush
    <3>3. QED
      BY <1>2, <1>3, <3>1, <3>2
  <2>4. QED
    BY <1>4, <1>5, <2>1, <2>2, <2>3 DEF Settled
<1>10. ASSUME NEW t \in Threads, StopClose(t) PROVE InOrder'
  <2>1. Goto(t, "exit") /\ count' = count /\ pc[t] \notin Settled
    BY <1>10 DEF StopClose, own, Settled
  <2>2. proc'.echoed = proc.echoed /\ proc'.log = All /\ proc'.buf = << >>
    BY <1>0, <1>10 DEF StopClose, Processes, All
  <2>3. QED
    BY <1>3, <1>4, <1>5, <2>1, <2>2
<1>11. ASSUME NEW t \in Threads, StopExit(t) PROVE InOrder'
  <2>1. proc' = proc /\ count' = count /\ \A u \in Threads : pc'[u] \in Settled
    BY <1>11 DEF StopExit, own, Settled
  <2>2. QED
    BY <1>0, <1>2, <2>1, SameOrder
<1>12. ASSUME UNCHANGED <<pc, count>>, proc'.echoed = proc.echoed, All' = All PROVE InOrder'
  BY <1>0, <1>12, SameOrder
<1>13. ASSUME NEW k \in kids, KidStep(k) PROVE InOrder'
  <2>1. UNCHANGED <<pc, count>> /\ k.buf \in Seq(Entries)
    BY <1>0, <1>13 DEF KidStep, KidSetup, KidExec, KidFails, KidEnd, own, Shape, Kids
  <2>2. CASE KidSetup(k) \/ KidExec(k)
    <3>1. proc' = proc
      BY <2>2 DEF KidSetup, KidExec
    <3>2. QED
      BY <1>2, <1>12, <2>1, <3>1
  <2>3. CASE KidFails(k)
    <3>1. /\ proc'.log = proc.log \o k.buf /\ proc'.buf = proc.buf
          /\ proc'.echoed = (proc.echoed \/ k.buf # << >>)
      BY <1>0, <2>3 DEF KidFails, Processes
    <3>2. CASE k.buf = << >>
      <4>1. proc'.log = proc.log
        BY <1>1, <3>1, <3>2, ConcatEmptySeq
      <4>2. proc'.echoed = proc.echoed
        BY <1>0, <3>1, <3>2 DEF Processes
      <4>3. QED
        BY <1>2, <1>12, <2>1, <3>1, <4>1, <4>2
    <3>3. CASE k.buf # << >>
      BY <3>1, <3>3 DEF InOrder
    <3>4. QED
      BY <3>2, <3>3
  <2>4. CASE KidEnd(k)
    <3>1. proc' = [proc EXCEPT !.log = @ \o << >>]
      BY <2>4 DEF KidEnd, LeavesBehind
    <3>2. proc'.log = proc.log /\ proc'.buf = proc.buf /\ proc'.echoed = proc.echoed
      BY <1>0, <1>1, <3>1, ConcatEmptySeq DEF Processes
    <3>3. QED
      BY <1>2, <1>12, <2>1, <3>2
  <2>5. QED
    BY <1>13, <2>2, <2>3, <2>4 DEF KidStep
<1>14. ASSUME NEW d \in Dirs, Remove(d) PROVE InOrder'
  BY <1>2, <1>12, <1>14 DEF Remove, own
<1>15. CASE UNCHANGED vars
  BY <1>2, <1>12, <1>15 DEF vars, own
<1>16. QED
  BY <1>6, <1>7, <1>8, <1>9, <1>10, <1>11, <1>13, <1>14, <1>15 DEF Next, ThreadStep

-----------------------------------------------------------------------------
(* What the shell promises.                                                *)

\* Every step keeps the invariant.
LEMMA NextInv == IInv /\ [Next]_vars => IInv'
<1> SUFFICES ASSUME IInv, [Next]_vars PROVE IInv'
    OBVIOUS
<1>1. Shape' /\ Directories' /\ KidsAtHome' /\ LogHeld' /\ KidsWaitedFor' /\ InOrder'
  BY NextShape, NextDirectories, NextKidsAtHome, NextLogHeld, NextChildren, NextInOrder
<1>2. QED
  BY <1>1 DEF IInv

\* So it holds in every state of every run of shell.c.
LEMMA Invariant == Spec => []IInv
<1>1. QED
  BY InitInv, NextInv, PTL DEF Spec

\* The values every variable of the shell ranges over, for every client,
\* command and directory.
THEOREM TypeCorrect == Spec => []TypeOK
<1>1. IInv => TypeOK
  <2> SUFFICES ASSUME IInv PROVE TypeOK
      OBVIOUS
  <2>1. Shape
    BY DEF IInv
  <2>2. /\ proc.cwd \in Dirs /\ {proc.open, proc.echoed} \subseteq BOOLEAN
        /\ {proc.cwdMutex, proc.logMutex, proc.pathMutex, proc.envLock}
             \subseteq Threads \cup {Nobody}
        /\ proc.buf \in Seq(Entries) /\ proc.log \in Seq(Entries)
    BY <2>1 DEF Shape, Processes, Holders
  <2>3. QED
    BY <2>1, <2>2 DEF Shape, TypeOK, PCs
<1>2. QED
  BY <1>1, Invariant, PTL

\* A program runs in the directory of the client that started it, wherever cd
\* has taken the process, unless that directory is gone: cwd_fake in the child.
THEOREM OwnPlace == Spec => []OwnDirectory
<1>1. IInv => OwnDirectory
  BY DEF IInv, KidsAtHome, OwnDirectory
<1>2. QED
  BY <1>1, Invariant, PTL

\* The program that getlog runs sees no log with a line that has been written
\* and not flushed: getlog keeps log_mutex until it ends.
THEOREM LogWhole == Spec => []LogReadWhole
<1>1. IInv => LogReadWhole
  <2> SUFFICES ASSUME IInv, NEW k \in kids, k.cmd = "getlog", k.at = "running",
                      pc[k.of] = "wait", proc.buf # << >>
               PROVE  FALSE
      BY DEF LogReadWhole
  <2>1. k.of \in Threads
    BY DEF IInv, Shape, Kids
  <2>2. cmd[k.of] = "getlog"
    BY DEF IInv, KidsWaitedFor, Waited
  <2>3. PICK t \in Threads : pc[t] = "flush" /\ proc.open
    BY DEF IInv, LogHeld
  <2>4. proc.logMutex = t /\ proc.logMutex = k.of
    BY <2>1, <2>2, <2>3 DEF IInv, LogHeld
  <2>5. QED
    BY <2>3, <2>4
<1>2. QED
  BY <1>1, Invariant, PTL

\* A command is logged once, and those of a client in their order, as long as
\* no child has written what it had copied of the buffer of the log.
THEOREM LoggedInOrder == Spec => []LoggedOnce
<1>1. IInv => LoggedOnce
  BY DEF IInv, InOrder, LoggedOnce, Ordered, All
<1>2. QED
  BY <1>1, Invariant, PTL

\* cd takes a client from its own directory to the one it named, whatever the
\* other threads do to the directory of the process: cwd_mutex in cd.
THEOREM CdOwn == Spec => CdFromOwnDirectory
<1> USE ShellAssumption
<1> DEFINE Own(t) == \/ cmd[t] = "cd" /\ dir'[t] = Root
                     \/ cmd[t] = "cd-x" /\ dir'[t] = Enter[dir[t]]
                     \/ dir[t] \notin onDisk
<1>1. ASSUME IInv, [Next]_vars, NEW t \in Threads, dir'[t] # dir[t]
      PROVE  Own(t)
  <2>1. Shape /\ Directories
    BY <1>1 DEF IInv
  <2>2. ASSUME UNCHANGED dir PROVE FALSE
    BY <1>1, <2>2
  <2>3. CdChange(t)
    <3>1. PICK u \in Threads : CdChange(u)
      BY <1>1, <2>2 DEF Next, ThreadStep, ReadCommand, CdLock, PrintLock, PrintSet,
         PrintUnlock, LogLock, LogFlush, GetlogLock, StopClose, StopExit, Fork, ForkFails,
         Wait, KidStep, KidSetup, KidExec, KidFails, KidEnd, Remove, own, vars
    <3>2. u = t
      BY <1>1, <2>1, <3>1 DEF CdChange, Shape
    <3>3. QED
      BY <3>1, <3>2
  <2>4. pc[t] = "chdir" /\ cmd[t] \in {"cd", "cd-x"}
    BY <2>1, <2>3 DEF CdChange, Shape
  <2>5. proc.cwd = dir[t] \/ dir[t] \notin onDisk
    BY <2>1, <2>4 DEF Directories
  <2> DEFINE new == Chdir(Target(cmd[t]))
  <2>6. new \in onDisk /\ dir'[t] = new
    BY <1>1, <2>1, <2>3 DEF CdChange, Shape
  <2>7. new = Target(cmd[t]) \/ new = proc.cwd
    BY DEF Chdir
  <2>8. CASE new = proc.cwd
    BY <1>1, <2>5, <2>6, <2>8
  <2>9. CASE new = Target(cmd[t]) /\ new # proc.cwd
    <3>1. CASE cmd[t] = "cd"
      BY <2>6, <2>9, <3>1 DEF Target
    <3>2. CASE cmd[t] = "cd-x"
      <4>1. NoDir \notin onDisk
        BY <2>1 DEF Shape
      <4>2. new = Enter[proc.cwd]
        BY <2>6, <2>9, <3>2, <4>1 DEF Target
      <4>3. QED
        BY <2>5, <2>6, <3>2, <4>2
    <3>3. QED
      BY <2>4, <3>1, <3>2
  <2>10. QED
    BY <2>7, <2>8, <2>9
<1>2. ASSUME IInv, [Next]_vars
      PROVE  [\A t \in Threads : dir'[t] # dir[t] => Own(t)]_vars
  BY <1>1, <1>2
<1>3. QED
  BY <1>2, Invariant, PTL DEF Spec, CdFromOwnDirectory
=============================================================================
